------------------------- MODULE MsSqlSessionProofs -------------------------
(***************************************************************************)
(* Theorems about MsSqlSession for every CancelPoints and MaxDepth.        *)
(***************************************************************************)
EXTENDS MsSqlSession, TLAPS

(* No future is dropped at the two awaits query_each leaves unguarded.      *)
GuardedDrops == CancelPoints \cap UnguardedAwaits = {}

-----------------------------------------------------------------------------
(* Members of the constant sets, so that the proofs need not open them.     *)
LEMMA Members ==
  /\ "begin" \in Awaits /\ "count" \in Awaits /\ "commit" \in Awaits
  /\ "rollback" \in Awaits /\ "rows" \in Awaits /\ "recount" \in Awaits
  /\ "connect" \in Awaits /\ "autoBegin" \in Awaits
  /\ "autoCommit" \in Awaits /\ "acquireBegin" \in Awaits
  /\ "acquireLayout" \in Awaits /\ "acquireRead" \in Awaits
  /\ "acquireStream" \in Awaits /\ "acquireCommit" \in Awaits
  /\ "cleanup" \in Awaits /\ "verify" \in Awaits
  /\ "none" \in Answers /\ "ok" \in Answers /\ "true" \in Answers
  /\ "false" \in Answers /\ "error" \in Answers /\ "dropped" \in Answers
  /\ "idle" \in Wires /\ "unread" \in Wires /\ "torn" \in Wires
  /\ "client" \in Flags /\ "poisoned" \in Flags /\ "explicit" \in Flags
  /\ "pending" \in Flags
  /\ "idle" \notin Awaits /\ "entry" \notin Awaits /\ "closed" \notin Awaits
  /\ "begin" \notin Acquisitions /\ "active" \notin Acquisitions
  /\ "commit" \notin Acquisitions /\ "rollback" \notin Acquisitions
  /\ "query" \notin Acquisitions /\ "cancel" \notin Acquisitions
  /\ "none" \notin Operations /\ "cancel" \in Operations
  /\ Acquisitions \subseteq Operations
  /\ 0 \in 0..MaxDepth /\ 1 \in 0..MaxDepth
  BY MsSqlAssumption
  DEF Awaits, Answers, Wires, Flags, Operations, Acquisitions, MsSqlAssumption

(* The depth stays below its bound when a BEGIN nests and a COMMIT unnests.  *)
LEMMA Depths ==
  ASSUME NEW d \in 0..MaxDepth
  PROVE  /\ d < MaxDepth => d + 1 \in 0..MaxDepth
         /\ d > 0 => d - 1 \in 0..MaxDepth
  BY MsSqlAssumption DEF MsSqlAssumption

(* Every step of the session keeps its fields and the server's depth typed. *)
LEMMA TypeStep == ASSUME TypeOK, [Next]_vars PROVE TypeOK'
<1> USE Members, Depths
<1> USE DEF TypeOK, Raise, Lower, PoisonAndDrop, Return, Await, Answered, Heard,
           RefusedWork, StatementWork, StartCleanup, AnswerLocally, SendGuarded,
           Entering, EndCleanup
<1>1. ASSUME NEW o \in Operations, Invoke(o) PROVE TypeOK'
  BY <1>1 DEF Invoke, Status
<1>2. CASE Start
  <2>1. CASE EnterUnusable BY <2>1 DEF EnterUnusable
  <2>2. CASE StartBegin BY <2>2 DEF StartBegin
  <2>3. CASE StartActive BY <2>3 DEF StartActive
  <2>4. CASE StartCommit BY <2>4 DEF StartCommit
  <2>5. CASE StartRollback BY <2>5 DEF StartRollback
  <2>6. CASE StartQuery BY <2>6 DEF StartQuery
  <2>7. CASE StartReconnect BY <2>7 DEF StartReconnect
  <2>8. ASSUME NEW kind \in Acquisitions, StartAcquisition(kind) PROVE TypeOK'
    BY <2>8 DEF StartAcquisition
  <2>9. QED
    BY <1>2, <2>1, <2>2, <2>3, <2>4, <2>5, <2>6, <2>7, <2>8 DEF Start
<1>3. CASE Answering
  <2>1. CASE BeginAnswered BY <2>1 DEF BeginAnswered
  <2>2. CASE CountAnswered BY <2>2 DEF CountAnswered, CountConfirms
  <2>3. CASE CountRefused BY <2>3 DEF CountRefused
  <2>4. CASE RecountAnswered BY <2>4 DEF RecountAnswered
  <2>5. CASE CommitAnswered BY <2>5 DEF CommitAnswered
  <2>6. CASE RollbackAnswered \/ RollbackRefused
    BY <2>6 DEF RollbackAnswered, RollbackRefused
  <2>7. CASE AutoBeginAnswered BY <2>7 DEF AutoBeginAnswered
  <2>8. CASE RowsExhausted BY <2>8 DEF RowsExhausted
  <2>9. CASE RowsStopped \/ RowsRefused \/ RowRejected
    BY <2>9 DEF RowsStopped, RowsRefused, RowRejected
  <2>10. CASE AcquireBegun BY <2>10 DEF AcquireBegun
  <2>11. CASE AcquireReadAnswered BY <2>11 DEF AcquireReadAnswered
  <2>12. CASE AcquireStreamEnded \/ AcquireStreamFailed
    BY <2>12 DEF AcquireStreamEnded, AcquireStreamFailed
  <2>13. CASE AcquireCommitted BY <2>13 DEF AcquireCommitted
  <2>14. CASE CleanupAnswered \/ CleanupRefused
    BY <2>14 DEF CleanupAnswered, CleanupRefused
  <2>15. CASE VerifyAnswered \/ VerifyRefused
    BY <2>15 DEF VerifyAnswered, VerifyRefused
  <2>16. CASE Connected BY <2>16 DEF Connected
  <2>17. QED
    BY <1>3, <2>1, <2>2, <2>3, <2>4, <2>5, <2>6, <2>7, <2>8, <2>9, <2>10,
       <2>11, <2>12, <2>13, <2>14, <2>15, <2>16 DEF Answering
<1>4. CASE TimeLimit \/ ConnectionLost
  BY <1>4 DEF TimeLimit, ConnectionLost, GiveUp
<1>5. CASE Cancel BY <1>5 DEF Cancel
<1>6. CASE Close \/ Stall BY <1>6 DEF Close, Stall
<1>7. CASE UNCHANGED vars BY <1>7 DEF vars
<1>8. QED
  BY <1>1, <1>2, <1>3, <1>4, <1>5, <1>6, <1>7 DEF Next

(* MsSqlSession's fields and the server's @@TRANCOUNT stay in range however  *)
(* the calls, the answers and the dropped futures interleave.               *)
THEOREM TypeCorrect == Spec => []TypeOK
<1>1. Init => TypeOK
  BY Members DEF Init, TypeOK
<1>2. QED BY <1>1, TypeStep, PTL DEF Spec

(* One transaction of the session's above what was left open.               *)
LEMMA Counts ==
  ASSUME NEW d \in 0..MaxDepth, NEW n \in 0..MaxDepth
  PROVE  /\ d = n + 1 => d - 1 = n /\ (d = 1 => n = 0)
         /\ d > 0 => d = (d - 1) + 1
         /\ ~(d > 0) => d = 0
  BY MsSqlAssumption DEF MsSqlAssumption

-----------------------------------------------------------------------------
(* A connected session with nothing in flight satisfies the inductive        *)
(* invariant.                                                               *)
LEMMA InvariantInit == Init => IInv
  BY Members DEF Init, IInv, TypeOK, InvCall, InvRest, InvAwait, InvConnect,
     InvExplicitCall, InvQuery, InvAcquisition, InvCleanup, Accounted, Explicit

(* Each step of a session whose futures are dropped only where the pending  *)
(* flag is up, or where a metadata source is alive to be dropped, keeps it. *)
LEMMA InvariantStep ==
  ASSUME GuardedDrops, IInv, [Next]_vars PROVE IInv'
<1> USE Members
<1> USE DEF IInv, InvCall, InvRest, InvAwait, InvConnect, InvExplicitCall, InvQuery,
           InvAcquisition, InvCleanup, Holds, Accounted, Status, IsDead, Explicit,
           EnsureUsable, Raise, Lower, PoisonAndDrop, Return, Await, Answered, Heard,
           RefusedWork, StatementWork, StartCleanup, AnswerLocally, SendGuarded,
           Entering, EndCleanup, TransactionUnfinished
<1> TypeOK /\ TypeOK'
  BY TypeStep
<1>1. ASSUME NEW o \in Operations, Invoke(o) PROVE IInv'
  BY <1>1 DEF Invoke
<1>2. CASE Start
  <2>1. CASE EnterUnusable BY <2>1 DEF EnterUnusable
  <2>2. CASE StartBegin BY <2>2 DEF StartBegin
  <2>3. CASE StartActive BY <2>3 DEF StartActive
  <2>4. CASE StartCommit BY <2>4 DEF StartCommit
  <2>5. CASE StartRollback BY <2>5 DEF StartRollback
  <2>6. CASE StartQuery BY <2>6 DEF StartQuery
  <2>7. CASE StartReconnect BY <2>7 DEF StartReconnect
  <2>8. ASSUME NEW kind \in Acquisitions, StartAcquisition(kind) PROVE IInv'
    BY <2>8 DEF StartAcquisition
  <2>9. QED
    BY <1>2, <2>1, <2>2, <2>3, <2>4, <2>5, <2>6, <2>7, <2>8 DEF Start
<1>3. CASE Answering
  <2>1. CASE BeginAnswered BY <2>1 DEF BeginAnswered
  <2>2. CASE CountAnswered
    <3>1. depth \in 0..MaxDepth /\ nested \in 0..MaxDepth /\ depth = nested + 1
      BY <2>2 DEF CountAnswered, TypeOK
    <3>2. depth = 1 => nested = 0
      BY <3>1, Counts
    <3>3. QED BY <2>2, <3>2 DEF CountAnswered, CountConfirms
  <2>3. CASE CountRefused BY <2>3 DEF CountRefused
  <2>4. CASE RecountAnswered BY <2>4 DEF RecountAnswered
  <2>5. CASE CommitAnswered
    <3>1. depth > 0 => depth - 1 = nested
      <4>1. depth \in 0..MaxDepth /\ nested \in 0..MaxDepth
        BY DEF TypeOK
      <4>2. depth = nested + 1 \/ (depth = 0 /\ nested = 0)
        BY <2>5 DEF CommitAnswered
      <4>3. QED BY <4>1, <4>2, Counts
    <3>2. CASE depth > 0 /\ depth' = depth - 1 /\ Return("ok")
      BY <2>5, <3>1, <3>2 DEF CommitAnswered
    <3>3. CASE RefusedWork /\ StartCleanup
      BY <2>5, <3>3 DEF CommitAnswered
    <3>4. QED BY <2>5, <3>2, <3>3 DEF CommitAnswered
  <2>6. CASE RollbackAnswered BY <2>6 DEF RollbackAnswered
  <2>7. CASE RollbackRefused BY <2>7 DEF RollbackRefused
  <2>8. CASE AutoBeginAnswered BY <2>8 DEF AutoBeginAnswered
  <2>9. CASE RowsExhausted
    <3>1. CASE Explicit
      <4>1. flags' = flags /\ Holds({"explicit", "pending"})
        BY <2>9, <3>1 DEF RowsExhausted
      <4>2. QED BY <2>9, <3>1, <4>1 DEF RowsExhausted
    <3>2. CASE ~Explicit
      <4>1. before = "auto"
        BY <2>9, <3>2 DEF RowsExhausted, TypeOK
      <4>2. depth' = nested' + 1 \/ (depth' = 0 /\ nested' = 0)
        BY <2>9, <3>2, Counts DEF RowsExhausted
      <4>3. QED BY <2>9, <3>2, <4>1, <4>2 DEF RowsExhausted
    <3>3. QED BY <3>1, <3>2
  <2>10. CASE RowsStopped BY <2>10 DEF RowsStopped
  <2>11. CASE RowsRefused BY <2>11 DEF RowsRefused
  <2>12. CASE RowRejected BY <2>12 DEF RowRejected
  <2>13. CASE AcquireBegun BY <2>13 DEF AcquireBegun
  <2>14. CASE AcquireReadAnswered BY <2>14 DEF AcquireReadAnswered
  <2>15. CASE AcquireStreamEnded BY <2>15 DEF AcquireStreamEnded
  <2>16. CASE AcquireStreamFailed BY <2>16 DEF AcquireStreamFailed
  <2>17. CASE AcquireCommitted
    <3>1. depth \in 0..MaxDepth /\ nested \in 0..MaxDepth /\ depth = nested + 1
      BY <2>17 DEF AcquireCommitted, TypeOK
    <3>2. depth - 1 = nested
      BY <3>1, Counts
    <3>3. QED BY <2>17, <3>2 DEF AcquireCommitted
  <2>18. CASE CleanupAnswered BY <2>18 DEF CleanupAnswered
  <2>19. CASE CleanupRefused BY <2>19 DEF CleanupRefused
  <2>20. CASE VerifyAnswered BY <2>20 DEF VerifyAnswered
  <2>21. CASE VerifyRefused BY <2>21 DEF VerifyRefused
  <2>22. CASE Connected BY <2>22 DEF Connected
  <2>23. QED
    BY <1>3, <2>1, <2>2, <2>3, <2>4, <2>5, <2>6, <2>7, <2>8, <2>9, <2>10, <2>11,
       <2>12, <2>13, <2>14, <2>15, <2>16, <2>17, <2>18, <2>19, <2>20,
       <2>21, <2>22 DEF Answering
<1>4. CASE TimeLimit \/ ConnectionLost
  BY <1>4 DEF TimeLimit, ConnectionLost, GiveUp
<1>5. CASE Cancel
  <2>1. CASE TransactionUnfinished /\ PoisonAndDrop
    BY <1>5, <2>1 DEF Cancel
  <2>2. CASE pc = "connect"
    BY <1>5, <2>2 DEF Cancel
  <2>3. CASE ~TransactionUnfinished /\ pc # "connect"
    <3>1. pc \notin {"autoBegin", "autoCommit"} /\ pc \in Awaits
      BY <1>5, MsSqlAssumption DEF Cancel, GuardedDrops, UnguardedAwaits, MsSqlAssumption
    <3>2. "pending" \in flags
      <4>1. op \notin Acquisitions
        BY <2>3, <3>1
      <4>2. pc \in {"begin", "count", "commit", "rollback", "rows", "recount",
                   "cleanup", "verify"}
        BY <2>3, <3>1, <4>1 DEF Awaits
      <4>3. QED BY <4>2
    <3>3. QED BY <1>5, <2>3, <3>2 DEF Cancel
  <2>4. QED BY <1>5, <2>1, <2>2, <2>3 DEF Cancel
<1>6. CASE Close BY <1>6 DEF Close
<1>7. CASE Stall BY <1>7 DEF Stall
<1>8. CASE UNCHANGED vars BY <1>8 DEF vars
<1>9. QED
  BY <1>1, <1>2, <1>3, <1>4, <1>5, <1>6, <1>7, <1>8 DEF Next

(* Under guarded drops the inductive invariant holds: for any bound on      *)
(* @@TRANCOUNT and any set of guarded awaits at which futures may be        *)
(* dropped.                                                                 *)
LEMMA Invariance ==
  ASSUME GuardedDrops
  PROVE  Spec => []IInv
<1>1. Init => IInv
  BY InvariantInit
<1>2. IInv /\ [Next]_vars => IInv'
  BY InvariantStep
<1>3. QED BY <1>1, <1>2, PTL DEF Spec

(* Between calls a usable session's connection holds the transaction the    *)
(* session reports, and else only what the caller's statement left open.    *)
THEOREM GuardedSafety ==
  ASSUME GuardedDrops
  PROVE  Spec => []IdleTransactionMatches
<1>1. IInv => IdleTransactionMatches
  BY DEF IInv, InvRest, IdleTransactionMatches
<1>2. QED BY <1>1, Invariance, PTL

(* No statement goes out on a torn stream, and every read happens in one    *)
(* transaction of the session's.                                            *)
THEOREM GuardedReads ==
  ASSUME GuardedDrops
  PROVE  Spec => []ReadsAreWhole
<1>1. IInv => NoStatementOnTornWire
  BY DEF IInv, InvAwait, InvConnect, NoStatementOnTornWire
<1>2. IInv => ReadsInOneTransaction
  BY DEF IInv, InvQuery, InvAcquisition, Holds, Explicit, ReadsInOneTransaction
<1>3. IInv => ReadsAreWhole
  BY <1>1, <1>2 DEF ReadsAreWhole
<1>4. QED BY <1>3, Invariance, PTL

-----------------------------------------------------------------------------
(* What survives futures dropped anywhere.                                  *)

(* Each step of the session, whatever is dropped, keeps AnyDropInv.         *)
LEMMA AnyDropStep ==
  ASSUME AnyDropInv, [Next]_vars PROVE AnyDropInv'
<1> USE Members
<1> USE DEF AnyDropInv, InvConnect, UnguardedPoints, Status, IsDead, Explicit,
           EnsureUsable, Raise, Lower, PoisonAndDrop, Return, Await, Answered, Heard,
           RefusedWork, StatementWork, StartCleanup, AnswerLocally, SendGuarded, Entering,
           EndCleanup, TransactionUnfinished
<1> TypeOK /\ TypeOK'
  BY TypeStep
<1>1. ASSUME NEW o \in Operations, Invoke(o) PROVE AnyDropInv'
  BY <1>1 DEF Invoke
<1>2. CASE Start
  <2>1. CASE EnterUnusable BY <2>1 DEF EnterUnusable
  <2>2. CASE StartBegin BY <2>2 DEF StartBegin
  <2>3. CASE StartActive BY <2>3 DEF StartActive
  <2>4. CASE StartCommit BY <2>4 DEF StartCommit
  <2>5. CASE StartRollback BY <2>5 DEF StartRollback
  <2>6. CASE StartQuery BY <2>6 DEF StartQuery
  <2>7. CASE StartReconnect BY <2>7 DEF StartReconnect
  <2>8. ASSUME NEW kind \in Acquisitions, StartAcquisition(kind) PROVE AnyDropInv'
    BY <2>8 DEF StartAcquisition
  <2>9. QED
    BY <1>2, <2>1, <2>2, <2>3, <2>4, <2>5, <2>6, <2>7, <2>8 DEF Start
<1>3. CASE Answering
  <2>1. CASE BeginAnswered BY <2>1 DEF BeginAnswered
  <2>2. CASE CountAnswered BY <2>2 DEF CountAnswered, CountConfirms
  <2>3. CASE CountRefused BY <2>3 DEF CountRefused
  <2>4. CASE RecountAnswered BY <2>4 DEF RecountAnswered
  <2>5. CASE CommitAnswered BY <2>5 DEF CommitAnswered
  <2>6. CASE RollbackAnswered BY <2>6 DEF RollbackAnswered
  <2>7. CASE RollbackRefused BY <2>7 DEF RollbackRefused
  <2>8. CASE AutoBeginAnswered BY <2>8 DEF AutoBeginAnswered
  <2>9. CASE RowsExhausted BY <2>9 DEF RowsExhausted, TypeOK
  <2>10. CASE RowsStopped BY <2>10 DEF RowsStopped
  <2>11. CASE RowsRefused BY <2>11 DEF RowsRefused
  <2>12. CASE RowRejected BY <2>12 DEF RowRejected
  <2>13. CASE AcquireBegun BY <2>13 DEF AcquireBegun
  <2>14. CASE AcquireReadAnswered BY <2>14 DEF AcquireReadAnswered
  <2>15. CASE AcquireStreamEnded BY <2>15 DEF AcquireStreamEnded
  <2>16. CASE AcquireStreamFailed BY <2>16 DEF AcquireStreamFailed
  <2>17. CASE AcquireCommitted BY <2>17 DEF AcquireCommitted
  <2>18. CASE CleanupAnswered BY <2>18 DEF CleanupAnswered
  <2>19. CASE CleanupRefused BY <2>19 DEF CleanupRefused
  <2>20. CASE VerifyAnswered BY <2>20 DEF VerifyAnswered
  <2>21. CASE VerifyRefused BY <2>21 DEF VerifyRefused
  <2>22. CASE Connected BY <2>22 DEF Connected
  <2>23. QED
    BY <1>3, <2>1, <2>2, <2>3, <2>4, <2>5, <2>6, <2>7, <2>8, <2>9, <2>10, <2>11,
       <2>12, <2>13, <2>14, <2>15, <2>16, <2>17, <2>18, <2>19, <2>20,
       <2>21, <2>22 DEF Answering
<1>4. CASE TimeLimit \/ ConnectionLost
  BY <1>4 DEF TimeLimit, ConnectionLost, GiveUp
<1>5. CASE Cancel
  <2>1. CASE TransactionUnfinished /\ PoisonAndDrop
    BY <1>5, <2>1 DEF Cancel
  <2>2. CASE pc = "connect"
    BY <1>5, <2>2 DEF Cancel
  <2>3. CASE ~TransactionUnfinished /\ pc \in {"autoBegin", "autoCommit"}
    BY <1>5, <2>3 DEF Cancel
  <2>4. CASE ~TransactionUnfinished /\ "pending" \in flags
    BY <1>5, <2>4 DEF Cancel
  <2>5. pc \in Awaits
    BY <1>5, MsSqlAssumption DEF Cancel, MsSqlAssumption
  <2>6. QED BY <1>5, <2>1, <2>2, <2>3, <2>4, <2>5 DEF Cancel, Awaits
<1>6. CASE Close BY <1>6 DEF Close
<1>7. CASE Stall BY <1>7 DEF Stall
<1>8. CASE UNCHANGED vars BY <1>8 DEF vars
<1>9. QED
  BY <1>1, <1>2, <1>3, <1>4, <1>5, <1>6, <1>7, <1>8 DEF Next

(* AnyDropInv holds wherever futures are dropped.                           *)
LEMMA AnyDropInvariance == Spec => []AnyDropInv
<1>1. Init => AnyDropInv
  BY Members DEF Init, AnyDropInv, TypeOK, InvConnect, UnguardedPoints, Explicit
<1>2. QED BY <1>1, AnyDropStep, PTL DEF Spec

(* A reported explicit transaction is one the server confirmed.             *)
THEOREM AnyDropSafety == Spec => []ExplicitIsConfirmed
<1>1. AnyDropInv => ExplicitIsConfirmed
  BY DEF AnyDropInv, ExplicitIsConfirmed, Status
<1>2. QED BY <1>1, AnyDropInvariance, PTL

(* A dead session sends nothing but a new connection, and dropping a call   *)
(* made inside an explicit transaction ends the session.                    *)
THEOREM AnyDropSilence == Spec => []DeadStaysSilent
<1>1. AnyDropInv => DeadStaysSilent
  BY DEF AnyDropInv, DeadStaysSilent, DeadSendsNothing, DroppedExplicitEndsSession, Status
<1>2. QED BY <1>1, AnyDropInvariance, PTL

-----------------------------------------------------------------------------
(* What the caller sees.                                                    *)

(* A call that fails at one of its awaits may leave a dead session behind,  *)
(* and after its cleanup an idle one.                                       *)
LEMMA FailureAllowed ==
  ASSUME IInv, pc \in Awaits, pc # "connect"
  PROVE  /\ op # "none" /\ pc # "closed" /\ pc # "idle"
         /\ Promised!Ends(op, before, "dead", "error")
         /\ pc \in {"cleanup", "verify"} => Promised!Ends(op, before, "auto", "error")
<1>1. before \in {"auto", "explicit"} /\ op \in Operations \ {"cancel"}
  BY Members DEF IInv, TypeOK, InvAwait, InvCall
<1>2. CASE pc \in {"cleanup", "verify"}
  BY <1>1, <1>2, Members
  DEF IInv, InvCleanup, Promised!Ends, Operations, Promised!Acquisitions, Acquisitions
<1>3. CASE pc \in {"begin", "count", "commit", "rollback"}
  BY <1>3, Members DEF IInv, InvExplicitCall, Promised!Ends, Promised!Acquisitions
<1>4. CASE pc \in {"rows", "recount", "autoBegin", "autoCommit"}
  BY <1>1, <1>4, Members DEF IInv, InvQuery, Promised!Ends, Promised!Acquisitions
<1>5. CASE pc \in {"acquireBegin", "acquireLayout", "acquireRead", "acquireStream",
                   "acquireCommit"}
  BY <1>5, Members
  DEF IInv, InvAcquisition, Promised!Ends, Acquisitions, Promised!Acquisitions
<1>6. QED BY <1>2, <1>3, <1>4, <1>5, Members DEF Awaits

(* Such a failure is an Answer of ReadSession.                              *)
LEMMA FailureMaps ==
  ASSUME IInv, pc \in Awaits, pc # "connect", Return("error"),
         \/ Status' = "dead"
         \/ pc \in {"cleanup", "verify"} /\ Status' = "auto"
  PROVE  Promised!Answer
<1>1. Reported = before /\ Reported' = Status'
  BY FailureAllowed DEF Reported, Return
<1>2. Promised!Ends(op, before, Status', "error")
  BY FailureAllowed
<1>3. QED
  BY <1>1, <1>2, FailureAllowed
  DEF Return, Promised!Answer, Promised!Statuses, Promised!Answers

(* Each step is one of ReadSession's, or changes nothing the caller sees.   *)
LEMMA RefinementStep ==
  ASSUME GuardedDrops, IInv, [Next]_vars
  PROVE  [Promised!Next]_(Promised!vars)
<1> USE Members
<1> DEFINE Goal == [Promised!Next]_(Promised!vars)
<1> USE DEF IInv, InvCall, InvRest, InvAwait, InvConnect, InvExplicitCall, InvQuery,
           InvAcquisition, InvCleanup, Holds, Accounted, Status, IsDead, Explicit,
           EnsureUsable, Raise, Lower, PoisonAndDrop, Return, Await, Answered, Heard,
           RefusedWork, StatementWork, StartCleanup, AnswerLocally, SendGuarded,
           Entering, EndCleanup, TransactionUnfinished, Reported, Promised!Next, Promised!vars,
           Promised!Call, Promised!Answer, Promised!Ends, Promised!Drop,
           Promised!Close, Promised!Statuses, Promised!Answers
<1> TypeOK /\ TypeOK'
  BY TypeStep
<1> Operations = Promised!Operations /\ Acquisitions = Promised!Acquisitions
  BY DEF Operations, Promised!Operations, Acquisitions, Promised!Acquisitions
<1>1. ASSUME NEW o \in Operations, Invoke(o) PROVE Goal
  BY <1>1 DEF Invoke
<1>2. CASE Start
  <2>1. CASE EnterUnusable BY <2>1 DEF EnterUnusable
  <2>2. CASE StartBegin BY <2>2 DEF StartBegin
  <2>3. CASE StartActive BY <2>3 DEF StartActive
  <2>4. CASE StartCommit BY <2>4 DEF StartCommit
  <2>5. CASE StartRollback BY <2>5 DEF StartRollback
  <2>6. CASE StartQuery BY <2>6 DEF StartQuery
  <2>7. CASE StartReconnect BY <2>7 DEF StartReconnect
  <2>8. ASSUME NEW kind \in Acquisitions, StartAcquisition(kind) PROVE Goal
    BY <2>8 DEF StartAcquisition
  <2>9. QED
    BY <1>2, <2>1, <2>2, <2>3, <2>4, <2>5, <2>6, <2>7, <2>8 DEF Start
<1>3. CASE Answering
  <2>1. CASE BeginAnswered BY <2>1 DEF BeginAnswered
  <2>2. CASE CountAnswered BY <2>2 DEF CountAnswered, CountConfirms
  <2>3. CASE CountRefused BY <2>3 DEF CountRefused
  <2>4. CASE RecountAnswered BY <2>4 DEF RecountAnswered
  <2>5. CASE CommitAnswered BY <2>5 DEF CommitAnswered
  <2>6. CASE RollbackAnswered BY <2>6 DEF RollbackAnswered
  <2>7. CASE RollbackRefused BY <2>7 DEF RollbackRefused
  <2>8. CASE AutoBeginAnswered BY <2>8 DEF AutoBeginAnswered
  <2>9. CASE RowsExhausted BY <2>9 DEF RowsExhausted
  <2>10. CASE RowsStopped
    <3>1. before \in {"auto", "explicit"}
      BY <2>10 DEF RowsStopped, TypeOK
    <3>2. Reported = before /\ Reported' = "dead"
      BY <2>10 DEF RowsStopped
    <3>3. QED BY <2>10, <3>1, <3>2 DEF RowsStopped
  <2>11. CASE RowsRefused BY <2>11 DEF RowsRefused
  <2>12. CASE RowRejected BY <2>12 DEF RowRejected
  <2>13. CASE AcquireBegun BY <2>13 DEF AcquireBegun
  <2>14. CASE AcquireReadAnswered BY <2>14 DEF AcquireReadAnswered
  <2>15. CASE AcquireStreamEnded BY <2>15 DEF AcquireStreamEnded
  <2>16. CASE AcquireStreamFailed BY <2>16 DEF AcquireStreamFailed
  <2>17. CASE AcquireCommitted BY <2>17 DEF AcquireCommitted
  <2>18. CASE CleanupAnswered BY <2>18 DEF CleanupAnswered
  <2>19. CASE CleanupRefused
    <3>1. Status' = "dead" /\ Return("error")
      BY <2>19 DEF CleanupRefused
    <3>2. QED BY <2>19, <3>1, FailureMaps DEF CleanupRefused
  <2>20. CASE VerifyAnswered
    <3>1. Status' \in {"auto", "dead"} /\ Return("error")
      BY <2>20 DEF VerifyAnswered
    <3>2. QED BY <2>20, <3>1, FailureMaps DEF VerifyAnswered
  <2>21. CASE VerifyRefused
    <3>1. Status' = "dead" /\ Return("error")
      BY <2>21 DEF VerifyRefused
    <3>2. QED BY <2>21, <3>1, FailureMaps DEF VerifyRefused
  <2>22. CASE Connected BY <2>22 DEF Connected
  <2>23. QED
    BY <1>3, <2>1, <2>2, <2>3, <2>4, <2>5, <2>6, <2>7, <2>8, <2>9, <2>10, <2>11,
       <2>12, <2>13, <2>14, <2>15, <2>16, <2>17, <2>18, <2>19, <2>20,
       <2>21, <2>22 DEF Answering
<1>4. CASE TimeLimit \/ ConnectionLost
  <2>1. CASE pc = "connect"
    BY <1>4, <2>1 DEF TimeLimit, ConnectionLost, GiveUp
  <2>2. CASE pc # "connect"
    <3>1. pc \in Awaits /\ Status' = "dead" /\ Return("error")
      BY <1>4, <2>2 DEF TimeLimit, ConnectionLost, GiveUp
    <3>2. QED BY <2>2, <3>1, FailureMaps
  <2>3. QED BY <2>1, <2>2
<1>5. CASE Cancel
  <2>1. CASE TransactionUnfinished /\ PoisonAndDrop
    BY <1>5, <2>1 DEF Cancel
  <2>2. CASE pc = "connect"
    BY <1>5, <2>2 DEF Cancel
  <2>3. CASE ~TransactionUnfinished /\ pc # "connect"
    <3>1. pc \notin {"autoBegin", "autoCommit"} /\ pc \in Awaits
      BY <1>5, MsSqlAssumption DEF Cancel, GuardedDrops, UnguardedAwaits, MsSqlAssumption
    <3>2. "pending" \in flags
      <4>1. op \notin Acquisitions
        BY <2>3, <3>1
      <4>2. pc \in {"begin", "count", "commit", "rollback", "rows", "recount",
                   "cleanup", "verify"}
        BY <2>3, <3>1, <4>1 DEF Awaits
      <4>3. QED BY <4>2
    <3>3. Reported' = "dead" /\ op' = "none" /\ answer' = "dropped" /\ op # "none"
      BY <1>5, <2>3, <3>1, <3>2 DEF Cancel
    <3>4. Promised!Drop
      BY <3>3
    <3>5. QED BY <3>4
  <2>4. QED BY <1>5, <2>1, <2>2, <2>3 DEF Cancel
<1>6. CASE Close BY <1>6 DEF Close
<1>7. CASE Stall BY <1>7 DEF Stall
<1>8. CASE UNCHANGED vars BY <1>8 DEF vars
<1>9. QED
  BY <1>1, <1>2, <1>3, <1>4, <1>5, <1>6, <1>7, <1>8 DEF Next


(* Seen by its caller the session is a ReadSession whose dropped futures    *)
(* end it: every answer leaves behind a status that ReadSession allows.     *)
THEOREM Refinement == ASSUME GuardedDrops PROVE Spec => KeepsPromise
<1>1. Init => IInv
  BY InvariantInit
<1>2. Init => Promised!Init
  BY DEF Init, Promised!Init, Reported, Status, IsDead, Explicit
<1>3. QED
  BY <1>1, <1>2, InvariantStep, RefinementStep, PTL
  DEF Spec, KeepsPromise, Promised!Spec

=============================================================================
