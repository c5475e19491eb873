------------------------ MODULE PostgresSessionProofs ------------------------
(* Of the PostgreSQL session, for any transaction identifiers and any       *)
(* number of requests left behind.                                          *)
EXTENDS PostgresSession, SequenceTheorems, TLAPS

-----------------------------------------------------------------------------
(* The inductive invariant.                                                 *)

Enders == {"commit", "rollback"}

(* What was sent ends its transaction: once the queue is executed, none is  *)
(* open.                                                                    *)
Settled ==
  IF queue = <<>> THEN tx = "none" ELSE queue[Len(queue)] \in Enders

(* The shape of the queue.  A BEGIN follows the end of another transaction; *)
(* reads are sent with nothing before them, so they are never behind        *)
(* another request; and the oldest request meets its transaction.           *)
InvQueue ==
  /\ \A i \in 1 .. Len(queue) - 1 : queue[i + 1] = "begin" => queue[i] \in Enders
  /\ \A i \in 1 .. Len(queue) - 1 : queue[i + 1] \notin {"read", "rows"}
  /\ queue # <<>> /\ queue[1] = "begin" => tx = "none"
  /\ queue # <<>> /\ queue[1] \in {"read", "rows"} => tx \in Ids

(* A reply is there when everything sent was executed.                      *)
InvReply ==
  /\ reply # "none" => queue = <<>>
  /\ pc \in {"idle", "entry", "cancel", "closed"} => reply = "none"

(* A usable session between two awaits: either it reports its transaction,  *)
(* which is open with nothing queued, or everything is settled.             *)
InvUsable ==
  pc \in {"idle", "entry", "cancel"} /\ ~IsClosed =>
    IF explicit = "none" THEN Settled ELSE queue = <<>> /\ tx = explicit

(* Inside the operations on an explicit transaction.                        *)
InvExplicit ==
  /\ pc \in ExplicitAwaits => "pending" \in flags
  /\ pc = "identify" =>
       \/ queue = <<"check">> /\ tx \in Ids
       \/ queue = <<>> /\ (reply \in Ids => tx = reply)
  /\ pc \in {"check", "rows", "recheck"} => explicit \in Ids
  /\ pc \in {"check", "recheck"} => (reply = explicit => tx = explicit)
  /\ pc \in {"begin", "cleanup", "rollback"} => explicit = "none"
  /\ pc \in {"commit", "cleanup", "rollback"} => Settled

(* Inside a Transaction of the session's own.                               *)
InvOwn ==
  /\ pc \in OwnAwaits => explicit = "none"
  /\ pc \in {"ownCommit", "ownRollback"} => Settled
  /\ pc \in {"begin", "ownBegin"} =>
       IF queue = <<>> THEN reply = "ok" => tx \in Ids
                       ELSE queue[Len(queue)] = "begin"
  /\ pc \in {"ownVerify", "ownRead"} \/ (pc = "ownRows" /\ op = "metadata") =>
       queue = <<"read">> \/ (queue = <<>> /\ (reply = "ok" => tx \in Ids))

Inv  == InvQueue /\ InvReply /\ InvUsable /\ InvExplicit /\ InvOwn
IInv == TypeOK /\ Inv
-----------------------------------------------------------------------------
(* The shape of the state.                                                  *)

LEMMA TypeInitially == Init => TypeOK
BY DEF Init, TypeOK, Answers

(* Members of the constant sets, so that the proofs need not open them.     *)
LEMMA Members ==
  /\ ExplicitAwaits \subseteq Awaits /\ OwnAwaits \subseteq Awaits /\ "cancel" \in Awaits
  /\ {"begin", "identify", "check", "commit", "rows", "recheck", "cleanup", "rollback"}
       \subseteq ExplicitAwaits
  /\ {"ownBegin", "ownVerify", "ownRead", "ownRows", "ownCommit", "ownRollback"}
       \subseteq OwnAwaits
  /\ {"begin", "check", "read", "rows", "commit", "rollback"} \subseteq Requests
  /\ {"none", "ok", "true", "false", "error", "dropped"} \subseteq Answers
BY DEF Awaits, ExplicitAwaits, OwnAwaits, Requests, Answers

(* What the building blocks of the actions leave behind is typed.           *)
LEMMA SendType ==
  ASSUME TypeOK, NEW r \in Requests, NEW p \in Awaits, Send(r, p),
         flags' \subseteq {"poisoned", "pending"}, explicit' \in Ids \cup {"none"}
  PROVE  TypeOK'
BY DEF TypeOK, Send, serverVars

LEMMA CleanupType == ASSUME TypeOK, Cleanup PROVE TypeOK'
<1>1. flags' \subseteq {"poisoned", "pending"}
  BY DEF TypeOK, Cleanup, SendPending
<1> QED BY <1>1, SendType, Members DEF Cleanup, SendPending

LEMMA FinishType ==
  ASSUME TypeOK, NEW a \in Answers, Finish(a),
         flags' \subseteq {"poisoned", "pending"}, explicit' \in Ids \cup {"none"}
  PROVE  TypeOK'
BY DEF TypeOK, Finish, Return, serverVars

LEMMA AbortType ==
  ASSUME TypeOK, NEW raised \in SUBSET {"poisoned", "pending"}, Abort(raised)
  PROVE  TypeOK'
BY Members DEF TypeOK, Abort, LinkDown, Return

LEMMA OwnEndType == ASSUME TypeOK, NEW a \in Answers, OwnEnd(a) PROVE TypeOK'
<1>1. queue' \in Seq(Requests)
  BY Members DEF TypeOK, OwnEnd, DropTransaction
<1> QED BY <1>1 DEF TypeOK, OwnEnd, Return, serverVars

LEMMA CancelType ==
  ASSUME TypeOK, NEW a \in Answers, CancelNotDelivered(a) PROVE TypeOK'
BY DEF TypeOK, CancelNotDelivered, Return, wireVars

LEMMA ExecuteType ==
  ASSUME TypeOK, queue # <<>>, signal' \in {"none", signal},
         NEW result \in Ids \cup {"ok", "refused"},
         NEW left \in Ids \cup {"none", "failed"}, Execute(result, left)
  PROVE  TypeOK'
BY DEF TypeOK, Execute, clientVars

(* Every field keeps its type.                                              *)
LEMMA TypeStep == ASSUME TypeOK, [Next]_vars PROVE TypeOK'
<1> DEFINE Flags == {"poisoned", "pending"}
<1>t. /\ flags \subseteq Flags /\ flags \ {"pending"} \subseteq Flags
      /\ flags \cup {"pending"} \subseteq Flags
      /\ explicit \in Ids \cup {"none"}
  BY DEF TypeOK
<1>f. ASSUME NEW a \in Answers, Finish(a), flags' \in {flags, flags \ {"pending"}},
             explicit' \in {explicit, "none"} \/ explicit' \in Ids
      PROVE  TypeOK'
  BY <1>f, <1>t, FinishType
<1>s. ASSUME NEW r \in Requests, NEW p \in Awaits, Send(r, p),
             flags' \in {flags, flags \cup {"pending"}}, explicit' \in {explicit, "none"}
      PROVE  TypeOK'
  BY <1>s, <1>t, SendType
<1> HIDE DEF Flags
<1>1. ASSUME NEW o \in Operations, Invoke(o) PROVE TypeOK'
  BY <1>1 DEF TypeOK, Invoke, Status, wireVars, serverVars
<1>2. CASE Start
  <2>1. CASE EnterUnusable
    BY <2>1, <1>f, AbortType, Members DEF EnterUnusable
  <2>2. CASE StartBegin
    BY <2>2, <1>f, <1>s, Members DEF StartBegin, AnswerLocally, SendPending
  <2>3. CASE StartCheck
    BY <2>3, <1>s, Members DEF StartCheck, SendPending
  <2>4. CASE StartWithoutTransaction
    BY <2>4, <1>f, Members DEF StartWithoutTransaction, AnswerLocally
  <2>5. CASE StartRollback
    BY <2>5, <1>s, Members DEF StartRollback, SendPending
  <2>6. CASE StartOwn
    BY <2>6, <1>s, Members DEF StartOwn
  <2>7. CASE RejectAcquisition
    BY <2>7, <1>f, Members DEF RejectAcquisition, AnswerLocally
  <2>8. CASE StartCancel
    BY <2>8, Members DEF StartCancel, TypeOK, wireVars, serverVars
  <2> QED BY <1>2, <2>1, <2>2, <2>3, <2>4, <2>5, <2>6, <2>7, <2>8 DEF Start
<1>3. CASE Receive
  <2> USE Members DEF SendPending, OwnContinue
  <2>1. CASE BeginReplied BY <2>1, <1>s, CleanupType DEF BeginReplied
  <2>2. CASE IdentifyReplied BY <2>2, <1>f, CleanupType DEF IdentifyReplied
  <2>3. CASE CheckReplied BY <2>3, <1>f, <1>s, CleanupType DEF CheckReplied
  <2>4. CASE CommitReplied BY <2>4, <1>f, CleanupType DEF CommitReplied
  <2>5. CASE RowsEnded BY <2>5, <1>s DEF RowsEnded
  <2>6. CASE RowsFailed BY <2>6, CleanupType DEF RowsFailed
  <2>7. CASE RecheckReplied BY <2>7, <1>f, CleanupType DEF RecheckReplied
  <2>8. CASE CleanupReplied \/ RollbackReplied
    BY <2>8, <1>f DEF CleanupReplied, RollbackReplied
  <2>9. CASE OwnBeginReplied BY <2>9, <1>s, OwnEndType DEF OwnBeginReplied
  <2>10. CASE OwnVerifyReplied BY <2>10, <1>s DEF OwnVerifyReplied
  <2>11. CASE OwnReadReplied BY <2>11, <1>s DEF OwnReadReplied
  <2>12. CASE OwnRowsEnded BY <2>12, <1>s DEF OwnRowsEnded
  <2>13. CASE OwnRowsFailed BY <2>13, <1>s DEF OwnRowsFailed
  <2>14. CASE OwnCommitReplied \/ OwnRollbackReplied
    BY <2>14, OwnEndType DEF OwnCommitReplied, OwnRollbackReplied
  <2>15. CASE CancelAnswered
    <3>1. queue' \in Seq(Requests)
      <4>1. queue \in Seq(Requests) /\ "rollback" \in Requests
        BY Members DEF TypeOK
      <4>2. CASE queue' = queue
        BY <4>1, <4>2
      <4>3. CASE queue' = Append(queue, "rollback")
        BY <4>1, <4>3
      <4>4. CASE queue' = <<>>
        BY <4>4
      <4>5. queue' = queue \/ queue' = Append(queue, "rollback") \/ queue' = <<>>
        BY <2>15 DEF CancelAnswered, LinkDown, wireVars
      <4> QED BY <4>2, <4>3, <4>4, <4>5, Zenon
    <3>2. /\ pc' \in {"idle", "rollback"} /\ tx' \in {tx, "none"}
          /\ link' \in {link, "down"} /\ reply' \in {reply, "none"}
      BY <2>15 DEF CancelAnswered, Return, LinkDown, wireVars
    <3>3. /\ flags' \in {flags, flags \cup {"pending"}, {"poisoned", "pending"}}
          /\ explicit' \in {explicit, "none"} /\ op' \in {op, "none"}
          /\ answer' \in {answer, "ok", "error"}
          /\ signal' = "sent" /\ UNCHANGED <<before, server>>
      BY <2>15 DEF CancelAnswered, Return
    <3> QED BY <3>1, <3>2, <3>3 DEF TypeOK
  <2> QED
    BY <1>3, <2>1, <2>2, <2>3, <2>4, <2>5, <2>6, <2>7, <2>8, <2>9, <2>10, <2>11, <2>12,
       <2>13, <2>14, <2>15
    DEF Receive
<1>4. CASE TimeLimit
  BY <1>4, <1>s, CleanupType, AbortType, OwnEndType, CancelType, Members
  DEF TimeLimit, OwnContinue
<1>5. CASE LinkLost
  <2>1. ASSUME NEW raised \in SUBSET {"poisoned", "pending"}, Abort(raised) PROVE TypeOK'
    BY <2>1, AbortType
  <2>2. CASE LinkDown /\ UNCHANGED <<flags, explicit, before, signal, server>>
             /\ (Return("error") \/ UNCHANGED <<op, pc, answer>>)
    BY <2>2, Members DEF TypeOK, LinkDown, Return
  <2> QED BY <1>5, <2>1, <2>2 DEF LinkLost, clientVars
<1>6. CASE Drop
  <2>1. ASSUME pc \in ExplicitAwaits, Return("dropped"), reply' = "none",
               UNCHANGED <<flags, explicit, before, link, queue, serverVars>>
        PROVE  TypeOK'
    BY <2>1, Members DEF TypeOK, Return, serverVars
  <2> QED BY <1>6, <2>1, OwnEndType, CancelType, Members DEF Drop
<1>7. CASE Close
  BY <1>7 DEF Close, TypeOK, LinkDown
<1>8. CASE Serve
  <2> USE DEF Serve, Oldest
  <2>1. tx \in Ids \cup {"none", "failed"}
    BY DEF TypeOK
  <2>2. CASE ServeBegin
    BY <1>8, <2>1, <2>2, ExecuteType DEF ServeBegin
  <2>3. CASE ServeCheck
    BY <1>8, <2>1, <2>3, ExecuteType DEF ServeCheck
  <2>4. CASE ServeStatement
    BY <1>8, <2>1, <2>4, ExecuteType DEF ServeStatement
  <2>5. CASE ServeEnd
    BY <1>8, <2>1, <2>5, ExecuteType DEF ServeEnd
  <2>6. CASE ServeRefusal
    BY <1>8, <2>1, <2>6, ExecuteType DEF ServeRefusal, Refuse
  <2> QED BY <1>8, <2>2, <2>3, <2>4, <2>5, <2>6
<1>9. CASE Interrupt
  <2>1. CASE UNCHANGED <<clientVars, wireVars, tx, server>>
    BY <1>9, <2>1 DEF Interrupt, TypeOK, clientVars, wireVars
  <2> QED BY <1>9, <2>1, ExecuteType DEF Interrupt, Refuse, Oldest
<1>10. CASE Stall
  BY <1>10 DEF Stall, TypeOK, clientVars, wireVars
<1>11. CASE UNCHANGED vars
  BY <1>11 DEF vars, TypeOK, clientVars, wireVars, serverVars
<1> QED
  BY <1>1, <1>2, <1>3, <1>4, <1>5, <1>6, <1>7, <1>8, <1>9, <1>10, <1>11 DEF Next

(* The fields of the session, the queue and the server keep their types,    *)
(* for any identifiers and any number of requests left behind.              *)
THEOREM TypeCorrect == Spec => []TypeOK
BY TypeInitially, TypeStep, PTL DEF Spec
-----------------------------------------------------------------------------
(* The queue.                                                               *)

(* A request appended in its place keeps the shape of the queue.            *)
LEMMA QueueAppend ==
  ASSUME TypeOK, InvQueue, NEW r \in Requests, queue' = Append(queue, r), tx' = tx,
         r = "begin" => Settled,
         r \in {"read", "rows"} => queue = <<>> /\ tx \in Ids
  PROVE  /\ InvQueue'
         /\ queue' # <<>> /\ queue'[Len(queue')] = r
         /\ queue = <<>> => queue' = <<r>>
         /\ r \in Enders => Settled'
<1>1. queue \in Seq(Requests) /\ Len(queue) \in Nat
  BY DEF TypeOK
<1>2. /\ Len(queue') = Len(queue) + 1
      /\ queue'[Len(queue) + 1] = r
      /\ \A i \in 1 .. Len(queue) : queue'[i] = queue[i]
  BY <1>1
<1>3. queue' # <<>> /\ queue'[Len(queue')] = r /\ (queue = <<>> => queue' = <<r>>)
  <2>1. queue' # <<>>
    BY <1>1, <1>2
  <2>2. queue'[Len(queue')] = r
    BY <1>2
  <2>3. queue = <<>> => queue' = <<r>>
    OBVIOUS
  <2> QED BY <2>1, <2>2, <2>3
<1>4. InvQueue'
  <2>1. ASSUME NEW i \in 1 .. Len(queue') - 1
        PROVE  /\ (queue[i + 1])' = "begin" => (queue[i])' \in Enders
               /\ (queue[i + 1])' \notin {"read", "rows"}
    <3>1. CASE i \in 1 .. Len(queue) - 1
      BY <1>1, <1>2, <3>1 DEF InvQueue
    <3>2. CASE i = Len(queue)
      <4>1. queue # <<>> /\ i \in 1 .. Len(queue)
        BY <1>1, <2>1, <3>2
      <4> QED BY <1>1, <1>2, <3>2, <4>1 DEF Settled
    <3> QED BY <1>1, <1>2, <2>1, <3>1, <3>2
  <2>2. queue'[1] = "begin" => tx' = "none"
    BY <1>1, <1>2 DEF InvQueue, Settled
  <2>3. queue'[1] \in {"read", "rows"} => tx' \in Ids
    BY <1>1, <1>2 DEF InvQueue
  <2> QED BY <2>1, <2>2, <2>3 DEF InvQueue
<1> QED BY <1>3, <1>4 DEF Settled

(* The oldest request is executed: the others move up, and one that ends a  *)
(* transaction leaves none to those behind it.                              *)
LEMMA QueueServe ==
  ASSUME TypeOK, InvQueue, queue # <<>>, queue' = Tail(queue),
         queue[1] \in Enders => tx' = "none"
  PROVE  /\ InvQueue'
         /\ queue' = <<>> <=> Len(queue) = 1
         /\ queue' # <<>> => queue'[Len(queue')] = queue[Len(queue)]
         /\ Settled => Settled'
<1>1. queue \in Seq(Requests) /\ Len(queue) \in Nat /\ Len(queue) > 0
  BY DEF TypeOK
<1>2. /\ Len(queue') = Len(queue) - 1
      /\ \A i \in 1 .. Len(queue) - 1 : queue'[i] = queue[i + 1]
  BY <1>1
<1>3. /\ queue' = <<>> <=> Len(queue) = 1
      /\ queue' # <<>> => queue'[Len(queue')] = queue[Len(queue)]
  <2>1. queue' \in Seq(Requests)
    BY <1>1
  <2>2. queue' = <<>> <=> Len(queue) = 1
    <3>1. queue' = <<>> <=> Len(queue') = 0
      BY <2>1, EmptySeq
    <3> QED BY <1>1, <1>2, <3>1
  <2>3. ASSUME queue' # <<>> PROVE queue'[Len(queue')] = queue[Len(queue)]
    <3>1. Len(queue) - 1 \in 1 .. Len(queue) - 1
      BY <1>1, <2>2, <2>3
    <3> QED BY <1>1, <1>2, <3>1
  <2> QED BY <2>2, <2>3
<1>4. InvQueue'
  <2>1. ASSUME NEW i \in 1 .. Len(queue') - 1
        PROVE  /\ (queue[i + 1])' = "begin" => (queue[i])' \in Enders
               /\ (queue[i + 1])' \notin {"read", "rows"}
    <3>1. i + 1 \in 1 .. Len(queue) - 1 /\ i \in 1 .. Len(queue) - 1
      BY <1>1, <1>2, <2>1
    <3>2. queue'[i] = queue[i + 1] /\ queue'[i + 1] = queue[(i + 1) + 1]
      BY <1>2, <3>1
    <3> QED BY <3>1, <3>2 DEF InvQueue
  <2>2. CASE queue' # <<>>
    <3>1. 1 \in 1 .. Len(queue) - 1 /\ queue'[1] = queue[1 + 1]
      BY <1>1, <1>2, <1>3, <2>2
    <3> QED BY <2>1, <3>1 DEF InvQueue
  <2> QED BY <2>1, <2>2 DEF InvQueue
<1>5. Settled => Settled'
  BY <1>1, <1>3 DEF Settled
<1> QED BY <1>3, <1>4, <1>5

LEMMA QueueKept ==
  ASSUME InvQueue, UNCHANGED <<queue, tx>>
  PROVE  InvQueue' /\ (Settled => Settled')
BY DEF InvQueue, Settled

LEMMA QueueGone ==
  ASSUME queue' = <<>>, tx' = "none"
  PROVE  InvQueue' /\ Settled'
BY DEF InvQueue, Settled
-----------------------------------------------------------------------------
(* The building blocks of the actions.                                      *)

LEMMA Points ==
  /\ ExplicitAwaits \cap OwnAwaits = {}
  /\ {"idle", "entry", "cancel", "closed"} \cap (ExplicitAwaits \cup OwnAwaits) = {}
  /\ \A r \in {"none", "ok", "refused", "failed"} : r \notin Ids
BY PostgresAssumption DEF ExplicitAwaits, OwnAwaits, PostgresAssumption

(* What sending a request leaves behind.                                    *)
LEMMA SendInv ==
  ASSUME TypeOK, InvQueue, NEW r \in Requests, NEW p, Send(r, p),
         r = "begin" => Settled,
         r \in {"read", "rows"} => queue = <<>> /\ tx \in Ids
  PROVE  /\ InvQueue' /\ (r \in Enders => Settled')
         /\ queue' # <<>> /\ queue'[Len(queue')] = r
         /\ queue = <<>> => queue' = <<r>>
         /\ pc' = p /\ reply' = "none" /\ tx' = tx /\ op' = op /\ link' = link
<1>1. queue' = Append(queue, r) /\ tx' = tx
  BY DEF Send, serverVars
<1> QED BY <1>1, QueueAppend DEF Send

(* An explicit transaction that is given up is settled by its ROLLBACK.     *)
LEMMA CleanupInv == ASSUME TypeOK, InvQueue, Cleanup PROVE Inv'
<1>1. /\ InvQueue' /\ Settled' /\ queue' # <<>>
      /\ pc' = "cleanup" /\ reply' = "none" /\ explicit' = "none" /\ "pending" \in flags'
  BY SendInv, Members DEF Cleanup, SendPending, Enders
<1> QED
  BY <1>1, Points, Members DEF Inv, InvReply, InvUsable, InvExplicit, InvOwn

(* A session that is aborted, or whose connection is gone, is not usable.   *)
LEMMA GoneInv ==
  ASSUME LinkDown, pc' \in {"idle", "cancel", "closed"}
  PROVE  Inv'
<1>1. InvQueue' /\ reply' = "none" /\ queue' = <<>> /\ IsClosed'
  BY QueueGone DEF LinkDown, IsClosed
<1> QED
  BY <1>1, Points, Members DEF Inv, InvReply, InvUsable, InvExplicit, InvOwn

(* A call that ends with nothing more to send leaves what the next one      *)
(* finds: that has to be what a usable session needs.                       *)
LEMMA EndInv ==
  ASSUME InvQueue', pc' \in {"idle", "entry", "cancel"}, reply' = "none",
         ~IsClosed' => IF explicit' = "none" THEN Settled'
                       ELSE queue' = <<>> /\ tx' = explicit'
  PROVE  Inv'
BY Points, Members DEF Inv, InvReply, InvUsable, InvExplicit, InvOwn

(* A call that answers at its first step changes nothing.                   *)
LEMMA LocalInv ==
  ASSUME IInv, pc = "entry", NEW a, AnswerLocally(a) \/ (Finish(a) /\ UNCHANGED <<flags, explicit>>)
  PROVE  Inv'
<1>1. /\ pc' = "idle" /\ reply' = "none"
      /\ UNCHANGED <<queue, tx, flags, explicit, link>>
  BY DEF AnswerLocally, Finish, Return, serverVars
<1>2. InvQueue' /\ (Settled => Settled') /\ IsClosed' = IsClosed
  BY <1>1, QueueKept DEF IInv, Inv, IsClosed
<1> QED BY <1>1, <1>2, EndInv DEF IInv, Inv, InvUsable

(* A Transaction of the session's own ends with a ROLLBACK on its way, or   *)
(* with nothing open.                                                       *)
LEMMA OwnEndInv == ASSUME IInv, pc \in OwnAwaits, NEW a, OwnEnd(a) PROVE Inv'
<1>1. /\ pc' = "idle" /\ reply' = "none" /\ explicit' = "none"
      /\ UNCHANGED <<tx, flags, link>>
  BY DEF OwnEnd, Return, IInv, Inv, InvOwn, serverVars
<1>2. InvQueue' /\ Settled'
  <2>1. CASE pc \in {"ownBegin", "ownVerify", "ownRead", "ownRows"}
    <3>1. queue' = Append(queue, "rollback")
      BY <2>1 DEF OwnEnd, DropTransaction
    <3> QED BY <1>1, <3>1, QueueAppend, Members DEF IInv, Inv, Enders
  <2>2. CASE pc \in {"ownCommit", "ownRollback"}
    <3>1. queue' = queue
      BY <2>2 DEF OwnEnd, DropTransaction
    <3> QED BY <1>1, <2>2, <3>1, QueueKept DEF IInv, Inv, InvOwn
  <2> QED BY <2>1, <2>2 DEF OwnAwaits
<1> QED BY <1>1, <1>2, EndInv

(* The ROLLBACK of a Transaction that failed.                               *)
LEMMA OwnRollbackInv ==
  ASSUME IInv, pc \in OwnAwaits, NEW r \in Enders, NEW p \in {"ownCommit", "ownRollback"},
         OwnContinue(r, p)
  PROVE  Inv'
<1>1. r \in Requests /\ r \notin {"begin", "read", "rows"}
  BY DEF Enders, Requests
<1>2. /\ InvQueue' /\ Settled' /\ queue' # <<>> /\ pc' = p /\ reply' = "none"
      /\ explicit' = "none"
  BY <1>1, SendInv DEF OwnContinue, IInv, Inv, InvOwn
<1>3. pc' \in OwnAwaits
  BY <1>2, Members
<1> QED
  BY <1>2, <1>3, Points DEF Inv, InvReply, InvUsable, InvExplicit, InvOwn, ExplicitAwaits

(* One more read inside it.                                                 *)
LEMMA OwnReadInv ==
  ASSUME IInv, pc \in OwnAwaits, queue = <<>>, tx \in Ids,
         NEW r \in {"read", "rows"}, NEW p \in {"ownVerify", "ownRead", "ownRows"},
         r = "rows" => p = "ownRows" /\ op = "query",
         OwnContinue(r, p)
  PROVE  Inv'
<1>1. r \in Requests /\ r \notin Enders
  BY DEF Enders, Requests
<1>2. /\ InvQueue' /\ queue' = <<r>> /\ pc' = p /\ reply' = "none"
      /\ explicit' = "none" /\ op' = op
  BY <1>1, SendInv DEF OwnContinue, IInv, Inv, InvOwn
<1>3. pc' \in OwnAwaits
  BY <1>2, Members
<1> QED
  BY <1>2, <1>3, Points DEF Inv, InvReply, InvUsable, InvExplicit, InvOwn, ExplicitAwaits

(* A cancellation that is not delivered, and one dropped.                   *)
LEMMA CancelInv == ASSUME IInv, NEW a, CancelNotDelivered(a) PROVE Inv'
<1>1. /\ pc = "cancel" /\ pc' = "idle"
      /\ UNCHANGED <<queue, tx, reply, flags, explicit, link>>
  BY DEF CancelNotDelivered, Return, wireVars
<1>2. InvQueue' /\ (Settled => Settled') /\ IsClosed' = IsClosed
  BY <1>1, QueueKept DEF IInv, Inv, IsClosed
<1> QED BY <1>1, <1>2, EndInv DEF IInv, Inv, InvUsable, InvReply
-----------------------------------------------------------------------------
(* The first step of every operation.                                       *)
LEMMA StartStep == ASSUME IInv, Start PROVE Inv'
<1> USE Members, Points
<1>1. TypeOK /\ Inv /\ InvQueue
  BY DEF IInv, Inv
<1>2. ASSUME NEW o, Entering(o)
      PROVE  /\ pc = "entry" /\ reply = "none"
             /\ explicit = "none" => Settled
             /\ explicit # "none" => explicit \in Ids /\ queue = <<>> /\ tx = explicit
  BY <1>1, <1>2 DEF Entering, Inv, InvUsable, InvReply, TypeOK
<1>3. CASE EnterUnusable
  <2>1. CASE Abort({"poisoned", "pending"})
    BY <2>1, GoneInv DEF Abort, Return
  <2> QED BY <1>3, <2>1, LocalInv DEF EnterUnusable
<1>4. CASE StartBegin
  <2>1. CASE AnswerLocally("error")
    BY <1>4, <2>1, LocalInv DEF StartBegin, Entering
  <2>2. CASE explicit = "none" /\ SendPending("begin", "begin") /\ UNCHANGED explicit
    <3>1. /\ InvQueue' /\ queue' # <<>> /\ queue'[Len(queue')] = "begin"
          /\ pc' = "begin" /\ reply' = "none" /\ "pending" \in flags' /\ explicit' = "none"
      BY <1>1, <1>2, <1>4, <2>2, SendInv DEF StartBegin, SendPending
    <3> QED BY <3>1 DEF Inv, InvReply, InvUsable, InvExplicit, InvOwn
  <2> QED BY <1>4, <2>1, <2>2 DEF StartBegin
<1>5. CASE StartCheck
  <2>1. /\ InvQueue' /\ pc' = "check" /\ reply' = "none" /\ "pending" \in flags'
        /\ explicit' \in Ids
    BY <1>1, <1>2, <1>5, SendInv DEF StartCheck, SendPending
  <2> QED BY <2>1 DEF Inv, InvReply, InvUsable, InvExplicit, InvOwn
<1>6. CASE StartWithoutTransaction
  BY <1>6, LocalInv DEF StartWithoutTransaction, Entering
<1>7. CASE StartRollback
  <2>1. /\ InvQueue' /\ Settled' /\ pc' = "rollback" /\ reply' = "none"
        /\ "pending" \in flags' /\ explicit' = "none"
    BY <1>1, <1>7, SendInv DEF StartRollback, SendPending, Enders
  <2> QED BY <2>1 DEF Inv, InvReply, InvUsable, InvExplicit, InvOwn
<1>8. CASE StartOwn
  <2>1. /\ InvQueue' /\ queue' # <<>> /\ queue'[Len(queue')] = "begin"
        /\ pc' = "ownBegin" /\ reply' = "none" /\ explicit' = "none"
    BY <1>1, <1>2, <1>8, SendInv DEF StartOwn
  <2> QED BY <2>1 DEF Inv, InvReply, InvUsable, InvExplicit, InvOwn
<1>9. CASE RejectAcquisition
  BY <1>9, LocalInv DEF RejectAcquisition, Entering
<1>10. CASE StartCancel
  <2>1. /\ pc = "entry" /\ pc' = "cancel" /\ UNCHANGED <<queue, tx, reply, flags, explicit, link>>
    BY <1>10 DEF StartCancel, wireVars, serverVars
  <2>2. InvQueue' /\ (Settled => Settled') /\ IsClosed' = IsClosed
    BY <1>1, <2>1, QueueKept DEF IsClosed
  <2> QED BY <1>1, <2>1, <2>2, EndInv DEF Inv, InvUsable, InvReply
<1> QED
  BY <1>3, <1>4, <1>5, <1>6, <1>7, <1>8, <1>9, <1>10 DEF Start

(* A call that has its last answer: the transaction it reports is the one   *)
(* the server confirmed, or what it sent has ended.                         *)
LEMMA FinishInv ==
  ASSUME IInv, NEW a, Finish(a),
         IF explicit' = "none" THEN Settled ELSE queue = <<>> /\ tx = explicit'
  PROVE  Inv'
<1>1. pc' = "idle" /\ reply' = "none" /\ UNCHANGED <<queue, tx>>
  BY DEF Finish, Return, serverVars
<1>2. InvQueue' /\ (Settled => Settled')
  BY <1>1, QueueKept DEF IInv, Inv
<1> QED BY <1>1, <1>2, EndInv

(* A reply, or a row, that reaches an operation on an explicit transaction. *)
LEMMA ExplicitStep ==
  ASSUME IInv,
         \/ BeginReplied \/ IdentifyReplied \/ CheckReplied \/ CommitReplied
         \/ RowsEnded \/ RowsFailed \/ RecheckReplied \/ CleanupReplied \/ RollbackReplied
  PROVE  Inv'
<1> USE Members, Points
<1>1. TypeOK /\ InvQueue /\ Inv /\ (reply # "none" => queue = <<>>)
  BY DEF IInv, Inv, InvReply
<1>2. ASSUME NEW p \in {"identify", "check", "rows", "recheck", "commit"},
             pc' = p, InvQueue', reply' = "none", "pending" \in flags',
             p = "identify" => queue' = <<"check">> /\ tx' \in Ids,
             p \in {"check", "rows", "recheck"} => explicit' \in Ids,
             p = "commit" => Settled'
      PROVE  Inv'
  BY <1>2 DEF Inv, InvReply, InvUsable, InvExplicit, InvOwn
<1>3. ASSUME Confirmed, reply # "none", pc \in {"check", "recheck"}
      PROVE  explicit \in Ids /\ tx = explicit /\ queue = <<>>
  BY <1>1, <1>3 DEF Confirmed, Inv, InvExplicit
<1>4. CASE BeginReplied
  <2>1. CASE reply = "ok" /\ SendPending("check", "identify") /\ UNCHANGED explicit
    <3>1. pc = "begin" /\ queue = <<>> /\ tx \in Ids
      BY <1>1, <1>4, <2>1 DEF BeginReplied, Inv, InvOwn
    <3>2. /\ InvQueue' /\ queue' = <<"check">> /\ pc' = "identify" /\ reply' = "none"
          /\ tx' \in Ids /\ "pending" \in flags'
      BY <1>1, <2>1, <3>1, SendInv DEF SendPending
    <3> QED BY <1>2, <3>2
  <2> QED BY <1>1, <1>4, <2>1, CleanupInv DEF BeginReplied
<1>5. CASE IdentifyReplied
  <2>1. CASE reply \in Ids /\ explicit' = reply /\ Finish("ok")
    <3>1. queue = <<>> /\ tx = reply
      BY <1>1, <1>5, <2>1 DEF IdentifyReplied, Inv, InvExplicit
    <3> QED BY <2>1, <3>1, FinishInv
  <2> QED BY <1>1, <1>5, <2>1, CleanupInv DEF IdentifyReplied
<1>6. CASE CheckReplied
  <2>1. CASE Confirmed /\ Finish("true") /\ UNCHANGED explicit
    BY <1>3, <1>6, <2>1, FinishInv DEF CheckReplied
  <2>2. CASE Confirmed /\ SendPending("commit", "commit")
    <3>1. /\ InvQueue' /\ Settled' /\ pc' = "commit" /\ reply' = "none"
          /\ "pending" \in flags'
      BY <1>1, <2>2, SendInv DEF SendPending, Enders
    <3> QED BY <1>2, <3>1
  <2>3. CASE Confirmed /\ SendPending("rows", "rows") /\ UNCHANGED explicit
    <3>1. explicit \in Ids /\ tx \in Ids /\ queue = <<>>
      BY <1>3, <1>6, <2>3 DEF CheckReplied
    <3>2. InvQueue' /\ pc' = "rows" /\ reply' = "none" /\ "pending" \in flags'
      BY <1>1, <2>3, <3>1, SendInv DEF SendPending
    <3> QED BY <1>2, <2>3, <3>1, <3>2
  <2> QED BY <1>1, <1>6, <2>1, <2>2, <2>3, CleanupInv DEF CheckReplied
<1>7. CASE CommitReplied
  <2>1. CASE explicit' = "none" /\ Finish("ok")
    BY <1>1, <1>7, <2>1, FinishInv DEF CommitReplied, Inv, InvExplicit
  <2> QED BY <1>1, <1>7, <2>1, CleanupInv DEF CommitReplied
<1>8. CASE RowsEnded
  <2>1. explicit \in Ids /\ UNCHANGED explicit
    BY <1>1, <1>8 DEF RowsEnded, Inv, InvExplicit
  <2>2. InvQueue' /\ pc' = "recheck" /\ reply' = "none" /\ "pending" \in flags'
    BY <1>1, <1>8, SendInv DEF RowsEnded, SendPending
  <2> QED BY <1>2, <2>1, <2>2
<1>9. CASE RowsFailed
  BY <1>1, <1>9, CleanupInv DEF RowsFailed
<1>10. CASE RecheckReplied
  <2>1. CASE Confirmed /\ Finish("ok") /\ UNCHANGED explicit
    BY <1>3, <1>10, <2>1, FinishInv DEF RecheckReplied
  <2> QED BY <1>1, <1>10, <2>1, CleanupInv DEF RecheckReplied
<1>11. CASE CleanupReplied \/ RollbackReplied
  BY <1>1, <1>11, FinishInv DEF CleanupReplied, RollbackReplied, Inv, InvExplicit
<1> QED
  BY <1>4, <1>5, <1>6, <1>7, <1>8, <1>9, <1>10, <1>11

(* A reply, or a row, that reaches a Transaction of the session's own.      *)
LEMMA OwnStep ==
  ASSUME IInv,
         \/ OwnBeginReplied \/ OwnVerifyReplied \/ OwnReadReplied \/ OwnRowsEnded
         \/ OwnRowsFailed \/ OwnCommitReplied \/ OwnRollbackReplied
  PROVE  Inv'
<1> USE Members
<1>1. ASSUME reply = "ok",
             pc \in {"ownBegin", "ownVerify", "ownRead"} \/ (pc = "ownRows" /\ op = "metadata")
      PROVE  queue = <<>> /\ tx \in Ids
  BY <1>1 DEF IInv, Inv, InvReply, InvOwn
<1>2. "commit" \in Enders /\ "rollback" \in Enders
  BY DEF Enders
<1>3. CASE OwnBeginReplied
  BY <1>1, <1>3, OwnReadInv, OwnEndInv DEF OwnBeginReplied
<1>4. CASE OwnVerifyReplied
  BY <1>1, <1>2, <1>4, OwnReadInv, OwnRollbackInv DEF OwnVerifyReplied
<1>5. CASE OwnReadReplied
  BY <1>1, <1>2, <1>5, OwnReadInv, OwnRollbackInv DEF OwnReadReplied
<1>6. CASE OwnRowsEnded
  BY <1>1, <1>2, <1>6, OwnReadInv, OwnRollbackInv DEF OwnRowsEnded
<1>7. CASE OwnRowsFailed
  BY <1>2, <1>7, OwnRollbackInv DEF OwnRowsFailed
<1>8. CASE OwnCommitReplied \/ OwnRollbackReplied
  BY <1>8, OwnEndInv DEF OwnCommitReplied, OwnRollbackReplied
<1> QED
  BY <1>3, <1>4, <1>5, <1>6, <1>7, <1>8
(* Time limits, lost connections, dropped and cancelled futures.            *)
LEMMA DisturbedStep ==
  ASSUME IInv, CancelAnswered \/ TimeLimit \/ LinkLost \/ Drop \/ Close
  PROVE  Inv'
<1> USE Members, Points
<1>1. TypeOK /\ InvQueue /\ Inv
  BY DEF IInv, Inv
<1>2. CASE CancelAnswered
  <2>1. CASE explicit = "none" /\ Return("ok") /\ UNCHANGED <<flags, explicit, wireVars, tx>>
    <3>1. /\ pc = "cancel" /\ pc' = "idle"
          /\ UNCHANGED <<queue, tx, reply, flags, explicit, link>>
      BY <1>2, <2>1 DEF CancelAnswered, Return, wireVars
    <3>2. InvQueue' /\ (Settled => Settled') /\ IsClosed' = IsClosed
      BY <1>1, <3>1, QueueKept DEF IsClosed
    <3> QED BY <1>1, <3>1, <3>2, EndInv DEF Inv, InvUsable, InvReply
  <2>2. CASE /\ explicit # "none" /\ ~IsClosed
             /\ explicit' = "none" /\ flags' = flags \cup {"pending"}
             /\ queue' = Append(queue, "rollback") /\ reply' = "none" /\ pc' = "rollback"
             /\ UNCHANGED <<op, answer, link, tx>>
    <3>1. InvQueue' /\ Settled'
      BY <1>1, <2>2, QueueAppend DEF Enders
    <3> QED BY <2>2, <3>1 DEF Inv, InvReply, InvUsable, InvExplicit, InvOwn
  <2>3. CASE LinkDown /\ Return("error")
    BY <2>3, GoneInv DEF Return
  <2>4. CASE IsClosed /\ Return("error") /\ UNCHANGED <<flags, explicit, wireVars, tx>>
    <3>1. /\ pc = "cancel" /\ pc' = "idle"
          /\ UNCHANGED <<queue, tx, reply, flags, explicit, link>>
      BY <1>2, <2>4 DEF CancelAnswered, Return, wireVars
    <3>2. InvQueue' /\ IsClosed'
      BY <1>1, <2>4, <3>1, QueueKept DEF IsClosed
    <3> QED BY <1>1, <3>1, <3>2, EndInv DEF Inv, InvReply
  <2> QED BY <1>2, <2>1, <2>2, <2>3, <2>4 DEF CancelAnswered
<1>3. CASE TimeLimit
  <2>1. CASE Cleanup
    BY <1>1, <2>1, CleanupInv
  <2>2. CASE Abort({"poisoned"})
    BY <2>2, GoneInv DEF Abort, Return
  <2>3. CASE pc \in OwnAwaits /\ OwnEnd("error")
    BY <2>3, OwnEndInv
  <2>4. CASE pc \in OwnAwaits /\ OwnContinue("rollback", "ownRollback")
    BY <2>4, OwnRollbackInv DEF Enders
  <2>5. CASE CancelNotDelivered("error")
    BY <2>5, CancelInv
  <2> QED BY <1>3, <2>1, <2>2, <2>3, <2>4, <2>5 DEF TimeLimit
<1>4. CASE LinkLost
  <2>1. LinkDown /\ pc' \in {"idle", "cancel"}
    BY <1>4 DEF LinkLost, Abort, Return, clientVars
  <2> QED BY <2>1, GoneInv
<1>5. CASE Drop
  <2>1. CASE /\ pc \in ExplicitAwaits
             /\ Return("dropped") /\ reply' = "none"
             /\ UNCHANGED <<flags, explicit, before, link, queue, serverVars>>
    <3>1. InvQueue' /\ pc' = "idle" /\ reply' = "none" /\ IsClosed'
      BY <1>1, <2>1, QueueKept DEF Return, serverVars, IsClosed, Inv, InvExplicit
    <3> QED BY <3>1, EndInv
  <2> QED BY <1>5, <2>1, OwnEndInv, CancelInv DEF Drop
<1>6. CASE Close
  BY <1>6, GoneInv DEF Close
<1> QED
  BY <1>2, <1>3, <1>4, <1>5, <1>6

-----------------------------------------------------------------------------
(* The server.                                                              *)

(* What executing the oldest request has to leave for the invariant: an     *)
(* ending leaves nothing, only a check answers an identifier, and that of   *)
(* the open transaction or of none that was ever recorded; a BEGIN or a     *)
(* read that succeeds leaves a transaction.                                 *)
Fits(result, left) ==
  /\ queue[1] \in Enders => left = "none"
  /\ result \in Ids => queue[1] = "check" /\ (tx \in Ids => result = tx)
  /\ result \in Ids => left = tx /\ (result # tx => result # explicit)
  /\ result = "ok" /\ queue[1] \in {"begin", "read"} => left \in Ids

LEMMA ExecuteStep ==
  ASSUME IInv, queue # <<>>, NEW result, NEW left, Execute(result, left),
         Fits(result, left)
  PROVE  Inv'
<1> USE Members, Points
<1>1. TypeOK /\ InvQueue /\ Inv /\ reply = "none"
  BY DEF IInv, Inv, InvReply
<1>2. /\ queue' = Tail(queue) /\ tx' = left
      /\ UNCHANGED <<flags, explicit, op, pc, link>>
      /\ reply' = IF pc \in Awaits \ {"cancel"} /\ Len(queue) = 1 THEN result ELSE reply
  BY DEF Execute, clientVars
<1>3. /\ InvQueue'
      /\ queue' = <<>> <=> Len(queue) = 1
      /\ queue' # <<>> => queue'[Len(queue')] = queue[Len(queue)]
      /\ Settled => Settled'
  BY <1>1, <1>2, QueueServe DEF Fits
<1>4. IsClosed' = IsClosed
  BY <1>2 DEF IsClosed
<1>5. InvReply'
  <2>1. pc \in Awaits \ {"cancel"} => pc \notin {"idle", "entry", "cancel", "closed"}
    BY DEF Awaits, ExplicitAwaits, OwnAwaits
  <2> QED BY <1>1, <1>2, <1>3, <2>1 DEF InvReply
<1>6. InvUsable'
  BY <1>1, <1>2, <1>3, <1>4 DEF Inv, InvUsable
<1>7. InvExplicit'
  <2>1. pc = "identify" => queue' = <<>> /\ (reply' \in Ids => tx' = reply')
    BY <1>1, <1>2, <1>3 DEF Inv, InvExplicit, Fits
  <2>2. pc \in {"check", "recheck"} => (reply' = explicit => tx' = explicit)
    BY <1>1, <1>2 DEF Inv, InvExplicit, Fits
  <2> QED BY <1>1, <1>2, <1>3, <2>1, <2>2 DEF Inv, InvExplicit
<1>8. InvOwn'
  <2>1. pc \in {"begin", "ownBegin"} =>
          IF queue' = <<>> THEN reply' = "ok" => tx' \in Ids
                           ELSE queue'[Len(queue')] = "begin"
    BY <1>1, <1>2, <1>3 DEF Inv, InvOwn, Fits
  <2>2. pc \in {"ownVerify", "ownRead"} \/ (pc = "ownRows" /\ op = "metadata") =>
          queue' = <<>> /\ (reply' = "ok" => tx' \in Ids)
    BY <1>1, <1>2, <1>3 DEF Inv, InvOwn, Fits
  <2> QED BY <1>1, <1>2, <1>3, <2>1, <2>2 DEF Inv, InvOwn
<1> QED BY <1>3, <1>5, <1>6, <1>7, <1>8 DEF Inv

LEMMA ServeStep == ASSUME IInv, Serve \/ Interrupt PROVE Inv'
<1> USE Points
<1>1. /\ InvQueue
      /\ tx \in Ids \cup {"none", "failed"}
      /\ queue # <<>> => Head(queue) = queue[1]
  BY DEF IInv, Inv, TypeOK
<1>2. ASSUME Refuse, NEW r \in {"begin", "check", "read", "rows"}, Oldest(r) PROVE Inv'
  <2>1. Fits("refused", IF tx = "none" THEN "none" ELSE "failed")
    BY <1>1, <1>2 DEF Fits, Oldest, Enders
  <2> QED BY <1>2, <2>1, ExecuteStep DEF Refuse, Oldest
<1>3. CASE ServeBegin
  <2>1. tx = "none" /\ queue # <<>> /\ queue[1] = "begin"
    BY <1>1, <1>3 DEF ServeBegin, Oldest, InvQueue
  <2>2. PICK id \in Ids : Execute("ok", id)
    BY <1>3, <2>1 DEF ServeBegin
  <2>3. Fits("ok", id)
    BY <2>1 DEF Fits, Enders
  <2> QED BY <2>1, <2>2, <2>3, ExecuteStep
<1>4. CASE ServeCheck
  <2>1. PICK id \in Ids : /\ Execute(id, tx)
                          /\ \/ tx \in Ids /\ id = tx
                             \/ tx = "none" /\ id # explicit
    BY <1>4 DEF ServeCheck
  <2>2. Fits(id, tx) /\ queue # <<>>
    BY <1>1, <1>4, <2>1 DEF Fits, ServeCheck, Oldest, Enders
  <2> QED BY <2>1, <2>2, ExecuteStep
<1>5. CASE ServeStatement
  <2>1. queue # <<>> /\ queue[1] \in {"read", "rows"} /\ tx \in Ids
    BY <1>1, <1>5 DEF ServeStatement, Oldest, InvQueue
  <2>2. Fits("ok", tx) /\ (queue[1] = "rows" => Fits("ok", "none"))
    BY <2>1 DEF Fits, Enders
  <2> QED BY <1>1, <1>5, <2>1, <2>2, ExecuteStep DEF ServeStatement
<1>6. CASE ServeEnd
  <2>1. queue # <<>> /\ queue[1] \in Enders
    BY <1>1, <1>6 DEF ServeEnd, Oldest, Enders
  <2>2. PICK result \in {"ok", "refused"} : Execute(result, "none")
    BY <1>6 DEF ServeEnd
  <2>3. Fits(result, "none")
    BY <2>1 DEF Fits, Enders
  <2> QED BY <2>1, <2>2, <2>3, ExecuteStep
<1>7. CASE ServeRefusal
  BY <1>2, <1>7 DEF ServeRefusal
<1>8. CASE Serve
  BY <1>3, <1>4, <1>5, <1>6, <1>7, <1>8 DEF Serve
<1>9. CASE Interrupt
  <2>1. CASE UNCHANGED <<clientVars, wireVars, tx, server>>
    BY <2>1 DEF IInv, Inv, InvQueue, InvReply, InvUsable, InvExplicit, InvOwn, Settled,
                IsClosed, clientVars, wireVars
  <2> QED BY <1>2, <1>9, <2>1 DEF Interrupt
<1> QED BY <1>8, <1>9

-----------------------------------------------------------------------------
LEMMA Initially == Init => IInv
BY TypeInitially, QueueGone, Points, Members
DEF Init, IInv, Inv, InvQueue, InvReply, InvUsable, InvExplicit, InvOwn, Settled

LEMMA Invariance == IInv /\ [Next]_vars => IInv'
<1> SUFFICES ASSUME IInv, [Next]_vars PROVE Inv'
  BY TypeStep DEF IInv
<1>1. ASSUME NEW o \in Operations, Invoke(o) PROVE Inv'
  <2>1. /\ pc = "idle" /\ pc' = "entry" /\ UNCHANGED <<queue, tx, reply, flags, explicit, link>>
    BY <1>1 DEF Invoke, wireVars, serverVars
  <2>2. InvQueue' /\ (Settled => Settled') /\ IsClosed' = IsClosed
    BY <2>1, QueueKept DEF IInv, Inv, IsClosed
  <2> QED BY <2>1, <2>2, EndInv DEF IInv, Inv, InvUsable, InvReply
<1>2. CASE Stall \/ UNCHANGED vars
  <2>1. UNCHANGED <<clientVars, wireVars, tx>>
    BY <1>2 DEF Stall, vars, serverVars
  <2> QED
    BY <2>1 DEF IInv, Inv, InvQueue, InvReply, InvUsable, InvExplicit, InvOwn, Settled,
                IsClosed, clientVars, wireVars
<1>3. CASE Receive
  BY <1>3, ExplicitStep, OwnStep, DisturbedStep DEF Receive
<1> QED
  BY <1>1, <1>2, <1>3, StartStep, DisturbedStep, ServeStep DEF Next

(* A transaction the session reports is open on the server and nothing      *)
(* queued earlier can end it, whatever was dropped, timed out, refused or   *)
(* cancelled before (transaction_active, the ROLLBACK of a dropped          *)
(* Transaction).                                                            *)
THEOREM ReportedIsHeld == Spec => []ExplicitHeld
<1>1. IInv => ExplicitHeld
  BY DEF IInv, Inv, InvUsable, ExplicitHeld, Status
<1> QED BY <1>1, Initially, Invariance, PTL DEF Spec

(* A session that reports no transaction has none once the server has       *)
(* caught up.                                                               *)
THEOREM NothingIsLeft == Spec => []NothingLeftBehind
<1>1. IInv => NothingLeftBehind
  BY DEF IInv, Inv, InvUsable, NothingLeftBehind, Status, Settled
<1> QED BY <1>1, Initially, Invariance, PTL DEF Spec

(* No BEGIN meets an open transaction, and no read a closed or an aborted   *)
(* one, although what dropped calls left runs first.                        *)
THEOREM EachInItsPlace == Spec => []RequestsInPlace
<1>1. IInv => RequestsInPlace
  <2>1. IInv => queue \in Seq(Requests)
    BY DEF IInv, TypeOK
  <2> QED
    BY <2>1 DEF IInv, Inv, InvQueue, RequestsInPlace, NoNestedBegin, ReadsInTransaction, Oldest
<1> QED BY <1>1, Initially, Invariance, PTL DEF Spec
-----------------------------------------------------------------------------
(* What the caller sees.                                                    *)

(* Which call may stand at which await, and what the session was when it    *)
(* was made.                                                                *)
InvCaller ==
  /\ op = "none" <=> pc \in {"idle", "closed"}
  /\ pc = "entry" => before = Status
  /\ pc = "cancel" =>
       /\ op = "cancel" /\ (before = Status \/ link = "down")
       /\ before = "explicit" => explicit # "none"
  /\ pc \in ExplicitAwaits => flags = {"pending"} /\ link = "up"
  /\ pc \in {"begin", "identify"} => op = "begin" /\ before = "auto"
  /\ pc = "check" => op \in {"active", "commit", "query"} /\ before = "explicit"
  /\ pc = "commit" => op = "commit" /\ before = "explicit"
  /\ pc \in {"rows", "recheck"} => op = "query" /\ before = "explicit"
  /\ pc = "cleanup" =>
       \/ op = "begin" /\ before = "auto"
       \/ op \in {"active", "commit", "query"} /\ before = "explicit"
  /\ pc = "rollback" => op \in {"rollback", "cancel"} /\ before = "explicit"
  /\ pc \in OwnAwaits =>
       flags = {} /\ link = "up" /\ before = "auto" /\ op \in {"query"} \cup Acquisitions

(* A step of the caller's view.                                             *)
Seen == [Promised!Next]_(Promised!vars)

LEMMA Names ==
  /\ Operations = Promised!Operations /\ Acquisitions = Promised!Acquisitions
  /\ Answers = Promised!Answers
  /\ Acquisitions \cap {"begin", "active", "commit", "rollback", "query", "cancel", "none"} = {}
  /\ "none" \notin Operations
BY DEF Operations, Promised!Operations, Acquisitions, Promised!Acquisitions, Answers,
       Promised!Answers

(* An answer that ReadSession allows.                                       *)
LEMMA AnswerSeen ==
  ASSUME InvCaller, pc \notin {"idle", "closed"}, NEW a \in Answers, Return(a),
         Promised!Ends(op, before, Status', a)
  PROVE  InvCaller' /\ Seen
<1>1. Reported = before /\ Reported' = Status' /\ op # "none"
  BY DEF Reported, Return, InvCaller
<1>2. Status' \in Promised!Statuses
  BY DEF Status, Promised!Statuses
<1>3. Promised!Answer
  BY <1>1, <1>2, Names DEF Promised!Answer, Return
<1>4. InvCaller'
  BY Points DEF InvCaller, Return, ExplicitAwaits, OwnAwaits
<1> QED BY <1>3, <1>4 DEF Seen, Promised!Next

(* A call that goes on shows nothing.                                       *)
LEMMA AwaitSeen ==
  ASSUME pc \notin {"idle", "closed"}, pc' \notin {"idle", "closed"},
         UNCHANGED <<op, answer, before>>
  PROVE  Seen
BY DEF Seen, Reported, Promised!vars
(* A request that is sent inside a call.                                    *)
LEMMA SendSeen ==
  ASSUME pc \notin {"idle", "closed"}, NEW r, NEW p \in Awaits, Send(r, p)
  PROVE  Seen /\ pc' = p /\ UNCHANGED <<op, before, link>>
BY AwaitSeen, Points, Members DEF Send, Awaits, ExplicitAwaits, OwnAwaits

(* The cleanup of any operation on an explicit transaction.                 *)
LEMMA CleanupSeen ==
  ASSUME InvCaller, pc \in ExplicitAwaits \ {"rollback"}, Cleanup
  PROVE  InvCaller' /\ Seen
<1>1. /\ Seen /\ pc' = "cleanup" /\ UNCHANGED <<op, before, link>>
      /\ flags' = flags \cup {"pending"}
  BY SendSeen, Points, Members DEF Cleanup, SendPending
<1>2. flags' = {"pending"}
  BY <1>1 DEF InvCaller
<1>3. InvCaller'
  BY <1>1, <1>2, Points, Members DEF InvCaller, ExplicitAwaits, OwnAwaits
<1> QED BY <1>1, <1>3

(* What a call that fails may leave behind, by where it stands.             *)
LEMMA FailureAllowed ==
  ASSUME InvCaller, pc \in ExplicitAwaits \cup OwnAwaits
  PROVE  /\ Promised!Ends(op, before, "dead", "error")
         /\ pc \in {"cleanup"} \cup OwnAwaits => Promised!Ends(op, before, "auto", "error")
<1> USE Names
<1>1. CASE pc \in OwnAwaits
  BY <1>1 DEF InvCaller, Promised!Ends
<1>2. CASE pc \in {"begin", "identify", "check", "commit", "rows", "recheck", "cleanup"}
  BY <1>2 DEF InvCaller, Promised!Ends
<1>3. CASE pc = "rollback"
  BY <1>3 DEF InvCaller, Promised!Ends
<1> QED BY <1>1, <1>2, <1>3, Points DEF ExplicitAwaits

LEMMA StartSeen == ASSUME IInv, InvCaller, Start PROVE InvCaller' /\ Seen
<1> USE Members, Points, Names
<1>1. pc = "entry" /\ before = Status /\ op # "none"
  BY DEF Start, EnterUnusable, StartBegin, StartCheck, StartWithoutTransaction, StartRollback,
         StartOwn, RejectAcquisition, StartCancel, Entering, InvCaller
<1>2. ASSUME NEW a \in Answers, AnswerLocally(a), Promised!Ends(op, before, before, a)
      PROVE  InvCaller' /\ Seen
  <2>1. Status' = before /\ Return(a)
    BY <1>1, <1>2 DEF AnswerLocally, Finish, Status, IsClosed
  <2> QED BY <1>1, <1>2, <2>1, AnswerSeen
<1>3. ASSUME ~IsClosed PROVE flags = {} /\ link # "down"
  BY <1>3 DEF IsClosed
<1>3a. link \in {"up", "down"}
  BY DEF IInv, TypeOK
<1>4. ASSUME NEW r, NEW p \in ExplicitAwaits, ~IsClosed, SendPending(r, p),
             \/ p = "begin" /\ op = "begin" /\ explicit = "none"
             \/ p = "check" /\ op \in {"active", "commit", "query"} /\ explicit # "none"
             \/ p = "rollback" /\ op = "rollback" /\ explicit # "none"
      PROVE  InvCaller' /\ Seen
  <2>1. Seen /\ pc' = p /\ flags' = {"pending"} /\ link' = "up" /\ UNCHANGED <<op, before>>
    BY <1>1, <1>3, <1>3a, <1>4, SendSeen DEF SendPending
  <2>2. before = IF explicit # "none" THEN "explicit" ELSE "auto"
    BY <1>1, <1>4 DEF Status
  <2> QED BY <1>1, <1>4, <2>1, <2>2 DEF InvCaller, ExplicitAwaits, OwnAwaits
<1>5. CASE EnterUnusable
  <2>1. op # "cancel" /\ before = "dead" /\ Promised!Ends(op, before, "dead", "error")
    BY <1>1, <1>5 DEF EnterUnusable, Status, IsClosed, Promised!Ends
  <2>2. CASE Abort({"poisoned", "pending"})
    <3>1. Status' = "dead" /\ Return("error")
      BY <2>2 DEF Abort, Status, IsClosed
    <3> QED BY <1>1, <2>1, <3>1, AnswerSeen
  <2>3. CASE Finish("error") /\ UNCHANGED <<flags, explicit>>
    BY <1>2, <2>1, <2>3 DEF AnswerLocally
  <2> QED BY <1>5, <2>2, <2>3 DEF EnterUnusable
<1>6. CASE StartBegin
  <2>1. op = "begin" /\ ~IsClosed
    BY <1>6 DEF StartBegin, Entering
  <2>2. CASE explicit # "none" /\ AnswerLocally("error")
    <3>1. Promised!Ends(op, before, before, "error")
      BY <1>1, <2>1, <2>2 DEF Status, Promised!Ends
    <3> QED BY <1>2, <2>2, <3>1
  <2> QED BY <1>4, <1>6, <2>1, <2>2 DEF StartBegin
<1>7. CASE StartCheck
  BY <1>4, <1>7 DEF StartCheck, Entering
<1>8. CASE StartWithoutTransaction
  <2>1. /\ op \in {"active", "commit", "rollback"} /\ before = "auto"
        /\ AnswerLocally(IF op = "active" THEN "false" ELSE "error")
    BY <1>1, <1>8 DEF StartWithoutTransaction, Entering, Status
  <2>2. Promised!Ends(op, before, before, IF op = "active" THEN "false" ELSE "error")
    BY <2>1 DEF Promised!Ends
  <2> QED BY <1>2, <2>1, <2>2
<1>9. CASE StartRollback
  BY <1>4, <1>9 DEF StartRollback, Entering
<1>10. CASE StartOwn
  <2>1. /\ op \in {"query"} \cup Acquisitions /\ flags = {} /\ link = "up" /\ before = "auto"
    BY <1>1, <1>3, <1>3a, <1>10 DEF StartOwn, Entering, Status
  <2>2. Seen /\ pc' = "ownBegin" /\ UNCHANGED <<op, before, link, flags>>
    BY <1>1, <1>10, SendSeen DEF StartOwn
  <2> QED BY <2>1, <2>2 DEF InvCaller, ExplicitAwaits
<1>11. CASE RejectAcquisition
  <2>1. op \in Acquisitions /\ ~IsClosed
    BY <1>11 DEF RejectAcquisition, Entering
  <2>2. before \in {"auto", "explicit"} /\ (before = "explicit" <=> explicit # "none")
    BY <1>1, <2>1 DEF Status
  <2>3. /\ Promised!Ends(op, before, before, "error")
        /\ before = "auto" => Promised!Ends(op, before, before, "ok")
    BY <2>1, <2>2 DEF Promised!Ends
  <2> QED BY <1>2, <1>11, <2>2, <2>3 DEF RejectAcquisition
<1>12. CASE StartCancel
  <2>1. Seen
    BY <1>1, <1>12, AwaitSeen DEF StartCancel
  <2>2. /\ pc' = "cancel" /\ op = "cancel"
        /\ UNCHANGED <<op, before, link, flags, explicit>>
    BY <1>12 DEF StartCancel, wireVars
  <2>3. before = "explicit" => explicit # "none"
    BY <1>1 DEF Status
  <2>4. Status' = Status
    BY <2>2 DEF Status, IsClosed
  <2> QED BY <1>1, <2>1, <2>2, <2>3, <2>4 DEF InvCaller
<1> QED
  BY <1>5, <1>6, <1>7, <1>8, <1>9, <1>10, <1>11, <1>12 DEF Start
LEMMA ExplicitSeen ==
  ASSUME IInv, InvCaller,
         \/ BeginReplied \/ IdentifyReplied \/ CheckReplied \/ CommitReplied
         \/ RowsEnded \/ RowsFailed \/ RecheckReplied \/ CleanupReplied \/ RollbackReplied
  PROVE  InvCaller' /\ Seen
<1> USE Members, Points, Names
<1>1. /\ pc \in ExplicitAwaits /\ flags = {"pending"} /\ link = "up"
      /\ pc \notin {"idle", "closed"} /\ op # "none"
  BY DEF InvCaller, BeginReplied, IdentifyReplied, CheckReplied, CommitReplied, RowsEnded,
         RowsFailed, RecheckReplied, CleanupReplied, RollbackReplied
<1>2. ASSUME NEW r, NEW p \in {"identify", "commit", "rows", "recheck"}, SendPending(r, p),
             \/ p = "identify" /\ pc = "begin"
             \/ p = "commit" /\ pc = "check" /\ op = "commit"
             \/ p = "rows" /\ pc = "check" /\ op = "query"
             \/ p = "recheck" /\ pc = "rows"
      PROVE  InvCaller' /\ Seen
  <2>1. /\ Seen /\ pc' = p /\ flags' = {"pending"} /\ link' = "up"
        /\ UNCHANGED <<op, before>>
    BY <1>1, <1>2, SendSeen DEF SendPending
  <2> QED BY <1>2, <2>1 DEF InvCaller, ExplicitAwaits, OwnAwaits
<1>3. ASSUME NEW a \in Answers, flags' = flags \ {"pending"}, Finish(a),
             NEW s \in {"auto", "explicit"},
             s = IF explicit' = "none" THEN "auto" ELSE "explicit",
             Promised!Ends(op, before, s, a)
      PROVE  InvCaller' /\ Seen
  <2>1. Status' = s /\ Return(a)
    BY <1>1, <1>3 DEF Status, IsClosed, Finish
  <2> QED BY <1>1, <1>3, <2>1, AnswerSeen
<1>4. ASSUME Cleanup, pc # "rollback" PROVE InvCaller' /\ Seen
  BY <1>1, <1>4, CleanupSeen
<1>5. CASE BeginReplied
  BY <1>2, <1>4, <1>5 DEF BeginReplied
<1>6. CASE IdentifyReplied
  <2>1. CASE reply \in Ids /\ explicit' = reply /\ flags' = flags \ {"pending"} /\ Finish("ok")
    <3>1. explicit' # "none" /\ Promised!Ends(op, before, "explicit", "ok")
      BY <1>6, <2>1 DEF IdentifyReplied, InvCaller, Promised!Ends
    <3> QED BY <1>3, <2>1, <3>1
  <2> QED BY <1>4, <1>6, <2>1 DEF IdentifyReplied
<1>7. CASE CheckReplied
  <2>1. CASE op = "active" /\ flags' = flags \ {"pending"} /\ Finish("true") /\ UNCHANGED explicit
    <3>1. explicit' # "none" /\ Promised!Ends(op, before, "explicit", "true")
      BY <1>7, <2>1 DEF CheckReplied, InvCaller, Promised!Ends, IInv, Inv, InvExplicit
    <3> QED BY <1>3, <2>1, <3>1
  <2> QED BY <1>2, <1>4, <1>7, <2>1 DEF CheckReplied
<1>8. CASE CommitReplied
  <2>1. CASE explicit' = "none" /\ flags' = flags \ {"pending"} /\ Finish("ok")
    <3>1. Promised!Ends(op, before, "auto", "ok")
      BY <1>8 DEF CommitReplied, InvCaller, Promised!Ends
    <3> QED BY <1>3, <2>1, <3>1
  <2> QED BY <1>4, <1>8, <2>1 DEF CommitReplied
<1>9. CASE RowsEnded
  BY <1>2, <1>9 DEF RowsEnded
<1>10. CASE RowsFailed
  BY <1>4, <1>10 DEF RowsFailed
<1>11. CASE RecheckReplied
  <2>1. CASE flags' = flags \ {"pending"} /\ Finish("ok") /\ UNCHANGED explicit
    <3>1. explicit' # "none" /\ Promised!Ends(op, before, "explicit", "ok")
      BY <1>11, <2>1 DEF RecheckReplied, InvCaller, Promised!Ends, IInv, Inv, InvExplicit
    <3> QED BY <1>3, <2>1, <3>1
  <2> QED BY <1>4, <1>11, <2>1 DEF RecheckReplied
<1>12. CASE CleanupReplied
  <2>1. explicit' = "none" /\ Promised!Ends(op, before, "auto", "error")
    BY <1>12, FailureAllowed DEF CleanupReplied, IInv, Inv, InvExplicit
  <2> QED BY <1>3, <1>12, <2>1 DEF CleanupReplied
<1>13. CASE RollbackReplied
  <2>1. explicit' = "none" /\ Promised!Ends(op, before, "auto", "ok")
    BY <1>13 DEF RollbackReplied, IInv, Inv, InvExplicit, InvCaller, Promised!Ends
  <2> QED BY <1>3, <1>13, <2>1 DEF RollbackReplied
<1> QED
  BY <1>5, <1>6, <1>7, <1>8, <1>9, <1>10, <1>11, <1>12, <1>13

LEMMA OwnContinueSeen ==
  ASSUME InvCaller, pc \in OwnAwaits, NEW r, NEW p \in OwnAwaits, OwnContinue(r, p)
  PROVE  InvCaller' /\ Seen
<1>1. Seen /\ pc' = p /\ UNCHANGED <<op, before, link, flags>>
  BY SendSeen, Members, Points DEF OwnContinue
<1> QED BY <1>1, Points, Names DEF InvCaller, ExplicitAwaits, OwnAwaits

LEMMA OwnEndSeen ==
  ASSUME IInv, InvCaller, pc \in OwnAwaits, NEW a \in {"ok", "error"}, OwnEnd(a)
  PROVE  InvCaller' /\ Seen
<1>1. Status' = "auto" /\ Return(a) /\ a \in Answers
  BY Members DEF OwnEnd, Status, IsClosed, InvCaller, IInv, Inv, InvOwn
<1>2. Promised!Ends(op, before, "auto", a)
  BY Names DEF InvCaller, Promised!Ends
<1> QED BY <1>1, <1>2, AnswerSeen, Points

LEMMA OwnSeen ==
  ASSUME IInv, InvCaller,
         \/ OwnBeginReplied \/ OwnVerifyReplied \/ OwnReadReplied \/ OwnRowsEnded
         \/ OwnRowsFailed \/ OwnCommitReplied \/ OwnRollbackReplied
  PROVE  InvCaller' /\ Seen
BY OwnContinueSeen, OwnEndSeen, Members
DEF OwnBeginReplied, OwnVerifyReplied, OwnReadReplied, OwnRowsEnded, OwnRowsFailed,
    OwnCommitReplied, OwnRollbackReplied

(* A call that fails because its connection is given up or lost.            *)
LEMMA GoneSeen ==
  ASSUME InvCaller, pc \in ExplicitAwaits \cup OwnAwaits, LinkDown, Return("error")
  PROVE  InvCaller' /\ Seen
<1>1. Status' = "dead" /\ "error" \in Answers
  BY Members DEF Status, IsClosed, LinkDown
<1> QED BY <1>1, FailureAllowed, AnswerSeen, Points

(* A dropped future: the session is dead, or what it was.                   *)
LEMMA DropSeen ==
  ASSUME InvCaller, pc \notin {"idle", "closed"}, Return("dropped"),
         \/ Status' = "dead"
         \/ Status' = before /\ (before = "auto" \/ op = "cancel")
  PROVE  InvCaller' /\ Seen
<1>1. Reported = before /\ Reported' = Status' /\ op # "none"
  BY DEF Reported, Return, InvCaller
<1>2. Promised!Drop
  BY <1>1 DEF Promised!Drop, Return
<1>3. InvCaller'
  BY Points DEF InvCaller, Return, ExplicitAwaits, OwnAwaits
<1> QED BY <1>2, <1>3 DEF Seen, Promised!Next

(* What a cancel request leaves of the session.                             *)
LEMMA CancelSeen ==
  ASSUME InvCaller, pc = "cancel", UNCHANGED <<flags, explicit, link>>,
         NEW a \in {"ok", "error", "dropped"}, Return(a),
         a = "ok" => explicit = "none"
  PROVE  InvCaller' /\ Seen
<1>1. /\ op = "cancel" /\ Status' \in {before, "dead"}
      /\ a = "ok" => before # "explicit"
  BY DEF InvCaller, Status, IsClosed
<1>2. CASE a = "dropped"
  BY <1>1, <1>2, DropSeen
<1>3. CASE a # "dropped"
  <2>1. Promised!Ends(op, before, Status', a) /\ a \in Answers
    BY <1>1, <1>3, Members DEF Promised!Ends
  <2> QED BY <2>1, AnswerSeen
<1> QED BY <1>2, <1>3

LEMMA DisturbedSeen ==
  ASSUME IInv, InvCaller, CancelAnswered \/ TimeLimit \/ LinkLost \/ Drop \/ Close
  PROVE  InvCaller' /\ Seen
<1> USE Members, Points
<1>1. CASE CancelAnswered
  <2>1. CASE explicit = "none" /\ Return("ok") /\ UNCHANGED <<flags, explicit, wireVars, tx>>
    BY <1>1, <2>1, CancelSeen DEF CancelAnswered, wireVars
  <2>2. CASE /\ explicit # "none" /\ ~IsClosed
             /\ flags' = flags \cup {"pending"}
             /\ pc' = "rollback"
             /\ UNCHANGED <<op, answer, link, tx>>
    <3>1. /\ pc = "cancel" /\ UNCHANGED before /\ op = "cancel" /\ before = "explicit"
          /\ flags' = {"pending"} /\ link' = "up"
      BY <1>1, <2>2 DEF CancelAnswered, InvCaller, IsClosed, Status, IInv, TypeOK
    <3>2. Seen
      BY <2>2, <3>1, AwaitSeen
    <3> QED BY <2>2, <3>1, <3>2 DEF InvCaller, ExplicitAwaits, OwnAwaits
  <2>3. CASE /\ explicit # "none" /\ "pending" \in flags
             /\ LinkDown /\ Return("error")
    <3>1. op = "cancel" /\ pc = "cancel" /\ Status' = "dead"
      BY <1>1, <2>3 DEF CancelAnswered, InvCaller, LinkDown, Status, IsClosed
    <3>2. Promised!Ends(op, before, "dead", "error")
      BY <3>1 DEF Promised!Ends
    <3> QED BY <2>3, <3>1, <3>2, AnswerSeen
  <2>4. CASE IsClosed /\ Return("error") /\ UNCHANGED <<flags, explicit, wireVars, tx>>
    BY <1>1, <2>4, CancelSeen DEF CancelAnswered, wireVars
  <2> QED BY <1>1, <2>1, <2>2, <2>3, <2>4 DEF CancelAnswered
<1>2. ASSUME NEW a \in {"error", "dropped"}, CancelNotDelivered(a)
      PROVE  InvCaller' /\ Seen
  BY <1>2, CancelSeen DEF CancelNotDelivered, wireVars
<1>3. CASE TimeLimit
  <2>1. CASE pc \in ExplicitAwaits \ {"cleanup", "rollback"} /\ Cleanup
    BY <2>1, CleanupSeen
  <2>2. CASE pc \in {"cleanup", "rollback"} /\ Abort({"poisoned"})
    BY <2>2, GoneSeen DEF Abort
  <2> QED BY <1>2, <1>3, <2>1, <2>2, OwnEndSeen, OwnContinueSeen DEF TimeLimit
<1>4. CASE LinkLost
  <2>1. CASE pc \in ExplicitAwaits \cup OwnAwaits
    BY <1>4, <2>1, GoneSeen DEF LinkLost, Abort
  <2>2. CASE pc = "idle" /\ LinkDown /\ UNCHANGED clientVars
    <3>1. Reported' = "dead" /\ Reported # "closed" /\ op = "none" /\ UNCHANGED <<op, answer>>
      BY <2>2 DEF Reported, Status, IsClosed, LinkDown, clientVars, InvCaller
    <3>2. Promised!Lose
      BY <3>1 DEF Promised!Lose
    <3>3. InvCaller'
      BY <2>2 DEF InvCaller, clientVars, ExplicitAwaits, OwnAwaits
    <3> QED BY <3>2, <3>3 DEF Seen, Promised!Next
  <2>3. CASE pc = "cancel" /\ LinkDown /\ UNCHANGED clientVars
    <3>1. Seen
      BY <2>3, AwaitSeen DEF clientVars
    <3>2. InvCaller'
      BY <2>3 DEF InvCaller, clientVars, LinkDown, ExplicitAwaits, OwnAwaits
    <3> QED BY <3>1, <3>2
  <2> QED BY <1>4, <2>1, <2>2, <2>3 DEF LinkLost
<1>5. CASE Drop
  <2>1. CASE /\ pc \in ExplicitAwaits /\ Return("dropped")
             /\ UNCHANGED <<flags, explicit, before, link, queue, serverVars>>
    <3>1. Status' = "dead"
      BY <2>1 DEF Status, IsClosed, InvCaller
    <3> QED BY <2>1, <3>1, DropSeen
  <2>2. CASE pc \in OwnAwaits /\ OwnEnd("dropped")
    <3>1. Status' = "auto" /\ before = "auto" /\ Return("dropped")
      BY <2>2 DEF OwnEnd, Status, IsClosed, InvCaller, IInv, Inv, InvOwn
    <3> QED BY <2>2, <3>1, DropSeen
  <2> QED BY <1>2, <1>5, <2>1, <2>2 DEF Drop
<1>6. CASE Close
  <2>1. /\ op = "none" /\ Reported # "closed" /\ Reported' = "closed"
        /\ UNCHANGED <<op, answer>>
    BY <1>6 DEF Close, Reported, Status, InvCaller
  <2>2. Promised!Close
    BY <2>1 DEF Promised!Close
  <2>3. InvCaller'
    BY <1>6, <2>1 DEF Close, InvCaller
  <2> QED BY <2>2, <2>3 DEF Seen, Promised!Next
<1> QED
  BY <1>1, <1>3, <1>4, <1>5, <1>6

(* Each step is one of ReadSession's, or changes nothing the caller sees.   *)
LEMMA SeenStep == IInv /\ InvCaller /\ [Next]_vars => InvCaller' /\ Seen
<1> SUFFICES ASSUME IInv, InvCaller, [Next]_vars PROVE InvCaller' /\ Seen
  OBVIOUS
<1>1. ASSUME NEW o \in Operations, Invoke(o) PROVE InvCaller' /\ Seen
  <2>1. /\ op = "none" /\ pc = "idle" /\ pc' = "entry" /\ op' = o /\ before' = Status
        /\ UNCHANGED <<answer, flags, explicit, link>>
    BY <1>1 DEF Invoke, wireVars, InvCaller
  <2>2. Status' = Status /\ Reported = Status /\ Reported' = Status /\ Status # "closed"
    BY <2>1 DEF Status, IsClosed, Reported
  <2>3. Promised!Call(o)
    BY <2>1, <2>2 DEF Promised!Call
  <2>4. InvCaller'
    BY <1>1, <2>1, <2>2, Names, Points DEF InvCaller
  <2> QED BY <2>3, <2>4, Names DEF Seen, Promised!Next
<1>2. CASE UNCHANGED <<clientVars, link>>
  BY <1>2 DEF Seen, InvCaller, Reported, Status, IsClosed, clientVars, Promised!vars
<1>3. Serve \/ Interrupt \/ Stall \/ UNCHANGED vars => UNCHANGED <<clientVars, link>>
  BY DEF Serve, Interrupt, Stall, ServeBegin, ServeCheck, ServeStatement, ServeEnd, ServeRefusal,
         Refuse, Execute, vars, wireVars
<1>4. CASE Receive
  BY <1>4, ExplicitSeen, OwnSeen, DisturbedSeen DEF Receive
<1> QED
  BY <1>1, <1>2, <1>3, <1>4, StartSeen, DisturbedSeen DEF Next

(* Seen by its caller the session is a ReadSession that notices a lost      *)
(* connection, whose dropped futures spare it only outside a transaction,   *)
(* and whose cancellation never opens a new connection.                     *)
THEOREM Refinement == Spec => KeepsPromise
<1>1. Init => InvCaller /\ Promised!Init
  BY Points, Members DEF Init, InvCaller, Promised!Init, Reported, Status, IsClosed
<1> QED
  BY <1>1, Initially, Invariance, SeenStep, PTL DEF Spec, KeepsPromise, Promised!Spec, Seen
=============================================================================
