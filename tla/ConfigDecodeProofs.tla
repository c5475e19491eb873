------------------------- MODULE ConfigDecodeProofs -------------------------
(* Of the permits and the depth of the decoding stream, for tables of any   *)
(* length, batches of any size and workers that end in any order; of the    *)
(* reads on demand; of what the cache keeps against a resolution from       *)
(* nothing; of the two readers of the extensions; and of the verdict and    *)
(* the answer of a read in bulk, which the table decides.                   *)
EXTENDS MCConfigDecode, FiniteSums, SequenceTheorems

(* What the semaphore holds and what the running workers hold make up the   *)
(* budget; a worker of a read that has ended still holds its part.          *)
Held == {jobs[j] : j \in DOMAIN jobs}

InvJobs ==
  /\ jobs \in Seq(Held)
  /\ \A j \in DOMAIN jobs : "state" \in DOMAIN jobs[j]

InvPermits ==
  free \in Nat /\ free + Reserve * Cardinality(In("running")) = InFlightBytes

DepthKept == Cardinality(InFlight) <= Depth

IInv == InvJobs /\ InvPermits /\ DepthKept

-----------------------------------------------------------------------------
(* A job's permits are part of the budget.                                  *)
LEMMA ReserveFits == Reserve \in Nat \ {0} /\ Reserve <= InFlightBytes
<1>1. BatchBytes \in Nat \ {0} /\ InFlightBytes \in Nat \ {0}
  BY ConfigDecodeAssumption
<1>2. \E x \in {BatchBytes, InFlightBytes} : \A y \in {BatchBytes, InFlightBytes} : x =< y
  BY <1>1
<1>3. /\ Reserve \in {BatchBytes, InFlightBytes}
      /\ \A y \in {BatchBytes, InFlightBytes} : Reserve =< y
  BY <1>2 DEF Reserve, Min
<1> QED BY <1>1, <1>3

(* A function on the first numbers is a sequence.                           *)
LEMMA Numbered ==
  ASSUME NEW n \in Nat, NEW T, NEW f \in [1..n -> T]
  PROVE  f \in Seq(T)
OBVIOUS

(* The jobs are numbered, and there are finitely many of them.              *)
LEMMA JobsNumbered ==
  ASSUME InvJobs
  PROVE  /\ Len(jobs) \in Nat /\ DOMAIN jobs = 1..Len(jobs)
         /\ IsFiniteSet(DOMAIN jobs) /\ IsFiniteSet(InFlight)
         /\ \A s : IsFiniteSet(In(s))
<1>1. Len(jobs) \in Nat /\ DOMAIN jobs = 1..Len(jobs)
  BY LenProperties DEF InvJobs
<1>2. IsFiniteSet(DOMAIN jobs)
  BY <1>1, FS_Interval
<1> QED BY <1>1, <1>2, FS_Subset DEF InFlight, In

(* Jobs stay numbered while some of them change.                            *)
LEMMA JobsChanged ==
  ASSUME InvJobs, jobs' = [j \in DOMAIN jobs |-> jobs'[j]],
         \A j \in DOMAIN jobs : "state" \in DOMAIN jobs'[j]
  PROVE  InvJobs' /\ DOMAIN jobs' = DOMAIN jobs
<1>1. Len(jobs) \in Nat /\ DOMAIN jobs = 1..Len(jobs) /\ DOMAIN jobs' = DOMAIN jobs
  BY JobsNumbered
<1>2. \A j \in DOMAIN jobs : jobs'[j] \in Held'
  BY <1>1 DEF Held
<1>3. jobs' \in [1..Len(jobs) -> Held']
  BY <1>1, <1>2
<1>4. jobs' \in Seq(Held')
  BY <1>1, <1>3
<1> QED BY <1>1, <1>4 DEF InvJobs

(* A new job is the last one.                                               *)
LEMMA JobAppended ==
  ASSUME InvJobs, NEW job, "state" \in DOMAIN job, jobs' = Append(jobs, job)
  PROVE  /\ InvJobs'
         /\ DOMAIN jobs' = DOMAIN jobs \cup {Len(jobs) + 1} /\ Len(jobs) + 1 \notin DOMAIN jobs
         /\ jobs'[Len(jobs) + 1] = job
         /\ \A j \in DOMAIN jobs : jobs'[j] = jobs[j]
<1> DEFINE S == Held \cup {job}
<1>1. jobs \in Seq(S)
  <2>1. Held \subseteq S
    OBVIOUS
  <2> HIDE DEF S
  <2> QED BY <2>1, SeqMonotonic DEF InvJobs
<1>2. job \in S
  OBVIOUS
<1> HIDE DEF S
<1>3. Len(jobs) \in Nat /\ DOMAIN jobs = 1..Len(jobs)
  BY JobsNumbered
<1>4. /\ jobs' \in Seq(S) /\ Len(jobs') = Len(jobs) + 1
      /\ \A j \in 1..Len(jobs) : jobs'[j] = jobs[j]
      /\ jobs'[Len(jobs) + 1] = job
  BY <1>1, <1>2, AppendProperties
<1>5. /\ DOMAIN jobs' = 1..Len(jobs) + 1
      /\ jobs' \in [1..Len(jobs) + 1 -> S]
  BY <1>3, <1>4, LenProperties
<1>6. DOMAIN jobs' = DOMAIN jobs \cup {Len(jobs) + 1} /\ Len(jobs) + 1 \notin DOMAIN jobs
  BY <1>3, <1>5
<1>7. jobs' \in [1..Len(jobs) + 1 -> Held']
  BY <1>5 DEF Held
<1>8. jobs' \in Seq(Held')
  <2> DEFINE n == Len(jobs) + 1
  <2>1. n \in Nat /\ jobs' \in [1..n -> Held']
    BY <1>3, <1>7
  <2> DEFINE T == Held'
  <2>2. n \in Nat /\ jobs' \in [1..n -> T]
    BY <2>1
  <2> HIDE DEF n, T
  <2>3. jobs' \in Seq(T)
    BY <2>2, Numbered
  <2> QED BY <2>3 DEF T
<1>9. \A j \in DOMAIN jobs' : "state" \in DOMAIN jobs'[j]
  <2>1. \A j \in DOMAIN jobs : "state" \in DOMAIN jobs[j] /\ jobs'[j] = jobs[j]
    BY <1>3, <1>4 DEF InvJobs
  <2> QED BY <1>4, <1>6, <2>1
<1> QED BY <1>3, <1>4, <1>6, <1>8, <1>9 DEF InvJobs

-----------------------------------------------------------------------------
(* A batch becomes a job only while fewer than Depth are in flight, and     *)
(* takes no permits.                                                        *)
LEMMA AddStep ==
  ASSUME IInv, CanPoll, NEW batch, jobs' = Append(jobs, NewJob(batch)), free' = free
  PROVE  IInv'
<1> DEFINE job == NewJob(batch)
           new == Len(jobs) + 1
<1>1. "state" \in DOMAIN job /\ job.state \in {"waiting", "failed"}
  BY DEF NewJob
<1> HIDE DEF job
<1>2. /\ InvJobs' /\ DOMAIN jobs' = DOMAIN jobs \cup {new} /\ new \notin DOMAIN jobs
      /\ jobs'[new] = job /\ \A j \in DOMAIN jobs : jobs'[j] = jobs[j]
  BY <1>1, JobAppended DEF IInv, job
<1> HIDE DEF new
<1>3. In("running")' = In("running")
  BY <1>1, <1>2 DEF In
<1>4. InFlight' = InFlight \cup {new} /\ new \notin InFlight
  BY <1>1, <1>2 DEF InFlight
<1>5. IsFiniteSet(InFlight) /\ Cardinality(InFlight) \in Nat
  BY JobsNumbered, FS_CardinalityType DEF IInv
<1>6. Cardinality(InFlight') = Cardinality(InFlight) + 1
  BY <1>4, <1>5, FS_AddElement
<1>7. DepthKept'
  BY <1>5, <1>6, ConfigDecodeAssumption DEF CanPoll, DepthKept
<1>8. InvPermits'
  BY <1>3 DEF IInv, InvPermits
<1> QED BY <1>2, <1>7, <1>8 DEF IInv

(* The states of jobs change so that no more are in flight.                 *)
LEMMA ChangeKept ==
  ASSUME IInv, jobs' = [j \in DOMAIN jobs |-> jobs'[j]],
         \A j \in DOMAIN jobs : "state" \in DOMAIN jobs'[j],
         \A j \in DOMAIN jobs : jobs[j].state \in {"yielded", "gone"} =>
                                  jobs'[j].state \in {"yielded", "gone"}
  PROVE  InvJobs' /\ DepthKept' /\ DOMAIN jobs' = DOMAIN jobs
<1>1. InvJobs' /\ DOMAIN jobs' = DOMAIN jobs
  BY JobsChanged DEF IInv
<1>2. IsFiniteSet(InFlight) /\ Cardinality(InFlight) \in Nat
  BY JobsNumbered, FS_CardinalityType DEF IInv
<1>3. InFlight' \subseteq InFlight
  BY <1>1 DEF InFlight
<1>4. /\ IsFiniteSet(InFlight') /\ Cardinality(InFlight') <= Cardinality(InFlight)
      /\ Cardinality(InFlight') \in Nat
  BY <1>2, <1>3, FS_Subset, FS_CardinalityType
<1>5. DepthKept'
  BY <1>2, <1>4, ConfigDecodeAssumption DEF IInv, DepthKept
<1> QED BY <1>1, <1>5

(* A job takes its permits when it begins to run.                           *)
LEMMA AcquireStep == ASSUME IInv, NEW j \in DOMAIN jobs, Acquire(j) PROVE IInv'
<1>1. /\ jobs[j].state = "waiting" /\ free >= Reserve /\ free' = free - Reserve
      /\ jobs' = [jobs EXCEPT ![j].state = "running"]
  BY DEF Acquire, In
<1>2. /\ jobs' = [i \in DOMAIN jobs |-> jobs'[i]]
      /\ \A i \in DOMAIN jobs : "state" \in DOMAIN jobs'[i]
      /\ \A i \in DOMAIN jobs : jobs'[i].state = IF i = j THEN "running" ELSE jobs[i].state
  BY <1>1 DEF IInv, InvJobs
<1>3. InvJobs' /\ DepthKept' /\ DOMAIN jobs' = DOMAIN jobs
  BY <1>1, <1>2, ChangeKept
<1>4. In("running")' = In("running") \cup {j} /\ j \notin In("running")
  BY <1>1, <1>2, <1>3 DEF In
<1>5. IsFiniteSet(In("running")) /\ Cardinality(In("running")) \in Nat
  BY JobsNumbered, FS_CardinalityType DEF IInv
<1>6. Cardinality(In("running")') = Cardinality(In("running")) + 1
  BY <1>4, <1>5, FS_AddElement
<1>7. InvPermits'
  <2> DEFINE k == Cardinality(In("running"))
  <2>1. free + Reserve * k = InFlightBytes /\ free \in Nat
    BY DEF IInv, InvPermits
  <2>2. Reserve * (k + 1) = Reserve * k + Reserve /\ Reserve * k \in Int
    BY <1>5, ReserveFits
  <2>3. free' \in Nat /\ free' + Reserve * (k + 1) = InFlightBytes
    BY <1>1, <2>1, <2>2, ReserveFits
  <2> QED BY <1>6, <2>3 DEF InvPermits
<1> QED BY <1>3, <1>7 DEF IInv

(* A worker that ends gives back the permits of its batch, whoever waits.   *)
LEMMA WorkerStep ==
  ASSUME IInv, NEW j \in In("running"), NEW state \in {"done", "failed"}, WorkerEnds(j, state)
  PROVE  IInv'
<1> DEFINE s == IF outcome = "running" THEN state ELSE "gone"
<1>1. /\ j \in DOMAIN jobs /\ jobs[j].state = "running" /\ free' = free + Reserve
      /\ jobs' = [jobs EXCEPT ![j].state = s] /\ s \in {"done", "failed", "gone"}
  BY DEF WorkerEnds, GiveBack, In
<1> HIDE DEF s
<1>2. /\ jobs' = [i \in DOMAIN jobs |-> jobs'[i]]
      /\ \A i \in DOMAIN jobs : "state" \in DOMAIN jobs'[i]
      /\ \A i \in DOMAIN jobs : jobs'[i].state = IF i = j THEN s ELSE jobs[i].state
  BY <1>1 DEF IInv, InvJobs
<1>3. InvJobs' /\ DepthKept' /\ DOMAIN jobs' = DOMAIN jobs
  BY <1>1, <1>2, ChangeKept
<1>4. In("running")' = In("running") \ {j}
  BY <1>1, <1>2, <1>3 DEF In
<1>5. IsFiniteSet(In("running")) /\ Cardinality(In("running")) \in Nat
  BY JobsNumbered, FS_CardinalityType DEF IInv
<1>6. Cardinality(In("running")') = Cardinality(In("running")) - 1
  BY <1>4, <1>5, FS_RemoveElement
<1>7. InvPermits'
  <2> DEFINE k == Cardinality(In("running"))
  <2>1. free + Reserve * k = InFlightBytes /\ free \in Nat
    BY DEF IInv, InvPermits
  <2>2. Reserve * (k - 1) = Reserve * k - Reserve /\ Reserve * k \in Int
    BY <1>5, ReserveFits
  <2>3. free' \in Nat /\ free' + Reserve * (k - 1) = InFlightBytes
    BY <1>1, <2>1, <2>2, ReserveFits
  <2> QED BY <1>6, <2>3 DEF InvPermits
<1> QED BY <1>3, <1>7 DEF IInv

(* Nothing a running job does else moves a permit.                          *)
LEMMA SameRunning ==
  ASSUME IInv, free' = free, jobs' = [j \in DOMAIN jobs |-> jobs'[j]],
         \A j \in DOMAIN jobs : "state" \in DOMAIN jobs'[j],
         \A j \in DOMAIN jobs : /\ jobs'[j].state = "running" <=> jobs[j].state = "running"
                                /\ jobs[j].state \in {"yielded", "gone"} =>
                                     jobs'[j].state \in {"yielded", "gone"}
  PROVE  IInv'
<1>1. InvJobs' /\ DepthKept' /\ DOMAIN jobs' = DOMAIN jobs
  BY ChangeKept
<1>2. In("running")' = In("running")
  BY <1>1 DEF In
<1> QED BY <1>1, <1>2 DEF IInv, InvPermits

(* The end of a read removes the jobs that are not running.                 *)
LEMMA EndStep == ASSUME IInv, NEW how, End(how), free' = free PROVE IInv'
<1>1. jobs' = [j \in DOMAIN jobs |->
                 IF jobs[j].state = "running" THEN jobs[j]
                 ELSE [jobs[j] EXCEPT !.state = "gone"]]
  BY DEF End
<1>2. \A j \in DOMAIN jobs : "state" \in DOMAIN jobs[j]
  BY DEF IInv, InvJobs
<1>3. \A j \in DOMAIN jobs :
        /\ "state" \in DOMAIN jobs'[j]
        /\ jobs'[j].state = IF jobs[j].state = "running" THEN "running" ELSE "gone"
  BY <1>1, <1>2
<1>4. jobs' = [j \in DOMAIN jobs |-> jobs'[j]]
  BY <1>1
<1> QED BY <1>3, <1>4, SameRunning

(* A step that leaves jobs and permits alone.                               *)
LEMMA Untouched == ASSUME IInv, jobs' = jobs, free' = free PROVE IInv'
BY DEF IInv, InvJobs, InvPermits, DepthKept, In, InFlight, Held

(* Items that reach a batch make at most one job of it.                     *)
LEMMA FillStep ==
  ASSUME IInv, CanPoll, NEW items, NEW last, Fill(items, last), free' = free
  PROVE  IInv'
<1>1. jobs' = Append(jobs, NewJob(chunk \o items)) \/ jobs' = jobs
  BY DEF Fill
<1> QED BY <1>1, AddStep, Untouched

(* A resource that is delivered reaches a batch, or none.                   *)
LEMMA DeliverStep ==
  ASSUME IInv, Receiving, NEW resource, Deliver(resource), free' = free
  PROVE  IInv'
<1>1. CASE store.plan = "whole"
  BY <1>1, Untouched DEF Deliver, Collecting
<1>2. CASE store.plan # "whole"
  <2>1. CanPoll
    BY <1>2 DEF Receiving
  <2>2. \E items : Fill(items, FALSE)
    BY <1>2 DEF Deliver, Passing
  <2> QED BY <2>1, <2>2, FillStep
<1> QED BY <1>1, <1>2

-----------------------------------------------------------------------------
(* Before anything is read all permits are there.                           *)
LEMMA NothingHeld == ASSUME jobs = <<>>, free = InFlightBytes PROVE IInv
<1>1. InvJobs /\ In("running") = {} /\ InFlight = {}
  <2>1. <<>> \in Seq(Held) /\ DOMAIN <<>> = {}
    OBVIOUS
  <2> QED BY <2>1 DEF InvJobs, In, InFlight
<1>2. Cardinality({}) = 0
  BY FS_EmptySet
<1>3. InvPermits
  <2>1. Reserve * 0 = 0
    BY ReserveFits
  <2>2. Cardinality(In("running")) = 0
    BY <1>1, <1>2
  <2>3. free + Reserve * Cardinality(In("running")) = free + 0
    BY <2>1, <2>2
  <2>4. InFlightBytes \in Nat
    BY ConfigDecodeAssumption
  <2>5. free + Reserve * Cardinality(In("running")) = InFlightBytes /\ free \in Nat
    BY <2>3, <2>4
  <2> QED BY <2>5 DEF InvPermits
<1>4. DepthKept
  BY <1>1, <1>2, ConfigDecodeAssumption DEF DepthKept
<1> QED BY <1>1, <1>3, <1>4 DEF IInv

LEMMA Initially == ASSUME NEW sizes, NEW texts, InitWith(sizes, texts) PROVE IInv
BY NothingHeld DEF InitWith

(* Every step keeps the invariant.                                          *)
LEMMA Invariance == IInv /\ [Next]_vars => IInv'
<1> SUFFICES ASSUME IInv, [Next]_vars PROVE IInv'
  OBVIOUS
<1>1. CASE RowArrives
  <2>1. Receiving /\ free' = free
    BY <1>1 DEF RowArrives
  <2>2. CASE UNCHANGED <<retained, chunk, ended, jobs, outcome>>
    BY <2>1, <2>2, Untouched
  <2>3. CASE Deliver(Assembled)
    BY <2>1, <2>3, DeliverStep
  <2>4. CASE store.plan = "whole" /\ Collecting(Broken)
    BY <2>1, <2>4, Untouched DEF Collecting
  <2>5. CASE store.plan # "whole" /\ Fill(<<Broken>>, TRUE)
    BY <2>1, <2>5, FillStep DEF Receiving
  <2> QED BY <1>1, <2>2, <2>3, <2>4, <2>5 DEF RowArrives
<1>2. CASE RowsEnd
  BY <1>2, DeliverStep DEF RowsEnd
<1>3. CASE StreamEnds
  BY <1>3, FillStep DEF StreamEnds, Receiving
<1>4. CASE Collected
  BY <1>4, Untouched DEF Collected
<1>5. CASE Feed
  <2>1. CanPoll /\ free' = free /\ \E batch : jobs' = Append(jobs, NewJob(batch))
    BY <1>5 DEF Feed
  <2> QED BY <2>1, AddStep
<1>6. ASSUME NEW j \in DOMAIN jobs, Yield(j) PROVE IInv'
  <2>1. free' = free
    BY <1>6 DEF Yield
  <2>2. CASE j \in In("done") /\ jobs' = [jobs EXCEPT ![j].state = "yielded"]
    <3>1. /\ jobs' = [i \in DOMAIN jobs |-> jobs'[i]]
          /\ \A i \in DOMAIN jobs : "state" \in DOMAIN jobs'[i]
          /\ \A i \in DOMAIN jobs : jobs'[i].state = IF i = j THEN "yielded" ELSE jobs[i].state
      BY <2>2 DEF IInv, InvJobs
    <3>2. jobs[j].state = "done"
      BY <2>2 DEF In
    <3> QED BY <2>1, <3>1, <3>2, SameRunning
  <2>3. CASE End("error")
    BY <2>1, <2>3, EndStep
  <2> QED BY <1>6, <2>2, <2>3 DEF Yield
<1>7. CASE Complete
  BY <1>7, Untouched DEF Complete
<1>8. ASSUME NEW j \in DOMAIN jobs, Decode(j) PROVE IInv'
  <2>1. j \in In("running")
    BY <1>8 DEF Decode
  <2>2. CASE WorkerEnds(j, "failed")
    BY <2>1, <2>2, WorkerStep
  <2>3. CASE free' = free /\ \E d : jobs' = [jobs EXCEPT ![j].at = @ + 1, ![j].decoded = d]
    <3>1. PICK d : jobs' = [jobs EXCEPT ![j].at = @ + 1, ![j].decoded = d]
      BY <2>3
    <3>2. /\ jobs' = [i \in DOMAIN jobs |-> jobs'[i]]
          /\ \A i \in DOMAIN jobs : "state" \in DOMAIN jobs'[i] /\ jobs'[i].state = jobs[i].state
      BY <3>1 DEF IInv, InvJobs
    <3> QED BY <2>3, <3>2, SameRunning
  <2> QED BY <1>8, <2>2, <2>3 DEF Decode
<1>9. ASSUME NEW j \in DOMAIN jobs, DecodeEnds(j) PROVE IInv'
  BY <1>9, WorkerStep DEF DecodeEnds
<1>10. CASE TimeLimit
  BY <1>10, EndStep DEF TimeLimit
<1>11. CASE Drop
  BY <1>11, EndStep DEF Drop
<1>12. CASE UNCHANGED vars
  BY <1>12, Untouched DEF vars
<1> QED
  BY <1>1, <1>2, <1>3, <1>4, <1>5, <1>6, <1>7, <1>8, <1>9, <1>10, <1>11, <1>12, AcquireStep
     DEF Next, Receive, Client, Work

-----------------------------------------------------------------------------
(* Sizes.  A sequence of resources, each with a size.                       *)
IsSequence(s) == \E S : s \in Seq(S)
Sized(s) == \E S : s \in Seq(S) /\ \A r \in S : r.size \in Nat

LEMMA NothingSized == Sized(<<>>) /\ IsSequence(<<>>)
<1> DEFINE S == {}
<1>1. <<>> \in Seq(S)
  BY EmptySeq
<1>2. \A r \in S : r.size \in Nat
  OBVIOUS
<1> HIDE DEF S
<1> QED BY <1>1, <1>2 DEF Sized, IsSequence

LEMMA OneSized == ASSUME NEW r, r.size \in Nat PROVE Sized(<<r>>)
<1> DEFINE S == {r}
<1>1. <<r>> \in Seq(S)
  OBVIOUS
<1>2. \A x \in S : x.size \in Nat
  OBVIOUS
<1> HIDE DEF S
<1> QED BY <1>1, <1>2 DEF Sized

LEMMA JoinSized == ASSUME NEW s, NEW t, Sized(s), Sized(t) PROVE Sized(s \o t)
<1>1. PICK S : s \in Seq(S) /\ \A r \in S : r.size \in Nat
  BY DEF Sized
<1>2. PICK T : t \in Seq(T) /\ \A r \in T : r.size \in Nat
  BY DEF Sized
<1> DEFINE U == S \cup T
<1>3. S \subseteq U /\ T \subseteq U /\ \A r \in U : r.size \in Nat
  BY <1>1, <1>2
<1> HIDE DEF U
<1>4. s \in Seq(U) /\ t \in Seq(U)
  BY <1>1, <1>2, <1>3, SeqMonotonic
<1>5. s \o t \in Seq(U)
  BY <1>4, ConcatProperties
<1> QED BY <1>3, <1>5 DEF Sized

LEMMA MoreSized == ASSUME NEW s, NEW r, Sized(s), r.size \in Nat PROVE Sized(Append(s, r))
<1>1. PICK S : s \in Seq(S) /\ \A x \in S : x.size \in Nat
  BY DEF Sized
<1> DEFINE U == S \cup {r}
<1>2. S \subseteq U /\ r \in U /\ \A x \in U : x.size \in Nat
  BY <1>1
<1> HIDE DEF U
<1>3. s \in Seq(U)
  BY <1>1, <1>2, SeqMonotonic
<1>4. Append(s, r) \in Seq(U)
  BY <1>2, <1>3, AppendProperties
<1> QED BY <1>2, <1>4 DEF Sized

LEMMA MoreSequence == ASSUME NEW s, NEW r, IsSequence(s) PROVE IsSequence(Append(s, r))
<1>1. PICK S : s \in Seq(S)
  BY DEF IsSequence
<1> DEFINE U == S \cup {r}
<1>2. S \subseteq U /\ r \in U
  OBVIOUS
<1> HIDE DEF U
<1>3. s \in Seq(U)
  BY <1>1, <1>2, SeqMonotonic
<1>4. Append(s, r) \in Seq(U)
  BY <1>2, <1>3, AppendProperties
<1> QED BY <1>4 DEF IsSequence

LEMMA SizedElements ==
  ASSUME NEW s, Sized(s)
  PROVE  /\ Len(s) \in Nat /\ DOMAIN s = 1..Len(s)
         /\ \A i \in DOMAIN s : s[i].size \in Nat
<1>1. PICK S : s \in Seq(S) /\ \A x \in S : x.size \in Nat
  BY DEF Sized
<1>2. Len(s) \in Nat /\ DOMAIN s = 1..Len(s) /\ \A i \in 1..Len(s) : s[i] \in S
  BY <1>1, LenProperties, ElementOfSeq
<1> QED BY <1>1, <1>2

(* A part of it, from one place to another.                                 *)
LEMMA PartSized ==
  ASSUME NEW s, Sized(s), NEW m \in Int, NEW n \in Int, 1 <= m, n <= Len(s)
  PROVE  Sized(SubSeq(s, m, n))
<1>1. PICK S : s \in Seq(S) /\ \A x \in S : x.size \in Nat
  BY DEF Sized
<1>2. \A i \in m..n : s[i] \in S
  <2>1. Len(s) \in Nat
    BY <1>1, LenProperties
  <2> QED BY <1>1, <2>1, ElementOfSeq
<1>3. SubSeq(s, m, n) \in Seq(S)
  BY <1>2, SubSeqProperties
<1> QED BY <1>1, <1>3 DEF Sized

(* Its elements at some places, in order.                                   *)
LEMMA PickedSized ==
  ASSUME NEW s, Sized(s), NEW P, P \subseteq DOMAIN s
  PROVE  Sized(Picked(s, P))
<1>1. PICK S : s \in Seq(S) /\ \A x \in S : x.size \in Nat
  BY DEF Sized
<1>2. Len(s) \in Nat /\ DOMAIN s = 1..Len(s) /\ \A i \in 1..Len(s) : s[i] \in S
  BY <1>1, LenProperties, ElementOfSeq
<1>3. Cardinality(P) \in Nat
  <2>1. IsFiniteSet(1..Len(s))
    BY <1>2, FS_Interval
  <2>2. IsFiniteSet(P)
    BY <1>2, <2>1, FS_Subset
  <2> QED BY <2>2, FS_CardinalityType
<1> DEFINE n == Cardinality(P)
<1>4. ASSUME NEW k \in 1..n PROVE s[Nth(P, k)] \in S
  <2>1. P \in SUBSET (1..Len(s))
    BY <1>2
  <2>2. \E i \in P : Cardinality({j \in P : j <= i}) = k
    BY <1>2, <2>1, PlaceExists
  <2>3. Nth(P, k) \in P
    BY <2>2 DEF Nth
  <2> QED BY <1>2, <2>1, <2>3
<1>5. Picked(s, P) \in [1..n -> S]
  BY <1>4 DEF Picked
<1> HIDE DEF n
<1>6. Picked(s, P) \in Seq(S)
  BY <1>3, <1>5, Numbered DEF n
<1> QED BY <1>1, <1>6 DEF Sized

(* What a resource adds to the size of those kept before it.                *)
LEMMA SumOfNone == Sum(<<>>) = 0
<1>1. DOMAIN [i \in DOMAIN <<>> |-> <<>>[i].size] = {}
  OBVIOUS
<1> QED BY <1>1, SumEmpty DEF Sum, SumFunction

LEMMA SumOfMore ==
  ASSUME NEW s, NEW r, Sized(s), r.size \in Nat
  PROVE  Len(Append(s, r)) = Len(s) + 1 /\ Sum(Append(s, r)) = r.size + Sum(s)
<1>1. PICK S : s \in Seq(S) /\ \A x \in S : x.size \in Nat
  BY DEF Sized
<1> DEFINE t == Append(s, r)
           n == Len(s)
           f == [i \in DOMAIN s |-> s[i].size]
           g == [i \in DOMAIN t |-> t[i].size]
<1>2. n \in Nat /\ DOMAIN s = 1..n /\ \A i \in 1..n : s[i].size \in Nat
  BY SizedElements
<1>3. Len(t) = n + 1 /\ DOMAIN t = 1..n + 1 /\ t[n + 1] = r /\ \A i \in 1..n : t[i] = s[i]
  BY <1>1
<1>4. /\ DOMAIN f = 1..n /\ DOMAIN g = 1..n + 1 /\ g[n + 1] = r.size
      /\ \A i \in 1..n : f[i] \in Int /\ g[i] = f[i]
  BY <1>2, <1>3
<1>5. g[n + 1] \in Int
  BY <1>4
<1>6. Sum(t) = SumFunction(g) /\ Sum(s) = SumFunction(f)
  BY DEF Sum
<1> HIDE DEF t, n, f, g
<1>7. SumFunction(g) = g[n + 1] + SumFunction(f)
  BY <1>2, <1>4, <1>5, SumOneMore
<1> QED BY <1>3, <1>4, <1>6, <1>7 DEF t, n

LEMMA SumIsNat == ASSUME NEW s, Sized(s) PROVE Sum(s) \in Nat
<1> DEFINE f == [i \in DOMAIN s |-> s[i].size]
<1>1. IsFiniteSet(DOMAIN s) /\ \A i \in DOMAIN s : f[i] \in Nat
  BY SizedElements, FS_Interval
<1>2. DOMAIN f = DOMAIN s /\ Sum(s) = SumFunction(f)
  BY DEF Sum
<1> HIDE DEF f
<1> QED BY <1>1, <1>2, SumNat DEF SumFunction

-----------------------------------------------------------------------------
(* What is taken and kept.  A job knows its batch and how far it is; the    *)
(* batch being filled is not full, and no batch is begun while Depth of     *)
(* them are in flight.                                                      *)
JobOK(job) ==
  /\ job = [batch |-> job.batch, at |-> job.at, decoded |-> job.decoded, state |-> job.state]
  /\ Sized(job.batch) /\ job.at \in Nat /\ job.decoded \in Nat /\ job.decoded <= BatchBytes

InvSizes ==
  /\ IsSequence(current) /\ Sized(retained) /\ Sized(feed) /\ Sized(chunk)
  /\ \A j \in DOMAIN jobs : JobOK(jobs[j])

InvBatches ==
  /\ feed # <<>> => store.plan = "whole"
  /\ store.plan # "whole" =>
       /\ Len(chunk) < BatchSize
       /\ outcome = "running" /\ chunk # <<>> => Cardinality(InFlight) < Depth
       /\ \A j \in DOMAIN jobs : Len(jobs[j].batch) <= BatchSize

SInv == InvSizes /\ InvBatches /\ RetentionBounded

(* A batch just begun.                                                      *)
LEMMA NewJobOK == ASSUME NEW batch, Sized(batch)
  PROVE  JobOK(NewJob(batch)) /\ NewJob(batch).batch = batch
BY ConfigDecodeAssumption DEF JobOK, NewJob

(* Jobs go on while nothing is taken or kept.                               *)
LEMMA JobsMove ==
  ASSUME IInv, SInv, jobs' = [j \in DOMAIN jobs |-> jobs'[j]],
         \A j \in DOMAIN jobs : /\ JobOK(jobs'[j]) /\ jobs'[j].batch = jobs[j].batch
                                /\ jobs[j].state \in {"yielded", "gone"} =>
                                     jobs'[j].state \in {"yielded", "gone"},
         UNCHANGED <<store, current, retained, feed, chunk>>,
         outcome' = "running" => outcome = "running"
  PROVE  SInv'
<1>1. DOMAIN jobs' = DOMAIN jobs
  OBVIOUS
<1>2. InvSizes'
  BY <1>1 DEF SInv, InvSizes
<1>3. Cardinality(InFlight') <= Cardinality(InFlight) /\ Cardinality(InFlight') \in Nat
      /\ Cardinality(InFlight) \in Nat
  <2>1. IsFiniteSet(InFlight) /\ Cardinality(InFlight) \in Nat
    BY JobsNumbered, FS_CardinalityType DEF IInv
  <2>2. InFlight' \subseteq InFlight
    BY <1>1 DEF InFlight
  <2> QED BY <2>1, <2>2, FS_Subset, FS_CardinalityType
<1>4. InvBatches'
  BY <1>1, <1>3, ConfigDecodeAssumption DEF SInv, InvBatches
<1>5. RetentionBounded'
  BY DEF SInv, RetentionBounded, Sum
<1> QED BY <1>2, <1>4, <1>5 DEF SInv

(* A resource that is kept fits.                                            *)
LEMMA KeptFits ==
  ASSUME SInv, NEW resource, resource.size \in Nat, Retainable(resource),
         retained' = Append(retained, resource)
  PROVE  Sized(retained') /\ RetentionBounded'
<1>1. Sized(retained) /\ Sum(retained) \in Nat
  BY SumIsNat DEF SInv, InvSizes
<1>2. /\ Len(retained') = Len(retained) + 1
      /\ Sum(retained') = resource.size + Sum(retained)
  BY <1>1, SumOfMore
<1>3. Sum(retained)' = Sum(retained')
  BY DEF Sum
<1>4. Sized(retained')
  BY <1>1, MoreSized
<1>5. Sum(retained)' = Sum(retained) + resource.size
  BY <1>1, <1>2, <1>3
<1> QED BY <1>2, <1>4, <1>5 DEF Retainable, RetentionBounded

(* Items reach the batch being filled.                                      *)
LEMMA FilledKept ==
  ASSUME IInv, SInv, CanPoll, store.plan # "whole", NEW items, NEW last, Sized(items),
         Len(items) <= 1, Fill(items, last),
         UNCHANGED <<store, feed>>, IsSequence(current'), Sized(retained'), RetentionBounded'
  PROVE  SInv'
<1> DEFINE filled == chunk \o items
<1>1. Sized(chunk) /\ Len(chunk) < BatchSize /\ Len(chunk) \in Nat /\ Len(items) \in Nat
      /\ BatchSize \in Nat \ {0}
  BY SizedElements, ConfigDecodeAssumption DEF SInv, InvSizes, InvBatches
<1>2. Sized(filled) /\ Len(filled) = Len(chunk) + Len(items)
  <2>1. PICK S : chunk \in Seq(S)
    BY <1>1 DEF Sized
  <2>2. PICK T : items \in Seq(T)
    BY DEF Sized
  <2> DEFINE U == S \cup T
  <2>3. S \subseteq U /\ T \subseteq U
    OBVIOUS
  <2> HIDE DEF U
  <2>4. chunk \in Seq(U) /\ items \in Seq(U)
    BY <2>1, <2>2, <2>3, SeqMonotonic
  <2> QED BY <1>1, <2>4, JoinSized, ConcatProperties
<1>3. Len(filled) <= BatchSize
  BY <1>1, <1>2
<1>4. CASE jobs' = Append(jobs, NewJob(filled)) /\ chunk' = <<>>
  <2> DEFINE job == NewJob(filled)
             new == Len(jobs) + 1
  <2>1. JobOK(job) /\ job.batch = filled /\ "state" \in DOMAIN job
    BY <1>2, NewJobOK DEF NewJob
  <2> HIDE DEF job, filled
  <2>2. /\ DOMAIN jobs' = DOMAIN jobs \cup {new} /\ jobs'[new] = job
        /\ \A j \in DOMAIN jobs : jobs'[j] = jobs[j]
    BY <1>4, <2>1, JobAppended DEF IInv, job, filled
  <2>3. InvSizes'
    BY <1>4, <2>1, <2>2, NothingSized DEF SInv, InvSizes
  <2>4. InvBatches'
    <3>1. Len(<<>>) = 0
      OBVIOUS
    <3> QED BY <1>1, <1>3, <1>4, <2>1, <2>2, <3>1 DEF SInv, InvBatches
  <2> QED BY <2>3, <2>4 DEF SInv
<1>5. CASE chunk' = filled /\ UNCHANGED jobs /\ Len(filled) # BatchSize
  <2>1. InvSizes'
    BY <1>2, <1>5 DEF SInv, InvSizes
  <2>2. Cardinality(InFlight') < Depth
    BY <1>5 DEF CanPoll, InFlight
  <2>3. Len(chunk') < BatchSize
    BY <1>1, <1>2, <1>3, <1>5
  <2>4. InvBatches'
    BY <1>5, <2>2, <2>3 DEF SInv, InvBatches
  <2> QED BY <2>1, <2>4 DEF SInv
<1>6. CASE filled = <<>> /\ chunk' = filled /\ UNCHANGED jobs
  <2>1. Len(filled) # BatchSize
    <3>1. Len(<<>>) = 0
      OBVIOUS
    <3> QED BY <1>1, <1>6, <3>1
  <2> QED BY <1>5, <1>6, <2>1
<1> QED BY <1>4, <1>5, <1>6 DEF Fill

(* A resource is delivered.                                                 *)
LEMMA CollectingKept ==
  ASSUME IInv, SInv, NEW resource, resource.size \in Nat, Collecting(resource), outcome = "running",
         UNCHANGED <<store, feed>>, IsSequence(current')
  PROVE  SInv'
<1>1. Sized(retained') /\ RetentionBounded'
  <2>1. CASE Retainable(resource) /\ retained' = Append(retained, resource)
    BY <2>1, KeptFits
  <2>2. CASE UNCHANGED retained
    BY <2>2 DEF SInv, InvSizes, RetentionBounded, Sum
  <2> QED BY <2>1, <2>2 DEF Collecting
<1>2. InvSizes'
  BY <1>1 DEF Collecting, SInv, InvSizes
<1>3. InvBatches'
  BY DEF Collecting, SInv, InvBatches, InFlight
<1> QED BY <1>1, <1>2, <1>3 DEF SInv

LEMMA PassingKept ==
  ASSUME IInv, SInv, CanPoll, store.plan # "whole", NEW resource, resource.size \in Nat,
         Passing(resource), UNCHANGED <<store, feed>>, IsSequence(current')
  PROVE  SInv'
<1>1. Broken.size \in Nat
  BY DEF Broken
<1>2. Sized(<<Broken>>) /\ Sized(<<resource>>) /\ Sized(<<>>)
      /\ Len(<<Broken>>) <= 1 /\ Len(<<resource>>) <= 1 /\ Len(<<>>) <= 1
  BY <1>1, OneSized, NothingSized
<1>3. Sized(retained) /\ RetentionBounded
  BY DEF SInv, InvSizes
<1>4. CASE Fill(<<Broken>>, FALSE) /\ UNCHANGED retained
  <2>1. RetentionBounded' /\ Sized(retained')
    BY <1>3, <1>4 DEF RetentionBounded, Sum
  <2> QED BY <1>2, <1>4, <2>1, FilledKept
<1>5. CASE /\ Fill(IF Decodable(resource) THEN <<resource>> ELSE <<>>, FALSE)
           /\ \/ UNCHANGED retained
              \/ Retainable(resource) /\ retained' = Append(retained, resource)
  <2> DEFINE items == IF Decodable(resource) THEN <<resource>> ELSE <<>>
  <2>1. RetentionBounded' /\ Sized(retained')
    BY <1>3, <1>5, KeptFits DEF RetentionBounded, Sum
  <2>2. Sized(items) /\ Len(items) <= 1
    BY <1>2
  <2>3. Fill(items, FALSE)
    BY <1>5
  <2> HIDE DEF items
  <2> QED BY <2>1, <2>2, <2>3, FilledKept
<1> QED BY <1>4, <1>5 DEF Passing

LEMMA DeliverKept ==
  ASSUME IInv, SInv, Receiving, NEW resource, resource.size \in Nat, Deliver(resource),
         UNCHANGED <<store, feed>>, IsSequence(current')
  PROVE  SInv'
<1>1. CASE store.plan = "whole"
  BY <1>1, CollectingKept DEF Deliver, Receiving
<1>2. CASE store.plan # "whole"
  BY <1>2, PassingKept DEF Deliver, Receiving
<1> QED BY <1>1, <1>2

(* A row arrives.                                                           *)
LEMMA RowKept == ASSUME IInv, SInv, RowArrives PROVE SInv'
<1> DEFINE row == Head(rows)
<1>1. Receiving /\ UNCHANGED <<store, feed>>
  BY DEF RowArrives
<1>2. IsSequence(current) /\ IsSequence(<<>>) /\ Sized(<<Broken>>) /\ Len(<<Broken>>) <= 1
      /\ Broken.size \in Nat
  <2>1. Broken.size \in Nat
    BY DEF Broken
  <2> QED BY <2>1, OneSized, NothingSized DEF SInv, InvSizes
<1>3. Assembled.size \in Nat
  BY <1>2, LenProperties DEF Assembled, IsSequence
<1>4. CASE current' = Append(current, row) /\ UNCHANGED <<retained, chunk, ended, jobs, outcome>>
  <2>1. IsSequence(current')
    BY <1>2, <1>4, MoreSequence
  <2> QED BY <1>1, <1>4, <2>1 DEF SInv, InvSizes, InvBatches, RetentionBounded, Sum, InFlight
<1>5. CASE /\ current' = <<row>>
           /\ UNCHANGED <<retained, chunk, ended, jobs, outcome>> \/ Deliver(Assembled)
  <2>1. IsSequence(current')
    <3>1. <<row>> \in Seq({row})
      OBVIOUS
    <3> QED BY <1>5, <3>1 DEF IsSequence
  <2>2. CASE UNCHANGED <<retained, chunk, ended, jobs, outcome>>
    BY <1>1, <2>1, <2>2 DEF SInv, InvSizes, InvBatches, RetentionBounded, Sum, InFlight
  <2>3. CASE Deliver(Assembled)
    BY <1>1, <1>3, <2>1, <2>3, DeliverKept
  <2> QED BY <1>5, <2>2, <2>3
<1>6. CASE /\ current' = <<>>
           /\ IF store.plan = "whole" THEN Collecting(Broken)
              ELSE Fill(<<Broken>>, TRUE) /\ UNCHANGED <<retained, outcome>>
  <2>1. CASE store.plan = "whole"
    BY <1>1, <1>2, <1>6, <2>1, CollectingKept DEF Receiving
  <2>2. CASE store.plan # "whole"
    <3>1. Sized(retained') /\ RetentionBounded'
      BY <1>6, <2>2 DEF SInv, InvSizes, RetentionBounded, Sum
    <3> QED BY <1>1, <1>2, <1>6, <2>2, <3>1, FilledKept DEF Receiving
  <2> QED BY <2>1, <2>2
<1> QED BY <1>4, <1>5, <1>6 DEF RowArrives

(* The workers and the loop move the jobs.                                  *)
LEMMA WorkKept == ASSUME IInv, SInv, Work PROVE SInv'
<1>1. UNCHANGED <<store, current, retained, feed, chunk, outcome>>
  BY DEF Work, Acquire, Decode, DecodeEnds, sourceVars
<1>2. PICK j \in DOMAIN jobs : Acquire(j) \/ Decode(j) \/ DecodeEnds(j)
  BY DEF Work
<1>3. \A i \in DOMAIN jobs : JobOK(jobs[i])
  BY DEF SInv, InvSizes
<1>4. CASE \E s : jobs' = [jobs EXCEPT ![j].state = s] /\ jobs[j].state \in {"waiting", "running"}
  <2>1. PICK s : jobs' = [jobs EXCEPT ![j].state = s]
    BY <1>4
  <2>2. jobs' = [i \in DOMAIN jobs |-> IF i = j THEN [jobs[j] EXCEPT !.state = s] ELSE jobs[i]]
    BY <2>1
  <2>3. JobOK([jobs[j] EXCEPT !.state = s]) /\ [jobs[j] EXCEPT !.state = s].batch = jobs[j].batch
    BY <1>3 DEF JobOK
  <2>4. \A i \in DOMAIN jobs : /\ JobOK(jobs'[i]) /\ jobs'[i].batch = jobs[i].batch
                               /\ jobs[i].state \in {"yielded", "gone"} =>
                                    jobs'[i].state \in {"yielded", "gone"}
    BY <1>3, <1>4, <2>2, <2>3
  <2>5. jobs' = [i \in DOMAIN jobs |-> jobs'[i]]
    BY <2>2
  <2> QED BY <1>1, <2>4, <2>5, JobsMove
<1>5. CASE /\ Fits(jobs[j], jobs[j].batch[jobs[j].at + 1])
           /\ jobs' = [jobs EXCEPT ![j].at = @ + 1, ![j].decoded =
                @ + IF store.text[jobs[j].batch[jobs[j].at + 1].name] = "good"
                    THEN jobs[j].batch[jobs[j].at + 1].size ELSE 0]
           /\ j \in In("running") /\ jobs[j].at < Len(jobs[j].batch)
  <2> DEFINE resource == jobs[j].batch[jobs[j].at + 1]
             add == IF store.text[resource.name] = "good" THEN resource.size ELSE 0
             job == [batch |-> jobs[j].batch, at |-> jobs[j].at + 1,
                     decoded |-> jobs[j].decoded + add, state |-> jobs[j].state]
  <2>1. jobs[j].at \in Nat /\ jobs[j].decoded \in Nat /\ jobs[j].decoded <= BatchBytes
        /\ Sized(jobs[j].batch) /\ BatchBytes \in Nat /\ ResourceBytes \in Nat
    BY <1>3, ConfigDecodeAssumption DEF JobOK
  <2>2. resource.size \in Nat
    <3>1. jobs[j].at < Len(jobs[j].batch)
      BY <1>5
    <3>2. /\ Len(jobs[j].batch) \in Nat /\ DOMAIN jobs[j].batch = 1..Len(jobs[j].batch)
          /\ \A i \in DOMAIN jobs[j].batch : jobs[j].batch[i].size \in Nat
      BY <2>1, SizedElements
    <3> QED BY <2>1, <3>1, <3>2
  <2>3. resource.size <= BatchBytes - jobs[j].decoded
    <3> DEFINE rest == BatchBytes - jobs[j].decoded
    <3>1. rest \in Int
      BY <2>1
    <3> HIDE DEF rest
    <3>2. \E x \in {ResourceBytes, rest} : \A y \in {ResourceBytes, rest} : x <= y
      BY <2>1, <3>1
    <3>3. Min({ResourceBytes, rest}) <= rest /\ Min({ResourceBytes, rest}) \in Int
      BY <2>1, <3>1, <3>2 DEF Min
    <3>4. resource.size <= Min({ResourceBytes, rest})
      BY <1>5 DEF Fits, Remaining, rest
    <3> HIDE DEF resource
    <3>5. resource.size <= rest
      BY <2>2, <3>1, <3>3, <3>4
    <3> QED BY <3>5 DEF rest
  <2>4. add \in Nat /\ jobs[j].decoded + add <= BatchBytes
    <3> HIDE DEF resource
    <3> QED BY <2>1, <2>2, <2>3
  <2>5. jobs' = [i \in DOMAIN jobs |-> IF i = j THEN job ELSE jobs[i]]
    <3>1. jobs[j] = [batch |-> jobs[j].batch, at |-> jobs[j].at, decoded |-> jobs[j].decoded,
                     state |-> jobs[j].state]
      BY <1>3 DEF JobOK
    <3>2. jobs' = [jobs EXCEPT ![j] = [jobs[j] EXCEPT !.at = @ + 1, !.decoded = @ + add]]
      <4>1. jobs' = [jobs EXCEPT ![j].at = @ + 1, ![j].decoded = @ + add]
        BY <1>5
      <4> HIDE DEF add
      <4> QED BY <4>1
    <3>3. [jobs[j] EXCEPT !.at = @ + 1, !.decoded = @ + add] = job
      <4>1. PICK b, a, c, t : jobs[j] = [batch |-> b, at |-> a, decoded |-> c, state |-> t]
        BY <3>1
      <4>2. jobs[j].batch = b /\ jobs[j].at = a /\ jobs[j].decoded = c /\ jobs[j].state = t
        BY <4>1
      <4> HIDE DEF add
      <4> DEFINE one == [batch |-> b, at |-> a + 1, decoded |-> c, state |-> t]
      <4>3. [jobs[j] EXCEPT !.at = @ + 1] = one
        <5>1. [jobs[j] EXCEPT !.at = @ + 1] = [jobs[j] EXCEPT !.at = a + 1]
          BY <4>2
        <5>2. [[batch |-> b, at |-> a, decoded |-> c, state |-> t] EXCEPT !.at = a + 1] = one
          OBVIOUS
        <5> HIDE DEF one
        <5> QED BY <4>1, <5>1, <5>2
      <4>4. [one EXCEPT !.decoded = @ + add]
              = [batch |-> b, at |-> a + 1, decoded |-> c + add, state |-> t]
        OBVIOUS
      <4>5. [jobs[j] EXCEPT !.at = @ + 1, !.decoded = @ + add]
              = [[jobs[j] EXCEPT !.at = @ + 1] EXCEPT !.decoded = @ + add]
        OBVIOUS
      <4> HIDE DEF one
      <4> QED BY <4>2, <4>3, <4>4, <4>5
    <3> HIDE DEF job, add
    <3> QED BY <3>2, <3>3
  <2>6. JobOK(job) /\ job.batch = jobs[j].batch /\ job.state = jobs[j].state
    <3> HIDE DEF add
    <3> QED BY <2>1, <2>4 DEF JobOK
  <2> HIDE DEF job
  <2>7. \A i \in DOMAIN jobs : /\ JobOK(jobs'[i]) /\ jobs'[i].batch = jobs[i].batch
                               /\ jobs'[i].state = jobs[i].state
    BY <1>3, <2>5, <2>6
  <2>8. jobs' = [i \in DOMAIN jobs |-> jobs'[i]]
    BY <2>5
  <2> QED BY <1>1, <2>7, <2>8, JobsMove
<1> QED BY <1>2, <1>4, <1>5 DEF Acquire, Decode, DecodeEnds, WorkerEnds, In

(* The read ends.                                                           *)
LEMMA EndKept ==
  ASSUME IInv, SInv, NEW how, End(how), how # "running",
         UNCHANGED <<store, current, retained, feed, chunk>>
  PROVE  SInv'
<1>1. jobs' = [j \in DOMAIN jobs |->
                 IF jobs[j].state = "running" THEN jobs[j] ELSE [jobs[j] EXCEPT !.state = "gone"]]
  BY DEF End
<1>2. \A j \in DOMAIN jobs : JobOK(jobs[j])
  BY DEF SInv, InvSizes
<1>3. \A j \in DOMAIN jobs : /\ JobOK([jobs[j] EXCEPT !.state = "gone"])
                             /\ [jobs[j] EXCEPT !.state = "gone"].batch = jobs[j].batch
                             /\ [jobs[j] EXCEPT !.state = "gone"].state = "gone"
  BY <1>2 DEF JobOK
<1>4. \A j \in DOMAIN jobs : /\ JobOK(jobs'[j]) /\ jobs'[j].batch = jobs[j].batch
                             /\ jobs[j].state \in {"yielded", "gone"} =>
                                  jobs'[j].state \in {"yielded", "gone"}
  BY <1>1, <1>2, <1>3
<1>5. jobs' = [j \in DOMAIN jobs |-> jobs'[j]]
  BY <1>1
<1>6. outcome' # "running"
  BY DEF End
<1> QED BY <1>4, <1>5, <1>6, JobsMove

(* Nothing is read, and nothing is kept.                                    *)
LEMMA EmptyStart ==
  ASSUME jobs = <<>>, free = InFlightBytes, current = <<>>, retained = <<>>, feed = <<>>,
         chunk = <<>>
  PROVE  SInv
<1>1. InvSizes
  BY NothingSized DEF InvSizes
<1>2. InvBatches
  <2>1. Len(<<>>) = 0 /\ DOMAIN <<>> = {}
    OBVIOUS
  <2> QED BY <2>1, ConfigDecodeAssumption DEF InvBatches
<1>3. RetentionBounded
  <2>1. Len(<<>>) = 0
    OBVIOUS
  <2> QED BY <2>1, SumOfNone, ConfigDecodeAssumption DEF RetentionBounded
<1> QED BY <1>1, <1>2, <1>3 DEF SInv

LEMMA SizesInvariance == IInv /\ SInv /\ [Next]_vars => SInv'
<1> SUFFICES ASSUME IInv, SInv, [Next]_vars PROVE SInv'
  OBVIOUS
<1> USE DEF sourceVars
<1>1. CASE RowArrives
  BY <1>1, RowKept
<1>2. CASE RowsEnd
  <2>1. IsSequence(current) /\ IsSequence(<<>>)
    BY NothingSized DEF SInv, InvSizes
  <2>2. Assembled.size \in Nat
    BY <2>1, LenProperties DEF Assembled, IsSequence
  <2> QED BY <1>2, <2>1, <2>2, DeliverKept DEF RowsEnd
<1>3. CASE StreamEnds
  <2>1. Sized(<<>>) /\ Len(<<>>) <= 1
    BY NothingSized
  <2>2. Sized(retained') /\ RetentionBounded' /\ IsSequence(current')
    BY <1>3 DEF StreamEnds, SInv, InvSizes, RetentionBounded, Sum
  <2> QED BY <1>3, <2>1, <2>2, FilledKept DEF StreamEnds, Receiving
<1>4. CASE Collected
  <2>1. Sized(feed')
    BY <1>4, PickedSized DEF Collected, SInv, InvSizes
  <2> QED BY <1>4, <2>1 DEF Collected, SInv, InvSizes, InvBatches, RetentionBounded, Sum
<1>5. CASE Feed
  <2>1. PICK taken : taken = Min({BatchSize, Len(feed)})
    OBVIOUS
  <2>2. Sized(feed) /\ Len(feed) \in Nat /\ BatchSize \in Nat \ {0} /\ feed # <<>>
    BY <1>5, SizedElements, ConfigDecodeAssumption DEF Feed, SInv, InvSizes
  <2>3. taken \in Nat /\ taken <= Len(feed)
    <3>1. \E x \in {BatchSize, Len(feed)} : \A y \in {BatchSize, Len(feed)} : x <= y
      BY <2>2
    <3> QED BY <2>1, <2>2, <3>1 DEF Min
  <2> DEFINE batch == SubSeq(feed, 1, taken)
             new == Len(jobs) + 1
  <2>4. Sized(batch) /\ Sized(SubSeq(feed, taken + 1, Len(feed)))
    BY <2>2, <2>3, PartSized
  <2>5. JobOK(NewJob(batch)) /\ "state" \in DOMAIN NewJob(batch)
    BY <2>4, NewJobOK DEF NewJob
  <2>6. /\ jobs' = Append(jobs, NewJob(batch)) /\ feed' = SubSeq(feed, taken + 1, Len(feed))
        /\ UNCHANGED <<store, current, retained, chunk, outcome>>
    BY <1>5, <2>1 DEF Feed
  <2> HIDE DEF batch
  <2>7. /\ DOMAIN jobs' = DOMAIN jobs \cup {new} /\ jobs'[new] = NewJob(batch)
        /\ \A j \in DOMAIN jobs : jobs'[j] = jobs[j]
    BY <2>5, <2>6, JobAppended DEF IInv
  <2>8. InvSizes'
    BY <2>4, <2>5, <2>6, <2>7 DEF SInv, InvSizes
  <2>9. store.plan = "whole"
    BY <2>2 DEF SInv, InvBatches
  <2>10. InvBatches'
    BY <2>6, <2>9 DEF InvBatches
  <2> QED BY <2>6, <2>8, <2>10 DEF SInv, RetentionBounded, Sum
<1>6. ASSUME NEW j \in DOMAIN jobs, Yield(j) PROVE SInv'
  <2>1. UNCHANGED <<store, current, retained, feed, chunk>>
    BY <1>6 DEF Yield
  <2>2. CASE j \in In("done") /\ jobs' = [jobs EXCEPT ![j].state = "yielded"] /\ outcome' = outcome
    <3>1. \A i \in DOMAIN jobs : JobOK(jobs[i])
      BY DEF SInv, InvSizes
    <3>2. JobOK([jobs[j] EXCEPT !.state = "yielded"])
          /\ [jobs[j] EXCEPT !.state = "yielded"].batch = jobs[j].batch
      BY <3>1 DEF JobOK
    <3>3. jobs' = [i \in DOMAIN jobs |-> IF i = j THEN [jobs[j] EXCEPT !.state = "yielded"]
                                        ELSE jobs[i]]
      BY <2>2
    <3>4. \A i \in DOMAIN jobs : /\ JobOK(jobs'[i]) /\ jobs'[i].batch = jobs[i].batch
                                 /\ jobs[i].state \in {"yielded", "gone"} =>
                                      jobs'[i].state \in {"yielded", "gone"}
      BY <2>2, <3>1, <3>2, <3>3 DEF In
    <3>5. jobs' = [i \in DOMAIN jobs |-> jobs'[i]]
      BY <3>3
    <3> QED BY <2>1, <2>2, <3>4, <3>5, JobsMove
  <2>3. CASE End("error")
    BY <2>1, <2>3, EndKept
  <2> QED BY <1>6, <2>2, <2>3 DEF Yield
<1>7. CASE Complete
  BY <1>7 DEF Complete, SInv, InvSizes, InvBatches, RetentionBounded, Sum
<1>8. CASE TimeLimit
  BY <1>8, EndKept DEF TimeLimit
<1>9. CASE Drop
  BY <1>9, EndKept DEF Drop
<1>10. CASE UNCHANGED vars
  BY <1>10 DEF vars, SInv, InvSizes, InvBatches, RetentionBounded, Sum, InFlight
<1> QED
  BY <1>1, <1>2, <1>3, <1>4, <1>5, <1>6, <1>7, <1>8, <1>9, <1>10, WorkKept
     DEF Next, Receive, Client

-----------------------------------------------------------------------------
(* The limits follow.                                                       *)
LEMMA InvariantKeepsLimits == ASSUME IInv, SInv PROVE LimitsHold
<1>1. PermitsComeBack
  <2>1. ASSUME In("running") = {} PROVE free >= Reserve
    <3>1. Cardinality(In("running")) = 0
      BY <2>1, FS_EmptySet
    <3>2. free = InFlightBytes
      BY <3>1, ReserveFits, ConfigDecodeAssumption DEF IInv, InvPermits
    <3> QED BY <3>2, ReserveFits, ConfigDecodeAssumption
  <2> QED BY <2>1 DEF PermitsComeBack
<1>2. InFlightBounded
  <2> DEFINE S == In("running")
             f == [j \in S |-> jobs[j].decoded]
  <2>1. BatchBytes \in Nat /\ InFlightBytes \in Nat
    BY ConfigDecodeAssumption
  <2>2. IsFiniteSet(S) /\ Cardinality(S) \in Nat
    BY JobsNumbered, FS_CardinalityType DEF IInv
  <2>3. DOMAIN f = S /\ \A j \in S : f[j] \in Nat /\ f[j] <= BatchBytes
    BY DEF In, SInv, InvSizes, JobOK
  <2>4. Decoded(S) = SumFunction(f)
    BY DEF Decoded
  <2> SUFFICES ASSUME BatchBytes <= InFlightBytes PROVE Decoded(S) <= InFlightBytes
    BY DEF InFlightBounded
  <2>5. Reserve = BatchBytes
    <3>1. \E x \in {BatchBytes, InFlightBytes} : \A y \in {BatchBytes, InFlightBytes} : x <= y
      BY <2>1
    <3>2. /\ Reserve \in {BatchBytes, InFlightBytes}
          /\ \A y \in {BatchBytes, InFlightBytes} : Reserve <= y
      BY <3>1 DEF Reserve, Min
    <3> QED BY <2>1, <3>2
  <2>6. BatchBytes * Cardinality(S) <= InFlightBytes
    <3>1. free + BatchBytes * Cardinality(S) = InFlightBytes /\ free \in Nat
      BY <2>5 DEF IInv, InvPermits
    <3> DEFINE held_ == BatchBytes * Cardinality(S)
    <3>2. held_ \in Int
      BY <2>1, <2>2
    <3>3. free + held_ = InFlightBytes
      BY <3>1
    <3> HIDE DEF held_
    <3>4. held_ <= InFlightBytes
      BY <3>1, <3>2, <3>3, <2>1
    <3> QED BY <3>4 DEF held_
  <2> HIDE DEF S, f
  <2>7. SumFunctionOnSet(f, S) <= BatchBytes * Cardinality(S)
    BY <2>1, <2>2, <2>3, SumBounded
  <2>8. SumFunctionOnSet(f, S) \in Nat
    BY <2>2, <2>3, SumNat
  <2>9. Decoded(S) <= BatchBytes * Cardinality(S) /\ Decoded(S) \in Nat
    BY <2>3, <2>4, <2>7, <2>8 DEF SumFunction
  <2> DEFINE most == BatchBytes * Cardinality(S)
  <2>10. most \in Nat /\ most <= InFlightBytes /\ Decoded(S) <= most
    BY <2>1, <2>2, <2>6, <2>9
  <2> HIDE DEF most
  <2> QED BY <2>1, <2>9, <2>10
<1>3. Backpressure
  <2> SUFFICES ASSUME store.plan # "whole", outcome = "running"
               PROVE Len(chunk) + SumFunction([j \in InFlight |-> Len(jobs[j].batch)])
                       <= Depth * BatchSize
    BY DEF Backpressure
  <2> DEFINE f == [j \in InFlight |-> Len(jobs[j].batch)]
             c == Cardinality(InFlight)
  <2>1. BatchSize \in Nat \ {0} /\ Depth \in Nat \ {0}
    BY ConfigDecodeAssumption
  <2>2. IsFiniteSet(InFlight) /\ c \in Nat /\ c <= Depth
    BY JobsNumbered, FS_CardinalityType DEF IInv, DepthKept
  <2>3. DOMAIN f = InFlight /\ \A j \in InFlight : f[j] \in Nat /\ f[j] <= BatchSize
    <3>1. \A j \in InFlight : j \in DOMAIN jobs /\ Sized(jobs[j].batch)
      BY DEF InFlight, SInv, InvSizes, JobOK
    <3>2. \A j \in InFlight : Len(jobs[j].batch) \in Nat
      BY <3>1, SizedElements
    <3> QED BY <3>1, <3>2 DEF SInv, InvBatches
  <2>4. Len(chunk) \in Nat /\ Len(chunk) < BatchSize /\ (chunk # <<>> => c < Depth)
    BY SizedElements DEF SInv, InvSizes, InvBatches
  <2>5. chunk = <<>> => Len(chunk) = 0
    OBVIOUS
  <2> HIDE DEF f, c
  <2>6. SumFunctionOnSet(f, InFlight) <= BatchSize * c /\ SumFunctionOnSet(f, InFlight) \in Nat
    BY <2>1, <2>2, <2>3, SumBounded, SumNat DEF c
  <2>7. SumFunction(f) <= BatchSize * c /\ SumFunction(f) \in Nat
    BY <2>3, <2>6 DEF SumFunction
  <2>8. Len(chunk) + BatchSize * c <= Depth * BatchSize
    <3>1. CASE c < Depth
      <4>1. BatchSize * (c + 1) <= BatchSize * Depth
        BY <2>1, <2>2, <3>1
      <4>2. BatchSize * (c + 1) = BatchSize * c + BatchSize /\ BatchSize * Depth = Depth * BatchSize
            /\ BatchSize * c \in Int
        BY <2>1, <2>2
      <4> DEFINE x == BatchSize * c
                 y == Depth * BatchSize
      <4>3. x + BatchSize <= y /\ x \in Int /\ y \in Int
        BY <2>1, <2>2, <4>1, <4>2
      <4> HIDE DEF x, y
      <4>4. Len(chunk) + x <= y
        BY <2>1, <2>4, <4>3
      <4> QED BY <4>4 DEF x, y
    <3>2. CASE c = Depth
      <4>1. Len(chunk) = 0
        BY <2>1, <2>4, <2>5, <3>2
      <4>2. BatchSize * c = Depth * BatchSize /\ BatchSize * c \in Int
        BY <2>1, <3>2
      <4> QED BY <4>1, <4>2
    <3> QED BY <2>1, <2>2, <3>1, <3>2
  <2> DEFINE x == BatchSize * c
             y == Depth * BatchSize
             z == SumFunction(f)
  <2>9. x \in Int /\ y \in Int /\ z \in Int /\ z <= x /\ Len(chunk) + x <= y
    BY <2>1, <2>2, <2>7, <2>8
  <2> HIDE DEF x, y, z
  <2>10. Len(chunk) + z <= y
    BY <2>4, <2>9
  <2> QED BY <2>10 DEF y, z, f
<1> QED BY <1>1, <1>2, <1>3 DEF LimitsHold, SInv

-----------------------------------------------------------------------------
(* The names a read asks for are each asked for once.                       *)
OnceEach(s) == IsSequence(s) /\ \A i, k \in DOMAIN s : s[i] = s[k] => i = k

LEMMA SequenceFacts ==
  ASSUME NEW s, IsSequence(s)
  PROVE  /\ Len(s) \in Nat /\ DOMAIN s = 1..Len(s) /\ IsFiniteSet(DOMAIN s)
         /\ Cardinality(DOMAIN s) = Len(s) /\ s = [i \in DOMAIN s |-> s[i]]
<1>1. PICK S : s \in Seq(S)
  BY DEF IsSequence
<1>2. Len(s) \in Nat /\ DOMAIN s = 1..Len(s) /\ s = [i \in DOMAIN s |-> s[i]]
  BY <1>1, LenProperties
<1>3. IsFiniteSet(1..Len(s)) /\ Cardinality(1..Len(s)) = Len(s)
  <2> DEFINE n == Len(s)
  <2>1. n \in Nat /\ 1 \in Int /\ n \in Int
    BY <1>2
  <2> HIDE DEF n
  <2>2. IsFiniteSet(1..n) /\ Cardinality(1..n) = IF 1 > n THEN 0 ELSE n - 1 + 1
    BY <2>1, FS_Interval
  <2>3. (IF 1 > n THEN 0 ELSE n - 1 + 1) = n
    BY <2>1
  <2> QED BY <2>2, <2>3 DEF n
<1> QED BY <1>2, <1>3

LEMMA NumberedSequence ==
  ASSUME NEW n \in Nat, NEW s, s = [i \in 1..n |-> s[i]]
  PROVE  IsSequence(s) /\ Len(s) = n /\ DOMAIN s = 1..n
<1> DEFINE S == {s[i] : i \in 1..n}
<1>1. s \in [1..n -> S]
  OBVIOUS
<1> HIDE DEF S
<1>2. s \in Seq(S)
  BY <1>1, Numbered
<1>3. Len(s) = n /\ DOMAIN s = 1..n
  BY <1>1, <1>2, LenProperties
<1> QED BY <1>2, <1>3 DEF IsSequence

(* indexed::names leaves one of each.                                       *)
LEMMA DistinctOnce ==
  ASSUME NEW names \in Requests
  PROVE  OnceEach(Distinct(names))
<1> DEFINE first == FirstMentions(names)
           n == Cardinality(first)
           At(k) == NthPlace(first, k)
           d == Distinct(names)
<1>1. names \in Seq(DOMAIN Trim) /\ Len(names) \in Nat /\ DOMAIN names = 1..Len(names)
  BY CacheAssumption, LenProperties
<1>2. first \in SUBSET (1..Len(names))
  BY <1>1 DEF FirstMentions
<1>3. n \in Nat
  <2>1. IsFiniteSet(1..Len(names))
    BY <1>1, FS_Interval
  <2>2. IsFiniteSet(first)
    BY <1>2, <2>1, FS_Subset
  <2> QED BY <2>2, FS_CardinalityType
<1>4. ASSUME NEW k \in 1..n
      PROVE  At(k) \in first /\ Cardinality({j \in first : j <= At(k)}) = k
  <2> HIDE DEF first
  <2>1. \E i \in first : Cardinality({j \in first : j <= i}) = k
    BY <1>1, <1>2, PlaceExists
  <2>2. \E i \in first : Cardinality({j \in first : j <= i}) = k
    BY <2>1
  <2>3. At(k) \in first /\ Cardinality({j \in first : j <= At(k)}) = k
    BY <2>2 DEF NthPlace
  <2> QED BY <2>3
<1>5. d = [k \in 1..n |-> Trim[names[At(k)]]]
  <2>1. Cardinality(first) = n
    OBVIOUS
  <2> QED BY <2>1 DEF Distinct
<1>6. \A i, k \in first : Trim[names[i]] = Trim[names[k]] => i = k
  <2>1. ASSUME NEW i \in first, NEW k \in first, i < k PROVE Trim[names[i]] # Trim[names[k]]
    <3>1. i \in Nat /\ k \in Nat /\ 1 <= i
      <4> HIDE DEF first
      <4> QED BY <1>1, <1>2
    <3>2. i \in 1..k - 1
      BY <2>1, <3>1
    <3> QED BY <3>2 DEF FirstMentions
  <2>2. \A i \in first : i \in Int
    BY <1>1, <1>2
  <2> HIDE DEF first
  <2> QED BY <2>1, <2>2
<1> HIDE DEF first, n, d, At
<1>7. ASSUME NEW i \in 1..n, NEW k \in 1..n, d[i] = d[k] PROVE i = k
  <2>1. At(i) = At(k)
    BY <1>4, <1>5, <1>6, <1>7
  <2> QED BY <1>4, <2>1
<1>8. d = [i \in 1..n |-> d[i]]
  BY <1>5
<1>9. IsSequence(d) /\ DOMAIN d = 1..n
  BY <1>3, <1>8, NumberedSequence
<1> QED BY <1>7, <1>9 DEF OnceEach, d

(* The rows of the base have sizes, and of those asked for there are        *)
(* finitely many.                                                           *)
LEMMA StoredRows ==
  ASSUME stored \in Stores
  PROVE  /\ IsFiniteSet(stored.tables) /\ IsFiniteSet(RowsNow) /\ RowsNow \subseteq stored.tables
         /\ \A r \in stored.tables : Size(r) \in Nat
         /\ stored.root # "root"
<1>1. IsFiniteSet(stored.tables) /\ stored.root # "root"
  BY CacheAssumption
<1>2. RowsNow \subseteq stored.tables
  BY DEF RowsNow
<1>3. IsFiniteSet(RowsNow)
  BY <1>1, <1>2, FS_Subset
<1>4. ASSUME NEW r \in stored.tables PROVE Size(r) \in Nat
  <2> DEFINE s == r.parts
  <2>1. s \in Seq(Nat)
    BY CacheAssumption
  <2> HIDE DEF s
  <2>2. Len(s) \in Nat /\ DOMAIN s = 1..Len(s) /\ \A i \in DOMAIN s : s[i] \in Nat
    BY <2>1, LenProperties, ElementOfSeq
  <2>3. IsFiniteSet(DOMAIN s)
    BY <2>2, FS_Interval
  <2>4. SumFunction(s) \in Nat
    BY <2>2, <2>3, SumNat DEF SumFunction
  <2>5. Size(r) = SumFunction(s)
    BY DEF Size, s
  <2> QED BY <2>4, <2>5
<1> QED BY <1>1, <1>2, <1>3, <1>4

(* indexed::ordered: what answers a list of names is as long, in its order, *)
(* and no larger than the rows the statement found.                         *)
LEMMA OrderedFits ==
  ASSUME stored \in Stores, OnceEach(reading.asked), AllThere
  PROVE  /\ IsSequence(Ordered) /\ DOMAIN Ordered = DOMAIN reading.asked
         /\ Len(Ordered) = Len(reading.asked)
         /\ \A i \in DOMAIN reading.asked :
              Ordered[i] \in stored.tables /\ Ordered[i].name = reading.asked[i]
         /\ SizeOf(Ordered) \in Nat /\ SizeOfAll(RowsNow) \in Nat
         /\ SizeOf(Ordered) <= SizeOfAll(RowsNow)
<1> DEFINE names == reading.asked
           o == Ordered
           D == DOMAIN names
           R == RowsNow
           f == [i \in DOMAIN o |-> Size(o[i])]
           g == [r \in R |-> Size(r)]
<1>1. /\ Len(names) \in Nat /\ D = 1..Len(names) /\ IsFiniteSet(D)
      /\ \A i, k \in D : names[i] = names[k] => i = k
  BY SequenceFacts DEF OnceEach
<1>2. ToSet(names) = {names[i] : i \in D}
  BY DEF ToSet
<1>3. /\ DOMAIN o = D /\ o = [i \in D |-> o[i]]
      /\ \A i \in D : o[i] \in stored.tables /\ o[i].name = names[i]
  <2>1. DOMAIN o = D /\ o = [i \in D |-> o[i]]
    BY DEF Ordered
  <2>2. ASSUME NEW i \in D PROVE o[i] \in stored.tables /\ o[i].name = names[i]
    <3>1. o[i] = CHOOSE r \in stored.tables : r.name = names[i]
      BY DEF Ordered
    <3>2. names[i] \in ToSet(names)
      BY <1>2
    <3>3. \E r \in stored.tables : r.name = names[i]
      BY <3>2 DEF AllThere
    <3> QED BY <3>1, <3>3
  <2> QED BY <2>1, <2>2
<1>4. \A i \in D : o[i] \in R
  <2> SUFFICES ASSUME NEW i \in D PROVE o[i] \in R
    OBVIOUS
  <2>1. o[i].name \in ToSet(names)
    BY <1>2, <1>3
  <2> QED BY <1>3, <2>1 DEF RowsNow
<1>5. SizeOf(o) = SumFunctionOnSet(f, D) /\ SizeOfAll(R) = SumFunctionOnSet(g, R)
  <2>1. SizeOf(o) = SumFunction(f) /\ DOMAIN f = D
    BY <1>3 DEF SizeOf
  <2>2. SizeOfAll(R) = SumFunction(g) /\ DOMAIN g = R
    BY DEF SizeOfAll
  <2> QED BY <2>1, <2>2 DEF SumFunction
<1>6. IsFiniteSet(R) /\ \A r \in R : Size(r) \in Nat
  BY StoredRows
<1>7. \A r \in R : g[r] \in Nat
  BY <1>6
<1>8. \A i \in D : f[i] \in Nat /\ g[o[i]] = f[i]
  BY <1>3, <1>4, <1>6
<1>9. \A i, k \in D : o[i] = o[k] => i = k
  BY <1>1, <1>3
<1>10. IsSequence(o) /\ Len(o) = Len(names)
  BY <1>1, <1>3, NumberedSequence
<1> DEFINE T == {o[i] : i \in D}
<1>11. T \in SUBSET R
  BY <1>4
<1> HIDE DEF names, o, D, R, f, g
<1>12. SumFunctionOnSet(g, T) = SumFunctionOnSet(f, D)
  <2>1. \A i \in D : f[i] \in Int /\ g[o[i]] = f[i]
    BY <1>8
  <2>2. (\A i \in D : o[i] \in T) /\ \A r \in T : \E i \in D : o[i] = r
    OBVIOUS
  <2>3. IsFiniteSet(D)
    BY <1>1
  <2> HIDE DEF T
  <2> QED BY <1>9, <2>1, <2>2, <2>3, SumOverImage
<1> HIDE DEF T
<1>13. SumFunctionOnSet(g, T) <= SumFunctionOnSet(g, R)
  BY <1>6, <1>7, <1>11, SumMonotone
<1>14. SumFunctionOnSet(f, D) \in Nat /\ SumFunctionOnSet(g, R) \in Nat
  BY <1>1, <1>6, <1>7, <1>8, SumNat
<1> QED BY <1>3, <1>5, <1>10, <1>12, <1>13, <1>14 DEF names, o, D, R

(* Resources of different names are as many as their names.                 *)
LEMMA NamesCounted ==
  ASSUME NEW s, IsSequence(s), \A i, k \in DOMAIN s : s[i].name = s[k].name => i = k
  PROVE  Cardinality({s[i].name : i \in DOMAIN s}) = Len(s)
<1> DEFINE D == DOMAIN s
           N == {s[i].name : i \in D}
           f == [i \in D |-> s[i].name]
<1>1. IsFiniteSet(D) /\ Cardinality(D) = Len(s)
  BY SequenceFacts
<1>2. f \in Bijection(D, N)
  <2>1. f \in [D -> N] /\ \A x \in N : \E i \in D : f[i] = x
    OBVIOUS
  <2>2. IsInjective(f)
    BY DEF IsInjective
  <2> HIDE DEF D, N, f
  <2> QED BY <2>1, <2>2 DEF Bijection, Injection, Surjection
<1> HIDE DEF D, N, f
<1>3. ExistsBijection(D, N)
  BY <1>2 DEF ExistsBijection
<1>4. Cardinality(N) = Len(s)
  BY <1>1, <1>3, FS_Bijection
<1> QED BY <1>4 DEF N, D

LEMMA SizeOfNone == SizeOf(<<>>) = 0
<1>1. DOMAIN [i \in DOMAIN <<>> |-> Size(<<>>[i])] = {}
  OBVIOUS
<1> QED BY <1>1, SumEmpty DEF SizeOf, SumFunction

LEMMA SizeOfMore ==
  ASSUME NEW s, IsSequence(s), \A i \in DOMAIN s : Size(s[i]) \in Nat,
         NEW r, Size(r) \in Nat
  PROVE  SizeOf(Append(s, r)) = Size(r) + SizeOf(s)
<1> DEFINE t == Append(s, r)
           n == Len(s)
           f == [i \in DOMAIN s |-> Size(s[i])]
           g == [i \in DOMAIN t |-> Size(t[i])]
<1>1. n \in Nat /\ DOMAIN s = 1..n
  BY SequenceFacts
<1>2. DOMAIN t = 1..n + 1 /\ t[n + 1] = r /\ \A i \in 1..n : t[i] = s[i]
  BY DEF IsSequence
<1>3. /\ DOMAIN f = 1..n /\ DOMAIN g = 1..n + 1 /\ g[n + 1] = Size(r)
      /\ \A i \in 1..n : f[i] \in Int /\ g[i] = f[i]
  BY <1>1, <1>2
<1>4. SizeOf(t) = SumFunction(g) /\ SizeOf(s) = SumFunction(f)
  BY DEF SizeOf
<1> HIDE DEF t, n, f, g
<1>5. SumFunction(g) = g[n + 1] + SumFunction(f)
  BY <1>1, <1>3, SumOneMore
<1> QED BY <1>3, <1>4, <1>5 DEF t

-----------------------------------------------------------------------------
(* What a read under way has found, by the statements it has left: nothing  *)
(* before its rows; of a bootstrap, first the root, which has left the      *)
(* descriptor less of the limits; and at last what it may answer.           *)
AnswerOK(is, names, got) ==
  /\ Len(got) <= CountLimit /\ SizeOf(got) <= ByteLimit
  /\ Cardinality({got[i].name : i \in DOMAIN got}) = Len(got)
  /\ is = "resources" => [i \in DOMAIN got |-> got[i].name] = names

ResourcesRead(r) ==
  /\ OnceEach(r.asked) /\ Len(r.asked) <= CountLimit /\ r.limit = WholeLimit
  /\ \/ /\ \/ r.left \in {<<"layout">> \o Statements("resources"), Statements("resources")}
           \/ r.left = <<"rows">>
        /\ r.got = <<>>
     \/ r.left = <<>> /\ AnswerOK("resources", r.asked, r.got)

RootAsked(r) ==
  /\ r.asked = <<"root">> /\ r.got = <<>> /\ r.limit = WholeLimit
  /\ \/ r.left \in {<<"layout">> \o Statements("bootstrap"), Statements("bootstrap")}
     \/ r.left = <<"rows", "totals", "rows", "extensions">> /\ CountLimit >= 2

DescriptorAsked(r) ==
  /\ CountLimit >= 2 /\ r.left \in {<<"totals", "rows", "extensions">>, <<"rows", "extensions">>}
  /\ \E root, name :
       /\ r.got = <<root>> /\ r.asked = <<name>> /\ root.name # name
       /\ Size(root) \in Nat /\ r.limit.bytes = ByteLimit - Size(root)

BootstrapRead(r) ==
  \/ RootAsked(r)
  \/ DescriptorAsked(r)
  \/ r.left \in {<<"extensions">>, <<>>} /\ AnswerOK("bootstrap", r.asked, r.got)

ReadingOK(r) ==
  r # Nothing =>
    /\ DOMAIN r = {"is", "asked", "limit", "got", "told", "left"}
    /\ r.is = "resources" => ResourcesRead(r)
    /\ r.is = "bootstrap" => BootstrapRead(r)

CacheInv == stored \in Stores /\ ReadingOK(reading) /\ ReadIsBounded

(* A statement before others.                                               *)
LEMMA Joined ==
  ASSUME NEW s, IsSequence(s), NEW h
  PROVE  <<h>> \o s # <<>> /\ Head(<<h>> \o s) = h /\ Tail(<<h>> \o s) = s /\ <<>> \o s = s
<1>0. PICK S : s \in Seq(S)
  BY DEF IsSequence
<1> DEFINE U == S \cup {h}
           l == <<h>> \o s
<1>1. s \in Seq(U) /\ <<h>> \in Seq(U) /\ Len(<<h>>) = 1 /\ <<h>>[1] = h
  BY <1>0, SeqMonotonic
<1>2. l \in Seq(U) /\ Len(l) = 1 + Len(s)
  BY <1>1, ConcatProperties
<1>3. Len(s) \in Nat
  BY <1>0, LenProperties
<1>4. \A i \in 1..1 + Len(s) : l[i] = IF i <= 1 THEN h ELSE s[i - 1]
  BY <1>1, ConcatProperties
<1> HIDE DEF l, U
<1>5. l # <<>> /\ Head(l) = h
  BY <1>2, <1>3, <1>4
<1>6. Tail(l) \in Seq(U) /\ Len(Tail(l)) = Len(s) /\ \A i \in 1..Len(s) : Tail(l)[i] = s[i]
  <2>1. /\ Tail(l) \in Seq(U) /\ Len(Tail(l)) = Len(l) - 1
        /\ \A i \in 1..Len(Tail(l)) : Tail(l)[i] = l[i + 1]
    BY <1>2, <1>5, HeadTailProperties
  <2>2. Len(Tail(l)) = Len(s)
    BY <1>2, <1>3, <2>1
  <2> QED BY <1>3, <1>4, <2>1, <2>2
<1>7. Tail(l) = s
  BY <1>1, <1>6, SeqEqual
<1>8. <<>> \o s = s
  BY <1>0, ConcatEmptySeq
<1> QED BY <1>5, <1>7, <1>8 DEF l

LEMMA Literal ==
  ASSUME NEW a, NEW b, NEW c, NEW d, NEW e
  PROVE  IsSequence(<<a, b>>) /\ IsSequence(<<a, b, c, d, e>>)
<1>1. <<a, b>> \in Seq({a, b})
  OBVIOUS
<1>2. <<a, b, c, d, e>> \in Seq({a, b, c, d, e})
  OBVIOUS
<1> QED BY <1>1, <1>2 DEF IsSequence

LEMMA ManyStatements ==
  /\ Statements("resources") = <<"totals", "rows">> /\ IsSequence(Statements("resources"))
  /\ Statements("bootstrap") = <<"totals", "rows", "totals", "rows", "extensions">>
  /\ IsSequence(Statements("bootstrap"))
<1>1. Statements("resources") = <<"totals", "rows">>
  BY DEF Statements
<1>2. Statements("bootstrap") = <<"totals", "rows", "totals", "rows", "extensions">>
  BY DEF Statements
<1>3. IsSequence(Statements("resources")) /\ IsSequence(Statements("bootstrap"))
  BY <1>1, <1>2, Literal, Zenon
<1> QED BY <1>1, <1>2, <1>3, Zenon

LEMMA LimitsAreNumbers == CountLimit \in Nat /\ ByteLimit \in Nat
BY CacheAssumption

(* A read begins.                                                           *)
LEMMA BeginKept ==
  ASSUME CacheInv, NEW is \in Operations, NEW names, Begin(is, names),
         is = "resources" => OnceEach(names) /\ Len(names) <= CountLimit,
         is = "bootstrap" => names = <<"root">>
  PROVE  CacheInv'
<1> DEFINE left == (IF layout THEN <<>> ELSE <<"layout">>) \o Statements(is)
           r == [is |-> is, asked |-> names, limit |-> WholeLimit, got |-> <<>>, told |-> {},
                 left |-> left]
<1>1. reading' = r /\ reply' = Nothing /\ stored' = stored
  BY DEF Begin
<1>2. ReadIsBounded'
  BY <1>1 DEF ReadIsBounded, Nothing
<1>3. is \in {"resources", "bootstrap"} =>
        left \in {<<"layout">> \o Statements(is), Statements(is)}
  BY ManyStatements, Joined
<1> HIDE DEF left
<1>5. /\ DOMAIN r = {"is", "asked", "limit", "got", "told", "left"} /\ r.is = is /\ r.asked = names
      /\ r.limit = WholeLimit /\ r.got = <<>> /\ r.left = left
  OBVIOUS
<1> HIDE DEF r
<1>6. is = "resources" => ResourcesRead(r)
  BY <1>3, <1>5 DEF ResourcesRead
<1>7. is = "bootstrap" => BootstrapRead(r)
  BY <1>3, <1>5 DEF BootstrapRead, RootAsked
<1>8. ReadingOK(r)
  BY <1>5, <1>6, <1>7 DEF ReadingOK
<1> QED BY <1>1, <1>2, <1>8 DEF CacheInv

(* Calls: of resources, refused or empty or begun; of anything else.        *)
LEMMA AskKept ==
  ASSUME CacheInv,
         \/ \E names \in Requests : AskResources(names)
         \/ \E is \in Operations : Ask(is)
  PROVE  CacheInv'
<1>1. ASSUME NEW names \in Requests, AskResources(names) PROVE CacheInv'
  <2>1. CASE ~NamesRefused(names) /\ Begin("resources", Distinct(names))
    <3>1. OnceEach(Distinct(names))
      BY DistinctOnce
    <3>2. Len(Distinct(names)) <= CountLimit
      <4>1. Len(Distinct(names)) \in Nat
        BY <3>1, SequenceFacts DEF OnceEach
      <4> DEFINE n == Len(Distinct(names))
      <4>2. ~(n > CountLimit)
        BY <2>1 DEF NamesRefused
      <4> HIDE DEF n
      <4> QED BY <4>1, <4>2, LimitsAreNumbers DEF n
    <3>3. "resources" \in Operations
      BY DEF Operations
    <3> QED BY <2>1, <3>1, <3>2, <3>3, BeginKept
  <2>2. CASE /\ reply' = IF names = <<>> THEN [is |-> "resources", asked |-> names, got |-> <<>>]
                         ELSE Refused("names")
             /\ UNCHANGED reads
    <3>1. stored' = stored /\ reading' = reading
      BY <2>2 DEF reads
    <3>2. CASE names # <<>>
      BY <2>2, <3>1, <3>2 DEF CacheInv, ReadIsBounded, Refused
    <3>3. CASE names = <<>>
      <4>1. Len(<<>>) = 0 /\ {<<>>[i].name : i \in DOMAIN <<>>} = {} /\ Cardinality({}) = 0
        BY FS_EmptySet
      <4>2. [i \in DOMAIN <<>> |-> <<>>[i].name] = <<>>
        OBVIOUS
      <4>3. AnswerOK("resources", <<>>, <<>>)
        <5>1. Len(<<>>) <= CountLimit /\ SizeOf(<<>>) <= ByteLimit
          BY <4>1, SizeOfNone, LimitsAreNumbers
        <5>2. Cardinality({<<>>[i].name : i \in DOMAIN <<>>}) = Len(<<>>)
          BY <4>1
        <5> QED BY <4>2, <5>1, <5>2, Zenon DEF AnswerOK
      <4>4. reply'.is = "resources" /\ reply'.asked = <<>> /\ reply'.got = <<>>
        BY <2>2, <3>3
      <4>5. ReadIsBounded'
        BY <4>3, <4>4 DEF AnswerOK, ReadIsBounded
      <4> QED BY <3>1, <4>5 DEF CacheInv
    <3> QED BY <3>2, <3>3
  <2> QED BY <1>1, <2>1, <2>2 DEF AskResources
<1>2. ASSUME NEW is \in Operations, Ask(is) PROVE CacheInv'
  BY <1>2, BeginKept DEF Ask
<1> QED BY <1>1, <1>2

(* A read ends.                                                             *)
LEMMA CommitKept == ASSUME CacheInv, Commit PROVE CacheInv'
<1>1. /\ reading # Nothing /\ reading.left = <<>> /\ reading' = Nothing /\ stored' = stored
      /\ reply' = [is |-> reading.is, asked |-> reading.asked, got |-> reading.got]
  BY DEF Commit, Idle
<1>2. ASSUME reading.is \in {"resources", "bootstrap"}
      PROVE  AnswerOK(reading.is, reading.asked, reading.got)
  <2>1. \A is \in {"resources", "bootstrap"} :
          Statements(is) # <<>> /\ <<"layout">> \o Statements(is) # <<>>
    <3>1. TAKE is \in {"resources", "bootstrap"}
    <3>2. IsSequence(Statements(is)) /\ Statements(is) # <<>>
      BY ManyStatements
    <3> QED BY <3>2, Joined
  <2>2. ASSUME reading.is = "resources" PROVE AnswerOK("resources", reading.asked, reading.got)
    <3>1. ResourcesRead(reading)
      BY <1>1, <2>2, Zenon DEF CacheInv, ReadingOK
    <3>2. reading.left # <<"layout">> \o Statements("resources")
      BY <1>1, <2>1
    <3>3. reading.left # Statements("resources") /\ reading.left # <<"rows">>
      BY <1>1, <2>1
    <3> QED BY <3>1, <3>2, <3>3, Zenon DEF ResourcesRead
  <2>3. ASSUME reading.is = "bootstrap" PROVE AnswerOK("bootstrap", reading.asked, reading.got)
    <3>1. ~RootAsked(reading)
      BY <1>1, <2>1 DEF RootAsked
    <3>2. ~DescriptorAsked(reading)
      BY <1>1 DEF DescriptorAsked
    <3> QED BY <1>1, <2>3, <3>1, <3>2 DEF CacheInv, ReadingOK, BootstrapRead
  <2> QED BY <1>2, <2>2, <2>3
<1>3. reply'.is = reading.is /\ reply'.asked = reading.asked /\ reply'.got = reading.got
  BY <1>1
<1>4. ReadIsBounded'
  BY <1>2, <1>3 DEF AnswerOK, ReadIsBounded
<1> QED BY <1>1, <1>4 DEF CacheInv, ReadingOK

(* What the statements of these reads need and tell.                        *)
LEMMA StatementsMean ==
  /\ Succeeds("totals") => (reading.is = "bootstrap" => CountLimit >= 2)
  /\ Succeeds("rows") => RowsFit /\ AllThere
  /\ Resources("rows") = reading.got \o Ordered
  /\ \A s \in {"layout", "totals", "extensions"} : Resources(s) = reading.got
<1>1. Succeeds("totals") => (reading.is = "bootstrap" => CountLimit >= 2)
  BY DEF Succeeds
<1>2. Succeeds("rows") => RowsFit /\ AllThere
  BY DEF Succeeds
<1>3. Resources("rows") = reading.got \o Ordered
  BY DEF Resources
<1>4. \A s \in {"layout", "totals", "extensions"} : Resources(s) = reading.got
  BY DEF Resources
<1> QED BY <1>1, <1>2, <1>3, <1>4, Zenon

(* A statement changes what is left, what was found and what was told; the  *)
(* root also what is asked for, and the limits.                             *)
LEMMA FieldsKept ==
  ASSUME NEW r, DOMAIN r = {"is", "asked", "limit", "got", "told", "left"}, NEW x, NEW y, NEW z
  PROVE  LET q == [r EXCEPT !.left = x, !.got = y, !.told = z] IN
         /\ DOMAIN q = DOMAIN r /\ q.is = r.is /\ q.asked = r.asked /\ q.limit = r.limit
         /\ q.left = x /\ q.got = y
<1> DEFINE a == [r EXCEPT !.left = x]
           b == [a EXCEPT !.got = y]
           c == [b EXCEPT !.told = z]
<1>1. DOMAIN a = DOMAIN r /\ a.is = r.is /\ a.asked = r.asked /\ a.limit = r.limit /\ a.left = x
  OBVIOUS
<1> HIDE DEF a
<1>2. /\ DOMAIN b = DOMAIN r /\ b.is = r.is /\ b.asked = r.asked /\ b.limit = r.limit /\ b.left = x
      /\ b.got = y
  BY <1>1
<1> HIDE DEF b
<1>3. /\ DOMAIN c = DOMAIN r /\ c.is = r.is /\ c.asked = r.asked /\ c.limit = r.limit /\ c.left = x
      /\ c.got = y
  BY <1>2
<1> QED BY <1>3 DEF a, b, c

LEMMA RootFollowed ==
  ASSUME DOMAIN reading = {"is", "asked", "limit", "got", "told", "left"}
  PROVE  /\ DOMAIN FollowRoot = DOMAIN reading /\ FollowRoot.is = reading.is
         /\ FollowRoot.left = Tail(reading.left) /\ FollowRoot.got = Ordered
         /\ FollowRoot.asked = <<stored.root>>
         /\ FollowRoot.limit.bytes = reading.limit.bytes - Size(Ordered[1])
<1> DEFINE o == Ordered
           n == Size(o[1])
           a == [reading EXCEPT !.left = Tail(@)]
           b == [a EXCEPT !.got = o]
           c == [b EXCEPT !.asked = <<stored.root>>]
           d == [c EXCEPT !.limit = [count |-> @.count - 1, bytes |-> @.bytes - n]]
<1>0. FollowRoot = d
  BY DEF FollowRoot
<1> HIDE DEF o, n
<1>1. /\ DOMAIN a = DOMAIN reading /\ a.is = reading.is /\ a.limit = reading.limit
      /\ a.left = Tail(reading.left)
  OBVIOUS
<1> HIDE DEF a
<1>2. /\ DOMAIN b = DOMAIN reading /\ b.is = reading.is /\ b.limit = reading.limit
      /\ b.left = a.left /\ b.got = o
  BY <1>1
<1> HIDE DEF b
<1>3. /\ DOMAIN c = DOMAIN reading /\ c.is = reading.is /\ c.limit = reading.limit /\ c.left = a.left
      /\ c.got = o /\ c.asked = <<stored.root>>
  BY <1>2
<1> HIDE DEF c
<1>4. /\ DOMAIN d = DOMAIN reading /\ d.is = reading.is /\ d.left = a.left /\ d.got = o
      /\ d.asked = <<stored.root>>
      /\ d.limit = [count |-> c.limit.count - 1, bytes |-> c.limit.bytes - n]
  BY <1>3
<1> HIDE DEF d
<1>5. d.limit.bytes = reading.limit.bytes - n
  BY <1>3, <1>4
<1> QED BY <1>0, <1>1, <1>4, <1>5 DEF o, n

LEMMA OneElement ==
  ASSUME NEW S, NEW s \in Seq(S), Len(s) = 1
  PROVE  s = <<s[1]>>
<1>1. s[1] \in S /\ <<s[1]>> \in Seq(S)
  BY ElementOfSeq
<1>2. Len(<<s[1]>>) = 1 /\ \A i \in 1..1 : s[i] = <<s[1]>>[i]
  OBVIOUS
<1> QED BY <1>1, <1>2, SeqEqual

(* One name finds one resource.                                             *)
LEMMA OneFound ==
  ASSUME stored \in Stores, NEW name, reading.asked = <<name>>, AllThere
  PROVE  LET r == Ordered[1] IN
         /\ Ordered = <<r>> /\ r.name = name /\ Size(r) \in Nat
         /\ SizeOfAll(RowsNow) \in Nat /\ Size(r) <= SizeOfAll(RowsNow)
<1> DEFINE o == Ordered
           r == o[1]
<1>1. OnceEach(<<name>>)
  <2>1. <<name>> \in Seq({name})
    OBVIOUS
  <2>2. DOMAIN <<name>> = 1..1
    OBVIOUS
  <2>3. \A i, k \in 1..1 : i = k
    OBVIOUS
  <2> QED BY <2>1, <2>2, <2>3 DEF OnceEach, IsSequence
<1>2. /\ IsSequence(o) /\ DOMAIN o = DOMAIN <<name>> /\ Len(o) = Len(<<name>>)
      /\ \A i \in DOMAIN <<name>> : o[i] \in stored.tables /\ o[i].name = <<name>>[i]
      /\ SizeOf(o) \in Nat /\ SizeOfAll(RowsNow) \in Nat /\ SizeOf(o) <= SizeOfAll(RowsNow)
  BY <1>1, OrderedFits
<1>3. r \in stored.tables /\ r.name = name
  BY <1>2
<1>4. Size(r) \in Nat
  BY <1>3, StoredRows
<1>5. o = <<r>>
  <2>1. Len(o) = 1
    BY <1>2
  <2> HIDE DEF o
  <2>2. PICK S : o \in Seq(S)
    BY <1>2 DEF IsSequence
  <2> QED BY <2>1, <2>2, OneElement
<1>6. SizeOf(<<r>>) = Size(r)
  <2> HIDE DEF o, r
  <2>1. <<>> \in Seq({r}) /\ Append(<<>>, r) = <<r>> /\ DOMAIN <<>> = {}
    OBVIOUS
  <2>2. SizeOf(Append(<<>>, r)) = Size(r) + SizeOf(<<>>)
    BY <1>4, <2>1, SizeOfMore DEF IsSequence
  <2> QED BY <1>4, <2>1, <2>2, SizeOfNone
<1> QED BY <1>2, <1>3, <1>4, <1>5, <1>6

(* What was found of a list of names is what is asked for.                  *)
LEMMA ListAnswered ==
  ASSUME stored \in Stores, OnceEach(reading.asked), Len(reading.asked) <= CountLimit,
         AllThere, SizeOfAll(RowsNow) <= ByteLimit
  PROVE  AnswerOK("resources", reading.asked, Ordered) /\ IsSequence(Ordered)
<1> DEFINE o == Ordered
           names == reading.asked
<1>1. /\ IsSequence(o) /\ DOMAIN o = DOMAIN names /\ Len(o) = Len(names)
      /\ \A i \in DOMAIN names : o[i].name = names[i]
      /\ SizeOf(o) \in Nat /\ SizeOfAll(RowsNow) \in Nat
      /\ SizeOf(o) <= SizeOfAll(RowsNow)
  BY OrderedFits
<1>2. Len(o) <= CountLimit
  BY <1>1
<1>3. SizeOf(o) <= ByteLimit
  BY <1>1, LimitsAreNumbers
<1>4. /\ names = [i \in DOMAIN names |-> names[i]]
      /\ \A i, k \in DOMAIN names : names[i] = names[k] => i = k
  BY SequenceFacts DEF OnceEach
<1> HIDE DEF o, names
<1>5. [i \in DOMAIN o |-> o[i].name] = names
  BY <1>1, <1>4
<1>6. Cardinality({o[i].name : i \in DOMAIN o}) = Len(o)
  BY <1>1, <1>4, NamesCounted
<1> QED BY <1>1, <1>2, <1>3, <1>5, <1>6 DEF AnswerOK, o, names

LEMMA Pair ==
  ASSUME NEW a, NEW b
  PROVE  <<a>> \o <<b>> = <<a, b>> /\ Append(<<a>>, b) = <<a, b>>
<1> DEFINE s == <<a>> \o <<b>>
           t == Append(<<a>>, b)
           S == {a, b}
<1>1. <<a>> \in Seq(S) /\ <<b>> \in Seq(S) /\ <<a, b>> \in Seq(S)
  OBVIOUS
<1>2. Len(<<a>>) = 1 /\ Len(<<b>>) = 1 /\ Len(<<a, b>>) = 2
  OBVIOUS
<1>3. s \in Seq(S) /\ Len(s) = 2 /\ \A i \in 1..2 : s[i] = IF i <= 1 THEN <<a>>[i] ELSE <<b>>[i - 1]
  BY <1>1, <1>2, ConcatProperties
<1>4. t \in Seq(S) /\ Len(t) = 2 /\ t[1] = a /\ t[2] = b
  BY <1>1, <1>2
<1>5. \A i \in 1..2 : i = 1 \/ i = 2
  OBVIOUS
<1>6. s = <<a, b>>
  <2>1. \A i \in 1..2 : s[i] = <<a, b>>[i]
    BY <1>3, <1>5
  <2> HIDE DEF s
  <2> QED BY <1>1, <1>2, <1>3, <2>1, SeqEqual
<1>7. t = <<a, b>>
  <2>1. \A i \in 1..2 : t[i] = <<a, b>>[i]
    BY <1>4, <1>5
  <2> HIDE DEF t
  <2> QED BY <1>1, <1>2, <1>4, <2>1, SeqEqual
<1> QED BY <1>6, <1>7

(* The root and the descriptor share one limit.                             *)
LEMMA PairAnswered ==
  ASSUME stored \in Stores, CountLimit >= 2, NEW root, NEW name, reading.asked = <<name>>,
         root.name # name, Size(root) \in Nat, AllThere,
         SizeOfAll(RowsNow) <= ByteLimit - Size(root)
  PROVE  AnswerOK("bootstrap", reading.asked, <<root>> \o Ordered)
<1> DEFINE r == Ordered[1]
           got == <<root, r>>
<1>1. /\ Ordered = <<r>> /\ r.name = name /\ Size(r) \in Nat
      /\ SizeOfAll(RowsNow) \in Nat /\ Size(r) <= SizeOfAll(RowsNow)
  BY OneFound
<1> HIDE DEF r
<1>2. <<root>> \o <<r>> = got /\ Append(<<root>>, r) = got
  BY Pair
<1>3. SizeOf(got) = Size(r) + Size(root)
  <2>1. /\ <<root>> \in Seq({root}) /\ <<>> \in Seq({root})
        /\ Append(<<>>, root) = <<root>> /\ DOMAIN <<>> = {}
    OBVIOUS
  <2>2. SizeOf(Append(<<>>, root)) = Size(root) + SizeOf(<<>>)
    BY <2>1, SizeOfMore DEF IsSequence
  <2>3. SizeOf(<<root>>) = Size(root)
    BY <2>1, <2>2, SizeOfNone
  <2>4. \A i \in DOMAIN <<root>> : Size(<<root>>[i]) \in Nat
    OBVIOUS
  <2>5. SizeOf(Append(<<root>>, r)) = Size(r) + SizeOf(<<root>>)
    BY <1>1, <2>1, <2>4, SizeOfMore DEF IsSequence
  <2> QED BY <1>2, <2>3, <2>5
<1>4. SizeOf(got) <= ByteLimit
  BY <1>1, <1>3, LimitsAreNumbers
<1>5. Len(got) = 2 /\ IsSequence(got)
  <2>1. got \in Seq({root, r})
    OBVIOUS
  <2> QED BY <2>1 DEF IsSequence
<1>6. \A i, k \in DOMAIN got : got[i].name = got[k].name => i = k
  <2>1. DOMAIN got = 1..2 /\ got[1] = root /\ got[2] = r
    OBVIOUS
  <2> HIDE DEF got
  <2> QED BY <1>1, <2>1
<1> HIDE DEF got
<1>7. Cardinality({got[i].name : i \in DOMAIN got}) = Len(got)
  BY <1>5, <1>6, NamesCounted
<1>8. AnswerOK("bootstrap", reading.asked, got)
  BY <1>4, <1>5, <1>7 DEF AnswerOK
<1> QED BY <1>1, <1>2, <1>8

(* Of the statements a read has left, which one is next.                    *)
LEMMA NextStatement ==
  /\ \A is \in {"resources", "bootstrap"} :
       /\ Statements(is) # <<>> /\ Head(Statements(is)) = "totals"
       /\ <<"layout">> \o Statements(is) # <<>> /\ Head(<<"layout">> \o Statements(is)) = "layout"
       /\ Tail(<<"layout">> \o Statements(is)) = Statements(is)
  /\ Tail(Statements("resources")) = <<"rows">>
  /\ Tail(Statements("bootstrap")) = <<"rows", "totals", "rows", "extensions">>
<1>1. \A is \in {"resources", "bootstrap"} :
        /\ <<"layout">> \o Statements(is) # <<>> /\ Head(<<"layout">> \o Statements(is)) = "layout"
        /\ Tail(<<"layout">> \o Statements(is)) = Statements(is)
  BY ManyStatements, Joined
<1>2. Statements("resources") # <<>> /\ Head(Statements("resources")) = "totals"
      /\ Tail(Statements("resources")) = <<"rows">>
  <2>1. <<"totals", "rows">> # <<>> /\ Head(<<"totals", "rows">>) = "totals"
        /\ Tail(<<"totals", "rows">>) = <<"rows">>
    OBVIOUS
  <2> QED BY <2>1, ManyStatements, Zenon
<1>3. /\ Statements("bootstrap") # <<>> /\ Head(Statements("bootstrap")) = "totals"
      /\ Tail(Statements("bootstrap")) = <<"rows", "totals", "rows", "extensions">>
  <2> DEFINE s == <<"totals", "rows", "totals", "rows", "extensions">>
  <2>1. s # <<>> /\ Head(s) = "totals" /\ Tail(s) = <<"rows", "totals", "rows", "extensions">>
    OBVIOUS
  <2> HIDE DEF s
  <2>2. Statements("bootstrap") = s
    BY ManyStatements DEF s
  <2> QED BY <2>1, <2>2, Zenon
<1> QED BY <1>1, <1>2, <1>3

(* A statement of a read of resources.                                      *)
LEMMA ResourcesStatement ==
  ASSUME stored \in Stores, ResourcesRead(reading), reading.left # <<>>,
         Succeeds(Head(reading.left)), NEW r, r.asked = reading.asked, r.limit = reading.limit,
         r.left = Tail(reading.left), r.got = Resources(Head(reading.left))
  PROVE  ResourcesRead(r)
<1>1. CASE reading.left = <<"layout">> \o Statements("resources") /\ reading.got = <<>>
  <2>1. r.got = <<>> /\ r.left = Statements("resources")
    BY <1>1, NextStatement, StatementsMean
  <2> QED BY <2>1 DEF ResourcesRead
<1>2. CASE reading.left = Statements("resources") /\ reading.got = <<>>
  <2>1. r.got = <<>> /\ r.left = <<"rows">>
    BY <1>2, NextStatement, StatementsMean
  <2> QED BY <2>1 DEF ResourcesRead
<1>3. CASE reading.left = <<"rows">> /\ reading.got = <<>>
  <2>1. Head(<<"rows">>) = "rows" /\ Tail(<<"rows">>) = <<>>
    OBVIOUS
  <2>2. RowsFit /\ AllThere /\ r.got = <<>> \o Ordered /\ r.left = <<>>
    BY <1>3, <2>1, StatementsMean
  <2>3. SizeOfAll(RowsNow) <= ByteLimit
    BY <2>2 DEF RowsFit, TotalsFit, ResourcesRead, WholeLimit
  <2>4. AnswerOK("resources", reading.asked, Ordered) /\ IsSequence(Ordered)
    BY <2>2, <2>3, ListAnswered DEF ResourcesRead
  <2>5. <<>> \o Ordered = Ordered
    BY <2>4, Joined
  <2> QED BY <2>2, <2>4, <2>5 DEF ResourcesRead
<1> QED BY <1>1, <1>2, <1>3 DEF ResourcesRead

(* A statement of a bootstrap that finds no root.                           *)
LEMMA BootstrapStatement ==
  ASSUME stored \in Stores, BootstrapRead(reading), reading.is = "bootstrap", reading.left # <<>>,
         Succeeds(Head(reading.left)), ~(Head(reading.left) = "rows" /\ reading.got = <<>>),
         NEW r, r.asked = reading.asked, r.limit = reading.limit,
         r.left = Tail(reading.left), r.got = Resources(Head(reading.left))
  PROVE  BootstrapRead(r)
<1>1. CASE RootAsked(reading)
  <2>1. CASE reading.left = <<"layout">> \o Statements("bootstrap")
    <3>1. r.got = <<>> /\ r.left = Statements("bootstrap")
      BY <1>1, <2>1, NextStatement, StatementsMean DEF RootAsked
    <3> QED BY <1>1, <3>1 DEF RootAsked, BootstrapRead
  <2>2. CASE reading.left = Statements("bootstrap")
    <3>1. /\ Head(reading.left) = "totals"
          /\ Tail(reading.left) = <<"rows", "totals", "rows", "extensions">>
      BY <2>2, NextStatement
    <3>2. r.got = <<>> /\ CountLimit >= 2
      BY <1>1, <3>1, StatementsMean DEF RootAsked
    <3> QED BY <1>1, <3>1, <3>2 DEF RootAsked, BootstrapRead
  <2>3. CASE reading.left = <<"rows", "totals", "rows", "extensions">>
    <3>1. Head(reading.left) = "rows"
      BY <2>3
    <3> QED BY <1>1, <3>1 DEF RootAsked
  <2> QED BY <1>1, <2>1, <2>2, <2>3 DEF RootAsked
<1>2. CASE DescriptorAsked(reading)
  <2>1. PICK root, name : /\ reading.got = <<root>> /\ reading.asked = <<name>> /\ root.name # name
                          /\ Size(root) \in Nat /\ reading.limit.bytes = ByteLimit - Size(root)
    BY <1>2 DEF DescriptorAsked
  <2>2. CASE reading.left = <<"totals", "rows", "extensions">>
    <3>1. Head(reading.left) = "totals" /\ Tail(reading.left) = <<"rows", "extensions">>
      BY <2>2
    <3>2. r.got = reading.got
      BY <3>1, StatementsMean
    <3>3. DescriptorAsked(r)
      BY <1>2, <2>1, <3>1, <3>2 DEF DescriptorAsked
    <3> QED BY <3>3 DEF BootstrapRead
  <2>3. CASE reading.left = <<"rows", "extensions">>
    <3>1. Head(reading.left) = "rows" /\ Tail(reading.left) = <<"extensions">>
      BY <2>3
    <3>2. RowsFit /\ AllThere /\ r.got = <<root>> \o Ordered
      BY <2>1, <3>1, StatementsMean
    <3>3. SizeOfAll(RowsNow) <= ByteLimit - Size(root)
      BY <2>1, <3>2 DEF RowsFit, TotalsFit
    <3>4. AnswerOK("bootstrap", reading.asked, r.got)
      BY <1>2, <2>1, <3>2, <3>3, PairAnswered DEF DescriptorAsked
    <3> QED BY <3>1, <3>4 DEF BootstrapRead
  <2> QED BY <1>2, <2>2, <2>3 DEF DescriptorAsked
<1>3. CASE reading.left = <<"extensions">> /\ AnswerOK("bootstrap", reading.asked, reading.got)
  <2>1. Head(reading.left) = "extensions" /\ Tail(reading.left) = <<>>
    BY <1>3
  <2>2. r.got = reading.got
    BY <2>1, StatementsMean
  <2> QED BY <1>3, <2>1, <2>2 DEF BootstrapRead
<1> QED BY <1>1, <1>2, <1>3 DEF BootstrapRead

(* The root is there: it names the descriptor.                              *)
LEMMA RootFound ==
  ASSUME stored \in Stores, BootstrapRead(reading), reading.left # <<>>,
         Succeeds("rows"), Head(reading.left) = "rows", reading.got = <<>>,
         DOMAIN reading = {"is", "asked", "limit", "got", "told", "left"}
  PROVE  BootstrapRead(FollowRoot)
<1>1. RootAsked(reading) /\ reading.left = <<"rows", "totals", "rows", "extensions">> /\ CountLimit >= 2
  <2>1. ~DescriptorAsked(reading)
    BY DEF DescriptorAsked
  <2>2. reading.left # <<"extensions">>
    OBVIOUS
  <2>3. RootAsked(reading)
    BY <2>1, <2>2 DEF BootstrapRead
  <2>4. /\ reading.left # <<"layout">> \o Statements("bootstrap")
        /\ reading.left # Statements("bootstrap")
    BY NextStatement
  <2> QED BY <2>3, <2>4 DEF RootAsked
<1>2. RowsFit /\ AllThere
  BY StatementsMean
<1> DEFINE root == Ordered[1]
<1>3. /\ Ordered = <<root>> /\ root.name = "root" /\ Size(root) \in Nat
  BY <1>1, <1>2, OneFound DEF RootAsked
<1>4. /\ FollowRoot.left = Tail(reading.left) /\ FollowRoot.got = <<root>>
      /\ FollowRoot.asked = <<stored.root>>
      /\ FollowRoot.limit.bytes = reading.limit.bytes - Size(root)
  BY <1>3, RootFollowed
<1>5. Tail(reading.left) = <<"totals", "rows", "extensions">> /\ reading.limit.bytes = ByteLimit
  BY <1>1 DEF RootAsked, WholeLimit
<1>6. root.name # stored.root
  BY <1>3, StoredRows
<1> HIDE DEF root
<1>7. DescriptorAsked(FollowRoot)
  BY <1>1, <1>3, <1>4, <1>5, <1>6 DEF DescriptorAsked
<1> QED BY <1>7 DEF BootstrapRead

LEMMA StatementKept == ASSUME CacheInv, Statement PROVE CacheInv'
<1>1. /\ reading # Nothing /\ reading.left # <<>> /\ Succeeds(Head(reading.left))
      /\ stored' = stored /\ reply' = reply
  BY DEF Statement, Idle
<1>2. /\ stored \in Stores /\ DOMAIN reading = {"is", "asked", "limit", "got", "told", "left"}
      /\ reading.is = "resources" => ResourcesRead(reading)
      /\ reading.is = "bootstrap" => BootstrapRead(reading)
  BY <1>1 DEF CacheInv, ReadingOK
<1>3. ReadIsBounded'
  BY <1>1 DEF CacheInv, ReadIsBounded
<1>4. CASE reading.is = "bootstrap" /\ Head(reading.left) = "rows" /\ reading.got = <<>>
  <2>1. reading' = FollowRoot
    BY <1>4 DEF Statement
  <2>2. DOMAIN FollowRoot = DOMAIN reading /\ FollowRoot.is = reading.is
    BY <1>2, RootFollowed
  <2>3. BootstrapRead(FollowRoot)
    BY <1>1, <1>2, <1>4, RootFound
  <2>4. ReadingOK(FollowRoot)
    BY <1>2, <1>4, <2>2, <2>3 DEF ReadingOK
  <2> QED BY <1>1, <1>2, <1>3, <2>1, <2>4 DEF CacheInv
<1>5. CASE ~(reading.is = "bootstrap" /\ Head(reading.left) = "rows" /\ reading.got = <<>>)
  <2> DEFINE r == [reading EXCEPT !.left = Tail(@), !.got = Resources(Head(reading.left)),
                                  !.told = Told(Head(reading.left))]
  <2>1. reading' = r
    BY <1>5 DEF Statement
  <2>2. /\ DOMAIN r = DOMAIN reading /\ r.is = reading.is /\ r.asked = reading.asked
        /\ r.limit = reading.limit /\ r.left = Tail(reading.left)
        /\ r.got = Resources(Head(reading.left))
    BY <1>2, FieldsKept
  <2> HIDE DEF r
  <2>3. ASSUME reading.is = "resources" PROVE ResourcesRead(r)
    BY <1>1, <1>2, <2>2, <2>3, ResourcesStatement
  <2>4. ASSUME reading.is = "bootstrap" PROVE BootstrapRead(r)
    BY <1>1, <1>2, <1>5, <2>2, <2>4, BootstrapStatement
  <2>5. ReadingOK(r)
    BY <1>2, <2>2, <2>3, <2>4 DEF ReadingOK
  <2> QED BY <1>1, <1>2, <1>3, <2>1, <2>5 DEF CacheInv
<1> QED BY <1>4, <1>5

(* Every call, statement and change keeps what a read has found.            *)
LEMMA CacheStep == ASSUME CacheInv, CacheNext PROVE CacheInv'
<1>1. ASSUME stored' \in Stores, ReadingOK(reading'), reply'.is \notin {"resources", "bootstrap"}
      PROVE  CacheInv'
  BY <1>1 DEF CacheInv, ReadIsBounded
<1>2. /\ \A why : Refused(why).is \notin {"resources", "bootstrap"}
      /\ \A s, d, g : Validated(s, d, g).is \notin {"resources", "bootstrap"}
  BY DEF Refused, Validated
<1>3. CASE ReadFails
  <2>1. stored' = stored /\ reading' = Nothing /\ reply'.is \notin {"resources", "bootstrap"}
    BY <1>2, <1>3 DEF ReadFails
  <2> QED BY <1>1, <2>1 DEF CacheInv, ReadingOK
<1>4. CASE Change
  BY <1>4 DEF Change, CacheInv, ReadIsBounded
<1>5. ASSUME NEW resource, Admit(resource) PROVE CacheInv'
  <2>1. reading' = reading /\ stored' = stored
    BY <1>5 DEF Admit, reads
  <2>2. reply' = IF Accepts(cache, resource) THEN [is |-> "admitted"] ELSE Refused("admit")
    BY <1>5 DEF Admit
  <2>3. reply'.is \notin {"resources", "bootstrap"}
    BY <1>2, <2>2
  <2> QED BY <1>1, <2>1, <2>3 DEF CacheInv
<1>6. ASSUME Resolve \/ ResolveRuntime \/ Finalize PROVE CacheInv'
  <2>1. reading' = reading /\ stored' = stored
    BY <1>6 DEF Resolve, ResolveRuntime, Finalize, reads
  <2>2. reply' = ResolvedCache(cache, inputs.separators) \/ reply' = Finalized
    BY <1>6 DEF Resolve, ResolveRuntime, Finalize
  <2>3. reply'.is \notin {"resources", "bootstrap"}
    BY <1>2, <2>2 DEF ResolvedCache, Finalized
  <2> QED BY <1>1, <2>1, <2>3 DEF CacheInv
<1> QED BY <1>3, <1>4, <1>5, <1>6, AskKept, StatementKept, CommitKept DEF CacheNext

-----------------------------------------------------------------------------
(* The cache.  The resources in the caller's hands came from the base: they *)
(* have sizes.                                                              *)
Measured(r) == Size(r) \in Nat /\ DecodedSize(r) \in Nat
MeasuredAll(s) == IsSequence(s) /\ \A i \in DOMAIN s : Measured(s[i])

GotMeasured(r) ==
  r # Nothing /\ r.is \in {"resources", "bootstrap"} => MeasuredAll(r.got)

HeldInv == GotMeasured(reading) /\ \A r \in held : Measured(r)

LEMMA StoredMeasured == ASSUME stored \in Stores PROVE \A r \in stored.tables : Measured(r)
<1> SUFFICES ASSUME NEW r \in stored.tables PROVE Measured(r)
  OBVIOUS
<1>1. r.decoded \in Nat /\ 0 \in Nat
  BY CacheAssumption
<1>2. DecodedSize(r) \in Nat
  BY <1>1 DEF DecodedSize
<1> QED BY <1>2, StoredRows DEF Measured

LEMMA MeasuredJoined ==
  ASSUME NEW s, NEW t, MeasuredAll(s), MeasuredAll(t)
  PROVE  MeasuredAll(s \o t)
<1>1. PICK S : s \in Seq(S)
  BY DEF MeasuredAll, IsSequence
<1>2. PICK T : t \in Seq(T)
  BY DEF MeasuredAll, IsSequence
<1> DEFINE U == S \cup T
           c == s \o t
<1>3. s \in Seq(U) /\ t \in Seq(U)
  BY <1>1, <1>2, SeqMonotonic
<1>4. Len(s) \in Nat /\ Len(t) \in Nat /\ DOMAIN s = 1..Len(s) /\ DOMAIN t = 1..Len(t)
  BY <1>3, LenProperties
<1>5. /\ c \in Seq(U) /\ Len(c) = Len(s) + Len(t)
      /\ \A i \in 1..Len(s) + Len(t) : c[i] = IF i <= Len(s) THEN s[i] ELSE t[i - Len(s)]
  BY <1>3, ConcatProperties
<1> HIDE DEF c, U
<1>6. DOMAIN c = 1..Len(s) + Len(t)
  BY <1>5, LenProperties
<1>7. ASSUME NEW i \in DOMAIN c PROVE Measured(c[i])
  <2>1. CASE i <= Len(s)
    BY <1>4, <1>5, <1>6, <2>1 DEF MeasuredAll
  <2>2. CASE ~(i <= Len(s))
    <3>1. i - Len(s) \in DOMAIN t
      BY <1>4, <1>6, <2>2
    <3> QED BY <1>4, <1>5, <1>6, <2>2, <3>1 DEF MeasuredAll
  <2> QED BY <2>1, <2>2
<1> QED BY <1>5, <1>7 DEF MeasuredAll, IsSequence, c

(* The statements of these reads tell what the base holds.                  *)
LEMMA StatementsLeft ==
  ASSUME CacheInv, reading # Nothing, reading.is \in {"resources", "bootstrap"},
         reading.left # <<>>
  PROVE  /\ Head(reading.left) \in {"layout", "totals", "rows", "extensions"}
         /\ Head(reading.left) = "rows" => OnceEach(reading.asked)
<1>1. \A is \in {"resources", "bootstrap"} :
        /\ reading.left = <<"layout">> \o Statements(is) => Head(reading.left) = "layout"
        /\ reading.left = Statements(is) => Head(reading.left) = "totals"
  BY NextStatement
<1>2. \A name : OnceEach(<<name>>)
  <2> SUFFICES ASSUME NEW name PROVE OnceEach(<<name>>)
    OBVIOUS
  <2>1. <<name>> \in Seq({name}) /\ DOMAIN <<name>> = 1..1
    OBVIOUS
  <2>2. \A i, k \in 1..1 : i = k
    OBVIOUS
  <2> QED BY <2>1, <2>2 DEF OnceEach, IsSequence
<1>3. CASE reading.is = "resources"
  <2>1. ResourcesRead(reading)
    BY <1>3 DEF CacheInv, ReadingOK
  <2>2. reading.left = <<"rows">> => Head(reading.left) = "rows"
    OBVIOUS
  <2> QED BY <1>1, <2>1, <2>2 DEF ResourcesRead
<1>4. CASE reading.is = "bootstrap"
  <2>1. BootstrapRead(reading)
    BY <1>4 DEF CacheInv, ReadingOK
  <2>2. CASE RootAsked(reading)
    <3>1. reading.left = <<"rows", "totals", "rows", "extensions">> => Head(reading.left) = "rows"
      OBVIOUS
    <3> QED BY <1>1, <1>2, <2>2, <3>1 DEF RootAsked
  <2>3. CASE DescriptorAsked(reading)
    <3>1. /\ reading.left = <<"totals", "rows", "extensions">> => Head(reading.left) = "totals"
          /\ reading.left = <<"rows", "extensions">> => Head(reading.left) = "rows"
      OBVIOUS
    <3> QED BY <1>2, <2>3, <3>1 DEF DescriptorAsked
  <2>4. reading.left = <<"extensions">> => Head(reading.left) = "extensions"
    OBVIOUS
  <2> QED BY <2>1, <2>2, <2>3, <2>4 DEF BootstrapRead
<1> QED BY <1>3, <1>4

LEMMA OrderedMeasured ==
  ASSUME stored \in Stores, OnceEach(reading.asked), AllThere
  PROVE  MeasuredAll(Ordered)
BY OrderedFits, StoredMeasured DEF MeasuredAll

LEMMA StatementMeasured == ASSUME CacheInv, HeldInv, Statement PROVE HeldInv'
<1>1. /\ reading # Nothing /\ reading.left # <<>> /\ Succeeds(Head(reading.left)) /\ held' = held
  BY DEF Statement, Idle, owned
<1>2. stored \in Stores /\ DOMAIN reading = {"is", "asked", "limit", "got", "told", "left"}
  BY <1>1 DEF CacheInv, ReadingOK
<1>3. ASSUME Head(reading.left) = "rows", reading.is \in {"resources", "bootstrap"}
      PROVE  MeasuredAll(Ordered)
  BY <1>1, <1>2, <1>3, StatementsLeft, StatementsMean, OrderedMeasured
<1>4. CASE reading.is = "bootstrap" /\ Head(reading.left) = "rows" /\ reading.got = <<>>
  <2>1. reading' = FollowRoot
    BY <1>4 DEF Statement
  <2>2. reading'.got = Ordered
    BY <1>2, <2>1, RootFollowed
  <2> QED BY <1>1, <1>3, <1>4, <2>2 DEF HeldInv, GotMeasured
<1>5. CASE ~(reading.is = "bootstrap" /\ Head(reading.left) = "rows" /\ reading.got = <<>>)
  <2> DEFINE r == [reading EXCEPT !.left = Tail(@), !.got = Resources(Head(reading.left)),
                                  !.told = Told(Head(reading.left))]
  <2>1. reading' = r
    BY <1>5 DEF Statement
  <2>2. r.is = reading.is /\ r.got = Resources(Head(reading.left))
    BY <1>2, FieldsKept
  <2> HIDE DEF r
  <2>3. ASSUME reading.is \in {"resources", "bootstrap"} PROVE MeasuredAll(r.got)
    <3>1. MeasuredAll(reading.got)
      BY <1>1, <2>3 DEF HeldInv, GotMeasured
    <3>2. Head(reading.left) \in {"layout", "totals", "rows", "extensions"}
      BY <1>1, <2>3, StatementsLeft
    <3>3. CASE Head(reading.left) = "rows"
      BY <1>3, <2>2, <2>3, <3>1, <3>3, StatementsMean, MeasuredJoined
    <3> QED BY <2>2, <3>1, <3>2, <3>3, StatementsMean
  <2> QED BY <1>1, <2>1, <2>2, <2>3 DEF HeldInv, GotMeasured
<1> QED BY <1>4, <1>5

(* Every step keeps it.                                                     *)
LEMMA HeldKept == ASSUME CacheInv, HeldInv, CacheNext PROVE HeldInv'
<1>1. ASSUME reading' = Nothing \/ reading' = reading, held' = held PROVE HeldInv'
  BY <1>1 DEF HeldInv, GotMeasured
<1>2. ASSUME NEW is, NEW names, Begin(is, names) PROVE HeldInv'
  <2>1. reading'.got = <<>> /\ held' = held
    BY <1>2 DEF Begin, owned
  <2>2. MeasuredAll(<<>>)
    BY NothingSized DEF MeasuredAll
  <2> QED BY <2>1, <2>2 DEF HeldInv, GotMeasured
<1>3. ASSUME NEW list, AskResources(list) PROVE HeldInv'
  BY <1>1, <1>2, <1>3 DEF AskResources, reads, owned
<1>4. ASSUME NEW operation, Ask(operation) PROVE HeldInv'
  BY <1>2, <1>4 DEF Ask
<1>5. CASE Commit
  <2>1. reading # Nothing /\ reading' = Nothing
    BY <1>5 DEF Commit, Idle
  <2>2. held' = IF reading.is \in {"resources", "bootstrap"} THEN held \cup ToSet(reading.got) ELSE held
    BY <1>5 DEF Commit
  <2>3. reading.is \in {"resources", "bootstrap"} => \A r \in ToSet(reading.got) : Measured(r)
    BY <2>1 DEF HeldInv, GotMeasured, MeasuredAll, ToSet
  <2>4. \A r \in held' : Measured(r)
    BY <2>2, <2>3 DEF HeldInv
  <2> QED BY <2>1, <2>4 DEF HeldInv, GotMeasured
<1>6. CASE ReadFails
  BY <1>1, <1>6 DEF ReadFails, owned
<1>7. CASE Change
  BY <1>1, <1>7 DEF Change, owned
<1>8. ASSUME NEW resource, Admit(resource) PROVE HeldInv'
  BY <1>1, <1>8 DEF Admit, reads
<1>9. CASE Resolve \/ ResolveRuntime \/ Finalize
  BY <1>1, <1>9 DEF Resolve, ResolveRuntime, Finalize, reads, owned
<1> QED BY <1>3, <1>4, <1>5, <1>6, <1>7, <1>8, <1>9, StatementMeasured DEF CacheNext

-----------------------------------------------------------------------------
(* What the cache holds of the resources it admitted: each under its name,  *)
(* in the order in which they came, and the sums of their sizes.            *)
DecodedOf(s) == SumFunction([i \in DOMAIN s |-> DecodedSize(s[i])])

Readable1(r) == r.name \in Opaque \/ (~r.broken /\ r.decoded <= ResourceLimit)

AdmittedOK(s) ==
  /\ MeasuredAll(s) /\ \A i \in DOMAIN s : Readable1(s[i])
  /\ \A i, k \in DOMAIN s : s[i].name = s[k].name => i = k

NamesIn(s) == {s[i].name : i \in DOMAIN s}

Mirrors(kept, s) ==
  /\ DOMAIN kept.names = NamesIn(s) /\ \A i \in DOMAIN s : kept.names[s[i].name] = i
  /\ kept.guids = NamesIn(s) \cap Guids
  /\ kept.facts = [i \in DOMAIN s |-> Parsed(s[i])]
  /\ kept.compressed = SizeOf(s) /\ kept.decoded = DecodedOf(s)

Affords(kept, s) ==
  Len(s) <= CountLimit /\ kept.compressed <= ByteLimit /\ kept.decoded <= TotalLimit

AdmitInv == AdmittedOK(admitted) /\ Mirrors(cache, admitted) /\ Affords(cache, admitted)

LEMMA LimitsNumbered ==
  CountLimit \in Nat /\ ByteLimit \in Nat /\ ResourceLimit \in Nat /\ TotalLimit \in Nat
BY CacheAssumption

LEMMA AppendFacts ==
  ASSUME NEW s, IsSequence(s), NEW r
  PROVE  LET t == Append(s, r)
             n == Len(s)
         IN /\ n \in Nat /\ DOMAIN s = 1..n /\ IsSequence(t) /\ Len(t) = n + 1 /\ DOMAIN t = 1..n + 1
            /\ t[n + 1] = r /\ \A i \in 1..n : t[i] = s[i]
            /\ t = [i \in 1..n + 1 |-> t[i]]
<1> DEFINE t == Append(s, r)
           n == Len(s)
<1>1. PICK S : s \in Seq(S)
  BY DEF IsSequence
<1> DEFINE U == S \cup {r}
<1>2. s \in Seq(U) /\ r \in U
  BY <1>1, SeqMonotonic
<1> HIDE DEF U
<1>3. n \in Nat /\ DOMAIN s = 1..n
  BY <1>2, LenProperties
<1>4. t \in Seq(U) /\ Len(t) = n + 1 /\ (\A i \in 1..n : t[i] = s[i]) /\ t[n + 1] = r
  BY <1>2, AppendProperties
<1> HIDE DEF t
<1>5. DOMAIN t = 1..n + 1 /\ t = [i \in 1..n + 1 |-> t[i]]
  BY <1>3, <1>4, LenProperties
<1> QED BY <1>3, <1>4, <1>5 DEF IsSequence, t

LEMMA DecodedOfNone == DecodedOf(<<>>) = 0
<1>1. DOMAIN [i \in DOMAIN <<>> |-> DecodedSize(<<>>[i])] = {}
  OBVIOUS
<1> QED BY <1>1, SumEmpty DEF DecodedOf, SumFunction

LEMMA DecodedOfMore ==
  ASSUME NEW s, MeasuredAll(s), NEW r, Measured(r)
  PROVE  DecodedOf(Append(s, r)) = DecodedSize(r) + DecodedOf(s)
<1> DEFINE t == Append(s, r)
           n == Len(s)
           f == [i \in DOMAIN s |-> DecodedSize(s[i])]
           g == [i \in DOMAIN t |-> DecodedSize(t[i])]
<1>1. /\ n \in Nat /\ DOMAIN s = 1..n /\ DOMAIN t = 1..n + 1 /\ t[n + 1] = r
      /\ \A i \in 1..n : t[i] = s[i]
  BY AppendFacts DEF MeasuredAll
<1>2. DecodedSize(r) \in Nat /\ \A i \in 1..n : DecodedSize(s[i]) \in Nat
  BY <1>1 DEF MeasuredAll, Measured
<1>3. /\ DOMAIN f = 1..n /\ DOMAIN g = 1..n + 1 /\ g[n + 1] = DecodedSize(r) /\ g[n + 1] \in Int
      /\ \A i \in 1..n : f[i] \in Int /\ g[i] = f[i]
  BY <1>1, <1>2
<1>4. DecodedOf(t) = SumFunction(g) /\ DecodedOf(s) = SumFunction(f)
  BY DEF DecodedOf
<1> HIDE DEF t, n, f, g
<1>5. SumFunction(g) = g[n + 1] + SumFunction(f)
  BY <1>1, <1>3, SumOneMore
<1> QED BY <1>3, <1>4, <1>5 DEF t

(* A resource is admitted whole.                                            *)
LEMMA AdmittedMore ==
  ASSUME AdmitInv, NEW r, Measured(r), Accepts(cache, r),
         NEW kept, kept = With(cache, r), NEW s, s = Append(admitted, r)
  PROVE  AdmittedOK(s) /\ Mirrors(kept, s) /\ Affords(kept, s)
<1> DEFINE n == Len(admitted)
<1>1. /\ n \in Nat /\ DOMAIN admitted = 1..n /\ IsSequence(s) /\ Len(s) = n + 1 /\ DOMAIN s = 1..n + 1
      /\ s[n + 1] = r /\ \A i \in 1..n : s[i] = admitted[i]
  BY AppendFacts DEF AdmitInv, AdmittedOK, MeasuredAll
<1> HIDE DEF n
<1>2. NamesIn(s) = NamesIn(admitted) \cup {r.name}
  <2>1. \A i \in 1..n + 1 : i \in 1..n \/ i = n + 1
    BY <1>1
  <2>2. n + 1 \in 1..n + 1 /\ \A i \in 1..n : i \in 1..n + 1
    BY <1>1
  <2> QED BY <1>1, <2>1, <2>2 DEF NamesIn
<1>3. r.name \notin NamesIn(admitted)
  BY DEF Accepts, AdmitInv, Mirrors
<1>4. \A i \in 1..n : s[i].name # r.name
  BY <1>1, <1>3 DEF NamesIn
<1>5. Cardinality(DOMAIN cache.names) = n
  <2>1. Cardinality(NamesIn(admitted)) = n
    BY NamesCounted DEF AdmitInv, AdmittedOK, MeasuredAll, NamesIn, n
  <2> QED BY <2>1 DEF AdmitInv, Mirrors
<1>6. n + 1 <= CountLimit /\ cache.compressed + Size(r) <= ByteLimit
  BY <1>5 DEF Accepts, TotalsFit, WholeLimit
<1>7. SizeOf(admitted) \in Nat /\ SizeOf(s) = Size(r) + SizeOf(admitted)
  <2>1. \A i \in DOMAIN admitted : Size(admitted[i]) \in Nat
    BY DEF AdmitInv, AdmittedOK, MeasuredAll, Measured
  <2>2. SizeOf(admitted) \in Nat
    <3> DEFINE f == [i \in DOMAIN admitted |-> Size(admitted[i])]
    <3>1. IsFiniteSet(DOMAIN f) /\ \A i \in DOMAIN f : f[i] \in Nat
      BY <1>1, <2>1, FS_Interval
    <3>2. SizeOf(admitted) = SumFunction(f)
      BY DEF SizeOf
    <3> HIDE DEF f
    <3> QED BY <3>1, <3>2, SumNat DEF SumFunction
  <2> QED BY <2>1, <2>2, SizeOfMore DEF AdmitInv, AdmittedOK, MeasuredAll, Measured
<1>8. DecodedOf(s) = DecodedSize(r) + DecodedOf(admitted) /\ DecodedOf(admitted) \in Nat
  <2>1. DecodedOf(s) = DecodedSize(r) + DecodedOf(admitted)
    BY DecodedOfMore DEF AdmitInv, AdmittedOK
  <2>2. DecodedOf(admitted) \in Nat
    <3> DEFINE f == [i \in DOMAIN admitted |-> DecodedSize(admitted[i])]
    <3>1. IsFiniteSet(DOMAIN f) /\ \A i \in DOMAIN f : f[i] \in Nat
      BY <1>1, FS_Interval DEF AdmitInv, AdmittedOK, MeasuredAll, Measured
    <3>2. DecodedOf(admitted) = SumFunction(f)
      BY DEF DecodedOf
    <3> HIDE DEF f
    <3> QED BY <3>1, <3>2, SumNat DEF SumFunction
  <2> QED BY <2>1, <2>2
<1>9. r.name \notin Opaque => ~r.broken /\ r.decoded <= ResourceLimit
                              /\ r.decoded <= TotalLimit - cache.decoded
  <2> SUFFICES ASSUME r.name \notin Opaque
               PROVE  ~r.broken /\ r.decoded <= ResourceLimit /\ r.decoded <= TotalLimit - cache.decoded
    OBVIOUS
  <2> DEFINE S == {ResourceLimit, TotalLimit - cache.decoded}
  <2>1. ~r.broken /\ r.decoded <= Min(S)
    BY DEF Accepts, Parses
  <2>2. r.decoded \in Nat
    BY DEF Measured, DecodedSize
  <2>3. ResourceLimit \in Int /\ TotalLimit - cache.decoded \in Int
    BY <1>8, LimitsNumbered DEF AdmitInv, Mirrors
  <2>4. \E x \in S : \A y \in S : x <= y
    BY <2>3
  <2>5. Min(S) \in S /\ \A y \in S : Min(S) <= y
    BY <2>4 DEF Min
  <2> QED BY <2>1, <2>2, <2>3, <2>5
<1>10. AdmittedOK(s)
  <2>1. MeasuredAll(s)
    BY <1>1 DEF MeasuredAll, AdmitInv, AdmittedOK
  <2>2. \A i \in DOMAIN s : Readable1(s[i])
    BY <1>1, <1>9 DEF Readable1, AdmitInv, AdmittedOK
  <2>3. \A i, k \in DOMAIN s : s[i].name = s[k].name => i = k
    BY <1>1, <1>4 DEF AdmitInv, AdmittedOK
  <2> QED BY <2>1, <2>2, <2>3 DEF AdmittedOK
<1> DEFINE names == [m \in DOMAIN cache.names \cup {r.name} |->
                       IF m = r.name THEN Len(cache.facts) + 1 ELSE cache.names[m]]
<1>11. /\ kept.names = names /\ kept.guids = cache.guids \cup ({r.name} \cap Guids)
       /\ kept.facts = Append(cache.facts, Parsed(r))
       /\ kept.compressed = cache.compressed + Size(r) /\ kept.decoded = cache.decoded + DecodedSize(r)
  BY DEF With
<1>12. /\ IsSequence(cache.facts) /\ Len(cache.facts) = n
       /\ \A i \in 1..n : cache.facts[i] = Parsed(admitted[i])
  <2> DEFINE f == [i \in 1..n |-> Parsed(admitted[i])]
  <2>1. cache.facts = f
    BY <1>1 DEF AdmitInv, Mirrors
  <2>2. IsSequence(f) /\ Len(f) = n
    BY <1>1, NumberedSequence
  <2> QED BY <2>1, <2>2
<1>13. DOMAIN kept.names = NamesIn(s) /\ \A i \in DOMAIN s : kept.names[s[i].name] = i
  <2>1. DOMAIN names = NamesIn(s)
    BY <1>2 DEF AdmitInv, Mirrors
  <2>2. names[r.name] = n + 1
    BY <1>12
  <2>3. \A i \in 1..n : names[admitted[i].name] = i
    <3> SUFFICES ASSUME NEW i \in 1..n PROVE names[admitted[i].name] = i
      OBVIOUS
    <3>1. admitted[i].name \in DOMAIN cache.names /\ cache.names[admitted[i].name] = i
      BY <1>1 DEF AdmitInv, Mirrors, NamesIn
    <3>2. admitted[i].name # r.name
      BY <1>1, <1>4
    <3> QED BY <3>1, <3>2
  <2> HIDE DEF names
  <2>4. \A i \in DOMAIN s : names[s[i].name] = i
    <3> SUFFICES ASSUME NEW i \in 1..n + 1 PROVE names[s[i].name] = i
      BY <1>1
    <3>1. CASE i = n + 1
      BY <1>1, <2>2, <3>1
    <3>2. CASE i \in 1..n
      BY <1>1, <2>3, <3>2
    <3> QED BY <1>1, <3>1, <3>2
  <2> QED BY <1>11, <2>1, <2>4
<1>14. kept.facts = [i \in DOMAIN s |-> Parsed(s[i])]
  <2> DEFINE t == Append(cache.facts, Parsed(r))
  <2>1. /\ t = [i \in 1..n + 1 |-> t[i]] /\ t[n + 1] = Parsed(r)
        /\ \A i \in 1..n : t[i] = Parsed(admitted[i])
    BY <1>12, AppendFacts
  <2> HIDE DEF t
  <2>2. \A i \in 1..n + 1 : t[i] = Parsed(s[i])
    <3> SUFFICES ASSUME NEW i \in 1..n + 1 PROVE t[i] = Parsed(s[i])
      OBVIOUS
    <3>1. i = n + 1 \/ i \in 1..n
      BY <1>1
    <3> QED BY <1>1, <2>1, <3>1
  <2> QED BY <1>1, <1>11, <2>1, <2>2 DEF t
<1>15. Mirrors(kept, s)
  <2>1. kept.guids = NamesIn(s) \cap Guids
    BY <1>2, <1>11 DEF AdmitInv, Mirrors
  <2>2. kept.compressed = SizeOf(s) /\ kept.decoded = DecodedOf(s)
    BY <1>7, <1>8, <1>11 DEF AdmitInv, Mirrors, Measured
  <2> QED BY <1>13, <1>14, <2>1, <2>2 DEF Mirrors
<1>16. kept.decoded <= TotalLimit
  <2>1. cache.decoded \in Nat /\ cache.decoded <= TotalLimit /\ DecodedSize(r) \in Nat
    BY <1>8 DEF AdmitInv, Mirrors, Affords, Measured
  <2>2. CASE r.name \in Opaque
    BY <1>11, <2>1, <2>2 DEF DecodedSize
  <2>3. CASE r.name \notin Opaque
    BY <1>9, <1>11, <2>1, <2>3, LimitsNumbered DEF DecodedSize
  <2> QED BY <2>2, <2>3
<1> QED BY <1>1, <1>6, <1>10, <1>11, <1>15, <1>16 DEF Affords

LEMMA AdmitStarts == ASSUME cache = Empty, admitted = <<>> PROVE AdmitInv
<1>1. DOMAIN admitted = {} /\ Len(admitted) = 0 /\ IsSequence(admitted)
  BY NothingSized
<1>2. /\ cache.names = [n \in {} |-> 0] /\ cache.guids = {} /\ cache.facts = <<>>
      /\ cache.compressed = 0 /\ cache.decoded = 0
  BY DEF Empty
<1>3. NamesIn(admitted) = {}
  BY <1>1 DEF NamesIn
<1>4. cache.facts = [i \in DOMAIN admitted |-> Parsed(admitted[i])]
  BY <1>1, <1>2
<1>5. Mirrors(cache, admitted)
  BY <1>1, <1>2, <1>3, <1>4, SizeOfNone, DecodedOfNone DEF Mirrors
<1>6. Affords(cache, admitted)
  BY <1>1, <1>2, LimitsNumbered DEF Affords
<1>7. AdmittedOK(admitted)
  BY <1>1 DEF AdmittedOK, MeasuredAll
<1> QED BY <1>5, <1>6, <1>7 DEF AdmitInv

LEMMA AdmitKept == ASSUME HeldInv, AdmitInv, CacheNext PROVE AdmitInv'
<1>1. ASSUME cache' = cache, admitted' = admitted PROVE AdmitInv'
  BY <1>1 DEF AdmitInv, Mirrors, Affords
<1>2. ASSUME NEW r \in held, Admit(r) PROVE AdmitInv'
  <2>1. CASE Accepts(cache, r)
    <3>1. cache' = With(cache, r) /\ admitted' = Append(admitted, r)
      BY <1>2, <2>1 DEF Admit
    <3>2. AdmittedOK(admitted') /\ Mirrors(cache', admitted') /\ Affords(cache', admitted')
      BY <2>1, <3>1, AdmittedMore DEF HeldInv
    <3> QED BY <3>2 DEF AdmitInv
  <2>2. CASE ~Accepts(cache, r)
    BY <1>1, <1>2, <2>2 DEF Admit, Without
  <2> QED BY <2>1, <2>2
<1>3. ASSUME ~\E r \in held : Admit(r) PROVE cache' = cache /\ admitted' = admitted
  BY <1>3 DEF CacheNext, AskResources, Ask, Begin, Statement, ReadFails, Commit, Change,
              Resolve, ResolveRuntime, Finalize, owned
<1> QED BY <1>1, <1>2, <1>3

-----------------------------------------------------------------------------
(* Resolved from nothing, in any order, the admitted resources fit their    *)
(* limits: what is decoded before one of them and of itself is no more than *)
(* what is decoded of all.                                                  *)
LEMMA AllParsed ==
  ASSUME NEW s, MeasuredAll(s), \A i \in DOMAIN s : Readable1(s[i]), DecodedOf(s) <= TotalLimit
  PROVE  AllParse(s)
<1> DEFINE f == [i \in DOMAIN s |-> DecodedSize(s[i])]
<1>1. Len(s) \in Nat /\ DOMAIN s = 1..Len(s) /\ IsFiniteSet(DOMAIN s)
  BY SequenceFacts DEF MeasuredAll
<1>2. \A i \in DOMAIN s : f[i] \in Nat
  BY DEF MeasuredAll, Measured
<1>3. DecodedOf(s) = SumFunctionOnSet(f, DOMAIN s)
  BY DEF DecodedOf, SumFunction
<1>4. ASSUME NEW i \in DOMAIN s
      PROVE  DecodedBefore(s, i) \in Nat /\ DecodedBefore(s, i) + DecodedSize(s[i]) <= DecodedOf(s)
  <2> DEFINE g == [k \in 1..i - 1 |-> DecodedSize(s[k])]
  <2>1. DecodedBefore(s, i) = SumFunctionOnSet(g, 1..i - 1)
    BY DEF DecodedBefore, SumFunction
  <2>2. i \in 1..Len(s) /\ 1..i - 1 \subseteq DOMAIN s /\ i \notin 1..i - 1
    BY <1>1
  <2>3. IsFiniteSet(1..i - 1)
    BY <1>1, <2>2, FS_Subset
  <2>4. SumFunctionOnSet(g, 1..i - 1) = SumFunctionOnSet(f, 1..i - 1)
    <3>1. \A k \in 1..i - 1 : g[k] = f[k]
      BY <2>2
    <3> HIDE DEF f, g
    <3> QED BY <2>3, <3>1, SumSame
  <2> HIDE DEF f, g
  <2>5. SumFunctionOnSet(f, 1..i - 1) \in Nat
    BY <1>2, <2>2, <2>3, SumNat
  <2>6. SumFunctionOnSet(f, (1..i - 1) \cup {i}) = f[i] + SumFunctionOnSet(f, 1..i - 1)
    <3>1. f[i] \in Int /\ \A k \in 1..i - 1 : f[k] \in Int
      BY <1>2, <2>2
    <3> QED BY <2>2, <2>3, <3>1, SumAdd
  <2>7. (1..i - 1) \cup {i} \in SUBSET DOMAIN s
    BY <2>2
  <2>8. SumFunctionOnSet(f, (1..i - 1) \cup {i}) <= SumFunctionOnSet(f, DOMAIN s)
    BY <1>1, <1>2, <2>7, SumMonotone
  <2>9. f[i] = DecodedSize(s[i]) /\ f[i] \in Nat
    BY <1>2 DEF f
  <2> QED BY <1>3, <2>1, <2>4, <2>5, <2>6, <2>8, <2>9
<1> HIDE DEF f
<1>5. DecodedOf(s) \in Nat
  BY <1>1, <1>2, <1>3, SumNat
<1>6. ASSUME NEW i \in DOMAIN s
      PROVE  Parses(s[i], Min({ResourceLimit, TotalLimit - DecodedBefore(s, i)}))
  <2> DEFINE S == {ResourceLimit, TotalLimit - DecodedBefore(s, i)}
             b == DecodedBefore(s, i)
             d == DecodedSize(s[i])
  <2>1. b \in Nat /\ d \in Nat /\ b + d <= TotalLimit
    BY <1>4, <1>5, LimitsNumbered DEF MeasuredAll, Measured
  <2>2. CASE s[i].name \in Opaque
    BY <2>2 DEF Parses
  <2>3. CASE s[i].name \notin Opaque
    <3>1. d = s[i].decoded /\ ~s[i].broken /\ d <= ResourceLimit
      BY <2>3 DEF DecodedSize, Readable1
    <3> HIDE DEF b, d
    <3>2. ResourceLimit \in Int /\ TotalLimit - b \in Int
      BY <2>1, LimitsNumbered
    <3>3. \A y \in {ResourceLimit, TotalLimit - b} : d <= y
      BY <2>1, <3>1, LimitsNumbered
    <3>4. \E x \in {ResourceLimit, TotalLimit - b} : \A y \in {ResourceLimit, TotalLimit - b} : x <= y
      BY <3>2
    <3>5. Min({ResourceLimit, TotalLimit - b}) \in {ResourceLimit, TotalLimit - b}
      BY <3>4 DEF Min
    <3>6. s[i].decoded <= Min({ResourceLimit, TotalLimit - b})
      BY <3>1, <3>3, <3>5
    <3> QED BY <3>1, <3>6 DEF Parses, b
  <2> QED BY <2>2, <2>3
<1> QED BY <1>6 DEF AllParse

(* The order does not matter.                                               *)
LEMMA Reversed ==
  ASSUME NEW s, MeasuredAll(s), \A i \in DOMAIN s : Readable1(s[i])
  PROVE  LET t == Reverse(s) IN
         /\ MeasuredAll(t) /\ \A i \in DOMAIN t : Readable1(t[i])
         /\ DecodedOf(t) = DecodedOf(s) /\ NamesIn(t) = NamesIn(s)
         /\ UNION {Parsed(t[i]) : i \in DOMAIN t} = UNION {Parsed(s[i]) : i \in DOMAIN s}
<1> DEFINE t == Reverse(s)
           n == Len(s)
           D == 1..n
           h == [i \in D |-> n - i + 1]
           f == [i \in D |-> DecodedSize(s[i])]
           g == [i \in D |-> DecodedSize(t[i])]
<1>1. n \in Nat /\ DOMAIN s = D /\ IsFiniteSet(D)
  BY SequenceFacts DEF MeasuredAll
<1>2. t = [i \in D |-> s[n - i + 1]]
  BY DEF Reverse
<1> HIDE DEF n, t
<1>3. \A i \in D : h[i] \in D /\ h[h[i]] = i /\ t[i] = s[h[i]] /\ t[h[i]] = s[i]
  <2> SUFFICES ASSUME NEW i \in D PROVE h[i] \in D /\ h[h[i]] = i /\ t[i] = s[h[i]] /\ t[h[i]] = s[i]
    OBVIOUS
  <2>1. n - i + 1 \in D /\ n - (n - i + 1) + 1 = i
    BY <1>1
  <2> QED BY <1>2, <2>1
<1>4. IsSequence(t) /\ DOMAIN t = D
  BY <1>1, <1>2, NumberedSequence
<1> HIDE DEF h
<1>5. \A i \in D : Measured(t[i]) /\ Readable1(t[i])
  BY <1>1, <1>3 DEF MeasuredAll
<1>6. \A i \in D : f[i] \in Int /\ g[h[i]] = f[i]
  BY <1>1, <1>3 DEF MeasuredAll, Measured
<1>7. DecodedOf(t) = SumFunctionOnSet(g, D) /\ DecodedOf(s) = SumFunctionOnSet(f, D)
  BY <1>1, <1>4 DEF DecodedOf, SumFunction
<1>8. (\A i, k \in D : h[i] = h[k] => i = k) /\ (\A i \in D : h[i] \in D) /\ \A k \in D : \E i \in D : h[i] = k
  BY <1>3
<1>9. NamesIn(t) = NamesIn(s)
  BY <1>1, <1>3, <1>4 DEF NamesIn
<1>10. {Parsed(t[i]) : i \in D} = {Parsed(s[i]) : i \in D}
  BY <1>3
<1> HIDE DEF D, f, g
<1>11. SumFunctionOnSet(g, D) = SumFunctionOnSet(f, D)
  BY <1>1, <1>6, <1>8, SumOverImage
<1>12. MeasuredAll(t)
  BY <1>4, <1>5 DEF MeasuredAll
<1> QED BY <1>1, <1>4, <1>5, <1>7, <1>9, <1>10, <1>11, <1>12 DEF t

LEMMA InvariantAgrees == ASSUME AdmitInv PROVE CacheAgrees
<1> DEFINE s == admitted
<1>1. MeasuredAll(s) /\ (\A i \in DOMAIN s : Readable1(s[i])) /\ DecodedOf(s) <= TotalLimit
  BY DEF AdmitInv, AdmittedOK, Mirrors, Affords
<1>2. cache.guids = NamesIn(s) \cap Guids
  BY DEF AdmitInv, Mirrors
<1>3. UNION {cache.facts[i] : i \in DOMAIN cache.facts} = UNION {Parsed(s[i]) : i \in DOMAIN s}
  BY DEF AdmitInv, Mirrors
<1>4. AllParse(s) /\ AllParse(Reverse(s))
  BY <1>1, AllParsed, Reversed
<1>5. ASSUME NEW separators
      PROVE  /\ ResolvedCache(cache, separators) = ResolveResources(s, separators)
             /\ ResolvedCache(cache, separators) = ResolveResources(Reverse(s), separators)
  <2> DEFINE known == UNION {cache.facts[i] : i \in DOMAIN cache.facts}
             t == Reverse(s)
  <2>1. ResolvedCache(cache, separators) = Validated(separators, known, cache.guids)
    BY DEF ResolvedCache
  <2>2. ResolveResources(s, separators)
          = Validated(separators, UNION {Parsed(s[i]) : i \in DOMAIN s}, NamesIn(s) \cap Guids)
    BY <1>4 DEF ResolveResources, NamesIn
  <2>3. ResolveResources(t, separators)
          = Validated(separators, UNION {Parsed(t[i]) : i \in DOMAIN t}, NamesIn(t) \cap Guids)
    BY <1>4 DEF ResolveResources, NamesIn
  <2>4. NamesIn(t) = NamesIn(s) /\ UNION {Parsed(t[i]) : i \in DOMAIN t} = UNION {Parsed(s[i]) : i \in DOMAIN s}
    BY <1>1, Reversed
  <2> HIDE DEF t, known
  <2>5. ResolveResources(t, separators) = ResolvedCache(cache, separators)
    BY <1>2, <1>3, <2>1, <2>3, <2>4 DEF known
  <2> QED BY <1>2, <1>3, <2>1, <2>2, <2>5 DEF known, t
<1>6. \A i \in DOMAIN s : cache.facts[cache.names[s[i].name]] = Parsed(s[i])
  BY DEF AdmitInv, Mirrors
<1>7. Len(cache.facts) <= CountLimit
  <2> DEFINE n == Len(s)
             f == [i \in 1..n |-> Parsed(s[i])]
  <2>1. n \in Nat /\ DOMAIN s = 1..n
    BY <1>1, SequenceFacts DEF MeasuredAll
  <2>2. cache.facts = f
    BY <2>1 DEF AdmitInv, Mirrors
  <2>3. Len(f) = n
    BY <2>1, NumberedSequence
  <2> QED BY <2>2, <2>3 DEF AdmitInv, Affords
<1> QED BY <1>5, <1>6, <1>7 DEF CacheAgrees, AdmitInv, Mirrors, Affords, NamesIn

-----------------------------------------------------------------------------
(* The readers of the extension store.  What the acquisition grouped is     *)
(* what it read; without an update, all was read of one base.               *)
MomentInv ==
  /\ updates \in Nat /\ installed \in Infobases /\ rowsOf \in Infobases
  /\ updates = 0 => /\ rowsOf = installed /\ catalogOf = installed
                    /\ keys # Unread => keys = installed.kept

GroupInv ==
  grouped # Unread =>
    keys # Unread /\ catalogOf \in Infobases /\ grouped = Group(catalogOf.rows, keys)

(* The index is of the rows before those it has left; of a base in which    *)
(* nothing is missing, without an update, it is all they name, in order.    *)
ListsOf(row) == Content[row.root].lists
WholeBase(b) == \A i \in DOMAIN b.rows : Present(b.rows[i], b.kept)
StillWhole == updates = 0 /\ WholeBase(rowsOf)

IndexedUpTo(n) ==
  LET all == rowsOf.rows IN
  /\ n \in 0 .. Len(all)
  /\ IsSequence(pending) /\ Len(pending) = Len(all) - n
  /\ \A i \in 1 .. Len(all) - n : pending[i] = all[n + i]
  /\ IsSequence(index) /\ \A i \in DOMAIN index : index[i] \in Named(all)
  /\ StillWhole =>
       /\ index = FlattenSeq([i \in 1 .. n |-> ListsOf(all[i])])
       /\ \A i \in 1 .. n : NamesOf(ListsOf(all[i])) \subseteq NamesOf(index)

IndexInv ==
  pending # Unread =>
    \/ pending = <<>> /\ index = Unusable /\ ~StillWhole
    \/ \E n \in Nat : IndexedUpTo(n)

(* The rights of a role are those its name has in the rows.                 *)
RightsOK(r) ==
  /\ pending = <<>>
  /\ rights[r] \in DOMAIN Content =>
       [name |-> RightsName[r], key |-> rights[r]] \in Named(rowsOf.rows)
  /\ StillWhole /\ rights[r] = NotFound =>
       \A i \in DOMAIN rowsOf.rows : RightsName[r] \notin NamesOf(ListsOf(rowsOf.rows[i]))

RightsInv ==
  /\ DOMAIN rights = Roles
  /\ \A r \in Roles : rights[r] # "" => RightsOK(r)

ExtensionsInv == MomentInv /\ GroupInv /\ IndexInv /\ RightsInv

LEMMA OneLess ==
  ASSUME NEW a \in Nat, NEW n \in Nat, NEW p, NEW q, p = a - n, q = p - 1
  PROVE  q = a - (n + 1)
OBVIOUS

LEMMA NoneLeft == ASSUME NEW a \in Nat, NEW n \in 0..a, NEW p, p = a - n, p = 0 PROVE n = a
OBVIOUS

(* What a root lists: names and keys.                                       *)
LEMMA RootLists ==
  ASSUME NEW k \in DOMAIN Content, Content[k].is = "root"
  PROVE  LET s == Content[k].lists IN
         /\ Len(s) \in Nat /\ DOMAIN s = 1..Len(s) /\ IsSequence(s)
         /\ \A i \in DOMAIN s : s[i] = [name |-> s[i].name, key |-> s[i].key]
                                /\ s[i].key \in DOMAIN Content
<1> DEFINE s == Content[k].lists
           Items == [name : STRING, key : DOMAIN Content]
<1>1. s \in Seq(Items)
  BY ExtensionsAssumption
<1> HIDE DEF s, Items
<1>2. Len(s) \in Nat /\ DOMAIN s = 1..Len(s) /\ IsSequence(s)
  BY <1>1, LenProperties DEF IsSequence
<1>3. ASSUME NEW i \in DOMAIN s PROVE s[i] \in Items
  BY <1>1, <1>2, ElementOfSeq
<1>4. \A x \in Items : x = [name |-> x.name, key |-> x.key] /\ x.key \in DOMAIN Content
  BY DEF Items
<1> QED BY <1>2, <1>3, <1>4 DEF s

LEMMA BaseRows ==
  ASSUME NEW b \in Infobases
  PROVE  /\ Len(b.rows) \in Nat /\ DOMAIN b.rows = 1..Len(b.rows) /\ IsSequence(b.rows)
         /\ b.kept \subseteq DOMAIN Content
<1>1. b.rows \in Seq([name : STRING, order : Int, root : STRING]) /\ b.kept \subseteq DOMAIN Content
  BY ExtensionsAssumption
<1> QED BY <1>1, LenProperties DEF IsSequence

LEMMA NamedItems ==
  ASSUME NEW all, NEW x \in Named(all)
  PROVE  /\ x = [name |-> x.name, key |-> x.key]
         /\ \E i \in DOMAIN all : /\ all[i].root \in DOMAIN Content /\ Content[all[i].root].is = "root"
                                  /\ \E m \in DOMAIN ListsOf(all[i]) : ListsOf(all[i])[m] = x
<1>1. PICK i \in DOMAIN all : /\ all[i].root \in DOMAIN Content /\ Is(all[i].root, "root")
                              /\ x \in ToSet(Content[all[i].root].lists)
  BY DEF Named
<1>2. Content[all[i].root].is = "root"
  BY <1>1 DEF Is
<1>3. PICK m \in DOMAIN ListsOf(all[i]) : ListsOf(all[i])[m] = x
  BY <1>1 DEF ToSet, ListsOf
<1>4. x = [name |-> x.name, key |-> x.key]
  BY <1>1, <1>2, <1>3, RootLists DEF ListsOf
<1> QED BY <1>1, <1>2, <1>3, <1>4

LEMMA ListedNamed ==
  ASSUME NEW all, NEW i \in DOMAIN all, all[i].root \in DOMAIN Content,
         Content[all[i].root].is = "root", NEW m \in DOMAIN ListsOf(all[i])
  PROVE  ListsOf(all[i])[m] \in Named(all)
BY DEF Named, ToSet, Is, ListsOf

(* The first resource of a name is one of that name.                        *)
LEMMA FirstFound ==
  ASSUME NEW s, IsSequence(s), NEW name \in NamesOf(s)
  PROVE  \E i \in DOMAIN s : FirstNamed(s, name) = s[i] /\ s[i].name = name
<1> DEFINE T == {i \in DOMAIN s : s[i].name = name}
<1>1. Len(s) \in Nat /\ DOMAIN s = 1..Len(s)
  BY SequenceFacts
<1>2. T \in SUBSET Nat /\ T # {}
  BY <1>1 DEF NamesOf
<1>3. PICK n \in T : \A m \in T : n <= m
  BY <1>2, Smallest
<1> DEFINE Is1(i) == s[i].name = name /\ \A k \in 1..(i - 1) : s[k].name # name
<1>4. n \in DOMAIN s /\ Is1(n)
  <2>1. ASSUME NEW k \in 1..(n - 1) PROVE s[k].name # name
    <3>1. k \in DOMAIN s /\ ~(n <= k)
      BY <1>1, <1>2
    <3> QED BY <1>3, <3>1
  <2> QED BY <2>1
<1>5. LET i == CHOOSE i \in DOMAIN s : Is1(i) IN i \in DOMAIN s /\ Is1(i)
  BY <1>4
<1> QED BY <1>5 DEF FirstNamed

-----------------------------------------------------------------------------
LEMMA ExtensionsStart == ASSUME ExtensionsInit PROVE ExtensionsInv
<1>1. MomentInv
  BY DEF ExtensionsInit, MomentInv
<1>2. GroupInv
  BY DEF ExtensionsInit, GroupInv
<1>3. IndexInv
  BY DEF ExtensionsInit, IndexInv
<1>4. RightsInv
  BY DEF ExtensionsInit, RightsInv
<1> QED BY <1>1, <1>2, <1>3, <1>4 DEF ExtensionsInv

(* Nothing about the index changes.                                         *)
LEMMA IndexRests ==
  ASSUME ExtensionsInv, pending' = pending, index' = index, rowsOf' = rowsOf, rights' = rights,
         updates' \in Nat, updates' = 0 => updates = 0
  PROVE  IndexInv' /\ RightsInv'
<1>1. StillWhole' => StillWhole
  BY DEF StillWhole, WholeBase
<1>2. \A n \in Nat : IndexedUpTo(n) => IndexedUpTo(n)'
  BY <1>1 DEF IndexedUpTo
<1>3. IndexInv'
  BY <1>1, <1>2 DEF ExtensionsInv, IndexInv
<1>4. \A r \in Roles : RightsOK(r) => RightsOK(r)'
  BY <1>1 DEF RightsOK
<1>5. RightsInv'
  BY <1>4 DEF ExtensionsInv, RightsInv
<1> QED BY <1>3, <1>5

LEMMA ReadRowsKept == ASSUME ExtensionsInv, ReadRows PROVE ExtensionsInv'
<1>1. /\ pending = Unread /\ pending' = installed.rows /\ index' = <<>> /\ rowsOf' = installed
      /\ UNCHANGED <<installed, updates, keys, grouped, catalogOf, rights>>
  BY DEF ReadRows, acquired
<1>2. MomentInv' /\ GroupInv'
  BY <1>1 DEF ExtensionsInv, MomentInv, GroupInv
<1>3. Unread # <<>>
  BY ExtensionsAssumption
<1>4. RightsInv'
  BY <1>1, <1>3 DEF ExtensionsInv, RightsInv, RightsOK
<1> DEFINE all == installed.rows
<1>5. Len(all) \in Nat /\ DOMAIN all = 1..Len(all) /\ IsSequence(all)
  BY BaseRows DEF ExtensionsInv, MomentInv
<1> HIDE DEF all
<1>6. IndexedUpTo(0)'
  <2>1. rowsOf'.rows = all /\ pending' = all
    BY <1>1 DEF all
  <2>2. 0 \in 0..Len(all) /\ Len(all) - 0 = Len(all) /\ \A i \in 1..Len(all) : 0 + i = i
    BY <1>5
  <2>3. IsSequence(<<>>) /\ DOMAIN <<>> = {}
    BY NothingSized
  <2> DEFINE none == [i \in 1..0 |-> ListsOf(all[i])]
  <2>4. FlattenSeq(none) = <<>>
    <3>1. none = <<>>
      OBVIOUS
    <3> QED BY <3>1, FlattenEmpty
  <2> HIDE DEF none
  <2>5. StillWhole' => /\ index' = FlattenSeq(none)
                       /\ \A i \in 1..0 : NamesOf(ListsOf(all[i])) \subseteq NamesOf(index')
    BY <1>1, <2>4
  <2> QED BY <1>1, <1>5, <2>1, <2>2, <2>3, <2>5 DEF IndexedUpTo, none, ListsOf
<1>7. IndexInv'
  BY <1>6 DEF IndexInv
<1> QED BY <1>2, <1>4, <1>7 DEF ExtensionsInv

(* The next root: passed over, read, or the end of the index.               *)
LEMMA RootKept ==
  ASSUME ExtensionsInv, ReadRoot
  PROVE  IndexInv'
<1>1. /\ pending # Unread /\ pending # <<>>
      /\ UNCHANGED <<installed, updates, keys, grouped, catalogOf, rowsOf, rights>>
  BY DEF ReadRoot, acquired
<1>2. PICK n \in Nat : IndexedUpTo(n)
  BY <1>1 DEF ExtensionsInv, IndexInv
<1> DEFINE all == rowsOf.rows
           row == all[n + 1]
           root == row.root
<1>3. Len(all) \in Nat /\ DOMAIN all = 1..Len(all)
  BY BaseRows DEF ExtensionsInv, MomentInv
<1>4. PICK S : pending \in Seq(S)
  BY <1>2 DEF IndexedUpTo, IsSequence
<1>5. /\ n \in 0..Len(all) /\ Len(pending) = Len(all) - n
      /\ \A i \in 1..Len(all) - n : pending[i] = all[n + i]
  BY <1>2 DEF IndexedUpTo
<1>6. /\ Len(pending) # 0 /\ Head(pending) = pending[1] /\ Tail(pending) \in Seq(S)
      /\ Len(Tail(pending)) = Len(pending) - 1
      /\ \A i \in 1..Len(Tail(pending)) : Tail(pending)[i] = pending[i + 1]
  BY <1>1, <1>4, EmptySeq, HeadTailProperties
<1> HIDE DEF all
<1>7. /\ n + 1 \in 1..Len(all) /\ n + 1 \in 0..Len(all) /\ Head(pending) = row
      /\ Len(Tail(pending)) = Len(all) - (n + 1)
      /\ \A i \in 1..Len(all) - (n + 1) : Tail(pending)[i] = all[n + 1 + i]
  <2>1. n + 1 \in 1..Len(all) /\ 1 \in 1..Len(all) - n /\ n + 1 \in 0..Len(all)
    BY <1>3, <1>5, <1>6
  <2>2. Head(pending) = row
    BY <1>5, <1>6, <2>1
  <2>3. Len(Tail(pending)) = Len(all) - (n + 1)
    <3> DEFINE a == Len(all)
               p == Len(pending)
               q == Len(Tail(pending))
    <3>1. a \in Nat /\ p = a - n /\ q = p - 1
      BY <1>3, <1>5, <1>6, Zenon
    <3> HIDE DEF a, p, q
    <3>2. q = a - (n + 1)
      BY <3>1, OneLess
    <3> QED BY <3>2 DEF a, q
  <2>4. ASSUME NEW i \in 1..Len(all) - (n + 1) PROVE Tail(pending)[i] = all[n + 1 + i]
    <3>1. i + 1 \in 1..Len(all) - n /\ n + (i + 1) = n + 1 + i
      BY <1>3
    <3> QED BY <1>5, <1>6, <2>3, <3>1
  <2> QED BY <2>1, <2>2, <2>3, <2>4
<1>8. IsSequence(Tail(pending))
  BY <1>6 DEF IsSequence
<1>9. /\ IsSequence(index) /\ \A i \in DOMAIN index : index[i] \in Named(all)
      /\ StillWhole =>
           /\ index = FlattenSeq([i \in 1 .. n |-> ListsOf(all[i])])
           /\ \A i \in 1 .. n : NamesOf(ListsOf(all[i])) \subseteq NamesOf(index)
  BY <1>2 DEF IndexedUpTo, all
<1>10. StillWhole => root \in installed.kept /\ Is(root, "root") /\ Content[root].lists # <<>>
  <2> SUFFICES ASSUME StillWhole PROVE Present(row, installed.kept)
    BY DEF Present
  <2>1. rowsOf = installed
    BY DEF StillWhole, ExtensionsInv, MomentInv
  <2> QED BY <1>3, <1>7, <2>1 DEF StillWhole, WholeBase, all
<1>11. StillWhole' = StillWhole
  BY <1>1 DEF StillWhole, WholeBase
<1>12. CASE root \notin installed.kept
  <2>1. pending' = Tail(pending) /\ index' = index /\ ~StillWhole
    BY <1>7, <1>10, <1>12 DEF ReadRoot
  <2>2. IndexedUpTo(n + 1)'
    BY <1>1, <1>7, <1>8, <1>9, <1>11, <2>1 DEF IndexedUpTo, all
  <2> QED BY <2>2 DEF IndexInv
<1>13. CASE root \in installed.kept /\ Is(root, "root") /\ Content[root].lists # <<>>
  <2> DEFINE more == ListsOf(row)
  <2>1. pending' = Tail(pending) /\ index' = index \o more
    BY <1>7, <1>13 DEF ReadRoot, ListsOf
  <2>2. root \in DOMAIN Content /\ Content[root].is = "root"
    <3>1. installed.kept \subseteq DOMAIN Content
      BY BaseRows DEF ExtensionsInv, MomentInv
    <3> QED BY <1>13, <3>1 DEF Is
  <2>3. IsSequence(more) /\ Len(more) \in Nat /\ DOMAIN more = 1..Len(more)
    BY <2>2, RootLists DEF ListsOf
  <2>4. \A m \in DOMAIN more : more[m] \in Named(all)
    BY <1>3, <1>7, <2>2, ListedNamed, Zenon
  <2> HIDE DEF more, row, root
  <2>5. Len(index) \in Nat /\ DOMAIN index = 1..Len(index)
    BY <1>9, SequenceFacts
  <2>6. PICK A : index \in Seq(A)
    BY <1>9 DEF IsSequence
  <2>7. PICK B : more \in Seq(B)
    BY <2>3 DEF IsSequence
  <2> DEFINE U == A \cup B
             c == index \o more
  <2>8. index \in Seq(U) /\ more \in Seq(U)
    BY <2>6, <2>7, SeqMonotonic
  <2>9. /\ c \in Seq(U) /\ Len(c) = Len(index) + Len(more)
        /\ \A i \in 1..Len(index) + Len(more) : c[i] = IF i <= Len(index) THEN index[i] ELSE more[i - Len(index)]
    BY <2>8, ConcatProperties
  <2> HIDE DEF c, U
  <2>10. DOMAIN c = 1..Len(index) + Len(more) /\ IsSequence(c)
    BY <2>9, LenProperties DEF IsSequence
  <2>11. ASSUME NEW i \in DOMAIN c PROVE c[i] \in Named(all)
    <3>1. CASE i <= Len(index)
      BY <1>9, <2>5, <2>9, <2>10, <3>1
    <3>2. CASE ~(i <= Len(index))
      <4>1. i - Len(index) \in DOMAIN more
        BY <2>3, <2>5, <2>10, <3>2
      <4> QED BY <2>4, <2>9, <2>10, <3>2, <4>1
    <3> QED BY <3>1, <3>2
  <2>12. NamesOf(index) \subseteq NamesOf(c) /\ NamesOf(more) \subseteq NamesOf(c)
    <3>1. ASSUME NEW i \in DOMAIN index PROVE index[i].name \in NamesOf(c)
      <4>1. i \in DOMAIN c /\ c[i] = index[i]
        BY <2>3, <2>5, <2>9, <2>10
      <4> QED BY <4>1 DEF NamesOf
    <3>2. ASSUME NEW i \in DOMAIN more PROVE more[i].name \in NamesOf(c)
      <4>1. Len(index) + i \in DOMAIN c /\ c[Len(index) + i] = more[i]
        <5>1. /\ Len(index) + i \in 1..Len(index) + Len(more) /\ ~(Len(index) + i <= Len(index))
              /\ Len(index) + i - Len(index) = i
          BY <2>3, <2>5
        <5> QED BY <2>9, <2>10, <5>1
      <4> QED BY <4>1 DEF NamesOf
    <3> QED BY <3>1, <3>2 DEF NamesOf
  <2>13. ASSUME StillWhole
         PROVE  /\ c = FlattenSeq([i \in 1 .. n + 1 |-> ListsOf(all[i])])
                /\ \A i \in 1 .. n + 1 : NamesOf(ListsOf(all[i])) \subseteq NamesOf(c)
    <3> DEFINE ss == [i \in 1 .. n + 1 |-> ListsOf(all[i])]
               tt == [i \in 1 .. n |-> ListsOf(all[i])]
    <3>1. Len(ss) = n + 1 /\ Len(tt) = n
      BY NumberedSequence
    <3>2. (\A i \in 1 .. n : tt[i] = ss[i]) /\ ss[n + 1] = more
      BY DEF more, row
    <3>3. index = FlattenSeq(tt)
      BY <1>9, <2>13
    <3> HIDE DEF ss, tt
    <3>4. FlattenSeq(ss) = IF n = 0 THEN ss[1] ELSE FlattenSeq(tt) \o ss[n + 1]
      BY <3>1, <3>2, FlattenMore
    <3>5. n = 0 => index = <<>>
      <4>1. n = 0 => tt = <<>>
        BY DEF tt
      <4> QED BY <3>3, <4>1, FlattenEmpty
    <3>6. <<>> \o more = more
      BY <2>3, Joined
    <3>7. c = FlattenSeq(ss)
      <4>1. CASE n = 0
        <5>1. n + 1 = 1 /\ FlattenSeq(ss) = ss[1]
          BY <3>4, <4>1
        <5>2. ss[1] = more
          BY <3>2, <5>1
        <5>3. c = <<>> \o more
          BY <3>5, <4>1 DEF c
        <5> QED BY <3>6, <5>1, <5>2, <5>3
      <4>2. CASE n # 0
        <5>1. FlattenSeq(ss) = FlattenSeq(tt) \o ss[n + 1]
          BY <3>4, <4>2
        <5> QED BY <3>2, <3>3, <5>1 DEF c
      <4> QED BY <4>1, <4>2
    <3>8. \A i \in 1 .. n + 1 : NamesOf(ListsOf(all[i])) \subseteq NamesOf(c)
      <4> SUFFICES ASSUME NEW i \in 1 .. n + 1 PROVE NamesOf(ListsOf(all[i])) \subseteq NamesOf(c)
        OBVIOUS
      <4>1. CASE i = n + 1
        BY <2>12, <4>1 DEF more, row
      <4>2. CASE i \in 1 .. n
        BY <1>9, <2>12, <2>13, <4>2
      <4> QED BY <4>1, <4>2
    <3> QED BY <3>7, <3>8 DEF ss
  <2>14. IndexedUpTo(n + 1)'
    BY <1>1, <1>7, <1>8, <1>11, <2>1, <2>10, <2>11, <2>13 DEF IndexedUpTo, all, c
  <2> QED BY <2>14 DEF IndexInv
<1>14. CASE root \in installed.kept /\ ~(Is(root, "root") /\ Content[root].lists # <<>>)
  <2>1. pending' = <<>> /\ index' = Unusable /\ ~StillWhole
    BY <1>7, <1>10, <1>14 DEF ReadRoot
  <2> QED BY <1>11, <2>1 DEF IndexInv
<1> QED BY <1>12, <1>13, <1>14

LEMMA ReadRootKept == ASSUME ExtensionsInv, ReadRoot PROVE ExtensionsInv'
<1>1. /\ pending # Unread /\ pending # <<>>
      /\ UNCHANGED <<installed, updates, keys, grouped, catalogOf, rowsOf, rights>>
  BY DEF ReadRoot, acquired
<1>2. MomentInv' /\ GroupInv'
  BY <1>1 DEF ExtensionsInv, MomentInv, GroupInv
<1>3. RightsInv'
  BY <1>1 DEF ExtensionsInv, RightsInv, RightsOK
<1> QED BY <1>2, <1>3, RootKept DEF ExtensionsInv

(* The rights of one role.                                                  *)
LEMMA ReadRoleKept == ASSUME ExtensionsInv, NEW r \in Roles, ReadRole(r) PROVE ExtensionsInv'
<1> DEFINE all == rowsOf.rows
           name == RightsName[r]
           found == RightsIn(r, installed.kept)
           first == FirstNamed(index, name)
<1>1. /\ pending = <<>> /\ index # Unusable /\ rights' = [rights EXCEPT ![r] = found]
      /\ UNCHANGED <<installed, updates, keys, grouped, catalogOf, pending, index, rowsOf>>
  BY DEF ReadRole, Indexed, acquired, indexed
<1>2. MomentInv' /\ GroupInv' /\ IndexInv'
  <2>1. MomentInv' /\ GroupInv'
    BY <1>1 DEF ExtensionsInv, MomentInv, GroupInv
  <2>2. \A n \in Nat : IndexedUpTo(n)' = IndexedUpTo(n)
    BY <1>1 DEF IndexedUpTo, StillWhole, WholeBase
  <2>3. StillWhole' = StillWhole
    BY <1>1 DEF StillWhole, WholeBase
  <2> QED BY <1>1, <2>1, <2>2, <2>3 DEF ExtensionsInv, IndexInv
<1>3. Unread # <<>> /\ NoRights \notin DOMAIN Content /\ NotFound \notin DOMAIN Content
  BY ExtensionsAssumption
<1>4. PICK n \in Nat : IndexedUpTo(n)
  BY <1>1, <1>3 DEF ExtensionsInv, IndexInv
<1>5. Len(all) \in Nat /\ DOMAIN all = 1..Len(all) /\ installed.kept \subseteq DOMAIN Content
  BY BaseRows DEF ExtensionsInv, MomentInv
<1> HIDE DEF all
<1>6. n = Len(all)
  <2>1. Len(pending) = 0
    BY <1>1
  <2>2. n \in 0..Len(all) /\ Len(pending) = Len(all) - n
    BY <1>4 DEF IndexedUpTo, all
  <2> DEFINE a == Len(all)
             p == Len(pending)
  <2>3. a \in Nat /\ n \in 0..a /\ p = a - n /\ p = 0
    BY <1>5, <2>1, <2>2
  <2> HIDE DEF a, p
  <2>4. n = a
    BY <2>3, NoneLeft
  <2> QED BY <2>4 DEF a
<1>7. ASSUME name \in NamesOf(index) PROVE first \in Named(all) /\ first.name = name
  <2>1. IsSequence(index) /\ \A i \in DOMAIN index : index[i] \in Named(all)
    BY <1>4 DEF IndexedUpTo, all
  <2> QED BY <1>7, <2>1, FirstFound
<1>8. ASSUME found \in DOMAIN Content PROVE [name |-> name, key |-> found] \in Named(all)
  <2>1. name \in NamesOf(index) /\ found = first.key
    BY <1>3, <1>8 DEF RightsIn
  <2>2. first = [name |-> first.name, key |-> first.key]
    BY <1>7, <2>1, NamedItems
  <2> HIDE DEF first, found, name
  <2> QED BY <1>7, <2>1, <2>2
<1>9. ASSUME StillWhole, found = NotFound, NEW i \in DOMAIN all
      PROVE  name \notin NamesOf(ListsOf(all[i]))
  <2>1. NamesOf(ListsOf(all[i])) \subseteq NamesOf(index)
    BY <1>4, <1>5, <1>6, <1>9 DEF IndexedUpTo, all
  <2>2. name \notin NamesOf(index)
    <3> SUFFICES ASSUME name \in NamesOf(index) PROVE FALSE
      OBVIOUS
    <3>1. first \in Named(all)
      BY <1>7
    <3>2. PICK k \in DOMAIN all : /\ all[k].root \in DOMAIN Content /\ Content[all[k].root].is = "root"
                                  /\ \E m \in DOMAIN ListsOf(all[k]) : ListsOf(all[k])[m] = first
      BY <3>1, NamedItems
    <3>3. Present(all[k], installed.kept)
      BY <1>9 DEF StillWhole, WholeBase, ExtensionsInv, MomentInv, all
    <3>4. first.key \in installed.kept
      BY <3>2, <3>3 DEF Present, ListsOf
    <3>5. found = first.key
      BY <3>4 DEF RightsIn
    <3> QED BY <1>3, <1>5, <1>9, <3>4, <3>5
  <2> QED BY <2>1, <2>2
<1> HIDE DEF found, first
<1>10. ASSUME NEW q \in Roles, rights'[q] # "" PROVE RightsOK(q)'
  <2>1. StillWhole' = StillWhole
    BY <1>1 DEF StillWhole, WholeBase
  <2>2. CASE q = r
    <3>1. rights'[q] = found
      BY <1>1, <2>2 DEF ExtensionsInv, RightsInv
    <3> QED BY <1>1, <1>8, <1>9, <2>1, <2>2, <3>1 DEF RightsOK, all
  <2>3. CASE q # r
    <3>1. rights'[q] = rights[q]
      BY <1>1, <2>3 DEF ExtensionsInv, RightsInv
    <3>2. RightsOK(q)
      BY <1>10, <3>1 DEF ExtensionsInv, RightsInv
    <3> QED BY <1>1, <2>1, <3>1, <3>2 DEF RightsOK
  <2> QED BY <2>2, <2>3
<1>11. RightsInv'
  BY <1>1, <1>10 DEF RightsInv, ExtensionsInv
<1> QED BY <1>2, <1>11 DEF ExtensionsInv

LEMMA ExtensionsStep == ASSUME ExtensionsInv, ExtensionsNext PROVE ExtensionsInv'
<1>1. CASE ReadStore
  <2>1. MomentInv' /\ GroupInv'
    BY <1>1 DEF ReadStore, indexed, ExtensionsInv, MomentInv, GroupInv
  <2>2. IndexInv' /\ RightsInv'
    BY <1>1, <2>1, IndexRests DEF ReadStore, indexed, MomentInv
  <2> QED BY <2>1, <2>2 DEF ExtensionsInv
<1>2. CASE ReadCatalog
  <2>1. MomentInv' /\ GroupInv'
    BY <1>2 DEF ReadCatalog, indexed, ExtensionsInv, MomentInv, GroupInv
  <2>2. IndexInv' /\ RightsInv'
    BY <1>2, <2>1, IndexRests DEF ReadCatalog, indexed, MomentInv
  <2> QED BY <2>1, <2>2 DEF ExtensionsInv
<1>3. CASE Update
  <2>1. /\ installed' \in Infobases /\ updates' = updates + 1 /\ updates \in Nat
        /\ UNCHANGED <<keys, grouped, catalogOf, pending, index, rowsOf, rights>>
    BY <1>3 DEF Update, acquired, indexed, ExtensionsInv, MomentInv
  <2>2. updates' \in Nat /\ updates' # 0
    BY <2>1
  <2>3. MomentInv' /\ GroupInv'
    BY <2>1, <2>2 DEF ExtensionsInv, MomentInv, GroupInv
  <2>4. IndexInv' /\ RightsInv'
    BY <2>1, <2>2, IndexRests
  <2> QED BY <2>3, <2>4 DEF ExtensionsInv
<1> QED BY <1>1, <1>2, <1>3, ReadRowsKept, ReadRootKept, ReadRoleKept DEF ExtensionsNext

(* What is known of a group of extensions.                                  *)
LEMMA GroupMeans ==
  ASSUME NEW all, IsSequence(all), NEW kept, NEW group, group = Group(all, kept), group # Unusable
  PROVE  /\ Len(group) = Len(all) /\ DOMAIN group = DOMAIN all
         /\ \A i \in DOMAIN all :
              /\ Present(all[i], kept)
              /\ group[i].name = all[i].name /\ group[i].resources = ListsOf(all[i])
              /\ group[i].objects # {Unread} => group[i].catalog \subseteq group[i].objects
<1> DEFINE g == [i \in DOMAIN all |->
                   [name |-> all[i].name, resources |-> ResourcesOf(all[i]),
                    catalog |-> CatalogOf(all[i].root), objects |-> ObjectsOf(all[i].root)]]
<1>1. group = g /\ \A i \in DOMAIN all : Present(all[i], kept)
  BY DEF Group
<1>2. Len(all) \in Nat /\ DOMAIN all = 1..Len(all)
  BY SequenceFacts
<1>3. Len(g) = Len(all)
  BY <1>2, NumberedSequence
<1>4. ASSUME NEW root, ObjectsOf(root) # {Unread} PROVE CatalogOf(root) \subseteq ObjectsOf(root)
  <2>1. /\ AllDescribed(root)
        /\ ObjectsOf(root) = UNION {Headers(Content[root].lists[i].key) : i \in Descriptions(root)}
    BY <1>4 DEF ObjectsOf
  <2> QED BY <2>1 DEF AllDescribed
<1>5. ASSUME NEW i \in DOMAIN all
      PROVE  /\ g[i].name = all[i].name /\ g[i].resources = ListsOf(all[i])
             /\ g[i].catalog = CatalogOf(all[i].root) /\ g[i].objects = ObjectsOf(all[i].root)
  BY DEF ResourcesOf, ListsOf
<1> HIDE DEF g
<1> QED BY <1>1, <1>3, <1>4, <1>5 DEF g

LEMMA ExtensionsAgree == ASSUME ExtensionsInv PROVE ExtensionsHold
<1>1. ASSUME grouped \notin {Unread, Unusable}
      PROVE  /\ catalogOf \in Infobases /\ keys # Unread /\ grouped = Group(catalogOf.rows, keys)
             /\ IsSequence(catalogOf.rows)
             /\ updates = 0 => StillWhole /\ rowsOf = catalogOf
  <2>1. catalogOf \in Infobases /\ keys # Unread /\ grouped = Group(catalogOf.rows, keys)
    BY <1>1 DEF ExtensionsInv, GroupInv
  <2>2. IsSequence(catalogOf.rows)
    BY <2>1, BaseRows
  <2>3. ASSUME updates = 0 PROVE StillWhole /\ rowsOf = catalogOf
    <3>1. rowsOf = catalogOf /\ keys = rowsOf.kept
      BY <2>1, <2>3 DEF ExtensionsInv, MomentInv
    <3>2. \A i \in DOMAIN catalogOf.rows : Present(catalogOf.rows[i], keys)
      BY <1>1, <2>1, <2>2, GroupMeans
    <3> QED BY <2>3, <3>1, <3>2 DEF StillWhole, WholeBase
  <2> QED BY <2>1, <2>2, <2>3
<1>2. GroupsOfOneMoment
  <2> SUFFICES ASSUME grouped \notin {Unread, Unusable}
               PROVE  /\ Len(grouped) = Len(catalogOf.rows)
                      /\ \A i \in DOMAIN grouped : LET row == catalogOf.rows[i] IN
                           /\ row.order >= 0 /\ grouped[i].name = row.name
                           /\ grouped[i].resources = Content[row.root].lists
                           /\ grouped[i].objects # {Unread} => grouped[i].catalog \subseteq grouped[i].objects
    BY DEF GroupsOfOneMoment
  <2> QED BY <1>1, GroupMeans DEF Present, ListsOf
<1>3. RightsOfTheRole
  <2>1. ASSUME NEW r \in Roles, rights[r] \in DOMAIN Content
        PROVE  [name |-> RightsName[r], key |-> rights[r]] \in Named(rowsOf.rows)
    <3>1. rights[r] # ""
      BY <2>1, ExtensionsAssumption
    <3> QED BY <2>1, <3>1 DEF ExtensionsInv, RightsInv, RightsOK
  <2>2. ASSUME NEW r \in Roles, updates = 0, grouped \notin {Unread, Unusable}, rights[r] # "",
               rights[r] = NotFound, NEW i \in DOMAIN grouped
        PROVE  RightsName[r] \notin NamesOf(grouped[i].resources)
    <3> DEFINE all == rowsOf.rows
    <3>1. grouped = Group(all, keys) /\ IsSequence(all) /\ grouped # Unusable /\ StillWhole
      BY <1>1, <2>2
    <3>2. DOMAIN grouped = DOMAIN all /\ \A k \in DOMAIN all : grouped[k].resources = ListsOf(all[k])
      <4> HIDE DEF all
      <4> QED BY <3>1, GroupMeans
    <3>3. i \in DOMAIN all /\ grouped[i].resources = ListsOf(all[i])
      BY <2>2, <3>2
    <3> QED BY <2>2, <3>1, <3>3 DEF ExtensionsInv, RightsInv, RightsOK
  <2> QED BY <2>1, <2>2 DEF RightsOfTheRole
<1>4. ReadersTakeTheSame
  <2>1. ASSUME updates = 0, Indexed, grouped \notin {Unread, Unusable}
        PROVE  index = FlattenSeq([i \in DOMAIN grouped |-> grouped[i].resources])
    <3> DEFINE all == rowsOf.rows
               ss == [i \in DOMAIN grouped |-> grouped[i].resources]
    <3>1. StillWhole /\ rowsOf = catalogOf /\ pending = <<>> /\ index # Unusable /\ Unread # <<>>
      BY <1>1, <2>1, ExtensionsAssumption DEF Indexed
    <3>2. PICK n \in Nat : IndexedUpTo(n)
      BY <3>1 DEF ExtensionsInv, IndexInv
    <3>3. Len(all) \in Nat /\ DOMAIN all = 1..Len(all)
      BY BaseRows DEF ExtensionsInv, MomentInv
    <3>4. n \in 0..Len(all) /\ Len(pending) = Len(all) - n
      BY <3>2 DEF IndexedUpTo
    <3>5. Len(pending) = 0
      BY <3>1
    <3> HIDE DEF all
    <3>6. n = Len(all)
      <4> DEFINE a == Len(all)
                 p == Len(pending)
      <4>1. a \in Nat /\ n \in 0..a /\ p = a - n /\ p = 0
        BY <3>3, <3>4, <3>5, Zenon
      <4> HIDE DEF a, p
      <4>2. n = a
        BY <4>1, NoneLeft
      <4> QED BY <4>2 DEF a
    <3>7. index = FlattenSeq([i \in 1..n |-> ListsOf(all[i])])
      BY <3>1, <3>2 DEF IndexedUpTo, all
    <3>8. /\ DOMAIN grouped = DOMAIN all
          /\ \A i \in DOMAIN all : grouped[i].resources = ListsOf(all[i])
      BY <1>1, <2>1, <3>1, GroupMeans DEF all
    <3>9. ss = [i \in 1..n |-> ListsOf(all[i])]
      BY <3>3, <3>6, <3>8
    <3> HIDE DEF ss
    <3> QED BY <3>7, <3>9 DEF ss
  <2>2. ASSUME Strict(installed.blobs) # Unusable
        PROVE  Tolerated(installed.blobs) = Excluding(Strict(installed.blobs), {"empty"})
    <3> DEFINE b == installed.blobs
               kept(i) == IF b[i] \in {"empty"} THEN <<>> ELSE <<b[i]>>
               passed(i) == IF b[i] \in {"malformed", "empty"} THEN <<>> ELSE <<b[i]>>
    <3>1. Strict(b) = b /\ ~Contains(b, "malformed")
      BY <2>2 DEF Strict
    <3>2. Len(b) \in Nat /\ DOMAIN b = 1..Len(b)
      <4>1. b \in Seq(STRING)
        BY ExtensionsAssumption DEF ExtensionsInv, MomentInv
      <4> HIDE DEF b
      <4> QED BY <4>1, LenProperties
    <3>3. \A i \in DOMAIN b : b[i] # "malformed"
      BY <3>1, <3>2 DEF Contains
    <3>4. [i \in DOMAIN b |-> passed(i)] = [i \in DOMAIN b |-> kept(i)]
      BY <3>3
    <3> HIDE DEF b
    <3> QED BY <3>1, <3>4 DEF Tolerated, Excluding, b
  <2> QED BY <2>1, <2>2 DEF ReadersTakeTheSame
<1> QED BY <1>2, <1>3, <1>4 DEF ExtensionsHold

-----------------------------------------------------------------------------
(* The cache and the extensions of a behaviour about them.                  *)
AgreeInv ==
  /\ subject = "cache" => CacheInv /\ HeldInv /\ AdmitInv
  /\ subject = "extensions" => ExtensionsInv

(* What a cache answers of the configuration is what a resolution from      *)
(* nothing would answer, whatever was refused or changed in between; and    *)
(* the acquisition and the access layer, reading the extensions each in its *)
(* own order while the base may change, take the same resources for theirs. *)
THEOREM ReadersAlwaysAgree == FairSpec => []ReadersAgree
<1>1. MCInit => AgreeInv
  <2> SUFFICES ASSUME MCInit PROVE AgreeInv
    OBVIOUS
  <2>1. ASSUME subject = "cache" PROVE CacheInv /\ HeldInv /\ AdmitInv
    <3>1. CacheInit
      BY <2>1 DEF MCInit
    <3>2. stored \in Stores /\ reading = Nothing /\ reply = Nothing
      BY <3>1 DEF CacheInit
    <3>3. Nothing.is \notin {"resources", "bootstrap"}
      BY DEF Nothing
    <3>4. CacheInv
      BY <3>2, <3>3 DEF CacheInv, ReadingOK, ReadIsBounded
    <3>5. HeldInv
      BY <3>1 DEF HeldInv, GotMeasured, CacheInit, Nothing
    <3>6. AdmitInv
      BY <3>1, AdmitStarts DEF CacheInit
    <3> QED BY <3>4, <3>5, <3>6
  <2>2. ASSUME subject = "extensions" PROVE ExtensionsInv
    BY <2>2, ExtensionsStart DEF MCInit
  <2> QED BY <2>1, <2>2 DEF AgreeInv
<1>2. AgreeInv /\ [MCNext]_<<vars, subject, metadata, cached, extended>> => AgreeInv'
  <2> SUFFICES ASSUME AgreeInv, [MCNext]_<<vars, subject, metadata, cached, extended>>
               PROVE  AgreeInv'
    OBVIOUS
  <2>1. CASE UNCHANGED <<subject, cached, extended>>
    <3>1. ASSUME CacheInv PROVE CacheInv'
      BY <2>1, <3>1 DEF cached, CacheInv, ReadIsBounded
    <3>2. ASSUME HeldInv PROVE HeldInv'
      BY <2>1, <3>2 DEF cached, HeldInv, GotMeasured
    <3>3. ASSUME AdmitInv PROVE AdmitInv'
      BY <2>1, <3>3 DEF cached, AdmitInv, Mirrors, Affords
    <3>4. ASSUME ExtensionsInv PROVE ExtensionsInv'
      <4>1. MomentInv' /\ GroupInv'
        BY <2>1, <3>4 DEF extended, ExtensionsInv, MomentInv, GroupInv
      <4>2. IndexInv' /\ RightsInv'
        BY <2>1, <3>4, <4>1, IndexRests DEF extended, MomentInv
      <4> QED BY <4>1, <4>2 DEF ExtensionsInv
    <3> QED BY <2>1, <3>1, <3>2, <3>3, <3>4 DEF AgreeInv
  <2>2. CASE subject = "cache" /\ CacheNext /\ UNCHANGED subject
    <3>1. CacheInv' /\ HeldInv' /\ AdmitInv'
      BY <2>2, CacheStep, HeldKept, AdmitKept DEF AgreeInv
    <3> QED BY <2>2, <3>1 DEF AgreeInv
  <2>3. CASE subject = "extensions" /\ ExtensionsNext /\ UNCHANGED subject
    BY <2>3, ExtensionsStep DEF AgreeInv
  <2> QED BY <2>1, <2>2, <2>3 DEF MCNext
<1>3. AgreeInv => ReadersAgree
  BY InvariantAgrees, ExtensionsAgree DEF AgreeInv, ReadersAgree
<1> QED BY <1>1, <1>2, <1>3, PTL DEF FairSpec

-----------------------------------------------------------------------------
(* What is read keeps its limits, whichever way it is read: the parts of a  *)
(* behaviour about something else rest.                                     *)
ReadsInv == IInv /\ SInv /\ (subject = "cache" => CacheInv)

(* Decoding in bulk never takes, keeps or holds more than its limits say,   *)
(* and a read on demand never answers more than its own, or a name twice,   *)
(* or a list of other names than were asked for, although the base changes  *)
(* between the totals and the rows: Resources, FollowRoot and RowsFit.      *)
THEOREM LimitsAlwaysKept == FairSpec => []ReadsKeepLimits
<1>1. MCInit => ReadsInv
  <2> SUFFICES ASSUME MCInit PROVE ReadsInv
    OBVIOUS
  <2>1. /\ jobs = <<>> /\ free = InFlightBytes /\ current = <<>> /\ retained = <<>>
        /\ feed = <<>> /\ chunk = <<>>
    BY DEF MCInit, InitWith, NoRead
  <2>2. ASSUME subject = "cache" PROVE CacheInv
    <3>1. stored \in Stores /\ reading = Nothing /\ reply = Nothing
      BY <2>2 DEF MCInit, CacheInit
    <3>2. Nothing.is \notin {"resources", "bootstrap"}
      BY DEF Nothing
    <3> QED BY <3>1, <3>2 DEF CacheInv, ReadingOK, ReadIsBounded
  <2> QED BY <2>1, <2>2, NothingHeld, EmptyStart DEF ReadsInv
<1>2. ReadsInv /\ [MCNext]_<<vars, subject, metadata, cached, extended>> => ReadsInv'
  <2> SUFFICES ASSUME ReadsInv, [MCNext]_<<vars, subject, metadata, cached, extended>>
               PROVE  ReadsInv'
    OBVIOUS
  <2>1. ASSUME UNCHANGED <<subject, cached>> PROVE (subject = "cache" => CacheInv)'
    BY <2>1 DEF ReadsInv, cached, CacheInv, ReadIsBounded
  <2>2. CASE Next /\ UNCHANGED <<subject, cached>>
    BY <2>1, <2>2, Invariance, SizesInvariance DEF ReadsInv
  <2>3. CASE UNCHANGED <<vars, subject, cached>>
    BY <2>1, <2>3, Invariance, SizesInvariance DEF ReadsInv
  <2>4. CASE subject = "cache" /\ CacheNext /\ UNCHANGED <<vars, subject>>
    <3>1. IInv' /\ SInv'
      BY <2>4, Invariance, SizesInvariance DEF ReadsInv
    <3>2. CacheInv'
      BY <2>4, CacheStep DEF ReadsInv
    <3> QED BY <2>4, <3>1, <3>2 DEF ReadsInv
  <2> QED BY <2>2, <2>3, <2>4 DEF MCNext
<1>3. ReadsInv => ReadsKeepLimits
  BY InvariantKeepsLimits DEF ReadsInv, ReadsKeepLimits, CacheInv
<1> QED BY <1>1, <1>2, <1>3, PTL DEF FairSpec

-----------------------------------------------------------------------------
(* No job waits for permits nobody will give back, and the running workers  *)
(* never hold more than the budget: for every read, its end included.       *)
THEOREM PermitsAlwaysComeBack ==
  ASSUME NEW sizes, NEW texts
  PROVE  InitWith(sizes, texts) /\ [][Next]_vars => []PermitsComeBack
<1>1. ASSUME IInv PROVE PermitsComeBack
  <2>1. ASSUME In("running") = {} PROVE free >= Reserve
    <3>1. Cardinality(In("running")) = 0
      BY <2>1, FS_EmptySet
    <3>2. free = InFlightBytes
      BY <1>1, <3>1, ReserveFits, ConfigDecodeAssumption DEF IInv, InvPermits
    <3> QED BY <3>2, ReserveFits, ConfigDecodeAssumption
  <2> QED BY <2>1 DEF PermitsComeBack
<1>2. InitWith(sizes, texts) => IInv
  BY Initially
<1> QED BY <1>1, <1>2, Invariance, PTL

(* However the read goes, no more than Depth batches are in flight, and the *)
(* batches that run at a time hold no more than the budget: the arguments   *)
(* of Backpressure and InFlightBounded.                                     *)
THEOREM StreamStaysBounded ==
  ASSUME NEW sizes, NEW texts
  PROVE  InitWith(sizes, texts) /\ [][Next]_vars =>
           [](/\ Cardinality(InFlight) <= Depth
              /\ Reserve * Cardinality(In("running")) <= InFlightBytes)
<1>1. ASSUME IInv
      PROVE  /\ Cardinality(InFlight) <= Depth
             /\ Reserve * Cardinality(In("running")) <= InFlightBytes
  <2>1. Cardinality(In("running")) \in Nat
    BY <1>1, JobsNumbered, FS_CardinalityType DEF IInv
  <2>2. Reserve * Cardinality(In("running")) \in Int
    BY <2>1, ReserveFits
  <2> QED BY <1>1, <2>2, ConfigDecodeAssumption DEF IInv, InvPermits, DepthKept
<1>2. InitWith(sizes, texts) => IInv
  BY Initially
<1> QED BY <1>1, <1>2, Invariance, PTL

-----------------------------------------------------------------------------
(* What a read answers is decided by its table.  Resources in batches: the  *)
(* first n batches hold so many.                                            *)
UpTo(n) == n * BatchSize

(* Batches of one size end at places that ascend.                           *)
LEMMA BatchPlaces ==
  /\ UpTo(0) = 0
  /\ \A n \in Nat : UpTo(n) \in Nat /\ n <= UpTo(n) /\ UpTo(n + 1) = UpTo(n) + BatchSize
  /\ \A m, n \in Nat : m <= n => UpTo(m) <= UpTo(n)
<1>1. BatchSize \in Nat /\ BatchSize >= 1
  BY ConfigDecodeAssumption
<1>2. UpTo(0) = 0
  BY <1>1 DEF UpTo
<1>3. ASSUME NEW n \in Nat PROVE UpTo(n) \in Nat /\ UpTo(n + 1) = UpTo(n) + BatchSize
  BY <1>1 DEF UpTo
<1> DEFINE P == {n \in Nat : n <= UpTo(n) /\ \A m \in Nat : m <= n => UpTo(m) <= UpTo(n)}
<1>4. 0 \in P
  BY <1>2
<1>5. ASSUME NEW n \in Nat, n \in P PROVE n + 1 \in P
  <2> DEFINE a == UpTo(n)
             b == UpTo(n + 1)
  <2>1. a \in Nat /\ b = a + BatchSize /\ n <= a
    BY <1>3, <1>5
  <2>2. \A m \in Nat : m <= n => UpTo(m) <= a /\ UpTo(m) \in Nat
    BY <1>3, <1>5
  <2>3. a <= b /\ n + 1 <= b /\ b <= b
    <3> HIDE DEF a, b
    <3> QED BY <1>1, <2>1
  <2>4. ASSUME NEW m \in Nat, m <= n + 1 PROVE UpTo(m) <= b
    <3>1. CASE m = n + 1
      BY <2>3, <3>1
    <3>2. CASE m <= n
      <4>1. UpTo(m) <= a /\ UpTo(m) \in Nat
        BY <2>2, <3>2
      <4> DEFINE c == UpTo(m)
      <4> HIDE DEF a, b, c
      <4>2. c <= a /\ c \in Nat
        BY <4>1 DEF c
      <4>3. c <= b
        BY <1>1, <2>1, <4>2
      <4> QED BY <4>3 DEF c
    <3> QED BY <2>4, <3>1, <3>2
  <2> QED BY <2>3, <2>4
<1> HIDE DEF P
<1>6. Nat \subseteq P
  BY <1>4, <1>5, Induction
<1> QED BY <1>2, <1>3, <1>6 DEF P

(* What two sequences joined hold.                                          *)
LEMMA JoinFacts ==
  ASSUME NEW s, NEW t, IsSequence(s), IsSequence(t)
  PROVE  LET c == s \o t
             m == Len(s)
             n == Len(t)
         IN /\ m \in Nat /\ n \in Nat /\ IsSequence(c) /\ Len(c) = m + n /\ DOMAIN c = 1..m + n
            /\ \A i \in 1..m : c[i] = s[i]
            /\ \A i \in 1..n : c[m + i] = t[i]
<1> DEFINE c == s \o t
           m == Len(s)
           n == Len(t)
<1>1. PICK A : s \in Seq(A)
  BY DEF IsSequence
<1>2. PICK B : t \in Seq(B)
  BY DEF IsSequence
<1> DEFINE U == A \cup B
<1>3. s \in Seq(U) /\ t \in Seq(U)
  BY <1>1, <1>2, SeqMonotonic
<1> HIDE DEF U
<1>4. /\ c \in Seq(U) /\ Len(c) = m + n
      /\ \A i \in 1..m + n : c[i] = IF i <= m THEN s[i] ELSE t[i - m]
  BY <1>3, ConcatProperties
<1>5. m \in Nat /\ n \in Nat
  BY <1>3, LenProperties
<1> HIDE DEF c, m, n
<1>6. DOMAIN c = 1..m + n /\ IsSequence(c)
  BY <1>4, LenProperties DEF IsSequence
<1>7. \A i \in 1..m : c[i] = s[i]
  BY <1>4, <1>5
<1>8. ASSUME NEW i \in 1..n PROVE c[m + i] = t[i]
  <2>1. PICK k \in Int : k = m + i
    BY <1>5
  <2>2. k \in 1..m + n /\ ~(k <= m) /\ k - m = i
    BY <1>5, <2>1
  <2>3. c[k] = t[k - m]
    BY <1>4, <2>2
  <2> QED BY <2>1, <2>2, <2>3
<1> QED BY <1>4, <1>5, <1>6, <1>7, <1>8 DEF c, m, n

(* Names are numbers above that of an error.                                *)
LEMMA NamesNumbered ==
  /\ Names \subseteq Nat \ {0} /\ IsFiniteSet(Names) /\ Cardinality(Names) \in Nat
  /\ Names = 1..Cardinality(Names)
<1>1. IsFiniteSet(Names) /\ Names = 1..Cardinality(Names)
  BY ConfigDecodeAssumption
<1>2. Cardinality(Names) \in Nat
  BY <1>1, FS_CardinalityType
<1> QED BY <1>1, <1>2

-----------------------------------------------------------------------------
(* The rows come by name, and a row cut short is the last.                  *)
InOrder(table) ==
  /\ IsSequence(table)
  /\ \A i \in DOMAIN table :
       IF table[i] = Lost THEN i = Len(table)
       ELSE table[i].name \in Names /\ table[i].part \in Nat
  /\ \A i, k \in DOMAIN table :
       i < k /\ table[i] # Lost /\ table[k] # Lost => table[i].name <= table[k].name

(* An error is no row of a name.                                            *)
LEMMA LostIsNoRow == ASSUME NEW row, row.name \in Names PROVE row # Lost
<1>1. Lost.name = 0
  BY DEF Lost
<1> QED BY <1>1, NamesNumbered

(* The table of a base is in the order of names and parts.                  *)
LEMMA TableInOrder ==
  ASSUME NEW parts \in [Names -> Nat]
  PROVE  InOrder(Table(parts)) /\ \A i \in DOMAIN Table(parts) : Table(parts)[i] # Lost
<1> DEFINE N == Cardinality(Names)
           piece(n) == [k \in 1..parts[n] |-> [name |-> n, part |-> k - 1]]
           upto(n) == FlattenSeq([k \in 1..n |-> piece(k)])
           OK(t, n) == /\ IsSequence(t)
                       /\ \A i \in DOMAIN t : t[i].name \in Names /\ t[i].name <= n /\ t[i].part \in Nat
                       /\ \A i, k \in DOMAIN t : i < k => t[i].name <= t[k].name
           P == {n \in Nat : n <= N => OK(upto(n), n)}
<1>1. N \in Nat /\ Names = 1..N
  BY NamesNumbered
<1>2. 0 \in P
  <2>1. [k \in 1..0 |-> piece(k)] = <<>>
    OBVIOUS
  <2>2. upto(0) = <<>>
    BY <2>1, FlattenEmpty
  <2>3. IsSequence(<<>>) /\ DOMAIN <<>> = {}
    BY NothingSized
  <2>4. OK(upto(0), 0)
    <3> HIDE DEF upto
    <3> QED BY <2>2, <2>3
  <2> HIDE DEF OK, upto
  <2> QED BY <2>4
<1>3. ASSUME NEW n \in Nat, n \in P PROVE n + 1 \in P
  <2> SUFFICES ASSUME n + 1 <= N PROVE OK(upto(n + 1), n + 1)
    <3> HIDE DEF OK, upto
    <3> QED OBVIOUS
  <2> DEFINE p == piece(n + 1)
             a == parts[n + 1]
  <2>1. n <= N /\ n + 1 \in Names /\ a \in Nat
    BY <1>1
  <2>2. IsSequence(p) /\ Len(p) = a /\ DOMAIN p = 1..a
    BY <2>1, NumberedSequence
  <2>3. \A k \in 1..a : p[k].name = n + 1 /\ p[k].part \in Nat
    BY <2>1
  <2>4. OK(upto(n), n)
    BY <1>3, <2>1
  <2>5. upto(n + 1) = IF n = 0 THEN p ELSE upto(n) \o p
    <3> DEFINE ss == [k \in 1..n + 1 |-> piece(k)]
               tt == [k \in 1..n |-> piece(k)]
    <3>1. Len(ss) = n + 1 /\ Len(tt) = n
      BY NumberedSequence
    <3>2. (\A i \in 1..n : tt[i] = ss[i]) /\ ss[n + 1] = p /\ (n = 0 => ss[1] = p)
      <4> HIDE DEF piece
      <4> QED OBVIOUS
    <3> HIDE DEF ss, tt, p
    <3>3. FlattenSeq(ss) = IF n = 0 THEN ss[1] ELSE FlattenSeq(tt) \o ss[n + 1]
      BY <3>1, <3>2, FlattenMore
    <3> QED BY <3>2, <3>3 DEF ss, tt
  <2> DEFINE u == upto(n)
             c == u \o p
             m == Len(u)
  <2> HIDE DEF piece, upto, p, a
  <2>6. CASE n = 0
    BY <2>1, <2>2, <2>3, <2>5, <2>6
  <2>7. CASE n # 0
    <3>1. /\ IsSequence(u) /\ m \in Nat /\ DOMAIN u = 1..m
          /\ \A i \in 1..m : u[i].name \in Names /\ u[i].name <= n /\ u[i].part \in Nat
          /\ \A i, k \in 1..m : i < k => u[i].name <= u[k].name
      BY <2>4, SequenceFacts
    <3>2. /\ IsSequence(c) /\ DOMAIN c = 1..m + a
          /\ (\A i \in 1..m : c[i] = u[i]) /\ \A i \in 1..a : c[m + i] = p[i]
      BY <2>2, <3>1, JoinFacts
    <3> HIDE DEF u, c, m
    <3>3. \A i \in 1..m + a : i \in 1..m \/ (i - m \in 1..a /\ m + (i - m) = i)
      BY <2>1, <3>1
    <3>4. ASSUME NEW i \in 1..m + a
          PROVE  /\ c[i].name \in Names /\ c[i].name <= n + 1 /\ c[i].part \in Nat
                 /\ IF i \in 1..m THEN c[i].name <= n ELSE c[i].name = n + 1
      <4>1. CASE i \in 1..m
        <5>1. c[i] = u[i] /\ u[i].name \in Names /\ u[i].name <= n /\ u[i].part \in Nat
          BY <3>1, <3>2, <4>1
        <5>2. \A x \in Names : x <= n => x <= n + 1
          BY NamesNumbered
        <5> QED BY <4>1, <5>1, <5>2
      <4>2. CASE i \notin 1..m
        <5>1. i - m \in 1..a /\ c[i] = p[i - m]
          BY <3>2, <3>3, <4>2
        <5>2. n + 1 <= n + 1
          OBVIOUS
        <5> QED BY <2>1, <2>3, <4>2, <5>1, <5>2
      <4> QED BY <4>1, <4>2
    <3>5. ASSUME NEW i \in 1..m + a, NEW k \in 1..m + a, i < k PROVE c[i].name <= c[k].name
      <4>1. CASE k \in 1..m
        <5>1. i \in 1..m
          BY <2>1, <3>1, <3>5, <4>1
        <5> QED BY <3>1, <3>2, <3>5, <4>1, <5>1
      <4>2. CASE k \notin 1..m
        <5>1. c[k].name = n + 1 /\ c[i].name <= n + 1
          BY <3>4, <4>2
        <5> QED BY <5>1
      <4> QED BY <4>1, <4>2
    <3>6. upto(n + 1) = c
      BY <2>5, <2>7 DEF c, u
    <3> QED BY <3>2, <3>4, <3>5, <3>6
  <2> QED BY <2>6, <2>7
<1> HIDE DEF P
<1>4. N \in P
  BY <1>1, <1>2, <1>3, Induction
<1>8. OK(upto(N), N)
  <2> HIDE DEF OK, upto
  <2> QED BY <1>1, <1>4 DEF P
<1>5. Table(parts) = upto(N)
  BY <1>1 DEF Table
<1>6. OK(Table(parts), N)
  <2> HIDE DEF OK, upto
  <2> QED BY <1>5, <1>8
<1>7. \A i \in DOMAIN Table(parts) : Table(parts)[i] # Lost
  BY <1>6, LostIsNoRow
<1> QED BY <1>6, <1>7 DEF InOrder

(* A table without one of its rows, or cut short.                           *)
LEMMA DamagedInOrder ==
  ASSUME NEW t, InOrder(t), \A i \in DOMAIN t : t[i] # Lost, NEW table \in Damaged(t)
  PROVE  InOrder(table)
<1> DEFINE n == Len(t)
<1>1. PICK S : t \in Seq(S)
  BY DEF InOrder, IsSequence
<1>2. n \in Nat /\ DOMAIN t = 1..n
  BY <1>1, LenProperties
<1>3. /\ \A i \in 1..n : t[i].name \in Names /\ t[i].part \in Nat
      /\ \A i, k \in 1..n : i < k => t[i].name <= t[k].name
  BY <1>2 DEF InOrder
<1>4. \A a \in 1..n + 1, b \in 0..n :
        LET s == SubSeq(t, a, b) IN
        /\ IsSequence(s) /\ Len(s) = (IF a <= b + 1 THEN b - a + 1 ELSE 0)
        /\ \A i \in 1..b - a + 1 : s[i] = t[a + i - 1]
  <2> SUFFICES ASSUME NEW a \in 1..n + 1, NEW b \in 0..n
               PROVE  LET s == SubSeq(t, a, b) IN
                      /\ IsSequence(s) /\ Len(s) = (IF a <= b + 1 THEN b - a + 1 ELSE 0)
                      /\ \A i \in 1..b - a + 1 : s[i] = t[a + i - 1]
    OBVIOUS
  <2> DEFINE s == SubSeq(t, a, b)
  <2> HIDE DEF n
  <2>1. \A i \in a..b : t[i] \in S
    BY <1>1, <1>2, ElementOfSeq DEF n
  <2>2. s \in Seq(S) /\ Len(s) = (IF a <= b + 1 THEN b - a + 1 ELSE 0)
    BY <1>2, <2>1, SubSeqProperties
  <2>3. \A i \in 1..b - a + 1 : s[i] = t[a + i - 1]
    BY <1>2, <2>1, SubSeqProperties
  <2> QED BY <2>2, <2>3 DEF IsSequence
<1>5. CASE table = t
  BY <1>5
<1>6. ASSUME NEW i \in DOMAIN t, table = RemoveAt(t, i) PROVE InOrder(table)
  <2> DEFINE u == SubSeq(t, 1, i - 1)
             v == SubSeq(t, i + 1, n)
             o == [k \in 1..n - 1 |-> IF k < i THEN k ELSE k + 1]
  <2>1. table = u \o v
    BY <1>6 DEF RemoveAt
  <2> HIDE DEF n, u, v
  <2>2. IsSequence(u) /\ Len(u) = i - 1 /\ \A k \in 1..i - 1 : u[k] = t[k]
    <3>1. 1 \in 1..n + 1 /\ i - 1 \in 0..n /\ 1 <= (i - 1) + 1 /\ (i - 1) - 1 + 1 = i - 1
      BY <1>2
    <3>2. \A k \in 1..i - 1 : 1 + k - 1 = k
      OBVIOUS
    <3> QED BY <1>4, <3>1, <3>2 DEF u
  <2>3. IsSequence(v) /\ Len(v) = n - i /\ \A k \in 1..n - i : v[k] = t[i + k]
    <3>1. i + 1 \in 1..n + 1 /\ n \in 0..n /\ i + 1 <= n + 1 /\ n - (i + 1) + 1 = n - i
      BY <1>2
    <3>2. \A k \in 1..n - i : (i + 1) + k - 1 = i + k
      BY <1>2
    <3> QED BY <1>4, <3>1, <3>2 DEF v
  <2>4. /\ IsSequence(table) /\ Len(table) = n - 1 /\ DOMAIN table = 1..n - 1
        /\ (\A k \in 1..i - 1 : table[k] = u[k]) /\ \A k \in 1..n - i : table[(i - 1) + k] = v[k]
    <3>1. (i - 1) + (n - i) = n - 1
      BY <1>2
    <3> DEFINE a == Len(u)
               b == Len(v)
    <3>3. a = i - 1 /\ b = n - i
      BY <2>2, <2>3
    <3>0. IsSequence(u) /\ IsSequence(v)
      BY <2>2, <2>3
    <3>2. LET c == u \o v IN
          /\ IsSequence(c) /\ Len(c) = a + b
          /\ DOMAIN c = 1..a + b /\ (\A k \in 1..a : c[k] = u[k])
          /\ \A k \in 1..b : c[a + k] = v[k]
      BY <3>0, JoinFacts
    <3> HIDE DEF a, b
    <3>4. /\ IsSequence(table) /\ Len(table) = a + b
          /\ DOMAIN table = 1..a + b /\ (\A k \in 1..a : table[k] = u[k])
          /\ \A k \in 1..b : table[a + k] = v[k]
      BY <2>1, <3>2
    <3> QED BY <3>1, <3>3, <3>4
  <2>5. \A k \in 1..n - 1 : o[k] \in 1..n /\ table[k] = t[o[k]]
    <3> SUFFICES ASSUME NEW k \in 1..n - 1 PROVE o[k] \in 1..n /\ table[k] = t[o[k]]
      OBVIOUS
    <3>1. CASE k < i
      <4>1. k \in 1..i - 1 /\ k \in 1..n
        BY <1>2, <3>1
      <4> QED BY <2>2, <2>4, <3>1, <4>1
    <3>2. CASE ~(k < i)
      <4>1. k - (i - 1) \in 1..n - i /\ (i - 1) + (k - (i - 1)) = k /\ i + (k - (i - 1)) = k + 1
            /\ k + 1 \in 1..n
        BY <1>2, <3>2
      <4>2. table[k] = v[k - (i - 1)] /\ v[k - (i - 1)] = t[k + 1]
        BY <2>3, <2>4, <4>1
      <4> QED BY <3>2, <4>1, <4>2
    <3> QED BY <3>1, <3>2
  <2>6. \A k, l \in 1..n - 1 : k < l => o[k] < o[l]
    BY <1>2
  <2> HIDE DEF o
  <2>7. \A k \in 1..n - 1 : table[k].name \in Names /\ table[k].part \in Nat /\ table[k] # Lost
    BY <1>3, <2>5, LostIsNoRow
  <2>8. \A k, l \in 1..n - 1 : k < l => table[k].name <= table[l].name
    BY <1>3, <2>5, <2>6
  <2> QED BY <2>4, <2>7, <2>8 DEF InOrder
<1>7. ASSUME NEW i \in 0..Len(t) - 1, table = Append(SubSeq(t, 1, i), Lost) PROVE InOrder(table)
  <2> DEFINE u == SubSeq(t, 1, i)
  <2> HIDE DEF n, u
  <2>1. IsSequence(u) /\ Len(u) = i /\ \A k \in 1..i : u[k] = t[k]
    <3>1. 1 \in 1..n + 1 /\ i \in 0..n /\ 1 <= i + 1 /\ i - 1 + 1 = i
      BY <1>2, <1>7 DEF n
    <3>2. \A k \in 1..i : 1 + k - 1 = k
      OBVIOUS
    <3> QED BY <1>4, <3>1, <3>2 DEF u
  <2>2. /\ IsSequence(table) /\ Len(table) = i + 1 /\ DOMAIN table = 1..i + 1
        /\ table[i + 1] = Lost /\ \A k \in 1..i : table[k] = u[k]
    BY <1>7, <2>1, AppendFacts DEF u
  <2>3. \A k \in 1..i : k \in 1..n
    BY <1>2, <1>7 DEF n
  <2>4. \A k \in 1..i : table[k] = t[k] /\ table[k].name \in Names /\ table[k].part \in Nat
    BY <1>3, <2>1, <2>2, <2>3
  <2>5. \A k \in 1..i + 1 : k \in 1..i \/ k = i + 1
    BY <1>7
  <2>6. \A k, l \in 1..i : k < l => table[k].name <= table[l].name
    BY <1>3, <2>3, <2>4
  <2> QED BY <2>2, <2>4, <2>5, <2>6 DEF InOrder
<1> QED BY <1>5, <1>6, <1>7 DEF Damaged

(* The table of a read, and how its contents are taken.                     *)
StoreOK ==
  /\ InOrder(store.rows) /\ store.plan \in Plans /\ store.text \in [Names -> Texts]

(* Whatever a base answers with is a table in order, damaged at most in the *)
(* ways the model has.                                                      *)
LEMMA StoreStarts ==
  ASSUME NEW sizes, NEW texts, sizes \subseteq [Names -> Nat], texts \subseteq [Names -> Texts],
         InitWith(sizes, texts)
  PROVE  StoreOK
<1>1. PICK plan \in Plans, parts \in sizes, text \in texts :
        \E table \in Damaged(Table(parts)) : store = [plan |-> plan, rows |-> table, text |-> text]
  BY DEF InitWith
<1>2. PICK table \in Damaged(Table(parts)) : store = [plan |-> plan, rows |-> table, text |-> text]
  BY <1>1
<1>3. InOrder(table)
  BY TableInOrder, DamagedInOrder
<1>4. store.plan = plan /\ store.rows = table /\ store.text = text
  BY <1>2
<1> QED BY <1>3, <1>4 DEF StoreOK

-----------------------------------------------------------------------------
(* The places of a set of numbers, in their order.                          *)
Place(S, i) == Cardinality({j \in S : j <= i})

(* Places of a set of names: numbered from one, ascending, one each.        *)
LEMMA PlaceFacts ==
  ASSUME NEW n \in Nat, NEW S \in SUBSET (1..n)
  PROVE  /\ IsFiniteSet(S) /\ Cardinality(S) \in Nat
         /\ \A i \in S : Place(S, i) \in 1..Cardinality(S)
         /\ \A i, k \in S : i < k => Place(S, i) < Place(S, k)
<1> DEFINE U(i) == {j \in S : j <= i}
<1>0. \A i \in S : i \in Nat
  OBVIOUS
<1>1. IsFiniteSet(S) /\ Cardinality(S) \in Nat
  <2>1. IsFiniteSet(1..n)
    BY FS_Interval
  <2>2. IsFiniteSet(S)
    BY <2>1, FS_Subset
  <2> QED BY <2>2, FS_CardinalityType
<1>2. \A i : U(i) \in SUBSET S
  OBVIOUS
<1> HIDE DEF U
<1>3. \A i : IsFiniteSet(U(i)) /\ Cardinality(U(i)) \in Nat /\ Cardinality(U(i)) <= Cardinality(S)
  BY <1>1, <1>2, FS_Subset, FS_CardinalityType
<1>4. ASSUME NEW i \in S PROVE Cardinality(U(i)) # 0
  <2>1. i \in U(i)
    BY DEF U
  <2> QED BY <1>3, <2>1, FS_EmptySet
<1>5. ASSUME NEW i \in S, NEW k \in S, i < k PROVE Cardinality(U(i)) < Cardinality(U(k))
  <2>0. i \in Nat /\ k \in Nat /\ k <= k /\ ~(k <= i) /\ \A j \in S : j <= i => j <= k
    BY <1>0, <1>5
  <2>1. U(i) \in SUBSET U(k) /\ k \in U(k) /\ k \notin U(i)
    BY <2>0 DEF U
  <2>2. Cardinality(U(i)) <= Cardinality(U(k)) /\ Cardinality(U(k)) # Cardinality(U(i))
    BY <1>3, <2>1, FS_Subset
  <2> QED BY <1>3, <2>2
<1>6. \A i : Place(S, i) = Cardinality(U(i))
  BY DEF Place, U
<1>7. \A i \in S : Place(S, i) \in 1..Cardinality(S)
  BY <1>1, <1>3, <1>4, <1>6
<1> QED BY <1>1, <1>5, <1>6, <1>7

(* The element at a place is the only one there.                            *)
LEMMA NthFacts ==
  ASSUME NEW n \in Nat, NEW S \in SUBSET (1..n)
  PROVE  /\ \A k \in 1..Cardinality(S) : Nth(S, k) \in S /\ Place(S, Nth(S, k)) = k
         /\ \A i \in S : Nth(S, Place(S, i)) = i
         /\ \A k, l \in 1..Cardinality(S) : k < l => Nth(S, k) < Nth(S, l)
<1>0. /\ \A i \in S : i \in Nat /\ Place(S, i) \in Nat
      /\ \A i, k \in S : i < k => Place(S, i) < Place(S, k)
  <2>1. \A i \in S : Place(S, i) \in 1..Cardinality(S)
    BY PlaceFacts
  <2>2. \A i \in S : i \in Nat /\ Place(S, i) \in Nat
    BY <2>1
  <2> QED BY <2>2, PlaceFacts
<1>1. ASSUME NEW k \in 1..Cardinality(S) PROVE Nth(S, k) \in S /\ Place(S, Nth(S, k)) = k
  <2>1. \E i \in S : Cardinality({j \in S : j <= i}) = k
    BY PlaceExists
  <2> QED BY <2>1 DEF Nth, Place
<1>2. ASSUME NEW i \in S, NEW k \in S, Place(S, i) = Place(S, k) PROVE i = k
  <2> QED BY <1>0, <1>2
<1>3. ASSUME NEW i \in S PROVE Nth(S, Place(S, i)) = i
  <2>1. Place(S, i) \in 1..Cardinality(S)
    BY PlaceFacts
  <2> QED BY <1>1, <1>2, <2>1
<1>4. ASSUME NEW k \in 1..Cardinality(S), NEW l \in 1..Cardinality(S), k < l
      PROVE  Nth(S, k) < Nth(S, l)
  <2>1. Nth(S, k) \in S /\ Nth(S, l) \in S /\ Place(S, Nth(S, k)) = k /\ Place(S, Nth(S, l)) = l
    BY <1>1
  <2> DEFINE x == Nth(S, k)
             y == Nth(S, l)
  <2>2. x \in Nat /\ y \in Nat /\ (y < x => l < k) /\ x # y
    <3>1. x \in S /\ y \in S /\ Place(S, x) = k /\ Place(S, y) = l
      BY <2>1
    <3> HIDE DEF x, y
    <3>2. x # y
      BY <1>4, <3>1
    <3> QED BY <1>0, <3>1, <3>2
  <2> HIDE DEF x, y
  <2>3. ~(l < k)
    BY <1>4
  <2>4. x < y
    BY <2>2, <2>3
  <2> QED BY <2>4 DEF x, y
<1> QED BY <1>1, <1>3, <1>4

(* The first elements of a set keep their places.                           *)
LEMMA FirstKeepPlaces ==
  ASSUME NEW n \in Nat, NEW S \in SUBSET (1..n), NEW T \in SUBSET S,
         \A i \in T : \A k \in S \ T : i < k
  PROVE  /\ Cardinality(T) <= Cardinality(S)
         /\ \A k \in 1..Cardinality(T) : Nth(T, k) = Nth(S, k)
<1>1. T \in SUBSET (1..n)
  OBVIOUS
<1>2. IsFiniteSet(S) /\ Cardinality(T) <= Cardinality(S)
  <2>1. IsFiniteSet(S)
    BY PlaceFacts
  <2> QED BY <2>1, FS_Subset
<1>3. ASSUME NEW i \in T PROVE Place(T, i) = Place(S, i)
  <2>0. \A j \in S : j \in Nat
    OBVIOUS
  <2>1. \A j \in S : j <= i => j \in T
    BY <1>3, <2>0
  <2>2. {j \in T : j <= i} = {j \in S : j <= i}
    BY <2>1
  <2> QED BY <2>2 DEF Place
<1>4. ASSUME NEW k \in 1..Cardinality(T) PROVE Nth(T, k) = Nth(S, k)
  <2> DEFINE i == Nth(T, k)
  <2>1. i \in T /\ Place(T, i) = k
    BY <1>1, NthFacts
  <2> HIDE DEF i
  <2>2. Place(S, i) = k
    BY <1>3, <2>1
  <2>3. Nth(S, Place(S, i)) = i
    BY <2>1, NthFacts
  <2> QED BY <2>2, <2>3 DEF i
<1> QED BY <1>2, <1>4

(* As many elements as places.                                              *)
LEMMA SameNumber ==
  ASSUME NEW S, NEW T, IsFiniteSet(S), NEW h, \A x \in S : h[x] \in T,
         \A x, y \in S : h[x] = h[y] => x = y, \A t \in T : \E x \in S : h[x] = t
  PROVE  IsFiniteSet(T) /\ Cardinality(T) = Cardinality(S)
<1> DEFINE f == [x \in S |-> h[x]]
<1>1. f \in Bijection(S, T)
  <2>1. f \in [S -> T] /\ \A x \in S : f[x] = h[x]
    OBVIOUS
  <2> HIDE DEF f
  <2>2. f \in Injection(S, T) /\ f \in Surjection(S, T)
    BY <2>1 DEF Injection, Surjection, IsInjective
  <2> QED BY <2>2 DEF Bijection
<1>2. ExistsBijection(S, T)
  BY <1>1 DEF ExistsBijection
<1> QED BY <1>2, FS_Bijection

(* Of the elements of a set, those in another, at their places.             *)
PlacesOf(T, S, n, A) ==
  /\ n \in Nat /\ S \in SUBSET (1..n) /\ T \in SUBSET S
  /\ \A i : i \in A <=> i \in 1..Cardinality(S) /\ Nth(S, i) \in T

(* Counting through a part of a set counts through the set.                 *)
LEMMA NthOfSome ==
  ASSUME NEW T, NEW S, NEW n, NEW A, PlacesOf(T, S, n, A)
  PROVE  /\ Cardinality(A) = Cardinality(T)
         /\ \A k \in 1..Cardinality(A) : Nth(A, k) \in A /\ Nth(S, Nth(A, k)) = Nth(T, k)
<1> DEFINE N == Cardinality(S)
           h == [i \in 1..N |-> Nth(S, i)]
<1>0. n \in Nat /\ S \in SUBSET (1..n) /\ T \in SUBSET S
  BY DEF PlacesOf
<1>1. N \in Nat /\ A \in SUBSET (1..N) /\ T \in SUBSET (1..n)
  BY <1>0, PlaceFacts DEF PlacesOf
<1>2. IsFiniteSet(A)
  BY <1>0, <1>1, PlaceFacts
<1>3. /\ \A i \in 1..N : h[i] = Nth(S, i) /\ h[i] \in S /\ h[i] \in Nat
      /\ \A i, k \in 1..N : i < k => h[i] < h[k]
      /\ \A x \in S : \E i \in 1..N : h[i] = x
  <2>1. \A x \in S : Place(S, x) \in 1..N /\ Nth(S, Place(S, x)) = x
    BY <1>0, PlaceFacts, NthFacts
  <2>4. \A x \in S : x \in Nat
    BY <1>0
  <2> HIDE DEF N
  <2>2. \A i \in 1..N : h[i] = Nth(S, i)
    OBVIOUS
  <2>3. (\A i \in 1..N : Nth(S, i) \in S) /\ \A i, k \in 1..N : i < k => Nth(S, i) < Nth(S, k)
    BY <1>0, NthFacts DEF N
  <2> HIDE DEF h
  <2> QED BY <2>1, <2>2, <2>3, <2>4
<1> HIDE DEF N, h
<1>4. \A i, k \in 1..N : (h[i] = h[k] => i = k) /\ (h[i] <= h[k] <=> i <= k)
  BY <1>1, <1>3
<1>5. \A i \in 1..N : i \in A <=> h[i] \in T
  BY <1>3 DEF N, PlacesOf
<1>6. Cardinality(A) = Cardinality(T)
  <2>1. /\ \A x \in A : h[x] \in T
        /\ \A x, y \in A : h[x] = h[y] => x = y
        /\ \A t \in T : \E x \in A : h[x] = t
    BY <1>0, <1>1, <1>3, <1>4, <1>5
  <2> QED BY <1>2, <2>1, SameNumber
<1>7. ASSUME NEW a \in A PROVE Place(A, a) = Place(T, h[a])
  <2> DEFINE X == {b \in A : b <= a}
             Y == {j \in T : j <= h[a]}
  <2>1. IsFiniteSet(X)
    BY <1>2, FS_Subset
  <2>2. a \in 1..N
    BY <1>1
  <2>3. /\ \A x \in X : h[x] \in Y
        /\ \A x, y \in X : h[x] = h[y] => x = y
    BY <1>1, <1>4, <1>5, <2>2
  <2>4. ASSUME NEW t \in Y PROVE \E x \in X : h[x] = t
    <3>1. PICK x \in 1..N : h[x] = t
      BY <1>0, <1>3
    <3>2. x \in A /\ x <= a
      BY <1>4, <1>5, <2>2, <3>1
    <3> QED BY <3>1, <3>2
  <2>5. Cardinality(Y) = Cardinality(X)
    <3> HIDE DEF X, Y
    <3> QED BY <2>1, <2>3, <2>4, SameNumber
  <2> QED BY <2>5 DEF Place
<1>8. ASSUME NEW k \in 1..Cardinality(A) PROVE Nth(A, k) \in A /\ Nth(S, Nth(A, k)) = Nth(T, k)
  <2> DEFINE a == Nth(A, k)
  <2>0. \A l \in 1..Cardinality(A) : Nth(A, l) \in A /\ Place(A, Nth(A, l)) = l
    BY <1>1, NthFacts
  <2>1. a \in A /\ Place(A, a) = k
    BY <2>0
  <2> HIDE DEF a
  <2>2. h[a] \in T /\ h[a] = Nth(S, a) /\ Place(T, h[a]) = k
    BY <1>1, <1>3, <1>5, <1>7, <2>1
  <2>3. Nth(T, Place(T, h[a])) = h[a]
    BY <1>0, <1>1, <2>2, NthFacts
  <2> QED BY <2>1, <2>2, <2>3 DEF a
<1> QED BY <1>6, <1>8

-----------------------------------------------------------------------------
(* The resources of some names, in the order of the table.                  *)
LEMMA ResourceFacts ==
  ASSUME IsSequence(store.rows)
  PROVE  /\ \A n : /\ Resource(n) = [name |-> n, size |-> Cardinality(RowsOf(n))]
                   /\ Resource(n).name = n /\ Resource(n).size = Cardinality(RowsOf(n))
                   /\ Resource(n).size \in Nat /\ IsFiniteSet(RowsOf(n))
         /\ \A n, m : Resource(n) = Resource(m) => n = m
<1>1. IsFiniteSet(DOMAIN store.rows)
  BY SequenceFacts
<1>2. \A n : RowsOf(n) \in SUBSET DOMAIN store.rows
  BY DEF RowsOf
<1>3. \A n : IsFiniteSet(RowsOf(n)) /\ Cardinality(RowsOf(n)) \in Nat
  BY <1>1, <1>2, FS_Subset, FS_CardinalityType
<1>4. \A n : /\ Resource(n) = [name |-> n, size |-> Cardinality(RowsOf(n))]
             /\ Resource(n).name = n /\ Resource(n).size = Cardinality(RowsOf(n))
  BY DEF Resource
<1>5. \A n, m : Resource(n) = Resource(m) => n = m
  BY <1>4
<1> QED BY <1>3, <1>4, <1>5

(* A list of resources has one per name, in the order of the names.         *)
LEMMA ListedFacts ==
  ASSUME IsSequence(store.rows), NEW S \in SUBSET Names
  PROVE  LET s == Listed(S)
             n == Cardinality(S)
         IN /\ IsFiniteSet(S) /\ n \in Nat /\ Sized(s) /\ IsSequence(s)
            /\ Len(s) = n /\ DOMAIN s = 1..n
            /\ s = [k \in 1..n |-> Resource(Nth(S, k))]
            /\ \A k \in 1..n : s[k] = Resource(Nth(S, k)) /\ Nth(S, k) \in S
            /\ \A x \in S : \E k \in 1..n : Nth(S, k) = x
            /\ \A k, l \in 1..n : k < l => Nth(S, k) < Nth(S, l)
<1> DEFINE N == Cardinality(Names)
           n == Cardinality(S)
           s == Listed(S)
<1>1. N \in Nat /\ S \in SUBSET (1..N)
  BY NamesNumbered
<1> HIDE DEF N
<1>2. /\ IsFiniteSet(S) /\ n \in Nat
      /\ \A k \in 1..n : Nth(S, k) \in S
      /\ \A x \in S : Place(S, x) \in 1..n /\ Nth(S, Place(S, x)) = x
      /\ \A k, l \in 1..n : k < l => Nth(S, k) < Nth(S, l)
  BY <1>1, PlaceFacts, NthFacts
<1>3. \A x \in S : \E k \in 1..n : Nth(S, k) = x
  BY <1>2
<1> DEFINE all == [x \in Names |-> Resource(x)]
<1>4. \A k \in 1..n : all[Nth(S, k)] = Resource(Nth(S, k))
  BY <1>2
<1>5. s = [k \in 1..n |-> all[Nth(S, k)]]
  BY DEF Listed, Picked
<1> HIDE DEF all, n, s
<1>6. s = [k \in 1..n |-> Resource(Nth(S, k))]
  BY <1>4, <1>5
<1>7. \A k \in 1..n : s[k] = Resource(Nth(S, k))
  BY <1>6
<1> DEFINE Taken == {r \in {s[k] : k \in 1..n} : r.size \in Nat}
<1>8. s \in Seq(Taken)
  <2>1. \A k \in 1..n : s[k] \in Taken
    BY <1>7, ResourceFacts
  <2> HIDE DEF Taken
  <2>2. s \in [1..n -> Taken]
    BY <1>6, <2>1
  <2> QED BY <1>2, <2>2, Numbered
<1>9. Sized(s) /\ IsSequence(s)
  BY <1>8 DEF Sized, IsSequence
<1>10. Len(s) = n /\ DOMAIN s = 1..n
  BY <1>2, <1>6, NumberedSequence
<1> QED BY <1>2, <1>3, <1>6, <1>7, <1>9, <1>10 DEF n, s

(* The first names give the first resources.                                *)
LEMMA ListedPrefix ==
  ASSUME IsSequence(store.rows), NEW S \in SUBSET Names, NEW T \in SUBSET S,
         \A i \in T : \A k \in S \ T : i < k
  PROVE  /\ Len(Listed(T)) <= Len(Listed(S))
         /\ \A k \in 1..Len(Listed(T)) : Listed(T)[k] = Listed(S)[k]
<1> DEFINE N == Cardinality(Names)
           m == Cardinality(T)
           n == Cardinality(S)
<1>1. N \in Nat /\ S \in SUBSET (1..N) /\ T \in SUBSET Names
  BY NamesNumbered
<1> HIDE DEF N
<1>2. m <= n /\ \A k \in 1..m : Nth(T, k) = Nth(S, k)
  BY <1>1, FirstKeepPlaces
<1>3. /\ Len(Listed(S)) = n /\ Len(Listed(T)) = m /\ n \in Nat /\ m \in Nat
      /\ (\A k \in 1..n : Listed(S)[k] = Resource(Nth(S, k)))
      /\ \A k \in 1..m : Listed(T)[k] = Resource(Nth(T, k))
  BY <1>1, ListedFacts
<1> HIDE DEF m, n
<1>4. \A k \in 1..m : k \in 1..n
  BY <1>2, <1>3
<1> QED BY <1>2, <1>3, <1>4

(* No names, no resources.                                                  *)
LEMMA ListedNone == ASSUME IsSequence(store.rows) PROVE Listed({}) = <<>>
<1>1. Listed({}) = [k \in 1..Cardinality({}) |-> Resource(Nth({}, k))]
  BY ListedFacts
<1>2. Cardinality({}) = 0 /\ 1..0 = {}
  BY FS_EmptySet
<1>3. DOMAIN Listed({}) = {}
  BY <1>1, <1>2
<1> QED BY <1>1, <1>2

(* A name after all of these adds its resource at the end.                  *)
LEMMA ListedMore ==
  ASSUME IsSequence(store.rows), NEW S \in SUBSET Names, NEW c \in Names, \A x \in S : x < c
  PROVE  Listed(S \cup {c}) = Append(Listed(S), Resource(c))
<1> DEFINE U == S \cup {c}
           n == Cardinality(S)
           N == Cardinality(Names)
           s == Listed(S)
           t == Listed(U)
           a == Append(s, Resource(c))
<1>1. U \in SUBSET Names /\ c \notin S /\ c \in Nat
  BY NamesNumbered
<1>2. /\ IsFiniteSet(S) /\ n \in Nat /\ Len(s) = n /\ IsSequence(s)
      /\ \A k \in 1..n : s[k] = Resource(Nth(S, k))
  BY ListedFacts
<1>3. Cardinality(U) = n + 1
  BY <1>1, <1>2, FS_AddElement
<1>4. /\ t = [k \in 1..n + 1 |-> Resource(Nth(U, k))]
      /\ \A k, l \in 1..n + 1 : k < l => Nth(U, k) < Nth(U, l)
      /\ \E k \in 1..n + 1 : Nth(U, k) = c
      /\ \A k \in 1..n + 1 : Nth(U, k) \in U
  <2>1. c \in U
    OBVIOUS
  <2> HIDE DEF U, n, t
  <2>2. /\ t = [k \in 1..Cardinality(U) |-> Resource(Nth(U, k))]
        /\ \A k, l \in 1..Cardinality(U) : k < l => Nth(U, k) < Nth(U, l)
        /\ \E k \in 1..Cardinality(U) : Nth(U, k) = c
        /\ \A k \in 1..Cardinality(U) : Nth(U, k) \in U
    BY <1>1, <2>1, ListedFacts DEF t
  <2> QED BY <1>3, <2>2
<1>5. \A k \in 1..n : Nth(U, k) = Nth(S, k)
  <2>1. /\ N \in Nat /\ U \in SUBSET (1..N) /\ S \in SUBSET U
        /\ \A i \in S : \A k \in U \ S : i < k
    BY <1>1, NamesNumbered
  <2> HIDE DEF U, N
  <2> QED BY <2>1, FirstKeepPlaces
<1>6. Nth(U, n + 1) = c
  <2>1. PICK k \in 1..n + 1 : Nth(U, k) = c
    BY <1>4
  <2>2. ASSUME k # n + 1 PROVE FALSE
    <3>1. k < n + 1 /\ n + 1 \in 1..n + 1
      BY <1>2, <2>2
    <3>2. c < Nth(U, n + 1) /\ Nth(U, n + 1) \in U
      BY <1>4, <2>1, <3>1
    <3> DEFINE d == Nth(U, n + 1)
    <3>3. d \in Nat /\ c < d /\ (d = c \/ d < c)
      BY <1>1, <3>2, NamesNumbered
    <3> HIDE DEF d
    <3> QED BY <1>1, <3>3
  <2> QED BY <2>1, <2>2
<1>7. /\ DOMAIN a = 1..n + 1 /\ a[n + 1] = Resource(c) /\ (\A k \in 1..n : a[k] = s[k])
      /\ a = [k \in 1..n + 1 |-> a[k]]
  BY <1>2, AppendFacts
<1> HIDE DEF U, n, s, t, a
<1>8. \A k \in 1..n + 1 : a[k] = Resource(Nth(U, k))
  <2>1. \A k \in 1..n + 1 : k \in 1..n \/ k = n + 1
    BY <1>2
  <2> QED BY <1>2, <1>5, <1>6, <1>7, <2>1
<1> QED BY <1>4, <1>7, <1>8 DEF a, s, t, U

(* The bytes of some resources.                                             *)
Measures == [x \in Names |-> Resource(x).size]

(* The bytes of a list are those of its names, in any order.                *)
LEMMA ListedSum ==
  ASSUME IsSequence(store.rows), NEW S \in SUBSET Names
  PROVE  Sum(Listed(S)) = SumFunctionOnSet(Measures, S)
<1> DEFINE s == Listed(S)
           n == Cardinality(S)
           f == [k \in 1..n |-> s[k].size]
           h == [k \in 1..n |-> Nth(S, k)]
<1>1. /\ n \in Nat /\ DOMAIN s = 1..n
      /\ \A k \in 1..n : s[k] = Resource(Nth(S, k)) /\ Nth(S, k) \in S
      /\ \A x \in S : \E k \in 1..n : Nth(S, k) = x
      /\ \A k, l \in 1..n : k < l => Nth(S, k) < Nth(S, l)
  BY ListedFacts
<1>2. Sum(s) = SumFunctionOnSet(f, 1..n)
  <2>1. Sum(s) = SumFunction(f)
    BY <1>1 DEF Sum
  <2>2. DOMAIN f = 1..n
    OBVIOUS
  <2> HIDE DEF f
  <2> QED BY <2>1, <2>2 DEF SumFunction
<1> HIDE DEF n
<1>3. \A k \in 1..n : h[k] = Nth(S, k) /\ f[k] = Resource(Nth(S, k)).size
  BY <1>1
<1> HIDE DEF f, h, s
<1>4. \A k \in 1..n : f[k] \in Int /\ Measures[h[k]] = f[k] /\ h[k] \in S
  <2>1. \A x \in S : Measures[x] = Resource(x).size /\ Resource(x).size \in Int
    BY ResourceFacts DEF Measures
  <2> QED BY <1>1, <1>3, <2>1
<1>5. \A k, l \in 1..n : h[k] = h[l] => k = l
  <2>1. \A x \in S : x \in Nat
    BY NamesNumbered
  <2> SUFFICES ASSUME NEW k \in 1..n, NEW l \in 1..n, k # l PROVE h[k] # h[l]
    OBVIOUS
  <2>2. k < l \/ l < k
    BY <1>1
  <2>3. h[k] \in Nat /\ h[l] \in Nat /\ (h[k] < h[l] \/ h[l] < h[k])
    BY <1>1, <1>3, <2>1, <2>2
  <2> QED BY <2>3
<1>6. \A x \in S : \E k \in 1..n : h[k] = x
  BY <1>1, <1>3
<1>7. IsFiniteSet(1..n)
  BY <1>1, FS_Interval
<1>8. SumFunctionOnSet(Measures, S) = SumFunctionOnSet(f, 1..n)
  <2> DEFINE I == 1..n
  <2>1. /\ IsFiniteSet(I) /\ (\A x \in I : f[x] \in Int /\ Measures[h[x]] = f[x])
        /\ (\A x, y \in I : h[x] = h[y] => x = y)
        /\ (\A x \in I : h[x] \in S) /\ \A t \in S : \E x \in I : h[x] = t
    BY <1>4, <1>5, <1>6, <1>7
  <2> HIDE DEF I
  <2>2. SumFunctionOnSet(Measures, S) = SumFunctionOnSet(f, I)
    BY ONLY <2>1, SumOverImage
  <2> QED BY <2>2 DEF I
<1> QED BY <1>2, <1>8 DEF s

(* More names, more resources and more bytes.                               *)
LEMMA ListedGrows ==
  ASSUME IsSequence(store.rows), NEW S \in SUBSET Names, NEW T \in SUBSET S
  PROVE  /\ Len(Listed(T)) <= Len(Listed(S)) /\ Sum(Listed(T)) <= Sum(Listed(S))
         /\ Len(Listed(S)) \in Nat /\ Sum(Listed(S)) \in Nat
         /\ Len(Listed(T)) \in Nat /\ Sum(Listed(T)) \in Nat
<1>1. T \in SUBSET Names
  OBVIOUS
<1>2. /\ IsFiniteSet(S) /\ Len(Listed(S)) = Cardinality(S) /\ Len(Listed(T)) = Cardinality(T)
      /\ Sized(Listed(S)) /\ Sized(Listed(T))
      /\ Len(Listed(S)) \in Nat /\ Len(Listed(T)) \in Nat
  BY <1>1, ListedFacts
<1>3. Cardinality(T) <= Cardinality(S)
  BY <1>2, FS_Subset
<1>4. \A x \in S : Measures[x] \in Nat
  BY ResourceFacts DEF Measures
<1>5. SumFunctionOnSet(Measures, T) <= SumFunctionOnSet(Measures, S)
  BY <1>2, <1>4, SumMonotone
<1>6. Sum(Listed(S)) = SumFunctionOnSet(Measures, S) /\ Sum(Listed(T)) = SumFunctionOnSet(Measures, T)
  BY <1>1, ListedSum
<1>7. Sum(Listed(S)) \in Nat /\ Sum(Listed(T)) \in Nat
  BY <1>2, SumIsNat
<1> QED BY <1>2, <1>3, <1>5, <1>6, <1>7

(* Of the resources of some names, those with these names.                  *)
LEMMA ListedSome ==
  ASSUME IsSequence(store.rows), NEW S \in SUBSET Names, NEW T \in SUBSET S,
         NEW A, \A i : i \in A <=> i \in 1..Cardinality(S) /\ Nth(S, i) \in T
  PROVE  Picked(Listed(S), A) = Listed(T)
<1> DEFINE N == Cardinality(Names)
           s == Listed(S)
<1>1. N \in Nat /\ S \in SUBSET (1..N) /\ T \in SUBSET Names
  BY NamesNumbered
<1> HIDE DEF N
<1>0. PlacesOf(T, S, N, A)
  BY <1>1 DEF PlacesOf
<1>2. /\ Cardinality(A) = Cardinality(T)
      /\ \A k \in 1..Cardinality(A) : Nth(A, k) \in A /\ Nth(S, Nth(A, k)) = Nth(T, k)
  BY <1>0, NthOfSome
<1>3. Listed(T) = [k \in 1..Cardinality(T) |-> Resource(Nth(T, k))]
  BY <1>1, ListedFacts
<1>4. \A k \in 1..Cardinality(S) : s[k] = Resource(Nth(S, k))
  BY ListedFacts
<1> HIDE DEF s
<1>5. \A k \in 1..Cardinality(A) : s[Nth(A, k)] = Resource(Nth(T, k))
  BY <1>2, <1>4
<1>6. Picked(s, A) = [k \in 1..Cardinality(A) |-> s[Nth(A, k)]]
  BY DEF Picked
<1>7. Picked(s, A) = [k \in 1..Cardinality(A) |-> Resource(Nth(T, k))]
  BY <1>5, <1>6
<1> QED BY <1>2, <1>3, <1>7 DEF s

-----------------------------------------------------------------------------
(* The assembly of a table whose rows so far follow one another.            *)
Received == Len(store.rows) - Len(rows)

Follows(i) ==
  /\ store.rows[i] # Lost
  /\ store.rows[i].part = Cardinality({k \in RowsOf(store.rows[i].name) : k < i})

RowsUpTo(n, p) == {i \in RowsOf(n) : i <= p}

Assembling ==
  /\ Received \in Nat /\ IsSequence(rows) /\ IsSequence(current)
  /\ \A k \in 1..Len(rows) : rows[k] = store.rows[Received + k]
  /\ \A i \in 1..Received : Follows(i)
  /\ IF current = <<>> THEN Received = 0 \/ rows = <<>>
     ELSE /\ Received # 0 /\ Head(current).name = store.rows[Received].name
          /\ Len(current) = Cardinality(RowsUpTo(store.rows[Received].name, Received))

Delivered ==
  {n \in Names : /\ \E i \in 1..Received : store.rows[i].name = n
                 /\ current # <<>> => n # Head(current).name}

(* The rows of a table that is in order, up to one of them.                 *)
LEMMA RowsInOrder ==
  ASSUME StoreOK, NEW p \in Nat, p <= Len(store.rows), \A i \in 1..p : Follows(i)
  PROVE  /\ Len(store.rows) \in Nat /\ DOMAIN store.rows = 1..Len(store.rows)
         /\ IsSequence(store.rows)
         /\ \A i \in 1..p : store.rows[i].name \in Names /\ store.rows[i].name \in Nat
         /\ \A i, k \in 1..p : i < k => store.rows[i].name <= store.rows[k].name
         /\ \A n : IsFiniteSet(RowsUpTo(n, p))
<1>1. IsSequence(store.rows)
  BY DEF StoreOK, InOrder
<1>2. Len(store.rows) \in Nat /\ DOMAIN store.rows = 1..Len(store.rows)
  BY <1>1, SequenceFacts
<1> DEFINE R == store.rows
           m == Len(R)
<1>3. /\ \A i \in 1..m : R[i] = Lost \/ R[i].name \in Names
      /\ \A i, k \in 1..m : i < k /\ R[i] # Lost /\ R[k] # Lost => R[i].name <= R[k].name
  BY <1>2 DEF StoreOK, InOrder
<1>4. \A i \in 1..p : R[i] # Lost
  BY DEF Follows
<1>5. \A i \in 1..p : i \in 1..m
  BY <1>2
<1> HIDE DEF R, m
<1>6. /\ \A i \in 1..p : R[i].name \in Names /\ R[i].name \in Nat
      /\ \A i, k \in 1..p : i < k => R[i].name <= R[k].name
  BY <1>3, <1>4, <1>5, NamesNumbered
<1>7. \A n : IsFiniteSet(RowsUpTo(n, p))
  <2>1. \A n : RowsUpTo(n, p) \in SUBSET RowsOf(n)
    BY DEF RowsUpTo
  <2> QED BY <1>1, <2>1, ResourceFacts, FS_Subset
<1> QED BY <1>1, <1>2, <1>6, <1>7 DEF R

(* What the next row should be, and when a resource has no more rows.       *)
LEMMA NextRow ==
  ASSUME StoreOK, NEW p \in Nat, p < Len(store.rows), \A i \in 1..p : Follows(i),
         NEW n, n = store.rows[p + 1].name
  PROVE  /\ {k \in RowsOf(n) : k < p + 1} = RowsUpTo(n, p)
         /\ p = 0 => RowsUpTo(n, p) = {}
         /\ (p # 0 /\ store.rows[p + 1] # Lost /\ store.rows[p].name # n) =>
              /\ RowsUpTo(n, p) = {} /\ n \in Names /\ store.rows[p].name < n
              /\ RowsOf(store.rows[p].name) = RowsUpTo(store.rows[p].name, p)
         /\ p + 1 \in RowsOf(n)
<1> DEFINE R == store.rows
           m == Len(R)
<1>1. /\ m \in Nat /\ DOMAIN R = 1..m
      /\ (\A i \in 1..p : R[i].name \in Names /\ R[i].name \in Nat)
      /\ \A i, k \in 1..p : i < k => R[i].name <= R[k].name
  <2>1. Len(store.rows) \in Nat
    BY SequenceFacts DEF StoreOK, InOrder
  <2>2. p <= Len(store.rows)
    BY <2>1
  <2> QED BY <2>2, RowsInOrder
<1>2. /\ \A i \in 1..m : IF R[i] = Lost THEN i = m ELSE R[i].name \in Names
      /\ \A i, k \in 1..m : i < k /\ R[i] # Lost /\ R[k] # Lost => R[i].name <= R[k].name
      /\ \A i \in 1..p : R[i] # Lost
  BY <1>1 DEF StoreOK, InOrder, Follows
<1>3. /\ \A x, k : k \in RowsOf(x) <=> k \in 1..m /\ R[k].name = x
      /\ \A x, k : k \in RowsUpTo(x, p) <=> k \in 1..m /\ R[k].name = x /\ k <= p
  BY <1>1 DEF RowsOf, RowsUpTo
<1> HIDE DEF R, m
<1>4. p + 1 \in 1..m /\ p + 1 \in RowsOf(n)
  BY <1>1, <1>3 DEF R, m
<1>5. {k \in RowsOf(n) : k < p + 1} = RowsUpTo(n, p)
  <2>1. \A k \in 1..m : k < p + 1 <=> k <= p
    BY <1>1
  <2> QED BY <1>3, <2>1
<1>6. ASSUME p = 0 PROVE RowsUpTo(n, p) = {}
  <2>1. \A k \in 1..m : ~(k <= p)
    BY <1>1, <1>6
  <2> QED BY <1>3, <2>1
<1>7. ASSUME p # 0, R[p + 1] # Lost, R[p].name # n
      PROVE  /\ RowsUpTo(n, p) = {} /\ n \in Names /\ R[p].name < n
             /\ RowsOf(R[p].name) = RowsUpTo(R[p].name, p)
  <2> DEFINE c == R[p].name
  <2>1. p \in 1..p /\ p \in 1..m /\ p < p + 1
    BY <1>1, <1>4, <1>7
  <2>2. c \in Names /\ c \in Nat /\ n \in Names /\ n \in Nat /\ c <= n /\ n = R[p + 1].name
    BY <1>1, <1>2, <1>4, <1>7, <2>1, NamesNumbered DEF R
  <2>3. c # n
    BY <1>7
  <2>4. ASSUME NEW k \in 1..m, k <= p PROVE R[k].name \in Nat /\ R[k].name <= c
    <3>1. k \in 1..p
      BY <1>1, <2>4
    <3>2. R[k].name \in Nat /\ (k = p \/ k < p)
      BY <1>1, <3>1
    <3> QED BY <1>1, <2>1, <2>2, <3>1, <3>2
  <2>5. ASSUME NEW k \in 1..m, ~(k <= p), R[k].name = c PROVE FALSE
    <3>1. k = p + 1 \/ p + 1 < k
      BY <1>1, <2>5
    <3>2. R[k] # Lost
      BY <2>2, <2>5, LostIsNoRow
    <3>3. n <= c
      BY <1>2, <1>4, <1>7, <2>2, <2>5, <3>1, <3>2
    <3> HIDE DEF c
    <3> QED BY <2>2, <2>3, <3>3
  <2>9. \A k \in 1..m : R[k].name = c => k <= p
    BY <2>5
  <2> HIDE DEF c
  <2>6. c < n
    BY <2>2, <2>3
  <2>7. \A k : k \notin RowsUpTo(n, p)
    <3> SUFFICES ASSUME NEW k \in 1..m, R[k].name = n, k <= p PROVE FALSE
      BY <1>3
    <3>1. n <= c
      BY <2>4
    <3> QED BY <2>2, <2>6, <3>1
  <2>8. RowsOf(c) = RowsUpTo(c, p)
    <3>1. \A k : k \in RowsOf(c) <=> k \in RowsUpTo(c, p)
      BY <1>3, <2>9
    <3>2. RowsOf(c) \in SUBSET (1..m) /\ RowsUpTo(c, p) \in SUBSET (1..m)
      BY <1>3
    <3> QED BY <3>1, <3>2
  <2> QED BY <2>2, <2>6, <2>7, <2>8 DEF c
<1> QED BY <1>4, <1>5, <1>6, <1>7 DEF R

(* The next row is the one expected exactly when it follows.                *)
LEMMA RowTells ==
  ASSUME StoreOK, Assembling, rows # <<>>
  PROVE  /\ Received + 1 \in 1..Len(store.rows) /\ Received < Len(store.rows)
         /\ Head(rows) = store.rows[Received + 1]
         /\ InSequence(Head(rows)) <=> Follows(Received + 1)
         /\ current # <<>> => /\ Received # 0 /\ Received \in 1..Received
                              /\ Head(current).name = store.rows[Received].name
         /\ current = <<>> => Received = 0
<1> DEFINE R == store.rows
           m == Len(R)
           p == Received
           row == R[p + 1]
           n == row.name
<1>1. Len(rows) \in Nat /\ Len(rows) # 0 /\ m \in Nat /\ p \in Nat /\ p + Len(rows) = m
  <2>1. Len(rows) \in Nat /\ Len(rows) # 0
    BY EmptySeq, SequenceFacts DEF Assembling, IsSequence
  <2>2. Len(store.rows) \in Nat
    BY SequenceFacts DEF StoreOK, InOrder
  <2> QED BY <2>1, <2>2 DEF Assembling, Received
<1>2. p < m /\ p + 1 \in 1..m /\ 1 \in 1..Len(rows)
  BY <1>1
<1>3. Head(rows) = row
  <2>1. Head(rows) = rows[1]
    BY <1>1, HeadTailProperties DEF Assembling, IsSequence
  <2> QED BY <1>2, <2>1 DEF Assembling
<1>4. \A i \in 1..p : Follows(i)
  BY DEF Assembling
<1>5. /\ {k \in RowsOf(n) : k < p + 1} = RowsUpTo(n, p)
      /\ p = 0 => RowsUpTo(n, p) = {}
      /\ (p # 0 /\ row # Lost /\ R[p].name # n) => RowsUpTo(n, p) = {}
  BY <1>1, <1>2, <1>4, NextRow
<1>6. Follows(p + 1) <=> row # Lost /\ row.part = Cardinality(RowsUpTo(n, p))
  BY <1>5 DEF Follows
<1>7. /\ current # <<>> => p # 0 /\ Head(current).name = R[p].name
      /\ current # <<>> => Len(current) = Cardinality(RowsUpTo(R[p].name, p))
      /\ current = <<>> => p = 0
  BY DEF Assembling
<1>8. Cardinality({}) = 0
  BY FS_EmptySet
<1> DEFINE up(x) == RowsUpTo(x, p)
<1>9. InSequence(row) <=> row # Lost /\ row.part = Cardinality(up(n))
  <2>1. CASE current # <<>> /\ R[p].name = n
    BY <1>7, <2>1 DEF InSequence, Continues
  <2>2. CASE current # <<>> /\ R[p].name # n
    <3>1. row # Lost => Cardinality(up(n)) = 0
      BY <1>5, <1>7, <1>8, <2>2
    <3>2. ~Continues(row)
      BY <1>7, <2>2 DEF Continues
    <3> QED BY <3>1, <3>2 DEF InSequence
  <2>3. CASE current = <<>>
    <3>1. Cardinality(up(n)) = 0
      BY <1>5, <1>7, <1>8, <2>3
    <3>2. ~Continues(row)
      BY <2>3 DEF Continues
    <3> QED BY <3>1, <3>2 DEF InSequence
  <2> QED BY <2>1, <2>2, <2>3
<1>10. p # 0 => p \in 1..p
  BY <1>1
<1> QED BY <1>2, <1>3, <1>6, <1>7, <1>9, <1>10

(* Only the empty sequence has no length.                                   *)
LEMMA EmptyIsShort == ASSUME NEW s, IsSequence(s) PROVE Len(s) \in Nat /\ (s = <<>> <=> Len(s) = 0)
<1>1. PICK S : s \in Seq(S)
  BY DEF IsSequence
<1>2. Len(s) \in Nat /\ Len(<<>>) = 0 /\ (s # <<>> => Len(s) # 0)
  BY <1>1, EmptySeq, LenProperties
<1> QED BY <1>2

(* What is left after the first element.                                    *)
LEMMA TailFacts ==
  ASSUME NEW s, IsSequence(s), s # <<>>
  PROVE  LET n == Len(s)
             t == Tail(s)
         IN /\ n \in Nat /\ n # 0 /\ IsSequence(t) /\ Len(t) = n - 1
            /\ \A k \in 1..n - 1 : t[k] = s[k + 1]
<1>1. PICK S : s \in Seq(S)
  BY DEF IsSequence
<1>2. Len(s) \in Nat /\ Len(s) # 0
  BY <1>1, EmptySeq, LenProperties
<1>3. Tail(s) \in Seq(S) /\ Len(Tail(s)) = Len(s) - 1
      /\ \A k \in 1..Len(Tail(s)) : Tail(s)[k] = s[k + 1]
  BY <1>1, <1>2, HeadTailProperties
<1> QED BY <1>2, <1>3 DEF IsSequence

(* One more row is received.                                                *)
LEMMA OneReceived ==
  ASSUME StoreOK, Assembling, rows # <<>>, Follows(Received + 1), rows' = Tail(rows), store' = store
  PROVE  /\ Received' = Received + 1 /\ Received \in Nat /\ Received' \in Nat /\ Received' # 0
         /\ IsSequence(rows')
         /\ \A k \in 1..Len(rows') : rows'[k] = store'.rows[Received' + k]
         /\ \A i \in 1..Received' : Follows(i)' /\ Follows(i)
<1> DEFINE n == Len(rows)
           m == Len(store.rows)
           p == Received
<1>1. n \in Nat /\ IsSequence(rows') /\ Len(rows') = n - 1 /\ \A k \in 1..n - 1 : rows'[k] = rows[k + 1]
  BY TailFacts DEF Assembling
<1>2. m \in Nat /\ p = m - n /\ p \in Nat
  BY SequenceFacts DEF StoreOK, InOrder, Assembling, Received
<1>3. \A k \in 1..n : rows[k] = store.rows[p + k]
  BY DEF Assembling
<1>4. Received' = Len(store'.rows) - Len(rows')
  BY DEF Received
<1> HIDE DEF n, m, p
<1>5. Received' = p + 1
  BY <1>1, <1>2, <1>4 DEF m
<1>6. ASSUME NEW k \in 1..n - 1 PROVE rows'[k] = store.rows[p + 1 + k]
  <2>1. k + 1 \in 1..n /\ p + (k + 1) = p + 1 + k
    BY <1>1, <1>2
  <2> QED BY <1>1, <1>3, <2>1
<1>7. \A i \in 1..p + 1 : Follows(i)
  <2>1. \A i \in 1..p : Follows(i)
    BY DEF Assembling, p
  <2>2. \A i \in 1..p + 1 : i \in 1..p \/ i = p + 1
    BY <1>2
  <2>3. Follows(p + 1)
    BY DEF p
  <2> QED BY <2>1, <2>2, <2>3
<1>8. \A i : Follows(i)' <=> Follows(i)
  BY DEF Follows, RowsOf
<1>9. \A i \in 1..p + 1 : Follows(i)' /\ Follows(i)
  BY <1>7, <1>8
<1>10. p + 1 \in Nat /\ p + 1 # 0
  BY <1>2
<1> QED BY <1>1, <1>2, <1>5, <1>6, <1>9, <1>10 DEF p

(* The row continues the resource under assembly.                           *)
LEMMA RowContinues ==
  ASSUME StoreOK, Assembling, rows # <<>>, InSequence(Head(rows)), Continues(Head(rows)),
         rows' = Tail(rows), current' = Append(current, Head(rows)), store' = store
  PROVE  Assembling' /\ Delivered' = Delivered
<1> DEFINE R == store.rows
           p == Received
           c == R[p].name
<1>1. /\ p + 1 \in 1..Len(R) /\ Follows(p + 1) /\ Head(rows) = R[p + 1] /\ p < Len(R)
      /\ p # 0 /\ Head(current).name = c /\ current # <<>> /\ p \in 1..p
  BY RowTells DEF Continues
<1>2. R[p + 1].name = c
  BY <1>1 DEF Continues
<1>3. /\ Received' = p + 1 /\ p \in Nat /\ IsSequence(rows')
      /\ Received' \in Nat /\ Received' # 0
      /\ \A k \in 1..Len(rows') : rows'[k] = store'.rows[Received' + k]
      /\ \A i \in 1..Received' : Follows(i)' /\ Follows(i)
  BY <1>1, OneReceived
<1>4. IsSequence(current) /\ Len(current) = Cardinality(RowsUpTo(c, p))
  BY <1>1 DEF Assembling
<1>5. IsSequence(current') /\ Len(current') = Len(current) + 1 /\ current' # <<>>
      /\ Head(current') = Head(current)
  <2>1. PICK S : current \in Seq(S)
    BY <1>4 DEF IsSequence
  <2> DEFINE U == S \cup {Head(rows)}
  <2>2. current \in Seq(U) /\ Head(rows) \in U
    BY <2>1, SeqMonotonic
  <2> HIDE DEF U
  <2>3. /\ current' \in Seq(U) /\ Len(current') = Len(current) + 1 /\ Len(current) \in Nat
        /\ \A i \in 1..Len(current) : current'[i] = current[i]
    BY <2>2, AppendProperties, LenProperties
  <2>4. current' # <<>> /\ Len(current) # 0 /\ 1 \in 1..Len(current)
    <3>1. IsSequence(current') /\ Len(current') # 0 /\ Len(current) # 0
      BY <1>1, <1>4, <2>3, EmptyIsShort DEF IsSequence
    <3> QED BY <2>3, <3>1, EmptyIsShort
  <2>5. Head(current') = current'[1] /\ Head(current) = current[1]
    BY <1>1, <2>2, <2>3, <2>4, HeadTailProperties
  <2> QED BY <2>3, <2>4, <2>5 DEF IsSequence
<1>6. Cardinality(RowsUpTo(c, p + 1)) = Cardinality(RowsUpTo(c, p)) + 1
  <2>1. p + 1 \in RowsOf(c)
    <3>1. \A i \in 1..p : Follows(i)
      BY DEF Assembling
    <3> QED BY <1>1, <1>2, <1>3, <3>1, NextRow
  <2>2. \A i \in RowsOf(c) : i \in Nat
    BY SequenceFacts DEF RowsOf, StoreOK, InOrder
  <2>3. \A i \in Nat : (i <= p + 1 <=> (i <= p \/ i = p + 1)) /\ ~(p + 1 <= p)
    BY <1>3
  <2> HIDE DEF R, p, c
  <2>4. RowsUpTo(c, p + 1) = RowsUpTo(c, p) \cup {p + 1} /\ p + 1 \notin RowsUpTo(c, p)
    BY <2>1, <2>2, <2>3 DEF RowsUpTo
  <2>5. IsFiniteSet(RowsUpTo(c, p))
    <3>1. IsFiniteSet(RowsOf(c)) /\ RowsUpTo(c, p) \in SUBSET RowsOf(c)
      BY ResourceFacts DEF RowsUpTo, StoreOK, InOrder
    <3> QED BY <3>1, FS_Subset
  <2> QED BY <2>4, <2>5, FS_AddElement
<1>8. Assembling'
  <2>1. Head(current').name = store'.rows[Received'].name /\ store'.rows[Received'].name = c
    BY <1>1, <1>2, <1>3, <1>5
  <2>2. Len(current') = Cardinality(RowsUpTo(store.rows[Received].name, Received)')
    <3>1. RowsUpTo(store.rows[Received].name, Received)' = RowsUpTo(c, p + 1)
      BY <1>3, <2>1 DEF RowsUpTo, RowsOf
    <3> QED BY <1>4, <1>5, <1>6, <3>1
  <2> QED BY <1>3, <1>5, <2>1, <2>2 DEF Assembling
<1>9. Delivered' = Delivered
  <2>1. \A i \in 1..p : i \in 1..p + 1
    BY <1>3
  <2>2. \A i \in 1..p + 1 : i \in 1..p \/ i = p + 1
    BY <1>3
  <2>3. Delivered = {n \in Names : (\E i \in 1..p : R[i].name = n) /\ n # c}
    BY <1>1 DEF Delivered
  <2>4. Delivered' = {n \in Names : (\E i \in 1..p + 1 : R[i].name = n) /\ n # c}
    BY <1>1, <1>3, <1>5 DEF Delivered
  <2> HIDE DEF R, p, c
  <2>5. \A n : (\E i \in 1..p : R[i].name = n) /\ n # c <=> (\E i \in 1..p + 1 : R[i].name = n) /\ n # c
    BY <1>2, <2>1, <2>2
  <2> QED BY <2>3, <2>4, <2>5
<1> QED BY <1>8, <1>9

(* What is delivered comes before what is not.                              *)
LEMMA DeliveredFirst ==
  ASSUME StoreOK, Assembling
  PROVE  /\ Delivered \in SUBSET Stored /\ Stored \in SUBSET Names
         /\ \A x \in Delivered : \A y \in Stored \ Delivered : x < y
         /\ current # <<>> => /\ Head(current).name \in Stored \ Delivered
                              /\ \A x \in Delivered : x < Head(current).name
<1> DEFINE R == store.rows
           m == Len(R)
           p == Received
<1>1. m \in Nat /\ p \in Nat /\ p <= m /\ p + Len(rows) = m /\ Len(rows) \in Nat
  <2>1. m \in Nat /\ Len(rows) \in Nat
    BY SequenceFacts DEF StoreOK, InOrder, Assembling
  <2> QED BY <2>1 DEF Assembling, Received
<1>2. \A i \in 1..p : Follows(i)
  BY DEF Assembling
<1>3. /\ DOMAIN R = 1..m
      /\ (\A i \in 1..p : R[i].name \in Names /\ R[i].name \in Nat)
      /\ \A i, k \in 1..p : i < k => R[i].name <= R[k].name
  BY <1>1, <1>2, RowsInOrder
<1>4. \A i \in 1..p : i \in 1..m
  BY <1>1
<1>5. \A n : n \in Stored <=> n \in Names /\ \E i \in 1..m : R[i].name = n
  BY <1>3 DEF Stored, RowsOf
<1>6. Delivered \in SUBSET Stored
  BY <1>4, <1>5 DEF Delivered
<1>7. /\ \A i, k \in 1..m : i < k /\ R[i] # Lost /\ R[k] # Lost => R[i].name <= R[k].name
      /\ \A i \in 1..p : R[i] # Lost
  BY <1>2, <1>3 DEF StoreOK, InOrder, Follows
<1>8. ASSUME current # <<>>
      PROVE  /\ Head(current).name \in Stored \ Delivered
             /\ \A x \in Delivered : x < Head(current).name
             /\ \A y \in Stored : y < Head(current).name => y \in Delivered
  <2> DEFINE c == Head(current).name
  <2>1. p # 0 /\ c = R[p].name /\ p \in 1..p
    BY <1>1, <1>8 DEF Assembling
  <2>2. c \in Stored /\ c \notin Delivered /\ c \in Nat
    BY <1>3, <1>4, <1>5, <1>8, <2>1 DEF Delivered
  <2>3. ASSUME NEW i \in 1..p PROVE R[i].name \in Nat /\ R[i].name <= c
    <3>1. i = p \/ i < p
      BY <1>1
    <3>2. R[i].name \in Nat
      BY <1>3
    <3> HIDE DEF R, p, c
    <3>3. CASE i = p
      BY <2>1, <2>2, <3>3
    <3>4. CASE i < p
      BY <1>3, <2>1, <3>2, <3>4
    <3> QED BY <3>1, <3>2, <3>3, <3>4
  <2>4. ASSUME NEW x \in Delivered PROVE x < c
    <3>1. PICK i \in 1..p : R[i].name = x
      BY DEF Delivered
    <3>2. x # c
      BY <1>8 DEF Delivered
    <3>3. x \in Nat /\ x <= c
      BY <2>3, <3>1
    <3> HIDE DEF c
    <3> QED BY <2>2, <3>2, <3>3
  <2>5. ASSUME NEW y \in Stored, y < c PROVE y \in Delivered
    <3>1. PICK k \in 1..m : R[k].name = y
      BY <1>5
    <3>2. y \in Names /\ y \in Nat /\ R[k] # Lost
      BY <1>5, <3>1, LostIsNoRow, NamesNumbered
    <3>3. ASSUME ~(k <= p) PROVE FALSE
      <4>1. p < k /\ p \in 1..m
        BY <1>1, <1>4, <2>1, <3>3
      <4>2. R[p] # Lost
        BY <1>7, <2>1
      <4>3. c <= y
        BY <1>7, <2>1, <3>1, <3>2, <4>1, <4>2
      <4> HIDE DEF c
      <4> QED BY <2>2, <2>5, <3>2, <4>3
    <3>4. k \in 1..p
      BY <1>1, <3>3
    <3>5. y # c
      <4> HIDE DEF c
      <4> QED BY <2>2, <2>5, <3>2
    <3> QED BY <3>1, <3>2, <3>4, <3>5 DEF Delivered
  <2> QED BY <2>2, <2>4, <2>5
<1>9. ASSUME current = <<>> PROVE \A x \in Delivered : \A y \in Stored : y \in Delivered
  <2>1. CASE p = 0
    <3>1. 1..p = {}
      BY <2>1
    <3> QED BY <3>1 DEF Delivered
  <2>2. CASE rows = <<>>
    <3>1. p = m
      BY <1>1, <2>2, EmptyIsShort DEF Assembling
    <3> QED BY <1>5, <1>9, <3>1 DEF Delivered
  <2> QED BY <1>9, <2>1, <2>2 DEF Assembling
<1>10. ASSUME NEW x \in Delivered, NEW y \in Stored, y \notin Delivered PROVE x < y
  <2>1. current # <<>>
    BY <1>9, <1>10
  <2> DEFINE c == Head(current).name
  <2>2. x < c /\ c \in Stored /\ ~(y < c)
    BY <1>8, <1>10, <2>1
  <2>3. x \in Nat /\ y \in Nat /\ c \in Nat
    BY <1>6, <2>2, NamesNumbered DEF Stored
  <2> HIDE DEF c
  <2> QED BY <2>2, <2>3
<1>11. Stored \in SUBSET Names
  BY DEF Stored
<1> QED BY <1>6, <1>8, <1>10, <1>11

(* When every row was taken, every resource was delivered and the table is  *)
(* whole.                                                                   *)
LEMMA AllDelivered ==
  ASSUME StoreOK, Assembling, rows = <<>>, current = <<>>
  PROVE  Delivered = Stored /\ Whole
<1>1. Received = Len(store.rows) /\ DOMAIN store.rows = 1..Len(store.rows)
  <2>1. Len(rows) = 0 /\ Len(store.rows) \in Nat /\ DOMAIN store.rows = 1..Len(store.rows)
    BY EmptyIsShort, SequenceFacts DEF StoreOK, InOrder, Assembling
  <2> QED BY <2>1 DEF Received
<1>2. Delivered = Stored
  BY <1>1 DEF Delivered, Stored, RowsOf
<1>3. \A i \in DOMAIN store.rows : Follows(i)
  BY <1>1 DEF Assembling
<1> QED BY <1>2, <1>3 DEF Whole, Follows

(* A resource whose rows have all come is assembled.                        *)
LEMMA CurrentDone ==
  ASSUME StoreOK, Assembling, current # <<>>,
         rows # <<>> => InSequence(Head(rows)) /\ ~Continues(Head(rows))
  PROVE  Assembled = Resource(Head(current).name)
<1> DEFINE p == Received
           c == store.rows[p].name
<1>1. Head(current).name = c /\ Len(current) = Cardinality(RowsUpTo(c, p)) /\ p # 0
  BY DEF Assembling
<1>2. RowsUpTo(c, p) = RowsOf(c)
  <2>1. CASE rows = <<>>
    <3>1. p = Len(store.rows) /\ DOMAIN store.rows = 1..Len(store.rows) /\ Len(store.rows) \in Nat
      <4>1. Len(rows) = 0 /\ Len(store.rows) \in Nat /\ DOMAIN store.rows = 1..Len(store.rows)
        BY <2>1, EmptyIsShort, SequenceFacts DEF StoreOK, InOrder, Assembling
      <4> QED BY <4>1 DEF Received
    <3>2. \A i \in RowsOf(c) : i <= p
      BY <3>1 DEF RowsOf
    <3> QED BY <3>2 DEF RowsUpTo
  <2>2. CASE rows # <<>>
    <3>1. /\ p < Len(store.rows) /\ Head(rows) = store.rows[p + 1] /\ p \in Nat
          /\ \A i \in 1..p : Follows(i)
      BY <2>2, RowTells DEF Assembling
    <3>2. store.rows[p + 1] # Lost /\ c # store.rows[p + 1].name
      BY <1>1, <2>2, <3>1 DEF InSequence, Continues
    <3> QED BY <1>1, <3>1, <3>2, NextRow
  <2> QED BY <2>1, <2>2
<1> QED BY <1>1, <1>2 DEF Assembled, Resource

WithCurrent == IF current = <<>> THEN Delivered ELSE Delivered \cup {Head(current).name}

(* A row of the next name closes the resource under assembly.               *)
LEMMA RowBegins ==
  ASSUME StoreOK, Assembling, rows # <<>>, InSequence(Head(rows)), ~Continues(Head(rows)),
         rows' = Tail(rows), current' = <<Head(rows)>>, store' = store
  PROVE  Assembling' /\ Delivered' = WithCurrent
<1> DEFINE R == store.rows
           p == Received
           n == R[p + 1].name
<1>1. /\ p + 1 \in 1..Len(R) /\ Follows(p + 1) /\ Head(rows) = R[p + 1] /\ p < Len(R)
      /\ current # <<>> => p # 0 /\ p \in 1..p /\ Head(current).name = R[p].name
      /\ current = <<>> => p = 0
  BY RowTells
<1>2. /\ Received' = p + 1 /\ p \in Nat /\ IsSequence(rows')
      /\ Received' \in Nat /\ Received' # 0
      /\ \A k \in 1..Len(rows') : rows'[k] = store'.rows[Received' + k]
      /\ \A i \in 1..Received' : Follows(i)' /\ Follows(i)
  BY <1>1, OneReceived
<1>3. IsSequence(current') /\ Len(current') = 1 /\ current' # <<>> /\ Head(current') = Head(rows)
  <2>1. current' \in Seq({Head(rows)}) /\ Len(current') = 1 /\ current'[1] = Head(rows)
    OBVIOUS
  <2>2. IsSequence(current') /\ current' # <<>>
    BY <2>1, EmptyIsShort DEF IsSequence
  <2> QED BY <2>1, <2>2
<1>4. \A i \in 1..p : Follows(i)
  BY DEF Assembling
<1>5. p + 1 \in RowsOf(n) /\ RowsUpTo(n, p) = {} /\ (current # <<>> => R[p].name # n)
  <2>1. current # <<>> => R[p].name # n
    BY <1>1 DEF Continues
  <2>2. R[p + 1] # Lost
    BY <1>1 DEF Follows
  <2> QED BY <1>1, <1>2, <1>4, <2>1, <2>2, NextRow
<1>6. Cardinality(RowsUpTo(n, p + 1)) = 1
  <2>1. \A i \in RowsOf(n) : i \in Nat
    BY SequenceFacts DEF RowsOf, StoreOK, InOrder
  <2>2. \A i \in Nat : (i <= p + 1 <=> (i <= p \/ i = p + 1))
    BY <1>2
  <2> HIDE DEF R, p, n
  <2>3. RowsUpTo(n, p + 1) = {p + 1}
    BY <1>5, <2>1, <2>2 DEF RowsUpTo
  <2> QED BY <2>3, FS_Singleton
<1>7. Assembling'
  <2>1. Head(current').name = store'.rows[Received'].name /\ store'.rows[Received'].name = n
    BY <1>1, <1>2, <1>3
  <2>2. RowsUpTo(store.rows[Received].name, Received)' = RowsUpTo(n, p + 1)
    BY <1>2, <2>1 DEF RowsUpTo, RowsOf
  <2> QED BY <1>2, <1>3, <1>6, <2>1, <2>2 DEF Assembling
<1>8. Delivered' = WithCurrent
  <2>1. \A i \in 1..p : i \in 1..p + 1
    BY <1>2
  <2>2. \A i \in 1..p + 1 : i \in 1..p \/ i = p + 1
    BY <1>2
  <2>3. Delivered' = {x \in Names : (\E i \in 1..p + 1 : R[i].name = x) /\ x # n}
    BY <1>1, <1>2, <1>3 DEF Delivered
  <2>4. \A i \in 1..p : R[i].name # n
    <3>1. \A i \in 1..p : i \in DOMAIN R /\ i <= p
      BY <1>1, <1>2, SequenceFacts DEF StoreOK, InOrder
    <3> HIDE DEF n, p
    <3> QED BY <1>5, <3>1 DEF RowsUpTo, RowsOf
  <2>5. Delivered' = {x \in Names : \E i \in 1..p : R[i].name = x}
    <3> HIDE DEF R, p, n
    <3>1. \A x : ((\E i \in 1..p + 1 : R[i].name = x) /\ x # n) <=> \E i \in 1..p : R[i].name = x
      <4>1. R[p + 1].name = n
        BY DEF n
      <4> QED BY <2>1, <2>2, <2>4, <4>1
    <3> QED BY <2>3, <3>1
  <2>6. CASE current = <<>>
    BY <2>5, <2>6 DEF Delivered, WithCurrent
  <2>7. CASE current # <<>>
    <3>1. Head(current).name \in Names /\ \E i \in 1..p : R[i].name = Head(current).name
      BY <1>1, <2>7, DeliveredFirst
    <3> QED BY <2>5, <2>7, <3>1 DEF Delivered, WithCurrent
  <2> QED BY <2>6, <2>7
<1> QED BY <1>7, <1>8

(* So does the end of the rows.                                             *)
LEMMA RowsDone ==
  ASSUME StoreOK, Assembling, rows = <<>>, current' = <<>>, rows' = rows, store' = store
  PROVE  Assembling' /\ Delivered' = WithCurrent
<1>1. Received' = Received /\ \A i : Follows(i)' <=> Follows(i)
  BY DEF Received, Follows, RowsOf
<1>2. Assembling'
  BY <1>1, NothingSized DEF Assembling
<1>3. Delivered' = {x \in Names : \E i \in 1..Received : store.rows[i].name = x}
  BY <1>1 DEF Delivered
<1>4. CASE current = <<>>
  BY <1>2, <1>3, <1>4 DEF Delivered, WithCurrent
<1>5. CASE current # <<>>
  <2>1. Head(current).name = store.rows[Received].name /\ Received \in 1..Received
    BY <1>5 DEF Assembling
  <2>2. Head(current).name \in Names
    BY <1>5, DeliveredFirst
  <2> QED BY <1>2, <1>3, <1>5, <2>1, <2>2 DEF Delivered, WithCurrent
<1> QED BY <1>4, <1>5

(* Before the first row nothing is delivered.                               *)
LEMMA AssemblingStarts ==
  ASSUME StoreOK, rows = store.rows, current = <<>>
  PROVE  Assembling /\ Delivered = {}
<1>1. Received = 0
  <2>1. Len(store.rows) \in Nat
    BY SequenceFacts DEF StoreOK, InOrder
  <2> QED BY <2>1 DEF Received
<1>2. 1..0 = {}
  OBVIOUS
<1>3. \A k \in 1..Len(rows) : 0 + k = k
  <2>1. Len(rows) \in Nat
    BY SequenceFacts DEF StoreOK, InOrder
  <2> QED BY <2>1
<1>4. IsSequence(rows) /\ IsSequence(current)
  BY NothingSized DEF StoreOK, InOrder
<1> QED BY <1>1, <1>2, <1>3, <1>4 DEF Assembling, Delivered

-----------------------------------------------------------------------------
(* What is decoded and kept of the resources delivered.                     *)
Metadata == {n \in Names : store.text[n] # "other"}

Asked == IF store.plan = "stream" THEN {} ELSE IF store.plan = "selected" THEN Names \cap Selected ELSE Names

(* What is decoded and what is kept, as lists of names of the table.        *)
LEMMA ListsAre ==
  ASSUME StoreOK
  PROVE  /\ ToDecode = Listed(Stored \cap Metadata) /\ Kept = Listed(Stored \cap Asked)
         /\ Metadata \in SUBSET Names /\ Asked \in SUBSET Names /\ Stored \in SUBSET Names
         /\ IsSequence(store.rows)
<1>1. Stored \in SUBSET Names
  BY DEF Stored
<1>2. {n \in Stored : store.text[n] # "other"} = Stored \cap Metadata
  BY <1>1 DEF Metadata
<1>3. store.plan \in {"stream", "selected", "whole"}
  BY DEF StoreOK, Plans
<1>4. Wanted = Stored \cap Asked
  <2>1. CASE store.plan = "stream"
    BY <2>1 DEF Wanted, Asked
  <2>2. CASE store.plan = "selected"
    BY <1>1, <2>2 DEF Wanted, Asked
  <2>3. CASE store.plan = "whole"
    BY <1>1, <2>3 DEF Wanted, Asked
  <2> QED BY <1>3, <2>1, <2>2, <2>3
<1> QED BY <1>1, <1>2, <1>4 DEF ToDecode, Kept, Metadata, Asked, StoreOK, InOrder

(* What is said of the table stays with the table.                          *)
LEMMA SameStore ==
  ASSUME store' = store
  PROVE  /\ StoreOK' <=> StoreOK
         /\ ToDecode' = ToDecode /\ Kept' = Kept /\ Metadata' = Metadata /\ Asked' = Asked
         /\ Stored' = Stored /\ (Acceptable' <=> Acceptable)
         /\ \A S : Listed(S)' = Listed(S)
         /\ \A r : Used(r)' = Used(r)
         /\ \A s, f, i : UsedBefore(s, f, i)' = UsedBefore(s, f, i)
         /\ \A s, f, i : FitsAfter(s, f, i)' <=> FitsAfter(s, f, i)
<1>1. StoreOK' <=> StoreOK
  BY DEF StoreOK
<1>2. (\A n : RowsOf(n)' = RowsOf(n)) /\ Stored' = Stored /\ Metadata' = Metadata /\ Asked' = Asked
  BY DEF RowsOf, Stored, Metadata, Asked
<1>3. \A n : Resource(n)' = Resource(n)
  BY DEF Resource, RowsOf
<1>4. \A S : Listed(S)' = Listed(S)
  BY DEF Listed, Resource, RowsOf
<1>5. ToDecode' = ToDecode /\ Kept' = Kept
  BY DEF ToDecode, Kept, Listed, Resource, RowsOf, Stored, Wanted
<1>6. \A r : Used(r)' = Used(r)
  BY DEF Used, Good
<1>7. \A s, f, i : UsedBefore(s, f, i)' = UsedBefore(s, f, i)
  BY DEF UsedBefore, Used, Good
<1>8. \A s, f, i : FitsAfter(s, f, i)' <=> FitsAfter(s, f, i)
  BY DEF FitsAfter, UsedBefore, Used, Good
<1>9. Acceptable' <=> Acceptable
  <2>1. Whole' <=> Whole
    BY DEF Whole, RowsOf
  <2>2. \A s, f : BatchFits(s, f)' <=> BatchFits(s, f)
    BY DEF BatchFits, FitsAfter, UsedBefore, Used, Good
  <2> QED BY <1>5, <1>7, <2>1, <2>2 DEF Acceptable
<1> QED BY <1>1, <1>2, <1>4, <1>5, <1>6, <1>7, <1>8, <1>9

(* The resources to decode, and the bytes decoded of some in a row.         *)
LEMMA DecodeFacts ==
  ASSUME StoreOK
  PROVE  LET D == ToDecode IN
         /\ Len(D) \in Nat /\ DOMAIN D = 1..Len(D) /\ Len(D) = Cardinality(Stored \cap Metadata)
         /\ \A k \in 1..Len(D) : /\ D[k].name \in Stored /\ D[k].name \in Names /\ D[k] # Broken
                                 /\ D[k].size \in Nat /\ Used(D[k]) \in Nat
                                 /\ D[k] = Resource(D[k].name) /\ store.text[D[k].name] # "other"
         /\ \A n \in Stored : store.text[n] # "other" => \E k \in 1..Len(D) : D[k] = Resource(n)
         /\ \A k, l \in 1..Len(D) : D[k] = D[l] => k = l
<1> DEFINE S == Stored \cap Metadata
           D == ToDecode
           N == Len(D)
<1>1. D = Listed(S) /\ S \in SUBSET Names /\ IsSequence(store.rows)
  BY ListsAre
<1> HIDE DEF S, D
<1>2. /\ N = Cardinality(S) /\ N \in Nat /\ DOMAIN D = 1..N
      /\ (\A k \in 1..N : D[k] = Resource(Nth(S, k)) /\ Nth(S, k) \in S)
      /\ (\A x \in S : \E k \in 1..N : Nth(S, k) = x)
      /\ \A k, l \in 1..N : k < l => Nth(S, k) < Nth(S, l)
  BY <1>1, ListedFacts
<1> HIDE DEF N
<1>3. ASSUME NEW k \in 1..N
      PROVE  /\ D[k].name \in S /\ D[k].name \in Names /\ D[k] # Broken
             /\ D[k].size \in Nat /\ Used(D[k]) \in Nat /\ D[k] = Resource(D[k].name)
             /\ D[k].name = Nth(S, k)
  <2>1. D[k] = Resource(Nth(S, k)) /\ Nth(S, k) \in S
    BY <1>2
  <2>2. D[k].name = Nth(S, k) /\ D[k].size \in Nat /\ D[k].name \in Names
    BY <1>1, <2>1, ResourceFacts
  <2>3. D[k].name # 0 /\ Broken.name = 0
    BY <2>2, NamesNumbered DEF Broken
  <2>4. Used(D[k]) \in Nat
    BY <2>2 DEF Used
  <2> QED BY <2>1, <2>2, <2>3, <2>4
<1>4. ASSUME NEW n \in Stored, store.text[n] # "other" PROVE \E k \in 1..N : D[k] = Resource(n)
  <2>1. n \in S
    BY <1>4 DEF S, Metadata, Stored
  <2> QED BY <1>2, <2>1
<1>5. ASSUME NEW k \in 1..N, NEW l \in 1..N, D[k] = D[l] PROVE k = l
  <2>1. Nth(S, k) = Nth(S, l) /\ Nth(S, k) \in Nat
    BY <1>1, <1>3, <1>5, NamesNumbered
  <2>2. ~(k < l) /\ ~(l < k)
    BY <1>2, <2>1
  <2> QED BY <1>2, <2>2
<1>6. \A x \in S : x \in Stored /\ store.text[x] # "other"
  BY DEF S, Metadata
<1> QED BY <1>2, <1>3, <1>4, <1>5, <1>6 DEF D, N, S

(* The bytes decoded before a place grow by what is decoded there.          *)
LEMMA UsedSteps ==
  ASSUME StoreOK, NEW f \in Nat \ {0}
  PROVE  LET D == ToDecode IN
         /\ UsedBefore(D, f, f) = 0
         /\ \A i \in f..Len(D) : /\ UsedBefore(D, f, i) \in Nat
                                 /\ UsedBefore(D, f, i + 1) = Used(D[i]) + UsedBefore(D, f, i)
         /\ \A i \in f..Len(D) + 1 : UsedBefore(D, f, i) \in Nat
<1> DEFINE D == ToDecode
           n == Len(D)
           g(i) == [k \in f..i - 1 |-> Used(D[k])]
<1>1. n \in Nat /\ \A k \in 1..n : Used(D[k]) \in Nat
  BY DecodeFacts
<1>2. \A i : UsedBefore(D, f, i) = SumFunctionOnSet(g(i), f..i - 1)
  <2>1. ASSUME NEW i PROVE UsedBefore(D, f, i) = SumFunctionOnSet(g(i), f..i - 1)
    <3>1. UsedBefore(D, f, i) = SumFunction(g(i)) /\ DOMAIN g(i) = f..i - 1
      BY DEF UsedBefore
    <3> HIDE DEF g
    <3> QED BY <3>1 DEF SumFunction
  <2> QED BY <2>1
<1> HIDE DEF D, n
<1>3. ASSUME NEW i \in f..n + 1
      PROVE  IsFiniteSet(f..i - 1) /\ \A k \in f..i - 1 : g(i)[k] = Used(D[k]) /\ g(i)[k] \in Nat
  <2>1. f \in Int /\ i - 1 \in Int /\ \A k \in f..i - 1 : k \in 1..n
    BY <1>1
  <2>2. IsFiniteSet(f..i - 1)
    BY <2>1, FS_Interval
  <2> QED BY <1>1, <2>1, <2>2
<1>4. UsedBefore(D, f, f) = 0
  <2>1. f..f - 1 = {}
    OBVIOUS
  <2> QED BY <1>2, <2>1, SumEmpty
<1>5. ASSUME NEW i \in f..n + 1 PROVE UsedBefore(D, f, i) \in Nat
  <2>1. IsFiniteSet(f..i - 1) /\ \A k \in f..i - 1 : g(i)[k] \in Nat
    BY <1>3
  <2> HIDE DEF g
  <2> QED BY <1>2, <2>1, SumNat
<1>6. ASSUME NEW i \in f..n PROVE UsedBefore(D, f, i + 1) = Used(D[i]) + UsedBefore(D, f, i)
  <2> DEFINE S == f..i - 1
  <2>1. f..(i + 1) - 1 = S \cup {i} /\ i \notin S /\ i \in 1..n /\ i \in f..n + 1 /\ i + 1 \in f..n + 1
        /\ i \in f..(i + 1) - 1
    BY <1>1
  <2>2. /\ IsFiniteSet(S) /\ (\A k \in S : g(i)[k] \in Int /\ g(i)[k] = Used(D[k]))
        /\ \A k \in S \cup {i} : g(i + 1)[k] \in Int /\ g(i + 1)[k] = Used(D[k])
    BY <1>3, <2>1
  <2>3. UsedBefore(D, f, i + 1) = SumFunctionOnSet(g(i + 1), S \cup {i})
    BY <1>2, <2>1
  <2>4. UsedBefore(D, f, i) = SumFunctionOnSet(g(i), S)
    BY <1>2
  <2> HIDE DEF g, S
  <2>5. SumFunctionOnSet(g(i + 1), S \cup {i}) = g(i + 1)[i] + SumFunctionOnSet(g(i + 1), S)
    BY <2>1, <2>2, SumAdd
  <2>6. SumFunctionOnSet(g(i + 1), S) = SumFunctionOnSet(g(i), S)
    BY <2>2, SumSame
  <2>7. g(i + 1)[i] = Used(D[i])
    BY <2>2
  <2> QED BY <2>3, <2>4, <2>5, <2>6, <2>7
<1>7. \A i \in f..n : i \in f..n + 1
  BY <1>1
<1> QED BY <1>4, <1>5, <1>6, <1>7 DEF D, n

-----------------------------------------------------------------------------
(* A job whose batch is the resources at its places, and that has decoded   *)
(* the first of them.                                                       *)
First(j) == UpTo(j - 1) + 1

Advances(D, job, j) ==
  /\ Len(job.batch) \in 1..BatchSize /\ UpTo(j - 1) + Len(job.batch) <= Len(D)
  /\ Len(job.batch) = BatchSize \/ UpTo(j - 1) + Len(job.batch) = Len(D)
  /\ \A i \in 1..Len(job.batch) : job.batch[i] = D[UpTo(j - 1) + i]
  /\ job.at \in 0..Len(job.batch) /\ job.decoded = UsedBefore(D, First(j), First(j) + job.at)
  /\ \A i \in First(j)..UpTo(j - 1) + job.at : FitsAfter(D, First(j), i)
  /\ job.state \in {"waiting", "running", "done", "yielded"}
  /\ job.state \in {"done", "yielded"} => job.at = Len(job.batch)

Advancing == \A j \in DOMAIN jobs : Advances(ToDecode, jobs[j], j)

(* The progress of a job is that of its record.                             *)
LEMMA SameAdvance ==
  ASSUME store' = store
  PROVE  \A D, job, j : Advances(D, job, j)' <=> Advances(D, job, j)
BY SameStore DEF Advances

(* The place a batch starts at.                                             *)
LEMMA FirstPlaces ==
  ASSUME NEW j \in Nat \ {0}
  PROVE  /\ UpTo(j - 1) \in Nat /\ First(j) \in Nat \ {0} /\ First(j) = UpTo(j - 1) + 1
         /\ j <= First(j) /\ UpTo(j - 1) + BatchSize = UpTo(j) /\ BatchSize \in Nat \ {0}
         /\ First(j) = (j - 1) * BatchSize + 1
<1>1. j - 1 \in Nat /\ (j - 1) + 1 = j
  OBVIOUS
<1> DEFINE a == UpTo(j - 1)
<1>2. a \in Nat /\ j - 1 <= a /\ UpTo(j) = a + BatchSize
  BY <1>1, BatchPlaces
<1>3. First(j) = a + 1 /\ BatchSize \in Nat \ {0}
  BY ConfigDecodeAssumption DEF First
<1>4. a = (j - 1) * BatchSize
  BY DEF UpTo
<1> HIDE DEF a
<1>5. a + 1 \in Nat \ {0} /\ j <= a + 1
  BY <1>2
<1> QED BY <1>2, <1>3, <1>4, <1>5 DEF a

(* The places of a batch, counted from its start and from the first         *)
(* resource.                                                                *)
LEMMA BatchArithmetic ==
  ASSUME NEW a \in Nat, NEW f, f = a + 1, NEW size \in Nat, NEW n \in 1..size, NEW t \in 0..n,
         NEW N \in Nat, a + n <= N
  PROVE  /\ t \in Nat /\ n \in Nat /\ a + (t + 1) = f + t /\ f + (t + 1) = (f + t) + 1
         /\ f + n = (a + n) + 1 /\ f + t \in Nat
         /\ t < n => /\ t + 1 \in 1..n /\ f + t \in 1..N /\ f + t \in f..(f + size) - 1
                    /\ f + t \in f..f + size - 1 /\ f + t \in f..N /\ f <= N /\ t + 1 \in 0..n
         /\ \A k \in f..a + (t + 1) : k \in f..a + t \/ k = a + (t + 1)
OBVIOUS

(* The worker fails on a resource exactly when its batch is over a limit.   *)
LEMMA FitsTells ==
  ASSUME StoreOK, NEW j \in Nat \ {0}, NEW job, Advances(ToDecode, job, j),
         job.at < Len(job.batch)
  PROVE  LET i == First(j) + job.at
             r == job.batch[job.at + 1]
         IN /\ i \in 1..Len(ToDecode) /\ r = ToDecode[i] /\ i = UpTo(j - 1) + (job.at + 1)
            /\ i \in First(j)..(First(j) + BatchSize) - 1 /\ j \in 1..Len(ToDecode)
            /\ Fits(job, r) <=> FitsAfter(ToDecode, First(j), i)
<1> DEFINE D == ToDecode
           a == UpTo(j - 1)
           n == Len(job.batch)
           i == First(j) + job.at
           r == job.batch[job.at + 1]
           used == UsedBefore(D, First(j), i)
<1>1. a \in Nat /\ First(j) = a + 1 /\ j <= a + 1 /\ BatchSize \in Nat /\ First(j) \in Nat \ {0}
  BY FirstPlaces
<1>2. /\ n \in 1..BatchSize /\ a + n <= Len(D) /\ Len(D) \in Nat /\ job.at \in 0..n
      /\ \A k \in 1..n : job.batch[k] = D[a + k]
      /\ job.decoded = used
  BY DecodeFacts DEF Advances
<1>3. job.at \in Nat /\ n \in Nat /\ job.at + 1 \in 1..n /\ a + (job.at + 1) = i
  <2> DEFINE t == job.at
             f == First(j)
  <2>1. a \in Nat /\ f = a + 1 /\ n \in 1..BatchSize /\ t \in 0..n /\ BatchSize \in Nat /\ t < n
    BY <1>1, <1>2
  <2> HIDE DEF a, n, t, f
  <2>2. t \in Nat /\ n \in Nat /\ t + 1 \in 1..n /\ a + (t + 1) = f + t
    BY <2>1
  <2> QED BY <2>2 DEF t, f
<1>4. r = D[a + (job.at + 1)]
  BY <1>2, <1>3
<1>9. r = D[i]
  BY <1>3, <1>4
<1>5. /\ i \in 1..Len(D) /\ i \in First(j)..(First(j) + BatchSize) - 1
      /\ i \in First(j)..Len(D) /\ j \in 1..Len(D)
  <2>1. /\ i \in 1..Len(D) /\ i \in First(j)..(First(j) + BatchSize) - 1
        /\ i \in First(j)..Len(D) /\ First(j) <= Len(D)
    BY <1>1, <1>2, BatchArithmetic
  <2>2. j \in 1..Len(D)
    <3> DEFINE f == First(j)
    <3>1. f \in Nat /\ j <= f /\ f <= Len(D)
      BY <1>1, <2>1
    <3> HIDE DEF f
    <3> QED BY <1>2, <3>1
  <2> QED BY <2>1, <2>2
<1>6. used \in Nat /\ r.size \in Nat
  BY <1>1, <1>5, <1>9, UsedSteps, DecodeFacts
<1>7. BatchBytes \in Nat /\ ResourceBytes \in Nat
  BY ConfigDecodeAssumption
<1> DEFINE left == BatchBytes - used
<1>8. r.size <= Min({ResourceBytes, left}) <=> r.size <= ResourceBytes /\ r.size <= left
  <2>1. \E x \in {ResourceBytes, left} : \A y \in {ResourceBytes, left} : x =< y
    BY <1>6, <1>7
  <2>2. /\ Min({ResourceBytes, left}) \in {ResourceBytes, left}
        /\ \A y \in {ResourceBytes, left} : Min({ResourceBytes, left}) =< y
    BY <2>1 DEF Min
  <2> DEFINE m == Min({ResourceBytes, left})
  <2>3. (m = ResourceBytes \/ m = left) /\ m <= ResourceBytes /\ m <= left
    BY <2>2
  <2> HIDE DEF m, used, r
  <2> QED BY <1>6, <1>7, <2>3 DEF m
<1>10. Fits(job, r) <=> store.text[r.name] # "corrupt" /\ left > 0
                        /\ r.size <= Min({ResourceBytes, left})
  BY <1>2 DEF Fits, Remaining
<1>11. FitsAfter(D, First(j), i) <=> store.text[r.name] # "corrupt" /\ used < BatchBytes
                        /\ used + r.size <= BatchBytes /\ r.size <= ResourceBytes
  BY <1>9 DEF FitsAfter
<1>12. (left > 0 <=> used < BatchBytes) /\ (r.size <= left <=> used + r.size <= BatchBytes)
  <2> HIDE DEF used, r
  <2> QED BY <1>6, <1>7
<1>13. Fits(job, r) <=> FitsAfter(D, First(j), i)
  <2> HIDE DEF left, used, r, i, D
  <2> QED BY <1>8, <1>10, <1>11, <1>12
<1> QED BY <1>3, <1>5, <1>9, <1>13

(* A resource that does not fit its batch makes the table not acceptable.   *)
LEMMA OverLimit ==
  ASSUME StoreOK, NEW j \in 1..Len(ToDecode), NEW i \in 1..Len(ToDecode),
         i \in First(j)..(First(j) + BatchSize) - 1, ~FitsAfter(ToDecode, First(j), i)
  PROVE  ~Acceptable
<1>1. DOMAIN ToDecode = 1..Len(ToDecode) /\ Len(ToDecode) \in Nat
  BY DecodeFacts
<1>2. First(j) = (j - 1) * BatchSize + 1
  BY FirstPlaces
<1>3. ~BatchFits(ToDecode, First(j))
  <2>1. i \in First(j)..First(j) + BatchSize - 1
    <3> DEFINE f == First(j)
    <3>1. f \in Nat /\ BatchSize \in Nat
      BY FirstPlaces
    <3> HIDE DEF f
    <3> QED BY <3>1 DEF f
  <2> QED BY <1>1, <2>1 DEF BatchFits
<1> QED BY <1>1, <1>2, <1>3 DEF Acceptable

(* A worker takes its batch one resource further, or the table is not       *)
(* acceptable.                                                              *)
LEMMA DecodeAdvances ==
  ASSUME StoreOK, IInv, SInv, Advancing, outcome = "running", NEW j \in DOMAIN jobs, Decode(j)
  PROVE  \/ Advancing'
         \/ ~Acceptable /\ j \in In("failed")'
<1> DEFINE D == ToDecode
           job == jobs[j]
           r == job.batch[job.at + 1]
           i == First(j) + job.at
<1>1. InvJobs /\ j \in Nat \ {0} /\ DOMAIN jobs = 1..Len(jobs)
  BY JobsNumbered DEF IInv
<1>2. /\ job.state = "running" /\ job.at < Len(job.batch) /\ store' = store /\ outcome' = outcome
  BY DEF Decode, In
<1>3. Advances(D, job, j) /\ JobOK(job)
  BY DEF Advancing, SInv, InvSizes
<1>4. /\ i \in 1..Len(D) /\ r = D[i] /\ i = UpTo(j - 1) + (job.at + 1)
      /\ i \in First(j)..(First(j) + BatchSize) - 1 /\ j \in 1..Len(D)
      /\ Fits(job, r) <=> FitsAfter(D, First(j), i)
  BY <1>1, <1>2, <1>3, FitsTells
<1>5. D' = D /\ \A es, x, k : Advances(es, x, k)' <=> Advances(es, x, k)
  BY <1>2, SameStore, SameAdvance
<1>6. CASE /\ Fits(job, r)
           /\ jobs' = [jobs EXCEPT ![j].at = @ + 1, ![j].decoded =
                         @ + IF store.text[r.name] = "good" THEN r.size ELSE 0]
  <2> DEFINE more == [job EXCEPT !.at = @ + 1, !.decoded = @ + Used(r)]
  <2>1. jobs' = [jobs EXCEPT ![j] = more]
    BY <1>6 DEF Used, Good
  <2>2. DOMAIN jobs' = DOMAIN jobs /\ jobs'[j] = more /\ \A k \in DOMAIN jobs : k # j => jobs'[k] = jobs[k]
    BY <2>1
  <2>3. /\ more.batch = job.batch /\ more.state = job.state /\ more.at = job.at + 1
        /\ more.decoded = job.decoded + Used(r)
    BY <1>3 DEF JobOK
  <2>4. Advances(D, more, j)
    <3> DEFINE a == UpTo(j - 1)
               n == Len(job.batch)
               f == First(j)
    <3>1. a \in Nat /\ f = a + 1 /\ f \in Nat \ {0} /\ BatchSize \in Nat \ {0}
      BY <1>1, FirstPlaces
    <3>2. /\ n \in 1..BatchSize /\ job.at \in 0..n
          /\ job.decoded = UsedBefore(D, f, f + job.at)
          /\ \A k \in f..a + job.at : FitsAfter(D, f, k)
          /\ a + n <= Len(D) /\ (n = BatchSize \/ a + n = Len(D))
          /\ \A k \in 1..n : job.batch[k] = D[a + k]
      BY <1>3 DEF Advances
    <3>3. i \in f..Len(D) /\ i = f + job.at /\ i + 1 = f + (job.at + 1)
      BY <1>4, <3>1, <3>2
    <3>4. UsedBefore(D, f, i + 1) = Used(r) + UsedBefore(D, f, i) /\ UsedBefore(D, f, i) \in Nat
      BY <1>4, <3>1, <3>3, UsedSteps
    <3>5. Used(r) \in Nat
      BY <1>4, DecodeFacts
    <3>6. more.decoded = UsedBefore(D, f, f + more.at)
      <4> HIDE DEF f, i, D, r, more, a
      <4> QED BY <2>3, <3>2, <3>3, <3>4, <3>5
    <3>9. Len(D) \in Nat
      BY DecodeFacts
    <3>7. ASSUME NEW k \in f..a + more.at PROVE FitsAfter(D, f, k)
      <4>1. k \in f..a + job.at \/ k = a + (job.at + 1)
        <5>1. \A x \in f..a + (job.at + 1) : x \in f..a + job.at \/ x = a + (job.at + 1)
          BY <3>1, <3>2, <3>9, BatchArithmetic
        <5> QED BY <2>3, <5>1
      <4> QED BY <1>4, <1>6, <3>2, <4>1
    <3>8. more.at \in 0..n
      BY <1>2, <2>3, <3>2
    <3> HIDE DEF more, f, i, D, r, a, n, job
    <3> QED BY <1>2, <2>3, <3>2, <3>6, <3>7, <3>8 DEF Advances, a, n, f
  <2> QED BY <1>5, <2>2, <2>4 DEF Advancing
<1>7. CASE ~Fits(job, r) /\ WorkerEnds(j, "failed")
  <2>1. jobs' = [jobs EXCEPT ![j].state = "failed"]
    BY <1>7 DEF WorkerEnds
  <2>2. j \in DOMAIN jobs' /\ jobs'[j].state = "failed"
    BY <1>3, <2>1 DEF JobOK
  <2>3. ~Acceptable
    BY <1>4, <1>7, OverLimit
  <2> QED BY <2>2, <2>3 DEF In
<1>8. \/ /\ Fits(job, r)
         /\ jobs' = [jobs EXCEPT ![j].at = @ + 1, ![j].decoded =
                       @ + IF store.text[r.name] = "good" THEN r.size ELSE 0]
      \/ ~Fits(job, r) /\ WorkerEnds(j, "failed")
  BY DEF Decode
<1> QED BY <1>6, <1>7, <1>8

-----------------------------------------------------------------------------
(* The bytes of the batches decoded to their end.                           *)
Total == UsedBefore(ToDecode, 1, Len(ToDecode) + 1)

(* Batches that are through have decoded no more than the table in all, and *)
(* together exactly that, whichever finished first.                         *)
LEMMA TotalDecoded ==
  ASSUME StoreOK, InvJobs, Advancing, NEW Y \in SUBSET DOMAIN jobs,
         \A j \in Y : jobs[j].at = Len(jobs[j].batch)
  PROVE  /\ Decoded(Y) <= Total /\ Decoded(Y) \in Nat /\ Total \in Nat
         /\ Y = DOMAIN jobs /\ Len(ToDecode) <= UpTo(Len(jobs)) => Decoded(Y) = Total
<1> DEFINE D == ToDecode
           N == Len(D)
           L(j) == Len(jobs[j].batch)
           slice(j) == First(j)..UpTo(j - 1) + L(j)
           f == [k \in 1..N |-> Used(D[k])]
           g == [j \in Y |-> jobs[j].decoded]
           S == {k \in 1..N : \E j \in Y : k \in slice(j)}
           h == [k \in S |-> CHOOSE j \in Y : k \in slice(j)]
           part == [j \in Y |-> slice(j)]
<1>1. /\ N \in Nat /\ IsFiniteSet(1..N) /\ IsFiniteSet(DOMAIN jobs) /\ IsFiniteSet(Y)
      /\ DOMAIN jobs = 1..Len(jobs) /\ Len(jobs) \in Nat
  <2>1. N \in Nat
    BY DecodeFacts
  <2>2. IsFiniteSet(1..N) /\ IsFiniteSet(DOMAIN jobs) /\ DOMAIN jobs = 1..Len(jobs) /\ Len(jobs) \in Nat
    BY <2>1, FS_Interval, JobsNumbered
  <2> QED BY <2>1, <2>2, FS_Subset
<1>2. ASSUME NEW j \in DOMAIN jobs
      PROVE  /\ j \in Nat \ {0} /\ UpTo(j - 1) \in Nat /\ First(j) = UpTo(j - 1) + 1
             /\ UpTo(j - 1) + BatchSize = UpTo(j) /\ BatchSize \in Nat /\ UpTo(j) \in Nat
             /\ L(j) \in 1..BatchSize /\ UpTo(j - 1) + L(j) <= N
             /\ (L(j) = BatchSize \/ UpTo(j - 1) + L(j) = N)
             /\ jobs[j].decoded = UsedBefore(D, First(j), First(j) + jobs[j].at)
  <2>1. j \in Nat \ {0}
    BY <1>1
  <2>2. Advances(D, jobs[j], j)
    BY DEF Advancing
  <2> QED BY <2>1, <2>2, FirstPlaces, BatchPlaces DEF Advances
<1>3. ASSUME NEW j \in DOMAIN jobs
      PROVE  /\ slice(j) \in SUBSET (1..N) /\ slice(j) # {}
             /\ \A k \in slice(j) : UpTo(j - 1) < k /\ k <= UpTo(j)
  <2> DEFINE a == UpTo(j - 1)
             b == UpTo(j)
             n == L(j)
             fi == First(j)
  <2>1. a \in Nat /\ fi = a + 1 /\ a + BatchSize = b /\ BatchSize \in Nat /\ n \in 1..BatchSize
        /\ a + n <= N
    BY <1>2
  <2> HIDE DEF a, b, n, fi
  <2>2. fi..a + n \in SUBSET (1..N) /\ fi \in fi..a + n /\ \A k \in fi..a + n : a < k /\ k <= b
    BY <1>1, <2>1
  <2> QED BY <2>2 DEF a, b, n, fi
<1>4. ASSUME NEW i \in DOMAIN jobs, NEW j \in DOMAIN jobs, NEW k \in slice(i), k \in slice(j)
      PROVE  i = j
  <2>1. ASSUME NEW x \in DOMAIN jobs, NEW y \in DOMAIN jobs, x < y, k \in slice(x), k \in slice(y)
        PROVE  FALSE
    <3>1. x \in Nat /\ y - 1 \in Nat /\ x <= y - 1
      BY <1>1, <2>1
    <3>2. UpTo(x) <= UpTo(y - 1) /\ UpTo(x) \in Nat /\ UpTo(y - 1) \in Nat
      BY <3>1, BatchPlaces
    <3>3. k <= UpTo(x) /\ UpTo(y - 1) < k /\ k \in Nat
      BY <1>3, <2>1
    <3> QED BY <3>2, <3>3
  <2>2. i < j \/ j < i \/ i = j
    BY <1>1
  <2> QED BY <1>4, <2>1, <2>2
<1>5. ASSUME NEW j \in Y PROVE g[j] = SumFunctionOnSet(f, slice(j))
  <2> DEFINE u == [k \in First(j)..(First(j) + L(j)) - 1 |-> Used(D[k])]
  <2>1. jobs[j].decoded = UsedBefore(D, First(j), First(j) + L(j))
    BY <1>2
  <2>2. slice(j) = First(j)..(First(j) + L(j)) - 1
    <3> DEFINE a == UpTo(j - 1)
               n == L(j)
               fi == First(j)
    <3>1. a \in Nat /\ fi = a + 1 /\ n \in Nat
      BY <1>2
    <3> HIDE DEF a, n, fi
    <3>2. fi..a + n = fi..(fi + n) - 1
      BY <3>1
    <3> QED BY <3>2 DEF a, n, fi
  <2>3. UsedBefore(D, First(j), First(j) + L(j)) = SumFunction(u) /\ DOMAIN u = slice(j)
    <3> HIDE DEF slice, L, D
    <3> QED BY <2>2 DEF UsedBefore
  <2>4. \A k \in slice(j) : u[k] = f[k]
    BY <1>3, <2>2
  <2>5. IsFiniteSet(slice(j))
    BY <1>1, <1>3, FS_Subset
  <2>6. SumFunction(u) = SumFunctionOnSet(u, slice(j))
    <3> HIDE DEF u, slice
    <3> QED BY <2>3 DEF SumFunction
  <2> HIDE DEF u, slice, f
  <2>7. SumFunctionOnSet(u, slice(j)) = SumFunctionOnSet(f, slice(j))
    BY <2>4, <2>5, SumSame
  <2> QED BY <2>1, <2>3, <2>6, <2>7
<1>6. \A k \in 1..N : f[k] \in Nat /\ f[k] = Used(D[k])
  BY DecodeFacts
<1>7. /\ S \in SUBSET (1..N) /\ IsFiniteSet(S)
      /\ \A j \in Y : slice(j) \in SUBSET S
  BY <1>1, <1>3, FS_Subset
<1>8. \A k \in S : h[k] \in Y /\ k \in slice(h[k])
  <2>1. \A k \in S : \E j \in Y : k \in slice(j)
    OBVIOUS
  <2> HIDE DEF S, slice
  <2> QED BY <2>1
<1> HIDE DEF D, N, slice, f, g, S, h, L
<1>9. Decoded(Y) = SumFunctionOnSet(g, Y)
  BY DEF Decoded, SumFunction, g
<1>10. SumFunctionOnSet(g, Y) = SumFunctionOnSet(f, S)
  <2>1. part \in [Y -> SUBSET S]
    BY <1>7
  <2>2. \A j \in Y : part[j] = slice(j)
    OBVIOUS
  <2> HIDE DEF part
  <2>3. \A k \in S : f[k] \in Int /\ h[k] \in Y
    BY <1>6, <1>7, <1>8
  <2>4. \A t \in Y : \A x \in S : x \in part[t] <=> h[x] = t
    BY <1>4, <1>8, <2>2
  <2>5. \A t \in Y : g[t] = SumFunctionOnSet(f, part[t])
    BY <1>5, <2>2
  <2>6. IsFiniteSet(S) /\ IsFiniteSet(Y)
    BY <1>1, <1>7
  <2> QED BY ONLY <2>1, <2>3, <2>4, <2>5, <2>6, SumByGroups
<1>11. Total = SumFunctionOnSet(f, 1..N)
  <2> DEFINE u == [k \in 1..(N + 1) - 1 |-> Used(D[k])]
  <2>1. Total = SumFunction(u)
    BY DEF Total, UsedBefore, D, N
  <2>2. (N + 1) - 1 = N
    BY <1>1
  <2>3. u = f
    BY <2>2 DEF f
  <2>4. DOMAIN f = 1..N
    BY DEF f
  <2> HIDE DEF u
  <2> QED BY <2>1, <2>3, <2>4 DEF SumFunction
<1>12. SumFunctionOnSet(f, S) <= SumFunctionOnSet(f, 1..N) /\ SumFunctionOnSet(f, S) \in Nat
       /\ SumFunctionOnSet(f, 1..N) \in Nat
  <2> DEFINE I == 1..N
  <2>1. IsFiniteSet(I) /\ S \in SUBSET I /\ (\A x \in I : f[x] \in Nat) /\ \A x \in S : f[x] \in Nat
    BY <1>1, <1>6, <1>7
  <2> HIDE DEF I
  <2> QED BY <1>7, <2>1, SumMonotone, SumNat DEF I
<1>13. ASSUME Y = DOMAIN jobs, N <= UpTo(Len(jobs)) PROVE S = 1..N
  <2>1. ASSUME NEW k \in 1..N PROVE \E j \in Y : k \in slice(j)
    <3> DEFINE T == {j \in Nat : k <= UpTo(j)}
    <3>1. Len(jobs) \in T /\ T \in SUBSET Nat
      <4>1. UpTo(Len(jobs)) \in Nat
        BY <1>1, BatchPlaces
      <4> DEFINE b == UpTo(Len(jobs))
      <4>2. b \in Nat /\ N <= b
        BY <1>13, <4>1
      <4> HIDE DEF b
      <4>3. k <= b
        BY <1>1, <4>2
      <4> QED BY <1>1, <4>3 DEF b
    <3> HIDE DEF T
    <3>2. PICK j \in T : \A m \in T : j <= m
      BY <3>1, Smallest
    <3>3. j \in Nat /\ k <= UpTo(j) /\ j <= Len(jobs) /\ j # 0
      <4>1. UpTo(0) = 0
        BY BatchPlaces
      <4> QED BY <3>1, <3>2, <4>1 DEF T
    <3>4. j \in DOMAIN jobs /\ j - 1 \in Nat /\ j - 1 \notin T
      BY <1>1, <3>1, <3>2, <3>3
    <3> DEFINE a == UpTo(j - 1)
               n == L(j)
               fi == First(j)
               b == UpTo(j)
    <3>5. a \in Nat /\ fi = a + 1 /\ n \in Nat /\ a + BatchSize = b /\ (n = BatchSize \/ a + n = N)
          /\ BatchSize \in Nat
      BY <1>2, <3>4
    <3>6. ~(k <= a) /\ k <= b
      BY <3>3, <3>4 DEF T
    <3> HIDE DEF a, n, fi, b
    <3>7. k \in fi..a + n
      BY <1>1, <3>5, <3>6
    <3> QED BY <1>13, <3>4, <3>7 DEF a, n, fi, slice
  <2> QED BY <1>7, <2>1 DEF S
<1> QED BY <1>9, <1>10, <1>11, <1>12, <1>13 DEF N, D

-----------------------------------------------------------------------------
(* The batches yielded are known, each once, and within the total.          *)
Yielding ==
  /\ OnceEach(yielded) /\ \A j : j \in In("yielded") <=> \E k \in DOMAIN yielded : yielded[k] = j
  /\ Decoded(In("yielded")) <= TotalBytes

(* What was yielded stays while its batches decode no more.                 *)
LEMMA YieldingKept ==
  ASSUME Yielding, UNCHANGED yielded, In("yielded")' = In("yielded"),
         \A j \in In("yielded") : jobs'[j].decoded = jobs[j].decoded
  PROVE  Yielding'
<1> DEFINE Y == In("yielded")
<1>1. [j \in Y |-> jobs'[j].decoded] = [j \in Y |-> jobs[j].decoded]
  OBVIOUS
<1> HIDE DEF Y
<1>2. Decoded(In("yielded"))' = SumFunction([j \in Y |-> jobs'[j].decoded])
  BY DEF Decoded, Y
<1>3. Decoded(Y) = SumFunction([j \in Y |-> jobs[j].decoded])
  BY DEF Decoded
<1>4. Decoded(In("yielded"))' = Decoded(In("yielded"))
  BY <1>1, <1>2, <1>3 DEF Y
<1> QED BY <1>4 DEF Yielding, OnceEach

(* A job that changes its state but not its batch.                          *)
LEMMA StateAdvances ==
  ASSUME Advancing, SInv, UNCHANGED store, NEW j \in DOMAIN jobs,
         NEW s, s \in {"waiting", "running", "done", "yielded"},
         jobs' = [jobs EXCEPT ![j].state = s],
         s \in {"done", "yielded"} => jobs[j].at = Len(jobs[j].batch)
  PROVE  /\ Advancing' /\ DOMAIN jobs' = DOMAIN jobs /\ jobs'[j].state = s
         /\ \A k \in DOMAIN jobs : /\ k # j => jobs'[k] = jobs[k]
                                   /\ jobs'[k].decoded = jobs[k].decoded
                                   /\ jobs'[k].batch = jobs[k].batch
<1> DEFINE job == [jobs[j] EXCEPT !.state = s]
<1>1. JobOK(jobs[j]) /\ Advances(ToDecode, jobs[j], j)
  BY DEF Advancing, SInv, InvSizes
<1>2. /\ job.batch = jobs[j].batch /\ job.at = jobs[j].at /\ job.decoded = jobs[j].decoded
      /\ job.state = s
  BY <1>1 DEF JobOK
<1>3. DOMAIN jobs' = DOMAIN jobs /\ jobs'[j] = job /\ \A k \in DOMAIN jobs : k # j => jobs'[k] = jobs[k]
  OBVIOUS
<1> HIDE DEF job
<1>4. Advances(ToDecode, job, j)
  BY <1>1, <1>2 DEF Advances
<1>5. ToDecode' = ToDecode /\ \A es, x, k : Advances(es, x, k)' <=> Advances(es, x, k)
  BY SameStore, SameAdvance
<1>6. Advancing'
  BY <1>3, <1>4, <1>5 DEF Advancing
<1> QED BY <1>2, <1>3, <1>6

(* Every step of a worker advances its batch, or the table is not           *)
(* acceptable and a batch failed.                                           *)
LEMMA WorkAdvances ==
  ASSUME StoreOK, IInv, SInv, Advancing, Yielding, outcome = "running", Work
  PROVE  \/ Advancing' /\ Yielding'
         \/ ~Acceptable /\ In("failed")' # {}
<1>1. PICK j \in DOMAIN jobs : Acquire(j) \/ Decode(j) \/ DecodeEnds(j)
  BY DEF Work
<1>2. UNCHANGED <<store, yielded, outcome>>
  BY <1>1 DEF Acquire, Decode, DecodeEnds
<1>3. ASSUME NEW s, s \in {"running", "done"}, jobs[j].state # "yielded",
             jobs' = [jobs EXCEPT ![j].state = s],
             s \in {"done", "yielded"} => jobs[j].at = Len(jobs[j].batch)
      PROVE  Advancing' /\ Yielding'
  <2>1. /\ Advancing' /\ DOMAIN jobs' = DOMAIN jobs /\ jobs'[j].state = s
        /\ \A k \in DOMAIN jobs : /\ k # j => jobs'[k] = jobs[k]
                                  /\ jobs'[k].decoded = jobs[k].decoded
    BY <1>2, <1>3, StateAdvances
  <2>2. In("yielded")' = In("yielded")
    BY <1>3, <2>1 DEF In
  <2>3. \A k \in In("yielded") : jobs'[k].decoded = jobs[k].decoded
    BY <2>1 DEF In
  <2> QED BY <1>2, <2>1, <2>2, <2>3, YieldingKept
<1>4. CASE Acquire(j)
  <2>1. jobs[j].state # "yielded" /\ jobs' = [jobs EXCEPT ![j].state = "running"]
    BY <1>4 DEF Acquire, In
  <2> QED BY <1>3, <2>1
<1>5. CASE DecodeEnds(j)
  <2>1. /\ jobs[j].state # "yielded" /\ jobs' = [jobs EXCEPT ![j].state = "done"]
        /\ jobs[j].at = Len(jobs[j].batch)
    BY <1>5 DEF DecodeEnds, WorkerEnds, In
  <2> QED BY <1>3, <2>1
<1>6. CASE Decode(j)
  <2>1. Advancing' \/ (~Acceptable /\ In("failed")' # {})
    BY <1>6, DecodeAdvances
  <2>2. ASSUME Advancing' PROVE Yielding'
    <3>1. /\ jobs[j].state = "running" /\ DOMAIN jobs' = DOMAIN jobs
          /\ \A k \in DOMAIN jobs : k # j => jobs'[k] = jobs[k]
      BY <1>6 DEF Decode, WorkerEnds, In
    <3>2. JobOK(jobs[j])
      BY DEF SInv, InvSizes
    <3>3. jobs'[j].state # "yielded"
      BY <1>2, <1>6, <3>1, <3>2 DEF Decode, WorkerEnds, JobOK
    <3>4. In("yielded")' = In("yielded")
      BY <3>1, <3>3 DEF In
    <3>5. \A k \in In("yielded") : jobs'[k].decoded = jobs[k].decoded
      BY <3>1 DEF In
    <3> QED BY <1>2, <3>4, <3>5, YieldingKept
  <2> QED BY <2>1, <2>2
<1> QED BY <1>1, <1>4, <1>5, <1>6

(* A batch is yielded, or the table is not acceptable.                      *)
LEMMA YieldAdvances ==
  ASSUME StoreOK, IInv, SInv, Advancing, Yielding, NEW j \in DOMAIN jobs, Yield(j)
  PROVE  \/ outcome' = "running" /\ Advancing' /\ Yielding'
         \/ outcome' = "error" /\ ~Acceptable
<1>1. InvJobs /\ outcome = "running" /\ store' = store
  BY DEF IInv, Yield
<1>2. /\ jobs[j].state = "done" /\ j \in In("done") /\ j \notin In("failed") /\ j \notin In("yielded")
      /\ jobs[j].at = Len(jobs[j].batch)
  BY DEF Yield, Ready, In, Advancing, Advances
<1> DEFINE Y == In("yielded") \cup {j}
<1>3. /\ Y \in SUBSET DOMAIN jobs /\ \A k \in Y : jobs[k].at = Len(jobs[k].batch)
  BY <1>2 DEF In, Advancing, Advances
<1>4. CASE WithinTotal(j)
  <2>1. yielded' = Append(yielded, j) /\ jobs' = [jobs EXCEPT ![j].state = "yielded"]
        /\ outcome' = outcome
    BY <1>2, <1>4 DEF Yield
  <2>2. /\ Advancing' /\ DOMAIN jobs' = DOMAIN jobs /\ jobs'[j].state = "yielded"
        /\ \A k \in DOMAIN jobs : /\ k # j => jobs'[k] = jobs[k]
                                  /\ jobs'[k].decoded = jobs[k].decoded
    BY <1>1, <1>2, <2>1, StateAdvances
  <2>3. In("yielded")' = Y
    BY <2>2 DEF In
  <2>4. Decoded(In("yielded"))' = Decoded(Y)
    <3>1. [k \in Y |-> jobs'[k].decoded] = [k \in Y |-> jobs[k].decoded]
      BY <1>3, <2>2
    <3> HIDE DEF Y
    <3> QED BY <2>3, <3>1 DEF Decoded
  <2>5. Decoded(Y) <= TotalBytes
    BY <1>4 DEF WithinTotal
  <2> DEFINE n == Len(yielded)
  <2>6. /\ n \in Nat /\ DOMAIN yielded = 1..n /\ IsSequence(yielded') /\ DOMAIN yielded' = 1..n + 1
        /\ yielded'[n + 1] = j /\ \A i \in 1..n : yielded'[i] = yielded[i]
    BY <2>1, AppendFacts DEF Yielding, OnceEach
  <2>7. \A i \in 1..n : yielded[i] # j
    BY <1>2, <2>6 DEF Yielding
  <2>8. \A i, k \in 1..n : yielded[i] = yielded[k] => i = k
    BY <2>6 DEF Yielding, OnceEach
  <2>9. \A k : k \in In("yielded") <=> \E i \in 1..n : yielded[i] = k
    BY <2>6 DEF Yielding
  <2> HIDE DEF n, Y
  <2>10. \A i \in 1..n + 1 : i \in 1..n \/ i = n + 1
    BY <2>6
  <2>11. (\A i \in 1..n : i \in 1..n + 1) /\ n + 1 \in 1..n + 1
    BY <2>6
  <2>12. \A k : k \in Y <=> \E i \in 1..n + 1 : yielded'[i] = k
    BY <2>6, <2>9, <2>10, <2>11 DEF Y
  <2>13. \A i, k \in 1..n + 1 : yielded'[i] = yielded'[k] => i = k
    BY <2>6, <2>7, <2>8, <2>10
  <2>14. Yielding'
    BY <2>3, <2>4, <2>5, <2>6, <2>12, <2>13 DEF Yielding, OnceEach
  <2> QED BY <1>1, <2>1, <2>2, <2>14
<1>5. CASE ~WithinTotal(j)
  <2>1. outcome' = "error"
    BY <1>2, <1>5 DEF Yield, End
  <2>2. Decoded(Y) <= Total /\ Decoded(Y) \in Nat /\ Total \in Nat
    BY <1>1, <1>3, TotalDecoded
  <2>3. ~(Decoded(Y) <= TotalBytes) /\ TotalBytes \in Nat
    BY <1>5, ConfigDecodeAssumption DEF WithinTotal
  <2> HIDE DEF Y
  <2>4. ~(Total <= TotalBytes)
    BY <2>2, <2>3
  <2> QED BY <2>1, <2>4 DEF Acceptable, Total
<1> QED BY <1>4, <1>5

-----------------------------------------------------------------------------
(* While nothing is wrong: what has been taken of the resources delivered.  *)
Queueing ==
  /\ ended => /\ rows = <<>> /\ current = <<>> /\ chunk = <<>> /\ feed = <<>>
              /\ Len(ToDecode) <= UpTo(Len(jobs))
  /\ ~ended /\ store.plan # "whole" =>
       /\ feed = <<>> /\ UpTo(Len(jobs)) + Len(chunk) = Cardinality(Delivered \cap Metadata)
       /\ \A i \in 1..Len(chunk) : chunk[i] = ToDecode[UpTo(Len(jobs)) + i]
  /\ ~ended /\ store.plan = "whole" =>
       /\ chunk = <<>> /\ (feed = <<>> => jobs = <<>>)
       /\ feed # <<>> => /\ rows = <<>> /\ current = <<>>
                         /\ Len(ToDecode) = UpTo(Len(jobs)) + Len(feed)
                         /\ \A i \in 1..Len(feed) : feed[i] = ToDecode[UpTo(Len(jobs)) + i]

Retaining == retained = Listed(Delivered \cap Asked)

Clean == Assembling /\ Retaining /\ Queueing /\ Advancing /\ Yielding

(* Once something is: an error is on its way that no answer overtakes.      *)
Spoiled ==
  /\ ~Acceptable
  /\ \/ In("failed") # {}
     \/ store.plan # "whole" /\ ~ended /\ \E i \in DOMAIN chunk : chunk[i] = Broken

(* The next batch starts where the last one ended.                          *)
LEMMA BatchJoins ==
  ASSUME StoreOK, InvJobs, Advancing, Yielding, UNCHANGED <<store, yielded>>,
         NEW b, Len(b) \in 1..BatchSize, UpTo(Len(jobs)) + Len(b) <= Len(ToDecode),
         Len(b) = BatchSize \/ UpTo(Len(jobs)) + Len(b) = Len(ToDecode),
         \A i \in 1..Len(b) : b[i] = ToDecode[UpTo(Len(jobs)) + i],
         jobs' = Append(jobs, NewJob(b))
  PROVE  Advancing' /\ Yielding' /\ Len(jobs') = Len(jobs) + 1
<1> DEFINE D == ToDecode
           J == Len(jobs)
           job == NewJob(b)
           a == UpTo(J)
<1>1. J \in Nat /\ DOMAIN jobs = 1..J /\ a \in Nat /\ (J + 1) - 1 = J /\ J + 1 \in Nat \ {0}
      /\ J + 1 - 1 = J
  <2>1. J \in Nat /\ DOMAIN jobs = 1..J
    BY JobsNumbered
  <2>2. a \in Nat
    BY <2>1, BatchPlaces
  <2> HIDE DEF J, a
  <2>3. (J + 1) - 1 = J /\ J + 1 \in Nat \ {0} /\ J + 1 - 1 = J
    BY <2>1
  <2> QED BY <2>1, <2>2, <2>3
<1>2. /\ DOMAIN jobs' = DOMAIN jobs \cup {J + 1} /\ J + 1 \notin DOMAIN jobs /\ jobs'[J + 1] = job
      /\ (\A j \in DOMAIN jobs : jobs'[j] = jobs[j]) /\ Len(jobs') = J + 1
  <2>1. "state" \in DOMAIN job /\ jobs' = Append(jobs, job)
    BY DEF NewJob
  <2> HIDE DEF job
  <2>2. Len(jobs') = J + 1
    <3>1. IsSequence(jobs)
      BY DEF InvJobs, IsSequence
    <3> QED BY <2>1, <3>1, AppendFacts
  <2> QED BY <2>1, <2>2, JobAppended
<1>3. ~Contains(b, Broken)
  <2>1. \A i \in 1..Len(b) : b[i] # Broken
    <3>1. \A i \in 1..Len(b) : UpTo(J) + i \in 1..Len(D)
      BY <1>1, DecodeFacts
    <3> QED BY <3>1, DecodeFacts
  <2> QED BY <2>1 DEF Contains
<1>4. /\ job.batch = b /\ job.at = 0 /\ job.decoded = 0 /\ job.state = "waiting"
  BY <1>3 DEF NewJob
<1>5. First(J + 1) = a + 1 /\ First(J + 1) \in Nat \ {0} /\ UpTo(J + 1 - 1) = a
  BY <1>1, FirstPlaces
<1> DEFINE f == First(J + 1)
<1>6. f..a + 0 = {} /\ f + 0 = f /\ UsedBefore(D, f, f) = 0
  <2>1. UsedBefore(D, f, f) = 0
    BY <1>5, UsedSteps
  <2> QED BY <1>1, <1>5, <2>1
<1>7. Advances(D, job, J + 1)
  <2> HIDE DEF D, job, a, f
  <2>1. Len(b) \in Nat /\ 0 \in 0..Len(b)
    OBVIOUS
  <2>2. UpTo(J + 1 - 1) = a /\ UpTo((J + 1) - 1) = a
    BY <1>1, <1>5
  <2> QED BY <1>4, <1>6, <2>1, <2>2 DEF Advances, a, f, D
<1>8. D' = D /\ \A es, x, k : Advances(es, x, k)' <=> Advances(es, x, k)
  BY SameStore, SameAdvance
<1>9. Advancing'
  BY <1>2, <1>7, <1>8 DEF Advancing
<1>10. In("yielded")' = In("yielded")
  BY <1>2, <1>4 DEF In
<1>11. \A j \in In("yielded") : jobs'[j].decoded = jobs[j].decoded
  BY <1>2 DEF In
<1>12. Yielding'
  BY <1>10, <1>11, YieldingKept
<1> QED BY <1>2, <1>9, <1>12

(* An error among the items of a batch.                                     *)
LEMMA BrokenSpoils ==
  ASSUME InvJobs, NEW items, NEW last, Fill(items, last), IsSequence(chunk \o items),
         \E i \in DOMAIN (chunk \o items) : (chunk \o items)[i] = Broken,
         ~last => ended' = FALSE, UNCHANGED store, store.plan # "whole", ~Acceptable
  PROVE  Spoiled'
<1> DEFINE filled == chunk \o items
<1>1. /\ Len(filled) \in Nat /\ DOMAIN filled = 1..Len(filled) /\ filled # <<>>
      /\ \E i \in 1..Len(filled) : filled[i] = Broken
  <2>1. Len(filled) \in Nat /\ DOMAIN filled = 1..Len(filled)
    BY SequenceFacts
  <2>2. \E i \in 1..Len(filled) : filled[i] = Broken
    BY <2>1
  <2>3. filled # <<>>
    <3> HIDE DEF filled
    <3>1. Len(filled) # 0
      BY <2>1, <2>2
    <3> QED BY <3>1, EmptyIsShort
  <2> QED BY <2>1, <2>2, <2>3
<1>2. Contains(filled, Broken)
  <2> HIDE DEF filled
  <2> QED BY <1>1 DEF Contains
<1>3. ~Acceptable'
  BY SameStore
<1>4. CASE jobs' = Append(jobs, NewJob(filled))
  <2>1. NewJob(filled).state = "failed" /\ "state" \in DOMAIN NewJob(filled)
    BY <1>2 DEF NewJob
  <2>2. /\ Len(jobs) + 1 \in DOMAIN jobs' /\ jobs'[Len(jobs) + 1] = NewJob(filled)
    <3> HIDE DEF filled
    <3> QED BY <1>4, <2>1, JobAppended
  <2>3. Len(jobs) + 1 \in In("failed")'
    BY <2>1, <2>2 DEF In
  <2> QED BY <1>3, <2>3 DEF Spoiled
<1>5. CASE chunk' = filled /\ ~last
  BY <1>1, <1>3, <1>5 DEF Spoiled
<1>6. \/ jobs' = Append(jobs, NewJob(filled))
      \/ chunk' = filled /\ ~last
  BY <1>1 DEF Fill
<1> QED BY <1>4, <1>5, <1>6

(* An error among the items stays in the queue or in a batch.               *)
LEMMA SpoiledFill ==
  ASSUME InvJobs, SInv, NEW items, NEW last, Fill(items, last), IsSequence(items),
         ~last => ended' = FALSE, UNCHANGED store, store.plan # "whole", Spoiled
  PROVE  Spoiled'
<1>1. CASE In("failed") # {}
  <2>1. PICK j \in DOMAIN jobs : jobs[j].state = "failed"
    BY <1>1 DEF In
  <2>2. j \in DOMAIN jobs' /\ jobs'[j] = jobs[j]
    <3>1. jobs' = jobs \/ jobs' = Append(jobs, NewJob(chunk \o items))
      BY DEF Fill
    <3>2. "state" \in DOMAIN NewJob(chunk \o items)
      BY DEF NewJob
    <3>3. CASE jobs' = Append(jobs, NewJob(chunk \o items))
      BY <3>2, <3>3, JobAppended
    <3> QED BY <3>1, <3>3
  <2>3. j \in In("failed")'
    BY <2>1, <2>2 DEF In
  <2> QED BY <2>3, SameStore DEF Spoiled
<1>2. CASE \E i \in DOMAIN chunk : chunk[i] = Broken
  <2>1. PICK i \in DOMAIN chunk : chunk[i] = Broken
    BY <1>2
  <2>2. IsSequence(chunk)
    BY DEF SInv, InvSizes, Sized, IsSequence
  <2>3. IsSequence(chunk \o items) /\ i \in DOMAIN (chunk \o items) /\ (chunk \o items)[i] = Broken
    <3>1. Len(chunk) \in Nat /\ DOMAIN chunk = 1..Len(chunk) /\ Len(items) \in Nat
      BY <2>2, SequenceFacts
    <3>2. /\ IsSequence(chunk \o items) /\ DOMAIN (chunk \o items) = 1..Len(chunk) + Len(items)
          /\ \A k \in 1..Len(chunk) : (chunk \o items)[k] = chunk[k]
      BY <2>2, JoinFacts
    <3>3. i \in 1..Len(chunk) /\ i \in 1..Len(chunk) + Len(items)
      BY <2>1, <3>1
    <3> QED BY <2>1, <3>2, <3>3
  <2> QED BY <2>3, BrokenSpoils DEF Spoiled
<1> QED BY <1>1, <1>2 DEF Spoiled

(* One more resource is delivered, the next of the table.                   *)
NextOf(V, c, W) ==
  /\ V \in SUBSET Stored /\ c \in Stored /\ c \notin V /\ W = V \cup {c}
  /\ \A x \in V : \A y \in Stored \ V : x < y
  /\ \A x \in W : \A y \in Stored \ W : x < y

(* What the resource adds to what is decoded and to what is retained.       *)
Adds(V, c, W) ==
  /\ Cardinality(V \cap Metadata) \in Nat /\ Cardinality(W \cap Metadata) <= Len(ToDecode)
  /\ Cardinality(V \cap Metadata) <= Len(ToDecode)
  /\ Len(ToDecode) \in Nat
  /\ c \in Metadata =>
       /\ Cardinality(W \cap Metadata) = Cardinality(V \cap Metadata) + 1
       /\ Resource(c) = ToDecode[Cardinality(V \cap Metadata) + 1]
  /\ c \notin Metadata => W \cap Metadata = V \cap Metadata
  /\ c \in Asked => Listed(W \cap Asked) = Append(Listed(V \cap Asked), Resource(c))
  /\ c \notin Asked => W \cap Asked = V \cap Asked
  /\ (c \in Asked /\ ~(/\ Len(Listed(V \cap Asked)) + 1 <= RetainCount
                       /\ Sum(Listed(V \cap Asked)) + Resource(c).size <= RetainBytes))
       => ~Acceptable

(* Of what is delivered next: its place among what is decoded and kept.     *)
LEMMA OneMore ==
  ASSUME StoreOK, NEW V, NEW c, NEW W, NextOf(V, c, W)
  PROVE  Adds(V, c, W)
<1>0. /\ V \in SUBSET Stored /\ c \in Stored /\ c \notin V /\ W = V \cup {c}
      /\ \A x \in V : \A y \in Stored \ V : x < y
      /\ \A x \in W : \A y \in Stored \ W : x < y
  BY DEF NextOf
<1>1. /\ ToDecode = Listed(Stored \cap Metadata) /\ Kept = Listed(Stored \cap Asked)
      /\ Metadata \in SUBSET Names /\ Asked \in SUBSET Names /\ Stored \in SUBSET Names
      /\ IsSequence(store.rows)
  BY ListsAre
<1>2. c \in Names /\ \A x \in V : x < c
  BY <1>0, <1>1
<1> DEFINE VM == V \cap Metadata
           WM == W \cap Metadata
           SM == Stored \cap Metadata
           VA == V \cap Asked
           WA == W \cap Asked
           SA == Stored \cap Asked
<1>3. /\ VM \in SUBSET Names /\ WM \in SUBSET SM /\ SM \in SUBSET Names /\ VM \in SUBSET SM
      /\ VA \in SUBSET Names /\ WA \in SUBSET SA /\ SA \in SUBSET Names /\ VA \in SUBSET SA
  BY <1>1
<1>4. Len(ToDecode) \in Nat /\ Cardinality(VM) \in Nat /\ Cardinality(WM) \in Nat
      /\ Cardinality(WM) <= Len(ToDecode) /\ Cardinality(VM) <= Len(ToDecode)
  <2>1. /\ Len(Listed(SM)) \in Nat /\ Len(Listed(WM)) = Cardinality(WM)
        /\ Len(Listed(VM)) = Cardinality(VM) /\ Cardinality(WM) \in Nat /\ Cardinality(VM) \in Nat
    BY <1>1, <1>3, ListedFacts
  <2>2. Len(Listed(WM)) <= Len(Listed(SM)) /\ Len(Listed(VM)) <= Len(Listed(SM))
    BY <1>1, <1>3, ListedGrows
  <2> QED BY <1>1, <2>1, <2>2
<1>5. ASSUME c \in Metadata
      PROVE  /\ Cardinality(WM) = Cardinality(VM) + 1 /\ Resource(c) = ToDecode[Cardinality(VM) + 1]
  <2>1. WM = VM \cup {c} /\ \A x \in VM : x < c
    BY <1>0, <1>2, <1>5
  <2>2. c \notin VM /\ IsFiniteSet(VM)
    BY <1>0, <1>1, <1>3, ListedFacts
  <2>3. Cardinality(WM) = Cardinality(VM) + 1
    BY <2>1, <2>2, FS_AddElement
  <2>4. Listed(WM) = Append(Listed(VM), Resource(c))
    <3> HIDE DEF WM, VM
    <3> QED BY <1>1, <1>2, <1>3, <2>1, ListedMore
  <2>5. IsSequence(Listed(VM)) /\ Len(Listed(VM)) = Cardinality(VM) /\ Len(Listed(WM)) = Cardinality(WM)
    BY <1>1, <1>3, ListedFacts
  <2>6. Listed(WM)[Cardinality(VM) + 1] = Resource(c)
    <3> DEFINE s == Listed(VM)
    <3>1. IsSequence(s) /\ Len(s) = Cardinality(VM) /\ Listed(WM) = Append(s, Resource(c))
      BY <2>4, <2>5
    <3> HIDE DEF s, VM, WM
    <3>2. Append(s, Resource(c))[Len(s) + 1] = Resource(c)
      BY <3>1, AppendFacts
    <3> QED BY <3>1, <3>2
  <2>7. \A i \in WM : \A k \in SM \ WM : i < k
    <3>1. SM \ WM \in SUBSET (Stored \ W)
      OBVIOUS
    <3> QED BY <1>0, <3>1
  <2>8. \A k \in 1..Len(Listed(WM)) : Listed(WM)[k] = Listed(SM)[k]
    <3> HIDE DEF WM, SM
    <3> QED BY <1>1, <1>3, <2>7, ListedPrefix
  <2> DEFINE n == Cardinality(VM)
  <2>9. n + 1 \in 1..Cardinality(WM)
    <3> HIDE DEF n
    <3>1. n \in Nat /\ Cardinality(WM) = n + 1
      BY <1>4, <2>3 DEF n
    <3> QED BY <3>1
  <2> QED BY <1>1, <2>3, <2>5, <2>6, <2>8, <2>9
<1>6. c \notin Metadata => WM = VM
  BY <1>0
<1>7. ASSUME c \in Asked
      PROVE  /\ Listed(WA) = Append(Listed(VA), Resource(c))
             /\ ~(/\ Len(Listed(VA)) + 1 <= RetainCount
                  /\ Sum(Listed(VA)) + Resource(c).size <= RetainBytes) => ~Acceptable
  <2>1. WA = VA \cup {c} /\ \A x \in VA : x < c
    BY <1>0, <1>2, <1>7
  <2> HIDE DEF VA, WA, SA
  <2>2. Listed(WA) = Append(Listed(VA), Resource(c))
    BY <1>1, <1>2, <1>3, <2>1, ListedMore
  <2>3. Sized(Listed(VA)) /\ Resource(c).size \in Nat
    BY <1>1, <1>3, ListedFacts, ResourceFacts
  <2>4. /\ Len(Listed(WA)) = Len(Listed(VA)) + 1
        /\ Sum(Listed(WA)) = Resource(c).size + Sum(Listed(VA)) /\ Sum(Listed(VA)) \in Nat
    BY <2>2, <2>3, SumOfMore, SumIsNat
  <2>5. /\ Len(Listed(WA)) <= Len(Kept) /\ Sum(Listed(WA)) <= Sum(Kept)
        /\ Len(Kept) \in Nat /\ Sum(Kept) \in Nat /\ Len(Listed(WA)) \in Nat /\ Sum(Listed(WA)) \in Nat
    <3>1. Kept = Listed(SA)
      BY <1>1 DEF SA
    <3> QED BY <1>1, <1>3, <3>1, ListedGrows
  <2>6. RetainCount \in Nat /\ RetainBytes \in Nat
    BY ConfigDecodeAssumption
  <2>7. Acceptable => Len(Kept) <= RetainCount /\ Sum(Kept) <= RetainBytes
    BY DEF Acceptable
  <2> DEFINE kl == Len(Kept)
             ks == Sum(Kept)
             wl == Len(Listed(WA))
             ws == Sum(Listed(WA))
             vl == Len(Listed(VA))
             vs == Sum(Listed(VA))
             z == Resource(c).size
  <2>8. /\ kl \in Nat /\ ks \in Nat /\ wl \in Nat /\ ws \in Nat /\ vs \in Nat /\ z \in Nat
        /\ wl = vl + 1 /\ ws = z + vs /\ wl <= kl /\ ws <= ks
        /\ Acceptable => kl <= RetainCount /\ ks <= RetainBytes
    BY <2>3, <2>4, <2>5, <2>7
  <2> HIDE DEF kl, ks, wl, ws, vl, vs, z
  <2>9. Acceptable => vl + 1 <= RetainCount /\ vs + z <= RetainBytes
    BY <2>6, <2>8
  <2> QED BY <2>2, <2>9 DEF vl, vs, z
<1>8. c \notin Asked => WA = VA
  BY <1>0
<1> HIDE DEF VM, WM, VA, WA, SM, SA
<1>9. /\ Cardinality(VM) \in Nat /\ Cardinality(WM) <= Len(ToDecode)
      /\ Cardinality(VM) <= Len(ToDecode) /\ Len(ToDecode) \in Nat
  BY <1>4
<1> QED BY <1>5, <1>6, <1>7, <1>8, <1>9 DEF Adds, VM, WM, VA, WA

(* What is filled are the resources to decode in their order.               *)
LEMMA Filled ==
  ASSUME StoreOK, InvJobs, Advancing, Yielding, UNCHANGED <<store, yielded>>,
         NEW items, NEW last \in BOOLEAN, Fill(items, last), IsSequence(chunk \o items),
         Len(chunk \o items) <= BatchSize,
         UpTo(Len(jobs)) + Len(chunk \o items) <= Len(ToDecode),
         last => UpTo(Len(jobs)) + Len(chunk \o items) = Len(ToDecode),
         \A i \in 1..Len(chunk \o items) : (chunk \o items)[i] = ToDecode[UpTo(Len(jobs)) + i]
  PROVE  /\ Advancing' /\ Yielding' /\ Len(jobs') \in Nat
         /\ last => chunk' = <<>> /\ Len(ToDecode) <= UpTo(Len(jobs'))
         /\ ~last => /\ UpTo(Len(jobs')) + Len(chunk') = UpTo(Len(jobs)) + Len(chunk \o items)
                     /\ \A i \in 1..Len(chunk') : chunk'[i] = ToDecode[UpTo(Len(jobs')) + i]
<1> DEFINE filled == chunk \o items
           n == Len(filled)
           J == Len(jobs)
           a == UpTo(J)
           N == Len(ToDecode)
<1>1. /\ n \in Nat /\ J \in Nat /\ a \in Nat /\ N \in Nat /\ UpTo(J + 1) = a + BatchSize
      /\ BatchSize \in Nat \ {0} /\ (filled = <<>> <=> n = 0) /\ Len(<<>>) = 0
  <2>1. J \in Nat
    BY JobsNumbered
  <2>2. n \in Nat /\ (filled = <<>> <=> n = 0)
    BY EmptyIsShort
  <2>3. N \in Nat
    BY DecodeFacts
  <2>4. a \in Nat /\ UpTo(J + 1) = a + BatchSize
    BY <2>1, BatchPlaces
  <2> QED BY <2>1, <2>2, <2>3, <2>4, ConfigDecodeAssumption
<1>2. /\ n <= BatchSize /\ a + n <= N /\ (last => a + n = N)
      /\ \A i \in 1..n : filled[i] = ToDecode[a + i]
  OBVIOUS
<1>3. \/ filled # <<>> /\ (last \/ n = BatchSize) /\ jobs' = Append(jobs, NewJob(filled)) /\ chunk' = <<>>
      \/ ~(filled # <<>> /\ (last \/ n = BatchSize)) /\ chunk' = filled /\ UNCHANGED jobs
  BY DEF Fill
<1>4. CASE filled # <<>> /\ (last \/ n = BatchSize) /\ jobs' = Append(jobs, NewJob(filled)) /\ chunk' = <<>>
  <2>1. n \in 1..BatchSize /\ (n = BatchSize \/ a + n = N)
    <3> HIDE DEF n, a, N, filled
    <3> QED BY <1>1, <1>2, <1>4
  <2>2. Advancing' /\ Yielding' /\ Len(jobs') = J + 1
    <3> HIDE DEF filled
    <3> QED BY <1>2, <1>4, <2>1, BatchJoins
  <2> HIDE DEF n, a, N, filled, J
  <2>3. 1..0 = {} /\ J + 1 \in Nat
    BY <1>1
  <2>4. last => N <= a + BatchSize
    BY <1>1, <1>2
  <2>5. ~last => (a + BatchSize) + 0 = a + n
    BY <1>1, <1>4
  <2> QED BY <1>1, <1>4, <2>2, <2>3, <2>4, <2>5 DEF n, a, N, J, filled
<1>5. CASE ~(filled # <<>> /\ (last \/ n = BatchSize)) /\ chunk' = filled /\ UNCHANGED jobs
  <2>1. Advancing'
    <3>1. ToDecode' = ToDecode /\ \A es, x, k : Advances(es, x, k)' <=> Advances(es, x, k)
      BY SameStore, SameAdvance
    <3> QED BY <1>5, <3>1 DEF Advancing
  <2>2. Yielding'
    <3>1. In("yielded")' = In("yielded")
      BY <1>5 DEF In
    <3> QED BY <1>5, <3>1, YieldingKept
  <2> HIDE DEF n, a, N, filled, J
  <2>3. last => filled = <<>> /\ n = 0 /\ N = a /\ N <= a
    BY <1>1, <1>2, <1>5
  <2> QED BY <1>1, <1>2, <1>5, <2>1, <2>2, <2>3 DEF n, a, N, J, filled
<1> QED BY <1>3, <1>4, <1>5

DeliveredIsFirst == \A x \in Delivered : \A y \in Stored \ Delivered : x < y

(* After a step, too, what is delivered comes first.                        *)
LEMMA StillFirst == StoreOK' /\ Assembling' => DeliveredIsFirst'
<1>1. StoreOK /\ Assembling => DeliveredIsFirst
  BY DeliveredFirst DEF DeliveredIsFirst
<1> QED BY <1>1, PTL

(* A sequence with one element more.                                        *)
LEMMA JoinOne ==
  ASSUME NEW s, IsSequence(s), NEW r
  PROVE  LET c == s \o <<r>> IN
         /\ IsSequence(c) /\ Len(c) = Len(s) + 1 /\ DOMAIN c = 1..Len(s) + 1 /\ Len(s) \in Nat
         /\ c[Len(s) + 1] = r /\ \A i \in 1..Len(s) : c[i] = s[i]
<1> DEFINE t == <<r>>
           c == s \o t
           m == Len(s)
           n == Len(t)
<1>1. IsSequence(t) /\ n = 1 /\ t[1] = r
  <2>1. t \in Seq({r}) /\ n = 1 /\ t[1] = r
    OBVIOUS
  <2> QED BY <2>1 DEF IsSequence
<1> HIDE DEF t
<1>2. /\ m \in Nat /\ IsSequence(c) /\ Len(c) = m + n /\ DOMAIN c = 1..m + n
      /\ \A i \in 1..m : c[i] = s[i]
      /\ \A i \in 1..n : c[m + i] = t[i]
  <2>1. IsSequence(s) /\ IsSequence(t)
    BY <1>1
  <2>2. LET u == s \o t
            k == Len(s)
            l == Len(t)
        IN /\ k \in Nat /\ l \in Nat /\ IsSequence(u) /\ Len(u) = k + l /\ DOMAIN u = 1..k + l
           /\ \A i \in 1..k : u[i] = s[i]
           /\ \A i \in 1..l : u[k + i] = t[i]
    BY ONLY <2>1, JoinFacts
  <2> QED BY <2>2
<1> HIDE DEF m, c, n
<1>3. c[m + 1] = r
  BY <1>1, <1>2
<1> QED BY <1>1, <1>2, <1>3 DEF m, c, t

(* What a stream takes of the resource under assembly.                      *)
LEMMA StreamTakes ==
  ASSUME StoreOK, IInv, SInv, Clean, store.plan # "whole", ~ended, current # <<>>,
         NEW c, c = Head(current).name, Passing(Resource(c)),
         UNCHANGED <<store, feed, yielded>>,
         Assembling', Delivered' = Delivered \cup {c}
  PROVE  Clean' \/ Spoiled'
<1> DEFINE V == Delivered
           W == V \cup {c}
           r == Resource(c)
           J == Len(jobs)
           items == IF Decodable(r) THEN <<r>> ELSE <<>>
           filled == chunk \o items
           card(S) == Cardinality(S \cap Metadata)
           N == Len(ToDecode)
<1>1. /\ V \in SUBSET Stored /\ c \in Stored /\ c \notin V
      /\ \A x \in V : \A y \in Stored \ V : x < y
  BY DeliveredFirst DEF Clean
<1>2. \A x \in W : \A y \in Stored \ W : x < y
  <2>1. StoreOK' /\ Stored' = Stored
    BY SameStore
  <2>2. DeliveredIsFirst'
    BY <2>1, StillFirst
  <2> QED BY <2>1, <2>2 DEF DeliveredIsFirst
<1>3. /\ card(V) \in Nat /\ card(W) <= N /\ card(V) <= N /\ N \in Nat
      /\ c \in Metadata => card(W) = card(V) + 1 /\ r = ToDecode[card(V) + 1]
      /\ c \notin Metadata => W \cap Metadata = V \cap Metadata
      /\ c \in Asked => Listed(W \cap Asked) = Append(Listed(V \cap Asked), r)
      /\ c \notin Asked => W \cap Asked = V \cap Asked
      /\ (c \in Asked /\ ~(/\ Len(Listed(V \cap Asked)) + 1 <= RetainCount
                           /\ Sum(Listed(V \cap Asked)) + r.size <= RetainBytes)) => ~Acceptable
  <2>1. NextOf(V, c, W)
    BY <1>1, <1>2 DEF NextOf
  <2>2. Adds(V, c, W)
    <3> HIDE DEF V, W
    <3> QED BY <2>1, OneMore
  <2> QED BY <2>2 DEF Adds
<1>4. /\ c \in Names /\ r # Broken /\ r.name = c /\ r.size \in Nat
      /\ (Decodable(r) <=> c \in Metadata)
      /\ (c \in Asked <=> store.plan = "selected" /\ r.name \in Selected)
  <2>1. c \in Names /\ Stored \in SUBSET Names
    BY <1>1, ListsAre
  <2>2. r.name = c /\ r.size \in Nat
    BY ResourceFacts, ListsAre
  <2>3. c # 0 /\ Broken.name = 0
    BY <2>1, NamesNumbered DEF Broken
  <2>4. Decodable(r) <=> c \in Metadata
    BY <2>1, <2>2, <2>3 DEF Decodable, Metadata
  <2>5. store.plan \in {"stream", "selected"}
    BY DEF StoreOK, Plans
  <2>6. c \in Asked <=> store.plan = "selected" /\ c \in Selected
    BY <2>1, <2>5 DEF Asked
  <2> QED BY <2>1, <2>2, <2>3, <2>4, <2>6
<1>5. /\ retained = Listed(V \cap Asked) /\ feed = <<>> /\ UpTo(J) + Len(chunk) = card(V)
      /\ \A i \in 1..Len(chunk) : chunk[i] = ToDecode[UpTo(J) + i]
  BY DEF Clean, Retaining, Queueing
<1>6. /\ IsSequence(chunk) /\ Len(chunk) \in Nat /\ Len(chunk) < BatchSize /\ BatchSize \in Nat
      /\ J \in Nat /\ UpTo(J) \in Nat /\ InvJobs
  <2>1. IsSequence(chunk) /\ InvJobs /\ Len(chunk) < BatchSize
    BY DEF SInv, InvSizes, Sized, IsSequence, IInv, InvBatches
  <2>2. Len(chunk) \in Nat
    BY <2>1, SequenceFacts
  <2>3. J \in Nat
    BY <2>1, JobsNumbered
  <2>4. UpTo(J) \in Nat
    BY <2>3, BatchPlaces
  <2> QED BY <2>1, <2>2, <2>3, <2>4, ConfigDecodeAssumption
<1>7. IsSequence(<<>>) /\ IsSequence(<<r>>) /\ IsSequence(<<Broken>>)
      /\ Len(<<>>) = 0 /\ Len(<<r>>) = 1 /\ Len(<<Broken>>) = 1 /\ <<r>>[1] = r /\ <<Broken>>[1] = Broken
  <2>1. \A x : IsSequence(<<x>>)
    <3>1. ASSUME NEW x PROVE IsSequence(<<x>>)
      <4>1. <<x>> \in Seq({x})
        OBVIOUS
      <4> QED BY <4>1 DEF IsSequence
    <3> QED BY <3>1
  <2> QED BY <2>1, NothingSized
<1>8. CASE c \in Asked /\ ~Retainable(r)
  <2>1. Fill(<<Broken>>, FALSE) /\ ended' = FALSE
    BY <1>4, <1>8 DEF Passing
  <2>2. ~Acceptable
    BY <1>3, <1>5, <1>8 DEF Retainable
  <2> DEFINE b == <<Broken>>
             n == Len(chunk)
  <2>3. /\ IsSequence(chunk \o b) /\ DOMAIN (chunk \o b) = 1..n + Len(b)
        /\ \A i \in 1..Len(b) : (chunk \o b)[n + i] = b[i]
    <3> HIDE DEF b
    <3> QED BY <1>6, <1>7, JoinFacts DEF b
  <2>4. n + 1 \in DOMAIN (chunk \o b) /\ (chunk \o b)[n + 1] = Broken
    <3>1. Len(b) = 1 /\ b[1] = Broken /\ 1 \in 1..1
      BY <1>7
    <3> HIDE DEF b, n
    <3>2. n \in Nat /\ n + 1 \in 1..n + 1
      BY <1>6 DEF n
    <3> QED BY <2>3, <3>1, <3>2
  <2>5. Spoiled'
    <3> HIDE DEF n
    <3> QED BY <1>6, <2>1, <2>2, <2>3, <2>4, BrokenSpoils
  <2> QED BY <2>5
<1>9. CASE ~(c \in Asked /\ ~Retainable(r))
  <2>1. /\ Fill(items, FALSE) /\ ended' = FALSE
        /\ retained' = IF c \in Asked THEN Append(retained, r) ELSE retained
    BY <1>4, <1>9 DEF Passing
  <2>2. /\ IsSequence(filled) /\ Len(filled) <= BatchSize /\ UpTo(J) + Len(filled) = card(W)
        /\ \A i \in 1..Len(filled) : filled[i] = ToDecode[UpTo(J) + i]
    <3>1. CASE c \in Metadata
      <4> DEFINE b == <<r>>
                 n == Len(chunk)
                 a == UpTo(J)
      <4>1. filled = chunk \o b
        BY <1>4, <3>1
      <4> HIDE DEF filled
      <4>2. /\ IsSequence(filled) /\ Len(filled) = n + 1
            /\ (\A i \in 1..n : filled[i] = chunk[i]) /\ filled[n + 1] = r
        BY <1>6, <4>1, JoinOne
      <4> HIDE DEF b, items
      <4>3. a + n = card(V) /\ n \in Nat /\ n < BatchSize /\ a \in Nat
            /\ (\A i \in 1..n : chunk[i] = ToDecode[a + i])
            /\ card(W) = card(V) + 1 /\ r = ToDecode[card(V) + 1]
        BY <1>3, <1>5, <1>6, <3>1
      <4> HIDE DEF n, a, r, V, W, card
      <4>4. n + 1 <= BatchSize /\ a + (n + 1) = card(W)
            /\ card(V) + 1 = a + (n + 1) /\ \A i \in 1..n + 1 : i \in 1..n \/ i = n + 1
        BY <1>6, <4>3
      <4>7. IsSequence(filled) /\ Len(filled) <= BatchSize /\ a + Len(filled) = card(W)
        BY <4>2, <4>4
      <4>8. \A i \in 1..Len(filled) : filled[i] = ToDecode[a + i]
        BY <4>2, <4>3, <4>4
      <4> QED BY <4>7, <4>8 DEF a
    <3>2. CASE c \notin Metadata
      <4>1. items = <<>>
        BY <1>4, <3>2
      <4>2. filled = chunk
        BY <1>6, <4>1, ConcatEmptySeq DEF IsSequence
      <4>3. card(W) = card(V) /\ UpTo(J) + Len(chunk) = card(V)
        BY <1>3, <1>5, <3>2
      <4>4. Len(chunk) <= BatchSize /\ IsSequence(chunk)
        BY <1>6
      <4> HIDE DEF filled, card, V, W, J
      <4> QED BY <1>5, <4>2, <4>3, <4>4
    <3> QED BY <3>1, <3>2
  <2>3. /\ Advancing' /\ Yielding' /\ UpTo(Len(jobs')) + Len(chunk') = card(W)
        /\ \A i \in 1..Len(chunk') : chunk'[i] = ToDecode[UpTo(Len(jobs')) + i]
    <3> HIDE DEF items, V, W, card
    <3>1. UpTo(J) + Len(chunk \o items) <= N
      BY <1>3, <2>2
    <3>2. Advancing /\ Yielding
      BY DEF Clean
    <3> QED BY <1>6, <2>1, <2>2, <3>1, <3>2, Filled
  <2>4. ToDecode' = ToDecode /\ Metadata' = Metadata /\ Asked' = Asked /\ \A S : Listed(S)' = Listed(S)
    BY SameStore
  <2>5. Queueing'
    <3>1. Delivered' \cap Metadata' = W \cap Metadata
      BY <2>4
    <3>2. Cardinality(Delivered \cap Metadata)' = card(W)
      BY <3>1
    <3>3. feed' = <<>> /\ ended' = FALSE /\ store'.plan # "whole"
      BY <1>5, <2>1
    <3> HIDE DEF card, W, V
    <3> QED BY <2>3, <2>4, <3>2, <3>3 DEF Queueing, UpTo
  <2>6. Retaining'
    <3>1. Listed(Delivered \cap Asked)' = Listed(W \cap Asked)
      <4>1. Delivered' \cap Asked' = W \cap Asked
        BY <2>4
      <4> HIDE DEF W
      <4> QED BY <4>1 DEF Listed, Resource, RowsOf
    <3>2. retained' = Listed(W \cap Asked)
      BY <1>3, <1>5, <2>1
    <3> QED BY <3>1, <3>2 DEF Retaining
  <2> QED BY <2>3, <2>5, <2>6 DEF Clean
<1> QED BY <1>8, <1>9

(* What has not been touched goes on.                                       *)
LEMMA JobsRest ==
  ASSUME Advancing, Yielding, UNCHANGED <<store, jobs, yielded>>
  PROVE  Advancing' /\ Yielding'
<1>1. ToDecode' = ToDecode /\ \A es, x, k : Advances(es, x, k)' <=> Advances(es, x, k)
  BY SameStore, SameAdvance
<1>2. Advancing'
  BY <1>1 DEF Advancing
<1>3. In("yielded")' = In("yielded")
  BY DEF In
<1> QED BY <1>2, <1>3, YieldingKept

(* What collecting takes of it.                                             *)
LEMMA WholeTakes ==
  ASSUME StoreOK, Clean, store.plan = "whole", ~ended, feed = <<>>, current # <<>>,
         NEW c, c = Head(current).name, Collecting(Resource(c)), outcome = "running",
         UNCHANGED <<store, feed, yielded>>,
         Assembling', Delivered' = Delivered \cup {c}
  PROVE  \/ outcome' = "running" /\ Clean'
         \/ outcome' = "error" /\ ~Acceptable
<1> DEFINE V == Delivered
           W == V \cup {c}
           r == Resource(c)
<1>1. /\ V \in SUBSET Stored /\ c \in Stored /\ c \notin V
      /\ \A x \in V : \A y \in Stored \ V : x < y
  BY DeliveredFirst DEF Clean
<1>2. \A x \in W : \A y \in Stored \ W : x < y
  <2>1. StoreOK' /\ Stored' = Stored
    BY SameStore
  <2>2. DeliveredIsFirst'
    BY <2>1, StillFirst
  <2> QED BY <2>1, <2>2 DEF DeliveredIsFirst
<1>3. /\ Cardinality(V \cap Metadata) \in Nat /\ Cardinality(W \cap Metadata) <= Len(ToDecode)
      /\ Cardinality(V \cap Metadata) <= Len(ToDecode)
      /\ Len(ToDecode) \in Nat
      /\ c \in Metadata =>
           /\ Cardinality(W \cap Metadata) = Cardinality(V \cap Metadata) + 1
           /\ r = ToDecode[Cardinality(V \cap Metadata) + 1]
      /\ c \notin Metadata => W \cap Metadata = V \cap Metadata
      /\ c \in Asked => Listed(W \cap Asked) = Append(Listed(V \cap Asked), r)
      /\ c \notin Asked => W \cap Asked = V \cap Asked
      /\ (c \in Asked /\ ~(/\ Len(Listed(V \cap Asked)) + 1 <= RetainCount
                           /\ Sum(Listed(V \cap Asked)) + r.size <= RetainBytes)) => ~Acceptable
  <2>1. NextOf(V, c, W)
    BY <1>1, <1>2 DEF NextOf
  <2>2. Adds(V, c, W)
    <3> HIDE DEF V, W
    <3> QED BY <2>1, OneMore
  <2> QED BY <2>2 DEF Adds
<1>4. c \in Asked /\ r # Broken
  <2>1. c \in Names
    BY <1>1, ListsAre
  <2>2. c # 0 /\ Broken.name = 0 /\ r.name = c
    <3>1. r.name = c
      BY ResourceFacts, ListsAre
    <3> QED BY <2>1, <3>1, NamesNumbered DEF Broken
  <2>3. c \in Asked
    BY <2>1 DEF Asked
  <2>4. r # Broken
    BY <2>2
  <2> QED BY <2>3, <2>4
<1>5. retained = Listed(V \cap Asked)
  BY DEF Clean, Retaining
<1>6. CASE ~Retainable(r)
  <2>1. outcome' = "error"
    BY <1>6 DEF Collecting
  <2> QED BY <1>3, <1>4, <1>5, <1>6, <2>1 DEF Retainable
<1>7. CASE Retainable(r)
  <2>1. retained' = Append(retained, r) /\ UNCHANGED <<chunk, ended, jobs, outcome>>
    BY <1>4, <1>7 DEF Collecting
  <2>2. Advancing' /\ Yielding'
    BY <2>1, JobsRest DEF Clean
  <2>3. ToDecode' = ToDecode /\ Metadata' = Metadata /\ Asked' = Asked
    BY SameStore
  <2>4. Queueing'
    BY <2>1, <2>3 DEF Clean, Queueing
  <2>5. Retaining'
    <3>1. Delivered' \cap Asked' = W \cap Asked
      BY <2>3
    <3>2. Listed(Delivered \cap Asked)' = Listed(W \cap Asked)
      <4> HIDE DEF W
      <4> QED BY <3>1 DEF Listed, Resource, RowsOf
    <3>3. retained' = Listed(W \cap Asked)
      BY <1>3, <1>4, <1>5, <2>1
    <3> QED BY <3>2, <3>3 DEF Retaining
  <2> QED BY <2>1, <2>2, <2>4, <2>5 DEF Clean
<1> QED BY <1>6, <1>7

(* The next thing that is known of a read that nothing has spoiled.         *)
Onward ==
  \/ outcome' = "running" /\ (Clean' \/ Spoiled')
  \/ outcome' = "error" /\ ~Acceptable
  \/ outcome' \notin {"running", "ok", "error"}

(* A resource delivered: the read goes on, or the table is not acceptable.  *)
LEMMA DeliverGoesOn ==
  ASSUME StoreOK, IInv, SInv, Clean, Receiving, current # <<>>, Deliver(Assembled),
         rows # <<>> => InSequence(Head(rows)) /\ ~Continues(Head(rows)),
         UNCHANGED <<store, feed, yielded>>, Assembling', Delivered' = WithCurrent
  PROVE  Onward
<1> DEFINE c == Head(current).name
<1>1. Assembled = Resource(c)
  BY CurrentDone DEF Clean
<1>2. Delivered' = Delivered \cup {c} /\ outcome = "running" /\ ~ended
  BY DEF WithCurrent, Receiving, CanPoll
<1>3. PICK d : d = c
  OBVIOUS
<1>4. CASE store.plan = "whole"
  <2>1. Collecting(Resource(d)) /\ feed = <<>>
    BY <1>1, <1>3, <1>4 DEF Deliver, Receiving
  <2> QED BY <1>2, <1>3, <1>4, <2>1, WholeTakes DEF Onward
<1>5. CASE store.plan # "whole"
  <2>1. Passing(Resource(d)) /\ outcome' = outcome
    BY <1>1, <1>3, <1>5 DEF Deliver
  <2> QED BY <1>2, <1>3, <1>5, <2>1, StreamTakes DEF Onward
<1> QED BY <1>4, <1>5

(* So with a row received,                                                  *)
LEMMA RowGoesOn == ASSUME StoreOK, IInv, SInv, Clean, RowArrives PROVE Onward
<1> DEFINE row == Head(rows)
<1>1. /\ Receiving /\ rows # <<>> /\ UNCHANGED <<store, feed, free, yielded, answer>>
      /\ outcome = "running" /\ ~ended
  BY DEF RowArrives, Receiving, CanPoll
<1>2. Assembling /\ Retaining /\ Queueing /\ Advancing /\ Yielding
  BY DEF Clean
<1>3. ToDecode' = ToDecode /\ Metadata' = Metadata /\ Asked' = Asked /\ \A S : Listed(S)' = Listed(S)
  BY <1>1, SameStore
<1>4. CASE /\ InSequence(row) /\ Continues(row)
           /\ rows' = Tail(rows) /\ current' = Append(current, row)
           /\ UNCHANGED <<retained, chunk, ended, jobs, outcome>>
  <2>1. Assembling' /\ Delivered' = Delivered
    BY <1>1, <1>2, <1>4, RowContinues
  <2>2. Advancing' /\ Yielding'
    BY <1>1, <1>2, <1>4, JobsRest
  <2>3. Queueing'
    <3>1. Cardinality(Delivered \cap Metadata)' = Cardinality(Delivered \cap Metadata)
      BY <1>3, <2>1
    <3>2. store'.plan = "whole" => feed = <<>>
      BY <1>1 DEF Receiving
    <3> QED BY <1>1, <1>2, <1>3, <1>4, <3>1, <3>2 DEF Queueing
  <2>4. Retaining'
    <3>1. Delivered' \cap Asked' = Delivered \cap Asked
      BY <1>3, <2>1
    <3>2. Listed(Delivered \cap Asked)' = Listed(Delivered \cap Asked)
      BY <1>1, <3>1 DEF Listed, Resource, RowsOf
    <3> QED BY <1>2, <1>4, <3>2 DEF Retaining
  <2> QED BY <1>1, <1>4, <2>1, <2>2, <2>3, <2>4 DEF Onward, Clean
<1>5. CASE /\ InSequence(row) /\ ~Continues(row)
           /\ rows' = Tail(rows) /\ current' = <<row>>
           /\ IF current = <<>> THEN UNCHANGED <<retained, chunk, ended, jobs, outcome>>
              ELSE Deliver(Assembled)
  <2>1. Assembling' /\ Delivered' = WithCurrent
    BY <1>1, <1>2, <1>5, RowBegins
  <2>2. CASE current # <<>>
    BY <1>1, <1>5, <2>1, <2>2, DeliverGoesOn
  <2>3. CASE current = <<>>
    <3>1. Delivered' = Delivered /\ UNCHANGED <<retained, chunk, ended, jobs, outcome>>
      BY <1>5, <2>1, <2>3 DEF WithCurrent
    <3>2. Advancing' /\ Yielding'
      BY <1>1, <1>2, <3>1, JobsRest
    <3>3. Queueing'
      <4>1. Cardinality(Delivered \cap Metadata)' = Cardinality(Delivered \cap Metadata)
        BY <1>3, <3>1
      <4>2. store'.plan = "whole" => feed = <<>>
        BY <1>1 DEF Receiving
      <4> QED BY <1>1, <1>2, <1>3, <3>1, <4>1, <4>2 DEF Queueing
    <3>4. Retaining'
      <4>1. Delivered' \cap Asked' = Delivered \cap Asked
        BY <1>3, <3>1
      <4>2. Listed(Delivered \cap Asked)' = Listed(Delivered \cap Asked)
        BY <1>1, <4>1 DEF Listed, Resource, RowsOf
      <4> QED BY <1>2, <3>1, <4>2 DEF Retaining
    <3> QED BY <1>1, <2>1, <3>1, <3>2, <3>3, <3>4 DEF Onward, Clean
  <2> QED BY <2>2, <2>3
<1>6. CASE /\ ~InSequence(row)
           /\ rows' = <<>> /\ current' = <<>>
           /\ IF store.plan = "whole" THEN Collecting(Broken)
              ELSE /\ Fill(<<Broken>>, TRUE) /\ ended' = TRUE
                   /\ UNCHANGED <<retained, outcome>>
  <2>1. ~Acceptable
    <3>1. Received + 1 \in 1..Len(store.rows) /\ ~Follows(Received + 1)
      BY <1>1, <1>2, <1>6, RowTells
    <3>2. DOMAIN store.rows = 1..Len(store.rows)
      BY SequenceFacts DEF StoreOK, InOrder
    <3>3. ~Whole
      BY <3>1, <3>2 DEF Whole, Follows
    <3> QED BY <3>3 DEF Acceptable
  <2>2. CASE store.plan = "whole"
    <3>1. outcome' = "error"
      BY <1>6, <2>2 DEF Collecting
    <3> QED BY <2>1, <3>1 DEF Onward
  <2>3. CASE store.plan # "whole"
    <3>1. Fill(<<Broken>>, TRUE) /\ outcome' = "running"
      BY <1>1, <1>6, <2>3
    <3>2. IsSequence(chunk) /\ InvJobs
      BY DEF SInv, InvSizes, Sized, IsSequence, IInv
    <3> DEFINE u == chunk \o <<Broken>>
               n == Len(chunk)
    <3>3. IsSequence(u) /\ DOMAIN u = 1..n + 1 /\ u[n + 1] = Broken /\ n \in Nat
      BY <3>2, JoinOne
    <3>4. n + 1 \in DOMAIN u
      <4> HIDE DEF n, u
      <4> QED BY <3>3
    <3>5. \E i \in DOMAIN (chunk \o <<Broken>>) : (chunk \o <<Broken>>)[i] = Broken
      BY <3>3, <3>4
    <3>6. IsSequence(chunk \o <<Broken>>)
      BY <3>3
    <3>7. Spoiled'
      BY <1>1, <2>1, <2>3, <3>1, <3>2, <3>5, <3>6, BrokenSpoils
    <3> QED BY <3>1, <3>7 DEF Onward
  <2> QED BY <2>2, <2>3
<1> QED BY <1>4, <1>5, <1>6 DEF RowArrives

(* and with the end of the rows.                                            *)
LEMMA RowsEndGoesOn == ASSUME StoreOK, IInv, SInv, Clean, RowsEnd PROVE Onward
<1>1. /\ Receiving /\ rows = <<>> /\ current # <<>> /\ current' = <<>> /\ Deliver(Assembled)
      /\ UNCHANGED <<store, rows, feed, yielded>>
  BY DEF RowsEnd
<1>2. Assembling' /\ Delivered' = WithCurrent
  BY <1>1, RowsDone DEF Clean
<1> QED BY <1>1, <1>2, DeliverGoesOn

(* A sequence cut in two.                                                   *)
LEMMA CutFacts ==
  ASSUME NEW s, IsSequence(s), NEW k \in 0..Len(s)
  PROVE  LET u == SubSeq(s, 1, k)
             v == SubSeq(s, k + 1, Len(s))
         IN /\ IsSequence(u) /\ Len(u) = k /\ (\A i \in 1..k : u[i] = s[i])
            /\ IsSequence(v) /\ Len(v) = Len(s) - k /\ \A i \in 1..Len(s) - k : v[i] = s[k + i]
<1> DEFINE n == Len(s)
           u == SubSeq(s, 1, k)
           v == SubSeq(s, k + 1, n)
<1>1. PICK S : s \in Seq(S)
  BY DEF IsSequence
<1>2. n \in Nat /\ DOMAIN s = 1..n /\ \A i \in 1..n : s[i] \in S
  BY <1>1, LenProperties, ElementOfSeq
<1>3. \A a \in 1..n + 1, b \in 0..n :
        LET t == SubSeq(s, a, b) IN
        /\ IsSequence(t) /\ Len(t) = (IF a <= b + 1 THEN b - a + 1 ELSE 0)
        /\ \A i \in 1..b - a + 1 : t[i] = s[a + i - 1]
  <2> SUFFICES ASSUME NEW a \in 1..n + 1, NEW b \in 0..n
               PROVE  LET t == SubSeq(s, a, b) IN
                      /\ IsSequence(t) /\ Len(t) = (IF a <= b + 1 THEN b - a + 1 ELSE 0)
                      /\ \A i \in 1..b - a + 1 : t[i] = s[a + i - 1]
    OBVIOUS
  <2> DEFINE t == SubSeq(s, a, b)
  <2> HIDE DEF n
  <2>1. \A i \in a..b : s[i] \in S
    BY <1>2
  <2>2. t \in Seq(S) /\ Len(t) = (IF a <= b + 1 THEN b - a + 1 ELSE 0)
    BY <1>2, <2>1, SubSeqProperties
  <2>3. \A i \in 1..b - a + 1 : t[i] = s[a + i - 1]
    BY <1>2, <2>1, SubSeqProperties
  <2> QED BY <2>2, <2>3 DEF IsSequence
<1> HIDE DEF n, u, v
<1>5. k \in 0..n
  BY DEF n
<1>6. IsSequence(u) /\ Len(u) = k /\ \A i \in 1..k : u[i] = s[i]
  <2>1. 1 \in 1..n + 1 /\ k \in 0..n /\ 1 <= k + 1 /\ k - 1 + 1 = k
    BY <1>2, <1>5
  <2>2. \A i \in 1..k : 1 + i - 1 = i
    BY <1>5
  <2> QED BY <1>3, <2>1, <2>2 DEF u
<1>7. IsSequence(v) /\ Len(v) = n - k /\ \A i \in 1..n - k : v[i] = s[k + i]
  <2>1. k + 1 \in 1..n + 1 /\ n \in 0..n /\ k + 1 <= n + 1 /\ n - (k + 1) + 1 = n - k
    BY <1>2, <1>5
  <2>2. \A i \in 1..n - k : (k + 1) + i - 1 = k + i
    BY <1>2, <1>5
  <2> QED BY <1>3, <2>1, <2>2 DEF v
<1> QED BY <1>6, <1>7 DEF u, v, n

(* The workers and the loop leave alone what has been taken.                *)
LEMMA TakenRests ==
  ASSUME Assembling, Retaining, UNCHANGED <<store, sourceVars>>
  PROVE  Assembling' /\ Retaining'
<1>1. store' = store /\ rows' = rows /\ current' = current /\ retained' = retained
  BY DEF sourceVars
<1>2. Assembling'
  BY <1>1 DEF Assembling, Received, Follows, RowsUpTo, RowsOf
<1>3. Delivered' = Delivered /\ Asked' = Asked
  BY <1>1 DEF Delivered, Received, Asked
<1>4. Retaining'
  BY <1>1, <1>3 DEF Retaining, Listed, Resource, RowsOf
<1> QED BY <1>2, <1>4

(* The queue rests while workers work.                                      *)
LEMMA QueueRests ==
  ASSUME StoreOK, InvJobs, InvJobs', Queueing, UNCHANGED <<store, sourceVars>>,
         NEW j \in DOMAIN jobs, DOMAIN jobs' = DOMAIN jobs
  PROVE  Queueing'
<1>1. /\ store' = store /\ rows' = rows /\ current' = current /\ retained' = retained
      /\ chunk' = chunk /\ feed' = feed /\ ended' = ended
  BY DEF sourceVars
<1>2. Len(jobs') = Len(jobs) /\ jobs # <<>>
  <2>1. Len(jobs) \in Nat /\ DOMAIN jobs = 1..Len(jobs)
    BY JobsNumbered
  <2>2. Len(jobs') \in Nat /\ DOMAIN jobs' = 1..Len(jobs')
    BY LenProperties DEF InvJobs
  <2> DEFINE m == Len(jobs)
             n == Len(jobs')
  <2>3. m \in Nat /\ n \in Nat /\ 1..m = 1..n /\ j \in 1..m
    BY <2>1, <2>2
  <2> HIDE DEF m, n
  <2>4. m = n
    <3>1. m \in 1..m /\ n \in 1..n
      <4>1. n # 0
        BY <2>3
      <4> QED BY <2>3, <4>1
    <3>2. m \in 1..n /\ n \in 1..m
      BY <2>3, <3>1
    <3> QED BY <2>3, <3>2
  <2>5. DOMAIN <<>> = {}
    OBVIOUS
  <2> QED BY <2>4, <2>5 DEF m, n
<1>3. ToDecode' = ToDecode /\ Metadata' = Metadata /\ Delivered' = Delivered
  BY <1>1, SameStore DEF Delivered, Received
<1>4. Cardinality(Delivered \cap Metadata)' = Cardinality(Delivered \cap Metadata)
  BY <1>3
<1> QED BY <1>1, <1>2, <1>3, <1>4 DEF Queueing

(* A worker's step: the read goes on, or the table is not acceptable.       *)
LEMMA WorkGoesOn == ASSUME StoreOK, IInv, IInv', SInv, Clean, outcome = "running", Work PROVE Onward
<1>1. PICK j \in DOMAIN jobs : Acquire(j) \/ Decode(j) \/ DecodeEnds(j)
  BY DEF Work
<1>2. UNCHANGED <<store, sourceVars, yielded, outcome>> /\ DOMAIN jobs' = DOMAIN jobs
  BY <1>1 DEF Acquire, Decode, DecodeEnds, WorkerEnds
<1>3. Assembling /\ Retaining /\ Queueing /\ Advancing /\ Yielding
  BY DEF Clean
<1>4. Assembling' /\ Retaining' /\ Queueing'
  BY <1>2, <1>3, TakenRests, QueueRests DEF IInv
<1>5. \/ Advancing' /\ Yielding'
      \/ ~Acceptable /\ In("failed")' # {}
  BY <1>3, WorkAdvances
<1>6. CASE Advancing' /\ Yielding'
  BY <1>2, <1>4, <1>6 DEF Clean, Onward
<1>7. CASE ~Acceptable /\ In("failed")' # {}
  <2>1. ~Acceptable'
    BY <1>2, <1>7, SameStore
  <2> QED BY <1>2, <1>7, <2>1 DEF Spoiled, Onward
<1> QED BY <1>5, <1>6, <1>7

(* So with a batch yielded,                                                 *)
LEMMA YieldGoesOn ==
  ASSUME StoreOK, IInv, IInv', SInv, Clean, NEW j \in DOMAIN jobs, Yield(j) PROVE Onward
<1>1. /\ UNCHANGED <<store, sourceVars>>
      /\ DOMAIN jobs' = DOMAIN jobs
  BY DEF Yield, End
<1>2. Assembling /\ Retaining /\ Queueing /\ Advancing /\ Yielding
  BY DEF Clean
<1>3. Assembling' /\ Retaining' /\ Queueing'
  BY <1>1, <1>2, TakenRests, QueueRests DEF IInv
<1>4. \/ outcome' = "running" /\ Advancing' /\ Yielding'
      \/ outcome' = "error" /\ ~Acceptable
  BY <1>2, YieldAdvances
<1> QED BY <1>3, <1>4 DEF Clean, Onward

(* and with the last, shorter batch of a stream.                            *)
LEMMA StreamEndsGoesOn == ASSUME StoreOK, IInv, SInv, Clean, StreamEnds PROVE Onward
<1>1. /\ store.plan # "whole" /\ Receiving /\ rows = <<>> /\ current = <<>>
      /\ Fill(<<>>, TRUE) /\ ended' = TRUE /\ ~ended /\ outcome = "running"
      /\ UNCHANGED <<store, rows, current, retained, feed, yielded, outcome>>
  BY DEF StreamEnds, Receiving, CanPoll
<1>2. Assembling /\ Retaining /\ Queueing /\ Advancing /\ Yielding
  BY DEF Clean
<1>3. Delivered = Stored
  BY <1>1, <1>2, AllDelivered
<1>4. /\ feed = <<>> /\ UpTo(Len(jobs)) + Len(chunk) = Len(ToDecode)
      /\ \A i \in 1..Len(chunk) : chunk[i] = ToDecode[UpTo(Len(jobs)) + i]
  <2>1. Len(ToDecode) = Cardinality(Stored \cap Metadata)
    BY DecodeFacts
  <2> QED BY <1>1, <1>2, <1>3, <2>1 DEF Queueing
<1>5. IsSequence(chunk) /\ InvJobs /\ Len(chunk) < BatchSize /\ BatchSize \in Nat /\ Len(chunk) \in Nat
  <2>1. IsSequence(chunk) /\ InvJobs /\ Len(chunk) < BatchSize
    BY <1>1 DEF SInv, InvSizes, Sized, IsSequence, IInv, InvBatches
  <2> QED BY <2>1, SequenceFacts, ConfigDecodeAssumption
<1>6. chunk \o <<>> = chunk
  BY <1>5, ConcatEmptySeq DEF IsSequence
<1>7. Len(ToDecode) \in Nat
  BY DecodeFacts
<1>8. Advancing' /\ Yielding' /\ chunk' = <<>> /\ Len(ToDecode) <= UpTo(Len(jobs'))
  <2> DEFINE items == <<>>
             last == TRUE
             full == chunk \o items
             a == UpTo(Len(jobs))
             n == Len(chunk)
  <2>1. full = chunk /\ last \in BOOLEAN /\ last
    BY <1>6
  <2>2. n <= BatchSize /\ a + n <= Len(ToDecode)
    <3>1. a + n = Len(ToDecode)
      BY <1>4
    <3> HIDE DEF a, n
    <3> QED BY <1>5, <1>7, <3>1 DEF n
  <2>3. Fill(items, last)
    BY <1>1
  <2> HIDE DEF items, last
  <2>4. /\ IsSequence(chunk \o items) /\ Len(chunk \o items) <= BatchSize
        /\ a + Len(chunk \o items) <= Len(ToDecode)
        /\ a + Len(chunk \o items) = Len(ToDecode)
        /\ \A i \in 1..Len(chunk \o items) : (chunk \o items)[i] = ToDecode[a + i]
    BY <1>4, <1>5, <2>1, <2>2
  <2> QED BY <1>1, <1>2, <1>5, <2>1, <2>3, <2>4, Filled
<1>9. Assembling' /\ Retaining'
  <2>1. Assembling'
    BY <1>1, <1>2 DEF Assembling, Received, Follows, RowsUpTo, RowsOf
  <2>2. Delivered' = Delivered /\ Asked' = Asked
    BY <1>1 DEF Delivered, Received, Asked
  <2>3. Retaining'
    BY <1>1, <1>2, <2>2 DEF Retaining, Listed, Resource, RowsOf
  <2> QED BY <2>1, <2>3
<1>10. Queueing'
  <2>1. ToDecode' = ToDecode
    BY <1>1, SameStore
  <2> QED BY <1>1, <1>4, <1>8, <2>1 DEF Queueing
<1> QED BY <1>1, <1>8, <1>9, <1>10 DEF Clean, Onward

(* The collected resources are those to decode, in their order.             *)
LEMMA CollectedGoesOn == ASSUME StoreOK, IInv, SInv, Clean, Collected PROVE Onward
<1> DEFINE A == {i \in DOMAIN retained : Decodable(retained[i])}
           S == Stored
           T == Stored \cap Metadata
<1>1. /\ store.plan = "whole" /\ Receiving /\ rows = <<>> /\ current = <<>> /\ jobs = <<>>
      /\ feed' = Picked(retained, A) /\ ended' = (feed' = <<>>)
      /\ ~ended /\ outcome = "running" /\ feed = <<>>
      /\ UNCHANGED <<store, rows, current, retained, chunk, jobs, yielded, outcome>>
  BY DEF Collected, Receiving
<1>2. Assembling /\ Retaining /\ Queueing /\ Advancing /\ Yielding
  BY DEF Clean
<1>3. Delivered = S /\ S \in SUBSET Names /\ T \in SUBSET S /\ IsSequence(store.rows)
      /\ ToDecode = Listed(T)
  BY <1>1, <1>2, AllDelivered, ListsAre
<1>4. retained = Listed(S)
  <2>1. Asked = Names
    BY <1>1 DEF Asked
  <2>2. Delivered \cap Asked = S
    BY <1>3, <2>1
  <2> QED BY <1>2, <2>2 DEF Retaining
<1>5. \A i : i \in A <=> i \in 1..Cardinality(S) /\ Nth(S, i) \in T
  <2>1. DOMAIN retained = 1..Cardinality(S)
        /\ \A i \in 1..Cardinality(S) : retained[i] = Resource(Nth(S, i)) /\ Nth(S, i) \in S
    <3> HIDE DEF S
    <3> QED BY <1>3, <1>4, ListedFacts
  <2>2. ASSUME NEW i \in 1..Cardinality(S) PROVE Decodable(retained[i]) <=> Nth(S, i) \in T
    <3> DEFINE x == Nth(S, i)
    <3>1. retained[i] = Resource(x) /\ x \in S /\ x \in Names
      BY <1>3, <2>1
    <3>2. Resource(x).name = x
      BY <1>3, ResourceFacts
    <3>3. Resource(x) # Broken
      <4>1. x # 0 /\ Broken.name = 0
        BY <3>1, NamesNumbered DEF Broken
      <4> QED BY <3>2, <4>1
    <3> HIDE DEF x
    <3>4. Decodable(retained[i]) <=> store.text[x] # "other"
      BY <3>1, <3>2, <3>3 DEF Decodable
    <3>5. x \in T <=> store.text[x] # "other"
      BY <3>1 DEF Metadata
    <3> QED BY <3>4, <3>5 DEF x
  <2> HIDE DEF S, T
  <2> QED BY <2>1, <2>2
<1>6. feed' = ToDecode
  <2> HIDE DEF S, T, A
  <2>1. Picked(Listed(S), A) = Listed(T)
    BY <1>3, <1>5, ListedSome
  <2> QED BY <1>1, <1>3, <1>4, <2>1
<1>7. UpTo(Len(jobs)) = 0 /\ Len(jobs) = 0
  BY <1>1, BatchPlaces
<1>8. ToDecode' = ToDecode /\ Len(ToDecode) \in Nat /\ IsSequence(ToDecode)
  <2>1. Len(ToDecode) \in Nat
    BY DecodeFacts
  <2>2. IsSequence(ToDecode)
    BY <1>3, ListedFacts
  <2> QED BY <1>1, <2>1, <2>2, SameStore
<1>9. Queueing'
  <2>1. chunk' = <<>> /\ rows' = <<>> /\ current' = <<>> /\ jobs' = <<>> /\ store'.plan = "whole"
    BY <1>1, <1>2 DEF Queueing
  <2>2. UpTo(Len(jobs')) = 0
    BY <1>1, <1>7
  <2>3. CASE feed' = <<>>
    <3>1. Len(ToDecode) = 0
      BY <1>6, <2>3
    <3>2. Len(ToDecode') <= UpTo(Len(jobs'))
      BY <1>8, <2>2, <3>1
    <3> QED BY <1>1, <2>1, <2>3, <3>2 DEF Queueing
  <2>4. CASE feed' # <<>>
    <3>1. Len(ToDecode') = UpTo(Len(jobs')) + Len(feed')
      BY <1>6, <1>8, <2>2
    <3>2. \A i \in 1..Len(feed') : feed'[i] = ToDecode'[UpTo(Len(jobs')) + i]
      <4>1. \A i \in 1..Len(feed') : 0 + i = i
        BY <1>6, <1>8
      <4> QED BY <1>6, <1>8, <2>2, <4>1
    <3> QED BY <1>1, <2>1, <2>4, <3>1, <3>2 DEF Queueing
  <2> QED BY <2>3, <2>4
<1>10. Advancing' /\ Yielding'
  BY <1>1, <1>2, JobsRest
<1>11. Assembling' /\ Retaining'
  <2>1. Assembling'
    BY <1>1, <1>2 DEF Assembling, Received, Follows, RowsUpTo, RowsOf
  <2>2. Delivered' = Delivered /\ Asked' = Asked
    BY <1>1 DEF Delivered, Received, Asked
  <2>3. Retaining'
    BY <1>1, <1>2, <2>2 DEF Retaining, Listed, Resource, RowsOf
  <2> QED BY <2>1, <2>3
<1> QED BY <1>1, <1>9, <1>10, <1>11 DEF Clean, Onward

(* So with a batch of the collected resources.                              *)
LEMMA FeedGoesOn == ASSUME StoreOK, IInv, SInv, Clean, Feed PROVE Onward
<1>1. PICK taken : taken = Min({BatchSize, Len(feed)})
  OBVIOUS
<1> DEFINE b == SubSeq(feed, 1, taken)
           rest == SubSeq(feed, taken + 1, Len(feed))
           J == Len(jobs)
           a == UpTo(J)
           n == Len(feed)
           N == Len(ToDecode)
<1>2. /\ feed # <<>> /\ ~ended /\ outcome = "running"
      /\ jobs' = Append(jobs, NewJob(b)) /\ feed' = rest /\ ended' = (feed' = <<>>)
      /\ UNCHANGED <<store, rows, current, retained, chunk, yielded, outcome>>
  BY <1>1 DEF Feed, CanPoll
<1>3. Assembling /\ Retaining /\ Queueing /\ Advancing /\ Yielding
  BY DEF Clean
<1>4. store.plan = "whole" /\ IsSequence(feed)
  BY <1>2 DEF SInv, InvBatches, InvSizes, Sized, IsSequence
<1>5. /\ chunk = <<>> /\ rows = <<>> /\ current = <<>> /\ N = a + n
      /\ \A i \in 1..n : feed[i] = ToDecode[a + i]
  BY <1>2, <1>3, <1>4 DEF Queueing
<1>6. /\ n \in Nat /\ n # 0 /\ BatchSize \in Nat \ {0} /\ J \in Nat /\ a \in Nat /\ N \in Nat
      /\ UpTo(J + 1) = a + BatchSize
  <2>1. n \in Nat /\ n # 0
    BY <1>2, <1>4, EmptyIsShort
  <2>2. J \in Nat
    BY JobsNumbered DEF IInv
  <2>3. a \in Nat /\ UpTo(J + 1) = a + BatchSize
    BY <2>2, BatchPlaces
  <2>4. N \in Nat
    BY DecodeFacts
  <2> QED BY <2>1, <2>2, <2>3, <2>4, ConfigDecodeAssumption
<1>7. taken \in 1..BatchSize /\ taken <= n /\ (taken = BatchSize \/ taken = n)
  <2>1. \E x \in {BatchSize, n} : \A y \in {BatchSize, n} : x <= y
    BY <1>6
  <2>2. taken \in {BatchSize, n} /\ \A y \in {BatchSize, n} : taken <= y
    BY <1>1, <2>1 DEF Min
  <2> HIDE DEF n
  <2> QED BY <1>6, <2>2
<1>8. /\ IsSequence(b) /\ Len(b) = taken /\ (\A i \in 1..taken : b[i] = feed[i])
      /\ IsSequence(rest) /\ Len(rest) = n - taken /\ \A i \in 1..n - taken : rest[i] = feed[taken + i]
  <2>1. taken \in 0..n
    BY <1>6, <1>7
  <2> QED BY <1>4, <2>1, CutFacts
<1> HIDE DEF b, rest, a, n, N, J
<1>9. Advancing' /\ Yielding' /\ Len(jobs') = J + 1
  <2>1. Len(b) \in 1..BatchSize /\ a + Len(b) <= N /\ (Len(b) = BatchSize \/ a + Len(b) = N)
    BY <1>5, <1>6, <1>7, <1>8
  <2>2. \A i \in 1..Len(b) : b[i] = ToDecode[a + i]
    <3>1. \A i \in 1..taken : i \in 1..n
      BY <1>6, <1>7
    <3> QED BY <1>5, <1>8, <3>1
  <2> QED BY <1>2, <1>3, <2>1, <2>2, BatchJoins DEF a, N, J, IInv
<1>10. Queueing'
  <2>1. ToDecode' = ToDecode
    BY <1>2, SameStore
  <2>2. feed' = <<>> <=> n - taken = 0
    BY <1>2, <1>8, EmptyIsShort
  <2>3. UpTo(Len(jobs')) = a + BatchSize
    BY <1>6, <1>9
  <2>6. chunk' = <<>> /\ rows' = <<>> /\ current' = <<>> /\ store'.plan = "whole"
    BY <1>2, <1>4, <1>5
  <2>4. CASE feed' = <<>>
    <3>1. N <= a + BatchSize
      BY <1>5, <1>6, <1>7, <2>2, <2>4
    <3> QED BY <1>2, <2>1, <2>3, <2>4, <2>6, <3>1 DEF Queueing, N
  <2>5. CASE feed' # <<>>
    <3>1. taken = BatchSize /\ N = (a + BatchSize) + (n - taken)
      BY <1>5, <1>6, <1>7, <2>2, <2>5
    <3>2. ASSUME NEW i \in 1..n - taken PROVE rest[i] = ToDecode[(a + BatchSize) + i]
      <4>1. taken + i \in 1..n /\ a + (taken + i) = (a + BatchSize) + i
        BY <1>6, <1>7, <3>1
      <4> QED BY <1>5, <1>8, <4>1
    <3> QED BY <1>2, <1>8, <2>1, <2>3, <2>5, <2>6, <3>1, <3>2 DEF Queueing, N
  <2> QED BY <2>4, <2>5
<1>11. Assembling' /\ Retaining'
  <2>1. Assembling'
    BY <1>2, <1>3 DEF Assembling, Received, Follows, RowsUpTo, RowsOf
  <2>2. Delivered' = Delivered /\ Asked' = Asked
    BY <1>2 DEF Delivered, Received, Asked
  <2>3. Retaining'
    BY <1>2, <1>3, <2>2 DEF Retaining, Listed, Resource, RowsOf
  <2> QED BY <2>1, <2>3
<1> QED BY <1>2, <1>9, <1>10, <1>11 DEF Clean, Onward

(* Every step of a clean read but its completion leaves it clean, or the    *)
(* table is not acceptable.                                                 *)
LEMMA CleanGoesOn ==
  ASSUME StoreOK, IInv, IInv', SInv, Clean, outcome = "running", Next, ~Complete
  PROVE  Onward
<1>1. CASE TimeLimit \/ Drop
  <2>1. outcome' \in {"timeout", "dropped"}
    BY <1>1 DEF TimeLimit, Drop, End
  <2> QED BY <2>1 DEF Onward
<1>2. CASE \E j \in DOMAIN jobs : Yield(j)
  BY <1>2, YieldGoesOn
<1> QED
  BY <1>1, <1>2, RowGoesOn, RowsEndGoesOn, StreamEndsGoesOn, CollectedGoesOn, FeedGoesOn, WorkGoesOn
     DEF Next, Receive, Client

(* Once something is wrong no step brings an answer.                        *)
LEMMA FailedStays ==
  ASSUME Spoiled, UNCHANGED store, \A j \in In("failed") : j \in In("failed")',
         UNCHANGED <<chunk, ended>>
  PROVE  Spoiled'
BY SameStore DEF Spoiled

(* A spoiled read never completes.                                          *)
LEMMA SpoiledGoesOn ==
  ASSUME StoreOK, IInv, SInv, Spoiled, outcome = "running", Next
  PROVE  outcome' # "ok" /\ (outcome' = "running" => Spoiled')
<1>1. InvJobs
  BY DEF IInv
<1>2. ASSUME NEW r, IsSequence(<<>>), IsSequence(<<r>>), IsSequence(<<Broken>>),
             Deliver(r), ~ended, UNCHANGED store
      PROVE  outcome' # "ok" /\ (outcome' = "running" => Spoiled')
  <2>1. CASE store.plan = "whole"
    <3>1. Collecting(r)
      BY <1>2, <2>1 DEF Deliver
    <3>2. UNCHANGED <<chunk, ended, jobs>> /\ outcome' \in {"running", "error"}
      BY <3>1 DEF Collecting
    <3>3. Spoiled'
      BY <1>2, <3>2, FailedStays DEF In
    <3> QED BY <3>2, <3>3
  <2>2. CASE store.plan # "whole"
    <3>1. Passing(r) /\ outcome' = outcome
      BY <1>2, <2>2 DEF Deliver
    <3>2. ended' = FALSE
      BY <3>1 DEF Passing
    <3>3. PICK items : Fill(items, FALSE) /\ items \in {<<>>, <<r>>, <<Broken>>}
      BY <3>1 DEF Passing
    <3>4. IsSequence(items)
      BY <1>2, <3>3
    <3>5. Spoiled'
      BY <1>1, <1>2, <2>2, <3>2, <3>3, <3>4, SpoiledFill
    <3> QED BY <3>1, <3>5
  <2> QED BY <2>1, <2>2
<1>3. IsSequence(<<>>) /\ \A x : IsSequence(<<x>>)
  <2>1. ASSUME NEW x PROVE IsSequence(<<x>>)
    <3>1. <<x>> \in Seq({x})
      OBVIOUS
    <3> QED BY <3>1 DEF IsSequence
  <2> QED BY <2>1, NothingSized
<1>4. CASE RowArrives
  <2> DEFINE row == Head(rows)
  <2>1. ~ended /\ UNCHANGED store
    BY <1>4 DEF RowArrives, Receiving, CanPoll
  <2>2. CASE UNCHANGED <<chunk, ended, jobs, outcome>>
    <3>1. Spoiled'
      BY <2>1, <2>2, FailedStays DEF In
    <3> QED BY <2>2, <3>1
  <2>3. CASE Deliver(Assembled)
    BY <1>2, <1>3, <2>1, <2>3
  <2>4. CASE IF store.plan = "whole" THEN Collecting(Broken)
             ELSE /\ Fill(<<Broken>>, TRUE) /\ ended' = TRUE /\ UNCHANGED <<retained, outcome>>
    <3>1. CASE store.plan = "whole"
      <4>1. outcome' = "error"
        BY <2>4, <3>1 DEF Collecting
      <4> QED BY <4>1
    <3>2. CASE store.plan # "whole"
      <4>1. Fill(<<Broken>>, TRUE) /\ outcome' = outcome
        BY <2>4, <3>2
      <4>2. Spoiled'
        BY <1>1, <1>3, <2>1, <3>2, <4>1, SpoiledFill
      <4> QED BY <4>1, <4>2
    <3> QED BY <3>1, <3>2
  <2> QED BY <1>4, <2>2, <2>3, <2>4 DEF RowArrives
<1>5. CASE RowsEnd
  <2>1. ~ended /\ UNCHANGED store /\ Deliver(Assembled)
    BY <1>5 DEF RowsEnd, Receiving, CanPoll
  <2> QED BY <1>2, <1>3, <2>1
<1>6. CASE StreamEnds
  <2>1. UNCHANGED <<store, outcome>> /\ Fill(<<>>, TRUE) /\ store.plan # "whole"
    BY <1>6 DEF StreamEnds
  <2>2. Spoiled'
    BY <1>1, <1>3, <2>1, SpoiledFill
  <2> QED BY <2>1, <2>2
<1>7. CASE Collected
  <2>1. jobs = <<>> /\ store.plan = "whole"
    BY <1>7 DEF Collected
  <2>2. In("failed") = {}
    <3>1. DOMAIN <<>> = {}
      OBVIOUS
    <3> QED BY <2>1, <3>1 DEF In
  <2> QED BY <2>1, <2>2 DEF Spoiled
<1>8. CASE Feed
  <2>1. store.plan = "whole" /\ UNCHANGED <<store, chunk, outcome>>
    BY <1>8 DEF Feed, SInv, InvBatches
  <2>2. PICK b : jobs' = Append(jobs, NewJob(b))
    BY <1>8 DEF Feed
  <2>3. "state" \in DOMAIN NewJob(b)
    BY DEF NewJob
  <2>4. DOMAIN jobs' = DOMAIN jobs \cup {Len(jobs) + 1} /\ \A j \in DOMAIN jobs : jobs'[j] = jobs[j]
    BY <1>1, <2>2, <2>3, JobAppended
  <2>5. \A j \in In("failed") : j \in In("failed")'
    BY <2>4 DEF In
  <2>6. In("failed") # {} /\ ~Acceptable
    BY <2>1 DEF Spoiled
  <2>7. Spoiled'
    BY <2>1, <2>5, <2>6, SameStore DEF Spoiled
  <2> QED BY <2>1, <2>7
<1>9. ASSUME NEW j \in DOMAIN jobs, Yield(j)
      PROVE  outcome' # "ok" /\ (outcome' = "running" => Spoiled')
  <2>1. UNCHANGED <<store, chunk, ended>>
    BY <1>9 DEF Yield, sourceVars
  <2>2. CASE jobs' = [jobs EXCEPT ![j].state = "yielded"] /\ outcome' = outcome /\ j \in In("done")
    <3>1. \A k \in In("failed") : k \in In("failed")'
      BY <2>2 DEF In
    <3> QED BY <2>1, <2>2, <3>1, FailedStays
  <2>3. CASE End("error")
    BY <2>3 DEF End
  <2> QED BY <1>9, <2>2, <2>3 DEF Yield
<1>10. CASE Complete
  <2>1. ended /\ InFlight = {}
    BY <1>10 DEF Complete
  <2>2. In("failed") = {}
    BY <2>1 DEF InFlight, In
  <2> QED BY <2>1, <2>2 DEF Spoiled
<1>11. CASE Work
  <2>1. PICK j \in DOMAIN jobs : Acquire(j) \/ Decode(j) \/ DecodeEnds(j)
    BY <1>11 DEF Work
  <2>2. UNCHANGED <<store, chunk, ended, outcome>> /\ DOMAIN jobs' = DOMAIN jobs
        /\ jobs[j].state \in {"waiting", "running"}
        /\ \A k \in DOMAIN jobs : k # j => jobs'[k] = jobs[k]
    BY <2>1 DEF Acquire, Decode, DecodeEnds, WorkerEnds, In, sourceVars
  <2>3. \A k \in In("failed") : k \in In("failed")'
    BY <2>2 DEF In
  <2> QED BY <2>2, <2>3, FailedStays
<1>12. CASE TimeLimit \/ Drop
  BY <1>12 DEF TimeLimit, Drop, End
<1> QED
  BY <1>4, <1>5, <1>6, <1>7, <1>8, <1>9, <1>10, <1>11, <1>12 DEF Next, Receive, Client

(* A read that is complete has yielded a batch for every place.             *)
LEMMA CompleteIsAcceptable ==
  ASSUME StoreOK, IInv, SInv, Clean, ended, InFlight = {}, outcome = "running"
  PROVE  /\ Acceptable /\ retained = Kept
         /\ \A j \in DOMAIN jobs : j \in In("yielded") /\ jobs[j].state = "yielded"
         /\ Len(ToDecode) <= UpTo(Len(jobs))
<1> DEFINE D == ToDecode
           N == Len(D)
<1>1. Assembling /\ Retaining /\ Queueing /\ Advancing /\ Yielding
  BY DEF Clean
<1>2. rows = <<>> /\ current = <<>> /\ N <= UpTo(Len(jobs))
  BY <1>1 DEF Queueing
<1>3. Delivered = Stored /\ Whole
  BY <1>1, <1>2, AllDelivered
<1>4. retained = Kept
  BY <1>1, <1>3, ListsAre DEF Retaining
<1>5. Len(retained) <= RetainCount /\ Sum(retained) <= RetainBytes
  BY DEF SInv, RetentionBounded
<1>6. \A j \in DOMAIN jobs : /\ j \in In("yielded") /\ jobs[j].state = "yielded"
                             /\ jobs[j].at = Len(jobs[j].batch) /\ Advances(D, jobs[j], j)
  <2>1. \A j \in DOMAIN jobs : jobs[j].state \in {"yielded", "gone"}
    BY DEF InFlight
  <2> QED BY <1>1, <2>1 DEF Advancing, Advances, In
<1>7. N \in Nat /\ DOMAIN D = 1..N /\ InvJobs /\ Len(jobs) \in Nat /\ DOMAIN jobs = 1..Len(jobs)
  BY DecodeFacts, JobsNumbered DEF IInv
<1>8. Total <= TotalBytes
  <2>1. In("yielded") = DOMAIN jobs
    BY <1>6 DEF In
  <2>2. Decoded(DOMAIN jobs) = Total
    BY <1>1, <1>2, <1>6, <1>7, TotalDecoded
  <2> QED BY <1>1, <2>1, <2>2 DEF Yielding
<1>9. ASSUME NEW b \in DOMAIN D, NEW i \in DOMAIN D,
             i \in (b - 1) * BatchSize + 1..((b - 1) * BatchSize + 1) + BatchSize - 1
      PROVE  FitsAfter(D, (b - 1) * BatchSize + 1, i)
  <2>1. b \in Nat \ {0} /\ i \in 1..N /\ i \in Nat
    BY <1>7
  <2> DEFINE a == UpTo(b - 1)
             f == First(b)
  <2>2. /\ f = (b - 1) * BatchSize + 1 /\ a \in Nat /\ f = a + 1
        /\ a + BatchSize = UpTo(b) /\ BatchSize \in Nat \ {0}
    BY <2>1, FirstPlaces
  <2>3. i \in f..f + BatchSize - 1
    BY <1>9, <2>2
  <2>4. b <= Len(jobs)
    <3>1. ASSUME ~(b <= Len(jobs)) PROVE FALSE
      <4>1. Len(jobs) <= b - 1 /\ b - 1 \in Nat
        BY <1>7, <2>1, <3>1
      <4>2. UpTo(Len(jobs)) <= a /\ UpTo(Len(jobs)) \in Nat
        BY <1>7, <4>1, BatchPlaces
      <4> DEFINE u == UpTo(Len(jobs))
      <4>3. N <= u /\ u \in Nat /\ u <= a
        BY <1>2, <4>2
      <4> HIDE DEF a, f, u, N
      <4> QED BY <1>7, <2>1, <2>2, <2>3, <4>3
    <3> QED BY <3>1
  <2>5. b \in DOMAIN jobs
    BY <1>7, <2>1, <2>4
  <2> DEFINE n == Len(jobs[b].batch)
  <2>6. /\ n \in 1..BatchSize /\ (n = BatchSize \/ a + n = N)
        /\ \A k \in f..a + n : FitsAfter(D, f, k)
    BY <1>6, <2>5 DEF Advances
  <2>7. i \in f..a + n
    <3> HIDE DEF f, a, n, N
    <3> QED BY <1>7, <2>1, <2>2, <2>3, <2>6
  <2> QED BY <2>2, <2>6, <2>7
<1>10. Acceptable
  <2>1. \A b \in DOMAIN D : BatchFits(D, (b - 1) * BatchSize + 1)
    BY <1>9 DEF BatchFits
  <2> QED BY <1>3, <1>4, <1>5, <1>8, <2>1 DEF Acceptable, Total
<1> QED BY <1>2, <1>4, <1>6, <1>10

-----------------------------------------------------------------------------
(* Lists put one after the other, none with an element of another: what     *)
(* comes of it has each element of theirs once.                             *)
Lists(s, x) == \E i \in DOMAIN s : s[i] = x

(* Two sequences without a common element, each without repetition.         *)
LEMMA JoinedOnce ==
  ASSUME NEW s, NEW t, OnceEach(s), OnceEach(t), \A x : ~(Lists(s, x) /\ Lists(t, x))
  PROVE  OnceEach(s \o t) /\ \A x : Lists(s \o t, x) <=> Lists(s, x) \/ Lists(t, x)
<1> DEFINE c == s \o t
           m == Len(s)
           n == Len(t)
<1>0. IsSequence(s) /\ IsSequence(t)
  BY DEF OnceEach
<1>1. DOMAIN s = 1..m /\ DOMAIN t = 1..n
  BY <1>0, SequenceFacts
<1>2. /\ m \in Nat /\ n \in Nat /\ IsSequence(c) /\ DOMAIN c = 1..m + n
      /\ \A i \in 1..m : c[i] = s[i]
      /\ \A i \in 1..n : c[m + i] = t[i]
  BY ONLY <1>0, JoinFacts
<1> HIDE DEF c, m, n
<1>3. \A i \in 1..m + n : i \in 1..m \/ (i - m \in 1..n /\ m + (i - m) = i /\ ~(i \in 1..m))
  BY <1>2
<1>4. (\A i \in 1..m : i \in 1..m + n) /\ \A i \in 1..n : m + i \in 1..m + n
  BY <1>2
<1>5. \A i \in 1..m + n : \/ i \in 1..m /\ c[i] = s[i] /\ Lists(s, c[i])
                          \/ i - m \in 1..n /\ c[i] = t[i - m] /\ Lists(t, c[i])
  BY <1>1, <1>2, <1>3 DEF Lists
<1>6. ASSUME NEW x PROVE Lists(c, x) <=> Lists(s, x) \/ Lists(t, x)
  <2>1. Lists(c, x) => Lists(s, x) \/ Lists(t, x)
    BY <1>2, <1>5 DEF Lists
  <2>2. Lists(s, x) => Lists(c, x)
    BY <1>1, <1>2, <1>4 DEF Lists
  <2>3. Lists(t, x) => Lists(c, x)
    BY <1>1, <1>2, <1>4 DEF Lists
  <2> QED BY <2>1, <2>2, <2>3
<1>7. ASSUME NEW i \in 1..m + n, NEW k \in 1..m + n, c[i] = c[k] PROVE i = k
  <2>1. CASE i \in 1..m /\ k \in 1..m
    BY <1>1, <1>2, <1>7, <2>1 DEF OnceEach
  <2>2. CASE i - m \in 1..n /\ k - m \in 1..n
    <3>1. c[i] = t[i - m] /\ c[k] = t[k - m]
      BY <1>2, <1>3, <2>2
    <3>2. i - m = k - m
      BY <1>1, <1>7, <2>2, <3>1 DEF OnceEach
    <3> QED BY <1>2, <3>2
  <2>3. CASE ~(i \in 1..m /\ k \in 1..m) /\ ~(i - m \in 1..n /\ k - m \in 1..n)
    <3>1. Lists(s, c[i]) /\ Lists(t, c[i])
      BY <1>5, <1>7, <2>3
    <3> QED BY <3>1
  <2> QED BY <2>1, <2>2, <2>3
<1> QED BY <1>2, <1>6, <1>7 DEF OnceEach, c

(* So with any number of them.                                              *)
LEMMA FlattenedOnce ==
  ASSUME NEW n \in Nat, NEW p, p = [k \in 1..n |-> p[k]],
         \A k \in 1..n : OnceEach(p[k]),
         \A k, l \in 1..n : \A x : Lists(p[k], x) /\ Lists(p[l], x) => k = l
  PROVE  /\ OnceEach(FlattenSeq(p))
         /\ \A x : Lists(FlattenSeq(p), x) <=> \E k \in 1..n : Lists(p[k], x)
<1> DEFINE first(m) == [k \in 1..m |-> p[k]]
           upto(m) == FlattenSeq(first(m))
           OK(t, m) == OnceEach(t) /\ \A x : Lists(t, x) <=> \E k \in 1..m : Lists(p[k], x)
           P == {m \in Nat : m <= n => OK(upto(m), m)}
<1>1. 0 \in P
  <2>1. [k \in 1..0 |-> p[k]] = <<>>
    OBVIOUS
  <2>2. upto(0) = <<>>
    BY <2>1, FlattenEmpty
  <2>3. IsSequence(<<>>) /\ DOMAIN <<>> = {}
    BY NothingSized
  <2>4. OK(<<>>, 0)
    BY <2>3 DEF OnceEach, Lists
  <2> HIDE DEF OK, upto
  <2> QED BY <2>2, <2>4
<1>2. ASSUME NEW m \in Nat, m \in P PROVE m + 1 \in P
  <2> SUFFICES ASSUME m + 1 <= n PROVE OK(upto(m + 1), m + 1)
    <3> HIDE DEF OK, upto
    <3> QED OBVIOUS
  <2>1. m <= n /\ m + 1 \in 1..n /\ (\A k \in 1..m : k \in 1..n /\ k # m + 1)
        /\ (\A k \in 1..m + 1 : k \in 1..m \/ k = m + 1) /\ m + 1 \in 1..m + 1
        /\ (\A k \in 1..m : k \in 1..m + 1)
    OBVIOUS
  <2>2. OK(upto(m), m)
    BY <1>2, <2>1
  <2>3. upto(m + 1) = IF m = 0 THEN p[m + 1] ELSE upto(m) \o p[m + 1]
    <3> DEFINE ss == first(m + 1)
               tt == first(m)
    <3>1. Len(ss) = m + 1 /\ Len(tt) = m
      BY NumberedSequence
    <3>2. (\A i \in 1..m : tt[i] = ss[i]) /\ ss[m + 1] = p[m + 1] /\ (m = 0 => ss[1] = p[m + 1])
      BY <2>1
    <3> HIDE DEF ss, tt
    <3>3. FlattenSeq(ss) = IF m = 0 THEN ss[1] ELSE FlattenSeq(tt) \o ss[m + 1]
      BY <3>1, <3>2, FlattenMore
    <3> QED BY <3>2, <3>3 DEF ss, tt
  <2> DEFINE q == p[m + 1]
             u == upto(m)
  <2>4. OnceEach(q)
    BY <2>1
  <2>5. CASE m = 0
    <3>1. 1..1 = {1}
      OBVIOUS
    <3>2. upto(m + 1) = q /\ m + 1 = 1
      BY <2>3, <2>5
    <3>3. OK(q, 1)
      BY <2>4, <2>5, <3>1
    <3> HIDE DEF OK, upto
    <3> QED BY <3>2, <3>3
  <2>6. CASE m # 0
    <3>1. \A x : ~(Lists(u, x) /\ Lists(q, x))
      BY <2>1, <2>2
    <3>2. OnceEach(u) /\ \A x : Lists(u, x) <=> \E k \in 1..m : Lists(p[k], x)
      BY <2>2
    <3> DEFINE c == u \o q
    <3>3. OnceEach(c) /\ \A x : Lists(c, x) <=> Lists(u, x) \/ Lists(q, x)
      <4> HIDE DEF u, q
      <4> QED BY <2>4, <3>1, <3>2, JoinedOnce
    <3>4. upto(m + 1) = c
      BY <2>3, <2>6
    <3> HIDE DEF c, u
    <3>5. \A x : Lists(c, x) <=> \E k \in 1..m + 1 : Lists(p[k], x)
      BY <2>1, <3>2, <3>3
    <3>6. OK(c, m + 1)
      BY <3>3, <3>5
    <3> HIDE DEF OK, upto
    <3> QED BY <3>4, <3>6
  <2> QED BY <2>5, <2>6
<1> HIDE DEF P
<1>3. n \in P
  BY <1>1, <1>2, Induction
<1>4. OK(upto(n), n)
  <2> HIDE DEF OK, upto
  <2> QED BY <1>3 DEF P
<1>5. first(n) = p
  OBVIOUS
<1> QED BY <1>4, <1>5

-----------------------------------------------------------------------------
(* A resource to decode is of one batch, at one place there, and of some    *)
(* batch once there are enough of them.                                     *)
LEMMA Batched ==
  ASSUME StoreOK, InvJobs, Advancing
  PROVE  /\ \A j \in DOMAIN jobs :
              /\ j \in Nat \ {0} /\ UpTo(j - 1) \in Nat /\ Len(jobs[j].batch) \in 1..BatchSize
              /\ \A i \in 1..Len(jobs[j].batch) :
                   /\ UpTo(j - 1) + i \in 1..Len(ToDecode)
                   /\ jobs[j].batch[i] = ToDecode[UpTo(j - 1) + i]
         /\ \A j, l \in DOMAIN jobs :
              \A i \in 1..Len(jobs[j].batch), k \in 1..Len(jobs[l].batch) :
                UpTo(j - 1) + i = UpTo(l - 1) + k => j = l /\ i = k
         /\ Len(ToDecode) <= UpTo(Len(jobs)) =>
              \A p \in 1..Len(ToDecode) :
                \E j \in DOMAIN jobs : \E i \in 1..Len(jobs[j].batch) : p = UpTo(j - 1) + i
<1> DEFINE D == ToDecode
           N == Len(D)
           L(j) == Len(jobs[j].batch)
<1>1. N \in Nat /\ DOMAIN jobs = 1..Len(jobs) /\ Len(jobs) \in Nat
  BY DecodeFacts, JobsNumbered
<1>2. ASSUME NEW j \in DOMAIN jobs
      PROVE  /\ j \in Nat \ {0} /\ UpTo(j - 1) \in Nat
             /\ UpTo(j - 1) + BatchSize = UpTo(j) /\ BatchSize \in Nat /\ UpTo(j) \in Nat
             /\ L(j) \in 1..BatchSize /\ UpTo(j - 1) + L(j) <= N
             /\ (L(j) = BatchSize \/ UpTo(j - 1) + L(j) = N)
             /\ \A i \in 1..L(j) : jobs[j].batch[i] = D[UpTo(j - 1) + i]
  <2>1. j \in Nat \ {0}
    BY <1>1
  <2>2. Advances(D, jobs[j], j)
    BY DEF Advancing
  <2> QED BY <2>1, <2>2, FirstPlaces, BatchPlaces DEF Advances
<1>3. ASSUME NEW j \in DOMAIN jobs, NEW i \in 1..L(j)
      PROVE  /\ UpTo(j - 1) + i \in 1..N
             /\ UpTo(j - 1) < UpTo(j - 1) + i /\ UpTo(j - 1) + i <= UpTo(j)
  <2> DEFINE a == UpTo(j - 1)
             b == UpTo(j)
             n == L(j)
  <2>1. a \in Nat /\ a + BatchSize = b /\ BatchSize \in Nat /\ n \in 1..BatchSize /\ a + n <= N
        /\ i \in 1..n
    BY <1>2
  <2> HIDE DEF a, b, n, N
  <2> QED BY <1>1, <2>1 DEF a, b, n
<1>4. ASSUME NEW j \in DOMAIN jobs, NEW l \in DOMAIN jobs, j < l,
             NEW i \in 1..L(j), NEW k \in 1..L(l), UpTo(j - 1) + i = UpTo(l - 1) + k
      PROVE  FALSE
  <2>1. j \in Nat /\ l - 1 \in Nat /\ j <= l - 1
    BY <1>1, <1>4
  <2>2. UpTo(j) <= UpTo(l - 1) /\ UpTo(j) \in Nat /\ UpTo(l - 1) \in Nat
    BY <2>1, BatchPlaces
  <2> DEFINE x == UpTo(j - 1) + i
             b == UpTo(j)
             a == UpTo(l - 1)
  <2>3. x \in Nat /\ x <= b /\ a < x
    BY <1>3, <1>4
  <2> HIDE DEF x, a, b
  <2>4. b <= a /\ b \in Nat /\ a \in Nat
    BY <2>2 DEF a, b
  <2> QED BY <2>3, <2>4
<1>5. ASSUME NEW j \in DOMAIN jobs, NEW l \in DOMAIN jobs,
             NEW i \in 1..L(j), NEW k \in 1..L(l), UpTo(j - 1) + i = UpTo(l - 1) + k
      PROVE  j = l /\ i = k
  <2>1. j < l \/ l < j \/ j = l
    BY <1>1
  <2>2. j = l
    BY <1>4, <1>5, <2>1
  <2> DEFINE a == UpTo(j - 1)
  <2>3. a \in Nat /\ a + i = a + k /\ i \in Nat /\ k \in Nat
    BY <1>2, <1>5, <2>2
  <2> HIDE DEF a
  <2>4. i = k
    BY <2>3
  <2> QED BY <2>2, <2>4
<1>6. ASSUME N <= UpTo(Len(jobs)), NEW p \in 1..N
      PROVE  \E j \in DOMAIN jobs : \E i \in 1..L(j) : p = UpTo(j - 1) + i
  <2> DEFINE T == {j \in Nat : p <= UpTo(j)}
  <2>1. Len(jobs) \in T /\ T \in SUBSET Nat
    <3> DEFINE b == UpTo(Len(jobs))
    <3>1. b \in Nat /\ N <= b
      BY <1>1, <1>6, BatchPlaces
    <3> HIDE DEF b, N
    <3>2. p <= b
      BY <1>1, <3>1
    <3> QED BY <1>1, <3>2 DEF b
  <2> HIDE DEF T
  <2>2. PICK j \in T : \A m \in T : j <= m
    BY <2>1, Smallest
  <2>3. j \in Nat /\ p <= UpTo(j) /\ j <= Len(jobs) /\ j # 0
    <3>1. UpTo(0) = 0
      BY BatchPlaces
    <3> QED BY <2>1, <2>2, <3>1 DEF T
  <2>4. j \in DOMAIN jobs /\ j - 1 \in Nat /\ j - 1 \notin T
    BY <1>1, <2>1, <2>2, <2>3
  <2> DEFINE a == UpTo(j - 1)
             n == L(j)
             b == UpTo(j)
  <2>5. a \in Nat /\ n \in Nat /\ a + BatchSize = b /\ (n = BatchSize \/ a + n = N) /\ BatchSize \in Nat
    BY <1>2, <2>4
  <2>6. ~(p <= a) /\ p <= b
    BY <2>3, <2>4 DEF T
  <2> HIDE DEF a, n, b, N
  <2>7. p - a \in 1..n /\ p = a + (p - a)
    BY <1>1, <2>5, <2>6
  <2> QED BY <2>4, <2>7 DEF a, n
<1> QED BY <1>2, <1>3, <1>5, <1>6

(* What a batch declares: each of its descriptors once.                     *)
Declares(r, d) ==
  /\ Good(r) /\ Owner[r.name] = 0
  /\ \E o \in DOMAIN Objects : d = [resource |-> r.name, object |-> Objects[o]]

(* A resource declares each of its objects once,                            *)
LEMMA DeclaredOnce ==
  ASSUME NEW r
  PROVE  OnceEach(Declared(r)) /\ \A d : Lists(Declared(r), d) <=> Declares(r, d)
<1> DEFINE n == Len(Objects)
           s == [k \in DOMAIN Objects |-> [resource |-> r.name, object |-> Objects[k]]]
<1>1. n \in Nat /\ DOMAIN Objects = 1..n /\ \A i, k \in 1..n : Objects[i] = Objects[k] => i = k
  BY ConfigDecodeAssumption, LenProperties
<1>2. CASE Good(r) /\ Owner[r.name] = 0
  <2>1. Declared(r) = s
    BY <1>2 DEF Declared
  <2> HIDE DEF n
  <2>2. s = [k \in 1..n |-> s[k]]
    BY <1>1
  <2>3. \A k \in 1..n : s[k] = [resource |-> r.name, object |-> Objects[k]] /\ s[k].object = Objects[k]
    BY <1>1
  <2> HIDE DEF s
  <2>4. IsSequence(s) /\ DOMAIN s = 1..n
    BY <1>1, <2>2, NumberedSequence
  <2>5. OnceEach(s)
    BY <1>1, <2>3, <2>4 DEF OnceEach
  <2> QED BY <1>1, <1>2, <2>1, <2>3, <2>4, <2>5 DEF Lists, Declares
<1>3. CASE ~(Good(r) /\ Owner[r.name] = 0)
  <2>1. Declared(r) = <<>> /\ \A d : ~Declares(r, d)
    BY <1>3 DEF Declared, Declares
  <2>2. IsSequence(<<>>) /\ DOMAIN <<>> = {}
    BY NothingSized
  <2> QED BY <2>1, <2>2 DEF OnceEach, Lists
<1> QED BY <1>2, <1>3

(* under its own name,                                                      *)
LEMMA DeclaresOne ==
  ASSUME NEW r, NEW q, NEW d, Declares(r, d), Declares(q, d)
  PROVE  r.name = q.name
<1>1. PICK o \in DOMAIN Objects : d = [resource |-> r.name, object |-> Objects[o]]
  BY DEF Declares
<1>2. PICK u \in DOMAIN Objects : d = [resource |-> q.name, object |-> Objects[u]]
  BY DEF Declares
<1>3. d.resource = r.name
  BY <1>1
<1>4. d.resource = q.name
  BY <1>2
<1> QED BY <1>3, <1>4

(* and a batch those of its resources.                                      *)
LEMMA BatchDeclares ==
  ASSUME NEW batch, NEW n \in Nat, DOMAIN batch = 1..n,
         \A i, k \in 1..n : batch[i].name = batch[k].name => i = k
  PROVE  /\ OnceEach(DeclaredBy(batch))
         /\ \A d : Lists(DeclaredBy(batch), d) <=> \E i \in 1..n : Declares(batch[i], d)
<1> DEFINE p == [i \in DOMAIN batch |-> Declared(batch[i])]
<1>1. p = [i \in 1..n |-> p[i]] /\ \A i \in 1..n : p[i] = Declared(batch[i])
  OBVIOUS
<1>2. DeclaredBy(batch) = FlattenSeq(p)
  BY DEF DeclaredBy
<1> HIDE DEF p
<1>3. \A i \in 1..n : OnceEach(p[i]) /\ \A d : Lists(p[i], d) <=> Declares(batch[i], d)
  BY <1>1, DeclaredOnce
<1>4. \A i, k \in 1..n : \A d : Lists(p[i], d) /\ Lists(p[k], d) => i = k
  BY <1>3, DeclaresOne
<1>5. /\ OnceEach(FlattenSeq(p))
      /\ \A d : Lists(FlattenSeq(p), d) <=> \E i \in 1..n : Lists(p[i], d)
  BY <1>1, <1>3, <1>4, FlattenedOnce
<1> QED BY <1>2, <1>3, <1>5

-----------------------------------------------------------------------------
(* The batches yielded give up each descriptor of the table once.           *)
LEMMA GatheredOnce ==
  ASSUME StoreOK, IInv, SInv, Advancing, Yielding, \A j \in DOMAIN jobs : j \in In("yielded"),
         Len(ToDecode) <= UpTo(Len(jobs))
  PROVE  /\ OnceEach(Gathered)
         /\ \A d : Lists(Gathered, d) <=> \E n \in Stored : Declares(Resource(n), d)
<1> DEFINE D == ToDecode
           N == Len(D)
           b(j) == jobs[j].batch
           L(j) == Len(b(j))
           n == Len(yielded)
           p == [k \in DOMAIN yielded |-> DeclaredBy(jobs[yielded[k]].batch)]
<1>0. InvJobs
  BY DEF IInv
<1>1. /\ \A j \in DOMAIN jobs : \A i \in 1..L(j) : UpTo(j - 1) + i \in 1..N /\ b(j)[i] = D[UpTo(j - 1) + i]
      /\ \A j, l \in DOMAIN jobs : \A i \in 1..L(j), k \in 1..L(l) :
           UpTo(j - 1) + i = UpTo(l - 1) + k => j = l /\ i = k
      /\ \A x \in 1..N : \E j \in DOMAIN jobs : \E i \in 1..L(j) : x = UpTo(j - 1) + i
  BY <1>0, Batched
<1>2. /\ \A x \in 1..N : D[x].name \in Stored /\ D[x] = Resource(D[x].name)
      /\ \A m \in Stored : store.text[m] # "other" => \E x \in 1..N : D[x] = Resource(m)
      /\ \A x, y \in 1..N : D[x] = D[y] => x = y
  BY DecodeFacts
<1>3. \A x, y \in 1..N : D[x].name = D[y].name => x = y
  BY <1>2
<1>4. /\ n \in Nat /\ DOMAIN yielded = 1..n
      /\ \A k \in 1..n : yielded[k] \in DOMAIN jobs
      /\ \A k, l \in 1..n : yielded[k] = yielded[l] => k = l
      /\ \A j \in DOMAIN jobs : \E k \in 1..n : yielded[k] = j
  <2>1. n \in Nat /\ DOMAIN yielded = 1..n
    BY SequenceFacts DEF Yielding, OnceEach
  <2>2. \A k, l \in DOMAIN yielded : yielded[k] = yielded[l] => k = l
    BY DEF Yielding, OnceEach
  <2>3. \A j : j \in In("yielded") <=> \E k \in DOMAIN yielded : yielded[k] = j
    BY DEF Yielding
  <2>4. \A j \in In("yielded") : j \in DOMAIN jobs
    BY DEF In
  <2> HIDE DEF n
  <2> QED BY <2>1, <2>2, <2>3, <2>4
<1>5. p = [k \in 1..n |-> p[k]] /\ \A k \in 1..n : p[k] = DeclaredBy(b(yielded[k]))
  BY <1>4
<1>6. Gathered = FlattenSeq(p)
  BY DEF Gathered
<1>7. \A j \in DOMAIN jobs : L(j) \in Nat /\ DOMAIN b(j) = 1..L(j)
  BY SequenceFacts DEF SInv, InvSizes, JobOK, Sized, IsSequence
<1> HIDE DEF D, N, n, p, b, L
<1>8. \A j \in DOMAIN jobs : \A i, k \in 1..L(j) : b(j)[i].name = b(j)[k].name => i = k
  BY <1>1, <1>3
<1>9. ASSUME NEW j \in DOMAIN jobs
      PROVE  /\ OnceEach(DeclaredBy(b(j)))
             /\ \A d : Lists(DeclaredBy(b(j)), d) <=> \E i \in 1..L(j) : Declares(b(j)[i], d)
  <2> DEFINE batch == b(j)
             m == L(j)
  <2>1. m \in Nat /\ DOMAIN batch = 1..m /\ \A i, k \in 1..m : batch[i].name = batch[k].name => i = k
    BY <1>7, <1>8
  <2> HIDE DEF batch, m
  <2>2. /\ OnceEach(DeclaredBy(batch))
        /\ \A d : Lists(DeclaredBy(batch), d) <=> \E i \in 1..m : Declares(batch[i], d)
    BY ONLY <2>1, BatchDeclares
  <2> QED BY <2>2 DEF batch, m
<1>10. ASSUME NEW k \in 1..n, NEW l \in 1..n, NEW d, Lists(p[k], d), Lists(p[l], d) PROVE k = l
  <2>1. PICK i \in 1..L(yielded[k]) : Declares(b(yielded[k])[i], d)
    BY <1>4, <1>5, <1>9, <1>10
  <2>2. PICK u \in 1..L(yielded[l]) : Declares(b(yielded[l])[u], d)
    BY <1>4, <1>5, <1>9, <1>10
  <2>3. b(yielded[k])[i].name = b(yielded[l])[u].name
    BY <2>1, <2>2, DeclaresOne
  <2> DEFINE x == UpTo(yielded[k] - 1) + i
             y == UpTo(yielded[l] - 1) + u
  <2>4. /\ x \in 1..N /\ b(yielded[k])[i] = D[x]
        /\ y \in 1..N /\ b(yielded[l])[u] = D[y]
        /\ (x = y => yielded[k] = yielded[l])
    BY <1>1, <1>4
  <2> HIDE DEF x, y
  <2>5. yielded[k] = yielded[l]
    BY <1>3, <2>3, <2>4
  <2> QED BY <1>4, <2>5
<1>11. \A k \in 1..n : OnceEach(p[k])
  BY <1>4, <1>5, <1>9
<1>12. /\ OnceEach(FlattenSeq(p))
       /\ \A d : Lists(FlattenSeq(p), d) <=> \E k \in 1..n : Lists(p[k], d)
  BY ONLY <1>4, <1>5, <1>10, <1>11, FlattenedOnce
<1>13. ASSUME NEW d, NEW k \in 1..n, Lists(p[k], d) PROVE \E m \in Stored : Declares(Resource(m), d)
  <2>1. PICK i \in 1..L(yielded[k]) : Declares(b(yielded[k])[i], d)
    BY <1>4, <1>5, <1>9, <1>13
  <2>2. PICK x \in 1..N : b(yielded[k])[i] = D[x]
    BY <1>1, <1>4
  <2> QED BY <1>2, <2>1, <2>2
<1>14. ASSUME NEW d, NEW m \in Stored, Declares(Resource(m), d) PROVE \E k \in 1..n : Lists(p[k], d)
  <2>1. store.text[m] = "good"
    <3>1. Resource(m).name = m
      BY DEF Resource
    <3> QED BY <1>14, <3>1 DEF Declares, Good
  <2>2. PICK x \in 1..N : D[x] = Resource(m)
    BY <1>2, <2>1
  <2>3. PICK j \in DOMAIN jobs : \E i \in 1..L(j) : x = UpTo(j - 1) + i
    BY <1>1
  <2>4. PICK i \in 1..L(j) : x = UpTo(j - 1) + i
    BY <2>3
  <2>5. b(j)[i] = Resource(m)
    BY <1>1, <2>2, <2>4
  <2>6. PICK k \in 1..n : yielded[k] = j
    BY <1>4
  <2>7. Lists(DeclaredBy(b(j)), d)
    BY <1>9, <1>14, <2>5
  <2> QED BY <1>5, <2>6, <2>7
<1> QED BY <1>6, <1>12, <1>13, <1>14

-----------------------------------------------------------------------------
(* Sorted puts descriptors with different keys in their order, all of them. *)
Keyed(s) ==
  /\ \A i \in DOMAIN s : s[i].resource \in Nat /\ s[i].object \in Nat
  /\ \A i, k \in DOMAIN s : s[i].resource = s[k].resource /\ s[i].object = s[k].object => i = k

(* Descriptors with different keys are in one order.                        *)
LEMMA PrecedesInOrder ==
  ASSUME NEW s, Keyed(s)
  PROVE  /\ \A i \in DOMAIN s : ~Precedes(s[i], s[i])
         /\ \A i, k \in DOMAIN s : i # k => (Precedes(s[i], s[k]) <=> ~Precedes(s[k], s[i]))
         /\ \A i, k, l \in DOMAIN s : Precedes(s[i], s[k]) /\ Precedes(s[k], s[l]) => Precedes(s[i], s[l])
<1> DEFINE D == DOMAIN s
           r == [i \in D |-> s[i].resource]
           o == [i \in D |-> s[i].object]
<1>1. /\ \A i \in D : r[i] \in Nat /\ o[i] \in Nat
      /\ \A i, k \in D : r[i] = r[k] /\ o[i] = o[k] => i = k
      /\ \A i, k \in D : Precedes(s[i], s[k]) <=> r[i] < r[k] \/ (r[i] = r[k] /\ o[i] < o[k])
  BY DEF Keyed, Precedes
<1> HIDE DEF D, r, o
<1>2. \A i \in D : ~Precedes(s[i], s[i])
  BY <1>1
<1>3. \A i, k \in D : i # k => (Precedes(s[i], s[k]) <=> ~Precedes(s[k], s[i]))
  BY <1>1
<1>4. \A i, k, l \in D : Precedes(s[i], s[k]) /\ Precedes(s[k], s[l]) => Precedes(s[i], s[l])
  BY <1>1
<1> QED BY <1>2, <1>3, <1>4 DEF D

(* The destinations are the places of the sequence, each taken once, in the *)
(* order of the keys.                                                       *)
LEMMA DestinationFacts ==
  ASSUME NEW n \in Nat, NEW s, DOMAIN s = 1..n, Keyed(s)
  PROVE  /\ \A i \in 1..n : Destination(s, i) \in 1..n
         /\ \A i, k \in 1..n : Precedes(s[i], s[k]) => Destination(s, i) < Destination(s, k)
         /\ \A i, k \in 1..n : Destination(s, i) = Destination(s, k) => i = k
         /\ \A p \in 1..n : \E i \in 1..n : Destination(s, i) = p
<1> DEFINE I == 1..n
           T(i) == {k \in I : \/ Precedes(s[k], s[i])
                              \/ ~Precedes(s[i], s[k]) /\ k <= i}
           f == [i \in I |-> Destination(s, i)]
           W == {f[i] : i \in I}
<1>1. /\ \A i \in I : ~Precedes(s[i], s[i])
      /\ \A i, k \in I : i # k => (Precedes(s[i], s[k]) <=> ~Precedes(s[k], s[i]))
      /\ \A i, k, l \in I : Precedes(s[i], s[k]) /\ Precedes(s[k], s[l]) => Precedes(s[i], s[l])
  BY PrecedesInOrder
<1>2. IsFiniteSet(I) /\ Cardinality(I) = n
  BY FS_Interval
<1>3. \A i \in I : f[i] = Cardinality(T(i)) /\ Destination(s, i) = f[i]
  BY DEF Destination
<1>4. \A i \in I : i <= i
  OBVIOUS
<1>5. \A i \in I : T(i) \in SUBSET I /\ \A k \in I : k \in T(i) <=> Precedes(s[k], s[i]) \/ k = i
  BY <1>1, <1>4
<1> HIDE DEF T, f
<1>6. ASSUME NEW i \in I PROVE IsFiniteSet(T(i)) /\ f[i] \in Nat /\ f[i] <= n /\ f[i] # 0
  <2>1. IsFiniteSet(T(i)) /\ Cardinality(T(i)) <= n /\ Cardinality(T(i)) \in Nat
    BY <1>2, <1>5, FS_Subset, FS_CardinalityType
  <2>2. T(i) # {}
    BY <1>5
  <2> QED BY <1>3, <2>1, <2>2, FS_EmptySet
<1>7. ASSUME NEW i \in I, NEW k \in I, Precedes(s[i], s[k]) PROVE f[i] < f[k]
  <2>1. T(i) \in SUBSET T(k)
    BY <1>1, <1>5, <1>7
  <2>2. k \in T(k) /\ k \notin T(i)
    BY <1>1, <1>5, <1>7
  <2>3. Cardinality(T(i)) <= Cardinality(T(k)) /\ Cardinality(T(i)) # Cardinality(T(k))
    BY <1>6, <2>1, <2>2, FS_Subset
  <2> QED BY <1>3, <1>6, <2>3
<1>8. ASSUME NEW i \in I, NEW k \in I, f[i] = f[k] PROVE i = k
  <2>1. ~(f[i] < f[k]) /\ ~(f[k] < f[i])
    BY <1>6, <1>8
  <2> QED BY <1>1, <1>7, <2>1
<1>9. W \in SUBSET I /\ \A i \in I : f[i] \in I
  BY <1>6
<1>10. Cardinality(W) = n
  <2>1. (\A x \in I : f[x] \in W) /\ \A t \in W : \E x \in I : f[x] = t
    OBVIOUS
  <2> HIDE DEF I, W
  <2>2. Cardinality(W) = Cardinality(I)
    BY <1>2, <1>8, <2>1, SameNumber
  <2> QED BY <1>2, <2>2
<1>11. W = I
  <2> HIDE DEF I, W
  <2> QED BY <1>2, <1>9, <1>10, FS_Subset
<1>12. \A p \in I : \E i \in I : f[i] = p
  BY <1>11
<1>13. \A i, k \in I : /\ Precedes(s[i], s[k]) => f[i] < f[k]
                       /\ f[i] = f[k] => i = k
  BY <1>7, <1>8
<1> HIDE DEF I, W
<1>14. /\ \A i \in I : Destination(s, i) \in I
       /\ \A i, k \in I : Precedes(s[i], s[k]) => Destination(s, i) < Destination(s, k)
       /\ \A i, k \in I : Destination(s, i) = Destination(s, k) => i = k
       /\ \A p \in I : \E i \in I : Destination(s, i) = p
  BY <1>3, <1>9, <1>12, <1>13
<1> QED BY <1>14 DEF I

(* So the sorted sequence ascends and holds the same descriptors.           *)
LEMMA SortedAscends ==
  ASSUME NEW n \in Nat, NEW s, DOMAIN s = 1..n, Keyed(s)
  PROVE  /\ DOMAIN Sorted(s) = 1..n
         /\ \A p, q \in 1..n : p < q => Precedes(Sorted(s)[p], Sorted(s)[q])
         /\ \A x : Lists(Sorted(s), x) <=> Lists(s, x)
<1> DEFINE I == 1..n
           f == [i \in I |-> Destination(s, i)]
           g == [p \in I |-> CHOOSE i \in I : Destination(s, i) = p]
           t == Sorted(s)
<1>1. /\ \A i \in I : Destination(s, i) \in I
      /\ \A i, k \in I : Precedes(s[i], s[k]) => Destination(s, i) < Destination(s, k)
      /\ \A i, k \in I : Destination(s, i) = Destination(s, k) => i = k
      /\ \A p \in I : \E i \in I : Destination(s, i) = p
  BY DestinationFacts
<1>2. \A i \in I : f[i] = Destination(s, i)
  OBVIOUS
<1>3. \A p \in I : g[p] \in I /\ f[g[p]] = p
  <2>1. \A p \in I : g[p] \in I /\ Destination(s, g[p]) = p
    BY <1>1
  <2> HIDE DEF f, g, I
  <2> QED BY <1>2, <2>1
<1>4. DOMAIN t = I /\ \A p \in I : t[p] = s[g[p]]
  BY DEF Sorted
<1>5. \A p \in I : p \in Nat
  OBVIOUS
<1>6. \A i, k \in I : i # k => (Precedes(s[i], s[k]) <=> ~Precedes(s[k], s[i]))
  BY PrecedesInOrder
<1> HIDE DEF f, g, t, I
<1>7. /\ \A i \in I : f[i] \in I
      /\ \A i, k \in I : Precedes(s[i], s[k]) => f[i] < f[k]
      /\ \A i, k \in I : f[i] = f[k] => i = k
  BY <1>1, <1>2
<1>8. ASSUME NEW p \in I, NEW q \in I, p < q PROVE Precedes(t[p], t[q])
  <2>1. f[g[p]] < f[g[q]] /\ g[p] # g[q] /\ g[p] \in I /\ g[q] \in I
    BY <1>3, <1>5, <1>8
  <2>2. ~(f[g[q]] < f[g[p]])
    BY <1>3, <1>5, <1>8
  <2>3. Precedes(s[g[p]], s[g[q]])
    BY <1>7, <1>6, <2>1, <2>2
  <2> QED BY <1>4, <2>3
<1>9. \A i \in I : g[f[i]] = i
  BY <1>7, <1>3
<1>10. ASSUME NEW x PROVE Lists(t, x) <=> Lists(s, x)
  <2>1. DOMAIN s = I
    BY DEF I
  <2>2. ASSUME NEW p \in I, t[p] = x PROVE \E i \in I : s[i] = x
    BY <1>3, <1>4, <2>2
  <2>3. ASSUME NEW i \in I, s[i] = x PROVE \E p \in I : t[p] = x
    <3>1. f[i] \in I /\ t[f[i]] = s[g[f[i]]] /\ g[f[i]] = i
      BY <1>7, <1>4, <1>9
    <3> QED BY <2>3, <3>1
  <2> QED BY <1>4, <2>1, <2>2, <2>3 DEF Lists
<1> QED BY <1>4, <1>8, <1>10 DEF t, I

-----------------------------------------------------------------------------
(* The answer of a table: a descriptor of each readable resource and object. *)
GoodNames == {n \in Names : RowsOf(n) # {} /\ store.text[n] = "good"}

Pointed(n, o) == o = Head(Objects) /\ \E m \in GoodNames : Owner[m] = n

Answers ==
  {[resource |-> n, object |-> o, points |-> o = Head(Objects) /\ \E m \in GoodNames : Owner[m] = n] :
     n \in {n \in GoodNames : Owner[n] = 0}, o \in ToSet(Objects)}

(* Route points find their owner wherever it was decoded.                   *)
LEMMA AttachedIs ==
  ASSUME StoreOK, IInv, SInv, Advancing, \A j \in DOMAIN jobs : j \in In("yielded"),
         Len(ToDecode) <= UpTo(Len(jobs)), NEW d
  PROVE  Attached(d) <=> Pointed(d.resource, d.object)
<1> DEFINE D == ToDecode
           N == Len(D)
           b(j) == jobs[j].batch
           L(j) == Len(b(j))
<1>0. InvJobs /\ \A j : j \in In("yielded") <=> j \in DOMAIN jobs
  BY DEF IInv, In
<1>1. /\ \A j \in DOMAIN jobs : \A i \in 1..L(j) : UpTo(j - 1) + i \in 1..N /\ b(j)[i] = D[UpTo(j - 1) + i]
      /\ \A x \in 1..N : \E j \in DOMAIN jobs : \E i \in 1..L(j) : x = UpTo(j - 1) + i
  BY <1>0, Batched
<1>2. /\ \A x \in 1..N : D[x].name \in Stored
      /\ \A m \in Stored : store.text[m] # "other" => \E x \in 1..N : D[x] = Resource(m)
  BY DecodeFacts
<1>3. \A j \in DOMAIN jobs : DOMAIN b(j) = 1..L(j)
  BY SequenceFacts DEF SInv, InvSizes, JobOK, Sized, IsSequence
<1>4. \A m : Resource(m).name = m
  BY DEF Resource
<1>5. \A m : m \in GoodNames <=> m \in Stored /\ store.text[m] = "good"
  BY DEF GoodNames, Stored
<1>6. \A j : Readable(j) = {r \in {b(j)[i] : i \in DOMAIN b(j)} : store.text[r.name] = "good"}
  BY DEF Readable, Good, ToSet
<1> HIDE DEF D, N, b, L
<1>7. ASSUME NEW j \in DOMAIN jobs, NEW r \in Readable(j) PROVE r.name \in GoodNames
  <2>1. PICK i \in 1..L(j) : r = b(j)[i]
    BY <1>3, <1>6
  <2>2. store.text[r.name] = "good"
    BY <1>6
  <2> QED BY <1>1, <1>2, <1>5, <2>1, <2>2
<1>8. ASSUME NEW m \in GoodNames PROVE \E j \in DOMAIN jobs : \E r \in Readable(j) : r.name = m
  <2>1. PICK x \in 1..N : D[x] = Resource(m)
    BY <1>2, <1>5
  <2>2. PICK j \in DOMAIN jobs : \E i \in 1..L(j) : x = UpTo(j - 1) + i
    BY <1>1
  <2>3. PICK i \in 1..L(j) : x = UpTo(j - 1) + i
    BY <2>2
  <2>4. b(j)[i] = Resource(m)
    BY <1>1, <2>1, <2>3
  <2>5. Resource(m) \in Readable(j)
    BY <1>3, <1>4, <1>5, <1>6, <2>4
  <2> QED BY <1>4, <2>5
<1>9. (\E j \in In("yielded") : \E r \in Readable(j) : Owner[r.name] = d.resource)
      <=> \E m \in GoodNames : Owner[m] = d.resource
  BY <1>0, <1>7, <1>8
<1> QED BY <1>9 DEF Attached, Pointed

(* With every batch yielded the answer is that of the table.                *)
LEMMA AnswersAre ==
  ASSUME StoreOK, IInv, SInv, Advancing, Yielding, \A j \in DOMAIN jobs : j \in In("yielded"),
         Len(ToDecode) <= UpTo(Len(jobs))
  PROVE  /\ ToSet(Finish(Gathered)) = Answers
         /\ \A i, k \in DOMAIN Finish(Gathered) :
              i < k => Precedes(Finish(Gathered)[i], Finish(Gathered)[k])
<1> DEFINE g == Gathered
           n == Len(g)
           s == Sorted(g)
           a == Finish(g)
           key(m, o) == [resource |-> m, object |-> Objects[o]]
<1>1. OnceEach(g) /\ \A d : Lists(g, d) <=> \E m \in Stored : Declares(Resource(m), d)
  BY GatheredOnce
<1>2. n \in Nat /\ DOMAIN g = 1..n
  BY <1>1, SequenceFacts DEF OnceEach
<1>3. \A m, d : Declares(Resource(m), d) <=> /\ store.text[m] = "good" /\ Owner[m] = 0
                                             /\ \E o \in DOMAIN Objects : d = key(m, o)
  <2>1. \A m : Resource(m).name = m
    BY DEF Resource
  <2> QED BY <2>1 DEF Declares, Good
<1>4. \A m : m \in GoodNames <=> m \in Stored /\ store.text[m] = "good"
  BY DEF GoodNames, Stored
<1>5. \A m, o : key(m, o).resource = m /\ key(m, o).object = Objects[o]
                /\ key(m, o) = [resource |-> key(m, o).resource, object |-> key(m, o).object]
  OBVIOUS
<1>6. \A d : Lists(g, d) <=> \E m \in GoodNames : Owner[m] = 0 /\ \E o \in DOMAIN Objects : d = key(m, o)
  BY <1>1, <1>3, <1>4
<1> HIDE DEF g, n, key
<1>7. Keyed(g)
  <2>1. \A m \in GoodNames : m \in Nat
    BY NamesNumbered DEF GoodNames
  <2>2. \A o \in DOMAIN Objects : Objects[o] \in Nat
    BY ConfigDecodeAssumption, ElementOfSeq, LenProperties
  <2>3. \A i \in 1..n : Lists(g, g[i])
    BY <1>2 DEF Lists
  <2>4. \A i \in 1..n : /\ g[i].resource \in Nat /\ g[i].object \in Nat
                        /\ g[i] = [resource |-> g[i].resource, object |-> g[i].object]
    <3> SUFFICES ASSUME NEW i \in 1..n
                 PROVE  /\ g[i].resource \in Nat /\ g[i].object \in Nat
                        /\ g[i] = [resource |-> g[i].resource, object |-> g[i].object]
      OBVIOUS
    <3>1. PICK m \in GoodNames, o \in DOMAIN Objects : g[i] = key(m, o)
      BY <1>6, <2>3
    <3> QED BY <1>5, <2>1, <2>2, <3>1
  <2>5. \A i, k \in 1..n : g[i] = g[k] => i = k
    BY <1>1, <1>2 DEF OnceEach
  <2> QED BY <1>2, <2>4, <2>5 DEF Keyed
<1>8. /\ DOMAIN s = 1..n
      /\ \A p, q \in 1..n : p < q => Precedes(s[p], s[q])
      /\ \A d : Lists(s, d) <=> Lists(g, d)
  BY <1>2, <1>7, SortedAscends
<1> HIDE DEF s
<1>9. DOMAIN a = 1..n /\ \A i \in 1..n : a[i] = WithPoints(s[i])
  BY <1>2 DEF Finish, s
<1> HIDE DEF a
<1>10. \A d, e : Precedes(WithPoints(d), WithPoints(e)) <=> Precedes(d, e)
  BY DEF Precedes, WithPoints
<1>11. \A i, k \in DOMAIN a : i < k => Precedes(a[i], a[k])
  BY <1>8, <1>9, <1>10
<1>12. ASSUME NEW m, NEW o
       PROVE  WithPoints(key(m, o)) = [resource |-> m, object |-> Objects[o], points |-> Pointed(m, Objects[o])]
  <2>1. Attached(key(m, o)) <=> Pointed(m, Objects[o])
    BY <1>5, AttachedIs
  <2>2. Attached(key(m, o)) = Pointed(m, Objects[o])
    BY <2>1 DEF Attached, Pointed
  <2> QED BY <1>5, <2>2 DEF WithPoints
<1>13. \A x : x \in ToSet(a) <=> \E d : Lists(g, d) /\ x = WithPoints(d)
  <2>1. \A x : x \in ToSet(a) <=> \E i \in 1..n : x = WithPoints(s[i])
    BY <1>9 DEF ToSet
  <2> QED BY <1>8, <2>1 DEF Lists
<1>14. \A x : x \in ToSet(a) <=> \E m \in GoodNames : Owner[m] = 0 /\ \E o \in DOMAIN Objects : x = WithPoints(key(m, o))
  BY <1>6, <1>13
<1>15. \A x : x \in Answers <=>
         \E m \in GoodNames : /\ Owner[m] = 0
                              /\ \E o \in DOMAIN Objects :
                                   x = [resource |-> m, object |-> Objects[o], points |-> Pointed(m, Objects[o])]
  BY DEF Answers, Pointed, ToSet
<1>16. \A x : x \in ToSet(a) <=> x \in Answers
  BY <1>12, <1>14, <1>15
<1>17. ToSet(a) = Answers
  BY <1>16
<1> QED BY <1>11, <1>17 DEF a, g

-----------------------------------------------------------------------------
(* While a read runs, nothing is wrong, or an error is on its way; when it  *)
(* ended, its table decides.                                                *)
DecidesInv ==
  /\ outcome = "running" => StoreOK /\ (Clean \/ Spoiled)
  /\ TableDecides

(* A read starts clean.                                                     *)
LEMMA DecidesStarts ==
  ASSUME NEW sizes, NEW texts, sizes \subseteq [Names -> Nat], texts \subseteq [Names -> Texts],
         InitWith(sizes, texts)
  PROVE  DecidesInv
<1>1. StoreOK
  BY StoreStarts
<1>2. /\ rows = store.rows /\ current = <<>> /\ retained = <<>> /\ feed = <<>> /\ chunk = <<>>
      /\ ended = FALSE /\ jobs = <<>> /\ yielded = <<>> /\ outcome = "running"
  BY DEF InitWith
<1>3. Assembling /\ Delivered = {}
  BY <1>1, <1>2, AssemblingStarts
<1>4. Retaining
  <2>1. Listed({}) = <<>>
    BY <1>1, ListedNone DEF StoreOK, InOrder
  <2>2. {} \cap Asked = {}
    OBVIOUS
  <2> QED BY <1>2, <1>3, <2>1, <2>2 DEF Retaining
<1>5. Len(<<>>) = 0 /\ DOMAIN <<>> = {} /\ IsSequence(<<>>)
  BY NothingSized
<1>6. Queueing
  <2>1. UpTo(0) + 0 = 0
    BY BatchPlaces
  <2>2. Cardinality({} \cap Metadata) = 0 /\ 1..0 = {}
    BY FS_EmptySet
  <2> QED BY <1>2, <1>3, <1>5, <2>1, <2>2 DEF Queueing
<1>7. Advancing
  BY <1>2, <1>5 DEF Advancing
<1>8. Yielding
  <2>1. In("yielded") = {} /\ \A j : ~(j \in In("yielded"))
    BY <1>2, <1>5 DEF In
  <2>2. Decoded({}) = 0
    <3> DEFINE f == [j \in {} |-> jobs[j].decoded]
    <3>1. Decoded({}) = SumFunction(f) /\ DOMAIN f = {}
      BY DEF Decoded
    <3> HIDE DEF f
    <3> QED BY <3>1, SumEmpty DEF SumFunction
  <2>3. 0 <= TotalBytes
    BY ConfigDecodeAssumption
  <2> QED BY <1>2, <1>5, <2>1, <2>2, <2>3 DEF Yielding, OnceEach
<1>9. TableDecides
  BY <1>2 DEF TableDecides, VerdictOfTable, AnswerOfTable
<1> QED BY <1>1, <1>3, <1>4, <1>6, <1>7, <1>8, <1>9 DEF DecidesInv, Clean

(* The table and its contents stay, and so does an answer.                  *)
LEMMA StoreStays == ASSUME Next PROVE store' = store
<1>1. Receive => store' = store
  BY DEF Receive, RowArrives, RowsEnd
<1>2. Client => store' = store
  BY DEF Client, StreamEnds, Collected, Feed, Yield, Complete
<1>3. Work => store' = store
  BY DEF Work, Acquire, Decode, DecodeEnds
<1>4. TimeLimit \/ Drop => store' = store
  BY DEF TimeLimit, Drop
<1> QED BY <1>1, <1>2, <1>3, <1>4 DEF Next

(* Nothing changes the answer of a read that has ended,                     *)
LEMMA EndedStays ==
  ASSUME Next, outcome # "running" PROVE UNCHANGED <<store, retained, outcome, answer>>
<1>1. ~RowArrives /\ ~RowsEnd /\ ~StreamEnds /\ ~Collected
  BY DEF RowArrives, RowsEnd, StreamEnds, Collected, Receiving, CanPoll
<1>2. ~Feed /\ ~Complete /\ ~TimeLimit /\ ~Drop /\ \A j \in DOMAIN jobs : ~Yield(j)
  BY DEF Feed, CanPoll, Yield, Complete, TimeLimit, Drop
<1>3. Work
  BY <1>1, <1>2 DEF Next, Receive, Client
<1> QED BY <1>3 DEF Work, Acquire, Decode, DecodeEnds, sourceVars

(* so what was decided stays decided.                                       *)
LEMMA DecidedStays ==
  ASSUME TableDecides, UNCHANGED <<store, retained, outcome, answer>>
  PROVE  TableDecides'
<1>1. (Acceptable' <=> Acceptable) /\ Kept' = Kept
  BY SameStore
<1>2. VerdictOfTable'
  BY <1>1 DEF TableDecides, VerdictOfTable
<1>3. \A n : RowsOf(n)' = RowsOf(n)
  BY DEF RowsOf
<1>4. Answers' = Answers
  BY <1>3 DEF Answers, GoodNames
<1>5. AnswerOfTable <=> (outcome = "ok" =>
        /\ retained = Kept /\ ToSet(answer) = Answers
        /\ \A i, k \in DOMAIN answer : i < k => Precedes(answer[i], answer[k]))
  BY DEF AnswerOfTable, Answers, GoodNames
<1>6. AnswerOfTable' <=> (outcome' = "ok" =>
        /\ retained' = Kept' /\ ToSet(answer') = Answers'
        /\ \A i, k \in DOMAIN answer' : i < k => Precedes(answer'[i], answer'[k]))
  BY DEF AnswerOfTable, Answers, GoodNames
<1>7. AnswerOfTable'
  BY <1>1, <1>4, <1>5, <1>6 DEF TableDecides
<1> QED BY <1>2, <1>7 DEF TableDecides

(* The answer is of the table.                                              *)
LEMMA CompleteDecides ==
  ASSUME StoreOK, IInv, SInv, Clean, Complete
  PROVE  TableDecides'
<1>1. /\ outcome = "running" /\ ended /\ InFlight = {} /\ outcome' = "ok"
      /\ answer' = Finish(Gathered) /\ store' = store /\ retained' = retained
  BY DEF Complete, sourceVars
<1>2. /\ Acceptable /\ retained = Kept
      /\ \A j \in DOMAIN jobs : j \in In("yielded")
      /\ Len(ToDecode) <= UpTo(Len(jobs))
  BY <1>1, CompleteIsAcceptable
<1>3. Acceptable' /\ retained' = Kept'
  BY <1>1, <1>2, SameStore
<1>4. /\ ToSet(Finish(Gathered)) = Answers
      /\ \A i, k \in DOMAIN Finish(Gathered) :
           i < k => Precedes(Finish(Gathered)[i], Finish(Gathered)[k])
  BY <1>2, AnswersAre DEF Clean
<1>5. Answers' = Answers
  <2>1. \A n : RowsOf(n)' = RowsOf(n)
    BY <1>1 DEF RowsOf
  <2> QED BY <1>1, <2>1 DEF Answers, GoodNames
<1>6. /\ ToSet(answer') = Answers'
      /\ \A i, k \in DOMAIN answer' : i < k => Precedes(answer'[i], answer'[k])
  BY <1>1, <1>4, <1>5
<1>7. AnswerOfTable' <=> (outcome' = "ok" =>
        /\ retained' = Kept' /\ ToSet(answer') = Answers'
        /\ \A i, k \in DOMAIN answer' : i < k => Precedes(answer'[i], answer'[k]))
  BY DEF AnswerOfTable, Answers, GoodNames
<1>8. AnswerOfTable'
  BY <1>3, <1>6, <1>7
<1>9. VerdictOfTable'
  BY <1>1, <1>3 DEF VerdictOfTable
<1> QED BY <1>8, <1>9 DEF TableDecides

(* Every step keeps the invariant.                                          *)
LEMMA DecidesStep ==
  ASSUME DecidesInv, IInv, SInv, IInv', [Next]_vars
  PROVE  DecidesInv'
<1>1. CASE UNCHANGED vars
  <2>1. UNCHANGED <<store, retained, outcome, answer>>
    BY <1>1 DEF vars, sourceVars
  <2>2. TableDecides'
    BY <2>1, DecidedStays DEF DecidesInv
  <2>3. ASSUME outcome' = "running" PROVE StoreOK' /\ (Clean' \/ Spoiled')
    <3>1. StoreOK' /\ StoreOK /\ (Clean \/ Spoiled)
      BY <2>1, <2>3, SameStore DEF DecidesInv
    <3>2. CASE Clean
      <4>1. Assembling' /\ Retaining'
        BY <1>1, <3>2, TakenRests DEF Clean, vars
      <4>2. Advancing' /\ Yielding'
        BY <1>1, <3>2, JobsRest DEF Clean, vars
      <4>3. Delivered' = Delivered /\ ToDecode' = ToDecode /\ Metadata' = Metadata
        <5>1. store' = store /\ rows' = rows /\ current' = current
          BY <1>1 DEF vars, sourceVars
        <5>2. Delivered' = Delivered
          BY <5>1 DEF Delivered, Received
        <5> QED BY <5>1, <5>2, SameStore
      <4>4. Queueing'
        BY <1>1, <3>2, <4>3 DEF Clean, Queueing, UpTo, vars, sourceVars
      <4> QED BY <3>1, <4>1, <4>2, <4>4 DEF Clean
    <3>3. CASE Spoiled
      BY <1>1, <3>1, <3>3, FailedStays DEF vars, sourceVars, In
    <3> QED BY <3>1, <3>2, <3>3
  <2> QED BY <2>2, <2>3 DEF DecidesInv
<1>2. CASE Next /\ outcome # "running"
  <2>1. UNCHANGED <<store, retained, outcome, answer>>
    BY <1>2, EndedStays
  <2>2. TableDecides'
    BY <2>1, DecidedStays DEF DecidesInv
  <2> QED BY <1>2, <2>1, <2>2 DEF DecidesInv
<1>3. CASE Next /\ outcome = "running"
  <2>1. StoreOK /\ (Clean \/ Spoiled)
    BY <1>3 DEF DecidesInv
  <2>2. store' = store /\ StoreOK' /\ (Acceptable' <=> Acceptable)
    BY <1>3, <2>1, StoreStays, SameStore
  <2>3. ASSUME Onward PROVE DecidesInv'
    <3>1. outcome' # "ok" /\ (outcome' = "error" => ~Acceptable')
      BY <2>2, <2>3 DEF Onward
    <3>2. TableDecides'
      BY <3>1 DEF TableDecides, VerdictOfTable, AnswerOfTable
    <3>3. outcome' = "running" => Clean' \/ Spoiled'
      BY <2>3 DEF Onward
    <3> QED BY <2>2, <3>2, <3>3 DEF DecidesInv
  <2>4. CASE Clean /\ ~Complete
    BY <1>3, <2>1, <2>3, <2>4, CleanGoesOn
  <2>5. CASE Clean /\ Complete
    <3>1. TableDecides' /\ outcome' = "ok"
      BY <2>1, <2>5, CompleteDecides DEF Complete
    <3> QED BY <3>1 DEF DecidesInv
  <2>6. CASE Spoiled
    <3>1. outcome' # "ok" /\ (outcome' = "running" => Spoiled') /\ ~Acceptable
      BY <1>3, <2>1, <2>6, SpoiledGoesOn DEF Spoiled
    <3> QED BY <2>3, <3>1 DEF Onward
  <2> QED BY <2>1, <2>4, <2>5, <2>6
<1> QED BY <1>1, <1>2, <1>3

(* Whatever the order in which batches are decoded and finish, and however  *)
(* rows, workers and the time limit interleave: a read that ends with "ok"  *)
(* had an acceptable table and answers with what the table declares, and a  *)
(* read that ends with an error had a table that is not acceptable.         *)
THEOREM TableAlwaysDecides ==
  ASSUME NEW sizes, NEW texts, sizes \subseteq [Names -> Nat], texts \subseteq [Names -> Texts]
  PROVE  InitWith(sizes, texts) /\ [][Next]_vars => []TableDecides
<1> DEFINE Inv == IInv /\ SInv /\ DecidesInv
<1>1. InitWith(sizes, texts) => Inv
  <2> SUFFICES ASSUME InitWith(sizes, texts) PROVE Inv
    OBVIOUS
  <2>1. SInv
    BY EmptyStart DEF InitWith
  <2> QED BY <2>1, Initially, DecidesStarts
<1>2. Inv /\ [Next]_vars => Inv'
  <2> SUFFICES ASSUME Inv, [Next]_vars PROVE Inv'
    OBVIOUS
  <2>1. IInv' /\ SInv'
    BY Invariance, SizesInvariance
  <2> QED BY <2>1, DecidesStep
<1>3. Inv => TableDecides
  BY DEF DecidesInv
<1> QED BY <1>1, <1>2, <1>3, PTL
=============================================================================
