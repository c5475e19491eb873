----------------------------- MODULE ConfigDecode -----------------------------
(***************************************************************************)
(* The read of the Config table in the acquisition pipeline of             *)
(* open-sdbl-db (pipeline.rs): rows are assembled into resources, the      *)
(* resources are cut into batches, and batches are decoded by blocking     *)
(* workers that share a budget of bytes.  Batches finish in any order;     *)
(* what the caller gets must not depend on it.                             *)
(*                                                                         *)
(* The three plans differ in what is kept: "stream" keeps nothing,         *)
(* "selected" keeps the resources a selector names while they stream by,   *)
(* "whole" first collects the table and then decodes from memory.          *)
(*                                                                         *)
(* A resource is a name (its rank among the file names) and a size in      *)
(* bytes, one byte per part; a descriptor it declares is a pair of that    *)
(* name and the rank of its object.                                        *)
(***************************************************************************)
EXTENDS Naturals, Sequences, FiniteSets, SequencesExt, FiniteSetsExt, TLC

CONSTANTS
  Names,          \* the file names of the table, 1..n
  Objects,        \* the objects each resource declares, in source order
  Owner,          \* Owner[n]: n carries the route points of the first
                  \*   object that resource Owner[n] declares; 0: of none
  Selected,       \* the names the selector retains
  BatchSize, Depth,                                      \* of decode_config_stream
  ResourceBytes, BatchBytes, TotalBytes, InFlightBytes,  \* ConfigDecodeLimits
  RetainCount, RetainBytes                               \* Limits

ASSUME ConfigDecodeAssumption ==
  /\ \A limit \in {BatchSize, Depth, ResourceBytes, BatchBytes, TotalBytes,
                   InFlightBytes} : limit \in Nat \ {0}
  /\ RetainCount \in Nat /\ RetainBytes \in Nat
  /\ IsFiniteSet(Names) /\ Names = 1..Cardinality(Names)
  /\ Objects \in Seq(Nat) /\ \A i, k \in DOMAIN Objects : Objects[i] = Objects[k] => i = k

VARIABLES
  store,      \* what the base answers: [plan, rows, text], fixed at the start
  rows,       \* rows not yet received
  current,    \* assemble_parts: the rows of the resource under assembly
  retained,   \* resources kept for the caller
  feed,       \* "whole": collected resources not yet handed to the decoder
  chunk,      \* the batch being filled
  ended,      \* the stream of resources has ended
  jobs,       \* batches handed to buffer_unordered, in order
  free,       \* permits left in the semaphore of in-flight bytes
  yielded,    \* jobs taken from the stream of jobs, in that order
  outcome,    \* "running", "ok", "error", "timeout" or "dropped"
  answer      \* the descriptors returned with "ok"

sourceVars == <<rows, current, retained, feed, chunk, ended>>
vars == <<store, sourceVars, jobs, free, yielded, outcome, answer>>

Plans == {"stream", "selected", "whole"}

(* How the decoder takes a resource: it reads it, skips it with a warning,  *)
(* or fails on it; "other" names are no metadata and are not decoded.       *)
Texts == {"good", "unreadable", "corrupt", "other"}

(* An item of the stream of resources that is an error.                     *)
Broken == [name |-> 0, size |-> 0]

Lost == [name |-> 0, part |-> 0]

Sum(resources) == SumFunction([i \in DOMAIN resources |-> resources[i].size])

(* The elements of a sequence at some of its places, in their order.        *)
Nth(places, k) == CHOOSE i \in places : Cardinality({j \in places : j <= i}) = k
Picked(s, places) == [k \in 1..Cardinality(places) |-> s[Nth(places, k)]]

-----------------------------------------------------------------------------
(* The base: every name with its parts in order, or with one row missing,   *)
(* or cut short by the server.                                              *)

Table(parts) ==
  FlattenSeq([n \in DOMAIN parts |->
                [k \in 1..parts[n] |-> [name |-> n, part |-> k - 1]]])

Damaged(table) ==
  {table} \cup {RemoveAt(table, i) : i \in DOMAIN table}
          \cup {Append(SubSeq(table, 1, i), Lost) : i \in 0..Len(table) - 1}

InitWith(sizes, texts) ==
  /\ \E plan \in Plans, parts \in sizes, text \in texts :
       \E table \in Damaged(Table(parts)) :
         store = [plan |-> plan, rows |-> table, text |-> text]
  /\ rows = store.rows /\ current = <<>> /\ retained = <<>> /\ feed = <<>>
  /\ chunk = <<>> /\ ended = FALSE
  /\ jobs = <<>> /\ free = InFlightBytes /\ yielded = <<>>
  /\ outcome = "running" /\ answer = <<>>

-----------------------------------------------------------------------------
(* The client: buffer_unordered takes a new batch while it holds fewer than *)
(* Depth of them, and yields finished ones in any order.                    *)

InFlight == {j \in DOMAIN jobs : jobs[j].state \notin {"yielded", "gone"}}

In(state) == {j \in DOMAIN jobs : jobs[j].state = state}

Ready == In("done") \cup In("failed")

Reserve == Min({BatchBytes, InFlightBytes})

(* Mutant: one batch more than the depth.                                   *)
CanPollOneMore == outcome = "running" /\ ~ended /\ Cardinality(InFlight) <= Depth

CanPoll == outcome = "running" /\ ~ended /\ Cardinality(InFlight) < Depth

(* A batch with an error among its items fails before it takes permits.     *)
NewJob(batch) ==
  [batch |-> batch, at |-> 0, decoded |-> 0,
   state |-> IF Contains(batch, Broken) THEN "failed" ELSE "waiting"]

(* Items reach the batch being filled; a full or a last one becomes a job.  *)
Fill(items, last) ==
  LET filled == chunk \o items IN
  IF filled # <<>> /\ (last \/ Len(filled) = BatchSize)
  THEN jobs' = Append(jobs, NewJob(filled)) /\ chunk' = <<>>
  ELSE chunk' = filled /\ UNCHANGED jobs

Decodable(resource) == resource = Broken \/ store.text[resource.name] # "other"

Retainable(resource) ==
  /\ Len(retained) + 1 <= RetainCount
  /\ Sum(retained) + resource.size <= RetainBytes

(* decode_selected_config looks at each resource on its way to a batch.     *)
Passing(resource) ==
  LET wanted == store.plan = "selected" /\ resource # Broken
                /\ resource.name \in Selected IN
  IF wanted /\ ~Retainable(resource)
  THEN Fill(<<Broken>>, FALSE) /\ ended' = FALSE /\ UNCHANGED retained
  ELSE /\ Fill(IF Decodable(resource) THEN <<resource>> ELSE <<>>, FALSE)
       /\ retained' = IF wanted THEN Append(retained, resource) ELSE retained
       /\ ended' = FALSE

(* collect_bounded_resources: the error ends the read at once.              *)
Collecting(resource) ==
  /\ UNCHANGED <<chunk, ended, jobs>>
  /\ IF resource # Broken /\ Retainable(resource)
     THEN retained' = Append(retained, resource) /\ UNCHANGED outcome
     ELSE outcome' = "error" /\ UNCHANGED retained

Deliver(resource) ==
  IF store.plan = "whole" THEN Collecting(resource)
  ELSE Passing(resource) /\ UNCHANGED outcome

-----------------------------------------------------------------------------
(* assemble_parts.                                                          *)

Receiving ==
  IF store.plan = "whole" THEN outcome = "running" /\ ~ended /\ feed = <<>>
  ELSE CanPoll

Assembled == [name |-> Head(current).name, size |-> Len(current)]

Continues(row) == current # <<>> /\ Head(current).name = row.name

InSequence(row) ==
  row # Lost /\ row.part = IF Continues(row) THEN Len(current) ELSE 0

(* One row arrives: it extends the resource, or completes it and begins the *)
(* next, or is an error that ends the stream.                               *)
RowArrives ==
  /\ Receiving /\ rows # <<>>
  /\ UNCHANGED <<store, feed, free, yielded, answer>>
  /\ LET row == Head(rows) IN
     \/ /\ InSequence(row) /\ Continues(row)
        /\ rows' = Tail(rows) /\ current' = Append(current, row)
        /\ UNCHANGED <<retained, chunk, ended, jobs, outcome>>
     \/ /\ InSequence(row) /\ ~Continues(row)
        /\ rows' = Tail(rows) /\ current' = <<row>>
        /\ IF current = <<>> THEN UNCHANGED <<retained, chunk, ended, jobs, outcome>>
           ELSE Deliver(Assembled)
     \/ /\ ~InSequence(row)
        /\ rows' = <<>> /\ current' = <<>>
        /\ IF store.plan = "whole" THEN Collecting(Broken)
           ELSE /\ Fill(<<Broken>>, TRUE) /\ ended' = TRUE
                /\ UNCHANGED <<retained, outcome>>

(* The rows ran out: the last resource is delivered.                        *)
RowsEnd ==
  /\ Receiving /\ rows = <<>> /\ current # <<>>
  /\ current' = <<>> /\ Deliver(Assembled)
  /\ UNCHANGED <<store, rows, feed, free, yielded, answer>>

(* The stream of resources ends: the rest of a batch becomes one.           *)
StreamEnds ==
  /\ store.plan # "whole" /\ Receiving /\ rows = <<>> /\ current = <<>>
  /\ Fill(<<>>, TRUE) /\ ended' = TRUE
  /\ UNCHANGED <<store, rows, current, retained, feed, free, yielded, outcome, answer>>

(* decode_retained_config starts on the collected resources.                *)
Collected ==
  /\ store.plan = "whole" /\ Receiving /\ rows = <<>> /\ current = <<>> /\ jobs = <<>>
  /\ feed' = Picked(retained, {i \in DOMAIN retained : Decodable(retained[i])})
  /\ ended' = (feed' = <<>>)
  /\ UNCHANGED <<store, rows, current, retained, chunk, jobs, free, yielded, outcome, answer>>

(* A batch of resources held in memory is ready at once.                    *)
Feed ==
  /\ feed # <<>> /\ CanPoll
  /\ LET taken == Min({BatchSize, Len(feed)}) IN
     /\ jobs' = Append(jobs, NewJob(SubSeq(feed, 1, taken)))
     /\ feed' = SubSeq(feed, taken + 1, Len(feed)) /\ ended' = (feed' = <<>>)
  /\ UNCHANGED <<store, rows, current, retained, chunk, free, yielded, outcome, answer>>

-----------------------------------------------------------------------------
(* The workers.                                                             *)

(* The semaphore serves the jobs that wait in their order.                  *)
Acquire(j) ==
  /\ outcome = "running" /\ j \in In("waiting")
  /\ \A i \in In("waiting") : j <= i
  /\ free >= Reserve
  /\ free' = free - Reserve /\ jobs' = [jobs EXCEPT ![j].state = "running"]
  /\ UNCHANGED <<store, sourceVars, yielded, outcome, answer>>

(* What is left of the batch's own budget.                                  *)
Remaining(job) == BatchBytes - job.decoded

Fits(job, resource) ==
  /\ store.text[resource.name] # "corrupt"
  /\ Remaining(job) > 0
  /\ resource.size <= Min({ResourceBytes, Remaining(job)})

GiveBack(state) == free + Reserve

(* A worker ends, with its permits, whether or not anyone waits for it.     *)
WorkerEnds(j, state) ==
  /\ jobs' = [jobs EXCEPT ![j].state = IF outcome = "running" THEN state ELSE "gone"]
  /\ free' = GiveBack(state)

(* The worker decodes one resource of its batch.                            *)
Decode(j) ==
  /\ j \in In("running") /\ jobs[j].at < Len(jobs[j].batch)
  /\ LET resource == jobs[j].batch[jobs[j].at + 1] IN
     \/ /\ Fits(jobs[j], resource)
        /\ jobs' = [jobs EXCEPT ![j].at = @ + 1, ![j].decoded =
                      @ + IF store.text[resource.name] = "good" THEN resource.size ELSE 0]
        /\ UNCHANGED free
     \/ ~Fits(jobs[j], resource) /\ WorkerEnds(j, "failed")
  /\ UNCHANGED <<store, sourceVars, yielded, outcome, answer>>

DecodeEnds(j) ==
  /\ j \in In("running") /\ jobs[j].at = Len(jobs[j].batch)
  /\ WorkerEnds(j, "done")
  /\ UNCHANGED <<store, sourceVars, yielded, outcome, answer>>

-----------------------------------------------------------------------------
(* The loop of decode_config_stream.                                        *)

Decoded(indices) == SumFunction([j \in indices |-> jobs[j].decoded])

(* The future ends: what waits for permits goes with it.                    *)
End(how) ==
  /\ outcome' = how
  /\ jobs' = [j \in DOMAIN jobs |->
                IF jobs[j].state = "running" THEN jobs[j]
                ELSE [jobs[j] EXCEPT !.state = "gone"]]

WithinTotal(j) == Decoded(In("yielded") \cup {j}) <= TotalBytes

Yield(j) ==
  /\ outcome = "running" /\ j \in Ready
  /\ UNCHANGED <<store, sourceVars, free, answer>>
  /\ \/ /\ j \in In("done") /\ WithinTotal(j)
        /\ yielded' = Append(yielded, j)
        /\ jobs' = [jobs EXCEPT ![j].state = "yielded"] /\ UNCHANGED outcome
     \/ /\ j \in In("failed") \/ ~WithinTotal(j)
        /\ End("error") /\ UNCHANGED yielded

(* What a decoded resource declares.                                        *)
Good(resource) == store.text[resource.name] = "good"

Declared(resource) ==
  IF Good(resource) /\ Owner[resource.name] = 0
  THEN [k \in DOMAIN Objects |-> [resource |-> resource.name, object |-> Objects[k]]]
  ELSE <<>>

DeclaredBy(batch) == FlattenSeq([i \in DOMAIN batch |-> Declared(batch[i])])

(* sort_descriptors: a descriptor goes where those before it leave it; of   *)
(* two with one key the first goes first.                                   *)
Precedes(d, e) ==
  \/ d.resource < e.resource
  \/ d.resource = e.resource /\ d.object < e.object

Destination(descriptors, i) ==
  Cardinality({k \in DOMAIN descriptors :
                 \/ Precedes(descriptors[k], descriptors[i])
                 \/ ~Precedes(descriptors[i], descriptors[k]) /\ k <= i})

Sorted(descriptors) ==
  [p \in DOMAIN descriptors |->
     descriptors[CHOOSE i \in DOMAIN descriptors : Destination(descriptors, i) = p]]

Readable(j) == {r \in ToSet(jobs[j].batch) : Good(r)}

(* Mutant: route points are attached within the batch that carries them.    *)
AttachedInBatch(d) ==
  d.object = Head(Objects) /\ \E j \in In("yielded") :
    \E r, s \in Readable(j) : Owner[r.name] = d.resource /\ s.name = d.resource

(* Route points find their owner among the descriptors of every batch.      *)
Attached(d) ==
  /\ d.object = Head(Objects)
  /\ \E j \in In("yielded") : \E r \in Readable(j) : Owner[r.name] = d.resource

(* finish_config_metadata.                                                  *)
WithPoints(d) == [resource |-> d.resource, object |-> d.object, points |-> Attached(d)]

Finish(descriptors) ==
  LET sorted == Sorted(descriptors) IN [i \in DOMAIN descriptors |-> WithPoints(sorted[i])]

(* The batches gave up what they declare in the order they were yielded.    *)
Gathered == FlattenSeq([k \in DOMAIN yielded |-> DeclaredBy(jobs[yielded[k]].batch)])

Complete ==
  /\ outcome = "running" /\ ended /\ InFlight = {}
  /\ outcome' = "ok" /\ \E descriptors \in {Gathered} : answer' = Finish(descriptors)
  /\ UNCHANGED <<store, sourceVars, jobs, free, yielded>>

(* Mutant: the limit is on the workers, not on the wait for the stream.      *)
TimeLimitOnWorkers ==
  /\ outcome = "running" /\ Ready = {} /\ InFlight # {}
  /\ End("timeout") /\ UNCHANGED <<store, sourceVars, free, yielded, answer>>

(* The limit is on the wait for the next finished batch; collecting the     *)
(* whole table has none.                                                    *)
TimeLimit ==
  /\ outcome = "running" /\ Ready = {} /\ ~(ended /\ InFlight = {})
  /\ store.plan = "whole" => feed # <<>> \/ jobs # <<>>
  /\ End("timeout") /\ UNCHANGED <<store, sourceVars, free, yielded, answer>>

(* The caller drops the future.                                             *)
Drop ==
  /\ outcome = "running"
  /\ End("dropped") /\ UNCHANGED <<store, sourceVars, free, yielded, answer>>

-----------------------------------------------------------------------------
Receive == RowArrives \/ RowsEnd
Client  == StreamEnds \/ Collected \/ Feed \/ (\E j \in DOMAIN jobs : Yield(j)) \/ Complete
Work    == \E j \in DOMAIN jobs : Acquire(j) \/ Decode(j) \/ DecodeEnds(j)

Next == Receive \/ Client \/ Work \/ TimeLimit \/ Drop

(* Client code and blocking workers run when they can, and the limit on a   *)
(* wait passes.  The server owes no row and the caller no patience.         *)
Fairness == WF_vars(Client) /\ WF_vars(Work) /\ WF_vars(TimeLimit)

-----------------------------------------------------------------------------
(* What the read should answer, from the rows alone.                        *)

RowsOf(n) == {i \in DOMAIN store.rows : store.rows[i].name = n}

(* Every row is there, and has the number of those of its name before it.   *)
Whole ==
  \A i \in DOMAIN store.rows :
    /\ store.rows[i] # Lost
    /\ store.rows[i].part = Cardinality({k \in RowsOf(store.rows[i].name) : k < i})

(* The resources of some names, in the order of the table.                  *)
Resource(n) == [name |-> n, size |-> Cardinality(RowsOf(n))]
Listed(names) == Picked([n \in Names |-> Resource(n)], names)

Stored == {n \in Names : RowsOf(n) # {}}

Wanted ==
  CASE store.plan = "stream"   -> {}
    [] store.plan = "selected" -> Stored \cap Selected
    [] store.plan = "whole"    -> Stored

Kept == Listed(Wanted)

ToDecode == Listed({n \in Stored : store.text[n] # "other"})

(* The batch that starts at this place fits its limits.                     *)
Used(resource) == IF Good(resource) THEN resource.size ELSE 0

UsedBefore(resources, first, i) == SumFunction([k \in first..i - 1 |-> Used(resources[k])])

FitsAfter(resources, first, i) ==
  LET used == UsedBefore(resources, first, i) IN
  /\ store.text[resources[i].name] # "corrupt"
  /\ used < BatchBytes /\ used + resources[i].size <= BatchBytes
  /\ resources[i].size <= ResourceBytes

BatchFits(resources, first) ==
  \A i \in DOMAIN resources : i \in first..first + BatchSize - 1 => FitsAfter(resources, first, i)

Acceptable ==
  LET kept == Kept
      resources == ToDecode
  IN /\ Whole
     /\ Len(kept) <= RetainCount /\ Sum(kept) <= RetainBytes
     /\ \A b \in DOMAIN resources : BatchFits(resources, (b - 1) * BatchSize + 1)
     /\ UsedBefore(resources, 1, Len(resources) + 1) <= TotalBytes

-----------------------------------------------------------------------------
TypeOK ==
  /\ store.plan \in Plans /\ ToSet(rows) \subseteq ToSet(store.rows)
  /\ \A j \in DOMAIN jobs :
       /\ jobs[j].state \in {"waiting", "running", "done", "failed", "yielded", "gone"}
       /\ jobs[j].at \in 0..Len(jobs[j].batch) /\ Len(jobs[j].batch) \in 1..BatchSize
       /\ jobs[j].decoded \in 0..BatchBytes
  /\ free \in 0..InFlightBytes
  /\ outcome \in {"running", "ok", "error", "timeout", "dropped"}

(* Bytes decoded by running workers stay within in_flight_bytes, those of   *)
(* workers nobody waits for any more included, as long as one batch does.   *)
InFlightBounded ==
  BatchBytes <= InFlightBytes => Decoded(In("running")) <= InFlightBytes

(* Backpressure: no more resources are taken from the server than Depth     *)
(* batches hold, however slow the workers are.                              *)
Backpressure ==
  store.plan # "whole" /\ outcome = "running" =>
    Len(chunk) + SumFunction([j \in InFlight |-> Len(jobs[j].batch)]) <= Depth * BatchSize

(* No batch waits for permits that nobody will give back.                   *)
PermitsComeBack ==
  In("waiting") # {} /\ In("running") = {} => free >= Reserve

(* What is kept for the caller never exceeds the limits, whatever the       *)
(* totals said that were read before the rows.                              *)
RetentionBounded == Len(retained) <= RetainCount /\ Sum(retained) <= RetainBytes

(* The limits of a read hold together, and none of them holds it for ever:  *)
(* decoded bytes, resources taken, what is kept, and the permits.           *)
LimitsHold == InFlightBounded /\ Backpressure /\ RetentionBounded /\ PermitsComeBack

(* The verdict depends on the table alone, never on the order in which      *)
(* batches finish.                                                          *)
VerdictOfTable ==
  /\ outcome = "ok" => Acceptable
  /\ outcome = "error" => ~Acceptable

(* So does the answer: the descriptors of every readable resource, sorted,  *)
(* with the route points of another batch, and exactly the resources kept.  *)
AnswerOfTable ==
  outcome = "ok" =>
    /\ retained = Kept
    /\ LET good == {n \in Names : RowsOf(n) # {} /\ store.text[n] = "good"} IN
       ToSet(answer) =
         {[resource |-> n, object |-> o,
           points |-> o = Head(Objects) /\ \E m \in good : Owner[m] = n] :
            n \in {n \in good : Owner[n] = 0}, o \in ToSet(Objects)}
    /\ \A i, k \in DOMAIN answer : i < k => Precedes(answer[i], answer[k])

(* Nothing but the table decides what a read answers.                       *)
TableDecides == VerdictOfTable /\ AnswerOfTable

(* A read that streams ends although the server stops sending.              *)
ReadEnds == store.plan # "whole" /\ outcome = "running" ~> outcome # "running"
=============================================================================
