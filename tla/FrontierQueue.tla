---------------------------- MODULE FrontierQueue ----------------------------
(***************************************************************************)
(* The persisted trace frontier and the worker that drains it              *)
(* (app/services/frontier.py, live_tron_resume.py, worker.py).             *)
(*                                                                         *)
(* A row is a branch of a live trace that waits to be expanded.  A worker  *)
(* cycle recovers stale leases, picks cases, and per case releases due     *)
(* retries, leases a batch and works it off; every database commit is an   *)
(* action of its own and the provider request lies between two of them.    *)
(*                                                                         *)
(* Abstractions.  Rows are numbered in the order next_frontier_batch       *)
(* returns them (priority, depth, id).  A deadline kept in a row's cursor  *)
(* (leased_ts_ms plus the timeout, next_retry_ts_ms) is the flag ripe,     *)
(* which TimePasses raises at any moment: the model has every timing of    *)
(* the clock.  retry_exhausted is attempts >= MaxAttempts.  A row stands   *)
(* for the arrival of a transfer (event_ref) at an address, and Onward for *)
(* the transfers that leave that address; which of them an expansion sees, *)
(* and which it queues, depends on amounts and is left open here.          *)
(***************************************************************************)
EXTENDS Integers, FiniteSets

CONSTANTS Rows,         \* identities of frontier rows, numbers
          Cases,        \* case ids, numbers
          CaseOf,       \* the case of each row
          Onward,       \* the rows whose transfer leaves where a row arrived
          Workers,      \* worker threads, one per server process
          NoWorker,     \* leased_by of a row that has no lease
          NoRow,        \* the worker is not at a row
          BatchSize,    \* batch_size
          MaxCases,     \* max_cases_per_cycle
          MaxAttempts,  \* max_attempts
          MaxDepth,     \* params.max_depth
          MaxFaults     \* bound on crashes and unexpected exceptions

ASSUME QueueAssumption ==
    /\ Rows \subseteq Nat /\ Cases \subseteq Nat
    /\ CaseOf \in [Rows -> Cases]
    /\ Onward \in [Rows -> SUBSET Rows]
    /\ \A i \in Rows : \A j \in Onward[i] : CaseOf[j] = CaseOf[i]
    /\ NoWorker \notin Workers /\ NoRow \notin Rows
    /\ BatchSize \in Nat \ {0} /\ MaxCases \in Nat \ {0}
    /\ MaxAttempts \in Nat \ {0, 1} /\ MaxDepth \in Nat \ {0}
    /\ MaxFaults \in Nat

VARIABLES row,     \* the FrontierItem table
          pc,      \* where each worker is in run_once
          todo,    \* case_ids the worker still has to visit
          batch,   \* leased rows of the current case it has not reached
          cur,     \* the row it is expanding
          faults   \* crashes and unexpected exceptions so far

vars == <<row, pc, todo, batch, cur, faults>>

-----------------------------------------------------------------------------
RowStates == {"absent", "queued", "leased", "deferred", "completed"}

(* provider_backoff is the one deferral that a retry lifts; "policy" is    *)
(* any of depth_budget, cycle_detected, value_floor, breadth_cap, ...      *)
Reasons == {"none", "provider_backoff", "policy"}

Row == [state: RowStates, reason: Reasons, attempts: Nat, ripe: BOOLEAN,
        depth: Nat, by: Workers \union {NoWorker}]

NewRow(state, reason, attempts, depth) ==
    [state |-> state, reason |-> reason, attempts |-> attempts, ripe |-> FALSE,
     depth |-> depth, by |-> NoWorker]

(* A row as an expansion writes it: new cursor, so no attempts.            *)
FreshRow(state, reason, depth) == NewRow(state, reason, 0, depth)

Exhausted(i) == row[i].attempts >= MaxAttempts

BackingOff(i) ==
    row[i].state = "deferred" /\ row[i].reason = "provider_backoff"

Init ==
    /\ row = [i \in Rows |-> FreshRow("absent", "none", 0)]
    /\ pc = [w \in Workers |-> "idle"]
    /\ todo = [w \in Workers |-> {}]
    /\ batch = [w \in Workers |-> {}]
    /\ cur = [w \in Workers |-> NoRow]
    /\ faults = 0

-----------------------------------------------------------------------------
(* What a sealed live trace leaves behind: hops at the depth limit, which  *)
(* it did not query, branches its policy parked, and branches it gave one  *)
(* attempt and the provider refused.                                       *)
SealedRows ==
    {FreshRow("queued", "none", MaxDepth), FreshRow("deferred", "policy", MaxDepth)}
    \union {NewRow("deferred", "provider_backoff", 1, depth) : depth \in 1..(MaxDepth - 1)}

SealTrace(i) ==
    /\ row[i].state = "absent"
    /\ \E new \in SealedRows : row' = [row EXCEPT ![i] = new]
    /\ UNCHANGED <<pc, todo, batch, cur, faults>>

(* The deadline in a row's cursor goes by.                                 *)
TimePasses(i) ==
    /\ row[i].state = "leased" \/ BackingOff(i)
    /\ ~row[i].ripe
    /\ row' = [row EXCEPT ![i].ripe = TRUE]
    /\ UNCHANGED <<pc, todo, batch, cur, faults>>

-----------------------------------------------------------------------------
(* recover_stale_frontier_leases                                           *)
Stale(i) == row[i].state = "leased" /\ row[i].ripe

\* mutant: recovery resets the retry history with the lease
RecoverForgetsAttempts(w) ==
    /\ pc[w] = "idle"
    /\ row' = [i \in Rows |->
                 IF Stale(i) THEN FreshRow("queued", "none", row[i].depth)
                             ELSE row[i]]
    /\ pc' = [pc EXCEPT ![w] = "select"]
    /\ UNCHANGED <<todo, batch, cur, faults>>

\* mutant: a worker recovers nothing
RecoverNothing(w) ==
    /\ pc[w] = "idle"
    /\ pc' = [pc EXCEPT ![w] = "select"]
    /\ UNCHANGED <<row, todo, batch, cur, faults>>

Recover(w) ==
    /\ pc[w] = "idle"
    /\ row' = [i \in Rows |->
                 IF Stale(i)
                 THEN [row[i] EXCEPT !.state = "queued", !.reason = "none"]
                 ELSE row[i]]
    /\ pc' = [pc EXCEPT ![w] = "select"]
    /\ UNCHANGED <<todo, batch, cur, faults>>

\* mutant: a case is visited for its retries only
WaitingForRetry(c) == \E i \in Rows : CaseOf[i] = c /\ BackingOff(i)

(* The cases run_once visits: the lowest ids among those with a queued row *)
(* or one that backs off, exhausted or not.                                *)
Waiting(c) ==
    \E i \in Rows : CaseOf[i] = c /\ (row[i].state = "queued" \/ BackingOff(i))

Lowest(S, n) == {x \in S : Cardinality({y \in S : y < x}) < n}

SelectCases(w) ==
    /\ pc[w] = "select"
    /\ todo' = [todo EXCEPT ![w] = Lowest({c \in Cases : Waiting(c)}, MaxCases)]
    /\ pc' = [pc EXCEPT ![w] = IF todo'[w] = {} THEN "idle" ELSE "release"]
    /\ UNCHANGED <<row, batch, cur, faults>>

AtCase(w, c) == c \in todo[w] /\ \A d \in todo[w] : c =< d

\* mutant: exhaustion is not looked at
DueRetriesWithExhausted(c) ==
    {i \in Rows : CaseOf[i] = c /\ BackingOff(i) /\ row[i].ripe}

(* release_due_frontier_retries                                            *)
DueRetries(c) ==
    {i \in Rows : CaseOf[i] = c /\ BackingOff(i) /\ row[i].ripe /\ ~Exhausted(i)}

ReleaseDue(w) ==
    /\ pc[w] = "release"
    /\ \E c \in Cases :
         /\ AtCase(w, c)
         /\ row' = [i \in Rows |->
                      IF i \in DueRetries(c)
                      THEN [row[i] EXCEPT !.state = "queued", !.reason = "none"]
                      ELSE row[i]]
    /\ pc' = [pc EXCEPT ![w] = "lease"]
    /\ UNCHANGED <<todo, batch, cur, faults>>

(* lease_frontier_batch: the SELECT, then the commit that stamps the rows. *)
SelectBatch(w) ==
    /\ pc[w] = "lease"
    /\ \E c \in Cases :
         /\ AtCase(w, c)
         /\ batch' = [batch EXCEPT ![w] =
              Lowest({i \in Rows : CaseOf[i] = c /\ row[i].state = "queued"},
                     BatchSize)]
    /\ pc' = [pc EXCEPT ![w] = "stamp"]
    /\ UNCHANGED <<row, todo, cur, faults>>

StampBatch(w) ==
    /\ pc[w] = "stamp"
    /\ row' = [i \in Rows |->
                 IF i \in batch[w]
                 THEN [row[i] EXCEPT !.state = "leased", !.by = w, !.ripe = FALSE]
                 ELSE row[i]]
    /\ pc' = [pc EXCEPT ![w] = "items"]
    /\ UNCHANGED <<todo, batch, cur, faults>>

-----------------------------------------------------------------------------
(* The case is done, or given up after an unexpected exception: rows of    *)
(* the batch that were not reached stay leased.                            *)
LeaveCase(w) ==
    \E c \in Cases :
        /\ AtCase(w, c)
        /\ todo' = [todo EXCEPT ![w] = @ \ {c}]
        /\ batch' = [batch EXCEPT ![w] = {}]
        /\ cur' = [cur EXCEPT ![w] = NoRow]
        /\ pc' = [pc EXCEPT ![w] = IF todo[w] = {c} THEN "idle" ELSE "release"]

EndCase(w) ==
    /\ pc[w] = "items" /\ batch[w] = {}
    /\ LeaveCase(w)
    /\ UNCHANGED <<row, faults>>

\* mutant: the row is given a reason that release_due_frontier_retries ignores
DeferredForUnknown(i) ==
    [row[i] EXCEPT !.state = "deferred", !.reason = "provider_error",
                   !.attempts = @ + 1, !.ripe = FALSE]

(* defer_frontier_for_retry: it does not look at the state of the row.     *)
DeferredForRetry(i) ==
    [row[i] EXCEPT !.state = "deferred", !.reason = "provider_backoff",
                   !.attempts = @ + 1, !.ripe = FALSE]

(* The next row of the batch.  Expanding a row that is no longer leased is *)
(* refused with LiveTronResumeError, which defers it like a provider error.*)
TakeItem(w, i) ==
    /\ pc[w] = "items"
    /\ batch' = [batch EXCEPT ![w] = @ \ {i}]
    /\ \/ /\ row[i].state = "leased"
          /\ cur' = [cur EXCEPT ![w] = i]
          /\ pc' = [pc EXCEPT ![w] = "fetch"]
          /\ UNCHANGED row
       \/ /\ row[i].state # "leased"
          /\ row' = [row EXCEPT ![i] = DeferredForRetry(i)]
          /\ UNCHANGED <<cur, pc>>
    /\ UNCHANGED <<todo, faults>>

NextItem(w) ==
    \E i \in batch[w] : (\A j \in batch[w] : i =< j) /\ TakeItem(w, i)

(* The commit of an expansion.  The transfers out of the address are rows  *)
(* of the case: new ones, or ones that another lot at the same address led *)
(* to before, which are overwritten whatever their state.  At the depth    *)
(* limit none is queued.  (A transfer of the address to itself is          *)
(* overwritten too, and then completed with the row that was expanded.)    *)
ChildStates(depth) ==
    {[state |-> "deferred", reason |-> "policy"]} \union
        IF depth > MaxDepth THEN {} ELSE {[state |-> "queued", reason |-> "none"]}

Expand(w) ==
    LET i == cur[w]
        next_depth == row[i].depth + 1
    IN  /\ pc[w] = "fetch"
        /\ \E observed \in SUBSET (Onward[i] \ {i}) :
           \E child \in [observed -> ChildStates(next_depth)] :
              row' = [j \in Rows |->
                        IF j \in observed
                        THEN FreshRow(child[j].state, child[j].reason, next_depth)
                        ELSE IF j = i
                        THEN [row[j] EXCEPT !.state = "completed"]
                        ELSE row[j]]
        /\ pc' = [pc EXCEPT ![w] = "coverage"]
        /\ UNCHANGED <<todo, batch, cur, faults>>

(* ProviderConfigurationError, ProviderResponseError: rolled back, deferred.*)
ProviderError(w) ==
    /\ pc[w] = "fetch"
    /\ row' = [row EXCEPT ![cur[w]] = DeferredForRetry(cur[w])]
    /\ pc' = [pc EXCEPT ![w] = "coverage"]
    /\ UNCHANGED <<todo, batch, cur, faults>>

(* The finally block persists the provider's coverage rows.                *)
SaveCoverage(w) ==
    /\ pc[w] = "coverage"
    /\ cur' = [cur EXCEPT ![w] = NoRow]
    /\ pc' = [pc EXCEPT ![w] = "items"]
    /\ UNCHANGED <<row, todo, batch, faults>>

(* Any other exception, raised while expanding (an AllocationError) or     *)
(* while coverage is persisted, leaves the cycle of the case.              *)
UnexpectedError(w) ==
    /\ pc[w] \in {"fetch", "coverage"}
    /\ faults < MaxFaults /\ faults' = faults + 1
    /\ LeaveCase(w)
    /\ UNCHANGED row

(* The server process dies and is started again: the table is what the     *)
(* last commit left, the worker starts with a new cycle.                   *)
Crash(w) ==
    /\ pc[w] # "idle"
    /\ faults < MaxFaults /\ faults' = faults + 1
    /\ pc' = [pc EXCEPT ![w] = "idle"]
    /\ todo' = [todo EXCEPT ![w] = {}]
    /\ batch' = [batch EXCEPT ![w] = {}]
    /\ cur' = [cur EXCEPT ![w] = NoRow]
    /\ UNCHANGED row

-----------------------------------------------------------------------------
WorkerStep(w) ==
    \/ Recover(w)
    \/ SelectCases(w)
    \/ ReleaseDue(w)
    \/ SelectBatch(w)
    \/ StampBatch(w)
    \/ NextItem(w)
    \/ Expand(w)
    \/ ProviderError(w)
    \/ SaveCoverage(w)
    \/ EndCase(w)

Next ==
    \/ \E i \in Rows :
         \/ SealTrace(i)
         \/ TimePasses(i)
    \/ \E w \in Workers : WorkerStep(w) \/ UnexpectedError(w) \/ Crash(w)

Spec == Init /\ [][Next]_vars

(* The supervision loop of a worker never ends, and the clock does not     *)
(* stop.  Traces, faults and the outcome of a request are left free.       *)
Fairness ==
    /\ \A w \in Workers : WF_vars(WorkerStep(w))
    /\ \A i \in Rows : WF_vars(TimePasses(i))

FairSpec == Spec /\ Fairness

-----------------------------------------------------------------------------
PCs == {"idle", "select", "release", "lease", "stamp", "items", "fetch", "coverage"}

(* The types of the FrontierItem columns and of the worker's local state.   *)
TypeOK ==
    /\ row \in [Rows -> Row]
    /\ pc \in [Workers -> PCs]
    /\ todo \in [Workers -> SUBSET Cases]
    /\ batch \in [Workers -> SUBSET Rows]
    /\ cur \in [Workers -> Rows \union {NoRow}]
    /\ faults \in 0..MaxFaults

(* Retries are bounded: a row whose attempts are used up is never queued   *)
(* for, or held by, a worker again (defer_frontier_for_retry,              *)
(* release_due_frontier_retries, recover_stale_frontier_leases).           *)
ExhaustedNeverWorked ==
    \A i \in Rows : row[i].state \in {"queued", "leased"} => ~Exhausted(i)

(* What makes ExhaustedNeverWorked inductive when one process works the    *)
(* queue: rows are stamped as they were selected, a leased row of a batch  *)
(* and the row a request is made for are this worker's, a request is made  *)
(* for a row, and a row no trace has written yet has no history.           *)
BatchStaysQueued ==
    \A w \in Workers : pc[w] = "stamp" => \A i \in batch[w] : row[i].state = "queued"

BatchIsOwn ==
    \A w \in Workers : pc[w] \in {"items", "fetch", "coverage"} =>
        \A i \in batch[w] : row[i].state = "leased" => row[i].by = w

FetchedIsLeased ==
    \A w \in Workers :
        pc[w] = "fetch" => row[cur[w]].state = "leased" /\ row[cur[w]].by = w

CurIsRow == \A w \in Workers : pc[w] \in {"fetch", "coverage"} => cur[w] \in Rows

AbsentIsFresh == \A i \in Rows : row[i].state = "absent" => row[i].attempts = 0

IInv ==
    /\ TypeOK
    /\ CurIsRow
    /\ AbsentIsFresh
    /\ BatchStaysQueued
    /\ BatchIsOwn
    /\ FetchedIsLeased
    /\ ExhaustedNeverWorked

(* The retry history of a row survives recovery, release, leases and       *)
(* crashes: only an expansion that finds the row's transfer once more      *)
(* starts it over.                                                         *)
RetryHistoryKept ==
    [][\A i \in Rows : row'[i].attempts < row[i].attempts =>
         \E w \in Workers : pc[w] = "fetch" /\ i \in Onward[cur[w]]]_vars

(* Every row that is queued is eventually expanded or set aside ...        *)
Settled(i) == row[i].state \in {"deferred", "completed"}

QueueDrains == \A i \in Rows : row[i].state = "queued" ~> Settled(i)

(* ... and no lease outlives its worker for ever.                          *)
LeasesEnd == \A i \in Rows : row[i].state = "leased" ~> row[i].state # "leased"

(* A row beyond the depth limit is parked as depth_budget and its address  *)
(* is never queried.                                                       *)
QueriesWithinDepth ==
    \A w \in Workers : pc[w] = "fetch" => row[cur[w]].depth =< MaxDepth
=============================================================================
