-------------------------- MODULE FrontierQueueProofs --------------------------
(***************************************************************************)
(* Proofs about FrontierQueue, for every set of rows and cases, every      *)
(* money graph Onward and every batch, attempt, depth and fault bound.     *)
(* The first part holds for any number of workers, the second for the one  *)
(* server process the deployment runs (docs/DECISIONS.md).                 *)
(***************************************************************************)
EXTENDS FrontierQueue, TLAPS

(* What the row updates return.                                            *)
LEMMA FreshRowIsRow ==
    ASSUME NEW s \in RowStates, NEW r \in Reasons, NEW d \in Nat
    PROVE  /\ FreshRow(s, r, d) \in Row
           /\ FreshRow(s, r, d).state = s
           /\ FreshRow(s, r, d).attempts = 0
  BY DEF FreshRow, NewRow, Row

LEMMA SealedRowIsRow ==
    \A new \in SealedRows :
        /\ new \in Row
        /\ new.attempts \in Nat
        /\ new.state \in {"queued", "deferred"}
        /\ new.state = "queued" => new.attempts = 0
  <1>1. \A d \in 1..(MaxDepth - 1) :
            LET new == NewRow("deferred", "provider_backoff", 1, d)
            IN  new \in Row /\ new.attempts = 1 /\ new.state = "deferred"
    BY QueueAssumption DEF NewRow, Row, RowStates, Reasons
  <1>2. \A r \in Reasons, st \in {"queued", "deferred"} :
            /\ FreshRow(st, r, MaxDepth) \in Row
            /\ FreshRow(st, r, MaxDepth).state = st
            /\ FreshRow(st, r, MaxDepth).attempts = 0
    BY QueueAssumption, FreshRowIsRow DEF RowStates
  <1>3. QED
    BY <1>1, <1>2 DEF SealedRows, Reasons

LEMMA DeferredIsRow ==
    ASSUME NEW i \in Rows, row[i] \in Row
    PROVE  /\ DeferredForRetry(i) \in Row
           /\ DeferredForRetry(i).state = "deferred"
           /\ DeferredForRetry(i).attempts = row[i].attempts + 1
  <1> DEFINE Deferred(r) == [r EXCEPT !.state = "deferred", !.reason = "provider_backoff",
                                      !.attempts = @ + 1, !.ripe = FALSE]
  <1>1. ASSUME NEW r \in Row
        PROVE  /\ Deferred(r) \in Row
               /\ Deferred(r).state = "deferred"
               /\ Deferred(r).attempts = r.attempts + 1
    <2>1. /\ Deferred(r).state = "deferred"
          /\ Deferred(r).attempts = r.attempts + 1
      BY DEF Row
    <2>2. r.attempts + 1 \in Nat
      BY DEF Row
    <2>3. Deferred(r) \in Row
      BY <2>2 DEF Row, RowStates, Reasons
    <2>4. QED
      BY <2>1, <2>3
  <1>2. DeferredForRetry(i) = Deferred(row[i])
    BY DEF DeferredForRetry
  <1>3. QED
    BY <1>1, <1>2

LEMMA QueuedIsRow ==
    ASSUME NEW r \in Row
    PROVE  /\ [r EXCEPT !.state = "queued", !.reason = "none"] \in Row
           /\ [r EXCEPT !.state = "queued", !.reason = "none"].state = "queued"
           /\ [r EXCEPT !.state = "queued", !.reason = "none"].attempts = r.attempts
  BY DEF Row, RowStates, Reasons

LEMMA StampedIsRow ==
    ASSUME NEW r \in Row, NEW w \in Workers
    PROVE  /\ [r EXCEPT !.state = "leased", !.by = w, !.ripe = FALSE] \in Row
           /\ [r EXCEPT !.state = "leased", !.by = w, !.ripe = FALSE].state = "leased"
           /\ [r EXCEPT !.state = "leased", !.by = w, !.ripe = FALSE].by = w
           /\ [r EXCEPT !.state = "leased", !.by = w, !.ripe = FALSE].attempts = r.attempts
  BY DEF Row, RowStates

(* What an expansion does to each row.                                     *)
LEMMA ExpandedRow ==
    ASSUME TypeOK, CurIsRow, NEW w \in Workers, Expand(w), NEW j \in Rows
    PROVE  /\ cur[w] \in Rows
           /\ row' \in [Rows -> Row]
           /\ \/ /\ j \in Onward[cur[w]]
                 /\ row'[j].state \in {"queued", "deferred"}
                 /\ row'[j].attempts = 0
              \/ /\ j = cur[w]
                 /\ row'[j].state = "completed"
                 /\ row'[j].attempts = row[j].attempts
              \/ row'[j] = row[j]
  <1>1. cur[w] \in Rows
    BY DEF CurIsRow, Expand
  <1> DEFINE d == row[cur[w]].depth + 1
  <1>2. d \in Nat
    BY <1>1 DEF TypeOK, Row
  <1> DEFINE After(S, f) ==
          [k \in Rows |-> IF k \in S
                         THEN FreshRow(f[k].state, f[k].reason, d)
                         ELSE IF k = cur[w]
                         THEN [row[k] EXCEPT !.state = "completed"]
                         ELSE row[k]]
  <1>2a. PICK observed \in SUBSET (Onward[cur[w]] \ {cur[w]}) :
            \E f \in [observed -> ChildStates(d)] : row' = After(observed, f)
    BY DEF Expand
  <1>3. PICK child \in [observed -> ChildStates(d)] : row' = After(observed, child)
    BY <1>2a
  <1> HIDE DEF d
  <1>4. ASSUME NEW k \in observed
        PROVE  /\ child[k].state \in {"queued", "deferred"}
               /\ child[k].reason \in Reasons
    <2>1. child[k] \in ChildStates(d)
      BY <1>3, <1>4
    <2>2. QED
      BY <2>1 DEF ChildStates, Reasons
  <1>5. ASSUME NEW k \in observed
        PROVE  /\ FreshRow(child[k].state, child[k].reason, d) \in Row
               /\ FreshRow(child[k].state, child[k].reason, d).state = child[k].state
               /\ FreshRow(child[k].state, child[k].reason, d).attempts = 0
    <2>1. child[k].state \in RowStates
      BY <1>4, <1>5 DEF RowStates
    <2>2. QED
      BY <1>2, <1>4, <1>5, <2>1, FreshRowIsRow
  <1>6. ASSUME NEW k \in Rows
        PROVE  /\ [row[k] EXCEPT !.state = "completed"] \in Row
               /\ [row[k] EXCEPT !.state = "completed"].state = "completed"
               /\ [row[k] EXCEPT !.state = "completed"].attempts = row[k].attempts
    BY <1>6 DEF TypeOK, Row, RowStates
  <1>7. row' \in [Rows -> Row]
    BY <1>3, <1>5, <1>6 DEF TypeOK
  <1>8. CASE j \in observed
    BY <1>1, <1>3, <1>4, <1>5, <1>7, <1>8
  <1>9. CASE j \notin observed /\ j = cur[w]
    BY <1>1, <1>3, <1>6, <1>7, <1>9
  <1>10. CASE j \notin observed /\ j # cur[w]
    BY <1>1, <1>3, <1>7, <1>10
  <1>11. QED
    BY <1>1, <1>7, <1>8, <1>9, <1>10

-----------------------------------------------------------------------------
(* Typing: every step writes rows to the table.                            *)
LEMMA InitTyped == Init => TypeOK /\ CurIsRow /\ AbsentIsFresh
  <1> SUFFICES ASSUME Init PROVE TypeOK /\ CurIsRow /\ AbsentIsFresh
    OBVIOUS
  <1>1. FreshRow("absent", "none", 0) \in Row /\ FreshRow("absent", "none", 0).attempts = 0
    BY FreshRowIsRow DEF RowStates, Reasons
  <1>2. TypeOK
    BY <1>1, QueueAssumption DEF Init, TypeOK, PCs
  <1>3. CurIsRow /\ AbsentIsFresh
    BY <1>1 DEF Init, CurIsRow, AbsentIsFresh
  <1>4. QED
    BY <1>2, <1>3

LEMMA StepTyped ==
    TypeOK /\ CurIsRow /\ AbsentIsFresh /\ [Next]_vars
        => TypeOK' /\ CurIsRow' /\ AbsentIsFresh'
  <1> SUFFICES ASSUME TypeOK, CurIsRow, AbsentIsFresh, [Next]_vars
               PROVE  TypeOK' /\ CurIsRow' /\ AbsentIsFresh'
    OBVIOUS
  <1> DEFINE Goal == TypeOK' /\ CurIsRow' /\ AbsentIsFresh'
  <1>1. ASSUME NEW i \in Rows, SealTrace(i) PROVE Goal
    BY <1>1, SealedRowIsRow DEF SealTrace, TypeOK, CurIsRow, AbsentIsFresh
  <1>2. ASSUME NEW i \in Rows, TimePasses(i) PROVE Goal
    BY <1>2 DEF TimePasses, TypeOK, CurIsRow, AbsentIsFresh, Row
  <1>3. ASSUME NEW w \in Workers, Recover(w) PROVE Goal
    BY <1>3, QueuedIsRow DEF Recover, TypeOK, CurIsRow, AbsentIsFresh, PCs
  <1>4. ASSUME NEW w \in Workers, SelectCases(w) PROVE Goal
    BY <1>4 DEF SelectCases, TypeOK, CurIsRow, AbsentIsFresh, PCs, Lowest
  <1>5. ASSUME NEW w \in Workers, ReleaseDue(w) PROVE Goal
    <2>1. PICK c \in Cases :
            row' = [i \in Rows |-> IF i \in DueRetries(c)
                                   THEN [row[i] EXCEPT !.state = "queued", !.reason = "none"]
                                   ELSE row[i]]
      BY <1>5 DEF ReleaseDue
    <2>2. row' \in [Rows -> Row]
      BY <2>1, QueuedIsRow DEF TypeOK
    <2>3. AbsentIsFresh'
      BY <2>1, QueuedIsRow DEF TypeOK, AbsentIsFresh
    <2>4. QED
      BY <1>5, <2>2, <2>3 DEF ReleaseDue, TypeOK, CurIsRow, PCs
  <1>6. ASSUME NEW w \in Workers, SelectBatch(w) PROVE Goal
    BY <1>6 DEF SelectBatch, TypeOK, CurIsRow, AbsentIsFresh, PCs, Lowest
  <1>7. ASSUME NEW w \in Workers, StampBatch(w) PROVE Goal
    BY <1>7, StampedIsRow DEF StampBatch, TypeOK, CurIsRow, AbsentIsFresh, PCs
  <1>8. ASSUME NEW w \in Workers, NextItem(w) PROVE Goal
    <2>1. PICK i \in Rows : TakeItem(w, i)
      BY <1>8 DEF NextItem, TypeOK
    <2>2. /\ DeferredForRetry(i) \in Row
          /\ DeferredForRetry(i).state = "deferred"
      BY DeferredIsRow DEF TypeOK
    <2>3. QED
      BY <2>1, <2>2 DEF TakeItem, TypeOK, CurIsRow, AbsentIsFresh, PCs
  <1>9. ASSUME NEW w \in Workers, Expand(w) PROVE Goal
    <2>1. \A j \in Rows : /\ row' \in [Rows -> Row]
                          /\ row'[j].state = "absent" => row'[j] = row[j]
      BY <1>9, ExpandedRow
    <2>2. cur[w] \in Rows
      BY <1>9 DEF CurIsRow, Expand
    <2>3. QED
      BY <1>9, <2>1, <2>2 DEF Expand, TypeOK, CurIsRow, AbsentIsFresh, PCs
  <1>10. ASSUME NEW w \in Workers, ProviderError(w) PROVE Goal
    <2>1. cur[w] \in Rows
      BY <1>10 DEF ProviderError, CurIsRow
    <2>2. /\ DeferredForRetry(cur[w]) \in Row
          /\ DeferredForRetry(cur[w]).state = "deferred"
      BY <2>1, DeferredIsRow DEF TypeOK
    <2>3. QED
      BY <1>10, <2>1, <2>2 DEF ProviderError, TypeOK, CurIsRow, AbsentIsFresh, PCs
  <1>11. ASSUME NEW w \in Workers, SaveCoverage(w) PROVE Goal
    BY <1>11 DEF SaveCoverage, TypeOK, CurIsRow, AbsentIsFresh, PCs
  <1>12. ASSUME NEW w \in Workers, EndCase(w) PROVE Goal
    BY <1>12 DEF EndCase, LeaveCase, TypeOK, CurIsRow, AbsentIsFresh, PCs
  <1>13. ASSUME NEW w \in Workers, UnexpectedError(w) PROVE Goal
    BY <1>13, QueueAssumption
       DEF UnexpectedError, LeaveCase, TypeOK, CurIsRow, AbsentIsFresh, PCs
  <1>14. ASSUME NEW w \in Workers, Crash(w) PROVE Goal
    BY <1>14, QueueAssumption DEF Crash, TypeOK, CurIsRow, AbsentIsFresh, PCs
  <1>15. CASE UNCHANGED vars
    BY <1>15 DEF vars, TypeOK, CurIsRow, AbsentIsFresh
  <1>16. QED
    BY <1>1, <1>2, <1>3, <1>4, <1>5, <1>6, <1>7, <1>8, <1>9, <1>10, <1>11,
       <1>12, <1>13, <1>14, <1>15
       DEF Next, WorkerStep, Reasons

(* Every reachable table, program counter, list of cases and batch is      *)
(* well-typed, however many workers share the queue.                       *)
THEOREM TypeCorrect == Spec => []TypeOK
  <1>1. Spec => [](TypeOK /\ CurIsRow /\ AbsentIsFresh)
    BY InitTyped, StepTyped, PTL DEF Spec
  <1>2. QED
    BY <1>1, PTL

-----------------------------------------------------------------------------
(* Only an expansion that finds a transfer again lowers its attempts.      *)
LEMMA StepKeepsHistory ==
    ASSUME TypeOK, CurIsRow, AbsentIsFresh, [Next]_vars,
           NEW i \in Rows, row'[i].attempts < row[i].attempts
    PROVE  \E w \in Workers : pc[w] = "fetch" /\ i \in Onward[cur[w]]
  <1> DEFINE Goal == \E w \in Workers : pc[w] = "fetch" /\ i \in Onward[cur[w]]
  <1>0. row[i] \in Row /\ row[i].attempts \in Nat
    BY DEF TypeOK, Row
  <1>1. ASSUME NEW j \in Rows, SealTrace(j) PROVE Goal
    <2>1. PICK new \in SealedRows : row' = [row EXCEPT ![j] = new]
      BY <1>1 DEF SealTrace
    <2>2. row[i].attempts =< row'[i].attempts
      BY <1>0, <1>1, <2>1, SealedRowIsRow DEF SealTrace, TypeOK, AbsentIsFresh
    <2>3. row'[i].attempts \in Nat
      BY <1>0, <2>1, SealedRowIsRow DEF TypeOK
    <2>4. QED
      BY <1>0, <2>2, <2>3
  <1>2. ASSUME NEW j \in Rows, TimePasses(j) PROVE Goal
    BY <1>0, <1>2 DEF TimePasses, TypeOK, Row
  <1>3. ASSUME NEW w \in Workers, Recover(w) \/ ReleaseDue(w) \/ StampBatch(w)
        PROVE  Goal
    <2>1. Recover(w) => row'[i].attempts = row[i].attempts
      BY <1>0, QueuedIsRow DEF Recover
    <2>2. ReleaseDue(w) => row'[i].attempts = row[i].attempts
      BY <1>0, QueuedIsRow DEF ReleaseDue
    <2>3. StampBatch(w) => row'[i].attempts = row[i].attempts
      <3>1. [row[i] EXCEPT !.state = "leased", !.by = w, !.ripe = FALSE].attempts
              = row[i].attempts
        BY <1>0, StampedIsRow
      <3>2. QED
        BY <3>1 DEF StampBatch
    <2>4. QED
      BY <1>0, <1>3, <2>1, <2>2, <2>3
  <1>4. ASSUME NEW w \in Workers, NextItem(w) PROVE Goal
    <2>1. PICK j \in Rows : TakeItem(w, j)
      BY <1>4 DEF NextItem, TypeOK
    <2>2. DeferredForRetry(j).attempts = row[j].attempts + 1
      BY DeferredIsRow DEF TypeOK
    <2>3. row'[i] = row[i] \/ row'[i].attempts = row[i].attempts + 1
      BY <2>1, <2>2 DEF TakeItem, TypeOK
    <2>4. QED
      BY <1>0, <2>3
  <1>5. ASSUME NEW w \in Workers, Expand(w) PROVE Goal
    <2>1. \/ i \in Onward[cur[w]]
          \/ row'[i].attempts = row[i].attempts
      BY <1>5, ExpandedRow
    <2>2. QED
      BY <1>0, <1>5, <2>1 DEF Expand
  <1>6. ASSUME NEW w \in Workers, ProviderError(w) PROVE Goal
    <2>1. cur[w] \in Rows
      BY <1>6 DEF ProviderError, CurIsRow
    <2>2. DeferredForRetry(cur[w]).attempts = row[cur[w]].attempts + 1
      BY <2>1, DeferredIsRow DEF TypeOK
    <2>3. row'[i] = row[i] \/ row'[i].attempts = row[i].attempts + 1
      BY <1>6, <2>1, <2>2 DEF ProviderError, TypeOK
    <2>4. QED
      BY <1>0, <2>3
  <1>7. CASE row' = row
    BY <1>0, <1>7
  <1>8. CASE \E w \in Workers :
               \/ SelectCases(w) \/ SelectBatch(w) \/ SaveCoverage(w)
               \/ EndCase(w) \/ UnexpectedError(w) \/ Crash(w)
    BY <1>7, <1>8 DEF SelectCases, SelectBatch, SaveCoverage, EndCase,
                      UnexpectedError, Crash
  <1>9. CASE UNCHANGED vars
    BY <1>7, <1>9 DEF vars
  <1>10. QED
    BY <1>1, <1>2, <1>3, <1>4, <1>5, <1>6, <1>8, <1>9 DEF Next, WorkerStep, Reasons

(* The retry history survives recovery, release, leases and crashes, for   *)
(* any number of workers.                                                  *)
THEOREM HistoryKept == Spec => RetryHistoryKept
  <1>1. Spec => [](TypeOK /\ CurIsRow /\ AbsentIsFresh)
    BY InitTyped, StepTyped, PTL DEF Spec
  <1> DEFINE Kept == \A i \in Rows : row'[i].attempts < row[i].attempts =>
                       \E w \in Workers : pc[w] = "fetch" /\ i \in Onward[cur[w]]
  <1>2. TypeOK /\ CurIsRow /\ AbsentIsFresh /\ [Next]_vars => [Kept]_vars
    BY StepKeepsHistory
  <1> HIDE DEF Kept
  <1>3. Spec => [][Kept]_vars
    BY <1>1, <1>2, PTL DEF Spec
  <1>4. QED
    BY <1>3 DEF Kept, RetryHistoryKept
-----------------------------------------------------------------------------
(* One worker: the rest of the inductive invariant.                        *)
LEMMA StepLease ==
    ASSUME NEW w \in Workers, Workers = {w}, IInv, [Next]_vars
    PROVE  /\ BatchStaysQueued'
           /\ BatchIsOwn'
           /\ FetchedIsLeased'
           /\ ExhaustedNeverWorked'
  <1> DEFINE Goal == /\ BatchStaysQueued'
                     /\ BatchIsOwn'
                     /\ FetchedIsLeased'
                     /\ ExhaustedNeverWorked'
  <1> USE DEF BatchStaysQueued, BatchIsOwn, FetchedIsLeased,
              ExhaustedNeverWorked, Exhausted
  <1>0. /\ TypeOK /\ CurIsRow /\ AbsentIsFresh
        /\ BatchStaysQueued /\ BatchIsOwn
        /\ FetchedIsLeased /\ ExhaustedNeverWorked
    BY DEF IInv
  <1>a. /\ \A i \in Rows : row[i] \in Row /\ row[i].attempts \in Nat
        /\ batch[w] \subseteq Rows /\ pc[w] \in PCs
        /\ row \in [Rows -> Row] /\ pc \in [Workers -> PCs]
        /\ batch \in [Workers -> SUBSET Rows] /\ cur \in [Workers -> Rows \union {NoRow}]
        /\ ~(0 >= MaxAttempts)
    BY <1>0, QueueAssumption DEF TypeOK, Row
  <1>1. ASSUME NEW i \in Rows, SealTrace(i) PROVE Goal
    <2>1. PICK new \in SealedRows : row' = [row EXCEPT ![i] = new]
      BY <1>1 DEF SealTrace
    <2>2. row[i].state = "absent"
          /\ pc' = pc /\ batch' = batch /\ cur' = cur
      BY <1>1 DEF SealTrace
    <2>3. \A j \in Rows : j # i => row'[j] = row[j]
      BY <2>1, <1>a
    <2>4. /\ row'[i].state \in {"queued", "deferred"}
          /\ row'[i].state = "queued" => row'[i].attempts = 0
      BY <2>1, <1>a, SealedRowIsRow
    <2>5. pc[w] = "fetch" => cur[w] \in Rows
      BY <1>0 DEF CurIsRow
    <2>6. QED
      BY <1>0, <1>a, <2>2, <2>3, <2>4, <2>5
  <1>2. ASSUME NEW i \in Rows, TimePasses(i) PROVE Goal
    <2>1. /\ row' = [row EXCEPT ![i].ripe = TRUE]
          /\ pc' = pc /\ batch' = batch /\ cur' = cur
      BY <1>2 DEF TimePasses
    <2>2. \A j \in Rows : /\ row'[j].state = row[j].state
                          /\ row'[j].attempts = row[j].attempts
                          /\ row'[j].by = row[j].by
      BY <1>a, <2>1 DEF Row
    <2>3. pc[w] = "fetch" => cur[w] \in Rows
      BY <1>0 DEF CurIsRow
    <2>4. QED
      BY <1>0, <1>a, <2>1, <2>2, <2>3
  <1>3. ASSUME Recover(w) PROVE Goal
    <2>1. /\ pc' = [pc EXCEPT ![w] = "select"]
          /\ \A i \in Rows : \/ row'[i] = row[i]
                              \/ /\ row[i].state = "leased"
                                 /\ row'[i].attempts = row[i].attempts
      BY <1>3, <1>a, QueuedIsRow DEF Recover, Stale
    <2>2. pc'[w] = "select"
      BY <1>a, <2>1
    <2>3. QED
      BY <1>0, <2>1, <2>2
  <1>4. ASSUME SelectCases(w) PROVE Goal
    <2>1. row' = row /\ pc'[w] \in {"idle", "release"}
      BY <1>4, <1>a DEF SelectCases
    <2>2. QED
      BY <1>0, <2>1
  <1>5. ASSUME ReleaseDue(w) PROVE Goal
    <2>1. PICK c \in Cases :
            row' = [i \in Rows |-> IF i \in DueRetries(c)
                                   THEN [row[i] EXCEPT !.state = "queued", !.reason = "none"]
                                   ELSE row[i]]
      BY <1>5 DEF ReleaseDue
    <2>2. \A i \in Rows : \/ row'[i] = row[i]
                          \/ /\ ~Exhausted(i)
                             /\ row'[i].attempts = row[i].attempts
      BY <1>a, <2>1, QueuedIsRow DEF DueRetries
    <2>3. pc'[w] = "lease"
      BY <1>5, <1>a DEF ReleaseDue
    <2>4. QED
      BY <1>0, <2>2, <2>3
  <1>6. ASSUME SelectBatch(w) PROVE Goal
    <2>1. /\ row' = row /\ pc'[w] = "stamp"
          /\ \A i \in batch'[w] : row[i].state = "queued"
      BY <1>6, <1>a DEF SelectBatch, Lowest
    <2>2. QED
      BY <1>0, <2>1
  <1>7. ASSUME StampBatch(w) PROVE Goal
    <2>1. /\ pc[w] = "stamp" /\ pc'[w] = "items" /\ batch' = batch
      BY <1>7, <1>a DEF StampBatch
    <2>2. ASSUME NEW i \in Rows
          PROVE  \/ /\ i \in batch[w]
                    /\ row'[i].by = w
                    /\ row'[i].attempts = row[i].attempts
                 \/ i \notin batch[w] /\ row'[i] = row[i]
      <3>1. /\ [row[i] EXCEPT !.state = "leased", !.by = w, !.ripe = FALSE].attempts
                 = row[i].attempts
            /\ [row[i] EXCEPT !.state = "leased", !.by = w, !.ripe = FALSE].by = w
        BY <1>a, StampedIsRow
      <3>2. QED
        BY <1>7, <3>1 DEF StampBatch
    <2>3. \A i \in batch[w] : ~Exhausted(i)
      BY <1>0, <1>a, <2>1
    <2>4. QED
      BY <1>0, <1>a, <2>1, <2>2, <2>3
  <1>8. ASSUME NextItem(w) PROVE Goal
    <2>1. PICK i \in batch[w] : TakeItem(w, i)
      BY <1>8 DEF NextItem
    <2>2. /\ i \in Rows /\ pc[w] = "items"
          /\ batch'[w] \subseteq batch[w]
      BY <1>a, <2>1 DEF TakeItem
    <2>3. CASE row[i].state = "leased"
      <3>1. row' = row /\ cur'[w] = i /\ pc'[w] = "fetch"
        BY <1>a, <2>1, <2>3 DEF TakeItem
      <3>2. QED
        BY <1>0, <2>2, <2>3, <3>1
    <2>4. CASE row[i].state # "leased"
      <3>1. /\ row' = [row EXCEPT ![i] = DeferredForRetry(i)]
            /\ pc' = pc
        BY <2>1, <2>4 DEF TakeItem
      <3>2. DeferredForRetry(i).state = "deferred"
        BY <1>a, <2>2, DeferredIsRow
      <3>3. \A j \in Rows : row'[j] = row[j] \/ row'[j].state = "deferred"
        BY <1>a, <3>1, <3>2
      <3>4. QED
        BY <1>0, <1>a, <2>2, <3>1, <3>3
    <2>5. QED
      BY <2>3, <2>4
  <1>9. ASSUME Expand(w) PROVE Goal
    <2>1. /\ pc[w] = "fetch" /\ pc'[w] = "coverage" /\ batch' = batch
      BY <1>9, <1>a DEF Expand
    <2>2. \A j \in Rows : \/ /\ row'[j].state \in {"queued", "deferred"}
                             /\ row'[j].attempts = 0
                          \/ row'[j].state = "completed"
                          \/ row'[j] = row[j]
      BY <1>0, <1>9, ExpandedRow
    <2>3. QED
      BY <1>0, <1>a, <2>1, <2>2
  <1>10. ASSUME ProviderError(w) PROVE Goal
    <2>1. /\ pc[w] = "fetch" /\ pc'[w] = "coverage" /\ batch' = batch
          /\ row' = [row EXCEPT ![cur[w]] = DeferredForRetry(cur[w])]
      BY <1>10, <1>a DEF ProviderError
    <2>2. DeferredForRetry(cur[w]).state = "deferred"
      BY <1>0, <1>a, <2>1, DeferredIsRow DEF CurIsRow
    <2>3. \A j \in Rows : row'[j] = row[j] \/ row'[j].state = "deferred"
      BY <1>a, <2>1, <2>2
    <2>4. QED
      BY <1>0, <1>a, <2>1, <2>3
  <1>11. ASSUME SaveCoverage(w) PROVE Goal
    <2>1. row' = row /\ pc[w] = "coverage" /\ pc'[w] = "items" /\ batch' = batch
      BY <1>11, <1>a DEF SaveCoverage
    <2>2. QED
      BY <1>0, <2>1
  <1>12. ASSUME EndCase(w) \/ UnexpectedError(w) \/ Crash(w) PROVE Goal
    <2>1. row' = row /\ pc'[w] \in {"idle", "release"}
      BY <1>12, <1>a DEF EndCase, UnexpectedError, Crash, LeaveCase
    <2>2. QED
      BY <1>0, <2>1
  <1>13. CASE UNCHANGED vars
    BY <1>0, <1>13 DEF vars
  <1>14. QED
    BY <1>1, <1>2, <1>3, <1>4, <1>5, <1>6, <1>7, <1>8, <1>9, <1>10, <1>11,
       <1>12, <1>13
       DEF Next, WorkerStep, Reasons

LEMMA InitLease == Init => IInv
  <1> SUFFICES ASSUME Init PROVE IInv
    OBVIOUS
  <1>1. FreshRow("absent", "none", 0).state = "absent"
    BY FreshRowIsRow DEF RowStates, Reasons
  <1>2. BatchStaysQueued /\ BatchIsOwn /\ FetchedIsLeased /\ ExhaustedNeverWorked
    BY <1>1 DEF Init, BatchStaysQueued, BatchIsOwn, FetchedIsLeased,
                ExhaustedNeverWorked
  <1>3. QED
    BY <1>2, InitTyped DEF IInv

(* A step of the single worker, of a trace or of the clock keeps IInv.     *)
LEMMA StepInvariant ==
    ASSUME NEW w \in Workers, Workers = {w}
    PROVE  IInv /\ [Next]_vars => IInv'
  <1> SUFFICES ASSUME IInv, [Next]_vars PROVE IInv'
    OBVIOUS
  <1>1. TypeOK' /\ CurIsRow' /\ AbsentIsFresh'
    BY StepTyped DEF IInv
  <1>2. QED
    BY <1>1, StepLease DEF IInv

LEMMA Invariant ==
    ASSUME NEW w \in Workers, Workers = {w}
    PROVE  Spec => []IInv
  <1>1. IInv /\ [Next]_vars => IInv'
    BY StepInvariant
  <1>2. QED
    BY <1>1, InitLease, PTL DEF Spec

(* With one server process, a row whose retries are used up is not queued  *)
(* for or held by a worker again.                                          *)
THEOREM RetriesBounded ==
    ASSUME NEW w \in Workers, Workers = {w}
    PROVE  Spec => []ExhaustedNeverWorked
  <1>1. IInv => ExhaustedNeverWorked
    BY DEF IInv
  <1>2. QED
    BY <1>1, Invariant, PTL
=============================================================================
