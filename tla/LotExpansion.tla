----------------------------- MODULE LotExpansion -----------------------------
(* The lots of a sealed trace and what the worker makes of them:            *)
(* _add_trace_lots_and_frontier of app/repository.py and                    *)
(* expand_live_tron_frontier_item of live_tron_resume.py, with amounts.     *)
(* FrontierQueue has the worker's cycle, its leases, retries and faults in  *)
(* detail; here a cycle is its beginning and the rows of its batch.         *)
(*                                                                         *)
(* Abstractions, beside those of LiveTrace.  One worker and one snapshot.   *)
(* Which rows are stale or due is left open, and so is exhaustion.  A lot   *)
(* is named by its place in lots, and a row by its transfer: its event_ref, *)
(* where the provider gives the index of every event, as it is taken to do  *)
(* here.  (Without, _event_ref has the place in the list of what left since *)
(* the arrival, and a transfer may have a row for each arrival.)  The depth *)
(* of a row is the length of its lot's path.  Rows of one priority and      *)
(* depth are leased in the order of the chain.                              *)
EXTENDS LiveTrace

CONSTANTS WorkedHistories,  \* bound of the model: the worker runs for these
          BatchSize         \* max_items_per_cycle

ASSUME LotExpansionAssumption ==
    /\ WorkedHistories \subseteq Histories /\ BatchSize \in Nat \ {0}
    /\ \A h \in WorkedHistories : \A i \in DOMAIN h : h[i].log # 0

VARIABLES lots,   \* AttributedLot rows by id
          items,   \* event_ref -> FrontierItem
          batch   \* leased rows of the cycle that are still to come

lotVars == <<traceVars, lots, items, batch>>

-----------------------------------------------------------------------------
(* ancestry is what _visited_addresses_for_lot reads; the state "spent" is  *)
(* expanded or stationary_observed.                                         *)
AttributedLot(edge, ancestry) ==
    [path |-> edge.path, remaining |-> edge.value, ancestry |-> ancestry, state |-> "queued"]

Spent(lot, rest) == [lot EXCEPT !.remaining = rest, !.state = "spent"]

FrontierItem(lot, edge, state, reason) ==
    [lot |-> lot, priority |-> edge.value, state |-> state, reason |-> reason]

Queued(lot, edge) == FrontierItem(lot, edge, "queued", "none")

LotsInit == lots = <<>> /\ items = <<>> /\ batch = <<>>

(* The lots and rows of a sealed trace.  Only the last step of the path is  *)
(* written into the ancestry of a lot.                                      *)
LotsSealed ==
    LET sealed == SetToSeq(Frontier)
        lot(e) == CHOOSE k \in DOMAIN sealed : sealed[k] = e
        arrived(t) == CHOOSE e \in Frontier : Last(e.path) = t
        reason(e) == (CHOOSE p \in parked : p.edge = e).reason
    IN  /\ lots' = [k \in DOMAIN sealed |->
                      LET t == Last(sealed[k].path) IN
                      AttributedLot(sealed[k], {chain[t].src, chain[t].dst})]
        /\ items' = [t \in {Last(e.path) : e \in Frontier} |->
                      LET e == arrived(t) IN
                      IF Hop(e, "queued") \in hops THEN Queued(lot(e), e)
                      ELSE FrontierItem(lot(e), e, "deferred", reason(e))]
        /\ UNCHANGED batch

-----------------------------------------------------------------------------
(* A cycle: stale leases are recovered, due retries released, and the first *)
(* of the queued rows leased.                                               *)
Deferred(t) == [items EXCEPT ![t].state = "deferred", ![t].reason = "provider_backoff"]

Recoverable(t) ==
    items[t].state = "leased" \/ (items[t].state = "deferred" /\ items[t].reason = "provider_backoff")

LeasedBefore(t, u) ==
    LET depth(v) == Len(lots[items[v].lot].path) IN
    \/ items[t].priority > items[u].priority
    \/ /\ items[t].priority = items[u].priority
       /\ depth(t) < depth(u) \/ (depth(t) = depth(u) /\ t < u)

Ready(back) == {t \in DOMAIN items : t \in back \/ items[t].state = "queued"}

FirstReady(back) ==
    LET n == Cardinality(Ready(back))
    IN  {queue \in [1..(IF n <= BatchSize THEN n ELSE BatchSize) -> Ready(back)] :
           \A k \in DOMAIN queue, t \in Ready(back) :
              LeasedBefore(t, queue[k]) <=> \E j \in 1..(k - 1) : queue[j] = t}

Leased(row) == [row EXCEPT !.state = "leased", !.reason = "none"]

Released(row) == [row EXCEPT !.state = "queued", !.reason = "none"]

StartCycleOfBatch ==
    /\ batch = <<>>
    /\ \E back \in SUBSET {t \in DOMAIN items : Recoverable(t)} :
         /\ Ready(back) # {}
         /\ batch' \in FirstReady(back)
         /\ items' = [t \in DOMAIN items |->
                        IF t \in Range(batch') THEN Leased(items[t])
                        ELSE IF t \in back THEN Released(items[t]) ELSE items[t]]
    /\ UNCHANGED lots

(* The provider fails, or the row is refused as it is not leased any more.  *)
DeferItem ==
    /\ batch # <<>>
    /\ items' = Deferred(Head(batch)) /\ batch' = Tail(batch)
    /\ UNCHANGED lots

-----------------------------------------------------------------------------
(* What the provider shows to have left since the arrival, without an end.  *)
OutgoingSince(lot) ==
    LET t == Last(lot.path)
    IN  InOrder({i \in DOMAIN chain : chain[i].src = chain[t].dst /\ t <= i})

ChildEdges(lot) == EdgesOver(lot.path, OutgoingSince(lot), lot.remaining)

Stationary(lot) == Left(OutgoingSince(lot), lot.remaining)

(* The row of a transfer that was found before keeps the lot it had.        *)
UpsertKeepingLot(t, new) ==
    IF t \in DOMAIN items THEN [new EXCEPT !.lot = items[t].lot] ELSE new

(* _upsert_child_frontier: a row of the transfer, whatever its state, is    *)
(* given the new lot; the lot it had stays without a row.                   *)
Upsert(t, new) == new

ExpandItem ==
    /\ batch # <<>> /\ items[Head(batch)].state = "leased"
    /\ LET item == Head(batch)
           id == items[item].lot
           lot == lots[id]
           plan == Schedule(ChildEdges(lot), lot.remaining, lot.ancestry, FALSE, AddressBudget)
           children == SetToSeq({e \in ChildEdges(lot) : e.value > 0})
           child == [t \in {Last(e.path) : e \in Range(children)} |->
                       CHOOSE k \in DOMAIN children : Last(children[k].path) = t]
           row(k) == IF children[k] \in plan.follow THEN Queued(Len(lots) + k, children[k])
                     ELSE FrontierItem(Len(lots) + k, children[k], "deferred",
                                       (CHOOSE p \in plan.park : p.edge = children[k]).reason)
           written == [t \in DOMAIN items \cup DOMAIN child |->
                         IF t \in DOMAIN child THEN Upsert(t, row(child[t])) ELSE items[t]]
       IN  /\ ~Raises(OutgoingSince(lot), lot.remaining)
           /\ lots' = [lots EXCEPT ![id] = Spent(lot, Stationary(lot))]
                      \o [k \in DOMAIN children |->
                            AttributedLot(children[k], lot.ancestry \cup {Destination(children[k])})]
           /\ items' = [written EXCEPT ![item].state = "completed"]
    /\ batch' = Tail(batch)

(* An AllocationError, or the process dies: the batch stays leased.         *)
AbandonBatch == batch # <<>> /\ batch' = <<>> /\ UNCHANGED <<lots, items>>

WorkerStep == StartCycleOfBatch \/ DeferItem \/ ExpandItem \/ AbandonBatch

LotsStep ==
    \/ /\ TraceStep
       /\ IF phase' = "sealed" /\ engine = "TRON" /\ chain \in WorkedHistories
          THEN LotsSealed ELSE UNCHANGED <<lots, items, batch>>
    \/ WorkerStep /\ UNCHANGED traceVars

LotsSpec == TraceInit /\ LotsInit /\ [][LotsStep]_lotVars

-----------------------------------------------------------------------------
LotsTypeOK ==
    /\ \A k \in DOMAIN lots : lots[k].path \in Seq(DOMAIN chain) /\ lots[k].remaining \in 0..Amount
    /\ \A t \in DOMAIN items :
         /\ items[t].lot \in DOMAIN lots
         /\ items[t].state \in {"queued", "leased", "deferred", "completed"}
         /\ items[t].reason \in Reasons \cup {"none"}
    /\ \A k \in DOMAIN batch : batch[k] \in DOMAIN items

Remaining(held, ids) == MapThenSumSet(LAMBDA k : held[k].remaining, ids)

(* Every base unit of the payment is in exactly one place, from the walk to *)
(* the last expansion: ValueAccounted while the trace runs, then in the     *)
(* lots.  No lot is spent twice: a row that may still be worked holds a lot *)
(* of its own, of its own transfer, with the value it was queued for,       *)
(* although expansions on joining routes, retries, recovered leases and     *)
(* abandoned batches rewrite and reopen rows.                               *)
ValueSpentOnce ==
    /\ ValueAccounted
    /\ DOMAIN items # {} =>
         /\ stationary + Remaining(lots, DOMAIN lots) = Amount
         /\ \A t \in DOMAIN items :
              items[t].state # "completed" =>
                LET lot == lots[items[t].lot] IN
                lot.state = "queued" /\ lot.remaining = items[t].priority /\ Last(lot.path) = t
         /\ \A t, u \in DOMAIN items : items[t].lot = items[u].lot => t = u

(* What makes this inductive: there are no lots until a trace is sealed,    *)
(* and what the worker has leased is not completed and leased once.         *)
Named == UNION {{chain[i].src, chain[i].dst} : i \in DOMAIN chain}

LotRecords == [path : Seq(DOMAIN chain) \ {<<>>}, remaining : 0..Amount,
               ancestry : SUBSET Named, state : {"queued", "spent"}]

RowRecords == [lot : DOMAIN lots, priority : Nat,
               state : {"queued", "leased", "deferred", "completed"},
               reason : Reasons \cup {"none"}]

LotsTyped ==
    /\ lots \in Seq(LotRecords)
    /\ DOMAIN items \subseteq DOMAIN chain /\ items \in [DOMAIN items -> RowRecords]
    /\ batch \in Seq(DOMAIN items)

NoneUntilSealed == phase # "sealed" => lots = <<>> /\ items = <<>> /\ batch = <<>>

BatchIsOpen ==
    /\ \A k \in DOMAIN batch : items[batch[k]].state # "completed"
    /\ \A j, k \in DOMAIN batch : batch[j] = batch[k] => j = k

LotsInv ==
    /\ TraceInv /\ EndIsClean /\ LotsTyped /\ NoneUntilSealed /\ BatchIsOpen /\ ValueSpentOnce

(* docs/V2_BUILD_BRIEF.md: "the worker resumes from the lease without       *)
(* losing frontier state.  Never truncate silently".  A lot that nobody     *)
(* spent yet has a row that says why.  Joining routes refute it.            *)
LotsAreFollowed ==
    \A k \in DOMAIN lots : lots[k].state = "spent" \/ \E t \in DOMAIN items : items[t].lot = k
=============================================================================
