------------------------------- MODULE LiveTrace -------------------------------
(***************************************************************************)
(* One bounded live trace: _live_trace_result and                          *)
(* _live_tron_bounded_trace_result of app/engine_bridge.py, and run_trace  *)
(* and _bounded_trace_state of engine/runtime/evm_engine.py, up to the     *)
(* rows that _add_evidence_projection of app/repository.py seals.          *)
(*                                                                         *)
(* The two engines are near copies; where they differ the definition says  *)
(* so.  The trace starts with the victim's payment at Root and walks the   *)
(* transfers of the chain: an edge is one arrival of traced money, and is  *)
(* pending, parked, or a hop that was expanded, left queued at the depth   *)
(* limit or deferred because the provider failed.                          *)
(*                                                                         *)
(* Abstractions.  The chain is one list of transfers in chain order, at    *)
(* distinct times; a transfer's time is its place in the list, the payment *)
(* precedes it, and WindowEnd is the last place inside the time window.    *)
(* A transfer has its transaction, tx, and its place among the events of   *)
(* that one, log, from 1 on; 0 if the provider leaves event_index out.     *)
(* An edge is identified by the transfers that lead to it, so its depth    *)
(* and the addresses visited are read off its path.  The payment itself is *)
(* confirmed or not by an answer of the provider that is left open, like   *)
(* the gates before it.  Unconfirmed observations, which enter nothing,    *)
(* and the texts and hashes of the events are left out.                    *)
(***************************************************************************)
EXTENDS Allocation, FiniteSets, SequencesExt

CONSTANTS Root,          \* the reported address
          Nowhere,       \* a missing destination
          Histories,     \* the lists of transfers that may be on the chain
          Amount,        \* amount_base of the victim's payment
          AddressBudget, MaxDepth, BreadthCap,
          FloorDivisor,  \* value_floor_share is 1 / FloorDivisor
          WindowEnd

ASSUME LiveTraceAssumption ==
    /\ \A h \in Histories :
          h \in Seq(Range(h)) /\ \A i \in DOMAIN h : h[i].amount \in Nat
    /\ \A h \in Histories : \A i, j \in DOMAIN h :
          i # j /\ h[i].tx = h[j].tx
             => IF h[i].log = 0 THEN h[j].log = 0 ELSE h[j].log \notin {0, h[i].log}
    /\ Amount \in Nat \ {0} /\ AddressBudget \in Nat \ {0} /\ MaxDepth \in Nat \ {0}
    /\ BreadthCap \in Nat \ {0} /\ FloorDivisor \in Nat \ {0} /\ WindowEnd \in Nat

(* A history is a list of [src, dst, amount, tx, log].                     *)
VARIABLES chain,       \* the transfers
          engine,      \* "TRON" or "EVM"
          strategy,    \* params.strategy
          byHash,      \* the seed has a transaction hash and no timestamp
          phase,       \* "seed", "walking", "closed", then "sealed" or "discarded"
          pending, parked, hops,
          queried,     \* addresses_queried
          stationary,  \* stationary_total
          terminal     \* terminal kind

traceVars == <<chain, engine, strategy, byHash, phase, pending, parked, hops, queried,
               stationary, terminal>>
inputs == <<chain, engine, strategy, byHash>>

-----------------------------------------------------------------------------
Strategies == {"dominant_fund_flow", "value_weighted"}

TraceInit ==
    /\ chain \in Histories
    /\ engine \in {"TRON", "EVM"}
    /\ strategy \in Strategies
    /\ byHash \in BOOLEAN
    /\ phase = "seed" /\ terminal = "none"
    /\ pending = {} /\ parked = {} /\ hops = {}
    /\ queried = 0 /\ stationary = 0

(* order is event_order, the place among the transfers seen at the source. *)
Edge(path, value, order) == [path |-> path, value |-> value, order |-> order]

Destination(e) == chain[Last(e.path)].dst

Depth(e) == Len(e.path)

(* _visited_addresses of what was reached over a path.                     *)
Visited(path) == {Root} \cup {chain[path[i]].dst : i \in DOMAIN path}

(* _live_edge_ref: the transaction and the index of the event, or, without *)
(* one, the place in the list of its source; _edge_ref adds that place.    *)
Suffix(e) == LET log == chain[Last(e.path)].log IN IF log # 0 THEN log ELSE e.order

EventRef(e) == LET tx == chain[Last(e.path)].tx IN
               IF engine = "TRON" THEN <<tx, Suffix(e)>> ELSE <<tx, Suffix(e), e.order>>

Parked(e, reason) == [edge |-> e, reason |-> reason]

Hop(e, state) == [edge |-> e, state |-> state]

-----------------------------------------------------------------------------
(* The transfers the engine sees leave the address at the end of a path.   *)
(* EVM drops those after the window itself; TRON asks for no others, but   *)
(* for the root of a seed that has only a transaction hash.                *)
SeenUpTo(path) == IF engine = "TRON" /\ path = <<>> /\ byHash THEN Len(chain) ELSE WindowEnd

InOrder(S) == [k \in 1..Cardinality(S) |-> CHOOSE i \in S : Cardinality({j \in S : j <= i}) = k]

Outgoing(path) ==
    LET source == IF path = <<>> THEN Root ELSE chain[Last(path)].dst
        arrival == IF path = <<>> THEN 0 ELSE Last(path)
    IN  InOrder({i \in DOMAIN chain : /\ chain[i].src = source
                                      /\ arrival < i /\ i <= SeenUpTo(path)})

(* allocate_ordered_outgoing over these transfers: the position before     *)
(* each one and after the last, and whether one raised an AllocationError. *)
Walk(out, amount) ==
    LET sent(k) == chain[out[k]].amount
        total[k \in 0..Len(out)] == IF k = 0 THEN 0 ELSE total[k - 1] + sent(k)
        all == total[Len(out)]
        pos[k \in 0..Len(out)] ==
            IF k = 0
            THEN [balance |-> IF amount >= all THEN amount ELSE all,
                  attributed |-> amount, residual |-> 0]
            ELSE IF pos[k - 1].balance <= 0 \/ pos[k - 1].attributed <= 0 THEN pos[k - 1]
            ELSE AllocateProportional(pos[k - 1], sent(k))
    IN  pos

Raises(out, amount) ==
    \E k \in 1..Len(out) :
       LET p == Walk(out, amount)[k - 1] IN
       /\ p.balance > 0 /\ p.attributed > 0
       /\ ConsistentEvidence(p, chain[out[k]].amount) => CreatesValue(p, chain[out[k]].amount)

(* _attribute_live_outgoing_edges: the edges, and what stays.              *)
EdgesOver(path, out, amount) ==
    LET pos == Walk(out, amount)
    IN  {Edge(Append(path, out[k]), pos[k - 1].attributed - pos[k].attributed, k) : k \in DOMAIN out}

Left(out, amount) == Walk(out, amount)[Len(out)].attributed

Edges(path, amount) == EdgesOver(path, Outgoing(path), amount)

(* What arrived counts as staying, whatever left.                          *)
StaysAll(path, amount) == amount

Stays(path, amount) == Left(Outgoing(path), amount)

-----------------------------------------------------------------------------
(* _schedule_live_edges and _schedule_edges.                               *)
ValueFloor(amount) == amount \div FloorDivisor

(* The cycle is looked for in the source only.                             *)
DeferralMissingAncestors(e, amount, visited, windowed) ==
    IF Depth(e) > MaxDepth THEN "depth_budget"
    ELSE IF Destination(e) = chain[Last(e.path)].src THEN "cycle_detected"
    ELSE IF windowed /\ Last(e.path) > WindowEnd THEN "time_window"
    ELSE IF e.value <= 0 \/ e.value < ValueFloor(amount) THEN "value_floor"
    ELSE "none"

Deferral(e, amount, visited, windowed) ==
    IF Depth(e) > MaxDepth THEN "depth_budget"
    ELSE IF Destination(e) # Nowhere /\ Destination(e) \in visited THEN "cycle_detected"
    ELSE IF windowed /\ Last(e.path) > WindowEnd THEN "time_window"
    ELSE IF e.value <= 0 \/ e.value < ValueFloor(amount) THEN "value_floor"
    ELSE "none"

(* schedule_candidates, and _rank_evm_candidates.                          *)
RanksBefore(e, f) ==
    IF engine = "EVM" /\ strategy = "dominant_fund_flow"
    THEN e.order < f.order
    ELSE e.value > f.value \/ (e.value = f.value /\ e.order < f.order)

Limit(budget) ==
    LET cap == IF BreadthCap <= budget THEN BreadthCap ELSE budget
    IN  IF engine = "TRON" /\ strategy = "dominant_fund_flow" /\ cap > 1 THEN 1 ELSE cap

(* The edges to follow and the branches to park, with the budget that is   *)
(* left; a seed verification alone checks no window and no cycle.          *)
Schedule(edges, amount, visited, windowed, budget) ==
    LET reason(e) == Deferral(e, amount, visited, windowed)
        candidates == {e \in edges : reason(e) = "none"}
        rank(e) == Cardinality({f \in candidates : RanksBefore(f, e)})
        follow == {e \in candidates : rank(e) < Limit(budget)}
    IN  [follow |-> follow,
         park |-> {Parked(e, IF e \notin candidates THEN reason(e)
                             ELSE IF budget <= 0 THEN "address_budget" ELSE "breadth_cap") :
                   e \in edges \ follow}]

BudgetLeft(asked) == IF asked <= AddressBudget THEN AddressBudget - asked ELSE 0

-----------------------------------------------------------------------------
(* What ends a trace before it starts: an invalid or unsupported seed, a   *)
(* gate, a payment that is not confirmed, a provider that fails.           *)
FailureKinds == {"invalid_seed", "unsupported_chain", "seed_mismatch", "provider_error"}

Fails(kind) ==
    /\ phase' = "closed" /\ terminal' = kind
    /\ pending' = {} /\ parked' = {} /\ hops' = {} /\ stationary' = 0
    /\ UNCHANGED <<inputs, queried>>

SeedFails == phase = "seed" /\ \E kind \in FailureKinds : Fails(kind)

(* An AllocationError, which nobody catches: there is no result.           *)
AttributionRaises ==
    /\ phase' = "discarded"
    /\ UNCHANGED <<inputs, pending, parked, hops, queried, stationary, terminal>>

Verify ==
    /\ phase = "seed"
    /\ LET edges == Edges(<<>>, Amount)
           plan == Schedule(edges, Amount, {Root}, TRUE, BudgetLeft(1))
       IN  IF Raises(Outgoing(<<>>), Amount) THEN AttributionRaises
           ELSE /\ phase' = "walking" /\ queried' = 1
                /\ pending' = plan.follow /\ parked' = plan.park
                /\ stationary' = Stays(<<>>, Amount)
                /\ UNCHANGED <<inputs, hops, terminal>>

(* TRON with the live_tron_trace gate closed: the payment and the first    *)
(* transfers only.                                                         *)
VerifyOnly ==
    /\ phase = "seed" /\ engine = "TRON"
    /\ LET edges == Edges(<<>>, Amount)
           plan == Schedule(edges, Amount, {}, FALSE, AddressBudget)
       IN  IF Raises(Outgoing(<<>>), Amount) THEN AttributionRaises
           ELSE /\ phase' = "closed" /\ queried' = 1
                /\ hops' = {Hop(e, "queued") : e \in plan.follow} /\ parked' = plan.park
                /\ stationary' = Stays(<<>>, Amount)
                /\ terminal' = IF plan.follow # {} THEN "depth_exhausted"
                               ELSE IF edges = {} THEN "stationary_funds"
                               ELSE "trail_dissipated"
                /\ UNCHANGED <<inputs, pending>>

-----------------------------------------------------------------------------
(* _rank_live_pending: the next edge of the loop.                          *)
GoesBefore(e, f) ==
    LET byDepth == Depth(e) < Depth(f)
        byValue == e.value > f.value
        byOrder == e.order < f.order \/ (e.order = f.order /\ Last(e.path) < Last(f.path))
    IN  IF strategy = "value_weighted"
        THEN byValue \/ (e.value = f.value /\ (byDepth \/ (Depth(e) = Depth(f) /\ byOrder)))
        ELSE byDepth \/ (Depth(e) = Depth(f) /\ (byValue \/ (e.value = f.value /\ byOrder)))

NextEdge == CHOOSE e \in pending : \A f \in pending : ~GoesBefore(f, e)

Walking(e) == phase = "walking" /\ pending # {} /\ e = NextEdge

(* The budget of the moment the edge was scheduled is trusted.             *)
WithinBudgetOnceScheduled == TRUE

WithinBudget == queried < AddressBudget

NotFollowed(e) ==
    /\ Walking(e)
    /\ \/ Destination(e) = Nowhere
       \/ Depth(e) < MaxDepth /\ ~WithinBudget
    /\ pending' = pending \ {e}
    /\ parked' = parked \cup {Parked(e, "address_budget")}
    /\ UNCHANGED <<inputs, phase, hops, queried, stationary, terminal>>

LeftAtDepth(e) ==
    /\ Walking(e) /\ Destination(e) # Nowhere /\ Depth(e) >= MaxDepth
    /\ pending' = pending \ {e}
    /\ hops' = hops \cup {Hop(e, "queued")}
    /\ UNCHANGED <<inputs, phase, parked, queried, stationary, terminal>>

Followed(e) ==
    /\ Walking(e) /\ Destination(e) # Nowhere
    /\ Depth(e) < MaxDepth /\ WithinBudget

Expand(e) ==
    /\ Followed(e)
    /\ LET edges == Edges(e.path, e.value)
           plan == Schedule(edges, e.value, Visited(e.path), TRUE, BudgetLeft(queried + 1))
       IN  IF Raises(Outgoing(e.path), e.value) THEN AttributionRaises
           ELSE /\ pending' = (pending \ {e}) \cup plan.follow
                /\ parked' = parked \cup plan.park
                /\ hops' = hops \cup {Hop(e, "expanded")}
                /\ queried' = queried + 1
                /\ stationary' = stationary + Stays(e.path, e.value)
                /\ UNCHANGED <<inputs, phase, terminal>>

(* The branch is only marked on the hop.                                   *)
BackOffUnparked(e) ==
    /\ Followed(e)
    /\ pending' = pending \ {e}
    /\ hops' = hops \cup {Hop(e, "deferred")}
    /\ UNCHANGED <<inputs, phase, parked, queried, stationary, terminal>>

(* ProviderResponseError for one address: the branch waits for the worker. *)
BackOff(e) ==
    /\ Followed(e)
    /\ pending' = pending \ {e}
    /\ hops' = hops \cup {Hop(e, "deferred")}
    /\ parked' = parked \cup {Parked(e, "provider_backoff")}
    /\ UNCHANGED <<inputs, phase, queried, stationary, terminal>>

(* ProviderConfigurationError: the whole trace is a provider error.        *)
Misconfigured(e) == Followed(e) /\ Fails("provider_error")

QueuedHops == {h \in hops : h.state = "queued"}

Close ==
    /\ phase = "walking" /\ pending = {}
    /\ phase' = "closed"
    /\ terminal' = IF QueuedHops # {} \/ parked # {} THEN "depth_exhausted"
                   ELSE IF stationary > 0 THEN "stationary_funds" ELSE "trail_dissipated"
    /\ UNCHANGED <<inputs, pending, parked, hops, queried, stationary>>

-----------------------------------------------------------------------------
(* _add_evidence_projection: a canonical event per hop, a lot and a        *)
(* frontier row per queued hop and per parked branch.  Two of one kind     *)
(* under one reference are refused, and the snapshot with them.            *)
Frontier == {h.edge : h \in QueuedHops} \cup {p.edge : p \in parked}

RefsUnique(edges) == \A e, f \in edges : EventRef(e) = EventRef(f) => e = f

Sealable == RefsUnique(Frontier) /\ RefsUnique({h.edge : h \in hops})

Seal ==
    /\ phase = "closed"
    /\ phase' = IF Sealable THEN "sealed" ELSE "discarded"
    /\ UNCHANGED <<inputs, pending, parked, hops, queried, stationary, terminal>>

TraceStep ==
    \/ SeedFails \/ Verify \/ VerifyOnly \/ Close \/ Seal
    \/ \E e \in pending :
          NotFollowed(e) \/ LeftAtDepth(e) \/ Expand(e) \/ BackOff(e) \/ Misconfigured(e)

-----------------------------------------------------------------------------
Reasons == {"depth_budget", "cycle_detected", "time_window", "value_floor", "address_budget",
            "breadth_cap", "provider_backoff"}

IsEdge(e) == e.path \in Seq(DOMAIN chain) /\ e.path # <<>> /\ e.value \in 0..Amount

TraceTypeOK ==
    /\ phase \in {"seed", "walking", "closed", "sealed", "discarded"}
    /\ terminal \in FailureKinds \cup {"none", "depth_exhausted", "stationary_funds",
                                       "trail_dissipated"}
    /\ \A e \in pending \cup Frontier : IsEdge(e)
    /\ \A p \in parked : p.reason \in Reasons
    /\ queried \in Nat /\ stationary \in 0..Amount

-----------------------------------------------------------------------------
Total(edges) == MapThenSumSet(LAMBDA e : e.value, edges)

Succeeds == phase \in {"walking", "closed", "sealed"} /\ terminal \notin FailureKinds

(* Every base unit of the payment is stationary somewhere or on exactly    *)
(* one branch that somebody will still follow: none is counted on a branch *)
(* and on the one before it, and a provider that fails loses none.         *)
ValueAccounted == Succeeds => stationary + Total(pending \cup Frontier) = Amount

(* The parameters bound the walk and not only its planning: the budget     *)
(* that an edge was scheduled under is spent by edges that ranked before   *)
(* it.  No branch is asked for twice on its own path, late or too deep.    *)
WithinBounds ==
    /\ queried <= AddressBudget
    /\ \A h \in hops :
         /\ Depth(h.edge) <= MaxDepth
         /\ h.state # "queued" =>
              /\ Depth(h.edge) < MaxDepth /\ Last(h.edge.path) <= WindowEnd
              /\ Destination(h.edge) \notin Visited(Front(h.edge.path))

(* The edges that the trace met.                                           *)
Seen == pending \cup {p.edge : p \in parked} \cup {h.edge : h \in hops}

(* A trace that follows the dominant flow on TRON meets no transfer twice, *)
(* so it can be sealed, unless it met two transfers of one transaction     *)
(* that the provider did not number: each may be the first of its source.  *)
(* A value-weighted trace may also collide with itself: two branches that  *)
(* join at an address both report what leaves it, and the finished trace   *)
(* is discarded.                                                           *)
OneTransaction(e, f) ==
    LET t == Last(e.path) u == Last(f.path)
    IN  t # u /\ chain[t].tx = chain[u].tx /\ chain[t].log = 0

DominantPathSeals ==
    phase = "closed" /\ engine = "TRON" /\ strategy = "dominant_fund_flow" =>
       Sealable \/ \E e, f \in Seen : OneTransaction(e, f)

(* What makes these inductive.  An edge was seen if it is pending, parked  *)
(* or a hop; edges are told apart by their paths, a pending one is nothing *)
(* else yet, and what led to an edge is a hop.  A pending edge may still   *)
(* be asked for.  On the dominant path one edge is pending at a time, and  *)
(* what was seen left the addresses on its path.                           *)
Arrivals == [path : Seq(DOMAIN chain) \ {<<>>}, value : 0..Amount, order : Nat]

TraceTyped ==
    /\ chain \in Histories /\ engine \in {"TRON", "EVM"} /\ strategy \in Strategies
    /\ IsFiniteSet(Seen) /\ Seen \subseteq Arrivals
    /\ parked \subseteq [edge : Seen, reason : Reasons]
    /\ hops \subseteq [edge : Seen, state : {"queued", "expanded", "deferred"}]
    /\ stationary \in Nat
    /\ phase = "seed" => Seen = {} /\ stationary = 0 /\ queried = 0
    /\ phase \in {"seed", "walking"} => terminal = "none"

EndIsClean ==
    /\ phase = "closed" => pending = {}
    /\ terminal \in FailureKinds => Seen = {}

EdgesApart ==
    /\ \A e, f \in Seen : e.path = f.path => e = f
    /\ \A e \in pending : e \notin {h.edge : h \in hops} \cup {p.edge : p \in parked}
    /\ \A e \in Seen : Len(e.path) = 1 \/ \E h \in hops : h.edge.path = Front(e.path)

PendingIsOpen ==
    \A e \in pending :
        /\ Depth(e) <= MaxDepth /\ Last(e.path) <= WindowEnd
        /\ Destination(e) = Nowhere \/ Destination(e) \notin Visited(Front(e.path))

OnePathWalked ==
    engine = "TRON" /\ strategy = "dominant_fund_flow" =>
        /\ \A e, f \in pending : e = f
        /\ \A e \in pending, f \in Seen : chain[Last(f.path)].src \in Visited(Front(e.path))
        /\ \A e, f \in Seen : Last(e.path) = Last(f.path) => e = f

TraceInv ==
    /\ TraceTypeOK /\ TraceTyped /\ WithinBounds /\ ValueAccounted
    /\ EdgesApart /\ PendingIsOpen /\ OnePathWalked

TraceDone == phase \in {"sealed", "discarded"} /\ UNCHANGED traceVars

TraceSpec == TraceInit /\ [][TraceStep \/ TraceDone]_traceVars
=============================================================================
