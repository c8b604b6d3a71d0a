--------------------------- MODULE TraceSnapshots ---------------------------
(* The snapshots of one case: get_or_create_trace with overlapping requests *)
(* that trace the case, trace it again or only look at it, the snapshot a   *)
(* watch hit adds, and the stage tracing gives the case (the notice        *)
(* handlers write it too).  A trace takes long: what a request read before *)
(* it is written after other requests committed.                          *)
EXTENDS Naturals, Sequences, SequencesExt

CONSTANTS Tracers,       \* requests in flight
          Params,        \* parameter sets a case is traced with
          MaxSnapshots   \* bound of the model

ASSUME TraceSnapshotsAssumption == MaxSnapshots \in Nat \ {0}

VARIABLES snapshots,  \* the rows of tracesnapshot by id
          caseStage,  \* Case.stage
          request,    \* Tracers -> what the request holds
          active      \* Tracers -> the snapshot of the officer's active case, or 0

snapshotVars == <<snapshots, caseStage, request, active>>

-----------------------------------------------------------------------------
(* A cache identity: of parameters, of one retrace, of one watch event.    *)
Identity(kind, of) == [kind |-> kind, of |-> of]

NoIdentity == Identity("none", 0)

(* The stages that the terminal of a trace gives its case.                 *)
Outcomes == {[failed |-> FALSE, stage |-> "custody_found"],
             [failed |-> FALSE, stage |-> "trace_incomplete"],
             [failed |-> TRUE, stage |-> "trace_failed"]}

(* cacheIdentity is the column, traced the identity in result_json.        *)
TraceSnapshot(key, traced, base, parent, outcome, again) ==
    [cacheIdentity |-> key, traced |-> traced, base |-> base, parent |-> parent,
     supersededBy |-> 0, failed |-> outcome.failed, stage |-> outcome.stage, again |-> again]

Idle == [pc |-> "idle"]

Tracing(p, again, shows, latest) ==
    [pc |-> "tracing", params |-> p, again |-> again, shows |-> shows,
     stale |-> latest, stageSeen |-> caseStage]

Ids == DOMAIN snapshots

Latest == Len(snapshots)

(* A database from before the cache_identity column holds a snapshot that  *)
(* has its identity only in the stored result.                             *)
SnapshotsInit ==
    /\ \/ snapshots = <<>> /\ caseStage = "intake"
       \/ \E p \in Params, outcome \in Outcomes :
             /\ snapshots = <<TraceSnapshot(NoIdentity, Identity("params", p), p, 0, outcome, FALSE)>>
             /\ caseStage = outcome.stage
    /\ request = [w \in Tracers |-> Idle]
    /\ active = [w \in Tracers |-> 0]

-----------------------------------------------------------------------------
(* _trace_by_cache_identity: by the column, then by the stored result.     *)
Keyed(key) == {i \in Ids : snapshots[i].cacheIdentity = key}

Legacy(key) == {i \in Ids : snapshots[i].traced = key}

Newest(ids) == CHOOSE i \in ids : \A j \in ids : j <= i

(* The docket and the case forms make the snapshot the officer's active    *)
(* one; the API does not.                                                  *)
Shown(w, shows, i) == active' = IF shows THEN [active EXCEPT ![w] = i] ELSE active

FoundKeyed(w, key, shows) ==
    /\ Keyed(key) # {}
    /\ Shown(w, shows, Newest(Keyed(key)))
    /\ UNCHANGED snapshots

FoundLegacy(w, key, shows) ==
    /\ Keyed(key) = {} /\ Legacy(key) # {}
    /\ snapshots' = [snapshots EXCEPT ![Newest(Legacy(key))].cacheIdentity = key]
    /\ Shown(w, shows, Newest(Legacy(key)))

(* A request for the trace of these parameters finds it or starts it.      *)
OpenCase(w, p, shows) ==
    /\ request[w] = Idle
    /\ LET key == Identity("params", p) IN
       \/ /\ FoundKeyed(w, key, shows) \/ FoundLegacy(w, key, shows)
          /\ UNCHANGED <<caseStage, request>>
       \/ /\ Keyed(key) \cup Legacy(key) = {}
          /\ request' = [request EXCEPT ![w] = Tracing(p, FALSE, shows, Latest)]
          /\ UNCHANGED <<snapshots, caseStage, active>>

(* Tracing again keeps the parameters of the snapshot the officer is on.   *)
Retrace(w, i) ==
    /\ request[w] = Idle
    /\ request' = [request EXCEPT ![w] = Tracing(snapshots[i].base, TRUE, TRUE, Latest)]
    /\ UNCHANGED <<snapshots, caseStage, active>>

-----------------------------------------------------------------------------
(* A trace that was asked for again always replaces the one before it.     *)
FailedRetraceIgnored(r, outcome) == FALSE

(* A retrace that failed replaces nothing.                                 *)
FailedRetrace(r, outcome) == r.again /\ r.stale # 0 /\ outcome.failed

(* The stage is written only if it differs from the one that was loaded.   *)
StageWritten(r, outcome) ==
    IF FailedRetrace(r, outcome) \/ outcome.stage = r.stageSeen THEN caseStage ELSE outcome.stage

Sealed(w, r, outcome) ==
    LET id == Latest + 1
        key == IF r.again THEN Identity("retrace", id) ELSE Identity("params", r.params)
        replaced == r.stale # 0 /\ ~FailedRetrace(r, outcome)
        row == TraceSnapshot(key, key, r.params, r.stale, outcome, r.again)
    IN  /\ Keyed(key) = {}
        /\ snapshots' = Append(IF replaced THEN [snapshots EXCEPT ![r.stale].supersededBy = id]
                               ELSE snapshots, row)
        /\ caseStage' = StageWritten(r, outcome)
        /\ Shown(w, r.shows /\ ~(r.again /\ outcome.failed), id)

(* The identity was taken in the meantime: the trace is thrown away and    *)
(* the request answers with the one that came first.                       *)
Concurrent(w, r) ==
    LET key == Identity("params", r.params) IN
    /\ ~r.again /\ FoundKeyed(w, key, r.shows)
    /\ UNCHANGED caseStage

SealSnapshot(w, outcome) ==
    /\ request[w].pc = "tracing" /\ Latest < MaxSnapshots
    /\ Sealed(w, request[w], outcome) \/ Concurrent(w, request[w])
    /\ request' = [request EXCEPT ![w] = Idle]

(* Another constraint is hit, an exception is not caught, the process dies. *)
TraceLost(w) ==
    /\ request[w].pc = "tracing"
    /\ request' = [request EXCEPT ![w] = Idle]
    /\ UNCHANGED <<snapshots, caseStage, active>>

-----------------------------------------------------------------------------
(* _create_alert_and_extension: a copy of the newest snapshot, with its    *)
(* status and its stored identity, that replaces it.                       *)
Extend ==
    /\ snapshots # <<>> /\ Latest < MaxSnapshots
    /\ LET parent == Last(snapshots) id == Latest + 1 IN
       snapshots' = Append([snapshots EXCEPT ![Latest].supersededBy = id],
                           [parent EXCEPT !.cacheIdentity = Identity("watch", Latest),
                                          !.parent = Latest, !.supersededBy = 0,
                                          !.again = FALSE])
    /\ UNCHANGED <<caseStage, request, active>>

Promoted(i) ==
    LET s == snapshots[i] IN
    s.parent # 0 /\ s.failed => snapshots[s.parent].supersededBy = i

(* trace_view *)
ViewTrace(w, i) ==
    /\ request[w] = Idle /\ Promoted(i)
    /\ active' = [active EXCEPT ![w] = i]
    /\ UNCHANGED <<snapshots, caseStage, request>>

TracerStep(w) ==
    \/ \E p \in Params, shows \in BOOLEAN : OpenCase(w, p, shows)
    \/ \E i \in Ids : Retrace(w, i) \/ ViewTrace(w, i)
    \/ \E outcome \in Outcomes : SealSnapshot(w, outcome)
    \/ TraceLost(w)

SnapshotsNext == Extend \/ \E w \in Tracers : TracerStep(w)

SnapshotsSpec == SnapshotsInit /\ [][SnapshotsNext]_snapshotVars

-----------------------------------------------------------------------------
Stages == {"intake", "custody_found", "trace_incomplete", "trace_failed"}

Identities == [kind : {"params"}, of : Params] \cup [kind : {"none", "retrace", "watch"}, of : Nat]

Snapshots == [cacheIdentity : Identities, traced : Identities, base : Params, parent : Nat,
              supersededBy : Nat, failed : BOOLEAN, stage : Stages, again : BOOLEAN]

Traces == [pc : {"tracing"}, params : Params, again : BOOLEAN, shows : BOOLEAN,
           stale : 0..Latest, stageSeen : Stages]

SnapshotsTypeOK ==
    /\ snapshots \in Seq(Snapshots) /\ Latest <= MaxSnapshots
    /\ \A i \in Ids : snapshots[i].parent < i /\ snapshots[i].supersededBy <= Latest
    /\ caseStage \in Stages
    /\ request \in [Tracers -> {Idle} \cup Traces]
    /\ active \in [Tracers -> 0..Latest]

RetraceFailed(i) == snapshots[i].again /\ snapshots[i].failed

(* Whatever overlaps, one trace exists per identity, a snapshot is         *)
(* replaced only by a later one that started from it, and a retrace that   *)
(* failed neither replaces the good snapshot, nor becomes an active case,  *)
(* nor gives the case its stage.                                           *)
FailureDisplacesNothing ==
    /\ \A i, j \in Ids :
          snapshots[i].cacheIdentity = snapshots[j].cacheIdentity => i = j
    /\ \A i \in Ids :
          LET next == snapshots[i].supersededBy IN
          next # 0 => next > i /\ snapshots[next].parent = i /\ ~RetraceFailed(next)
    /\ \A w \in Tracers : active[w] # 0 => ~RetraceFailed(active[w])
    /\ \/ caseStage = "intake"
       \/ \E i \in Ids : snapshots[i].stage = caseStage /\ ~RetraceFailed(i)

(* What makes FailureDisplacesNothing inductive: a snapshot of a retrace   *)
(* is found under no parameters and started from another one, as the       *)
(* retrace in flight did; and the extension of a snapshot is the next one, *)
(* so that no two have the same identity.                                  *)
RetraceIsApart ==
    /\ \A i \in Ids : snapshots[i].again =>
          /\ snapshots[i].cacheIdentity.kind = "retrace" /\ snapshots[i].traced.kind = "retrace"
          /\ snapshots[i].parent # 0
    /\ \A w \in Tracers : request[w].pc = "tracing" /\ request[w].again => request[w].stale # 0

ExtensionIsNext ==
    \A i \in Ids : snapshots[i].cacheIdentity.kind = "watch" => snapshots[i].cacheIdentity.of < i

SnapshotsInv == SnapshotsTypeOK /\ FailureDisplacesNothing /\ RetraceIsApart /\ ExtensionIsNext
=============================================================================
