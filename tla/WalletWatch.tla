---------------------------- MODULE WalletWatch ----------------------------
(* The wallet watches of one case: the watchlist with its capacity, the     *)
(* cycle that polls the watches that are due, the alerts of what it sees    *)
(* and what officers do to watches and alerts meanwhile.  A change of the   *)
(* watchlist reads its row, or the cycle all rows of the case, before its   *)
(* first write takes the lock of the database; it ranks what it loaded, and *)
(* writes the columns that it changed.  A poll waits for the provider       *)
(* between its reading and its writing.                                     *)
EXTENDS Naturals, FiniteSets, Sequences

CONSTANTS Officers,      \* requests that change the watchlist
          Addresses,     \* wallets, as numbers: of two that rank equally, the first
          ReportedAddress,
          HighValue,     \* addresses whose value reaches watch_hot_value_base
          Transfers,     \* [from, to, ts, reported] that may be confirmed
          WatchCap, PollLimit, DormantAfter,
          MaxRank, MaxWatchTime   \* bounds of the model

ASSUME WalletWatchAssumption ==
    /\ Addresses \subseteq Nat /\ IsFiniteSet(Addresses)
    /\ ReportedAddress \in Addresses /\ HighValue \subseteq Addresses
    /\ \A e \in Transfers : e.ts \in Nat
    /\ WatchCap \in Nat \ {0} /\ PollLimit \in Nat /\ DormantAfter \in Nat
    /\ MaxRank \in Nat /\ MaxWatchTime \in Nat \ {0}

VARIABLES time,
          caseOpen,   \* the stage is not one of CLOSED_CASE_STAGES
          traced,     \* addresses of the newest snapshot, {} before the first
          confirmed,  \* transfers the provider shows
          watches,    \* Addresses -> the row of its watch
          change,     \* Officers -> what the request has read and is to write
          overlapped, \* the last change met rows that differed from those it had loaded
          alerts,     \* [watch, event] -> the alert, for those there are
          extended,   \* events the graph of the case was extended by
          cycle       \* run_wallet_watch_cycle

watchVars == <<time, caseOpen, traced, confirmed, watches, change, overlapped, alerts, extended, cycle>>

listVars == <<watches, change, overlapped>>

-----------------------------------------------------------------------------
WatchStatuses == {"none", "active", "capacity_wait", "paused"}

(* A watch: rank is officer_priority, and a watch is pinned from rank 1.   *)
(* last is last_observed_ts_ms of the cursor; the recent references beside *)
(* it are all older than the time the next poll starts from.               *)
WalletWatch(status, rank, tier, now) ==
    [status |-> status, rank |-> rank, tier |-> tier, due |-> now,
     baseline |-> FALSE, last |-> 0, moved |-> 0]

NoWatch == WalletWatch("none", 0, "standard", 0)

NoChange == [pc |-> "idle"]

Watched(rows) == {a \in Addresses : rows[a].status # "none"}

NoCycle == [pc |-> "idle"]

WatchInit ==
    /\ time = 1
    /\ caseOpen = TRUE
    /\ traced = {} /\ confirmed = {}
    /\ watches = [a \in Addresses |-> NoWatch]
    /\ change = [o \in Officers |-> NoChange]
    /\ overlapped = FALSE
    /\ alerts = <<>> /\ extended = {}
    /\ cycle = NoCycle

-----------------------------------------------------------------------------
TierOrder(tier) == CASE tier = "hot" -> 0 [] tier = "standard" -> 1 [] tier = "cold" -> 2

TierFor(open, a, moved, now) ==
    IF ~open THEN "cold"
    ELSE IF a \in HighValue \/ (moved # 0 /\ now - moved < DormantAfter) THEN "hot"
    ELSE "standard"

(* When a watch polled at time t is due again; after the end is all one.   *)
DueAfter(t, tier) ==
    LET next == t + TierOrder(tier) + 1
    IN  IF next <= MaxWatchTime THEN next ELSE MaxWatchTime + 1

Better(rows, a, b) ==
    \/ rows[a].rank > rows[b].rank
    \/ /\ rows[a].rank = rows[b].rank
       /\ \/ TierOrder(rows[a].tier) < TierOrder(rows[b].tier)
          \/ rows[a].tier = rows[b].tier /\ a < b

(* _rebalance_watchlist                                                    *)
Rebalanced(rows) ==
    LET candidates == {a \in Watched(rows) : rows[a].status # "paused"}
        place(a) == Cardinality({b \in candidates : Better(rows, b, a)})
    IN  [a \in Addresses |->
           IF a \notin candidates THEN rows[a]
           ELSE [rows[a] EXCEPT !.status = IF place(a) < WatchCap THEN "active"
                                           ELSE "capacity_wait"]]

(* The columns in which a row of the session differs from the row as it    *)
(* was loaded are written; a row that was not there is inserted.           *)
Written(row, loaded, new) ==
    IF loaded.status = "none" THEN new
    ELSE [row EXCEPT !.status = IF new.status = loaded.status THEN @ ELSE new.status,
                     !.rank = IF new.rank = loaded.rank THEN @ ELSE new.rank,
                     !.tier = IF new.tier = loaded.tier THEN @ ELSE new.tier]

(* A change is flushed; what the session holds is ranked, and the ranking  *)
(* committed.                                                              *)
Relisted(loaded, changed) ==
    [a \in Addresses |-> Written(Written(watches[a], loaded[a], changed[a]),
                                 changed[a], Rebalanced(changed)[a])]

Overlap(loaded) ==
    \E a \in Addresses : \/ loaded[a].status # watches[a].status
                         \/ loaded[a].rank # watches[a].rank

HighestRank == CHOOSE n \in {watches[a].rank : a \in Addresses} :
                  \A a \in Addresses : watches[a].rank <= n

-----------------------------------------------------------------------------
(* What a request of an officer reads: the row of the watch, of which only *)
(* these columns are of use to it, and the highest rank there is.          *)
Read(a) == WalletWatch(watches[a].status, watches[a].rank, watches[a].tier, 0)

Prepare(o, a, row) ==
    /\ change[o] = NoChange
    /\ change' = [change EXCEPT ![o] = [pc |-> "read", address |-> a,
                                        loaded |-> Read(a), row |-> row]]
    /\ UNCHANGED <<time, caseOpen, traced, confirmed, watches, overlapped, alerts, extended, cycle>>

(* create_manual_watch, which also takes over and resumes an old watch.    *)
PinManually(o, a) ==
    /\ HighestRank < MaxRank
    /\ LET rank == HighestRank + 1
           tier == TierFor(caseOpen, ReportedAddress, 0, time)
       IN  Prepare(o, a, IF watches[a].status = "none" THEN WalletWatch("active", rank, tier, time)
                         ELSE [Read(a) EXCEPT !.rank = rank, !.status = "active"])

(* prioritize_watch: a paused watch comes back with it.                    *)
Prioritize(o, a) ==
    /\ watches[a].status # "none" /\ HighestRank < MaxRank
    /\ Prepare(o, a, [Read(a) EXCEPT !.rank = HighestRank + 1,
                                     !.status = IF @ = "paused" THEN "capacity_wait" ELSE @])

SetPaused(o, a, status) ==
    /\ watches[a].status # "none"
    /\ Prepare(o, a, [Read(a) EXCEPT !.status = status])

(* The capacity that the changed watch gives up is left to the next cycle. *)
CommitChangeAlone(o) ==
    /\ change[o] # NoChange
    /\ LET c == change[o]
           loaded == [watches EXCEPT ![c.address] = c.loaded]
       IN  IF c.loaded.status = "none" /\ watches[c.address].status # "none"
           THEN UNCHANGED <<watches, overlapped>>
           ELSE /\ watches' = [watches EXCEPT ![c.address] = Written(@, c.loaded, c.row)]
                /\ overlapped' = Overlap(loaded)
    /\ change' = [change EXCEPT ![o] = NoChange]
    /\ UNCHANGED <<time, caseOpen, traced, confirmed, alerts, extended, cycle>>

(* The second half of these three, in the lock: the other rows are read    *)
(* now.  The row that another request inserted first is not inserted again.*)
CommitChange(o) ==
    /\ change[o] # NoChange
    /\ LET c == change[o]
           loaded == [watches EXCEPT ![c.address] = c.loaded]
       IN  IF c.loaded.status = "none" /\ watches[c.address].status # "none"
           THEN UNCHANGED <<watches, overlapped>>
           ELSE /\ watches' = Relisted(loaded, [watches EXCEPT ![c.address] = c.row])
                /\ overlapped' = Overlap(loaded)
    /\ change' = [change EXCEPT ![o] = NoChange]
    /\ UNCHANGED <<time, caseOpen, traced, confirmed, alerts, extended, cycle>>

-----------------------------------------------------------------------------
(* transition_alert: the acknowledgement also marks the extension as seen. *)
Alert(state) == [state |-> state, back |-> "none", until |-> 0]

Transitions == {<<"unread", "read">>, <<"read", "acknowledged">>,
                <<"acknowledged", "dismissed">>, <<"acknowledged", "resolved">>}

SetAlert(k, alert) == alerts' = [alerts EXCEPT ![k] = alert]

Transition(k) ==
    /\ \E t \in Transitions : alerts[k].state = t[1] /\ SetAlert(k, Alert(t[2]))
    /\ UNCHANGED <<time, caseOpen, traced, confirmed, listVars, extended, cycle>>

Snooze(k) ==
    /\ alerts[k].state \in {"unread", "read", "acknowledged"}
    /\ SetAlert(k, [state |-> "snoozed", back |-> alerts[k].state, until |-> time + 1])
    /\ UNCHANGED <<time, caseOpen, traced, confirmed, listVars, extended, cycle>>

-----------------------------------------------------------------------------
(* synchronise_automatic_watches reads the case, its snapshot and all of   *)
(* its watches ...                                                         *)
StartCycle ==
    /\ cycle = NoCycle
    /\ cycle' = [pc |-> "reading", at |-> time, open |-> caseOpen, traced |-> traced,
                 loaded |-> watches]
    /\ UNCHANGED <<time, caseOpen, traced, confirmed, listVars, alerts, extended>>

(* ... and makes of a row what the case calls for.                         *)
Synchronized(a, row) ==
    IF ~cycle.open THEN [row EXCEPT !.tier = IF row.status \in {"none", "paused"} THEN @
                                             ELSE "cold"]
    ELSE IF a \notin cycle.traced THEN row
    ELSE IF row.status = "none"
    THEN WalletWatch("active", 0, TierFor(TRUE, a, 0, cycle.at), cycle.at)
    ELSE [row EXCEPT !.tier = IF row.status = "paused" THEN @
                              ELSE TierFor(TRUE, a, row.moved, cycle.at)]

(* A watch that was not there for the first reading is looked up again.    *)
Loaded(a) == IF cycle.loaded[a].status = "none" THEN watches[a] ELSE cycle.loaded[a]

(* The first commit of a cycle.                                            *)
Synchronize ==
    /\ cycle.pc = "reading"
    /\ LET loaded == [a \in Addresses |-> Loaded(a)]
       IN  /\ watches' = Relisted(loaded, [a \in Addresses |-> Synchronized(a, loaded[a])])
           /\ overlapped' = Overlap(loaded)
    /\ cycle' = [pc |-> "releasing", at |-> cycle.at]
    /\ UNCHANGED <<time, caseOpen, traced, confirmed, change, alerts, extended>>

(* A watch that is inserted between that lookup and the flush ends the     *)
(* cycle with an error.                                                    *)
SynchronizeRaises ==
    /\ cycle.pc = "reading" /\ cycle.open
    /\ \E a \in cycle.traced : cycle.loaded[a].status = "none" /\ watches[a].status # "none"
    /\ cycle' = NoCycle
    /\ UNCHANGED <<time, caseOpen, traced, confirmed, listVars, alerts, extended>>

(* release_snoozed_alerts, the second, and the watches that are due then.  *)
Due == {a \in Addresses : watches[a].status = "active" /\ watches[a].due <= cycle.at}

PollsBefore(a, b) ==
    \/ TierOrder(watches[a].tier) < TierOrder(watches[b].tier)
    \/ /\ watches[a].tier = watches[b].tier
       /\ \/ watches[a].rank > watches[b].rank
          \/ watches[a].rank = watches[b].rank /\ a < b

(* The due watches in the order of their polls, up to the limit.           *)
FirstDue ==
    LET n == Cardinality(Due)
    IN  {queue \in [1..(IF n <= PollLimit THEN n ELSE PollLimit) -> Due] :
           \A i \in DOMAIN queue, a \in Due :
              PollsBefore(a, queue[i]) <=> \E j \in 1..(i - 1) : queue[j] = a}

ReleaseAndSelect ==
    /\ cycle.pc = "releasing"
    /\ alerts' = [k \in DOMAIN alerts |->
                    IF alerts[k].state = "snoozed" /\ alerts[k].until <= cycle.at
                    THEN Alert(alerts[k].back) ELSE alerts[k]]
    /\ IF Due = {} \/ PollLimit = 0 THEN cycle' = NoCycle
       ELSE \E queue \in FirstDue :
               cycle' = [pc |-> "polling", at |-> cycle.at, queue |-> queue]
    /\ UNCHANGED <<time, caseOpen, traced, confirmed, listVars, extended>>

-----------------------------------------------------------------------------
(* poll_wallet_watch.  A watch an officer paused while others were polled  *)
(* is refused with an error that ends the cycle.                           *)
BeginPoll ==
    /\ cycle.pc = "polling"
    /\ cycle' = IF watches[Head(cycle.queue)].status = "active"
                THEN [cycle EXCEPT !.pc = "fetching"] ELSE NoCycle
    /\ UNCHANGED <<time, caseOpen, traced, confirmed, listVars, alerts, extended>>

Rest(queue) ==
    IF Len(queue) = 1 THEN NoCycle
    ELSE [pc |-> "polling", at |-> cycle.at, queue |-> Tail(queue)]

Polled == Head(cycle.queue)

(* What the provider has between the cursor and the start of the cycle.    *)
Observed(a) ==
    {e \in confirmed : a \in {e.from, e.to} /\ e.ts <= cycle.at /\ watches[a].last < e.ts}

New(a) == IF watches[a].baseline THEN Observed(a) ELSE {}

WasDormant(a) == watches[a].moved # 0 /\ cycle.at - watches[a].moved >= DormantAfter

(* classify_watch_trigger gives a reason.                                  *)
Triggers(a, e) == e.from = a \/ e.reported \/ WasDormant(a)

NewestTime(events, none) ==
    IF events = {} THEN none
    ELSE CHOOSE n \in {e.ts : e \in events} : \A e \in events : e.ts <= n

PolledWatch(a) ==
    LET moved == IF NewestTime(New(a), 0) > watches[a].moved THEN NewestTime(New(a), 0)
                 ELSE watches[a].moved
        tier == IF New(a) # {} THEN "hot" ELSE watches[a].tier
    IN  [watches[a] EXCEPT !.baseline = TRUE, !.moved = moved, !.tier = tier,
                           !.last = NewestTime(Observed(a), @), !.due = DueAfter(cycle.at, tier)]

(* _create_alert_and_extension for every hit.  The case takes one          *)
(* extension per transfer: a hit that another watch of the case had, or a  *)
(* case without a snapshot, fails the whole poll, and nobody catches it.   *)
PollSucceeds ==
    /\ cycle.pc = "fetching"
    /\ LET a == Polled hits == {e \in New(a) : Triggers(a, e)} IN
       /\ hits \cap extended = {} /\ (hits # {} => traced # {})
       /\ watches' = [watches EXCEPT ![a] = PolledWatch(a)]
       /\ alerts' = [k \in DOMAIN alerts \cup {<<a, e>> : e \in hits} |->
                       IF k \in DOMAIN alerts THEN alerts[k] ELSE Alert("unread")]
       /\ extended' = extended \cup hits
    /\ cycle' = Rest(cycle.queue)
    /\ UNCHANGED <<time, caseOpen, traced, confirmed, change, overlapped>>

PollRaises ==
    /\ cycle.pc = "fetching"
    /\ LET a == Polled hits == {e \in New(a) : Triggers(a, e)} IN
       hits \cap extended # {} \/ (hits # {} /\ traced = {})
    /\ cycle' = NoCycle
    /\ UNCHANGED <<time, caseOpen, traced, confirmed, listVars, alerts, extended>>

(* The provider fails: the cursor stays, the watch waits for its interval. *)
PollDeferred ==
    /\ cycle.pc = "fetching"
    /\ watches' = [watches EXCEPT ![Polled].due = DueAfter(cycle.at, watches[Polled].tier)]
    /\ cycle' = Rest(cycle.queue)
    /\ UNCHANGED <<time, caseOpen, traced, confirmed, change, overlapped, alerts, extended>>

-----------------------------------------------------------------------------
(* The world around: a transfer is confirmed, perhaps late; a trace ends;  *)
(* the case is closed; time passes.                                        *)
Confirm ==
    /\ \E e \in Transfers \ confirmed : e.ts <= time /\ confirmed' = confirmed \cup {e}
    /\ UNCHANGED <<time, caseOpen, traced, listVars, alerts, extended, cycle>>

TraceEnds ==
    /\ traced' \in {{ReportedAddress}, Addresses} /\ traced' # traced
    /\ UNCHANGED <<time, caseOpen, confirmed, listVars, alerts, extended, cycle>>

CloseCase ==
    /\ caseOpen /\ caseOpen' = FALSE
    /\ UNCHANGED <<time, traced, confirmed, listVars, alerts, extended, cycle>>

WatchTick ==
    /\ time < MaxWatchTime /\ time' = time + 1
    /\ UNCHANGED <<caseOpen, traced, confirmed, listVars, alerts, extended, cycle>>

WatchNext ==
    \/ \E o \in Officers, a \in Addresses :
          \/ PinManually(o, a) \/ Prioritize(o, a)
          \/ SetPaused(o, a, "paused") \/ SetPaused(o, a, "capacity_wait")
    \/ \E o \in Officers : CommitChange(o)
    \/ \E k \in DOMAIN alerts : Transition(k) \/ Snooze(k)
    \/ StartCycle \/ Synchronize \/ SynchronizeRaises \/ ReleaseAndSelect
    \/ BeginPoll \/ PollSucceeds \/ PollRaises \/ PollDeferred
    \/ Confirm \/ TraceEnds \/ CloseCase \/ WatchTick

WatchSpec == WatchInit /\ [][WatchNext]_watchVars

-----------------------------------------------------------------------------
Tiers == {"hot", "standard", "cold"}

WalletWatches ==
    [status : WatchStatuses, rank : 0..MaxRank, tier : Tiers, due : Nat, baseline : BOOLEAN,
     last : 0..time, moved : 0..time]

WatchChanges == [pc : {"read"}, address : Addresses, loaded : WalletWatches, row : WalletWatches]

WalletAlerts ==
    [state : {"unread", "read", "acknowledged", "dismissed", "resolved"}, back : {"none"},
     until : {0}]
    \cup [state : {"snoozed"}, back : {"unread", "read", "acknowledged"}, until : Nat]

Cycles ==
    {NoCycle}
    \cup [pc : {"reading"}, at : 1..time, open : BOOLEAN, traced : SUBSET Addresses,
          loaded : [Addresses -> WalletWatches]]
    \cup [pc : {"releasing"}, at : 1..time]
    \cup [pc : {"polling", "fetching"}, at : 1..time, queue : Seq(Addresses) \ {<<>>}]

WatchTypeOK ==
    /\ time \in 1..MaxWatchTime /\ caseOpen \in BOOLEAN
    /\ traced \subseteq Addresses /\ confirmed \subseteq Transfers /\ extended \subseteq confirmed
    /\ watches \in [Addresses -> WalletWatches]
    /\ change \in [Officers -> {NoChange} \cup WatchChanges] /\ overlapped \in BOOLEAN
    /\ alerts \in [DOMAIN alerts -> WalletAlerts]
    /\ cycle \in Cycles

(* The capacity is used up before a watch waits, it is never exceeded, and *)
(* the watch that officers rank higher is the one that is polled.  Changes *)
(* that overlap can break this; the next one that does not, of an officer  *)
(* or of the cycle, puts it right whatever they left, and no poll, trace   *)
(* or closing of the case undoes it.                                       *)
CapacityFollowsOfficers ==
    LET having(s) == {a \in Addresses : watches[a].status = s} IN
    ~overlapped =>
       /\ Cardinality(having("active")) <= WatchCap
       /\ having("capacity_wait") # {} => Cardinality(having("active")) = WatchCap
       /\ \A a \in having("capacity_wait"), b \in having("active") :
             watches[a].rank <= watches[b].rank

WatchInv == WatchTypeOK /\ CapacityFollowsOfficers
=============================================================================
