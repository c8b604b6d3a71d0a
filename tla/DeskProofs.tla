------------------------------ MODULE DeskProofs ------------------------------
(***************************************************************************)
(* Proofs about the components of an officer's desk: DispatchSla, for any  *)
(* set of officers, any window and any bounds on the clock and the         *)
(* escalations; OfficerSessions, for any pages, rows and requests, any     *)
(* overlaps, and any intervals that are ordered as those of the settings;  *)
(* and PresenceMonitor, for any stock of handles, any absence, grace and   *)
(* number of errors.                                                       *)
(***************************************************************************)
EXTENDS MCDesk, TLAPS

-----------------------------------------------------------------------------
(* Dispatch and SLA.                                                        *)
USE DispatchAssumption

LEMMA StampTyped ==
    /\ -1 \in Stamp /\ Stamp \subseteq Int
    /\ \A c \in 0..MaxTime : c + Window \in Stamp
  BY DEF Stamp

LEMMA NoRecordTyped == NoRecord \in DispatchRecord
  BY StampTyped DEF NoRecord, DispatchRecord, Stages

LEMMA DispatchInitInvariant == DispatchInit => DispatchInv
  <1> SUFFICES ASSUME DispatchInit PROVE DispatchInv
    OBVIOUS
  <1>1. DispatchTypeOK
    BY NoRecordTyped DEF DispatchInit, DispatchTypeOK, ManualStatuses
  <1>2. ViewIsOlder /\ BreachIsLate
    BY DEF DispatchInit, ViewIsOlder, BreachIsLate, NoRecord
  <1>3. QED
    BY <1>1, <1>2 DEF DispatchInv

-----------------------------------------------------------------------------
(* The SLA columns of a record that a handler may write: a deadline or what*)
(* was left of it is set only where there is none, and a breach stays.     *)
Kept(old, new) ==
    /\ new \in DispatchRecord
    /\ old.due # -1 => new.due = old.due
    /\ old.frozen # -1 => new.frozen = old.frozen
    /\ new.breach = old.breach

LEMMA EnsuredKept ==
    ASSUME DispatchTypeOK
    PROVE  Kept(record, Ensured)
  <1>1. record \in DispatchRecord /\ assignedIo \in Officers
    BY DEF DispatchTypeOK
  <1>2. CASE Exists
    BY <1>1, <1>2 DEF Ensured, Kept
  <1>3. CASE ~Exists
    <2>1. Ensured = [NoRecord EXCEPT !.stage = "drafted", !.owner = assignedIo]
      BY <1>3 DEF Ensured
    <2>2. ASSUME NEW r \in DispatchRecord, NEW o \in Officers, NEW st \in Stages
          PROVE  Kept(r, [r EXCEPT !.stage = st, !.owner = o])
      BY DEF Kept, DispatchRecord
    <2>3. record = NoRecord /\ "drafted" \in Stages
      BY <1>3 DEF Exists, Stages, ManualStatuses
    <2>4. QED
      BY <1>1, <2>1, <2>2, <2>3
  <1>4. QED
    BY <1>2, <1>3

(* set_dispatch_stage.                                                     *)
LEMMA StagedKept ==
    ASSUME NEW r \in DispatchRecord, NEW stage \in Stages, clock \in 0..MaxTime
    PROVE  Kept(r, Staged(r, stage))
  <1>1. /\ Remaining(r) \in Stamp /\ clock + Window \in Stamp
        /\ r.due \in Stamp /\ r.frozen \in Stamp
    BY StampTyped DEF Remaining, DispatchRecord, Stamp
  <1>2. PICK due \in Stamp, frozen \in Stamp :
          /\ Staged(r, stage) = [r EXCEPT !.stage = stage, !.due = due, !.frozen = frozen]
          /\ r.due # -1 => due = r.due
          /\ r.frozen # -1 => frozen = r.frozen
    BY <1>1 DEF Staged
  <1>3. QED
    BY <1>2 DEF Kept, DispatchRecord

(* Every action keeps the columns of the record, but for the page that     *)
(* registers a breach.                                                     *)
LEMMA RecordKept ==
    ASSUME DispatchTypeOK,
           \/ RouteRecord \/ DispatchNotice \/ UpdateStatus \/ Escalate \/ ReassignIo
    PROVE  Kept(record, record')
  <1>1. record \in DispatchRecord /\ clock \in 0..MaxTime /\ Kept(record, record)
    BY DEF DispatchTypeOK, Kept
  <1>2. Kept(record, Ensured) /\ Ensured \in DispatchRecord
    BY EnsuredKept DEF Kept
  <1>3. CASE RouteRecord
    <2>1. PICK stage \in Stages : record' = [Ensured EXCEPT !.stage = stage]
      BY <1>3 DEF RouteRecord, Stages
    <2>2. QED
      BY <1>2, <2>1 DEF Kept, DispatchRecord
  <1>4. CASE DispatchNotice
    <2>1. CASE Ensured.due # -1
      BY <1>1, <1>4, <2>1 DEF DispatchNotice
    <2>2. CASE Ensured.due = -1
      <3>1. PICK due \in Stamp, stage \in Stages :
              record' = [Ensured EXCEPT !.due = due, !.stage = stage]
        BY <1>1, <1>4, <2>2, StampTyped DEF DispatchNotice, Stages, ManualStatuses
      <3>2. record.due = -1
        BY <1>2, <2>2 DEF Kept
      <3>3. QED
        BY <1>2, <3>1, <3>2 DEF Kept, DispatchRecord
    <2>3. QED
      BY <2>1, <2>2
  <1>5. CASE UpdateStatus
    <2>1. PICK status \in Stages : record' \in {Staged(record, status), record}
      BY <1>5 DEF UpdateStatus, Stages
    <2>2. QED
      BY <1>1, <2>1, StagedKept
  <1>6. CASE Escalate
    <2>1. CASE record' = record
      BY <1>1, <2>1
    <2>2. CASE record' # record
      <3>1. PICK owner \in Officers : record.level < MaxLevel /\ EscalateDispatch(owner)
        BY <1>6, <2>2 DEF Escalate
      <3>2. record.level + 1 \in 0..MaxLevel /\ "escalated" \in Stages
        BY <1>1, <3>1 DEF DispatchRecord, Stages, ManualStatuses
      <3>3. PICK level \in 0..MaxLevel, stage \in Stages :
              record' = [record EXCEPT !.owner = owner, !.level = level, !.stage = stage]
        BY <3>1, <3>2 DEF EscalateDispatch
      <3>4. QED
        BY <1>1, <3>3 DEF Kept, DispatchRecord
    <2>3. QED
      BY <2>1, <2>2
  <1>7. CASE ReassignIo
    <2>1. PICK owner \in Officers : record' = [record EXCEPT !.owner = owner]
      BY <1>1, <1>7 DEF ReassignIo, DispatchRecord
    <2>2. QED
      BY <1>1, <2>1 DEF Kept, DispatchRecord
  <1>8. QED
    BY <1>3, <1>4, <1>5, <1>6, <1>7

(* The page finds a breach with the deadline it loaded, which is still that*)
(* of the record.                                                          *)
LEMMA BreachStep ==
    ASSUME DispatchInv, RegisterBreach
    PROVE  /\ record' \in DispatchRecord
           /\ record'.due = record.due /\ record'.frozen = record.frozen
           /\ record.breach => record'.breach
           /\ record'.breach => record.due # -1 /\ clock > record.due
  <1>1. record \in DispatchRecord /\ ViewIsOlder /\ BreachIsLate /\ view # NoView
    BY DEF DispatchInv, DispatchTypeOK, RegisterBreach
  <1>2. CASE Breached(view)
    <2>1. record' = [record EXCEPT !.breach = TRUE]
      BY <1>2 DEF RegisterBreach
    <2>2. record.due # -1 /\ clock > record.due
      BY <1>1, <1>2 DEF Breached, ViewIsOlder
    <2>3. QED
      BY <1>1, <2>1, <2>2 DEF DispatchRecord
  <1>3. CASE ~Breached(view)
    BY <1>1, <1>3 DEF RegisterBreach, BreachIsLate
  <1>4. QED
    BY <1>2, <1>3

(* What the register shows of a late record.                               *)
LEMMA LateIsShown == DispatchInv => BreachIsShown
  <1> SUFFICES ASSUME DispatchInv, record.breach
               PROVE  /\ record.due # -1 /\ clock > record.due
                      /\ record.frozen = -1 => SlaTone = "red"
                      /\ EffectiveStatus \in {"overdue", "escalated", "responded"}
    BY DEF BreachIsShown
  <1>1. record.due # -1 /\ clock > record.due /\ record.due \in Int /\ clock \in Int
    <2>1. record \in DispatchRecord /\ clock \in 0..MaxTime /\ BreachIsLate
      BY DEF DispatchInv, DispatchTypeOK
    <2>2. record.due \in Stamp
      BY <2>1 DEF DispatchRecord
    <2>3. record.due # -1 /\ clock > record.due
      BY <2>1, Zenon DEF BreachIsLate
    <2>4. QED
      BY <2>1, <2>2, <2>3 DEF Stamp
  <1>2. ASSUME record.frozen = -1
        PROVE  SlaTone = "red"
    <2>1. SlaRemaining = record.due - clock
      BY <1>1, <1>2 DEF SlaRemaining
    <2>2. SlaRemaining < 0
      BY <1>1, <2>1
    <2>3. QED
      BY <2>2 DEF SlaTone
  <1>3. EffectiveStatus \in {"overdue", "escalated", "responded"}
    BY <1>1 DEF EffectiveStatus
  <1>4. QED
    BY <1>1, <1>2, <1>3

LEMMA TypeStep ==
    ASSUME DispatchTypeOK, record' \in DispatchRecord, [DispatchNext]_dispatchVars
    PROVE  DispatchTypeOK'
  <1>1. clock' \in 0..MaxTime
    BY DEF DispatchTypeOK, DispatchNext, RouteRecord, DispatchNotice, UpdateStatus, Escalate,
           ReassignIo, ResetNotice, LoadRegister, RegisterBreach, DispatchTick, dispatchVars
  <1>2. tracker' \in ManualStatuses
    BY DEF DispatchTypeOK, ManualStatuses, DispatchNext, RouteRecord, DispatchNotice, UpdateStatus,
           Escalate, ReassignIo, ResetNotice, LoadRegister, RegisterBreach, DispatchTick,
           dispatchVars
  <1>3. assignedIo' \in Officers
    BY DEF DispatchTypeOK, DispatchNext, RouteRecord, DispatchNotice, UpdateStatus, Escalate,
           ReassignIo, ResetNotice, LoadRegister, RegisterBreach, DispatchTick, dispatchVars
  <1>4. escalations' \subseteq [level: 1..MaxLevel, to: Officers]
    <2>1. CASE UNCHANGED escalations
      BY <2>1 DEF DispatchTypeOK
    <2>2. CASE ~UNCHANGED escalations
      <3>1. Escalate
        BY <2>2 DEF DispatchNext, RouteRecord, DispatchNotice, UpdateStatus, ReassignIo,
                    ResetNotice, LoadRegister, RegisterBreach, DispatchTick, dispatchVars
      <3>2. PICK owner \in Officers : record.level < MaxLevel /\ EscalateDispatch(owner)
        BY <2>2, <3>1 DEF Escalate
      <3>3. record.level + 1 \in 1..MaxLevel
        BY <3>2 DEF DispatchTypeOK, DispatchRecord
      <3>4. QED
        BY <3>2, <3>3 DEF DispatchTypeOK, EscalateDispatch
    <2>3. QED
      BY <2>1, <2>2
  <1>5. QED
    BY <1>1, <1>2, <1>3, <1>4 DEF DispatchTypeOK

(* A step keeps the invariant and what SlaClockSetOnce says of a step.     *)
LEMMA DispatchStepInvariant ==
    ASSUME DispatchInv, [DispatchNext]_dispatchVars
    PROVE  /\ DispatchInv'
           /\ record.due # -1 => record'.due = record.due
           /\ record.frozen # -1 => record'.frozen = record.frozen
           /\ record.breach => record'.breach
  <1>1. /\ DispatchTypeOK /\ ViewIsOlder /\ BreachIsLate
        /\ record \in DispatchRecord /\ clock \in 0..MaxTime /\ clock' \in 0..MaxTime
        /\ clock' >= clock
    BY DEF DispatchInv, DispatchTypeOK, DispatchNext, RouteRecord, DispatchNotice, UpdateStatus,
           Escalate, ReassignIo, ResetNotice, LoadRegister, RegisterBreach, DispatchTick,
           dispatchVars
  <1>2. /\ record' \in DispatchRecord
        /\ record.due # -1 => record'.due = record.due
        /\ record.frozen # -1 => record'.frozen = record.frozen
        /\ record.breach => record'.breach
        /\ record'.breach => record.due # -1 /\ clock > record.due
    <2>1. CASE RouteRecord \/ DispatchNotice \/ UpdateStatus \/ Escalate \/ ReassignIo
      BY <1>1, <2>1, RecordKept DEF Kept, BreachIsLate
    <2>2. CASE RegisterBreach
      BY <2>2, BreachStep
    <2>3. CASE ResetNotice \/ LoadRegister \/ DispatchTick \/ UNCHANGED dispatchVars
      BY <1>1, <2>3 DEF ResetNotice, LoadRegister, DispatchTick, dispatchVars, BreachIsLate
    <2>4. QED
      BY <2>1, <2>2, <2>3 DEF DispatchNext
  <1>3. DispatchTypeOK'
    BY <1>1, <1>2, TypeStep
  <1>4. BreachIsLate'
    <2>1. record.due \in Int
      BY <1>1, StampTyped DEF DispatchRecord
    <2>2. QED
      BY <1>1, <1>2, <2>1 DEF BreachIsLate
  <1>5. ViewIsOlder'
    <2>1. CASE LoadRegister
      BY <1>1, <2>1 DEF LoadRegister, SlaColumns, ViewIsOlder, DispatchRecord
    <2>2. CASE view' \in {view, NoView}
      BY <1>1, <1>2, <2>2 DEF ViewIsOlder
    <2>3. QED
      BY <2>1, <2>2 DEF DispatchNext, RouteRecord, DispatchNotice, UpdateStatus, Escalate,
                        ReassignIo, ResetNotice, RegisterBreach, DispatchTick, dispatchVars
  <1>6. QED
    BY <1>2, <1>3, <1>4, <1>5 DEF DispatchInv

LEMMA DispatchInvariant == DispatchSpec => []DispatchInv
  <1>1. DispatchInv /\ [DispatchNext]_dispatchVars => DispatchInv'
    BY DispatchStepInvariant
  <1>2. QED
    BY DispatchInitInvariant, <1>1, PTL DEF DispatchSpec

(* The record, the tracker status and the escalations keep their types.    *)
THEOREM DispatchTypeCorrect == DispatchSpec => []DispatchTypeOK
  <1>1. DispatchInv => DispatchTypeOK
    BY DEF DispatchInv
  <1>2. QED
    BY DispatchInvariant, <1>1, PTL

(* No handler of the register, no second dispatch, no logout and no page   *)
(* that loaded the record earlier moves a deadline that is set, thaws what *)
(* set_dispatch_stage froze, or takes a breach back.                       *)
THEOREM ClockSetOnce == DispatchSpec => SlaClockSetOnce
  <1>1. DispatchInv /\ [DispatchNext]_dispatchVars =>
           [/\ record.due # -1 => record'.due = record.due
            /\ record.frozen # -1 => record'.frozen = record.frozen
            /\ record.breach => record'.breach]_dispatchVars
    BY DispatchStepInvariant
  <1>2. QED
    BY DispatchInvariant, <1>1, PTL DEF DispatchSpec, SlaClockSetOnce

(* A breach the register page committed is of a dispatched and late record,*)
(* and the row shows it as late whatever was done to it since.             *)
THEOREM BreachShown == DispatchSpec => []BreachIsShown
  BY DispatchInvariant, LateIsShown, PTL

HIDE DispatchAssumption

-----------------------------------------------------------------------------
(* Officer sessions.                                                        *)
USE SessionAssumption

LEMMA ClosedTyped ==
    /\ ClosedPage \in Page /\ ~ClosedPage.open
    /\ NoCall \in SessionRequest /\ NoCall.kind = "none" /\ NoCall.step = "none"
    /\ NoCall.tab = "none"
  BY DEF ClosedPage, Page, NoCall, SessionRequest

LEMMA LoadedTyped ==
    ASSUME NEW r \in Rows
    PROVE  /\ LoadedPage(r) \in Page /\ LoadedPage(r).open /\ LoadedPage(r).under = r
  <1>1. ASSUME NEW pg \in Page, NEW u \in Rows \cup {"none"}
        PROVE  /\ [pg EXCEPT !.open = TRUE, !.under = u] \in Page
               /\ [pg EXCEPT !.open = TRUE, !.under = u].open
               /\ [pg EXCEPT !.open = TRUE, !.under = u].under = u
    BY DEF Page
  <1>2. QED
    BY <1>1, ClosedTyped DEF LoadedPage

LEMMA CallTyped ==
    ASSUME cookie \in Rows \cup {"none"}, tab \in [Tabs -> Page], NEW t \in Tabs,
           NEW kind \in {"page", "extend", "resume", "logout", "logoutAll"},
           NEW step \in {"load", "end"}, NEW reason \in {"none", "idle_timeout", "officer_signout"}
    PROVE  /\ Call(kind, t, step, reason) \in SessionRequest
           /\ Call(kind, t, step, reason).kind = kind
           /\ Call(kind, t, step, reason).tab = t
           /\ Call(kind, t, step, reason).step = step
           /\ Call(kind, t, step, reason).csrf = tab[t].under
  BY DEF Call, NoCall, SessionRequest, Page

LEMMA SessionInitInvariant == SessionInit => SessionInv
  <1> SUFFICES ASSUME SessionInit PROVE SessionInv
    OBVIOUS
  <1>1. SessionTypeOK
    <2>1. row \in [Rows -> OfficerSession]
      BY DEF SessionInit, OfficerSession
    <2>2. tab \in [Tabs -> Page]
      BY ClosedTyped DEF SessionInit
    <2>3. \A q \in Requests : call[q].row \in Rows \cup {"none"} /\ call[q].rows \subseteq Rows
      BY DEF SessionInit, NoCall
    <2>4. QED
      BY <2>1, <2>2, <2>3 DEF SessionInit, SessionTypeOK
  <1>2. /\ call \in [Requests -> SessionRequest]
        /\ \A q \in Requests : call[q].kind = "none" /\ call[q].step = "none"
    BY ClosedTyped DEF SessionInit
  <1>3. HandledIsTouched /\ SenderIsOpen
    BY <1>2 DEF HandledIsTouched, SenderIsOpen
  <1>4. OpenIsNear
    BY ClosedTyped DEF SessionInit, OpenIsNear
  <1>5. QED
    BY <1>1, <1>2, <1>3, <1>4 DEF SessionInv

-----------------------------------------------------------------------------
(* While requests are served, the expiry of a row moves on only.           *)
RowsGrow ==
    /\ row' \in [Rows -> OfficerSession]
    /\ \A r \in Rows : row'[r].left >= row[r].left

LEMMA RowsTouched ==
    ASSUME SessionTypeOK, RowsGrow
    PROVE  /\ \A r \in Rows \cup {"none"} : JustTouched(row, r) => JustTouched(row', r)
           /\ \A pg \in Page : NearDeadline(row, pg) => NearDeadline(row', pg)
  <1>1. /\ row \in [Rows -> OfficerSession] /\ row' \in [Rows -> OfficerSession]
        /\ \A r \in Rows : /\ row[r].left \in 0..Timeout /\ row'[r].left \in 0..Timeout
                           /\ row'[r].left >= row[r].left
    BY DEF SessionTypeOK, RowsGrow, OfficerSession
  <1>2. ASSUME NEW r \in Rows, row[r].left = Timeout
        PROVE  row'[r].left = Timeout
    <2>1. row'[r].left \in 0..Timeout /\ row'[r].left >= Timeout
      BY <1>1, <1>2
    <2>2. QED
      BY <2>1
  <1>3. ASSUME NEW pg \in Page, NearDeadline(row, pg)
        PROVE  NearDeadline(row', pg)
    <2>1. pg.idle \in Int /\ pg.touch \in Int
      BY DEF Page
    <2>2. QED
      BY <1>1, <1>3, <2>1 DEF NearDeadline
  <1>4. QED
    BY <1>2, <1>3 DEF JustTouched

LEMMA RowsLeft ==
    ASSUME SessionTypeOK, row' = row
    PROVE  RowsGrow
  BY DEF SessionTypeOK, RowsGrow, OfficerSession

(* A touched row is at no page's deadline.                                 *)
LEMMA TouchedIsNear ==
    ASSUME NEW pg \in Page, JustTouched(row, pg.under)
    PROVE  NearDeadline(row, pg)
  BY DEF Page, JustTouched, NearDeadline

LEMMA CallsTyped ==
    ASSUME call \in [Requests -> SessionRequest]
    PROVE  \A q \in Requests : call[q].row \in Rows \cup {"none"} /\ call[q].rows \subseteq Rows
  BY DEF SessionRequest

-----------------------------------------------------------------------------
(* A request goes on to its next step, and is not answered yet.            *)
LEMMA Advanced ==
    ASSUME SessionInv, NEW q \in Requests, RowsGrow, tab' = tab, cookie' = cookie,
           NEW new \in SessionRequest, call' = [call EXCEPT ![q] = new],
           new.kind = call[q].kind, new.tab = call[q].tab,
           new.csrf = call[q].csrf, new.row = call[q].row,
           new.step \in {"resolve", "handler"} => call[q].row \in Rows,
           new.step = "handler" => JustTouched(row', call[q].row)
    PROVE  SessionInv'
  <1>1. /\ SessionTypeOK /\ call \in [Requests -> SessionRequest]
        /\ HandledIsTouched /\ SenderIsOpen /\ OpenIsNear
        /\ call' \in [Requests -> SessionRequest] /\ call'[q] = new
        /\ \A p \in Requests \ {q} : call'[p] = call[p]
    BY DEF SessionInv
  <1>2. /\ \A r \in Rows \cup {"none"} : JustTouched(row, r) => JustTouched(row', r)
        /\ \A pg \in Page : NearDeadline(row, pg) => NearDeadline(row', pg)
    BY <1>1, RowsTouched
  <1>3. \A p \in Requests : call[p].row \in Rows \cup {"none"}
    BY <1>1, CallsTyped
  <1>4. \A t \in Tabs : tab[t] \in Page /\ tab[t].under \in Rows \cup {"none"}
    BY <1>1 DEF SessionTypeOK, Page
  <1>5. HandledIsTouched'
    BY <1>1, <1>2, <1>3 DEF HandledIsTouched, JustTouched
  <1>6. SenderIsOpen'
    BY <1>1, <1>2, <1>4 DEF SenderIsOpen, JustTouched
  <1>7. OpenIsNear'
    BY <1>1, <1>2, <1>4 DEF OpenIsNear, NearDeadline, Reporting
  <1>8. SessionTypeOK'
    BY <1>1 DEF SessionTypeOK, RowsGrow, SessionRequest
  <1>9. QED
    BY <1>5, <1>6, <1>7, <1>8 DEF SessionInv

(* An answer ends its request; the page that was waiting is gone, or is    *)
(* under a row that was touched just now.                                  *)
LEMMA Answered ==
    ASSUME SessionInv, NEW q \in Requests, RowsGrow,
           NEW c \in Rows \cup {"none"}, NEW pg \in Page, Answer(q, c, pg),
           call[q].tab # "none" /\ pg.open => JustTouched(row, pg.under)
    PROVE  SessionInv'
  <1> DEFINE t == call[q].tab
  <1>1. /\ SessionTypeOK /\ call \in [Requests -> SessionRequest]
        /\ HandledIsTouched /\ SenderIsOpen /\ OpenIsNear
    BY DEF SessionInv
  <1>2. /\ \A r \in Rows \cup {"none"} : JustTouched(row, r) => JustTouched(row', r)
        /\ \A p \in Page : NearDeadline(row, p) => NearDeadline(row', p)
    BY <1>1, RowsTouched
  <1>3. /\ \A p \in Requests : /\ call[p] \in SessionRequest
                               /\ call[p].row \in Rows \cup {"none"}
                               /\ call[p].tab \in Tabs \cup {"none"}
        /\ \A u \in Tabs : tab[u] \in Page /\ tab[u].under \in Rows \cup {"none"}
        /\ pg.under \in Rows \cup {"none"} /\ "none" \notin Tabs
    BY <1>1 DEF SessionTypeOK, Page, SessionRequest
  <1>4. /\ tab' = IF t = "none" THEN tab ELSE [tab EXCEPT ![t] = pg]
        /\ cookie' = c
        /\ call' = [p \in Requests |->
                      IF p = q THEN NoCall
                      ELSE IF t # "none" /\ ~pg.open THEN Abandoned(call[p], t)
                      ELSE call[p]]
    BY DEF Answer
  <1>5. ASSUME NEW p \in Requests
        PROVE  /\ call'[p] \in SessionRequest
               /\ call'[p].kind \in {call[p].kind, "none"} /\ call'[p].step \in {call[p].step, "none"}
               /\ call'[p].tab \in {call[p].tab, "none"}
               /\ call'[p].kind # "none" => call'[p].row = call[p].row /\ call'[p].csrf = call[p].csrf
               /\ call'[p].step # "none" => call'[p].row = call[p].row
               /\ t # "none" /\ ~pg.open => call'[p].tab # t
               /\ p # q /\ call[p].tab # t => call'[p] = call[p]
    <2>1. [call[p] EXCEPT !.tab = "none"] \in SessionRequest
      BY <1>3 DEF SessionRequest
    <2>2. CASE p = q
      BY <1>4, <2>2, ClosedTyped
    <2>3. CASE p # q
      <3>1. call'[p] \in {call[p], [call[p] EXCEPT !.tab = "none"]}
        BY <1>4, <2>3 DEF Abandoned
      <3>2. t # "none" /\ ~pg.open => call'[p].tab # t
        BY <1>3, <1>4, <2>3 DEF Abandoned, SessionRequest
      <3>3. call[p].tab # t => call'[p] = call[p]
        BY <1>4, <2>3 DEF Abandoned
      <3>4. QED
        BY <1>3, <2>1, <2>3, <3>1, <3>2, <3>3 DEF SessionRequest
    <2>4. QED
      BY <2>2, <2>3
  <1> HIDE DEF t
  <1>6. call' \in [Requests -> SessionRequest]
    BY <1>4, <1>5
  <1>7. tab' \in [Tabs -> Page]
    BY <1>1, <1>4 DEF SessionTypeOK
  <1>8. SessionTypeOK'
    <2>1. \A p \in Requests : call'[p].row \in Rows \cup {"none"} /\ call'[p].rows \subseteq Rows
      BY <1>6 DEF SessionRequest
    <2>2. QED
      BY <1>4, <1>7, <2>1 DEF SessionTypeOK, RowsGrow
  <1>9. HandledIsTouched'
    BY <1>1, <1>2, <1>3, <1>5 DEF HandledIsTouched
  <1>10. ASSUME NEW u \in Tabs
         PROVE  \/ u # t /\ tab'[u] = tab[u]
                \/ /\ u = t /\ tab'[u] = pg
                   /\ pg.open => JustTouched(row', pg.under)
    BY <1>1, <1>2, <1>3, <1>4 DEF SessionTypeOK, t
  <1>11. SenderIsOpen'
    <2> SUFFICES ASSUME NEW p \in Requests, NEW u \in Tabs,
                        call'[p].tab = u, call'[p].kind \in {"extend", "resume"}
                 PROVE  /\ tab'[u].open
                        /\ call'[p].csrf = tab'[u].under \/ JustTouched(row', tab'[u].under)
      BY DEF SenderIsOpen, JustTouched
    <2>1. call[p].tab = u /\ call[p].kind = call'[p].kind /\ call[p].csrf = call'[p].csrf
      BY <1>3, <1>5
    <2>2. CASE u # t /\ tab'[u] = tab[u]
      BY <1>1, <1>2, <1>3, <2>1, <2>2 DEF SenderIsOpen, JustTouched
    <2>3. CASE u = t /\ tab'[u] = pg /\ (pg.open => JustTouched(row', pg.under))
      BY <1>3, <1>5, <2>3 DEF JustTouched
    <2>4. QED
      BY <1>10, <2>2, <2>3
  <1>12. OpenIsNear'
    <2> SUFFICES ASSUME NEW u \in Tabs, tab'[u].open
                 PROVE  NearDeadline(row', tab'[u]) \/ Reporting(u)'
      BY DEF OpenIsNear, NearDeadline
    <2>1. CASE u # t /\ tab'[u] = tab[u]
      <3>1. Reporting(u) => Reporting(u)'
        BY <1>5, <2>1 DEF Reporting, t
      <3>2. QED
        BY <1>1, <1>2, <1>3, <2>1, <3>1 DEF OpenIsNear, NearDeadline
    <2>2. CASE u = t /\ tab'[u] = pg /\ (pg.open => JustTouched(row', pg.under))
      BY <2>2 DEF Page, JustTouched, NearDeadline
    <2>3. QED
      BY <1>10, <2>1, <2>2
  <1>13. QED
    BY <1>6, <1>8, <1>9, <1>11, <1>12 DEF SessionInv

(* A page moves on by itself.                                              *)
LEMMA PageMoved ==
    ASSUME SessionInv, NEW t \in Tabs, row' = row, cookie' = cookie, call' = call,
           NEW pg \in Page, tab' = [tab EXCEPT ![t] = pg],
           pg.open = tab[t].open, pg.under = tab[t].under,
           NearDeadline(row, tab[t]) => NearDeadline(row, pg)
    PROVE  SessionInv'
  <1>1. /\ SessionTypeOK /\ call \in [Requests -> SessionRequest]
        /\ HandledIsTouched /\ SenderIsOpen /\ OpenIsNear
    BY DEF SessionInv
  <1>2. tab \in [Tabs -> Page] /\ tab' \in [Tabs -> Page]
    BY <1>1 DEF SessionTypeOK
  <1>3. SessionTypeOK'
    BY <1>1, <1>2 DEF SessionTypeOK
  <1>4. \A u \in Tabs : /\ tab'[u].open = tab[u].open /\ tab'[u].under = tab[u].under
                        /\ NearDeadline(row, tab[u]) => NearDeadline(row, tab'[u])
    BY <1>2
  <1>5. HandledIsTouched'
    BY <1>1 DEF HandledIsTouched
  <1>6. SenderIsOpen'
    BY <1>1, <1>4 DEF SenderIsOpen
  <1>7. OpenIsNear'
    BY <1>1, <1>4 DEF OpenIsNear, Reporting
  <1>8. QED
    BY <1>1, <1>3, <1>5, <1>6, <1>7 DEF SessionInv

(* A page sends a request; when it reports activity it may restart its     *)
(* timers.                                                                 *)
LEMMA Sent ==
    ASSUME SessionInv, NEW q \in Requests, NEW t \in Tabs, row' = row, cookie' = cookie,
           NEW kind \in {"page", "extend", "resume", "logout", "logoutAll"},
           NEW step \in {"load", "end"}, NEW reason \in {"none", "idle_timeout", "officer_signout"},
           Send(q, Call(kind, t, step, reason)),
           kind \in {"extend", "resume"} => tab[t].open,
           NEW pg \in Page, tab' = [tab EXCEPT ![t] = pg],
           pg.open = tab[t].open, pg.under = tab[t].under,
           kind = "extend" \/ (NearDeadline(row, tab[t]) => NearDeadline(row, pg))
    PROVE  SessionInv'
  <1> DEFINE request == Call(kind, t, step, reason)
  <1>1. /\ SessionTypeOK /\ call \in [Requests -> SessionRequest]
        /\ HandledIsTouched /\ SenderIsOpen /\ OpenIsNear
    BY DEF SessionInv
  <1>2. tab \in [Tabs -> Page] /\ tab' \in [Tabs -> Page] /\ cookie \in Rows \cup {"none"}
    BY <1>1 DEF SessionTypeOK
  <1>3. /\ request \in SessionRequest /\ request.kind = kind /\ request.tab = t
        /\ request.step = step /\ request.csrf = tab[t].under
    BY <1>2, CallTyped
  <1>4. call[q] = NoCall /\ call' = [call EXCEPT ![q] = request]
    BY DEF Send, Issue
  <1> HIDE DEF request
  <1>5. call' \in [Requests -> SessionRequest]
    BY <1>1, <1>3, <1>4
  <1>6. SessionTypeOK'
    <2>1. \A p \in Requests : call'[p].row \in Rows \cup {"none"} /\ call'[p].rows \subseteq Rows
      BY <1>5 DEF SessionRequest
    <2>2. QED
      BY <1>1, <1>2, <2>1 DEF SessionTypeOK
  <1>7. \A u \in Tabs : /\ tab'[u].open = tab[u].open /\ tab'[u].under = tab[u].under
                        /\ u # t => tab'[u] = tab[u]
    BY <1>2
  <1>8. HandledIsTouched'
    BY <1>1, <1>3, <1>4 DEF HandledIsTouched
  <1>9. SenderIsOpen'
    BY <1>1, <1>3, <1>4, <1>7 DEF SenderIsOpen
  <1>10. OpenIsNear'
    <2> SUFFICES ASSUME NEW u \in Tabs, tab'[u].open
                 PROVE  NearDeadline(row, tab'[u]) \/ Reporting(u)'
      BY DEF OpenIsNear
    <2>1. Reporting(u) => Reporting(u)'
      BY <1>1, <1>4, ClosedTyped DEF Reporting
    <2>2. CASE u = t /\ kind = "extend"
      BY <1>1, <1>3, <1>4, <2>2 DEF Reporting
    <2>3. CASE u # t \/ kind # "extend"
      BY <1>1, <1>2, <1>7, <2>1, <2>3 DEF OpenIsNear
    <2>4. QED
      BY <2>2, <2>3
  <1>11. QED
    BY <1>5, <1>6, <1>8, <1>9, <1>10 DEF SessionInv

LEMMA PageStays ==
    ASSUME SessionTypeOK, NEW t \in Tabs
    PROVE  tab[t] \in Page /\ tab = [tab EXCEPT ![t] = tab[t]]
  BY DEF SessionTypeOK

(* What the script of a page does to its state.                            *)
LEMMA PageChanged ==
    ASSUME NEW pg \in Page
    PROVE  /\ [pg EXCEPT !.idle = 0] \in Page
           /\ [pg EXCEPT !.idle = 0].open = pg.open
           /\ [pg EXCEPT !.idle = 0].under = pg.under
           /\ [pg EXCEPT !.idle = 0].touch = pg.touch
           /\ [pg EXCEPT !.idle = 0].idle = 0
           /\ [pg EXCEPT !.idle = 0, !.touch = 0] \in Page
           /\ [pg EXCEPT !.idle = 0, !.touch = 0].open = pg.open
           /\ [pg EXCEPT !.idle = 0, !.touch = 0].under = pg.under
  <1>1. ASSUME NEW n \in 0..Timeout, NEW m \in 0..Touch
        PROVE  /\ [pg EXCEPT !.idle = n] \in Page
               /\ [pg EXCEPT !.idle = n, !.touch = m] \in Page
    BY DEF Page
  <1>2. 0 \in 0..Timeout /\ 0 \in 0..Touch
    OBVIOUS
  <1>3. [pg EXCEPT !.idle = 0] \in Page /\ [pg EXCEPT !.idle = 0, !.touch = 0] \in Page
    BY <1>1, <1>2
  <1>4. QED
    BY <1>3 DEF Page

LEMMA PageLocked ==
    ASSUME NEW pg \in Page, NEW new \in {[pg EXCEPT !.locked = TRUE],
                                           [pg EXCEPT !.ending = TRUE, !.locked = TRUE]}
    PROVE  /\ new \in Page /\ new.open = pg.open /\ new.under = pg.under
           /\ new.idle = pg.idle /\ new.touch = pg.touch
  BY DEF Page

LEMMA OpenPageStep ==
    ASSUME SessionInv, NEW q \in Requests, NEW t \in Tabs, OpenPage(q, t)
    PROVE  SessionInv'
  <1>1. tab[t] \in Page /\ tab = [tab EXCEPT ![t] = tab[t]]
    BY PageStays DEF SessionInv
  <1>2. /\ Send(q, Call("page", t, "load", "none"))
        /\ row' = row /\ cookie' = cookie /\ tab' = [tab EXCEPT ![t] = tab[t]]
    BY <1>1 DEF OpenPage
  <1>3. QED
    BY <1>1, <1>2, Sent

(* What a page asks by itself belongs to no page.                          *)
LEMMA PollStep ==
    ASSUME SessionInv, NEW q \in Requests, Poll(q)
    PROVE  SessionInv'
  <1> DEFINE new == [NoCall EXCEPT !.kind = "poll", !.row = cookie, !.step = "load"]
  <1>1. /\ SessionTypeOK /\ call \in [Requests -> SessionRequest]
        /\ HandledIsTouched /\ SenderIsOpen /\ OpenIsNear /\ cookie \in Rows \cup {"none"}
        /\ call[q] = NoCall /\ call' = [call EXCEPT ![q] = new]
        /\ row' = row /\ cookie' = cookie /\ tab' = tab
    BY DEF SessionInv, SessionTypeOK, Poll, Issue
  <1>2. new \in SessionRequest /\ new.kind = "poll" /\ new.step = "load" /\ new.tab = "none"
    BY <1>1, ClosedTyped DEF SessionRequest, NoCall
  <1> HIDE DEF new
  <1>3. call' \in [Requests -> SessionRequest]
    BY <1>1, <1>2
  <1>4. SessionTypeOK'
    <2>1. \A p \in Requests : call'[p].row \in Rows \cup {"none"} /\ call'[p].rows \subseteq Rows
      BY <1>3 DEF SessionRequest
    <2>2. QED
      BY <1>1, <2>1 DEF SessionTypeOK
  <1>5. HandledIsTouched' /\ SenderIsOpen'
    BY <1>1, <1>2 DEF HandledIsTouched, SenderIsOpen, JustTouched
  <1>6. OpenIsNear'
    <2>1. \A t \in Tabs : Reporting(t) => Reporting(t)'
      BY <1>1, ClosedTyped DEF Reporting
    <2>2. QED
      BY <1>1, <2>1 DEF OpenIsNear, NearDeadline
  <1>7. QED
    BY <1>3, <1>4, <1>5, <1>6 DEF SessionInv

LEMMA ResumeStep ==
    ASSUME SessionInv, NEW q \in Requests, NEW t \in Tabs, ResumePage(q, t)
    PROVE  SessionInv'
  <1>1. tab[t] \in Page /\ tab = [tab EXCEPT ![t] = tab[t]]
    BY PageStays DEF SessionInv
  <1>2. /\ Send(q, Call("resume", t, "load", "none")) /\ tab[t].open
        /\ row' = row /\ cookie' = cookie /\ tab' = [tab EXCEPT ![t] = tab[t]]
    BY <1>1 DEF ResumePage
  <1>3. QED
    BY <1>1, <1>2, Sent

LEMMA SignOutStep ==
    ASSUME SessionInv, NEW q \in Requests, NEW t \in Tabs,
           NEW kind \in {"logout", "logoutAll"}, SignOut(q, t, kind)
    PROVE  SessionInv'
  <1>1. tab[t] \in Page /\ tab = [tab EXCEPT ![t] = tab[t]]
    BY PageStays DEF SessionInv
  <1>2. PICK step \in {"load", "end"} : Send(q, Call(kind, t, step, "officer_signout"))
    BY DEF SignOut
  <1>3. row' = row /\ cookie' = cookie /\ tab' = [tab EXCEPT ![t] = tab[t]]
    BY <1>1 DEF SignOut
  <1>4. QED
    BY <1>1, <1>2, <1>3, Sent

(* Activity that is not reported follows activity that was, not long ago.  *)
LEMMA ActivityStep ==
    ASSUME SessionInv, NEW q \in Requests, NEW t \in Tabs, Activity(q, t)
    PROVE  SessionInv'
  <1>1. tab[t] \in Page /\ tab \in [Tabs -> Page] /\ row \in [Rows -> OfficerSession]
    BY DEF SessionInv, SessionTypeOK
  <1>2. CASE tab[t].touch >= Touch
    <2>1. /\ Send(q, Call("extend", t, "load", "none")) /\ tab[t].open
          /\ row' = row /\ cookie' = cookie
          /\ tab' = [tab EXCEPT ![t] = [tab[t] EXCEPT !.idle = 0, !.touch = 0]]
      BY <1>1, <1>2 DEF Activity
    <2>2. QED
      BY <1>1, <2>1, PageChanged, Sent
  <1>3. CASE ~(tab[t].touch >= Touch)
    <2> DEFINE pg == [tab[t] EXCEPT !.idle = 0]
    <2>1. row' = row /\ cookie' = cookie /\ call' = call /\ tab' = [tab EXCEPT ![t] = pg]
      BY <1>1, <1>3 DEF Activity
    <2>2. /\ pg \in Page /\ pg.open = tab[t].open /\ pg.under = tab[t].under
          /\ pg.touch = tab[t].touch /\ pg.idle = 0
      BY <1>1, PageChanged
    <2> HIDE DEF pg
    <2>3. NearDeadline(row, tab[t]) => NearDeadline(row, pg)
      <3>1. SUFFICES ASSUME tab[t].under \in Rows,
                            row[tab[t].under].left >= Timeout - tab[t].touch
                     PROVE  NearDeadline(row, pg)
        BY <1>1, <1>3, <2>2 DEF NearDeadline, Page
      <3>2. tab[t].touch \in 0..Touch /\ row[tab[t].under].left \in Int
        BY <1>1, <3>1 DEF Page, OfficerSession
      <3>3. QED
        BY <1>3, <2>2, <3>1, <3>2 DEF NearDeadline
    <2>4. QED
      BY <2>1, <2>2, <2>3, PageMoved
  <1>4. QED
    BY <1>2, <1>3

LEMMA IdleTickStep ==
    ASSUME SessionInv, NEW q \in Requests, NEW t \in Tabs, IdleTick(q, t)
    PROVE  SessionInv'
  <1>1. tab[t] \in Page /\ tab \in [Tabs -> Page]
    BY DEF SessionInv, SessionTypeOK
  <1>2. row' = row /\ cookie' = cookie
    BY DEF IdleTick
  <1>3. CASE tab[t].idle >= Timeout
    <2> DEFINE pg == [tab[t] EXCEPT !.ending = TRUE, !.locked = TRUE]
    <2>1. /\ Send(q, Call("logout", t, "end", "idle_timeout"))
          /\ tab' = [tab EXCEPT ![t] = pg]
      BY <1>1, <1>3 DEF IdleTick
    <2>2. /\ pg \in Page /\ pg.open = tab[t].open /\ pg.under = tab[t].under
          /\ NearDeadline(row, tab[t]) => NearDeadline(row, pg)
      BY <1>1, PageLocked DEF NearDeadline
    <2> HIDE DEF pg
    <2>3. QED
      BY <1>2, <2>1, <2>2, Sent
  <1>4. CASE ~(tab[t].idle >= Timeout)
    <2> DEFINE pg == [tab[t] EXCEPT !.locked = TRUE]
    <2>1. call' = call /\ tab' = [tab EXCEPT ![t] = pg]
      BY <1>1, <1>4 DEF IdleTick
    <2>2. /\ pg \in Page /\ pg.open = tab[t].open /\ pg.under = tab[t].under
          /\ NearDeadline(row, tab[t]) => NearDeadline(row, pg)
      BY <1>1, PageLocked DEF NearDeadline
    <2> HIDE DEF pg
    <2>3. QED
      BY <1>2, <2>1, <2>2, PageMoved
  <1>5. QED
    BY <1>3, <1>4

-----------------------------------------------------------------------------
(* The steps of a request.                                                 *)
LEMMA LoadStep ==
    ASSUME SessionInv, NEW q \in Requests, Load(q)
    PROVE  SessionInv'
  <1>1. /\ SessionTypeOK /\ call \in [Requests -> SessionRequest] /\ row' = row /\ RowsGrow
        /\ call[q].row \in Rows \cup {"none"}
    BY RowsLeft DEF SessionInv, SessionTypeOK, Load
  <1>2. CASE call[q].row = "none" \/ row[call[q].row].state # "active"
    <2>1. Answer(q, "none", ClosedPage)
      BY <1>2 DEF Load, ToLogin
    <2>2. QED
      BY <1>1, <2>1, ClosedTyped, Answered
  <1>3. CASE ~(call[q].row = "none" \/ row[call[q].row].state # "active")
    <2>1. PICK seen \in {"expired", "active"} :
            /\ call' = [call EXCEPT ![q].step = "resolve", ![q].seen = seen]
            /\ tab' = tab /\ cookie' = cookie
      BY <1>3 DEF Load
    <2> DEFINE new == [call[q] EXCEPT !.step = "resolve", !.seen = seen]
    <2>2. call' = [call EXCEPT ![q] = new]
      BY <1>1, <2>1
    <2>3. /\ new \in SessionRequest /\ new.step = "resolve" /\ new.kind = call[q].kind
          /\ new.tab = call[q].tab /\ new.csrf = call[q].csrf /\ new.row = call[q].row
      BY <1>1 DEF SessionRequest
    <2> HIDE DEF new
    <2>4. call[q].row \in Rows
      BY <1>1, <1>3
    <2>5. QED
      BY <1>1, <2>1, <2>2, <2>3, <2>4, Advanced
  <1>4. QED
    BY <1>2, <1>3

(* A row is ended with the reason of a request, or for idleness.           *)
LEMMA EndedTyped ==
    ASSUME SessionTypeOK, NEW r \in Rows \cup {"none"},
           NEW reason \in {"none", "idle_timeout", "officer_signout"},
           row' = [row EXCEPT ![r].state = "ended", ![r].reason = reason]
    PROVE  RowsGrow
  <1>1. \A s \in Rows : row[s] \in OfficerSession
    BY DEF SessionTypeOK
  <1>2. \A s \in Rows :
           /\ row'[s] \in OfficerSession /\ row'[s].left = row[s].left
    BY <1>1 DEF SessionTypeOK, OfficerSession
  <1>3. row' \in [Rows -> OfficerSession]
    BY <1>2 DEF SessionTypeOK
  <1>4. QED
    BY <1>1, <1>2, <1>3 DEF RowsGrow, OfficerSession

LEMMA ExpireStep ==
    ASSUME SessionInv, NEW q \in Requests, ExpireSession(q)
    PROVE  SessionInv'
  <1>1. SessionTypeOK /\ call[q].row \in Rows \cup {"none"}
    BY DEF SessionInv, SessionTypeOK
  <1>2. RowsGrow
    BY <1>1, EndedTyped DEF ExpireSession
  <1>3. Answer(q, "none", ClosedPage)
    BY DEF ExpireSession, ToLogin
  <1>4. QED
    BY <1>2, <1>3, ClosedTyped, Answered

LEMMA TouchStep ==
    ASSUME SessionInv, NEW q \in Requests, TouchSession(q)
    PROVE  SessionInv'
  <1> DEFINE new == [call[q] EXCEPT !.step = "handler"]
             r == call[q].row
  <1>1. /\ SessionTypeOK /\ call \in [Requests -> SessionRequest] /\ HandledIsTouched
        /\ row \in [Rows -> OfficerSession] /\ call[q].step = "resolve"
        /\ row' = [row EXCEPT ![r].left = Timeout]
        /\ call' = [call EXCEPT ![q] = new] /\ tab' = tab /\ cookie' = cookie
    BY DEF SessionInv, SessionTypeOK, TouchSession
  <1>2. /\ new \in SessionRequest /\ new.step = "handler" /\ new.kind = call[q].kind
        /\ new.tab = call[q].tab /\ new.csrf = call[q].csrf /\ new.row = r
    BY <1>1 DEF SessionRequest
  <1> HIDE DEF new, r
  <1>3. r \in Rows
    BY <1>1 DEF HandledIsTouched, r
  <1>4. \A s \in Rows : row[s] \in OfficerSession
    BY <1>1
  <1>5. [row[r] EXCEPT !.left = Timeout] \in OfficerSession
    <2>1. Timeout \in 0..Timeout
      OBVIOUS
    <2>2. QED
      BY <1>3, <1>4, <2>1 DEF OfficerSession
  <1>6. row' \in [Rows -> OfficerSession] /\ row'[r].left = Timeout
    BY <1>1, <1>3, <1>4, <1>5 DEF OfficerSession
  <1>7. RowsGrow
    <2>1. \A s \in Rows : row'[s].left \in {row[s].left, Timeout} /\ row[s].left \in 0..Timeout
      BY <1>1, <1>3, <1>4 DEF OfficerSession
    <2>2. QED
      BY <1>6, <2>1 DEF RowsGrow
  <1>8. JustTouched(row', r)
    BY <1>6 DEF JustTouched
  <1>9. QED
    BY <1>1, <1>2, <1>3, <1>7, <1>8, Advanced DEF r

LEMMA HandleStep ==
    ASSUME SessionInv, NEW q \in Requests, HandlePage(q)
    PROVE  SessionInv'
  <1> DEFINE t == call[q].tab
             r == call[q].row
  <1>1. /\ SessionTypeOK /\ call \in [Requests -> SessionRequest] /\ HandledIsTouched /\ SenderIsOpen
        /\ call[q] \in SessionRequest /\ tab \in [Tabs -> Page]
        /\ t \in Tabs \cup {"none"} /\ row' = row /\ RowsGrow
        /\ call[q].step = "handler"
    BY RowsLeft DEF SessionInv, SessionTypeOK, SessionRequest, HandlePage
  <1>2. r \in Rows /\ JustTouched(row, r)
    BY <1>1 DEF HandledIsTouched
  <1>3. PICK pg \in Page :
           /\ pg = IF t = "none" THEN ClosedPage ELSE tab[t]
           /\ \/ call[q].kind = "page" /\ Answer(q, r, LoadedPage(r))
              \/ Answer(q, r, ClosedPage)
              \/ call[q].kind = "extend" /\ Permitted(q) /\ Answer(q, r, pg)
              \/ call[q].kind = "resume" /\ Permitted(q)
                 /\ Answer(q, r, [pg EXCEPT !.idle = 0, !.touch = 0, !.locked = FALSE])
    <2>1. (IF t = "none" THEN ClosedPage ELSE tab[t]) \in Page
      BY <1>1, ClosedTyped
    <2>2. QED
      BY <2>1 DEF HandlePage, ToLogin
  <1>4. t # "none" /\ call[q].kind \in {"extend", "resume"} /\ Permitted(q)
           => pg.open /\ JustTouched(row, pg.under)
    BY <1>1, <1>2, <1>3 DEF SenderIsOpen, Permitted
  <1> HIDE DEF r, t
  <1>5. CASE call[q].kind = "page" /\ Answer(q, r, LoadedPage(r))
    BY <1>1, <1>2, <1>5, LoadedTyped, Answered
  <1>6. CASE Answer(q, r, ClosedPage)
    BY <1>1, <1>2, <1>6, ClosedTyped, Answered
  <1>7. CASE call[q].kind = "extend" /\ Permitted(q) /\ Answer(q, r, pg)
    BY <1>1, <1>2, <1>3, <1>4, <1>7, Answered DEF t
  <1>8. CASE /\ call[q].kind = "resume" /\ Permitted(q)
             /\ Answer(q, r, [pg EXCEPT !.idle = 0, !.touch = 0, !.locked = FALSE])
    <2> DEFINE new == [pg EXCEPT !.idle = 0, !.touch = 0, !.locked = FALSE]
    <2>1. new \in Page /\ new.open = pg.open /\ new.under = pg.under
      <3>1. PICK n \in 0..Timeout, m \in 0..Touch : n = 0 /\ m = 0
        OBVIOUS
      <3>2. new = [pg EXCEPT !.idle = n, !.touch = m, !.locked = FALSE]
        BY <3>1
      <3> HIDE DEF new
      <3>3. QED
        BY <1>3, <3>2 DEF Page
    <2>2. Answer(q, r, new)
      BY <1>8
    <2> HIDE DEF new
    <2>3. t # "none" => JustTouched(row, new.under)
      BY <1>4, <1>8, <2>1
    <2>4. QED
      BY <1>1, <1>2, <2>1, <2>2, <2>3, Answered DEF t
  <1>9. QED
    BY <1>3, <1>5, <1>6, <1>7, <1>8

LEMMA SelectStep ==
    ASSUME SessionInv, NEW q \in Requests, SelectAll(q)
    PROVE  SessionInv'
  <1>1. /\ SessionTypeOK /\ call \in [Requests -> SessionRequest] /\ row' = row /\ RowsGrow
        /\ call[q].row \in Rows \cup {"none"}
    BY RowsLeft DEF SessionInv, SessionTypeOK, SelectAll
  <1>2. CASE Permitted(q)
    <2> DEFINE rows == {r \in Rows : Listed(r)}
               new == [call[q] EXCEPT !.step = "revoke", !.rows = rows]
    <2>1. call' = [call EXCEPT ![q] = new] /\ tab' = tab /\ cookie' = cookie
      BY <1>1, <1>2 DEF SelectAll
    <2>2. rows \in SUBSET Rows
      OBVIOUS
    <2> HIDE DEF rows
    <2>3. /\ new \in SessionRequest /\ new.step = "revoke" /\ new.kind = call[q].kind
          /\ new.tab = call[q].tab /\ new.csrf = call[q].csrf /\ new.row = call[q].row
      BY <1>1, <2>2 DEF SessionRequest
    <2> HIDE DEF new
    <2>4. QED
      BY <1>1, <2>1, <2>3, Advanced
  <1>3. CASE ~Permitted(q)
    <2>1. Answer(q, call[q].row, ClosedPage)
      BY <1>3 DEF SelectAll, ToLogin
    <2>2. QED
      BY <1>1, <2>1, ClosedTyped, Answered
  <1>4. QED
    BY <1>2, <1>3

LEMMA RevokeStep ==
    ASSUME SessionInv, NEW q \in Requests, RevokeAll(q)
    PROVE  SessionInv'
  <1>1. /\ row \in [Rows -> OfficerSession] /\ call[q] \in SessionRequest
        /\ row' = [r \in Rows |-> IF r \in call[q].rows
                                  THEN [row[r] EXCEPT !.state = "ended", !.reason = call[q].reason]
                                  ELSE row[r]]
        /\ Answer(q, "none", ClosedPage)
    BY DEF SessionInv, SessionTypeOK, RevokeAll, ToLogin
  <1>2. call[q].reason \in {"none", "idle_timeout", "officer_signout"}
    BY <1>1 DEF SessionRequest
  <1>3. \A r \in Rows : row'[r] \in OfficerSession /\ row'[r].left = row[r].left
    BY <1>1, <1>2 DEF OfficerSession
  <1>4. row' \in [Rows -> OfficerSession] /\ \A r \in Rows : row[r].left \in 0..Timeout
    BY <1>1, <1>3 DEF OfficerSession
  <1>5. RowsGrow
    BY <1>3, <1>4 DEF RowsGrow
  <1>6. QED
    BY <1>1, <1>5, ClosedTyped, Answered

LEMMA LoadToEndStep ==
    ASSUME SessionInv, NEW q \in Requests, LoadToEnd(q)
    PROVE  SessionInv'
  <1>1. /\ SessionTypeOK /\ call \in [Requests -> SessionRequest] /\ row' = row /\ RowsGrow
        /\ call[q].row \in Rows \cup {"none"} /\ row \in [Rows -> OfficerSession]
    BY RowsLeft DEF SessionInv, SessionTypeOK, LoadToEnd
  <1>2. CASE call[q].row = "none" \/ ~Permitted(q)
    <2>1. Answer(q, call[q].row, ClosedPage)
      BY <1>2 DEF LoadToEnd, ToLogin
    <2>2. QED
      BY <1>1, <2>1, ClosedTyped, Answered
  <1>3. CASE ~(call[q].row = "none" \/ ~Permitted(q))
    <2> DEFINE seen == row[call[q].row].state
               new == [call[q] EXCEPT !.step = "signout", !.seen = seen]
    <2>1. call' = [call EXCEPT ![q] = new] /\ tab' = tab /\ cookie' = cookie
      BY <1>1, <1>3 DEF LoadToEnd
    <2>2. seen \in {"unused", "active", "ended"}
      BY <1>1, <1>3 DEF OfficerSession
    <2>3. call[q] \in SessionRequest
      BY <1>1
    <2> HIDE DEF seen
    <2>4. /\ new \in SessionRequest /\ new.step = "signout" /\ new.kind = call[q].kind
          /\ new.tab = call[q].tab /\ new.csrf = call[q].csrf /\ new.row = call[q].row
      BY <2>2, <2>3 DEF SessionRequest
    <2> HIDE DEF new
    <2>5. QED
      BY <1>1, <2>1, <2>4, Advanced
  <1>4. QED
    BY <1>2, <1>3

LEMMA EndStep ==
    ASSUME SessionInv, NEW q \in Requests, EndSession(q)
    PROVE  SessionInv'
  <1>1. /\ SessionTypeOK /\ call[q] \in SessionRequest
        /\ Answer(q, "none", ClosedPage)
    BY DEF SessionInv, EndSession, ToLogin
  <1>2. /\ call[q].reason \in {"none", "idle_timeout", "officer_signout"}
        /\ call[q].row \in Rows \cup {"none"}
    BY <1>1 DEF SessionRequest
  <1>3. RowsGrow
    <2>1. CASE row' = row
      BY <1>1, <2>1, RowsLeft
    <2>2. CASE row' = [row EXCEPT ![call[q].row].state = "ended",
                                  ![call[q].row].reason = call[q].reason]
      BY <1>1, <1>2, <2>2, EndedTyped
    <2>3. QED
      BY <2>1, <2>2 DEF EndSession
  <1>4. QED
    BY <1>1, <1>3, ClosedTyped, Answered

-----------------------------------------------------------------------------
(* A login opens a page under a new row.                                   *)
LEMMA LoginStep ==
    ASSUME SessionInv, NEW t \in Tabs, Login(t)
    PROVE  SessionInv'
  <1>1. /\ SessionTypeOK /\ call \in [Requests -> SessionRequest]
        /\ HandledIsTouched /\ SenderIsOpen /\ OpenIsNear
        /\ row \in [Rows -> OfficerSession] /\ tab \in [Tabs -> Page]
    BY DEF SessionInv, SessionTypeOK
  <1>2. PICK r \in Rows :
          /\ row' = [row EXCEPT ![r].state = "active", ![r].left = Timeout]
          /\ cookie' = r /\ tab' = [tab EXCEPT ![t] = LoadedPage(r)]
          /\ call' = call /\ ~tab[t].open
    BY DEF Login
  <1>3. \A s \in Rows : row[s] \in OfficerSession
    BY <1>1
  <1>4. [row[r] EXCEPT !.state = "active", !.left = Timeout] \in OfficerSession
    <2>1. Timeout \in 0..Timeout
      OBVIOUS
    <2>2. QED
      BY <1>3, <2>1 DEF OfficerSession
  <1>5. /\ row' \in [Rows -> OfficerSession] /\ row'[r].left = Timeout
        /\ \A s \in Rows : row'[s].left \in {row[s].left, Timeout} /\ row[s].left \in 0..Timeout
    BY <1>1, <1>2, <1>3, <1>4 DEF OfficerSession
  <1>6. RowsGrow
    BY <1>5 DEF RowsGrow
  <1>7. /\ \A s \in Rows \cup {"none"} : JustTouched(row, s) => JustTouched(row', s)
        /\ \A pg \in Page : NearDeadline(row, pg) => NearDeadline(row', pg)
    BY <1>1, <1>6, RowsTouched
  <1>8. \A u \in Tabs : /\ tab[u] \in Page /\ tab[u].under \in Rows \cup {"none"}
                        /\ u # t => tab'[u] = tab[u]
    BY <1>1, <1>2 DEF Page
  <1>9. tab' \in [Tabs -> Page] /\ tab'[t] = LoadedPage(r)
    BY <1>1, <1>2, LoadedTyped
  <1>10. SessionTypeOK'
    BY <1>1, <1>2, <1>5, <1>9 DEF SessionTypeOK
  <1>11. HandledIsTouched'
    <2>1. \A q \in Requests : call[q].row \in Rows \cup {"none"}
      BY <1>1 DEF SessionTypeOK
    <2>2. QED
      BY <1>1, <1>2, <1>7, <2>1 DEF HandledIsTouched
  <1>12. SenderIsOpen'
    BY <1>1, <1>2, <1>7, <1>8 DEF SenderIsOpen
  <1>13. OpenIsNear'
    <2>1. NearDeadline(row', tab'[t])
      <3>1. LoadedPage(r) \in Page /\ LoadedPage(r).under = r
        BY LoadedTyped
      <3>2. QED
        BY <1>5, <1>9, <3>1 DEF NearDeadline, Page
    <2>2. \A u \in Tabs : Reporting(u)' <=> Reporting(u)
      BY <1>2 DEF Reporting
    <2>3. QED
      BY <1>1, <1>7, <1>8, <2>1, <2>2 DEF OpenIsNear
  <1>14. QED
    BY <1>1, <1>2, <1>10, <1>11, <1>12, <1>13 DEF SessionInv

(* Time passes, while no request is under way: a deadline comes closer by  *)
(* one, and so do the timers of the page.                                  *)
LEMMA TickStep ==
    ASSUME SessionInv, SessionTick
    PROVE  SessionInv'
  <1>1. /\ SessionTypeOK /\ call \in [Requests -> SessionRequest] /\ OpenIsNear
        /\ row \in [Rows -> OfficerSession] /\ tab \in [Tabs -> Page]
        /\ call' = call /\ cookie' = cookie
        /\ \A q \in Requests : call[q] = NoCall
    BY DEF SessionInv, SessionTypeOK, SessionTick
  <1>2. \A r \in Rows : /\ row'[r].left = IF row[r].left > 0 THEN row[r].left - 1 ELSE row[r].left
                        /\ row[r].left \in 0..Timeout /\ row'[r] \in OfficerSession
    <2> SUFFICES ASSUME NEW r \in Rows
                 PROVE  /\ row'[r].left = IF row[r].left > 0 THEN row[r].left - 1 ELSE row[r].left
                        /\ row[r].left \in 0..Timeout /\ row'[r] \in OfficerSession
      OBVIOUS
    <2> DEFINE left == IF row[r].left > 0 THEN row[r].left - 1 ELSE row[r].left
    <2>1. row[r] \in OfficerSession
      BY <1>1
    <2>2. row[r].left \in 0..Timeout /\ left \in 0..Timeout
      BY <2>1 DEF OfficerSession
    <2>3. row'[r] = [row[r] EXCEPT !.left = left]
      BY DEF SessionTick
    <2> HIDE DEF left
    <2>4. row'[r].left = left /\ row'[r] \in OfficerSession
      BY <2>1, <2>2, <2>3 DEF OfficerSession
    <2>5. QED
      BY <2>2, <2>4 DEF left
  <1>3. row' \in [Rows -> OfficerSession]
    BY <1>2 DEF SessionTick
  <1>4. ASSUME NEW t \in Tabs
        PROVE  /\ tab'[t] \in Page /\ tab'[t].open = tab[t].open /\ tab'[t].under = tab[t].under
               /\ tab[t].open =>
                    /\ tab'[t].idle = IF tab[t].idle < Timeout THEN tab[t].idle + 1 ELSE tab[t].idle
                    /\ tab'[t].touch = IF tab[t].touch < Touch THEN tab[t].touch + 1
                                       ELSE tab[t].touch
    <2> DEFINE idle == IF tab[t].idle < Timeout THEN tab[t].idle + 1 ELSE tab[t].idle
               touch == IF tab[t].touch < Touch THEN tab[t].touch + 1 ELSE tab[t].touch
    <2>1. tab[t] \in Page /\ idle \in 0..Timeout /\ touch \in 0..Touch
      BY <1>1 DEF Page
    <2>2. tab'[t] = IF tab[t].open THEN [tab[t] EXCEPT !.idle = idle, !.touch = touch] ELSE tab[t]
      BY <1>1 DEF SessionTick
    <2> HIDE DEF idle, touch
    <2>3. /\ tab'[t] \in Page /\ tab'[t].open = tab[t].open /\ tab'[t].under = tab[t].under
          /\ tab[t].open => tab'[t].idle = idle /\ tab'[t].touch = touch
      BY <2>1, <2>2 DEF Page
    <2>4. QED
      BY <2>3 DEF idle, touch
  <1>5. tab' \in [Tabs -> Page]
    BY <1>4 DEF SessionTick
  <1>6. SessionTypeOK'
    BY <1>1, <1>3, <1>5 DEF SessionTypeOK
  <1>7. HandledIsTouched' /\ SenderIsOpen'
    BY <1>1, ClosedTyped DEF HandledIsTouched, SenderIsOpen
  <1>8. OpenIsNear'
    <2> SUFFICES ASSUME NEW t \in Tabs, tab'[t].open
                 PROVE  NearDeadline(row', tab'[t])
      BY DEF OpenIsNear
    <2>1. NearDeadline(row, tab[t])
      BY <1>1, <1>4, ClosedTyped DEF OpenIsNear, Reporting
    <2>2. CASE tab[t].under \in Rows
      <3> DEFINE left == row[tab[t].under].left
                 later == row'[tab[t].under].left
      <3>1. /\ left \in 0..Timeout /\ later = IF left > 0 THEN left - 1 ELSE left
            /\ tab[t].idle \in 0..Timeout /\ tab[t].touch \in 0..Touch
        BY <1>1, <1>2, <2>2 DEF Page
      <3>2. /\ left >= Timeout - tab[t].idle - Touch
            /\ tab[t].touch < Touch => left >= Timeout - tab[t].touch
        BY <2>1, <2>2 DEF NearDeadline
      <3> HIDE DEF left, later
      <3>3. /\ later >= Timeout - tab'[t].idle - Touch
            /\ tab'[t].touch < Touch => later >= Timeout - tab'[t].touch
        BY <1>4, <3>1, <3>2
      <3>4. QED
        BY <1>4, <3>3 DEF NearDeadline, later
    <2>3. CASE tab[t].under \notin Rows
      BY <1>4, <2>3 DEF NearDeadline
    <2>4. QED
      BY <2>2, <2>3
  <1>9. QED
    BY <1>1, <1>6, <1>7, <1>8 DEF SessionInv

LEMMA SessionStepInvariant ==
    ASSUME SessionInv, [SessionNext]_sessionVars
    PROVE  SessionInv'
  <1>1. CASE UNCHANGED <<row, cookie, tab, call>>
    BY <1>1 DEF SessionInv, SessionTypeOK, HandledIsTouched, SenderIsOpen, OpenIsNear, Reporting
  <1>2. ASSUME NEW q \in Requests, Served(q) \/ Poll(q)
        PROVE  SessionInv'
    BY <1>2, PollStep, LoadStep, ExpireStep, TouchStep, HandleStep, SelectStep, RevokeStep, LoadToEndStep,
       EndStep DEF Served
  <1>3. ASSUME NEW t \in Tabs, Login(t)
        PROVE  SessionInv'
    BY <1>3, LoginStep
  <1>4. ASSUME NEW q \in Requests, NEW t \in Tabs,
               \/ OpenPage(q, t) \/ Activity(q, t) \/ ResumePage(q, t)
               \/ SignOut(q, t, "logout") \/ SignOut(q, t, "logoutAll") \/ IdleTick(q, t)
        PROVE  SessionInv'
    BY <1>4, OpenPageStep, ActivityStep, ResumeStep, SignOutStep, IdleTickStep
  <1>5. CASE SessionTick
    BY <1>5, TickStep
  <1>6. QED
    BY <1>1, <1>2, <1>3, <1>4, <1>5 DEF SessionNext, LeaveForGood, sessionVars

LEMMA SessionInvariant == SessionSpec => []SessionInv
  <1>1. SessionInv /\ [SessionNext]_sessionVars => SessionInv'
    BY SessionStepInvariant
  <1>2. QED
    BY SessionInitInvariant, <1>1, PTL DEF SessionSpec

(* A row that is ended stays so: a login takes an unused row, a touch moves*)
(* the expiry alone, and everything else that writes a row ends it.        *)
LEMMA EndedStays ==
    ASSUME row \in [Rows -> OfficerSession], [SessionNext]_sessionVars,
           NEW r \in Rows, row[r].state = "ended"
    PROVE  row'[r].state = "ended"
  <1>1. row[r] \in OfficerSession
    OBVIOUS
  <1>2. ASSUME NEW q \in Requests, ExpireSession(q) \/ TouchSession(q) \/ RevokeAll(q) \/ EndSession(q)
        PROVE  row'[r].state = "ended"
    <2>1. CASE ExpireSession(q)
      BY <1>1, <2>1 DEF ExpireSession, OfficerSession
    <2>2. CASE TouchSession(q)
      BY <1>1, <2>2 DEF TouchSession, OfficerSession
    <2>3. CASE RevokeAll(q)
      BY <1>1, <2>3 DEF RevokeAll, OfficerSession
    <2>4. CASE EndSession(q)
      BY <1>1, <2>4 DEF EndSession, OfficerSession
    <2>5. QED
      BY <1>2, <2>1, <2>2, <2>3, <2>4
  <1>3. ASSUME NEW q \in Requests,
               Load(q) \/ HandlePage(q) \/ SelectAll(q) \/ LoadToEnd(q) \/ Poll(q)
        PROVE  row'[r].state = "ended"
    BY <1>3 DEF Load, HandlePage, SelectAll, LoadToEnd, Poll
  <1>4. ASSUME NEW t \in Tabs, Login(t)
        PROVE  row'[r].state = "ended"
    <2>1. PICK s \in Rows :
            /\ row[s].state = "unused"
            /\ row' = [row EXCEPT ![s].state = "active", ![s].left = Timeout]
      BY <1>4 DEF Login
    <2>2. s # r
      BY <2>1
    <2>3. QED
      BY <2>1, <2>2
  <1>5. ASSUME NEW q \in Requests, NEW t \in Tabs,
               \/ OpenPage(q, t) \/ Activity(q, t) \/ ResumePage(q, t)
               \/ SignOut(q, t, "logout") \/ SignOut(q, t, "logoutAll") \/ IdleTick(q, t)
        PROVE  row'[r].state = "ended"
    BY <1>5 DEF OpenPage, Activity, ResumePage, SignOut, IdleTick
  <1>6. CASE SessionTick
    BY <1>1, <1>6 DEF SessionTick, OfficerSession
  <1>7. CASE LeaveForGood \/ UNCHANGED sessionVars
    BY <1>7 DEF LeaveForGood, sessionVars
  <1>8. QED
    BY <1>2, <1>3, <1>4, <1>5, <1>6, <1>7 DEF SessionNext, Served

(* The rows, the cookie, the pages and the rows of a revocation keep their *)
(* types.                                                                  *)
THEOREM SessionTypeCorrect == SessionSpec => []SessionTypeOK
  <1>1. SessionInv => SessionTypeOK
    BY DEF SessionInv
  <1>2. QED
    BY SessionInvariant, <1>1, PTL

(* A session that expired, signed out or was revoked never counts as active*)
(* again, whatever request had resolved it before (resolve_officer_session,*)
(* end_officer_session, revoke_all_officer_sessions).                      *)
THEOREM EndedForGood == SessionSpec => EndedIsFinal
  <1>1. SessionInv /\ [SessionNext]_sessionVars =>
           [\A r \in Rows : row[r].state = "ended" => row'[r].state = "ended"]_sessionVars
    BY EndedStays DEF SessionInv, SessionTypeOK
  <1>2. QED
    BY SessionInvariant, <1>1, PTL DEF SessionSpec, EndedIsFinal

(* The server ends no session whose page still counts down, by more than   *)
(* the interval at which the page reports activity.                        *)
THEOREM ServerNearPage == SessionSpec => []ServerNearPageDeadline
  <1>1. SessionInv => ServerNearPageDeadline
    <2> SUFFICES ASSUME SessionInv, NEW t \in Tabs, tab[t].open, tab[t].under # "none", Reported(t)
                 PROVE  row[tab[t].under].left >= Timeout - tab[t].idle - Touch
      BY DEF ServerNearPageDeadline
    <2>1. tab[t].under \in Rows /\ OpenIsNear
      BY DEF SessionInv, SessionTypeOK, Page
    <2>2. NearDeadline(row, tab[t])
      BY <2>1 DEF OpenIsNear, Reporting, Reported
    <2>3. QED
      BY <2>1, <2>2 DEF NearDeadline
  <1>2. QED
    BY SessionInvariant, <1>1, PTL

HIDE SessionAssumption

-----------------------------------------------------------------------------
(* Presence monitor.                                                        *)
USE PresenceAssumption

(* The invariant in two halves: what the monitor holds, and what the page  *)
(* and the clocks remember.                                                *)
StartRecord ==
    [phase: {"none", "detector", "camera", "play"}, stale: BOOLEAN,
     created: BOOLEAN, det: Handles \cup {"none"}, cam: Handles \cup {"none"}]

CoreType ==
    /\ shown \in MonitorStates /\ enabled \in BOOLEAN /\ disposed \in BOOLEAN
    /\ shield \in {"open", "idle", "presence"} /\ hidden \in BOOLEAN
    /\ detector \in open \cup {"none"} /\ open \subseteq Handles
    /\ camera \in live \cup {"none"} /\ live \subseteq Handles
    /\ start \in StartRecord /\ start.cam \in live \cup {"none"}
    /\ waiting \in BOOLEAN /\ frame \in BOOLEAN

Core ==
    /\ CoreType /\ CameraOnlyWhileMonitoring /\ MonitoringIsAlive
    /\ StartIsConsistent /\ FreshStartIsWanted

SideType ==
    /\ toggle \in {"boot", "idle", "saveOn", "saveOff", "await"}
    /\ absent \in -1..Absence /\ grace \in 0..Grace /\ calm \in 0..Absence
    /\ issued \in BOOLEAN /\ errors \in 0..(MaxErrors - 1)

Side == SideType /\ EnabledOnce /\ WatchedIsCalm

LEMMA NoStartTyped ==
    /\ NoStart \in StartRecord /\ NoStart.phase = "none" /\ NoStart.cam = "none"
    /\ ~NoStart.stale
  BY DEF NoStart, StartRecord

LEMMA OutdatedStart ==
    ASSUME NEW s \in StartRecord
    PROVE  /\ Outdated(s) \in StartRecord
           /\ Outdated(s).phase = s.phase /\ Outdated(s).cam = s.cam
           /\ Outdated(s) = NoStart <=> s = NoStart
           /\ Outdated(s) # NoStart => Outdated(s).stale
  <1>1. CASE s = NoStart
    BY <1>1, NoStartTyped DEF Outdated
  <1>2. CASE s # NoStart
    <2>1. Outdated(s) = [s EXCEPT !.stale = TRUE]
      BY <1>2 DEF Outdated
    <2>2. /\ Outdated(s) \in StartRecord
          /\ Outdated(s).phase = s.phase /\ Outdated(s).cam = s.cam
      BY <2>1 DEF StartRecord
    <2>3. Outdated(s).stale
      BY <2>1 DEF StartRecord
    <2>4. Outdated(s) # NoStart
      BY <2>3, NoStartTyped
    <2>5. QED
      BY <1>2, <2>2, <2>3, <2>4
  <1>3. QED
    BY <1>1, <1>2

LEMMA PresenceInitInvariant == PresenceInit => Core /\ Side
  <1> SUFFICES ASSUME PresenceInit PROVE Core /\ Side
    OBVIOUS
  <1>1. CoreType
    BY NoStartTyped DEF PresenceInit, CoreType, MonitorStates
  <1>2. /\ CameraOnlyWhileMonitoring /\ MonitoringIsAlive
        /\ StartIsConsistent /\ FreshStartIsWanted
    BY NoStartTyped DEF PresenceInit, CameraOnlyWhileMonitoring, MonitoringIsAlive,
                        StartIsConsistent, FreshStartIsWanted
  <1>3. SideType
    <2>1. absent \in -1..Absence /\ grace \in 0..Grace /\ calm \in 0..Absence
      BY DEF PresenceInit
    <2>2. errors \in 0..(MaxErrors - 1)
      BY DEF PresenceInit
    <2>3. toggle \in {"boot", "idle", "saveOn", "saveOff", "await"} /\ issued \in BOOLEAN
      BY DEF PresenceInit
    <2>4. QED
      BY <2>1, <2>2, <2>3 DEF SideType
  <1>4. EnabledOnce /\ WatchedIsCalm
    BY DEF PresenceInit, EnabledOnce, WatchedIsCalm
  <1>5. QED
    BY <1>1, <1>2, <1>3, <1>4 DEF Core, Side

(* The halves make the invariant.                                          *)
LEMMA Halves == Core /\ Side => PresenceInv
  <1> SUFFICES ASSUME Core, Side PROVE PresenceTypeOK
    BY DEF Core, Side, PresenceInv
  <1>1. start \in [phase: {"none", "detector", "camera", "play"}, stale: BOOLEAN,
                   created: BOOLEAN, det: Handles \cup {"none"}, cam: live \cup {"none"}]
    BY DEF Core, CoreType, StartRecord
  <1>2. QED
    BY <1>1 DEF Core, CoreType, Side, SideType, PresenceTypeOK

-----------------------------------------------------------------------------
(* What the monitor holds, after steps of a kind.                          *)
LEMMA CoreKept ==
    ASSUME Core, UNCHANGED <<shown, enabled, page, resources, start>>, waiting' \in BOOLEAN
    PROVE  Core'
  <1>1. UNCHANGED <<shown, enabled, disposed, shield, hidden, detector, open, camera, live,
                    frame, start>>
    BY DEF page, resources
  <1>2. CoreType'
    BY <1>1 DEF Core, CoreType
  <1>3. /\ CameraOnlyWhileMonitoring' /\ MonitoringIsAlive'
        /\ StartIsConsistent' /\ FreshStartIsWanted'
    BY <1>1 DEF Core, CameraOnlyWhileMonitoring, MonitoringIsAlive, StartIsConsistent,
                FreshStartIsWanted, Locked
  <1>4. QED
    BY <1>2, <1>3 DEF Core

(* The camera is released before anything else happens, and a stream that  *)
(* a start has acquired stays with that start.                             *)
LEMMA CameraStopped ==
    ASSUME Core, StopCamera
    PROVE  /\ camera' = "none" /\ frame' = FALSE
           /\ live' \subseteq {start.cam} /\ live' \subseteq Handles
           /\ start.cam \in live' \cup {"none"}
  BY NoStartTyped DEF Core, CoreType, StopCamera, CameraOnlyWhileMonitoring

LEMMA DetectorClosed ==
    ASSUME Core, CloseDetector
    PROVE  detector' = "none" /\ open' = {}
  BY DEF Core, CoreType, CloseDetector, MonitoringIsAlive

(* disable, fail, dispose.                                                 *)
LEMMA CoreStopped ==
    ASSUME Core, StopCamera, CloseDetector, start' = Outdated(start),
           shown' \in MonitorStates, shown' # "monitoring" \/ disposed',
           enabled' \in BOOLEAN, disposed' \in BOOLEAN, waiting' = waiting,
           UNCHANGED <<shield, hidden>>
    PROVE  Core'
  <1>1. /\ CoreType /\ StartIsConsistent /\ start \in StartRecord
        /\ detector' = "none" /\ open' = {} /\ camera' = "none" /\ frame' = FALSE
        /\ live' \subseteq {start.cam} /\ live' \subseteq Handles
        /\ start.cam \in live' \cup {"none"}
    BY CameraStopped, DetectorClosed DEF Core, CoreType
  <1>2. /\ start' \in StartRecord /\ start'.phase = start.phase /\ start'.cam = start.cam
        /\ start' = NoStart <=> start = NoStart
        /\ start' # NoStart => start'.stale
    BY <1>1, OutdatedStart
  <1>3. CoreType'
    BY <1>1, <1>2 DEF CoreType
  <1>4. CameraOnlyWhileMonitoring' /\ MonitoringIsAlive'
    BY <1>1, <1>2 DEF CameraOnlyWhileMonitoring, MonitoringIsAlive
  <1>5. StartIsConsistent' /\ FreshStartIsWanted'
    BY <1>1, <1>2 DEF StartIsConsistent, FreshStartIsWanted
  <1>6. QED
    BY <1>3, <1>4, <1>5 DEF Core

(* pause, with the shield up or the page hidden as its caller left it.     *)
LEMMA CorePaused ==
    ASSUME Core, NEW reason \in {"paused", "shielded"}, Pause(reason),
           shield' \in {"open", "idle", "presence"}, hidden' \in BOOLEAN,
           UNCHANGED <<enabled, disposed, detector, open, waiting>>
    PROVE  Core'
  <1>1. /\ CoreType /\ StartIsConsistent /\ start \in StartRecord /\ MonitoringIsAlive
        /\ CameraOnlyWhileMonitoring /\ FreshStartIsWanted
    BY DEF Core, CoreType
  <1>2. CASE enabled /\ ~disposed
    <2>1. StopCamera /\ start' = Outdated(start) /\ shown' = reason
      BY <1>2 DEF Pause
    <2>2. /\ camera' = "none" /\ frame' = FALSE
          /\ live' \subseteq {start.cam} /\ live' \subseteq Handles
          /\ start.cam \in live' \cup {"none"}
      BY <2>1, CameraStopped
    <2>3. /\ start' \in StartRecord /\ start'.phase = start.phase /\ start'.cam = start.cam
          /\ start' = NoStart <=> start = NoStart
          /\ start' # NoStart => start'.stale
      BY <1>1, <2>1, OutdatedStart
    <2>4. CoreType'
      BY <1>1, <2>1, <2>2, <2>3 DEF CoreType, MonitorStates
    <2>5. CameraOnlyWhileMonitoring' /\ MonitoringIsAlive'
      BY <1>1, <2>1, <2>2, <2>3 DEF CameraOnlyWhileMonitoring, MonitoringIsAlive
    <2>6. StartIsConsistent' /\ FreshStartIsWanted'
      BY <1>1, <2>3 DEF StartIsConsistent, FreshStartIsWanted
    <2>7. QED
      BY <2>4, <2>5, <2>6 DEF Core
  <1>3. CASE ~(enabled /\ ~disposed)
    <2>1. UNCHANGED <<camera, live, frame, start, shown>>
      BY <1>3 DEF Pause
    <2>2. CoreType'
      BY <1>1, <2>1 DEF CoreType
    <2>3. CameraOnlyWhileMonitoring' /\ MonitoringIsAlive'
      BY <1>1, <1>3, <2>1 DEF CameraOnlyWhileMonitoring, MonitoringIsAlive
    <2>4. StartIsConsistent' /\ FreshStartIsWanted'
      BY <1>1, <1>3, <2>1 DEF StartIsConsistent, FreshStartIsWanted
    <2>5. QED
      BY <2>2, <2>3, <2>4 DEF Core
  <1>4. QED
    BY <1>2, <1>3

(* start(), called with the page as it is now: it gives up, leaves things  *)
(* to whoever is at it, or begins.                                         *)
LEMMA CoreStarted ==
    ASSUME CoreType, CoreType', NEW pending \in StartRecord,
           CallStart(pending, detector', camera'),
           enabled', ~disposed',
           \* what the caller left
           pending.cam \in live' \cup {"none"}, live' \subseteq {camera', pending.cam},
           camera' # "none" => /\ shown = "monitoring" /\ shield' = "open" /\ ~hidden'
                               /\ pending = NoStart,
           open' \subseteq {detector'},
           shown = "monitoring" =>
              camera' # "none" /\ camera' \in live' /\ detector' \in open' /\ frame',
           pending.phase = "none" => pending = NoStart,
           pending.cam # "none" <=> pending.phase = "play",
           pending.phase = "detector" => detector' = "none",
           pending # NoStart /\ ~pending.stale =>
              /\ shield' = "open" /\ ~hidden' /\ shown = "starting"
              /\ pending.phase # "detector" => detector' # "none"
    PROVE  Core'
  <1>1. CASE shield' # "open" \/ hidden'
    <2>1. shown' = "paused" /\ start' = pending
      BY <1>1 DEF CallStart
    <2>2. camera' = "none"
      BY <1>1
    <2>3. CameraOnlyWhileMonitoring' /\ MonitoringIsAlive'
      BY <2>1, <2>2 DEF CameraOnlyWhileMonitoring, MonitoringIsAlive
    <2>4. StartIsConsistent' /\ FreshStartIsWanted'
      BY <1>1, <2>1 DEF StartIsConsistent, FreshStartIsWanted
    <2>5. QED
      BY <2>3, <2>4 DEF Core
  <1>2. CASE /\ ~(shield' # "open" \/ hidden')
             /\ (shown = "monitoring" /\ camera' # "none") \/ pending # NoStart
    <2>1. shown' = shown /\ start' = pending
      BY <1>2 DEF CallStart
    <2>2. CameraOnlyWhileMonitoring' /\ MonitoringIsAlive'
      BY <1>2, <2>1 DEF CameraOnlyWhileMonitoring, MonitoringIsAlive, Locked
    <2>3. StartIsConsistent' /\ FreshStartIsWanted'
      BY <1>2, <2>1 DEF StartIsConsistent, FreshStartIsWanted, Locked
    <2>4. QED
      BY <2>2, <2>3 DEF Core
  <1>3. CASE /\ ~(shield' # "open" \/ hidden') /\ pending = NoStart
             /\ ~(shown = "monitoring" /\ camera' # "none")
    <2>1. /\ shown' = "starting"
          /\ start' = [phase |-> IF detector' = "none" THEN "detector" ELSE "camera",
                       stale |-> FALSE, created |-> detector' = "none",
                       det |-> detector', cam |-> "none"]
      BY <1>3 DEF CallStart
    <2>2. /\ start'.phase = IF detector' = "none" THEN "detector" ELSE "camera"
          /\ start'.cam = "none"
      BY <2>1
    <2>3. camera' = "none" /\ live' = {}
      BY <1>3, NoStartTyped DEF CoreType
    <2>4. CameraOnlyWhileMonitoring' /\ MonitoringIsAlive'
      BY <2>1, <2>3 DEF CameraOnlyWhileMonitoring, MonitoringIsAlive
    <2>5. StartIsConsistent' /\ FreshStartIsWanted'
      BY <1>3, <2>1, <2>2 DEF StartIsConsistent, FreshStartIsWanted, Locked
    <2>6. QED
      BY <2>4, <2>5 DEF Core
  <1>4. QED
    BY <1>1, <1>2, <1>3

(* The types that start() leaves.                                          *)
LEMMA StartedTyped ==
    ASSUME CoreType, NEW pending \in StartRecord, NEW cam,
           CallStart(pending, detector', cam),
           detector' \in open' \cup {"none"}, open' \subseteq Handles,
           pending.cam \in live' \cup {"none"}
    PROVE  /\ shown' \in MonitorStates /\ start' \in StartRecord
           /\ start'.cam \in live' \cup {"none"} /\ waiting' \in BOOLEAN
  <1>1. CASE start' = pending
    BY <1>1 DEF CallStart, CoreType, MonitorStates
  <1>2. CASE start' # pending
    <2>1. /\ shown' = "starting" /\ waiting' = waiting
          /\ start' = [phase |-> IF detector' = "none" THEN "detector" ELSE "camera",
                       stale |-> FALSE, created |-> detector' = "none",
                       det |-> detector', cam |-> "none"]
      BY <1>2, Zenon DEF CallStart
    <2>2. /\ detector' \in Handles \cup {"none"}
          /\ (IF detector' = "none" THEN "detector" ELSE "camera") \in {"detector", "camera"}
      OBVIOUS
    <2>3. (detector' = "none") \in BOOLEAN
      OBVIOUS
    <2>4. start' \in StartRecord /\ start'.cam = "none"
      BY <2>1, <2>2, <2>3 DEF StartRecord
    <2>5. QED
      BY <2>1, <2>4 DEF CoreType, MonitorStates
  <1>3. QED
    BY <1>1, <1>2

LEMMA CoreEnabled ==
    ASSUME Core, ~enabled, Enable
    PROVE  Core'
  <1>1. /\ CoreType /\ CameraOnlyWhileMonitoring /\ MonitoringIsAlive /\ StartIsConsistent
        /\ FreshStartIsWanted /\ start \in StartRecord
        /\ enabled' = TRUE
        /\ UNCHANGED <<disposed, shield, hidden, detector, open, camera, live, frame>>
    BY DEF Core, CoreType, Enable, page, resources
  <1>2. camera = "none" /\ (start # NoStart => start.stale)
    BY <1>1 DEF CameraOnlyWhileMonitoring, FreshStartIsWanted
  <1>3. CASE disposed
    <2>1. UNCHANGED <<shown, start, waiting>>
      BY <1>3 DEF Enable
    <2>2. CoreType'
      BY <1>1, <2>1 DEF CoreType
    <2>3. CameraOnlyWhileMonitoring' /\ MonitoringIsAlive'
      BY <1>1, <1>2, <1>3, <2>1 DEF CameraOnlyWhileMonitoring, MonitoringIsAlive
    <2>4. StartIsConsistent' /\ FreshStartIsWanted'
      BY <1>1, <1>2, <2>1 DEF StartIsConsistent, FreshStartIsWanted
    <2>5. QED
      BY <2>2, <2>3, <2>4 DEF Core
  <1>4. CASE ~disposed
    <2>1. CallStart(start, detector', camera')
      BY <1>1, <1>4 DEF Enable
    <2>2. CoreType'
      <3>1. /\ shown' \in MonitorStates /\ start' \in StartRecord
            /\ start'.cam \in live' \cup {"none"} /\ waiting' \in BOOLEAN
        BY <1>1, <2>1, StartedTyped DEF CoreType
      <3>2. QED
        BY <1>1, <3>1 DEF CoreType
    <2>3. /\ start.cam \in live' \cup {"none"} /\ live' \subseteq {camera', start.cam}
          /\ open' \subseteq {detector'} /\ camera' = "none"
          /\ shown # "monitoring"
          /\ start.phase = "none" => start = NoStart
          /\ start.cam # "none" <=> start.phase = "play"
          /\ start.phase = "detector" => detector' = "none"
      BY <1>1, <1>2, <1>4
         DEF CoreType, CameraOnlyWhileMonitoring, MonitoringIsAlive, StartIsConsistent
    <2>4. QED
      BY <1>1, <1>2, <1>4, <2>1, <2>2, <2>3, CoreStarted
  <1>5. QED
    BY <1>3, <1>4

(* resume, after the shield came down or the page came back.               *)
LEMMA CoreResumed ==
    ASSUME Core, Locked \/ hidden, Resume, UNCHANGED <<enabled, disposed>>,
           shield' \in {"open", "idle", "presence"}, hidden' \in BOOLEAN
    PROVE  Core'
  <1>1. /\ CoreType /\ CameraOnlyWhileMonitoring /\ MonitoringIsAlive /\ StartIsConsistent
        /\ FreshStartIsWanted /\ start \in StartRecord
        /\ UNCHANGED <<detector, open, camera, live, frame>>
    BY DEF Core, CoreType, Resume, resources
  <1>2. camera = "none" /\ (start # NoStart => start.stale)
    BY <1>1 DEF CameraOnlyWhileMonitoring, FreshStartIsWanted
  <1>3. CASE ~(enabled /\ ~disposed)
    <2>1. UNCHANGED <<shown, start, waiting>>
      BY <1>3 DEF Resume
    <2>2. CoreType'
      BY <1>1, <2>1 DEF CoreType
    <2>3. CameraOnlyWhileMonitoring' /\ MonitoringIsAlive'
      BY <1>1, <1>2, <1>3, <2>1 DEF CameraOnlyWhileMonitoring, MonitoringIsAlive
    <2>4. StartIsConsistent' /\ FreshStartIsWanted'
      BY <1>1, <1>2, <2>1 DEF StartIsConsistent, FreshStartIsWanted
    <2>5. QED
      BY <2>2, <2>3, <2>4 DEF Core
  <1>4. CASE enabled /\ ~disposed
    <2>1. CallStart(start, detector', camera')
      BY <1>1, <1>4 DEF Resume
    <2>2. CoreType'
      <3>1. /\ shown' \in MonitorStates /\ start' \in StartRecord
            /\ start'.cam \in live' \cup {"none"} /\ waiting' \in BOOLEAN
        BY <1>1, <2>1, StartedTyped DEF CoreType
      <3>2. QED
        BY <1>1, <3>1 DEF CoreType
    <2>3. /\ start.cam \in live' \cup {"none"} /\ live' \subseteq {camera', start.cam}
          /\ open' \subseteq {detector'} /\ camera' = "none"
          /\ shown # "monitoring"
          /\ start.phase = "none" => start = NoStart
          /\ start.cam # "none" <=> start.phase = "play"
          /\ start.phase = "detector" => detector' = "none"
      BY <1>1, <1>2, <1>4
         DEF CoreType, CameraOnlyWhileMonitoring, MonitoringIsAlive, StartIsConsistent
    <2>4. QED
      BY <1>1, <1>2, <1>4, <2>1, <2>2, <2>3, CoreStarted
  <1>5. QED
    BY <1>3, <1>4

(* Retry closes everything and starts again.                               *)
LEMMA CoreRetried ==
    ASSUME Core, Retry
    PROVE  Core'
  <1> DEFINE pending == Outdated(start)
  <1>1. /\ CoreType /\ CameraOnlyWhileMonitoring /\ MonitoringIsAlive /\ StartIsConsistent
        /\ start \in StartRecord /\ shown = "unavailable" /\ enabled /\ ~disposed
        /\ UNCHANGED <<enabled, disposed, shield, hidden>>
    BY DEF Core, CoreType, Retry, page
  <1>2. /\ detector' = "none" /\ open' = {} /\ camera' = "none" /\ frame' = FALSE
        /\ live' \subseteq {start.cam} /\ live' \subseteq Handles
        /\ start.cam \in live' \cup {"none"}
    BY CameraStopped, DetectorClosed DEF Retry
  <1>3. /\ pending \in StartRecord /\ pending.phase = start.phase /\ pending.cam = start.cam
        /\ pending = NoStart <=> start = NoStart
        /\ pending # NoStart => pending.stale
    BY <1>1, OutdatedStart
  <1>4. CallStart(pending, detector', camera')
    BY <1>2 DEF Retry
  <1> HIDE DEF pending
  <1>5. CoreType'
    <2>1. /\ shown' \in MonitorStates /\ start' \in StartRecord
          /\ start'.cam \in live' \cup {"none"} /\ waiting' \in BOOLEAN
      BY <1>1, <1>2, <1>3, <1>4, StartedTyped
    <2>2. QED
      BY <1>1, <1>2, <2>1 DEF CoreType
  <1>6. /\ pending.phase = "none" => pending = NoStart
        /\ pending.cam # "none" <=> pending.phase = "play"
    BY <1>1, <1>3 DEF StartIsConsistent
  <1>7. QED
    BY <1>1, <1>2, <1>3, <1>4, <1>5, <1>6, CoreStarted

-----------------------------------------------------------------------------
(* The pending start, an await at a time.                                  *)
LEMMA FreshHandle ==
    ASSUME NEW used \in SUBSET Handles, used = {}
    PROVE  Fresh(used) \in Handles
  BY DEF Fresh

LEMMA CoreDetector ==
    ASSUME Core, DetectorCreated
    PROVE  Core'
  <1> DEFINE d == Fresh(open)
  <1>1. /\ CoreType /\ CameraOnlyWhileMonitoring /\ MonitoringIsAlive /\ StartIsConsistent
        /\ FreshStartIsWanted /\ start \in StartRecord /\ start.phase = "detector"
        /\ start # NoStart
        /\ UNCHANGED <<shown, enabled, disposed, shield, hidden, camera, live, frame, waiting>>
    BY NoStartTyped DEF Core, CoreType, DetectorCreated, page
  <1>2. detector = "none" /\ open = {} /\ start.cam = "none" /\ camera = "none" /\ live = {}
    BY <1>1 DEF CoreType, CameraOnlyWhileMonitoring, MonitoringIsAlive, StartIsConsistent
  <1>3. CASE Lost
    <2>1. start' = NoStart /\ UNCHANGED <<detector, open>>
      BY <1>3 DEF DetectorCreated, StartEnds
    <2>2. CoreType'
      BY <1>1, <2>1, NoStartTyped DEF CoreType
    <2>3. CameraOnlyWhileMonitoring' /\ MonitoringIsAlive'
      BY <1>1, <1>2, <2>1 DEF CameraOnlyWhileMonitoring, MonitoringIsAlive
    <2>4. StartIsConsistent' /\ FreshStartIsWanted'
      BY <2>1, NoStartTyped DEF StartIsConsistent, FreshStartIsWanted
    <2>5. QED
      BY <2>2, <2>3, <2>4 DEF Core
  <1>4. CASE ~Lost
    <2>1. /\ detector' = d /\ open' = open \cup {d} /\ d \in Handles /\ d # "none"
          /\ start' = [start EXCEPT !.phase = "camera", !.det = d]
      BY <1>2, <1>4, FreshHandle DEF DetectorCreated
    <2> HIDE DEF d
    <2>2. /\ start' \in StartRecord /\ start'.phase = "camera" /\ start'.cam = start.cam
          /\ start'.stale = start.stale
      BY <1>1, <2>1 DEF StartRecord
    <2>3. enabled /\ ~disposed /\ ~start.stale
      BY <1>4 DEF Lost
    <2>4. CoreType'
      BY <1>1, <1>2, <2>1, <2>2 DEF CoreType
    <2>5. CameraOnlyWhileMonitoring' /\ MonitoringIsAlive'
      BY <1>1, <1>2, <2>1, <2>2, <2>3
         DEF CameraOnlyWhileMonitoring, MonitoringIsAlive, FreshStartIsWanted
    <2>6. StartIsConsistent' /\ FreshStartIsWanted'
      BY <1>1, <1>2, <2>1, <2>2, <2>3 DEF StartIsConsistent, FreshStartIsWanted, Locked
    <2>7. QED
      BY <2>4, <2>5, <2>6 DEF Core
  <1>5. QED
    BY <1>3, <1>4

LEMMA CoreAcquired ==
    ASSUME Core, CameraAcquired
    PROVE  Core'
  <1> DEFINE c == Fresh(live)
  <1>1. /\ CoreType /\ CameraOnlyWhileMonitoring /\ MonitoringIsAlive /\ StartIsConsistent
        /\ FreshStartIsWanted /\ start \in StartRecord /\ start.phase = "camera"
        /\ start # NoStart
        /\ UNCHANGED <<shown, enabled, disposed, shield, hidden, detector, open, camera, frame,
                       waiting>>
    BY NoStartTyped DEF Core, CoreType, CameraAcquired, page
  <1>2. start.cam = "none" /\ camera = "none" /\ live = {}
    BY <1>1 DEF CoreType, CameraOnlyWhileMonitoring, StartIsConsistent
  <1>3. /\ live' = {c} /\ c \in Handles
        /\ start' = [start EXCEPT !.phase = "play", !.cam = c]
    BY <1>2, FreshHandle DEF CameraAcquired
  <1> HIDE DEF c
  <1>4. /\ start' \in StartRecord /\ start'.phase = "play" /\ start'.cam = c
        /\ start'.stale = start.stale
    BY <1>1, <1>3 DEF StartRecord
  <1>5. CoreType'
    BY <1>1, <1>2, <1>3, <1>4 DEF CoreType
  <1>6. CameraOnlyWhileMonitoring' /\ MonitoringIsAlive'
    BY <1>1, <1>2, <1>3, <1>4 DEF CameraOnlyWhileMonitoring, MonitoringIsAlive
  <1>7. StartIsConsistent' /\ FreshStartIsWanted'
    BY <1>1, <1>3, <1>4 DEF StartIsConsistent, FreshStartIsWanted, Locked
  <1>8. QED
    BY <1>5, <1>6, <1>7 DEF Core

(* The camera plays: it becomes the monitor's, or is released with what a  *)
(* lost start created.                                                     *)
LEMMA CorePlays ==
    ASSUME Core, CameraPlays
    PROVE  Core'
  <1>1. /\ CoreType /\ CameraOnlyWhileMonitoring /\ MonitoringIsAlive /\ StartIsConsistent
        /\ FreshStartIsWanted /\ start \in StartRecord /\ start.phase = "play"
        /\ start # NoStart /\ start' = NoStart
        /\ UNCHANGED <<enabled, disposed, shield, hidden, waiting>>
    BY NoStartTyped DEF Core, CoreType, CameraPlays, StartEnds, page
  <1>2. camera = "none" /\ live \subseteq {start.cam}
    BY <1>1 DEF CoreType, CameraOnlyWhileMonitoring
  <1>3. StartIsConsistent' /\ FreshStartIsWanted'
    BY <1>1, NoStartTyped DEF StartIsConsistent, FreshStartIsWanted
  <1>4. CASE Lost
    <2>1. /\ live' = {} /\ UNCHANGED <<shown, camera, frame>>
          /\ \/ detector' = "none" /\ open' = open \ {detector}
             \/ UNCHANGED <<detector, open>>
      BY <1>2, <1>4 DEF CameraPlays, CloseDetector
    <2>2. CoreType'
      BY <1>1, <1>2, <2>1, NoStartTyped DEF CoreType
    <2>3. open' \subseteq {detector'} /\ (~enabled => open' = {})
      BY <1>1, <2>1 DEF MonitoringIsAlive
    <2>4. shown = "monitoring" => disposed
      BY <1>1, <1>2 DEF MonitoringIsAlive, CoreType
    <2>5. CameraOnlyWhileMonitoring' /\ MonitoringIsAlive'
      BY <1>1, <1>2, <2>1, <2>3, <2>4 DEF CameraOnlyWhileMonitoring, MonitoringIsAlive
    <2>6. QED
      BY <1>3, <2>2, <2>5 DEF Core
  <1>5. CASE ~Lost
    <2>1. /\ camera' = start.cam /\ shown' = "monitoring" /\ frame' = TRUE
          /\ UNCHANGED <<live, detector, open>>
      BY <1>5 DEF CameraPlays
    <2>2. /\ enabled /\ ~disposed /\ ~start.stale /\ ~Locked /\ ~hidden
          /\ detector # "none"
      BY <1>1, <1>5 DEF Lost, FreshStartIsWanted
    <2>3. start.cam \in live
      BY <1>1 DEF StartIsConsistent, CoreType
    <2>4. CoreType'
      BY <1>1, <2>1, <2>3, NoStartTyped DEF CoreType, MonitorStates
    <2>5. CameraOnlyWhileMonitoring'
      BY <1>1, <1>2, <2>1, <2>2 DEF CameraOnlyWhileMonitoring, Locked
    <2>6. MonitoringIsAlive'
      BY <1>1, <2>1, <2>2, <2>3 DEF MonitoringIsAlive, CoreType
    <2>7. QED
      BY <1>3, <2>4, <2>5, <2>6 DEF Core
  <1>6. QED
    BY <1>4, <1>5

LEMMA CoreFailed ==
    ASSUME Core, CreationFails
    PROVE  Core'
  <1>1. /\ CoreType /\ CameraOnlyWhileMonitoring /\ MonitoringIsAlive
        /\ FreshStartIsWanted /\ start # NoStart /\ start' = NoStart
        /\ UNCHANGED <<enabled, disposed, shield, hidden, waiting>>
    BY DEF Core, CreationFails, StartEnds, page
  <1>2. camera = "none" /\ live \subseteq {start.cam}
    BY <1>1 DEF CoreType, CameraOnlyWhileMonitoring
  <1>3. StartIsConsistent' /\ FreshStartIsWanted'
    <2>1. start'.phase = "none" /\ start'.cam = "none"
      BY <1>1, NoStartTyped
    <2>2. QED
      BY <1>1, <2>1 DEF StartIsConsistent, FreshStartIsWanted
  <1>4. CASE start.stale \/ disposed
    <2>1. live' = {} /\ UNCHANGED <<shown, detector, open, camera, frame>>
      BY <1>2, <1>4 DEF CreationFails
    <2>2. shown = "monitoring" => disposed
      BY <1>1, <1>2 DEF MonitoringIsAlive, CoreType
    <2>3. CoreType'
      BY <1>1, <1>2, <2>1, NoStartTyped DEF CoreType
    <2>4. CameraOnlyWhileMonitoring' /\ MonitoringIsAlive'
      BY <1>1, <1>2, <2>1, <2>2 DEF CameraOnlyWhileMonitoring, MonitoringIsAlive
    <2>5. QED
      BY <1>3, <2>3, <2>4 DEF Core
  <1>5. CASE ~(start.stale \/ disposed)
    <2>1. /\ shown' = "unavailable" /\ live' = {} /\ camera' = "none" /\ frame' = FALSE
          /\ CloseDetector
      BY <1>2, <1>5 DEF CreationFails
    <2>2. detector' = "none" /\ open' = {}
      BY <2>1, DetectorClosed
    <2>3. CoreType'
      BY <1>1, <2>1, <2>2, NoStartTyped DEF CoreType, MonitorStates
    <2>4. CameraOnlyWhileMonitoring' /\ MonitoringIsAlive'
      BY <2>1, <2>2 DEF CameraOnlyWhileMonitoring, MonitoringIsAlive
    <2>5. QED
      BY <1>3, <2>3, <2>4 DEF Core
  <1>6. QED
    BY <1>4, <1>5

LEMMA CoreContinued ==
    ASSUME Core, WaiterContinues
    PROVE  Core'
  <1>1. /\ CoreType /\ CameraOnlyWhileMonitoring /\ MonitoringIsAlive /\ start = NoStart
        /\ UNCHANGED <<enabled, disposed, shield, hidden, detector, open, camera, live, frame>>
        /\ UNCHANGED <<enabled, page, resources>>
    BY DEF Core, WaiterContinues, page, resources
  <1>2. waiting' = FALSE
    BY DEF WaiterContinues
  <1>3. CASE UNCHANGED <<shown, start>>
    BY <1>1, <1>2, <1>3, CoreKept
  <1>4. CASE ~UNCHANGED <<shown, start>>
    <2>1. /\ ~disposed /\ enabled /\ shown # "monitoring" /\ ~Locked /\ ~hidden
          /\ shown' = "starting"
          /\ start' = [NoStart EXCEPT
                         !.phase = IF detector = "none" THEN "detector" ELSE "camera",
                         !.created = detector = "none", !.det = detector]
      BY <1>4, Zenon DEF WaiterContinues
    <2>2. PICK phase \in {"detector", "camera"}, created \in BOOLEAN :
            /\ start' = [NoStart EXCEPT !.phase = phase, !.created = created, !.det = detector]
            /\ phase = "detector" <=> detector = "none"
      <3>1. (IF detector = "none" THEN "detector" ELSE "camera") \in {"detector", "camera"}
        OBVIOUS
      <3>2. (detector = "none") \in BOOLEAN
        OBVIOUS
      <3>3. (IF detector = "none" THEN "detector" ELSE "camera") = "detector" <=> detector = "none"
        OBVIOUS
      <3>4. QED
        BY <2>1, <3>1, <3>2, <3>3, Zenon
    <2>3. /\ start' \in StartRecord /\ start'.phase = phase /\ start'.cam = "none"
          /\ ~start'.stale
      <3>1. detector \in Handles \cup {"none"}
        BY <1>1 DEF CoreType
      <3>2. QED
        BY <2>2, <3>1, NoStartTyped DEF StartRecord
    <2>4. camera = "none" /\ live = {}
      BY <1>1, <2>1, NoStartTyped DEF CoreType, CameraOnlyWhileMonitoring
    <2>5. CoreType'
      BY <1>1, <1>2, <2>1, <2>3 DEF CoreType, MonitorStates
    <2>6. CameraOnlyWhileMonitoring' /\ MonitoringIsAlive'
      BY <1>1, <2>1, <2>4 DEF CameraOnlyWhileMonitoring, MonitoringIsAlive
    <2>7. StartIsConsistent' /\ FreshStartIsWanted'
      BY <1>1, <2>1, <2>2, <2>3 DEF StartIsConsistent, FreshStartIsWanted, Locked
    <2>8. QED
      BY <2>5, <2>6, <2>7 DEF Core
  <1>5. QED
    BY <1>3, <1>4

-----------------------------------------------------------------------------
LEMMA CoreStep ==
    ASSUME Core, Side, [PresenceNext]_presenceVars
    PROVE  Core'
  <1>0. /\ CoreType /\ MonitoringIsAlive /\ EnabledOnce
    BY DEF Core, Side
  <1>1. CASE Bootstrap \/ (toggle = "saveOn" /\ Enable)
    BY <1>0, <1>1, CoreEnabled DEF Bootstrap, EnabledOnce
  <1>2. CASE ToggleClick \/ PreferenceNotSaved \/ ToggleReleased
    BY <1>0, <1>2, CoreKept DEF ToggleClick, PreferenceNotSaved, ToggleReleased, CoreType
  <1>3. CASE Disable
    BY <1>0, <1>3, CoreStopped DEF Disable, StopRuntime, MonitorStates, CoreType, page
  <1>4. CASE Retry
    BY <1>4, CoreRetried
  <1>5. CASE IdleShield
    <2>1. hidden' \in BOOLEAN /\ shield' \in {"open", "idle", "presence"} /\ Pause("shielded")
      BY <1>0, <1>5 DEF IdleShield, CoreType
    <2>2. QED
      BY <1>5, <2>1, CorePaused DEF IdleShield
  <1>6. CASE Hide
    <2>1. hidden' \in BOOLEAN /\ shield' \in {"open", "idle", "presence"} /\ Pause("paused")
      BY <1>0, <1>6 DEF Hide, CoreType
    <2>2. QED
      BY <1>6, <2>1, CorePaused DEF Hide
  <1>7. CASE Reveal \/ Show
    <2>1. hidden' \in BOOLEAN /\ shield' \in {"open", "idle", "presence"}
      BY <1>0, <1>7 DEF Reveal, Show, CoreType
    <2>2. QED
      BY <1>7, <2>1, CoreResumed DEF Reveal, Show, Locked
  <1>8. CASE Dispose
    BY <1>0, <1>8, CoreStopped DEF Dispose, StopRuntime, CoreType
  <1>9. CASE StartSettles
    BY <1>9, CoreDetector, CoreAcquired, CorePlays, CoreFailed, CoreContinued DEF StartSettles
  <1>10. CASE Fail
    BY <1>0, <1>10, CoreStopped DEF Fail, StopRuntime, MonitorStates, CoreType, page
  <1>11. CASE FrameFace \/ FrameNoFace \/ (FrameError /\ ~Fail) \/ TimePassesOnPage
    BY <1>0, <1>11, CoreKept DEF FrameFace, FrameNoFace, FrameError, TimePassesOnPage, CoreType
  <1>12. CASE FrameObscures
    <2>1. hidden' \in BOOLEAN /\ shield' \in {"open", "idle", "presence"} /\ Pause("shielded")
      BY <1>0, <1>12 DEF FrameObscures, CoreType
    <2>2. QED
      BY <1>12, <2>1, CorePaused DEF FrameObscures
  <1>13. CASE UNCHANGED presenceVars
    BY <1>0, <1>13, CoreKept DEF presenceVars, page, resources, CoreType
  <1>14. QED
    BY <1>1, <1>2, <1>3, <1>4, <1>5, <1>6, <1>7, <1>8, <1>9, <1>10, <1>11, <1>12, <1>13
       DEF PresenceNext, PreferenceSaved, FrameProcessed, TrackEnded

-----------------------------------------------------------------------------
(* The camera is off: nobody watches.                                      *)
LEMMA Unwatched ==
    ASSUME Core, camera' \in {camera, "none"}, ~enabled \/ Locked \/ hidden \/ camera' = "none"
    PROVE  WatchedIsCalm'
  <1>1. camera' = "none"
    BY DEF Core, CameraOnlyWhileMonitoring
  <1>2. QED
    BY <1>1 DEF WatchedIsCalm

LEMMA TimingKept ==
    ASSUME Side, UNCHANGED <<absent, grace, calm>>, camera' \in {camera, "none"}
    PROVE  WatchedIsCalm'
  BY DEF Side, WatchedIsCalm

LEMMA SideTypeStep ==
    ASSUME Core, Side, [PresenceNext]_presenceVars
    PROVE  SideType'
  <1>0. /\ SideType /\ absent \in -1..Absence /\ grace \in 0..Grace /\ calm \in 0..Absence
        /\ errors \in 0..(MaxErrors - 1)
        /\ Grace \in 0..Grace /\ 0 \in 0..Grace /\ -1 \in -1..Absence /\ 0 \in 0..Absence
        /\ 0 \in -1..Absence /\ 0 \in 0..(MaxErrors - 1)
    BY DEF Side, SideType
  <1>1. toggle' \in {"boot", "idle", "saveOn", "saveOff", "await"}
    <2>1. toggle' \in {toggle, "idle", "saveOn", "saveOff", "await"}
      BY DEF presenceVars, PresenceNext, Bootstrap, ToggleClick, PreferenceSaved, PreferenceNotSaved,
             ToggleReleased, Retry, IdleShield, Reveal, Hide, Show, Dispose, StartSettles,
             DetectorCreated, CameraAcquired, CameraPlays, CreationFails, WaiterContinues,
             FrameProcessed, FrameFace, FrameNoFace, FrameObscures, FrameError, TrackEnded, Fail,
             TimePassesOnPage
    <2>2. QED
      BY <1>0, <2>1 DEF SideType
  <1>2. CASE TimePassesOnPage
    <2>1. /\ grace' \in 0..Grace /\ absent' \in -1..Absence /\ calm' \in 0..Absence
      BY <1>0, <1>2 DEF TimePassesOnPage
    <2>2. UNCHANGED <<issued, errors>>
      BY <1>2 DEF TimePassesOnPage
    <2>3. QED
      BY <1>0, <1>1, <2>1, <2>2 DEF SideType
  <1>3. CASE FrameError /\ ~Fail
    <2>1. errors + 1 < MaxErrors /\ errors' = errors + 1 /\ UNCHANGED <<absent, grace, issued, calm>>
      BY <1>0, <1>3 DEF FrameError
    <2>2. errors' \in 0..(MaxErrors - 1)
      BY <1>0, <2>1
    <2>3. QED
      BY <1>0, <1>1, <2>1, <2>2 DEF SideType
  <1>4. CASE ~TimePassesOnPage /\ ~(FrameError /\ ~Fail)
    <2> USE DEF presenceVars, timing, PresenceNext, Bootstrap, ToggleClick, PreferenceSaved,
                PreferenceNotSaved, ToggleReleased, Retry, IdleShield, Reveal, Hide, Show, Dispose,
                StartSettles, DetectorCreated, CameraAcquired, CameraPlays, CreationFails,
                WaiterContinues, FrameProcessed, FrameFace, FrameNoFace, FrameObscures, FrameError,
                TrackEnded, Fail, Enable, Disable, Resume, StopRuntime
    <2>1. grace' \in {grace, Grace}
      BY <1>4
    <2>2. absent' \in {absent, -1, 0}
      BY <1>4
    <2>3. calm' \in {calm, 0}
      BY <1>4
    <2>4. errors' \in {errors, 0}
      BY <1>4
    <2>5. issued' \in {issued, TRUE, FALSE}
      BY <1>4
    <2>6. QED
      BY <1>0, <1>1, <2>1, <2>2, <2>3, <2>4, <2>5, Zenon DEF SideType
  <1>5. QED
    BY <1>2, <1>3, <1>4

LEMMA EnabledOnceStep ==
    ASSUME Core, Side, [PresenceNext]_presenceVars
    PROVE  EnabledOnce'
  <1>0. EnabledOnce
    BY DEF Side
  <1>1. CASE Bootstrap \/ ToggleClick \/ PreferenceSaved \/ PreferenceNotSaved \/ ToggleReleased
    BY <1>1 DEF Bootstrap, ToggleClick, PreferenceSaved, PreferenceNotSaved, ToggleReleased,
                EnabledOnce
  <1>2. CASE toggle' = toggle /\ enabled' \in {enabled, FALSE}
    BY <1>0, <1>2 DEF EnabledOnce
  <1>3. QED
    BY <1>1, <1>2
       DEF presenceVars, PresenceNext, Retry, IdleShield, Reveal, Hide, Show, Dispose, StartSettles,
           DetectorCreated, CameraAcquired, CameraPlays, CreationFails, WaiterContinues,
           FrameProcessed, FrameFace, FrameNoFace, FrameObscures, FrameError, TrackEnded, Fail,
           TimePassesOnPage

(* An absence is counted from the first frame without a face after the     *)
(* grace, and calm from the moment the grace is over.                      *)
LEMMA WatchedStep ==
    ASSUME Core, Side, [PresenceNext]_presenceVars
    PROVE  WatchedIsCalm'
  <1>0. /\ EnabledOnce /\ WatchedIsCalm /\ absent \in -1..Absence /\ grace \in 0..Grace
        /\ calm \in 0..Absence
    BY DEF Side, SideType
  <1>1. CASE Bootstrap \/ (toggle = "saveOn" /\ Enable)
    <2>1. ~enabled /\ camera' = camera
      BY <1>0, <1>1 DEF Bootstrap, Enable, EnabledOnce, resources
    <2>2. QED
      BY <2>1, Unwatched
  <1>2. CASE Reveal \/ Show
    <2>1. (Locked \/ hidden) /\ camera' = camera
      BY <1>2 DEF Reveal, Show, Resume, resources, Locked
    <2>2. QED
      BY <2>1, Unwatched
  <1>3. CASE Disable \/ Fail \/ Retry \/ Dispose
    <2>1. camera' = "none"
      BY <1>3 DEF Disable, Fail, Retry, Dispose, StopRuntime, StopCamera
    <2>2. QED
      BY <2>1, Unwatched
  <1>4. CASE IdleShield \/ Hide \/ FrameObscures
    <2>1. UNCHANGED <<absent, grace, calm>> /\ camera' \in {camera, "none"}
      BY <1>4 DEF IdleShield, Hide, FrameObscures, Pause, StopCamera, timing
    <2>2. QED
      BY <2>1, TimingKept
  <1>5. CASE \/ ToggleClick \/ PreferenceNotSaved \/ ToggleReleased
             \/ DetectorCreated \/ CameraAcquired \/ WaiterContinues \/ (FrameError /\ ~Fail)
             \/ UNCHANGED presenceVars
    <2>1. UNCHANGED <<absent, grace, calm>> /\ camera' \in {camera, "none"}
      BY <1>5 DEF ToggleClick, PreferenceNotSaved, ToggleReleased, DetectorCreated, CameraAcquired,
                  WaiterContinues, FrameError, presenceVars, timing, resources
    <2>2. QED
      BY <2>1, TimingKept
  <1>6. CASE CameraPlays
    <2>1. CASE Lost
      <3>1. UNCHANGED <<absent, grace, calm>> /\ camera' \in {camera, "none"}
        BY <1>6, <2>1 DEF CameraPlays, timing
      <3>2. QED
        BY <3>1, TimingKept
    <2>2. CASE ~Lost
      <3>1. absent' = -1 /\ calm' = 0
        BY <1>6, <2>2 DEF CameraPlays
      <3>2. QED
        BY <3>1 DEF WatchedIsCalm
    <2>3. QED
      BY <2>1, <2>2
  <1>7. CASE CreationFails
    <2>1. camera = "none"
      BY <1>7 DEF Core, CameraOnlyWhileMonitoring, CreationFails
    <2>2. camera' = "none"
      BY <1>7, <2>1 DEF CreationFails
    <2>3. QED
      BY <2>2, Unwatched
  <1>8. CASE FrameFace
    <2>1. absent' = -1 /\ calm' = 0
      BY <1>8 DEF FrameFace
    <2>2. QED
      BY <2>1 DEF WatchedIsCalm
  <1>9. CASE FrameNoFace
    <2>1. /\ absent' = IF grace > 0 THEN -1 ELSE IF absent = -1 THEN 0 ELSE absent
          /\ grace' = grace /\ calm' = calm /\ camera' = camera
      BY <1>9 DEF FrameNoFace, resources
    <2>2. QED
      BY <1>0, <2>1 DEF WatchedIsCalm
  <1>10. CASE TimePassesOnPage
    <2> SUFFICES ASSUME camera' # "none"
                 PROVE  (grace' > 0 => absent' = -1) /\ absent' <= calm'
      BY DEF WatchedIsCalm
    <2>1. camera # "none" /\ (grace > 0 => absent = -1) /\ absent <= calm
      BY <1>0, <1>10 DEF TimePassesOnPage, resources, WatchedIsCalm
    <2>2. CASE grace > 0
      <3>1. absent' = -1 /\ calm' = 0
        BY <1>10, <2>1, <2>2 DEF TimePassesOnPage
      <3>2. QED
        BY <3>1
    <2>3. CASE ~(grace > 0)
      <3>1. /\ grace' = 0
            /\ absent' = IF absent \in 0..(Absence - 1) THEN absent + 1 ELSE absent
            /\ calm' = IF calm < Absence THEN calm + 1 ELSE calm
        BY <1>10, <2>1, <2>3 DEF TimePassesOnPage
      <3>2. QED
        BY <1>0, <2>1, <3>1
    <2>4. QED
      BY <2>2, <2>3
  <1>11. QED
    BY <1>1, <1>2, <1>3, <1>4, <1>5, <1>6, <1>7, <1>8, <1>9, <1>10
       DEF PresenceNext, PreferenceSaved, StartSettles, FrameProcessed, TrackEnded

LEMMA PresenceStepInvariant ==
    ASSUME Core, Side, [PresenceNext]_presenceVars
    PROVE  Core' /\ Side'
  <1>1. Core'
    BY CoreStep
  <1>2. Side'
    BY SideTypeStep, EnabledOnceStep, WatchedStep DEF Side
  <1>3. QED
    BY <1>1, <1>2

LEMMA PresenceInvariant == PresenceSpec => [](Core /\ Side)
  <1>1. (Core /\ Side) /\ [PresenceNext]_presenceVars => (Core /\ Side)'
    BY PresenceStepInvariant
  <1>2. QED
    BY PresenceInitInvariant, <1>1, PTL DEF PresenceSpec

(* The variables of the controller and of the page keep their types, and no*)
(* more errors are counted than the monitor tolerates.                     *)
THEOREM PresenceTypeCorrect == PresenceSpec => []PresenceTypeOK
  <1>1. Core /\ Side => PresenceTypeOK
    BY Halves DEF PresenceInv
  <1>2. QED
    BY PresenceInvariant, <1>1, PTL

(* No order of toggling, hiding, shielding, failing and leaving the page   *)
(* leaves a camera stream on that is not the monitor's or a pending        *)
(* start's (stopCamera, and the generation checks of start).               *)
THEOREM CameraReleased == PresenceSpec => []CameraOnlyWhileMonitoring
  <1>1. Core => CameraOnlyWhileMonitoring
    BY DEF Core
  <1>2. QED
    BY PresenceInvariant, <1>1, PTL

(* Monitoring is shown only with camera, model and next frame; nothing is  *)
(* open once it is disabled (start, stopRuntime).                          *)
THEOREM MonitoringWorks == PresenceSpec => []MonitoringIsAlive
  <1>1. Core => MonitoringIsAlive
    BY DEF Core
  <1>2. QED
    BY PresenceInvariant, <1>1, PTL

(* processFrame obscures the session only after the monitor has watched a  *)
(* whole absence, without grace and without a face.                        *)
THEOREM ObscuredAfterAbsence == PresenceSpec => ObscuresOnlyAfterAbsence
  <1>1. ASSUME Core, Side, [PresenceNext]_presenceVars, shield = "open", shield' = "presence"
        PROVE  calm >= Absence
    <2>1. FrameObscures
      BY <1>1
         DEF presenceVars, page, PresenceNext, Bootstrap, ToggleClick, PreferenceSaved,
             PreferenceNotSaved, ToggleReleased, Retry, IdleShield, Reveal, Hide, Show, Dispose,
             StartSettles, DetectorCreated, CameraAcquired, CameraPlays, CreationFails,
             WaiterContinues, FrameProcessed, FrameFace, FrameNoFace, FrameError, TrackEnded, Fail,
             TimePassesOnPage, Enable, Disable
    <2>2. camera # "none" /\ absent >= Absence
      BY <2>1 DEF FrameObscures, Processed
    <2>3. absent <= calm /\ absent \in Int /\ calm \in Int
      BY <1>1, <2>2 DEF Side, SideType, WatchedIsCalm
    <2>4. QED
      BY <2>2, <2>3
  <1>2. (Core /\ Side) /\ [PresenceNext]_presenceVars =>
           [shield = "open" /\ shield' = "presence" => calm >= Absence]_presenceVars
    BY <1>1
  <1>3. QED
    BY PresenceInvariant, <1>2, PTL DEF PresenceSpec, ObscuresOnlyAfterAbsence

HIDE PresenceAssumption

-----------------------------------------------------------------------------
(* The desk.  A behaviour of the run is one of each component: the others  *)
(* rest in an initial state, so what is proved of a component holds of the *)
(* desk as the run composes it.                                            *)
THEOREM DeskImplements == Spec => DispatchSpec /\ SessionSpec /\ PresenceSpec
  <1>1. Init => DispatchInit /\ SessionInit /\ PresenceInit
    BY DEF Init
  <1>2. [Next]_deskVars =>
           [DispatchNext]_dispatchVars /\ [SessionNext]_sessionVars /\ [PresenceNext]_presenceVars
    <2>1. ASSUME Next
          PROVE  /\ DispatchNext \/ UNCHANGED dispatchVars
                 /\ SessionNext \/ UNCHANGED sessionVars
                 /\ PresenceNext \/ UNCHANGED presenceVars
      BY <2>1, Zenon DEF Next
    <2>2. ASSUME UNCHANGED deskVars
          PROVE  UNCHANGED dispatchVars /\ UNCHANGED sessionVars /\ UNCHANGED presenceVars
      BY <2>2 DEF deskVars
    <2>3. QED
      BY <2>1, <2>2, Zenon
  <1>3. QED
    BY <1>1, <1>2, PTL DEF Spec, DispatchSpec, SessionSpec, PresenceSpec

(* The register, the sessions and the monitor keep their types in every    *)
(* behaviour of the desk.                                                  *)
THEOREM DeskTypeCorrect == Spec => []DeskTypeOK
  <1>1. PresenceTypeOK /\ SessionTypeOK /\ DispatchTypeOK => DeskTypeOK
    BY DEF DeskTypeOK
  <1>2. QED
    BY <1>1, DeskImplements, DispatchTypeCorrect, SessionTypeCorrect, PresenceTypeCorrect, PTL
=============================================================================
