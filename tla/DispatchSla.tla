------------------------------ MODULE DispatchSla ------------------------------
(***************************************************************************)
(* The register of one notice after it left the drafting workflow:         *)
(* dispatch_workflow.py, dispatch_tracker.py and the /dispatch-tracker     *)
(* handlers of app/main.py, with the dispatch and the routing of the notice*)
(* and the reset at a logout as far as they touch the record.              *)
(*                                                                         *)
(* The handlers that change the record are async and do not interrupt each *)
(* other once their form is read.  The register page runs in a thread: it  *)
(* loads the records, and commits the breaches it finds later; its commit  *)
(* writes the columns it changed.                                          *)
(*                                                                         *)
(* Abstractions.  One notice, with access granted and a supervising ACP    *)
(* that stays the same.  dispatched_ts_ms of the record is set together    *)
(* with sla_due_ts_ms and not kept apart; its assigned_io_pis follows the  *)
(* assignment of the case.  Times are bounded by MaxTime; the texts of     *)
(* notes and reasons, filters, sorting and the exports of the register are *)
(* left out, and so are nudges, which add a Dispatch row and nothing else. *)
(***************************************************************************)
EXTENDS Integers, FiniteSets

CONSTANTS Officers,       \* active officers who may own the record
          FirstIo,        \* assigned_io_pis at first
          Window,         \* sla_window_minutes
          MaxTime,        \* bound on the clock
          MaxLevel        \* bound on the escalations

ASSUME DispatchAssumption ==
    /\ FirstIo \in Officers
    /\ Window \in Nat /\ MaxTime \in Nat /\ MaxLevel \in Nat

VARIABLES clock,
          record,       \* the DispatchRecord of the notice
          tracker,      \* Notice.tracker_status
          assignedIo,   \* CaseAssignment.assigned_io_pis
          escalations,  \* CaseEscalationAssignment rows
          view          \* the SLA columns as the register page has loaded them, or NoView

dispatchVars == <<clock, record, tracker, assignedIo, escalations, view>>

-----------------------------------------------------------------------------
TerminalSlaStages == {"acknowledged", "rejected", "closed", "responded"}
ManualStatuses == {"drafted", "dispatched", "acknowledged", "responded", "escalated"}
RoutedStages == {"awaiting_countersignature", "countersigned"}
Stages == TerminalSlaStages \cup ManualStatuses \cup RoutedStages \cup {"none"}

(* -1 is None.  due and frozen are sla_due_ts_ms, sla_frozen_remaining_ms; *)
(* breach is a set sla_breach_audit_event_id.                              *)
Stamp == -1..(MaxTime + Window)
DispatchRecord == [stage: Stages, due: Stamp, frozen: Stamp, breach: BOOLEAN,
                   owner: Officers, level: 0..MaxLevel]

NoRecord == [stage |-> "none", due |-> -1, frozen |-> -1, breach |-> FALSE,
             owner |-> FirstIo, level |-> 0]

SlaColumns(r) == [due |-> r.due, frozen |-> r.frozen, breach |-> r.breach]

NoView == [due |-> -2, frozen |-> -1, breach |-> FALSE]

Exists == record # NoRecord

DispatchInit ==
    /\ clock = 0 /\ record = NoRecord
    /\ tracker = "drafted"
    /\ assignedIo = FirstIo /\ escalations = {} /\ view = NoView

-----------------------------------------------------------------------------
(* ensure_dispatch_record without a time, then the stage the route or the  *)
(* countersignature sets.                                                  *)
Ensured == IF Exists THEN record
           ELSE [NoRecord EXCEPT !.stage = "drafted", !.owner = assignedIo]

RouteRecord ==
    \E stage \in RoutedStages :
       /\ record' = [Ensured EXCEPT !.stage = stage]
       /\ UNCHANGED <<clock, tracker, assignedIo, escalations, view>>

(* dispatch_notice: the record is stamped when it has no stamp yet.        *)
DispatchNotice ==
    /\ record' = IF Ensured.due # -1 THEN record
                 ELSE [Ensured EXCEPT !.due = clock + Window, !.stage = "dispatched"]
    /\ tracker' = "dispatched"
    /\ UNCHANGED <<clock, assignedIo, escalations, view>>

Remaining(r) == IF r.due = -1 \/ r.due < clock THEN 0 ELSE r.due - clock

(* set_dispatch_stage: a stage that stops the SLA freezes what is left.    *)
Staged(r, stage) ==
    [r EXCEPT !.stage = stage,
              !.due = IF stage = "dispatched" /\ @ = -1 THEN clock + Window ELSE @,
              !.frozen = IF stage \in TerminalSlaStages /\ @ = -1 THEN Remaining(r) ELSE @]

(* update_dispatch_tracker_status: any status, in any order.               *)
UpdateStatus ==
    \E status \in ManualStatuses :
       /\ tracker' = status
       /\ record' = IF Exists /\ status # "escalated" THEN Staged(record, status) ELSE record
       /\ UNCHANGED <<clock, assignedIo, escalations, view>>

(* escalate_dispatch, under the unique key of record and level.            *)
EscalateDispatch(owner) ==
    LET level == record.level + 1 IN
    /\ \A e \in escalations : e.level # level
    /\ record' = [record EXCEPT !.owner = owner, !.level = level, !.stage = "escalated"]
    /\ escalations' = escalations \cup
         {[level |-> level, to |-> owner]}

(* escalate_dispatch_tracker_notice, and the bulk action, which leaves the *)
(* tracker status of the notice as it is.                                  *)
Escalate ==
    /\ IF Exists
       THEN /\ record.level < MaxLevel
            /\ \E owner \in Officers : EscalateDispatch(owner)
            /\ tracker' \in {"escalated", tracker}
       ELSE tracker' = "escalated" /\ UNCHANGED <<record, escalations>>
    /\ UNCHANGED <<clock, assignedIo, view>>

(* The bulk action reassign_io.                                            *)
ReassignIo ==
    \E io \in Officers :
       /\ Exists
       /\ assignedIo' = io
       /\ record' = [record EXCEPT !.owner = IF @ = assignedIo THEN io ELSE @]
       /\ UNCHANGED <<clock, tracker, escalations, view>>

(* reset_demo_notice_workflow at a logout: the record is not reset.        *)
ResetNotice ==
    /\ tracker' = "drafted"
    /\ UNCHANGED <<clock, record, assignedIo, escalations, view>>

(* dispatch_tracker: the page loads the records, then registers breaches.  *)
LoadRegister ==
    /\ view = NoView /\ Exists /\ view' = SlaColumns(record)
    /\ UNCHANGED <<clock, record, tracker, assignedIo, escalations>>

(* A breach at the deadline itself.                                        *)
BreachedAtDeadline(r) == r.due # -1 /\ r.frozen = -1 /\ clock >= r.due /\ ~r.breach

Breached(r) == r.due # -1 /\ r.frozen = -1 /\ clock > r.due /\ ~r.breach

(* The page writes back all the SLA columns it loaded.                     *)
RegisterWholeRow ==
    /\ view # NoView
    /\ record' = IF Breached(view) THEN [record EXCEPT !.due = view.due, !.frozen = view.frozen,
                                                      !.breach = TRUE]
                 ELSE record
    /\ view' = NoView
    /\ UNCHANGED <<clock, tracker, assignedIo, escalations>>

RegisterBreach ==
    /\ view # NoView
    /\ record' = IF Breached(view) THEN [record EXCEPT !.breach = TRUE] ELSE record
    /\ view' = NoView
    /\ UNCHANGED <<clock, tracker, assignedIo, escalations>>

DispatchTick ==
    /\ clock < MaxTime /\ clock' = clock + 1
    /\ UNCHANGED <<record, tracker, assignedIo, escalations, view>>

DispatchNext ==
    \/ RouteRecord \/ DispatchNotice \/ UpdateStatus \/ Escalate \/ ReassignIo \/ ResetNotice
    \/ LoadRegister \/ RegisterBreach \/ DispatchTick

-----------------------------------------------------------------------------
(* What a row of the register shows: dispatch_sla_view and tracker_row.    *)
SlaRemaining == IF record.frozen # -1 THEN record.frozen
                ELSE IF record.due # -1 THEN record.due - clock ELSE Window

SlaTone == IF SlaRemaining < 0 THEN "red"
           ELSE IF 2 * SlaRemaining <= Window THEN "amber" ELSE "green"

EffectiveStatus ==
    IF tracker \in {"responded", "escalated"} THEN tracker
    ELSE IF record.due # -1 /\ clock > record.due THEN "overdue"
    ELSE tracker

-----------------------------------------------------------------------------
DispatchTypeOK ==
    /\ clock \in 0..MaxTime
    /\ record \in DispatchRecord
    /\ tracker \in ManualStatuses
    /\ assignedIo \in Officers
    /\ escalations \subseteq [level: 1..MaxLevel, to: Officers]

(* The clock of a record is set once: neither a later status, a second     *)
(* dispatch, a reset, nor a register page that read the record before an   *)
(* acknowledgement moves its deadline, thaws what was frozen or takes back *)
(* a breach.                                                               *)
SlaClockSetOnce ==
    [][/\ record.due # -1 => record'.due = record.due
       /\ record.frozen # -1 => record'.frozen = record.frozen
       /\ record.breach => record'.breach]_dispatchVars

(* A registered breach is one the register shows: the record is dispatched *)
(* and late, its clock is red unless an acknowledgement stopped it, and the*)
(* row is overdue, escalated or responded whatever was done to it since.   *)
BreachIsShown ==
    record.breach =>
       /\ record.due # -1 /\ clock > record.due
       /\ record.frozen = -1 => SlaTone = "red"
       /\ EffectiveStatus \in {"overdue", "escalated", "responded"}

(* The inductive invariant of the two: what a page has loaded is older than*)
(* the record, but a deadline it saw is still the record's, so a breach it *)
(* registers is one of a record that is late.                              *)
ViewIsOlder ==
    view # NoView =>
       /\ view \in [due: Stamp, frozen: Stamp, breach: BOOLEAN]
       /\ view.due # -1 => record.due = view.due

BreachIsLate == record.breach => record.due # -1 /\ clock > record.due

DispatchInv == DispatchTypeOK /\ ViewIsOlder /\ BreachIsLate

DispatchSpec == DispatchInit /\ [][DispatchNext]_dispatchVars
=============================================================================
