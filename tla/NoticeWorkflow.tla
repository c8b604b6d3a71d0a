---------------------------- MODULE NoticeWorkflow ----------------------------
(***************************************************************************)
(* One freeze notice from its draft to its dispatch (the /notices handlers *)
(* of app/main.py, app/services/notice_workflow.py and                     *)
(* ensure_dispatch_record of dispatch_workflow.py).                        *)
(*                                                                         *)
(* A request loads rows, waits (for its form, or as a thread for its turn  *)
(* at the database) and then decides and commits.  The rows it loaded stay *)
(* as they were in its session, and the commit writes the columns it       *)
(* changed and no others; there is no version column and no lock.  Requests*)
(* overlap at most MaxOverlaps times in a behaviour.  Handlers that are    *)
(* async run on the event loop and are not interrupted by each other after *)
(* their form is read; the two countersign handlers run in threads.        *)
(*                                                                         *)
(* Abstractions.  The form is valid; access control is the kind of request *)
(* an actor may make; the parameters are a revision number; case.stage is  *)
(* a display copy of notice.status; tracker and SLA columns are left out.  *)
(* The verification is of one officer session.                             *)
(*                                                                         *)
(* A notice comes from a live trace or from a fixture: only the second can *)
(* be verified, and every logout resets it (reset_demo_notice_workflow).   *)
(* A reset happens between requests here.  One that overlaps a request is  *)
(* not modelled and nothing below is claimed for it.                       *)
(***************************************************************************)
EXTENDS Integers, Sequences

CONSTANTS Slots,        \* requests that may be under way at once
          MaxVersions,  \* bound on the generated versions
          MaxEdits,     \* bound on the revisions of the parameters
          MaxSent,      \* bound on the dispatches
          MaxOverlaps,  \* bound on the requests that come in during another
          FailureLimit  \* failed sign-ins that lock the verification, 3

ASSUME NoticeAssumption ==
    /\ MaxVersions \in Nat /\ MaxEdits \in Nat
    /\ MaxSent \in Nat /\ MaxOverlaps \in Nat
    /\ FailureLimit \in Nat \ {0}

VARIABLES overlaps,  \* requests that came in during another so far
          high,      \* the amount is at or above threshold_countersign_base
          mode,      \* the engine mode of the snapshot: "live" or "fixture"
          shelved,   \* versions there were at the last reset, a history variable
          notice,    \* Notice: status, countersigned_by_pis
          draft,     \* NoticeDraft
          versions,  \* NoticeVersion rows, version_no is the position
          complaint, \* an active attachment fills the complaint slot
          verify,    \* NoticeVerificationState of the officer's session
          record,    \* DispatchRecord
          sent,      \* active_version_no at each batch of Dispatch rows
          request    \* what each slot is about and the rows it has loaded

vars == <<overlaps, high, mode, shelved, notice, draft, versions, complaint, verify, record,
          sent, request>>

-----------------------------------------------------------------------------
Statuses == {"draft", "awaiting_countersignature", "countersigned", "dispatched"}

Notice == [status: Statuses, signed: BOOLEAN]

(* Version number 0 is None.                                               *)
VersionNo == 0..MaxVersions

(* generated is set with active_version_no.                                *)
Draft == [text: 0..MaxEdits, dirty: BOOLEAN, active: VersionNo, attested: VersionNo]

NewNotice == [status |-> "draft", signed |-> FALSE]

NewDraft == [text |-> 0, dirty |-> FALSE, active |-> 0, attested |-> 0]

Version == [text: 0..MaxEdits, signed: BOOLEAN, remarks: BOOLEAN]

(* verified: verified_ts_ms is set.                                        *)
Verification == [failures: 0..FailureLimit, locked: BOOLEAN, verified: BOOLEAN]

Unverified == [failures |-> 0, locked |-> FALSE, verified |-> FALSE]

Record == [stage: {"none"} \union Statuses, version: VersionNo, dispatched: BOOLEAN]

Kinds == {"save", "upload", "generate", "attest", "verify", "route",
          "request_countersign", "countersign", "return", "amend", "dispatch"}

Request == [kind: Kinds, notice: Notice, draft: Draft]

Free == [kind |-> "none"]

(* The UPDATE of a session: columns that differ from what was loaded.      *)
Written(stored, loaded, new) ==
    [c \in DOMAIN stored |-> IF new[c] # loaded[c] THEN new[c] ELSE stored[c]]

Init ==
    /\ overlaps = 0
    /\ high \in BOOLEAN
    /\ mode \in {"live", "fixture"}
    /\ shelved = 0
    /\ notice = NewNotice
    /\ draft = NewDraft
    /\ versions = << >>
    /\ complaint = FALSE
    /\ verify = Unverified
    /\ record = [stage |-> "none", version |-> 0, dispatched |-> FALSE]
    /\ sent = << >>
    /\ request = [s \in Slots |-> Free]

(* The rows, or the columns of them, that a handler looks at later.        *)
Editing == {"save", "upload", "generate", "attest"}
Signing == {"request_countersign", "countersign"}

NoticeSeen(kind) ==
    IF kind \in Signing \union {"route", "return", "dispatch"} THEN notice ELSE NewNotice

DraftSeen(kind) ==
    IF kind \in Editing THEN draft
    ELSE IF kind \in Signing \union {"verify", "route"}
    THEN [NewDraft EXCEPT !.active = draft.active, !.attested = draft.attested]
    ELSE NewDraft

Busy == \E s \in Slots : request[s] # Free

(* A request arrives and loads its rows.  A status that rules it out is    *)
(* looked at here; the handlers below decide the rest.                     *)
Load(s, kind) ==
    /\ request[s] = Free
    /\ overlaps' = overlaps + (IF Busy THEN 1 ELSE 0)
    /\ overlaps' <= MaxOverlaps
    /\ kind # "amend"
    /\ kind = "return" => notice.status = "awaiting_countersignature"
    /\ kind = "dispatch" => notice.status # "dispatched"
    /\ request' = [request EXCEPT ![s] =
                     [kind |-> kind, notice |-> NoticeSeen(kind), draft |-> DraftSeen(kind)]]
    /\ UNCHANGED <<high, mode, shelved, notice, draft, versions, complaint, verify, record, sent>>

EventLoopFree(s) == \A other \in Slots \ {s} : request[other].kind # "amend"

Handles(s, kind) ==
    /\ request[s] # Free /\ request[s].kind = kind
    /\ kind \notin Signing => EventLoopFree(s)
    /\ request' = [request EXCEPT ![s] = Free]

WriteNotice(s, new) == notice' = Written(notice, request[s].notice, new)
WriteDraft(s, new) == draft' = Written(draft, request[s].draft, new)

(* The request is refused (4xx), or the client goes away.                  *)
Drop(s) ==
    /\ request[s] # Free
    /\ request' = [request EXCEPT ![s] = Free]
    /\ UNCHANGED <<overlaps, high, mode, shelved, notice, draft, versions, complaint, verify, record, sent>>

-----------------------------------------------------------------------------
(* Changing a draft that was generated makes it dirty and clears the       *)
(* attestation.                                                            *)
\* mutant: the attestation outlives the change
DirtiedKeepingAttestation(d) == [d EXCEPT !.dirty = d.active # 0]

Dirtied(d) ==
    [d EXCEPT !.dirty = d.active # 0, !.attested = IF d.active # 0 THEN 0 ELSE @]

(* save_notice_workflow_parameters, update_notice_parameters               *)
SaveParameters(s) ==
    /\ Handles(s, "save")
    /\ \E text \in 0..MaxEdits :
          WriteDraft(s, [Dirtied(request[s].draft) EXCEPT !.text = text])
    /\ UNCHANGED <<overlaps, high, mode, shelved, notice, versions, complaint, verify, record, sent>>

(* upload, import from the complaint source, import_report_attachments     *)
AddAttachment(s) ==
    /\ Handles(s, "upload")
    /\ complaint' \in {complaint, TRUE}
    /\ WriteDraft(s, Dirtied(request[s].draft))
    /\ UNCHANGED <<overlaps, high, mode, shelved, notice, versions, verify, record, sent>>

\* mutant: the number follows that of the loaded draft
GenerateAfterLoaded(s) ==
    LET n == request[s].draft.active + 1
        new == [text |-> request[s].draft.text, signed |-> FALSE, remarks |-> FALSE]
    IN  /\ Handles(s, "generate")
        /\ complaint
        /\ Len(versions) < MaxVersions /\ n <= MaxVersions
        /\ versions' = Append(versions, new)
        /\ WriteDraft(s, [request[s].draft EXCEPT
             !.dirty = FALSE, !.active = n, !.attested = 0])
        /\ UNCHANGED <<overlaps, high, mode, shelved, notice, complaint, verify, record, sent>>

(* generate_version: the number is taken from the table, the parameters    *)
(* from the loaded draft.                                                  *)
GenerateVersion(s) ==
    LET n == Len(versions) + 1
        new == [text |-> request[s].draft.text, signed |-> FALSE, remarks |-> FALSE]
    IN  /\ Handles(s, "generate")
        /\ complaint
        /\ n <= MaxVersions
        /\ versions' = Append(versions, new)
        /\ WriteDraft(s, [request[s].draft EXCEPT
             !.dirty = FALSE, !.active = n, !.attested = 0])
        /\ UNCHANGED <<overlaps, high, mode, shelved, notice, complaint, verify, record, sent>>

(* attest_version                                                          *)
AttestVersion(s) ==
    /\ Handles(s, "attest")
    /\ request[s].draft.active # 0
    /\ ~request[s].draft.dirty
    /\ WriteDraft(s, [request[s].draft EXCEPT !.attested = request[s].draft.active])
    /\ UNCHANGED <<overlaps, high, mode, shelved, notice, versions, complaint, verify, record, sent>>

-----------------------------------------------------------------------------
(* verify_notice_workflow_session, record_verification: the verification   *)
(* row is read after the form, so it is never stale.  Only the demo        *)
(* sign-ins succeed, and only for a fixture.                               *)
VerifySucceeds(s) ==
    /\ Handles(s, "verify")
    /\ mode = "fixture"
    /\ request[s].draft.attested # 0
    /\ ~verify.locked
    /\ verify' = [failures |-> 0, locked |-> FALSE, verified |-> TRUE]
    /\ UNCHANGED <<overlaps, high, mode, shelved, notice, draft, versions, complaint, record, sent>>

(* failure_count, counted up to the limit.                                 *)
Failure == IF verify.failures < FailureLimit THEN verify.failures + 1 ELSE FailureLimit

\* mutant: a failed sign-in leaves the earlier one valid
VerifyFailsSoftly(s) ==
    /\ Handles(s, "verify")
    /\ request[s].draft.attested # 0
    /\ ~verify.locked
    /\ verify' = [verify EXCEPT !.failures = Failure, !.locked = Failure >= FailureLimit]
    /\ UNCHANGED <<overlaps, high, mode, shelved, notice, draft, versions, complaint, record, sent>>

VerifyFails(s) ==
    /\ Handles(s, "verify")
    /\ request[s].draft.attested # 0
    /\ ~verify.locked
    /\ verify' = [failures |-> Failure, locked |-> Failure >= FailureLimit, verified |-> FALSE]
    /\ UNCHANGED <<overlaps, high, mode, shelved, notice, draft, versions, complaint, record, sent>>

(* locked_until_ts_ms goes by; the failures are kept.                      *)
LockExpires ==
    /\ verify.locked
    /\ verify' = [verify EXCEPT !.locked = FALSE]
    /\ UNCHANGED <<overlaps, high, mode, shelved, notice, draft, versions, complaint, record, sent, request>>

-----------------------------------------------------------------------------
(* ensure_dispatch_record, and the stage the handler sets afterwards.      *)
Recorded(version, stage) ==
    record' = [record EXCEPT !.stage = stage,
                             !.version = IF version = 0 THEN @ ELSE version]

\* mutant: the amount is not looked at
RouteDirectAnyAmount(s) ==
    /\ Handles(s, "route")
    /\ verify.verified
    /\ request[s].draft.attested = request[s].draft.active
    /\ WriteNotice(s, [request[s].notice EXCEPT !.status = "countersigned"])
    /\ Recorded(request[s].draft.active, "countersigned")
    /\ UNCHANGED <<overlaps, high, mode, shelved, draft, versions, complaint, verify, sent>>

(* route_notice_workflow: the notice's status is written, never looked at. *)
RouteDirect(s) ==
    /\ Handles(s, "route")
    /\ verify.verified
    /\ request[s].draft.attested = request[s].draft.active
    /\ ~high
    /\ WriteNotice(s, [request[s].notice EXCEPT !.status = "countersigned"])
    /\ Recorded(request[s].draft.active, "countersigned")
    /\ UNCHANGED <<overlaps, high, mode, shelved, draft, versions, complaint, verify, sent>>

RouteToAcp(s) ==
    /\ Handles(s, "route")
    /\ verify.verified
    /\ request[s].draft.attested = request[s].draft.active
    /\ WriteNotice(s, [request[s].notice EXCEPT !.status = "awaiting_countersignature"])
    /\ Recorded(request[s].draft.active, "awaiting_countersignature")
    /\ UNCHANGED <<overlaps, high, mode, shelved, draft, versions, complaint, verify, sent>>

(* request_notice_countersign, the way past the workflow pages.            *)
RequestCountersign(s) ==
    /\ Handles(s, "request_countersign")
    /\ request[s].notice.status = "draft" /\ ~request[s].notice.signed
    /\ WriteNotice(s, [request[s].notice EXCEPT !.status = "awaiting_countersignature"])
    /\ Recorded(request[s].draft.active, "awaiting_countersignature")
    /\ UNCHANGED <<overlaps, high, mode, shelved, draft, versions, complaint, verify, sent>>

\* mutant: the signature goes on a row of its own
SignedCopy(k) ==
    versions' = IF k = 0 THEN versions
                ELSE Append(versions, [versions[k] EXCEPT !.signed = TRUE])

Sign(k) ==
    versions' = [j \in DOMAIN versions |->
                   IF j = k THEN [versions[j] EXCEPT !.signed = TRUE] ELSE versions[j]]

(* countersign_notice: the active version is signed, if there is one.      *)
Countersign(s) ==
    /\ Handles(s, "countersign")
    /\ ~request[s].notice.signed
    /\ request[s].notice.status = "awaiting_countersignature"
    /\ WriteNotice(s, [status |-> "countersigned", signed |-> TRUE])
    /\ Sign(request[s].draft.active)
    /\ Recorded(request[s].draft.active, "countersigned")
    /\ UNCHANGED <<overlaps, high, mode, shelved, draft, complaint, verify, sent>>

(* return_notice_for_amendment: draft and version are read after the form  *)
(* and a countersigned version is refused; what follows is committed later.*)
ReadForAmendment(s) ==
    /\ request[s].kind = "return"
    /\ EventLoopFree(s)
    /\ draft.active # 0
    /\ ~versions[draft.active].signed
    /\ request' = [request EXCEPT ![s].kind = "amend", ![s].draft = draft]
    /\ UNCHANGED <<overlaps, high, mode, shelved, notice, draft, versions, complaint, verify, record, sent>>

ReturnForAmendment(s) ==
    /\ Handles(s, "amend")
    /\ versions' = [versions EXCEPT ![request[s].draft.active].remarks = TRUE]
    /\ WriteDraft(s, [request[s].draft EXCEPT !.dirty = TRUE, !.attested = 0])
    /\ WriteNotice(s, [request[s].notice EXCEPT !.status = "draft"])
    /\ UNCHANGED <<overlaps, high, mode, shelved, complaint, verify, record, sent>>

(* dispatch_notice: the Dispatch rows, the record and the status.          *)
DispatchNotice(s) ==
    /\ Handles(s, "dispatch")
    /\ high => request[s].notice.signed /\ request[s].notice.status = "countersigned"
    /\ Len(sent) < MaxSent
    /\ WriteNotice(s, [request[s].notice EXCEPT !.status = "dispatched"])
    /\ sent' = Append(sent, draft.active)
    /\ record' = [stage      |-> IF record.dispatched THEN record.stage ELSE "dispatched",
                  version    |-> IF draft.active = 0 THEN record.version ELSE draft.active,
                  dispatched |-> TRUE]
    /\ UNCHANGED <<overlaps, high, mode, shelved, draft, versions, complaint, verify>>

(* reset_demo_notice_workflow, at the logout of any officer: versions,     *)
(* attachments and the record stay.                                        *)
Reset ==
    /\ mode = "fixture" /\ ~Busy
    /\ notice' = NewNotice /\ draft' = NewDraft
    /\ verify' = Unverified
    /\ sent' = << >>
    /\ shelved' = Len(versions)
    /\ UNCHANGED <<overlaps, high, mode, versions, complaint, record, request>>

-----------------------------------------------------------------------------
Next ==
    \/ \E s \in Slots :
         \/ \E kind \in Kinds : Load(s, kind)
         \/ Drop(s)
         \/ SaveParameters(s)
         \/ AddAttachment(s)
         \/ GenerateVersion(s)
         \/ AttestVersion(s)
         \/ VerifySucceeds(s)
         \/ VerifyFails(s)
         \/ RouteDirect(s)
         \/ RouteToAcp(s)
         \/ RequestCountersign(s)
         \/ Countersign(s)
         \/ ReadForAmendment(s)
         \/ ReturnForAmendment(s)
         \/ DispatchNotice(s)
    \/ LockExpires
    \/ Reset

Spec == Init /\ [][Next]_vars

-----------------------------------------------------------------------------
(* The types of the notice tables and of the rows a request has loaded.    *)
TypeOK ==
    /\ overlaps \in 0..MaxOverlaps
    /\ high \in BOOLEAN /\ mode \in {"live", "fixture"}
    /\ shelved \in 0..Len(versions)
    /\ notice \in Notice
    /\ draft \in Draft
    /\ versions \in Seq(Version) /\ Len(versions) <= MaxVersions
    /\ complaint \in BOOLEAN
    /\ verify \in Verification
    /\ record \in Record
    /\ sent \in Seq(VersionNo)
    /\ request \in [Slots -> Request \union {Free}]

(* At or above the threshold nothing counts as countersigned, and nothing  *)
(* goes out, before a supervisor signed, however requests overlap: the     *)
(* direct route, the shortcut request and stale rows included.             *)
SignedBeforeDispatch ==
    high /\ (notice.status \in {"countersigned", "dispatched"} \/ sent # << >>)
        => notice.signed

(* However requests overlap, the active version is the newest one that was *)
(* generated since a reset: no late save or upload takes the draft back to *)
(* an earlier version, and none is attested that is newer than it.         *)
ActiveIsNewest ==
    /\ draft.active = IF Len(versions) = shelved THEN 0 ELSE Len(versions)
    /\ draft.attested <= draft.active

(* Three failures suspend the verification: while it is locked no earlier  *)
(* success lets the notice be routed.                                      *)
LockedIsUnverified ==
    verify.locked => ~verify.verified /\ verify.failures = FailureLimit

(* As long as requests are served one by one, an attested draft is clean,  *)
(* has not changed since its version was generated, and is not a version   *)
(* the ACP sent back.                                                      *)
AttestedIsCurrent ==
    overlaps = 0 /\ draft.attested # 0 =>
        /\ ~draft.dirty
        /\ versions[draft.attested].text = draft.text
        /\ ~versions[draft.attested].remarks

(* The inductive invariant.  Signatures and version numbers only grow, so  *)
(* a request has loaded nothing that is ahead of the tables; a request that*)
(* never overlapped another holds the draft as it is; and without overlaps *)
(* a clean draft is what its active version was generated from.            *)
LoadedIsOlder ==
    \A s \in Slots : request[s] # Free =>
        /\ request[s].notice.signed => notice.signed
        /\ request[s].draft.active <= draft.active

AloneIsFresh ==
    overlaps = 0 =>
        \A s \in Slots : request[s] # Free =>
            /\ \A other \in Slots \ {s} : request[other] = Free
            /\ request[s].kind \in Editing \union {"amend"} => request[s].draft = draft

CleanIsGenerated ==
    overlaps = 0 =>
        /\ draft.attested # 0 => draft.attested = draft.active /\ ~draft.dirty
        /\ draft.active # 0 /\ ~draft.dirty =>
              /\ versions[draft.active].text = draft.text
              /\ ~versions[draft.active].remarks

IInv ==
    /\ TypeOK
    /\ SignedBeforeDispatch /\ ActiveIsNewest /\ LockedIsUnverified
    /\ LoadedIsOlder /\ AloneIsFresh /\ CleanIsGenerated

(* "dispatch blocked until countersigned when required": the version that  *)
(* goes out is one the supervisor signed.                                  *)
DispatchedVersionIsSigned ==
    high => \A k \in DOMAIN sent : sent[k] # 0 => versions[sent[k]].signed

(* "This notice has already been dispatched.": it goes out once.           *)
DispatchedOnce == Len(sent) <= 1

=============================================================================
