------------------------- MODULE NoticeWorkflowProofs -------------------------
(***************************************************************************)
(* Proofs about NoticeWorkflow, for any number of requests under way, of   *)
(* overlaps, versions, edits and dispatches, and any failure limit.        *)
(***************************************************************************)
EXTENDS NoticeWorkflow, TLAPS

USE NoticeAssumption

Loaded == Request \union {Free}

(* What a commit leaves of rows that others may have written meanwhile.    *)
LEMMA WrittenNotice ==
    ASSUME NEW stored \in Notice, NEW loaded \in Notice, NEW new \in Notice
    PROVE  /\ Written(stored, loaded, new) \in Notice
           /\ Written(stored, loaded, new).signed =
                IF new.signed # loaded.signed THEN new.signed ELSE stored.signed
           /\ Written(stored, loaded, new).status =
                IF new.status # loaded.status THEN new.status ELSE stored.status
  BY DEF Written, Notice

LEMMA WrittenDraft ==
    ASSUME NEW stored \in Draft, NEW loaded \in Draft, NEW new \in Draft
    PROVE  /\ Written(stored, loaded, new) \in Draft
           /\ Written(stored, loaded, new).text =
                IF new.text # loaded.text THEN new.text ELSE stored.text
           /\ Written(stored, loaded, new).dirty =
                IF new.dirty # loaded.dirty THEN new.dirty ELSE stored.dirty
           /\ Written(stored, loaded, new).active =
                IF new.active # loaded.active THEN new.active ELSE stored.active
           /\ Written(stored, loaded, new).attested =
                IF new.attested # loaded.attested THEN new.attested ELSE stored.attested
  BY DEF Written, Draft

(* A request that is handled has typed rows, and frees its slot.           *)
LEMMA Handled ==
    ASSUME TypeOK, NEW s \in Slots, NEW kind \in Kinds, Handles(s, kind)
    PROVE  /\ request[s] # Free /\ request[s] \in Request /\ request[s].kind = kind
           /\ request[s].notice \in Notice /\ request[s].draft \in Draft
           /\ request' \in [Slots -> Loaded]
           /\ \A other \in Slots : request'[other] # Free =>
                 other # s /\ request'[other] = request[other]
  BY DEF Handles, TypeOK, Request, Loaded

LEMMA InitInvariant == Init => IInv
  <1> SUFFICES ASSUME Init PROVE IInv
    OBVIOUS
  <1>1. TypeOK
    <2>1. notice \in Notice /\ draft \in Draft
      BY DEF Init, Notice, NewNotice, Statuses, Draft, NewDraft, VersionNo
    <2>2. verify \in Verification /\ record \in Record
      BY DEF Init, Verification, Unverified, Record, VersionNo
    <2>3. versions \in Seq(Version) /\ Len(versions) <= MaxVersions /\ sent \in Seq(VersionNo)
      BY DEF Init
    <2>4. overlaps \in 0..MaxOverlaps /\ request \in [Slots -> Request \union {Free}]
      BY DEF Init
    <2>5. high \in BOOLEAN /\ mode \in {"live", "fixture"} /\ complaint \in BOOLEAN
      BY DEF Init
    <2>6. shelved \in 0..Len(versions)
      BY DEF Init
    <2>7. QED
      BY <2>1, <2>2, <2>3, <2>4, <2>5, <2>6 DEF TypeOK
  <1>2. SignedBeforeDispatch /\ ActiveIsNewest /\ LockedIsUnverified
    BY DEF Init, SignedBeforeDispatch, ActiveIsNewest, LockedIsUnverified, NewNotice, NewDraft,
                Unverified
  <1>3. LoadedIsOlder /\ AloneIsFresh /\ CleanIsGenerated
    BY DEF Init, LoadedIsOlder, AloneIsFresh, CleanIsGenerated, NewDraft
  <1>4. QED
    BY <1>1, <1>2, <1>3 DEF IInv

-----------------------------------------------------------------------------
(* Once a request is done, the requests that remain still are no newer     *)
(* than the tables, as signatures and version numbers only grow.           *)
LEMMA SlotFreed ==
    ASSUME IInv, NEW s \in Slots, NEW kind \in Kinds, Handles(s, kind),
           overlaps' = overlaps, notice.signed => notice'.signed,
           draft' \in Draft, draft.active <= draft'.active
    PROVE  LoadedIsOlder' /\ AloneIsFresh'
  <1>0. TypeOK /\ LoadedIsOlder /\ AloneIsFresh
    BY DEF IInv
  <1>1. \A other \in Slots : request'[other] # Free =>
           other # s /\ request'[other] = request[other] /\ request[other] \in Request
    BY <1>0, Handled DEF TypeOK
  <1>2. LoadedIsOlder'
    BY <1>0, <1>1 DEF LoadedIsOlder, TypeOK, Draft, Request, VersionNo
  <1>3. request[s] # Free
    BY <1>0, Handled
  <1>4. overlaps = 0 => \A other \in Slots : request'[other] = Free
    BY <1>0, <1>1, <1>3 DEF AloneIsFresh
  <1>5. QED
    BY <1>2, <1>4 DEF AloneIsFresh

(* A handler that leaves draft and versions alone.                         *)
LEMMA DraftLeft ==
    ASSUME IInv, NEW s \in Slots, NEW kind \in Kinds, Handles(s, kind),
           overlaps' = overlaps, notice.signed => notice'.signed,
           draft' = draft, versions' = versions, shelved' = shelved
    PROVE  LoadedIsOlder' /\ AloneIsFresh' /\ ActiveIsNewest' /\ CleanIsGenerated'
  <1>1. draft' \in Draft /\ draft.active <= draft'.active
    BY DEF IInv, TypeOK, Draft, VersionNo
  <1>2. LoadedIsOlder' /\ AloneIsFresh'
    BY <1>1, SlotFreed
  <1>3. QED
    BY <1>2 DEF IInv, ActiveIsNewest, CleanIsGenerated

(* A handler that writes the draft, keeping the number of the active       *)
(* version, either dirtied without an attestation, or attested.            *)
LEMMA DraftDirtied ==
    ASSUME IInv, NEW s \in Slots, NEW kind \in Editing \union {"amend"}, Handles(s, kind),
           overlaps' = overlaps, notice.signed => notice'.signed,
           versions' \in Seq(Version), Len(versions') = Len(versions), shelved' = shelved,
           NEW new \in Draft, WriteDraft(s, new),
           new.active = request[s].draft.active,
           new.active # 0 => new.dirty /\ new.attested = 0,
           new.attested \in {0, request[s].draft.attested}
    PROVE  /\ draft' \in Draft
           /\ LoadedIsOlder' /\ AloneIsFresh' /\ ActiveIsNewest' /\ CleanIsGenerated'
  <1> DEFINE old == request[s].draft
  <1>0. /\ TypeOK /\ LoadedIsOlder /\ AloneIsFresh /\ ActiveIsNewest /\ CleanIsGenerated
    BY DEF IInv
  <1>1. kind \in Kinds /\ request[s] # Free /\ request[s].kind = kind /\ old \in Draft
    BY <1>0, Handled DEF Editing, Kinds
  <1>2. draft \in Draft /\ versions \in Seq(Version) /\ Len(versions) \in Nat
    BY <1>0 DEF TypeOK
  <1>3. /\ draft' \in Draft
        /\ draft'.dirty = IF new.dirty # old.dirty THEN new.dirty ELSE draft.dirty
        /\ draft'.active = draft.active
        /\ draft'.attested = IF new.attested # old.attested THEN new.attested ELSE draft.attested
    BY <1>1, <1>2, WrittenDraft DEF WriteDraft
  <1>4. LoadedIsOlder' /\ AloneIsFresh'
    BY <1>1, <1>2, <1>3, SlotFreed DEF Draft, VersionNo
  <1>5. ActiveIsNewest'
    BY <1>0, <1>2, <1>3 DEF ActiveIsNewest, Draft, VersionNo
  <1>6. CleanIsGenerated'
    <2>1. SUFFICES ASSUME overlaps = 0 PROVE CleanIsGenerated'
      BY DEF CleanIsGenerated
    <2>2. old = draft
      BY <1>0, <1>1, <2>1 DEF AloneIsFresh
    <2>3. draft.active # 0 => draft'.dirty /\ draft'.attested = 0
      BY <1>2, <1>3, <2>2 DEF Draft
    <2>4. draft.active = 0 => draft'.attested = 0
      BY <1>0, <1>3, <2>1, <2>2 DEF CleanIsGenerated
    <2>5. QED
      BY <1>3, <2>3, <2>4 DEF CleanIsGenerated
  <1>7. QED
    BY <1>3, <1>4, <1>5, <1>6

(* A handler that writes the notice, and takes no signature back.          *)
LEMMA NoticeWritten ==
    ASSUME TypeOK, NEW s \in Slots, request[s] \in Request,
           NEW new \in Notice, WriteNotice(s, new),
           request[s].notice.signed => new.signed
    PROVE  /\ notice' \in Notice
           /\ notice.signed => notice'.signed
           /\ notice'.status \in {notice.status, new.status}
           /\ new.signed /\ ~request[s].notice.signed => notice'.signed
  BY WrittenNotice DEF TypeOK, WriteNotice, Request, Notice

LEMMA RecordTyped ==
    ASSUME record \in Record, NEW version \in VersionNo, NEW stage \in Statuses,
           Recorded(version, stage)
    PROVE  record' \in Record
  BY DEF Recorded, Record

(* A signature or remarks change neither the number nor the text of a      *)
(* version.                                                                *)
LEMMA MarkedVersion ==
    ASSUME NEW v \in Version
    PROVE  /\ [v EXCEPT !.signed = TRUE] \in Version
           /\ [v EXCEPT !.signed = TRUE].text = v.text
           /\ [v EXCEPT !.signed = TRUE].remarks = v.remarks
           /\ [v EXCEPT !.remarks = TRUE] \in Version
  BY DEF Version

LEMMA SignedVersions ==
    ASSUME versions \in Seq(Version), NEW k \in VersionNo, Sign(k)
    PROVE  /\ versions' \in Seq(Version) /\ Len(versions') = Len(versions)
           /\ \A j \in 1..Len(versions) : /\ versions'[j].text = versions[j].text
                                        /\ versions'[j].remarks = versions[j].remarks
  <1>1. \A j \in 1..Len(versions) : versions[j] \in Version
    OBVIOUS
  <1>2. versions' = [j \in 1..Len(versions) |->
                       IF j = k THEN [versions[j] EXCEPT !.signed = TRUE] ELSE versions[j]]
    BY DEF Sign
  <1>3. versions' \in [1..Len(versions) -> Version]
    BY <1>1, <1>2, MarkedVersion
  <1>4. QED
    BY <1>1, <1>2, <1>3, MarkedVersion

LEMMA RemarkedVersions ==
    ASSUME versions \in Seq(Version), NEW k \in Nat,
           versions' = [versions EXCEPT ![k].remarks = TRUE]
    PROVE  versions' \in Seq(Version) /\ Len(versions') = Len(versions)
  <1>1. \A j \in 1..Len(versions) : versions[j] \in Version
    OBVIOUS
  <1>2. ASSUME NEW f \in [1..Len(versions) -> Version]
        PROVE  [f EXCEPT ![k].remarks = TRUE] \in [1..Len(versions) -> Version]
    <2>1. ASSUME k \in 1..Len(versions)
          PROVE  [f[k] EXCEPT !.remarks = TRUE] \in Version
      BY <2>1, MarkedVersion
    <2>2. QED
      BY <2>1
  <1>3. versions' \in [1..Len(versions) -> Version]
    BY <1>2
  <1>4. QED
    BY <1>3

-----------------------------------------------------------------------------
(* A request that comes in, or goes away unserved.                         *)
LEMMA SeenTyped ==
    ASSUME TypeOK, NEW kind \in Kinds
    PROVE  /\ NoticeSeen(kind) \in Notice /\ DraftSeen(kind) \in Draft
           /\ NoticeSeen(kind).signed => notice.signed
           /\ DraftSeen(kind).active <= draft.active
           /\ kind \in Editing => DraftSeen(kind) = draft
  <1>1. NoticeSeen(kind).signed => notice.signed
    BY DEF NoticeSeen, TypeOK, Notice, NewNotice, Statuses
  <1>2. NoticeSeen(kind) \in Notice
    BY DEF NoticeSeen, TypeOK, Notice, NewNotice, Statuses
  <1>3. DraftSeen(kind) \in Draft /\ DraftSeen(kind).active <= draft.active
    <2> DEFINE part == [NewDraft EXCEPT !.active = draft.active, !.attested = draft.attested]
    <2>1. draft \in Draft /\ draft.active \in VersionNo /\ draft.attested \in VersionNo
      BY DEF TypeOK, Draft
    <2>2. ASSUME NEW d \in Draft, NEW n \in VersionNo, NEW m \in VersionNo
          PROVE  /\ [d EXCEPT !.active = n, !.attested = m] \in Draft
                 /\ [d EXCEPT !.active = n, !.attested = m].active = n
      BY DEF Draft
    <2>3. NewDraft \in Draft /\ NewDraft.active <= draft.active
      BY <2>1 DEF NewDraft, Draft, VersionNo
    <2>4. part \in Draft /\ part.active = draft.active
      BY <2>1, <2>2, <2>3
    <2>5. DraftSeen(kind) \in {draft, part, NewDraft}
      BY DEF DraftSeen
    <2>6. QED
      <3> HIDE DEF part
      <3>1. QED
        BY <2>1, <2>3, <2>4, <2>5 DEF VersionNo
  <1>4. kind \in Editing => DraftSeen(kind) = draft
    BY DEF DraftSeen
  <1>5. QED
    BY <1>1, <1>2, <1>3, <1>4

LEMMA LoadStep ==
    ASSUME IInv, NEW s \in Slots, NEW kind \in Kinds, Load(s, kind)
    PROVE  IInv'
  <1> DEFINE new == [kind |-> kind, notice |-> NoticeSeen(kind), draft |-> DraftSeen(kind)]
  <1>0. TypeOK /\ LoadedIsOlder /\ AloneIsFresh
    BY DEF IInv
  <1>1. new \in Request
    BY <1>0, SeenTyped DEF Request
  <1>2. /\ request' = [request EXCEPT ![s] = new]
        /\ overlaps' = overlaps + (IF Busy THEN 1 ELSE 0) /\ overlaps' <= MaxOverlaps
        /\ UNCHANGED <<high, mode, shelved, notice, draft, versions, complaint, verify, record, sent>>
        /\ kind # "amend"
    BY DEF Load
  <1> HIDE DEF new
  <1>3. TypeOK'
    BY <1>0, <1>1, <1>2 DEF TypeOK
  <1>4. LoadedIsOlder'
    <2>1. new.notice.signed => notice.signed
      BY <1>0, SeenTyped DEF new
    <2>2. new.draft.active <= draft.active
      BY <1>0, SeenTyped DEF new
    <2>3. QED
      BY <1>0, <1>2, <2>1, <2>2 DEF LoadedIsOlder, TypeOK
  <1>5. overlaps' = 0 => overlaps = 0 /\ \A other \in Slots : request[other] = Free
    BY <1>0, <1>2 DEF TypeOK, Busy
  <1>6. new.kind \in Editing \union {"amend"} => new.draft = draft
    BY <1>0, <1>2, SeenTyped DEF new
  <1>7. AloneIsFresh'
    BY <1>0, <1>2, <1>5, <1>6 DEF AloneIsFresh, TypeOK
  <1>8. QED
    BY <1>2, <1>3, <1>4, <1>5, <1>7
       DEF IInv, SignedBeforeDispatch, ActiveIsNewest, LockedIsUnverified, CleanIsGenerated

LEMMA DropStep ==
    ASSUME IInv, NEW s \in Slots, Drop(s)
    PROVE  IInv'
  <1>1. /\ request' = [request EXCEPT ![s] = Free]
        /\ UNCHANGED <<overlaps, high, mode, shelved, notice, draft, versions, complaint, verify, record, sent>>
    BY DEF Drop
  <1>2. TypeOK'
    BY <1>1 DEF IInv, TypeOK
  <1>3. LoadedIsOlder' /\ AloneIsFresh'
    BY <1>1 DEF IInv, TypeOK, LoadedIsOlder, AloneIsFresh
  <1>4. QED
    BY <1>1, <1>2, <1>3
       DEF IInv, SignedBeforeDispatch, ActiveIsNewest, LockedIsUnverified, CleanIsGenerated

LEMMA DirtiedDraft ==
    ASSUME NEW d \in Draft
    PROVE  /\ Dirtied(d) \in Draft /\ Dirtied(d).active = d.active
           /\ d.active # 0 => Dirtied(d).dirty /\ Dirtied(d).attested = 0
           /\ d.active = 0 => Dirtied(d).attested = d.attested
  <1>1. CASE d.active # 0
    <2>1. Dirtied(d) = [d EXCEPT !.dirty = TRUE, !.attested = 0]
      BY <1>1, Zenon DEF Dirtied
    <2>2. [d EXCEPT !.dirty = TRUE, !.attested = 0].dirty
      BY DEF Draft
    <2>3. ASSUME NEW n \in VersionNo
          PROVE  /\ [d EXCEPT !.dirty = TRUE, !.attested = n] \in Draft
                 /\ [d EXCEPT !.dirty = TRUE, !.attested = n].active = d.active
                 /\ [d EXCEPT !.dirty = TRUE, !.attested = n].attested = n
      BY DEF Draft
    <2>4. 0 \in VersionNo
      BY DEF VersionNo
    <2>5. QED
      BY <1>1, <2>1, <2>2, <2>3, <2>4, Zenon
  <1>2. CASE d.active = 0
    <2>1. Dirtied(d) = [d EXCEPT !.dirty = FALSE, !.attested = d.attested]
      BY <1>2, Zenon DEF Dirtied
    <2>2. QED
      BY <1>2, <2>1 DEF Draft, VersionNo
  <1>3. QED
    BY <1>1, <1>2

(* Saving, attachments, attestation.                                       *)
LEMMA EditStep ==
    ASSUME IInv, NEW s \in Slots, SaveParameters(s) \/ AddAttachment(s) \/ AttestVersion(s)
    PROVE  IInv'
  <1> DEFINE old == request[s].draft
  <1>0. TypeOK /\ SignedBeforeDispatch /\ LockedIsUnverified
    BY DEF IInv
  <1>1. PICK kind \in {"save", "upload", "attest"} : Handles(s, kind)
    BY DEF SaveParameters, AddAttachment, AttestVersion
  <1>2. kind \in Editing \union {"amend"} /\ kind \in Kinds /\ old \in Draft
    BY <1>0, <1>1, Handled DEF Editing, Kinds
  <1>3. /\ UNCHANGED <<overlaps, high, mode, shelved, notice, versions, verify, record, sent>>
        /\ complaint' \in BOOLEAN
    BY <1>0 DEF SaveParameters, AddAttachment, AttestVersion, TypeOK
  <1>5. versions' \in Seq(Version) /\ Len(versions') = Len(versions)
    BY <1>0, <1>3 DEF TypeOK
  <1>6. CASE SaveParameters(s) \/ AddAttachment(s)
    <2>1. PICK new \in Draft :
             /\ WriteDraft(s, new) /\ new.active = old.active
             /\ new.active # 0 => new.dirty /\ new.attested = 0
             /\ new.attested \in {0, old.attested}
      <3>1. ASSUME NEW text \in 0..MaxEdits, NEW d \in Draft
            PROVE  /\ [d EXCEPT !.text = text] \in Draft
                   /\ [d EXCEPT !.text = text].active = d.active
                   /\ [d EXCEPT !.text = text].dirty = d.dirty
                   /\ [d EXCEPT !.text = text].attested = d.attested
        BY DEF Draft
      <3>2. \/ \E text \in 0..MaxEdits : WriteDraft(s, [Dirtied(old) EXCEPT !.text = text])
            \/ WriteDraft(s, Dirtied(old))
        BY <1>6 DEF SaveParameters, AddAttachment
      <3>3. /\ Dirtied(old) \in Draft /\ Dirtied(old).active = old.active
            /\ Dirtied(old).active # 0 => Dirtied(old).dirty /\ Dirtied(old).attested = 0
            /\ Dirtied(old).attested \in {0, old.attested}
        BY <1>2, DirtiedDraft
      <3>4. CASE WriteDraft(s, Dirtied(old))
        BY <3>3, <3>4
      <3>5. ASSUME NEW text \in 0..MaxEdits,
                   WriteDraft(s, [Dirtied(old) EXCEPT !.text = text])
            PROVE  \E new \in Draft :
                     /\ WriteDraft(s, new) /\ new.active = old.active
                     /\ new.active # 0 => new.dirty /\ new.attested = 0
                     /\ new.attested \in {0, old.attested}
        <4> DEFINE new == [Dirtied(old) EXCEPT !.text = text]
        <4>1. /\ new \in Draft /\ new.active = Dirtied(old).active
              /\ new.dirty = Dirtied(old).dirty /\ new.attested = Dirtied(old).attested
          BY <3>1, <3>3
        <4>2. WriteDraft(s, new)
          BY <3>5
        <4> HIDE DEF new
        <4>3. QED
          BY <3>3, <4>1, <4>2
      <3>6. QED
        BY <3>2, <3>4, <3>5
    <2>2. /\ draft' \in Draft
          /\ LoadedIsOlder' /\ AloneIsFresh' /\ ActiveIsNewest' /\ CleanIsGenerated'
      BY <1>1, <1>2, <1>3, <1>5, <2>1, DraftDirtied
    <2>3. request' \in [Slots -> Request \union {Free}]
      BY <1>0, <1>1, <1>2, Handled DEF Loaded
    <2>4. TypeOK'
      BY <1>0, <1>3, <2>2, <2>3 DEF TypeOK
    <2>5. QED
      BY <1>0, <1>3, <2>2, <2>4 DEF IInv, SignedBeforeDispatch, LockedIsUnverified
  <1>7. CASE AttestVersion(s)
    <2> DEFINE new == [old EXCEPT !.attested = old.active]
    <2>1. /\ new \in Draft /\ new.active = old.active /\ new.dirty = old.dirty
          /\ new.text = old.text /\ new.attested = old.active
      BY <1>2 DEF Draft
    <2>2. /\ Handles(s, "attest") /\ WriteDraft(s, new)
          /\ old.active # 0 /\ ~old.dirty
      BY <1>7 DEF AttestVersion
    <2> HIDE DEF new
    <2>3. /\ draft' \in Draft
          /\ draft'.text = draft.text /\ draft'.dirty = draft.dirty
          /\ draft'.active = draft.active
          /\ draft'.attested \in {draft.attested, old.active}
      BY <1>0, <1>2, <2>1, <2>2, WrittenDraft DEF WriteDraft, TypeOK
    <2>4. /\ LoadedIsOlder /\ AloneIsFresh /\ ActiveIsNewest /\ CleanIsGenerated
          /\ draft \in Draft /\ request[s] # Free /\ request[s].kind = "attest"
      BY <1>0, <2>2, Handled DEF IInv, TypeOK, Kinds
    <2>5. LoadedIsOlder' /\ AloneIsFresh'
      BY <1>2, <1>1, <1>3, <2>3, <2>4, SlotFreed DEF Draft, VersionNo
    <2>6. ActiveIsNewest'
      BY <1>2, <1>3, <2>3, <2>4 DEF ActiveIsNewest, LoadedIsOlder
    <2>7. CleanIsGenerated'
      <3>1. SUFFICES ASSUME overlaps = 0 PROVE CleanIsGenerated'
        BY <1>3 DEF CleanIsGenerated
      <3>2. old = draft
        BY <2>4, <3>1 DEF AloneIsFresh, Editing
      <3>3. QED
        BY <1>3, <2>2, <2>3, <2>4, <3>1, <3>2 DEF CleanIsGenerated
    <2>8. request' \in [Slots -> Request \union {Free}]
      BY <1>0, <1>1, <1>2, Handled DEF Loaded
    <2>9. TypeOK'
      BY <1>0, <1>3, <2>3, <2>8 DEF TypeOK
    <2>10. QED
      BY <1>0, <1>3, <2>5, <2>6, <2>7, <2>9 DEF IInv, SignedBeforeDispatch, LockedIsUnverified
  <1>8. QED
    BY <1>6, <1>7

LEMMA GenerateStep ==
    ASSUME IInv, NEW s \in Slots, GenerateVersion(s)
    PROVE  IInv'
  <1> DEFINE old == request[s].draft
             n == Len(versions) + 1
             version == [text |-> old.text, signed |-> FALSE, remarks |-> FALSE]
             new == [old EXCEPT !.dirty = FALSE, !.active = n, !.attested = 0]
  <1>0. /\ TypeOK /\ SignedBeforeDispatch /\ LockedIsUnverified
        /\ LoadedIsOlder /\ AloneIsFresh /\ ActiveIsNewest
    BY DEF IInv
  <1>1. /\ Handles(s, "generate") /\ n <= MaxVersions
        /\ versions' = Append(versions, version) /\ WriteDraft(s, new)
        /\ UNCHANGED <<overlaps, high, mode, shelved, notice, complaint, verify, record, sent>>
    BY DEF GenerateVersion
  <1>2. "generate" \in Kinds
    BY DEF Kinds
  <1>3. /\ old \in Draft /\ request[s] # Free /\ request[s].kind = "generate"
        /\ request' \in [Slots -> Request \union {Free}]
    BY <1>0, <1>1, <1>2, Handled DEF Loaded
  <1>4. draft \in Draft /\ versions \in Seq(Version) /\ Len(versions) \in Nat
    BY <1>0 DEF TypeOK
  <1>5. n \in VersionNo /\ 0 \in VersionNo /\ n # 0
    BY <1>1, <1>4 DEF VersionNo
  <1>6. /\ new \in Draft /\ new.text = old.text /\ ~new.dirty
        /\ new.active = n /\ new.attested = 0
    <2>1. PICK k \in VersionNo, m \in VersionNo : k = n /\ m = 0
      BY <1>5
    <2>2. new = [old EXCEPT !.dirty = FALSE, !.active = k, !.attested = m]
      BY <2>1
    <2> HIDE DEF new, old, n
    <2>3. new \in Draft /\ new.text = old.text /\ new.active = k /\ new.attested = m
      BY <1>3, <2>2 DEF Draft
    <2>4. ~new.dirty
      BY <1>3, <2>2 DEF Draft
    <2>5. QED
      BY <2>1, <2>3, <2>4
  <1>7. version \in Version /\ version.text = old.text /\ version.remarks = FALSE
    BY <1>3 DEF Draft, Version
  <1> HIDE DEF new, version
  <1>8. /\ versions' \in Seq(Version) /\ Len(versions') = n /\ versions'[n] = version
    BY <1>1, <1>4, <1>7
  <1>9. /\ draft' \in Draft
        /\ draft'.text = draft.text
        /\ draft'.dirty = IF new.dirty # old.dirty THEN new.dirty ELSE draft.dirty
        /\ draft'.active = IF n # old.active THEN n ELSE draft.active
        /\ draft'.attested = IF 0 # old.attested THEN 0 ELSE draft.attested
    BY <1>1, <1>3, <1>4, <1>6, WrittenDraft DEF WriteDraft
  <1>10. /\ old.active <= draft.active /\ draft.active \in {0, Len(versions)}
         /\ draft.attested <= draft.active /\ shelved \in 0..Len(versions)
    BY <1>0, <1>3 DEF LoadedIsOlder, ActiveIsNewest, TypeOK
  <1>11. draft'.active = n /\ draft'.attested \in {0, draft.attested}
    BY <1>3, <1>4, <1>9, <1>10 DEF Draft, VersionNo
  <1>12. ActiveIsNewest'
    BY <1>1, <1>4, <1>5, <1>8, <1>10, <1>11 DEF ActiveIsNewest, Draft, VersionNo
  <1>13. LoadedIsOlder' /\ AloneIsFresh'
    BY <1>1, <1>2, <1>4, <1>9, <1>10, <1>11, SlotFreed DEF Draft, VersionNo
  <1>14. CleanIsGenerated'
    <2>1. SUFFICES ASSUME overlaps = 0 PROVE CleanIsGenerated'
      BY <1>1 DEF CleanIsGenerated
    <2>2. old = draft
      BY <1>0, <1>3, <2>1 DEF AloneIsFresh, Editing
    <2>3. draft'.attested = 0
      BY <1>9, <2>2
    <2>4. versions'[draft'.active].text = draft'.text /\ ~versions'[draft'.active].remarks
      BY <1>7, <1>8, <1>9, <1>11, <2>2
    <2>5. QED
      BY <2>3, <2>4 DEF CleanIsGenerated
  <1>15. TypeOK'
    BY <1>0, <1>1, <1>3, <1>4, <1>8, <1>9 DEF TypeOK
  <1>16. QED
    BY <1>0, <1>1, <1>12, <1>13, <1>14, <1>15 DEF IInv, SignedBeforeDispatch, LockedIsUnverified

(* Signing in, and the end of a lock.                                      *)
LEMMA VerifyStep ==
    ASSUME IInv, NEW s \in Slots, VerifySucceeds(s) \/ VerifyFails(s)
    PROVE  IInv'
  <1>0. TypeOK /\ SignedBeforeDispatch /\ LockedIsUnverified
    BY DEF IInv
  <1>1. /\ Handles(s, "verify") /\ "verify" \in Kinds
        /\ UNCHANGED <<overlaps, high, mode, shelved, notice, draft, versions, complaint, record, sent>>
    BY DEF VerifySucceeds, VerifyFails, Kinds
  <1>2. Failure \in 0..FailureLimit
    BY <1>0 DEF Failure, TypeOK, Verification
  <1>3. verify' \in Verification /\ LockedIsUnverified'
    <2>1. CASE VerifySucceeds(s)
      BY <2>1 DEF VerifySucceeds, Verification, LockedIsUnverified
    <2>2. CASE VerifyFails(s) /\ Failure >= FailureLimit
      <3>1. Failure = FailureLimit /\ (Failure >= FailureLimit) = TRUE
        BY <1>2, <2>2
      <3>2. verify' = [failures |-> FailureLimit, locked |-> TRUE, verified |-> FALSE]
        BY <2>2, <3>1, Zenon DEF VerifyFails
      <3>3. QED
        BY <3>2 DEF Verification, LockedIsUnverified
    <2>3. CASE VerifyFails(s) /\ ~(Failure >= FailureLimit)
      <3>1. (Failure >= FailureLimit) = FALSE
        BY <2>3
      <3>2. verify' = [failures |-> Failure, locked |-> FALSE, verified |-> FALSE]
        BY <2>3, <3>1, Zenon DEF VerifyFails
      <3>3. QED
        BY <1>2, <3>2 DEF Verification, LockedIsUnverified
    <2>4. QED
      BY <2>1, <2>2, <2>3
  <1>4. LoadedIsOlder' /\ AloneIsFresh' /\ ActiveIsNewest' /\ CleanIsGenerated'
    BY <1>1, DraftLeft
  <1>5. request' \in [Slots -> Request \union {Free}]
    BY <1>0, <1>1, Handled DEF Loaded
  <1>6. TypeOK'
    BY <1>0, <1>1, <1>3, <1>5 DEF TypeOK
  <1>7. QED
    BY <1>0, <1>1, <1>3, <1>4, <1>6 DEF IInv, SignedBeforeDispatch

LEMMA LockStep ==
    ASSUME IInv, LockExpires
    PROVE  IInv'
  <1>1. /\ verify' = [verify EXCEPT !.locked = FALSE]
        /\ UNCHANGED <<overlaps, high, mode, shelved, notice, draft, versions, complaint, record, sent, request>>
    BY DEF LockExpires
  <1>2. verify' \in Verification /\ LockedIsUnverified'
    BY <1>1 DEF IInv, TypeOK, Verification, LockedIsUnverified
  <1>3. TypeOK'
    BY <1>1, <1>2 DEF IInv, TypeOK
  <1>4. QED
    BY <1>1, <1>2, <1>3
       DEF IInv, SignedBeforeDispatch, ActiveIsNewest, LoadedIsOlder, AloneIsFresh,
           CleanIsGenerated

-----------------------------------------------------------------------------
LEMMA StatusSet ==
    ASSUME NEW n \in Notice, NEW status \in Statuses
    PROVE  /\ [n EXCEPT !.status = status] \in Notice
           /\ [n EXCEPT !.status = status].status = status
           /\ [n EXCEPT !.status = status].signed = n.signed
  BY DEF Notice

(* Routing, past a supervisor or to one.  What was loaded may be stale; the*)
(* signature of another request survives, as the column is not written.    *)
LEMMA RouteStep ==
    ASSUME IInv, NEW s \in Slots, RouteDirect(s) \/ RouteToAcp(s) \/ RequestCountersign(s)
    PROVE  IInv'
  <1> DEFINE old == request[s].notice
  <1>0. TypeOK /\ SignedBeforeDispatch /\ LockedIsUnverified
    BY DEF IInv
  <1>1. PICK kind \in {"route", "request_countersign"}, status \in Statuses :
           /\ Handles(s, kind)
           /\ WriteNotice(s, [old EXCEPT !.status = status])
           /\ Recorded(request[s].draft.active, status)
           /\ high => status = "awaiting_countersignature"
    BY DEF RouteDirect, RouteToAcp, RequestCountersign, Statuses
  <1>2. UNCHANGED <<overlaps, high, mode, shelved, draft, versions, complaint, verify, sent>>
    BY DEF RouteDirect, RouteToAcp, RequestCountersign
  <1>3. kind \in Kinds
    BY DEF Kinds
  <1>4. /\ request[s] \in Request /\ old \in Notice /\ request[s].draft \in Draft
        /\ request' \in [Slots -> Request \union {Free}]
    BY <1>0, <1>1, <1>3, Handled DEF Loaded
  <1>5. /\ notice' \in Notice /\ (notice.signed => notice'.signed)
        /\ notice'.status \in {notice.status, status}
    <2>1. /\ [old EXCEPT !.status = status] \in Notice
          /\ [old EXCEPT !.status = status].status = status
          /\ [old EXCEPT !.status = status].signed = old.signed
      BY <1>4, StatusSet
    <2>2. QED
      BY <1>0, <1>1, <1>4, <2>1, NoticeWritten
  <1>6. record' \in Record
    BY <1>0, <1>1, <1>4, RecordTyped DEF TypeOK, Draft
  <1>7. LoadedIsOlder' /\ AloneIsFresh' /\ ActiveIsNewest' /\ CleanIsGenerated'
    BY <1>1, <1>2, <1>3, <1>5, DraftLeft
  <1>8. SignedBeforeDispatch'
    BY <1>0, <1>1, <1>2, <1>5 DEF SignedBeforeDispatch
  <1>9. TypeOK'
    BY <1>0, <1>2, <1>4, <1>5, <1>6 DEF TypeOK
  <1>10. QED
    BY <1>0, <1>2, <1>7, <1>8, <1>9 DEF IInv, LockedIsUnverified

(* The supervisor signs the version that was active when the rows were     *)
(* loaded.                                                                 *)
LEMMA CountersignStep ==
    ASSUME IInv, NEW s \in Slots, Countersign(s)
    PROVE  IInv'
  <1> DEFINE new == [status |-> "countersigned", signed |-> TRUE]
             k == request[s].draft.active
  <1>0. /\ TypeOK /\ SignedBeforeDispatch /\ LockedIsUnverified
        /\ ActiveIsNewest /\ CleanIsGenerated
    BY DEF IInv
  <1>1. /\ Handles(s, "countersign") /\ "countersign" \in Kinds
        /\ ~request[s].notice.signed
        /\ WriteNotice(s, new) /\ Sign(k) /\ Recorded(k, "countersigned")
        /\ UNCHANGED <<overlaps, high, mode, shelved, draft, complaint, verify, sent>>
    BY DEF Countersign, Kinds
  <1>2. /\ request[s] \in Request /\ request[s].draft \in Draft /\ k \in VersionNo
        /\ request' \in [Slots -> Request \union {Free}]
    BY <1>0, <1>1, Handled DEF Loaded, Draft
  <1>3. new \in Notice /\ new.signed
    BY DEF Notice, Statuses
  <1>4. notice' \in Notice /\ notice'.signed
    <2> HIDE DEF new
    <2>1. QED
      BY <1>0, <1>1, <1>2, <1>3, NoticeWritten
  <1>5. record' \in Record
    BY <1>0, <1>1, <1>2, RecordTyped DEF TypeOK, Statuses
  <1>6. /\ versions' \in Seq(Version) /\ Len(versions') = Len(versions)
        /\ \A j \in 1..Len(versions) : /\ versions'[j].text = versions[j].text
                                     /\ versions'[j].remarks = versions[j].remarks
    BY <1>0, <1>1, <1>2, SignedVersions DEF TypeOK
  <1>7. draft \in Draft /\ versions \in Seq(Version) /\ Len(versions) \in Nat
    BY <1>0 DEF TypeOK
  <1>8. LoadedIsOlder' /\ AloneIsFresh'
    BY <1>1, <1>4, <1>7, SlotFreed DEF Draft, VersionNo
  <1>9. ActiveIsNewest'
    BY <1>0, <1>1, <1>6 DEF ActiveIsNewest
  <1>10. CleanIsGenerated'
    <2>1. draft.active # 0 => draft.active \in 1..Len(versions)
      BY <1>0, <1>7 DEF ActiveIsNewest
    <2>2. QED
      BY <1>0, <1>1, <1>6, <2>1 DEF CleanIsGenerated
  <1>11. SignedBeforeDispatch' /\ LockedIsUnverified'
    BY <1>0, <1>1, <1>4 DEF SignedBeforeDispatch, LockedIsUnverified
  <1>12. TypeOK'
    BY <1>0, <1>1, <1>2, <1>4, <1>5, <1>6 DEF TypeOK
  <1>13. QED
    BY <1>8, <1>9, <1>10, <1>11, <1>12 DEF IInv

(* The return of a notice: the draft is read again, and written back dirty.*)
LEMMA ReadStep ==
    ASSUME IInv, NEW s \in Slots, ReadForAmendment(s)
    PROVE  IInv'
  <1> DEFINE new == [request[s] EXCEPT !.kind = "amend", !.draft = draft]
  <1>0. TypeOK /\ LoadedIsOlder /\ AloneIsFresh
    BY DEF IInv
  <1>1. /\ request[s].kind = "return"
        /\ request' = [request EXCEPT ![s].kind = "amend", ![s].draft = draft]
        /\ UNCHANGED <<overlaps, high, mode, shelved, notice, draft, versions, complaint, verify, record, sent>>
    BY DEF ReadForAmendment
  <1>2. request[s] \in Request /\ request[s] # Free
    BY <1>0, <1>1 DEF TypeOK, Free
  <1>3. /\ new \in Request /\ new.kind = "amend" /\ new.draft = draft
        /\ new.notice = request[s].notice
    BY <1>0, <1>2 DEF TypeOK, Request, Kinds
  <1>4. request' = [request EXCEPT ![s] = new]
    BY <1>1
  <1> HIDE DEF new
  <1>5. TypeOK'
    BY <1>0, <1>1, <1>3, <1>4 DEF TypeOK
  <1>6. LoadedIsOlder'
    BY <1>0, <1>1, <1>2, <1>3, <1>4 DEF LoadedIsOlder, TypeOK, Draft, VersionNo
  <1>7. AloneIsFresh'
    BY <1>0, <1>1, <1>2, <1>3, <1>4 DEF AloneIsFresh, TypeOK
  <1>8. QED
    BY <1>1, <1>5, <1>6, <1>7
       DEF IInv, SignedBeforeDispatch, ActiveIsNewest, LockedIsUnverified, CleanIsGenerated

LEMMA ReturnStep ==
    ASSUME IInv, NEW s \in Slots, ReturnForAmendment(s)
    PROVE  IInv'
  <1> DEFINE old == request[s].draft
             new == [old EXCEPT !.dirty = TRUE, !.attested = 0]
             status == [request[s].notice EXCEPT !.status = "draft"]
  <1>0. TypeOK /\ SignedBeforeDispatch /\ LockedIsUnverified
    BY DEF IInv
  <1>1. /\ Handles(s, "amend") /\ "amend" \in Kinds /\ "amend" \in Editing \union {"amend"}
        /\ versions' = [versions EXCEPT ![old.active].remarks = TRUE]
        /\ WriteDraft(s, new) /\ WriteNotice(s, status)
        /\ UNCHANGED <<overlaps, high, mode, shelved, complaint, verify, record, sent>>
    BY DEF ReturnForAmendment, Kinds
  <1>2. /\ request[s] \in Request /\ old \in Draft /\ request[s].notice \in Notice
        /\ request' \in [Slots -> Request \union {Free}]
    BY <1>0, <1>1, Handled DEF Loaded
  <1>3. versions' \in Seq(Version) /\ Len(versions') = Len(versions)
    <2>1. versions \in Seq(Version) /\ old.active \in Nat
      BY <1>0, <1>2 DEF TypeOK, Draft, VersionNo
    <2>2. QED
      BY <1>1, <2>1, RemarkedVersions
  <1>4. /\ notice' \in Notice /\ (notice.signed => notice'.signed)
        /\ notice'.status \in {notice.status, "draft"}
    <2>1. status \in Notice /\ status.status = "draft" /\ status.signed = request[s].notice.signed
      BY <1>2, StatusSet DEF Statuses
    <2> HIDE DEF status
    <2>2. QED
      BY <1>0, <1>1, <1>2, <2>1, NoticeWritten
  <1>5. new \in Draft /\ new.active = old.active /\ new.dirty /\ new.attested = 0
    <2>1. PICK m \in VersionNo : m = 0
      BY DEF VersionNo
    <2>2. new = [old EXCEPT !.dirty = TRUE, !.attested = m]
      BY <2>1
    <2> HIDE DEF new, old
    <2>3. new \in Draft /\ new.active = old.active /\ new.attested = m
      BY <1>2, <2>2 DEF Draft
    <2>4. new.dirty
      BY <1>2, <2>2 DEF Draft
    <2>5. QED
      BY <2>1, <2>3, <2>4
  <1> HIDE DEF new, status
  <1>6. /\ draft' \in Draft
        /\ LoadedIsOlder' /\ AloneIsFresh' /\ ActiveIsNewest' /\ CleanIsGenerated'
    BY <1>1, <1>3, <1>4, <1>5, DraftDirtied
  <1>7. SignedBeforeDispatch'
    BY <1>0, <1>1, <1>4 DEF SignedBeforeDispatch
  <1>8. TypeOK'
    BY <1>0, <1>1, <1>2, <1>3, <1>4, <1>6 DEF TypeOK
  <1>9. QED
    BY <1>0, <1>1, <1>6, <1>7, <1>8 DEF IInv, LockedIsUnverified

(* The dispatch looks at the signature it loaded, which is in the table.   *)
LEMMA DispatchStep ==
    ASSUME IInv, NEW s \in Slots, DispatchNotice(s)
    PROVE  IInv'
  <1> DEFINE new == [request[s].notice EXCEPT !.status = "dispatched"]
  <1>0. TypeOK /\ LoadedIsOlder /\ LockedIsUnverified
    BY DEF IInv
  <1>1. /\ Handles(s, "dispatch") /\ "dispatch" \in Kinds
        /\ high => request[s].notice.signed
        /\ WriteNotice(s, new)
        /\ sent' = Append(sent, draft.active)
        /\ UNCHANGED <<overlaps, high, mode, shelved, draft, versions, complaint, verify>>
    BY DEF DispatchNotice, Kinds
  <1>2. /\ request[s] \in Request /\ request[s].notice \in Notice /\ request[s] # Free
        /\ request' \in [Slots -> Request \union {Free}]
    BY <1>0, <1>1, Handled DEF Loaded
  <1>3. notice' \in Notice /\ (notice.signed => notice'.signed)
    <2>1. new \in Notice /\ new.signed = request[s].notice.signed
      BY <1>2, StatusSet DEF Statuses
    <2> HIDE DEF new
    <2>2. QED
      BY <1>0, <1>1, <1>2, <2>1, NoticeWritten
  <1>4. draft.active \in VersionNo
    BY <1>0 DEF TypeOK, Draft
  <1>5. record' \in Record /\ sent' \in Seq(VersionNo)
    <2>1. sent' \in Seq(VersionNo)
      BY <1>0, <1>1, <1>4 DEF TypeOK
    <2>2. record.stage \in {"none"} \union Statuses /\ record.version \in VersionNo
      BY <1>0 DEF TypeOK, Record
    <2>3. PICK stage \in {"none"} \union Statuses, version \in VersionNo :
             record' = [stage |-> stage, version |-> version, dispatched |-> TRUE]
      BY <1>4, <2>2 DEF DispatchNotice, Statuses
    <2>4. QED
      BY <2>1, <2>3 DEF Record
  <1>6. LoadedIsOlder' /\ AloneIsFresh' /\ ActiveIsNewest' /\ CleanIsGenerated'
    BY <1>1, <1>3, DraftLeft
  <1>7. SignedBeforeDispatch'
    BY <1>0, <1>1, <1>2, <1>3 DEF SignedBeforeDispatch, LoadedIsOlder
  <1>8. TypeOK'
    BY <1>0, <1>1, <1>2, <1>3, <1>5 DEF TypeOK
  <1>9. QED
    BY <1>0, <1>1, <1>6, <1>7, <1>8 DEF IInv, LockedIsUnverified

(* A reset finds no request under way, and leaves the versions behind.     *)
LEMMA ResetStep ==
    ASSUME IInv, Reset
    PROVE  IInv'
  <1>0. TypeOK
    BY DEF IInv
  <1>1. /\ notice' = NewNotice /\ draft' = NewDraft /\ verify' = Unverified /\ sent' = << >>
        /\ shelved' = Len(versions)
        /\ UNCHANGED <<overlaps, high, mode, versions, complaint, record, request>>
        /\ \A s \in Slots : request[s] = Free
    BY DEF Reset, Busy
  <1>2. TypeOK'
    <2>1. notice' \in Notice /\ draft' \in Draft
      BY <1>1 DEF Notice, NewNotice, Statuses, Draft, NewDraft, VersionNo
    <2>2. verify' \in Verification /\ sent' \in Seq(VersionNo)
      BY <1>1 DEF Verification, Unverified
    <2>3. shelved' \in 0..Len(versions')
      BY <1>0, <1>1 DEF TypeOK
    <2>4. QED
      BY <1>0, <1>1, <2>1, <2>2, <2>3 DEF TypeOK
  <1>3. SignedBeforeDispatch' /\ ActiveIsNewest' /\ LockedIsUnverified' /\ CleanIsGenerated'
    BY <1>1 DEF SignedBeforeDispatch, ActiveIsNewest, LockedIsUnverified, CleanIsGenerated,
                NewNotice, NewDraft, Unverified
  <1>4. LoadedIsOlder' /\ AloneIsFresh'
    BY <1>1 DEF LoadedIsOlder, AloneIsFresh
  <1>5. QED
    BY <1>2, <1>3, <1>4 DEF IInv

-----------------------------------------------------------------------------
LEMMA StepInvariant ==
    ASSUME IInv, [Next]_vars
    PROVE  IInv'
  <1>1. CASE UNCHANGED vars
    <2>1. UNCHANGED <<overlaps, high, mode, shelved, notice, draft, versions, complaint, verify,
                      record, sent, request>>
      BY <1>1 DEF vars
    <2>2. TypeOK'
      BY <2>1 DEF IInv, TypeOK
    <2>3. QED
      BY <2>1, <2>2
         DEF IInv, SignedBeforeDispatch, ActiveIsNewest, LockedIsUnverified, LoadedIsOlder,
             AloneIsFresh, CleanIsGenerated
  <1>2. ASSUME NEW s \in Slots, NEW kind \in Kinds, Load(s, kind)
        PROVE  IInv'
    BY <1>2, LoadStep
  <1>3. ASSUME NEW s \in Slots, Drop(s)
        PROVE  IInv'
    BY <1>3, DropStep
  <1>4. ASSUME NEW s \in Slots, SaveParameters(s) \/ AddAttachment(s) \/ AttestVersion(s)
        PROVE  IInv'
    BY <1>4, EditStep
  <1>5. ASSUME NEW s \in Slots, GenerateVersion(s)
        PROVE  IInv'
    BY <1>5, GenerateStep
  <1>6. ASSUME NEW s \in Slots, VerifySucceeds(s) \/ VerifyFails(s)
        PROVE  IInv'
    BY <1>6, VerifyStep
  <1>7. ASSUME NEW s \in Slots, RouteDirect(s) \/ RouteToAcp(s) \/ RequestCountersign(s)
        PROVE  IInv'
    BY <1>7, RouteStep
  <1>8. ASSUME NEW s \in Slots, Countersign(s)
        PROVE  IInv'
    BY <1>8, CountersignStep
  <1>9. ASSUME NEW s \in Slots, ReadForAmendment(s) \/ ReturnForAmendment(s)
        PROVE  IInv'
    BY <1>9, ReadStep, ReturnStep
  <1>10. ASSUME NEW s \in Slots, DispatchNotice(s)
         PROVE  IInv'
    BY <1>10, DispatchStep
  <1>11. CASE LockExpires
    BY <1>11, LockStep
  <1>12. CASE Reset
    BY <1>12, ResetStep
  <1>13. QED
    BY <1>1, <1>2, <1>3, <1>4, <1>5, <1>6, <1>7, <1>8, <1>9, <1>10, <1>11, <1>12 DEF Next

LEMMA Invariant == Spec => []IInv
  <1>1. IInv /\ [Next]_vars => IInv'
    BY StepInvariant
  <1>2. QED
    BY InitInvariant, <1>1, PTL DEF Spec

(* The notice tables and the rows a request has loaded keep their types,   *)
(* and version numbers their bound.                                        *)
THEOREM TypeCorrect == Spec => []TypeOK
  <1>1. IInv => TypeOK
    BY DEF IInv
  <1>2. QED
    BY Invariant, <1>1, PTL

(* At or above the threshold nothing counts as countersigned, and nothing  *)
(* goes out, before a supervisor signed: whatever requests overlap, through*)
(* the pages, the shortcut or a stale row (route, countersign, dispatch).  *)
THEOREM SignedFirst == Spec => []SignedBeforeDispatch
  <1>1. IInv => SignedBeforeDispatch
    BY DEF IInv
  <1>2. QED
    BY Invariant, <1>1, PTL

(* The active version of a draft is the newest row of its versions, and no *)
(* version beyond it is attested, as generate_version takes its number from*)
(* the table and every other handler writes only what it changed.          *)
THEOREM NewestIsActive == Spec => []ActiveIsNewest
  <1>1. IInv => ActiveIsNewest
    BY DEF IInv
  <1>2. QED
    BY Invariant, <1>1, PTL

(* While record_verification holds the lock, the session has no success and*)
(* FailureLimit failures.                                                  *)
THEOREM LockHolds == Spec => []LockedIsUnverified
  <1>1. IInv => LockedIsUnverified
    BY DEF IInv
  <1>2. QED
    BY Invariant, <1>1, PTL

(* When no request overlapped another, an attested draft is clean, is what *)
(* its version was generated from, and was not sent back by the ACP.       *)
THEOREM AttestationCurrent == Spec => []AttestedIsCurrent
  <1>1. IInv => AttestedIsCurrent
    BY DEF IInv, CleanIsGenerated, AttestedIsCurrent
  <1>2. QED
    BY Invariant, <1>1, PTL
=============================================================================
