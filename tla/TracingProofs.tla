----------------------------- MODULE TracingProofs -----------------------------
(***************************************************************************)
(* Proofs about what surrounds a trace: Custody, for any desks and any     *)
(* responses; TraceSnapshots, for any requests, parameters and number of   *)
(* snapshots; ProviderRequests, for any callers, limit, share and window;  *)
(* WalletWatch, for any finite set of wallets and any capacity; and        *)
(* NarrativeIntake, for any requests and texts.  Each part ends in its     *)
(* theorems.                                                               *)
(***************************************************************************)
EXTENDS MCTracing, LiveTraceProofs

-----------------------------------------------------------------------------
(* Custody.                                                                 *)

(* The requests of the desks, by what they are at.                          *)
LEMMA ImportTyped ==
    ASSUME CustodyTypeOK, NEW d \in Desks
    PROVE  /\ desk[d].pc \in {"assertion", "response", "rows", "done", "refused"} <=>
                 desk[d] \in ImportRequests
           /\ desk[d].pc = "action" <=> desk[d] \in ActionRequests
           /\ desk[d] \in ImportRequests =>
                 desk[d].response \in Responses /\ desk[d].left \in Seq(TableNames)
           /\ desk[d] \in ActionRequests => desk[d].seen \in CustodyActions
           /\ ~(desk[d] \in ImportRequests /\ desk[d] \in ActionRequests)
  <1>1. desk[d] \in {NoRequest} \cup ImportRequests \cup ActionRequests
    BY DEF CustodyTypeOK
  <1>2. NoRequest.pc = "idle"
    BY DEF NoRequest
  <1>3. QED
    BY <1>1, <1>2 DEF ImportRequests, ActionRequests

LEMMA CustodyInitInvariant == CustodyInit => CustodyInv
  <1> SUFFICES ASSUME CustodyInit PROVE CustodyInv
    OBVIOUS
  <1>1. /\ DOMAIN assertions = {} /\ DOMAIN responses = {} /\ rows = {}
        /\ \A d \in Desks : desk[d] = NoRequest
        /\ action = NoAction
    BY DEF CustodyInit
  <1>2. NoRequest \notin ImportRequests /\ NoRequest.pc = "idle"
    BY DEF NoRequest, ImportRequests
  <1>3. NoAction.status = "none" /\ NoAction.credit = "none"
    BY DEF NoAction, CustodyAction
  <1>4. CustodyTypeOK
    BY <1>1, <1>3 DEF CustodyInit, CustodyTypeOK
  <1>5. CertifiedImportIsWhole
    BY <1>1, <1>2 DEF CertifiedImportIsWhole
  <1>6. QED
    BY <1>1, <1>2, <1>3, <1>4, <1>5 DEF CustodyInv

(* Requests that are on the way to the same place, but at another step.     *)
LEMMA ToTyped ==
    ASSUME CustodyTypeOK, NEW d \in Desks, desk[d] \in ImportRequests,
           NEW pc \in {"response", "rows", "done", "refused"}, To(d, pc)
    PROVE  /\ desk' \in [Desks -> {NoRequest} \cup ImportRequests \cup ActionRequests]
           /\ \A e \in Desks : e # d => desk'[e] = desk[e]
           /\ desk'[d].pc = pc /\ desk'[d].response = desk[d].response
           /\ desk'[d].left = desk[d].left /\ desk'[d] \in ImportRequests
  <1>1. [desk[d] EXCEPT !.pc = pc] \in ImportRequests
    BY DEF ImportRequests
  <1>2. /\ [desk[d] EXCEPT !.pc = pc].pc = pc
        /\ [desk[d] EXCEPT !.pc = pc].response = desk[d].response
        /\ [desk[d] EXCEPT !.pc = pc].left = desk[d].left
    BY DEF ImportRequests
  <1>3. desk' = [desk EXCEPT ![d] = [desk[d] EXCEPT !.pc = pc]]
    BY DEF To
  <1>4. QED
    BY <1>1, <1>2, <1>3 DEF CustodyTypeOK

(* Nothing that is stored is ever taken back, so the other imports are as   *)
(* far as they were.                                                        *)
LEMMA OthersStay ==
    ASSUME CustodyInv, CustodyTypeOK', NEW d \in Desks,
           \A e \in Desks : e # d => desk'[e] = desk[e],
           \A k \in DOMAIN assertions : k \in DOMAIN assertions' /\ assertions'[k] = assertions[k],
           \A k \in DOMAIN responses : k \in DOMAIN responses' /\ responses'[k] = responses[k],
           rows \subseteq rows'
    PROVE  /\ \A e \in Desks : e # d /\ desk'[e] \in ImportRequests => ImportAsFarAs(desk[e])'
           /\ \A e \in Desks : e # d /\ desk'[e].pc = "done" =>
                 LET r == desk'[e].response IN
                 r.ref \in DOMAIN responses' /\ {r.ref} \X r.tables \subseteq rows'
  <1>1. ASSUME NEW e \in Desks, e # d, desk'[e] \in ImportRequests
        PROVE  ImportAsFarAs(desk[e])'
    <2>1. desk'[e] = desk[e] /\ ImportAsFarAs(desk[e])
      BY <1>1 DEF CustodyInv
    <2>2. QED
      BY <2>1 DEF ImportAsFarAs
  <1>2. ASSUME NEW e \in Desks, e # d, desk'[e].pc = "done"
        PROVE  LET r == desk'[e].response IN
               r.ref \in DOMAIN responses' /\ {r.ref} \X r.tables \subseteq rows'
    <2>1. desk'[e] = desk[e]
      BY <1>2
    <2>2. LET r == desk[e].response IN
          r.ref \in DOMAIN responses /\ {r.ref} \X r.tables \subseteq rows
      BY <2>1, <1>2 DEF CustodyInv, CertifiedImportIsWhole
    <2>3. QED
      BY <2>1, <2>2
  <1>3. QED
    BY <1>1, <1>2

LEMMA StartImportStep ==
    ASSUME CustodyInv, NEW d \in Desks, NEW r \in Responses, StartImport(d, r)
    PROVE  CustodyInv'
  <1> DEFINE q == [pc |-> "assertion", response |-> r, left |-> Tables]
  <1>1. /\ CustodyTypeOK /\ CertifiedImportIsWhole
        /\ desk' = [desk EXCEPT ![d] = q]
        /\ UNCHANGED <<assertions, responses, rows, action>>
    BY DEF StartImport, CustodyInv
  <1>2. Tables \in Seq(TableNames)
    BY DEF Tables, TableNames
  <1>3. q \in ImportRequests
    BY <1>2 DEF ImportRequests
  <1>4. CustodyTypeOK'
    BY <1>1, <1>3 DEF CustodyTypeOK
  <1>5. desk'[d] = q /\ \A e \in Desks : e # d => desk'[e] = desk[e]
    BY <1>1 DEF CustodyTypeOK
  <1>6. ImportAsFarAs(q)'
    <2>1. \A t \in r.tables : \E k \in DOMAIN Tables : Tables[k] = t
      BY CustodyAssumption DEF TableNames
    <2>2. QED
      BY <2>1 DEF ImportAsFarAs
  <1>7. CertifiedImportIsWhole'
    BY <1>1, <1>4, <1>5, OthersStay DEF CertifiedImportIsWhole
  <1>8. QED
    BY <1>1, <1>4, <1>5, <1>6, <1>7, OthersStay DEF CustodyInv

LEMMA AssertCustodyStep ==
    ASSUME CustodyInv, NEW d \in Desks, AssertCustody(d)
    PROVE  CustodyInv'
  <1> DEFINE r == desk[d].response
  <1>1. /\ CustodyTypeOK /\ CertifiedImportIsWhole /\ desk[d].pc = "assertion"
        /\ UNCHANGED <<responses, rows, action>>
    BY DEF AssertCustody, CustodyInv
  <1>2. desk[d] \in ImportRequests /\ r \in Responses /\ ImportAsFarAs(desk[d])
    BY <1>1, ImportTyped DEF CustodyInv
  <1>3. /\ \A k \in DOMAIN assertions : k \in DOMAIN assertions' /\ assertions'[k] = assertions[k]
        /\ DOMAIN assertions' \subseteq Credits
        /\ \/ /\ To(d, "response")
              /\ r.credit \in DOMAIN assertions' /\ assertions'[r.credit] = r.available
           \/ To(d, "refused")
    <2>1. CASE r.credit \notin DOMAIN assertions
      <3>1. assertions' = With(assertions, r.credit, r.available) /\ To(d, "response")
        BY <2>1 DEF AssertCustody
      <3>2. /\ DOMAIN assertions' = DOMAIN assertions \cup {r.credit}
            /\ \A k \in DOMAIN assertions : assertions'[k] = assertions[k]
            /\ assertions'[r.credit] = r.available
        BY <2>1, <3>1 DEF With
      <3>3. r.credit \in Credits /\ DOMAIN assertions \subseteq Credits
        BY <1>1, <1>2 DEF CustodyTypeOK, Credits
      <3>4. QED
        BY <3>1, <3>2, <3>3
    <2>2. CASE r.credit \in DOMAIN assertions
      BY <1>1, <1>2, <2>2 DEF AssertCustody, CustodyTypeOK
    <2>3. QED
      BY <2>1, <2>2
  <1>4. PICK pc \in {"response", "refused"} :
           /\ To(d, pc)
           /\ pc = "response" => r.credit \in DOMAIN assertions' /\ assertions'[r.credit] = r.available
    BY <1>3
  <1>5. /\ desk' \in [Desks -> {NoRequest} \cup ImportRequests \cup ActionRequests]
        /\ \A e \in Desks : e # d => desk'[e] = desk[e]
        /\ desk'[d].pc = pc /\ desk'[d].response = r /\ desk'[d].left = desk[d].left
    BY <1>1, <1>2, <1>4, ToTyped
  <1>6. CustodyTypeOK'
    BY <1>1, <1>3, <1>5 DEF CustodyTypeOK
  <1>7. ImportAsFarAs(desk[d])'
    BY <1>1, <1>2, <1>4, <1>5 DEF ImportAsFarAs
  <1>8. /\ \A e \in Desks : e # d /\ desk'[e] \in ImportRequests => ImportAsFarAs(desk[e])'
        /\ \A e \in Desks : e # d /\ desk'[e].pc = "done" =>
              LET s == desk'[e].response IN
              s.ref \in DOMAIN responses' /\ {s.ref} \X s.tables \subseteq rows'
    BY <1>1, <1>3, <1>5, <1>6, OthersStay
  <1>9. CertifiedImportIsWhole'
    <2>1. desk'[d].pc # "done"
      BY <1>5
    <2>2. \A row \in rows' : row[1] \in DOMAIN responses' /\ row[2] \in responses'[row[1]].tables
      BY <1>1 DEF CertifiedImportIsWhole
    <2>3. \A ref \in DOMAIN responses' :
             LET s == responses'[ref] IN
             s.credit \in DOMAIN assertions' /\ assertions'[s.credit] = s.available
      BY <1>1, <1>3 DEF CertifiedImportIsWhole
    <2>4. QED
      BY <1>8, <2>1, <2>2, <2>3 DEF CertifiedImportIsWhole
  <1>10. QED
    BY <1>6, <1>7, <1>8, <1>9 DEF CustodyInv

LEMMA StoreResponseStep ==
    ASSUME CustodyInv, NEW d \in Desks, StoreResponse(d)
    PROVE  CustodyInv'
  <1> DEFINE r == desk[d].response
  <1>1. /\ CustodyTypeOK /\ CertifiedImportIsWhole /\ desk[d].pc = "response"
        /\ UNCHANGED <<assertions, rows, action>>
    BY DEF StoreResponse, CustodyInv
  <1>2. desk[d] \in ImportRequests /\ r \in Responses /\ ImportAsFarAs(desk[d])
    BY <1>1, ImportTyped DEF CustodyInv
  <1>3. /\ \A k \in DOMAIN responses : k \in DOMAIN responses' /\ responses'[k] = responses[k]
        /\ \A k \in DOMAIN responses' : k \in DOMAIN responses \/ responses'[k] = r
        /\ \/ To(d, "rows") /\ r.ref \in DOMAIN responses' /\ responses'[r.ref] = r
           \/ To(d, "refused")
    <2>1. CASE r.ref \notin DOMAIN responses
      <3>1. responses' = With(responses, r.ref, r) /\ To(d, "rows")
        BY <2>1 DEF StoreResponse
      <3>2. /\ DOMAIN responses' = DOMAIN responses \cup {r.ref}
            /\ \A k \in DOMAIN responses : responses'[k] = responses[k]
            /\ responses'[r.ref] = r
        BY <2>1, <3>1 DEF With
      <3>3. QED
        BY <3>1, <3>2
    <2>2. CASE r.ref \in DOMAIN responses
      BY <1>1, <1>2, <2>2 DEF StoreResponse, CustodyTypeOK
    <2>3. QED
      BY <2>1, <2>2
  <1>4. PICK pc \in {"rows", "refused"} :
           To(d, pc) /\ (pc = "rows" => r.ref \in DOMAIN responses' /\ responses'[r.ref] = r)
    BY <1>3
  <1>5. /\ desk' \in [Desks -> {NoRequest} \cup ImportRequests \cup ActionRequests]
        /\ \A e \in Desks : e # d => desk'[e] = desk[e]
        /\ desk'[d].pc = pc /\ desk'[d].response = r /\ desk'[d].left = desk[d].left
    BY <1>1, <1>2, <1>4, ToTyped
  <1>6. CustodyTypeOK'
    BY <1>1, <1>2, <1>3, <1>5 DEF CustodyTypeOK
  <1>7. ImportAsFarAs(desk[d])'
    BY <1>1, <1>2, <1>4, <1>5 DEF ImportAsFarAs
  <1>8. /\ \A e \in Desks : e # d /\ desk'[e] \in ImportRequests => ImportAsFarAs(desk[e])'
        /\ \A e \in Desks : e # d /\ desk'[e].pc = "done" =>
              LET s == desk'[e].response IN
              s.ref \in DOMAIN responses' /\ {s.ref} \X s.tables \subseteq rows'
    BY <1>1, <1>3, <1>5, <1>6, OthersStay
  <1>9. CertifiedImportIsWhole'
    <2>1. desk'[d].pc # "done"
      BY <1>5
    <2>2. \A row \in rows' : row[1] \in DOMAIN responses' /\ row[2] \in responses'[row[1]].tables
      BY <1>1, <1>3 DEF CertifiedImportIsWhole
    <2>3. \A ref \in DOMAIN responses' :
             LET s == responses'[ref] IN
             s.credit \in DOMAIN assertions' /\ assertions'[s.credit] = s.available
      BY <1>1, <1>2, <1>3 DEF CertifiedImportIsWhole, ImportAsFarAs
    <2>4. QED
      BY <1>8, <2>1, <2>2, <2>3 DEF CertifiedImportIsWhole
  <1>10. QED
    BY <1>6, <1>7, <1>8, <1>9 DEF CustodyInv

LEMMA StoreRowsStep ==
    ASSUME CustodyInv, NEW d \in Desks, StoreRows(d)
    PROVE  CustodyInv'
  <1> DEFINE r == desk[d].response
             left == desk[d].left
             q == [desk[d] EXCEPT !.left = Tail(left)]
  <1>1. /\ CustodyTypeOK /\ CertifiedImportIsWhole /\ desk[d].pc = "rows" /\ left # <<>>
        /\ rows' = rows \cup ({r.ref} \X (r.tables \cap {Head(left)}))
        /\ desk' = [desk EXCEPT ![d] = q]
        /\ UNCHANGED <<assertions, responses, action>>
    BY DEF StoreRows, CustodyInv
  <1>2. /\ desk[d] \in ImportRequests /\ r \in Responses /\ left \in Seq(TableNames)
        /\ ImportAsFarAs(desk[d])
    BY <1>1, ImportTyped DEF CustodyInv
  <1>3. Tail(left) \in Seq(TableNames)
    BY <1>1, <1>2
  <1>4. /\ q \in ImportRequests /\ q.pc = "rows" /\ q.response = r /\ q.left = Tail(left)
    BY <1>1, <1>2, <1>3 DEF ImportRequests
  <1>5. CustodyTypeOK'
    BY <1>1, <1>4 DEF CustodyTypeOK
  <1>6. desk'[d] = q /\ \A e \in Desks : e # d => desk'[e] = desk[e]
    BY <1>1 DEF CustodyTypeOK
  <1>7. ImportAsFarAs(desk[d])'
    <2>1. ASSUME NEW t \in r.tables
          PROVE  <<r.ref, t>> \in rows' \/ \E k \in DOMAIN Tail(left) : Tail(left)[k] = t
      <3>1. CASE <<r.ref, t>> \in rows
        BY <1>1, <3>1
      <3>2. CASE \E k \in DOMAIN left : left[k] = t
        <4>1. PICK k \in DOMAIN left : left[k] = t
          BY <3>2
        <4>2. CASE k = 1
          BY <1>1, <1>2, <4>1, <4>2
        <4>3. CASE k # 1
          <5>1. k - 1 \in DOMAIN Tail(left) /\ Tail(left)[k - 1] = t
            BY <1>1, <1>2, <4>1, <4>3
          <5>2. QED
            BY <5>1
        <4>4. QED
          BY <4>2, <4>3
      <3>3. QED
        BY <1>1, <1>2, <3>1, <3>2 DEF ImportAsFarAs
    <2>2. QED
      BY <1>1, <1>2, <1>4, <1>6, <2>1 DEF ImportAsFarAs
  <1>8. /\ \A e \in Desks : e # d /\ desk'[e] \in ImportRequests => ImportAsFarAs(desk[e])'
        /\ \A e \in Desks : e # d /\ desk'[e].pc = "done" =>
              LET s == desk'[e].response IN
              s.ref \in DOMAIN responses' /\ {s.ref} \X s.tables \subseteq rows'
    BY <1>1, <1>5, <1>6, OthersStay
  <1>9. CertifiedImportIsWhole'
    <2>1. desk'[d].pc # "done"
      BY <1>4, <1>6
    <2>2. \A row \in rows' : row[1] \in DOMAIN responses' /\ row[2] \in responses'[row[1]].tables
      BY <1>1, <1>2 DEF CertifiedImportIsWhole, ImportAsFarAs
    <2>3. \A ref \in DOMAIN responses' :
             LET s == responses'[ref] IN
             s.credit \in DOMAIN assertions' /\ assertions'[s.credit] = s.available
      BY <1>1 DEF CertifiedImportIsWhole
    <2>4. QED
      BY <1>8, <2>1, <2>2, <2>3 DEF CertifiedImportIsWhole
  <1>10. QED
    BY <1>5, <1>6, <1>7, <1>8, <1>9 DEF CustodyInv

LEMMA ImportDoneStep ==
    ASSUME CustodyInv, NEW d \in Desks, ImportDone(d)
    PROVE  CustodyInv'
  <1> DEFINE r == desk[d].response
  <1>1. /\ CustodyTypeOK /\ CertifiedImportIsWhole /\ desk[d].pc = "rows" /\ desk[d].left = <<>>
        /\ To(d, "done") /\ UNCHANGED <<assertions, responses, rows, action>>
    BY DEF ImportDone, CustodyInv
  <1>2. desk[d] \in ImportRequests /\ r \in Responses /\ ImportAsFarAs(desk[d])
    BY <1>1, ImportTyped DEF CustodyInv
  <1>3. /\ desk' \in [Desks -> {NoRequest} \cup ImportRequests \cup ActionRequests]
        /\ \A e \in Desks : e # d => desk'[e] = desk[e]
        /\ desk'[d].pc = "done" /\ desk'[d].response = r /\ desk'[d].left = desk[d].left
    BY <1>1, <1>2, ToTyped
  <1>4. CustodyTypeOK'
    BY <1>1, <1>3 DEF CustodyTypeOK
  <1>5. ImportAsFarAs(desk[d])'
    BY <1>1, <1>2, <1>3 DEF ImportAsFarAs
  <1>6. /\ \A e \in Desks : e # d /\ desk'[e] \in ImportRequests => ImportAsFarAs(desk[e])'
        /\ \A e \in Desks : e # d /\ desk'[e].pc = "done" =>
              LET s == desk'[e].response IN
              s.ref \in DOMAIN responses' /\ {s.ref} \X s.tables \subseteq rows'
    BY <1>1, <1>3, <1>4, OthersStay
  <1>7. r.ref \in DOMAIN responses' /\ {r.ref} \X r.tables \subseteq rows'
    <2>1. \A t \in r.tables : <<r.ref, t>> \in rows
      BY <1>1, <1>2 DEF ImportAsFarAs
    <2>2. QED
      BY <1>1, <1>2, <2>1 DEF ImportAsFarAs
  <1>8. CertifiedImportIsWhole'
    <2>1. \A row \in rows' : row[1] \in DOMAIN responses' /\ row[2] \in responses'[row[1]].tables
      BY <1>1 DEF CertifiedImportIsWhole
    <2>2. \A ref \in DOMAIN responses' :
             LET s == responses'[ref] IN
             s.credit \in DOMAIN assertions' /\ assertions'[s.credit] = s.available
      BY <1>1 DEF CertifiedImportIsWhole
    <2>3. QED
      BY <1>3, <1>6, <1>7, <2>1, <2>2 DEF CertifiedImportIsWhole
  <1>9. QED
    BY <1>4, <1>5, <1>6, <1>8 DEF CustodyInv

(* A request that ends, and one that loads the action.                      *)
LEMMA RequestTurns ==
    ASSUME CustodyInv, NEW d \in Desks, NEW q \in {NoRequest} \cup ActionRequests,
           desk' = [desk EXCEPT ![d] = q], UNCHANGED <<assertions, responses, rows>>,
           action' \in {NoAction} \cup CustodyActions
    PROVE  CustodyInv'
  <1>1. /\ CustodyTypeOK /\ CertifiedImportIsWhole
    BY DEF CustodyInv
  <1>2. CustodyTypeOK'
    BY <1>1 DEF CustodyTypeOK
  <1>3. q \notin ImportRequests /\ q.pc # "done"
    BY DEF NoRequest, ImportRequests, ActionRequests
  <1>4. desk'[d] = q /\ \A e \in Desks : e # d => desk'[e] = desk[e]
    BY <1>1 DEF CustodyTypeOK
  <1>5. /\ \A e \in Desks : e # d /\ desk'[e] \in ImportRequests => ImportAsFarAs(desk[e])'
        /\ \A e \in Desks : e # d /\ desk'[e].pc = "done" =>
              LET s == desk'[e].response IN
              s.ref \in DOMAIN responses' /\ {s.ref} \X s.tables \subseteq rows'
    BY <1>2, <1>4, OthersStay
  <1>6. CertifiedImportIsWhole'
    <2>1. \A row \in rows' : row[1] \in DOMAIN responses' /\ row[2] \in responses'[row[1]].tables
      BY <1>1 DEF CertifiedImportIsWhole
    <2>2. \A ref \in DOMAIN responses' :
             LET s == responses'[ref] IN
             s.credit \in DOMAIN assertions' /\ assertions'[s.credit] = s.available
      BY <1>1 DEF CertifiedImportIsWhole
    <2>3. QED
      BY <1>3, <1>4, <1>5, <2>1, <2>2 DEF CertifiedImportIsWhole
  <1>7. QED
    BY <1>2, <1>3, <1>4, <1>5, <1>6 DEF CustodyInv

LEMMA CreateDraftStep ==
    ASSUME CustodyInv, NEW d \in Desks, CreateDraft(d)
    PROVE  CustodyInv'
  <1>1. PICK credit \in DOMAIN assertions \cup {"none"}, amount \in 1..MaxUnits, authority \in BOOLEAN :
           action' = CustodyAction("draft", amount, credit, authority)
    BY DEF CreateDraft
  <1>2. /\ CustodyTypeOK /\ desk' = [desk EXCEPT ![d] = NoRequest]
        /\ UNCHANGED <<assertions, responses, rows>>
    BY DEF CreateDraft, CustodyInv, CustodyTypeOK
  <1>3. credit \in Credits \cup {"none"} /\ amount \in Nat
    BY <1>2, CustodyAssumption DEF CustodyTypeOK
  <1>4. action' \in CustodyActions
    BY <1>1, <1>2, <1>3 DEF CustodyAction, Outcome, CustodyActions, ActionStatuses
  <1>5. QED
    BY <1>2, <1>4, RequestTurns

LEMMA AdvanceActionStep ==
    ASSUME CustodyInv, NEW d \in Desks, AdvanceAction(d)
    PROVE  CustodyInv'
  <1> DEFINE GivenOutcomes == [given : BOOLEAN, amount : Nat]
  <1>1. PICK to \in AllowedTransitions(desk[d].seen.status), given \in BOOLEAN, amount \in 0..MaxUnits :
           action' = [action EXCEPT !.status = to,
                                    !.outcome = IF given /\ Outcome(given, amount) # desk[d].seen.outcome
                                                THEN Outcome(given, amount) ELSE @]
    BY DEF AdvanceAction
  <1>2. /\ CustodyTypeOK /\ desk' = [desk EXCEPT ![d] = NoRequest]
        /\ desk[d].pc = "action"
        /\ UNCHANGED <<assertions, responses, rows>>
    BY DEF AdvanceAction, CustodyInv
  <1>3. to \in ActionStatuses
    <2>1. desk[d].seen.status \in ActionStatuses
      BY <1>2, ImportTyped DEF CustodyActions
    <2>2. QED
      BY <2>1 DEF AllowedTransitions, ActionStatuses
  <1>4. Outcome(given, amount) \in GivenOutcomes
    BY CustodyAssumption DEF Outcome
  <1>5. action \in [status : ActionStatuses \cup {"none"}, amount : Nat, credit : Credits \cup {"none"},
                   authority : BOOLEAN, outcome : GivenOutcomes]
    <2>1. CASE action = NoAction
      BY <2>1 DEF NoAction, CustodyAction, Outcome
    <2>2. CASE action \in CustodyActions
      BY <2>2 DEF CustodyActions
    <2>3. QED
      BY <1>2, <2>1, <2>2 DEF CustodyTypeOK
  <1>6. PICK outcome \in GivenOutcomes : action' = [action EXCEPT !.status = to, !.outcome = outcome]
    <2>1. action.outcome \in GivenOutcomes
      BY <1>5
    <2>2. QED
      BY <1>1, <1>4, <2>1
  <1>7. action' \in CustodyActions
    BY <1>3, <1>5, <1>6 DEF CustodyActions
  <1>8. QED
    BY <1>2, <1>7, RequestTurns

LEMMA CustodyStep == CustodyInv /\ [CustodyNext]_custodyVars => CustodyInv'
  <1> SUFFICES ASSUME CustodyInv, [CustodyNext]_custodyVars PROVE CustodyInv'
    OBVIOUS
  <1>1. CASE UNCHANGED custodyVars
    BY <1>1 DEF custodyVars, CustodyInv, CustodyTypeOK, CertifiedImportIsWhole, ImportAsFarAs
  <1>2. ASSUME NEW d \in Desks, RequestEnds(d) \/ LoadAction(d) PROVE CustodyInv'
    <2>1. /\ action' = action /\ UNCHANGED <<assertions, responses, rows>>
          /\ CustodyTypeOK
      BY <1>2 DEF RequestEnds, LoadAction, CustodyInv
    <2>2. PICK q \in {NoRequest} \cup ActionRequests : desk' = [desk EXCEPT ![d] = q]
      <3>1. CASE RequestEnds(d)
        BY <3>1 DEF RequestEnds
      <3>2. CASE LoadAction(d)
        <4>1. action \in CustodyActions
          <5>1. action # NoAction
            BY <3>2 DEF LoadAction
          <5>2. QED
            BY <2>1, <5>1 DEF CustodyTypeOK
        <4>2. QED
          BY <3>2, <4>1 DEF LoadAction, ActionRequests
      <3>3. QED
        BY <1>2, <3>1, <3>2
    <2>3. action' \in {NoAction} \cup CustodyActions
      BY <2>1 DEF CustodyTypeOK
    <2>4. QED
      BY <2>1, <2>2, <2>3, RequestTurns
  <1>3. ASSUME CustodyNext PROVE CustodyInv'
    <2>1. PICK d \in Desks :
             \/ \E response \in Responses : StartImport(d, response)
             \/ AssertCustody(d) \/ StoreResponse(d) \/ StoreRows(d) \/ ImportDone(d)
             \/ RequestEnds(d) \/ CreateDraft(d) \/ LoadAction(d) \/ AdvanceAction(d)
      BY <1>3 DEF CustodyNext
    <2>2. QED
      BY <1>2, <2>1, StartImportStep, AssertCustodyStep, StoreResponseStep, StoreRowsStep,
         ImportDoneStep, CreateDraftStep, AdvanceActionStep
  <1>4. QED
    BY <1>1, <1>3

(* custody.py: the requests, assertions, responses, records and the action  *)
(* stay well formed, for any responses, requests and amounts.               *)
THEOREM CustodyTypeCorrect == CustodySpec => []CustodyTypeOK
  <1>1. CustodyInv => CustodyTypeOK
    BY DEF CustodyInv
  <1>2. QED
    BY <1>1, CustodyInitInvariant, CustodyStep, PTL DEF CustodySpec

(* import_certified_provider_response: whatever imports die, repeat and     *)
(* overlap, one that reports success left its whole response, every record  *)
(* belongs to a response and a response to an assertion of its terms.       *)
THEOREM ImportIsWhole == CustodySpec => []CertifiedImportIsWhole
  <1>1. CustodyInv => CertifiedImportIsWhole
    BY DEF CustodyInv
  <1>2. QED
    BY <1>1, CustodyInitInvariant, CustodyStep, PTL DEF CustodySpec

-----------------------------------------------------------------------------
(* Snapshots.                                                               *)

(* What a look-up finds is one of the snapshots it looked through.          *)
LEMMA NewestIsOne ==
    ASSUME snapshots \in Seq(Snapshots), NEW ids \in SUBSET Ids, ids # {}
    PROVE  Newest(ids) \in ids
  <1>1. Len(snapshots) \in Nat /\ Ids = 1..Len(snapshots)
    BY DEF Ids
  <1>2. ids \in SUBSET (0..Len(snapshots))
    BY <1>1
  <1>3. \E i \in ids : \A j \in ids : j <= i
    BY <1>1, <1>2, SetHasMaximum
  <1>4. QED
    BY <1>3 DEF Newest

LEMMA RowTyped ==
    ASSUME SnapshotsTypeOK, NEW i \in Ids
    PROVE  snapshots[i] \in Snapshots /\ i \in 1..Latest /\ Latest \in Nat /\ Ids = 1..Latest
  BY DEF SnapshotsTypeOK, Ids, Latest

(* A row is appended, perhaps in the place of an earlier one.               *)
LEMMA RowAppended ==
    ASSUME snapshots \in Seq(Snapshots), NEW row \in Snapshots,
           NEW s \in Seq(Snapshots), Len(s) = Len(snapshots), snapshots' = Append(s, row)
    PROVE  /\ snapshots' \in Seq(Snapshots) /\ Latest' = Latest + 1 /\ Latest \in Nat
           /\ Ids' = Ids \cup {Latest + 1} /\ Latest + 1 \notin Ids /\ Ids = 1..Latest
           /\ \A i \in Ids : snapshots'[i] = s[i]
           /\ snapshots'[Latest + 1] = row
  BY DEF Ids, Latest

LEMMA OutcomeTyped ==
    ASSUME NEW outcome \in Outcomes
    PROVE  outcome.failed \in BOOLEAN /\ outcome.stage \in Stages
  <1>1. PICK failed \in BOOLEAN, stage \in Stages : outcome = [failed |-> failed, stage |-> stage]
    BY DEF Outcomes, Stages
  <1>2. QED
    BY <1>1

LEMMA IdleIsNoTrace == Idle.pc = "idle" /\ Idle \notin Traces /\ Idle \notin Traces'
  BY DEF Idle, Traces

LEMMA SnapshotsInitInvariant == SnapshotsInit => SnapshotsInv
  <1> SUFFICES ASSUME SnapshotsInit PROVE SnapshotsInv
    OBVIOUS
  <1>0. MaxSnapshots \in Nat /\ 1 <= MaxSnapshots
    BY TraceSnapshotsAssumption
  <1>1. /\ request = [w \in Tracers |-> Idle] /\ active = [w \in Tracers |-> 0]
        /\ \A w \in Tracers : request[w].pc = "idle"
    BY IdleIsNoTrace DEF SnapshotsInit
  <1>2. CASE snapshots = <<>> /\ caseStage = "intake"
    <2>1. snapshots \in Seq(Snapshots) /\ Ids = {} /\ Latest = 0
      BY <1>2 DEF Ids, Latest
    <2>2. SnapshotsTypeOK
      BY <1>0, <1>1, <1>2, <2>1 DEF SnapshotsTypeOK, Stages
    <2>3. QED
      BY <1>1, <1>2, <2>1, <2>2
         DEF SnapshotsInv, FailureDisplacesNothing, RetraceIsApart, ExtensionIsNext
  <1>3. ASSUME NEW p \in Params, NEW outcome \in Outcomes,
               snapshots = <<TraceSnapshot(NoIdentity, Identity("params", p), p, 0, outcome, FALSE)>>,
               caseStage = outcome.stage
        PROVE  SnapshotsInv
    <2> DEFINE row == TraceSnapshot(NoIdentity, Identity("params", p), p, 0, outcome, FALSE)
    <2>1. /\ row \in Snapshots /\ row.parent = 0 /\ row.supersededBy = 0 /\ row.again = FALSE
          /\ row.stage = outcome.stage /\ row.cacheIdentity.kind = "none"
      BY OutcomeTyped DEF TraceSnapshot, Identity, NoIdentity, Snapshots, Identities
    <2> HIDE DEF row
    <2>2. snapshots \in Seq(Snapshots) /\ Ids = {1} /\ Latest = 1 /\ snapshots[1] = row
      <3>1. snapshots = <<row>>
        BY <1>3 DEF row
      <3>2. QED
        BY <2>1, <3>1 DEF Ids, Latest
    <2>3. SnapshotsTypeOK
      <3>1. active \in [Tracers -> 0..Latest] /\ request \in [Tracers -> {Idle} \cup Traces]
        BY <1>1, <2>2
      <3>2. Latest <= MaxSnapshots /\ caseStage \in Stages
        BY <1>0, <1>3, <2>2, OutcomeTyped
      <3>3. \A i \in Ids : snapshots[i].parent < i /\ snapshots[i].supersededBy <= Latest
        BY <2>1, <2>2
      <3>4. QED
        BY <2>2, <3>1, <3>2, <3>3 DEF SnapshotsTypeOK
    <2>4. FailureDisplacesNothing
      BY <1>1, <1>3, <2>1, <2>2 DEF FailureDisplacesNothing, RetraceFailed
    <2>5. QED
      BY <1>1, <2>1, <2>2, <2>3, <2>4 DEF SnapshotsInv, RetraceIsApart, ExtensionIsNext
  <1>4. QED
    BY <1>2, <1>3 DEF SnapshotsInit

(* What a step may do with the requests: leave them or end them.            *)
LEMMA RequestsEnd ==
    ASSUME SnapshotsTypeOK, RetraceIsApart, Latest' \in Nat, Latest <= Latest',
           request' = request \/ \E w \in Tracers : request' = [request EXCEPT ![w] = Idle]
    PROVE  /\ request' \in [Tracers -> {Idle} \cup Traces']
           /\ \A v \in Tracers : request'[v].pc = "tracing" /\ request'[v].again => request'[v].stale # 0
  <1>1. Latest \in Nat
    BY DEF SnapshotsTypeOK, Latest
  <1>2. Traces \subseteq Traces'
    BY <1>1 DEF Traces
  <1>3. \A v \in Tracers : request'[v] = request[v] \/ request'[v] = Idle
    BY DEF SnapshotsTypeOK
  <1>4. request' \in [Tracers -> {Idle} \cup Traces]
    BY DEF SnapshotsTypeOK
  <1>5. QED
    BY <1>2, <1>3, <1>4, IdleIsNoTrace DEF RetraceIsApart

(* A snapshot found by its parameters becomes the one shown.                *)
LEMMA FoundStep ==
    ASSUME SnapshotsInv, NEW w \in Tracers, NEW p \in Params, NEW shows \in BOOLEAN,
           \/ FoundKeyed(w, Identity("params", p), shows)
           \/ FoundLegacy(w, Identity("params", p), shows),
           UNCHANGED caseStage, request' = request \/ request' = [request EXCEPT ![w] = Idle]
    PROVE  SnapshotsInv'
  <1> DEFINE key == Identity("params", p)
  <1>1. /\ SnapshotsTypeOK /\ FailureDisplacesNothing /\ RetraceIsApart /\ ExtensionIsNext
        /\ snapshots \in Seq(Snapshots) /\ Latest \in Nat /\ Ids = 1..Latest
    BY DEF SnapshotsInv, SnapshotsTypeOK, Latest, Ids
  <1>2. key.kind = "params" /\ key \in Identities
    BY DEF Identity, Identities
  <1> HIDE DEF key
  <1>3. PICK i \in Ids :
           /\ snapshots[i].cacheIdentity = key \/ snapshots[i].traced = key
           /\ Shown(w, shows, i)
           /\ \/ UNCHANGED snapshots
              \/ /\ snapshots' = [snapshots EXCEPT ![i].cacheIdentity = key]
                 /\ Keyed(key) = {}
    <2>1. CASE FoundKeyed(w, key, shows)
      <3>1. Newest(Keyed(key)) \in Keyed(key)
        BY <1>1, <2>1, NewestIsOne DEF FoundKeyed, Keyed
      <3>2. QED
        BY <2>1, <3>1 DEF FoundKeyed, Keyed
    <2>2. CASE FoundLegacy(w, key, shows)
      <3>1. Newest(Legacy(key)) \in Legacy(key)
        BY <1>1, <2>2, NewestIsOne DEF FoundLegacy, Legacy
      <3>2. QED
        BY <2>2, <3>1 DEF FoundLegacy, Legacy
    <2>3. QED
      BY <2>1, <2>2 DEF key
  <1>4. /\ snapshots' \in Seq(Snapshots) /\ Latest' = Latest /\ Ids' = Ids
        /\ \A j \in Ids :
              /\ snapshots'[j].base = snapshots[j].base /\ snapshots'[j].parent = snapshots[j].parent
              /\ snapshots'[j].supersededBy = snapshots[j].supersededBy
              /\ snapshots'[j].traced = snapshots[j].traced
              /\ snapshots'[j].failed = snapshots[j].failed /\ snapshots'[j].stage = snapshots[j].stage
              /\ snapshots'[j].again = snapshots[j].again
              /\ \/ snapshots'[j].cacheIdentity = snapshots[j].cacheIdentity
                 \/ /\ j = i /\ Keyed(key) = {} /\ snapshots'[j].cacheIdentity = key
                    /\ snapshots[i].traced = key \/ snapshots[i].cacheIdentity = key
    <2>1. CASE UNCHANGED snapshots
      BY <1>1, <2>1 DEF Ids, Latest
    <2>2. CASE snapshots' = [snapshots EXCEPT ![i].cacheIdentity = key] /\ Keyed(key) = {}
      <3>1. \A j \in Ids : snapshots[j] \in Snapshots
        BY <1>1 DEF Ids
      <3>2. [snapshots[i] EXCEPT !.cacheIdentity = key] \in Snapshots
        BY <1>2, <3>1 DEF Snapshots
      <3>3. snapshots' = [snapshots EXCEPT ![i] = [snapshots[i] EXCEPT !.cacheIdentity = key]]
        BY <2>2
      <3>4. snapshots' \in Seq(Snapshots) /\ Latest' = Latest /\ Ids' = Ids
        BY <1>1, <3>2, <3>3 DEF Ids, Latest
      <3>5. /\ \A j \in Ids : j # i => snapshots'[j] = snapshots[j]
            /\ snapshots'[i] = [snapshots[i] EXCEPT !.cacheIdentity = key]
        BY <1>1, <3>3 DEF Ids
      <3>6. LET r == [snapshots[i] EXCEPT !.cacheIdentity = key] IN
            /\ r.base = snapshots[i].base /\ r.parent = snapshots[i].parent
            /\ r.supersededBy = snapshots[i].supersededBy /\ r.traced = snapshots[i].traced
            /\ r.failed = snapshots[i].failed /\ r.stage = snapshots[i].stage
            /\ r.again = snapshots[i].again /\ r.cacheIdentity = key
        BY <3>1 DEF Snapshots
      <3>7. QED
        BY <1>3, <2>2, <3>4, <3>5, <3>6
    <2>3. QED
      BY <1>3, <2>1, <2>2
  <1>5. ~RetraceFailed(i)
    BY <1>1, <1>2, <1>3 DEF RetraceIsApart, RetraceFailed
  <1>6. /\ active' \in [Tracers -> 0..Latest]
        /\ \A v \in Tracers : active'[v] = active[v] \/ active'[v] = i
    BY <1>1, <1>3 DEF Shown, SnapshotsTypeOK
  <1>7. /\ request' \in [Tracers -> {Idle} \cup Traces']
        /\ \A v \in Tracers : request'[v].pc = "tracing" /\ request'[v].again => request'[v].stale # 0
    BY <1>1, <1>4, RequestsEnd
  <1>8. SnapshotsTypeOK'
    BY <1>1, <1>4, <1>6, <1>7 DEF SnapshotsTypeOK
  <1>9. FailureDisplacesNothing'
    <2>0. /\ \A j, k \in Ids : snapshots[j].cacheIdentity = snapshots[k].cacheIdentity => j = k
          /\ \A j \in Ids : snapshots[j].supersededBy # 0 =>
                /\ snapshots[j].supersededBy > j /\ snapshots[snapshots[j].supersededBy].parent = j
                /\ ~RetraceFailed(snapshots[j].supersededBy)
          /\ \A v \in Tracers : active[v] # 0 => ~RetraceFailed(active[v])
          /\ \/ caseStage = "intake"
             \/ \E j \in Ids : snapshots[j].stage = caseStage /\ ~RetraceFailed(j)
      BY <1>1 DEF FailureDisplacesNothing
    <2>1. \A j, k \in Ids : snapshots'[j].cacheIdentity = snapshots'[k].cacheIdentity => j = k
      <3>1. Keyed(key) = {} => \A j \in Ids : snapshots[j].cacheIdentity # key
        BY DEF Keyed
      <3>2. QED
        BY <1>4, <2>0, <3>1
    <2>2. \A j \in Ids : RetraceFailed(j)' <=> RetraceFailed(j)
      BY <1>4 DEF RetraceFailed
    <2>3. \A j \in Ids : snapshots[j].supersededBy # 0 => snapshots[j].supersededBy \in Ids
      <3>1. \A j \in Ids : snapshots[j].supersededBy \in Nat /\ snapshots[j].supersededBy <= Latest
        BY <1>1, RowTyped DEF SnapshotsTypeOK, Snapshots
      <3>2. QED
        BY <1>1, <3>1
    <2>4. ASSUME NEW j \in Ids, snapshots'[j].supersededBy # 0
          PROVE  LET next == snapshots'[j].supersededBy IN
                 /\ next > j /\ snapshots'[next].parent = j
                 /\ ~(snapshots'[next].again /\ snapshots'[next].failed)
      <3> DEFINE next == snapshots[j].supersededBy
      <3>1. snapshots'[j].supersededBy = next
        BY <1>4, <2>4
      <3> HIDE DEF next
      <3>2. next \in Ids /\ next > j /\ snapshots[next].parent = j /\ ~RetraceFailed(next)
        BY <2>0, <2>3, <2>4, <3>1 DEF next
      <3>3. snapshots'[next].parent = j /\ ~(snapshots'[next].again /\ snapshots'[next].failed)
        BY <1>4, <3>2 DEF RetraceFailed
      <3>4. QED
        BY <3>1, <3>2, <3>3
    <2>5. \A v \in Tracers : active'[v] # 0 =>
             ~(snapshots'[active'[v]].again /\ snapshots'[active'[v]].failed)
      <3>1. \A v \in Tracers : active'[v] # 0 => active'[v] \in Ids
        BY <1>1, <1>6
      <3>2. \A v \in Tracers : active'[v] # 0 => ~RetraceFailed(active'[v])
        <4> TAKE v \in Tracers
        <4>1. CASE active'[v] = active[v]
          BY <2>0, <4>1, Zenon
        <4>2. CASE active'[v] = i
          BY <1>5, <4>2, Zenon
        <4>3. QED
          BY <1>6, <4>1, <4>2
      <3>3. QED
        BY <1>4, <3>1, <3>2 DEF RetraceFailed
    <2>6. caseStage = "intake" \/ \E j \in Ids : snapshots'[j].stage = caseStage /\ ~RetraceFailed(j)'
      BY <1>4, <2>0, <2>2
    <2>7. caseStage' = caseStage /\ Ids' = Ids
      BY <1>4
    <2>8. QED
      BY <2>1, <2>4, <2>5, <2>6, <2>7 DEF FailureDisplacesNothing, RetraceFailed
  <1>10. RetraceIsApart' /\ ExtensionIsNext'
    <2>1. \A j \in Ids : snapshots[j].again => snapshots[j].cacheIdentity.kind = "retrace"
                          /\ snapshots[j].traced.kind = "retrace" /\ snapshots[j].parent # 0
      BY <1>1 DEF RetraceIsApart
    <2>2. \A j \in Ids : snapshots'[j].again => snapshots'[j].cacheIdentity.kind = "retrace"
                          /\ snapshots'[j].traced.kind = "retrace" /\ snapshots'[j].parent # 0
      <3> TAKE j \in Ids
      <3> HAVE snapshots'[j].again
      <3>1. snapshots[j].again /\ snapshots'[j].parent = snapshots[j].parent
            /\ snapshots'[j].traced = snapshots[j].traced
        BY <1>4
      <3>2. /\ snapshots[j].cacheIdentity.kind = "retrace" /\ snapshots[j].traced.kind = "retrace"
            /\ snapshots[j].parent # 0
        BY <2>1, <3>1
      <3>3. snapshots'[j].cacheIdentity = snapshots[j].cacheIdentity
        BY <1>2, <1>4, <3>2
      <3>4. QED
        BY <3>1, <3>2, <3>3
    <2>3. RetraceIsApart'
      BY <1>4, <1>7, <2>2 DEF RetraceIsApart
    <2>4. ExtensionIsNext'
      BY <1>1, <1>2, <1>4 DEF ExtensionIsNext
    <2>5. QED
      BY <2>3, <2>4
  <1>11. QED
    BY <1>8, <1>9, <1>10 DEF SnapshotsInv

(* A snapshot row that starts from k, and may take its place.               *)
Fits(row, k, replaced) ==
    /\ Latest < MaxSnapshots /\ Keyed(row.cacheIdentity) = {}
    /\ row.parent = k /\ row.supersededBy = 0
    /\ row.again => /\ row.cacheIdentity.kind = "retrace" /\ row.traced.kind = "retrace"
                    /\ k # 0
    /\ row.cacheIdentity.kind = "watch" => row.cacheIdentity.of <= Latest
    /\ replaced => k # 0 /\ ~(row.again /\ row.failed)

Added(row, k, replaced) ==
    /\ snapshots' \in Seq(Snapshots) /\ Latest' = Latest + 1 /\ Ids' = Ids \cup {Latest + 1}
    /\ snapshots'[Latest + 1] = row
    /\ \A j \in Ids : /\ snapshots'[j].cacheIdentity = snapshots[j].cacheIdentity
                      /\ snapshots'[j].traced = snapshots[j].traced
                      /\ snapshots'[j].parent = snapshots[j].parent
    /\ \A j \in Ids : /\ snapshots'[j].failed = snapshots[j].failed
                      /\ snapshots'[j].stage = snapshots[j].stage
                      /\ snapshots'[j].again = snapshots[j].again
    /\ \A j \in Ids : \/ snapshots'[j].supersededBy = snapshots[j].supersededBy
                      \/ replaced /\ j = k /\ snapshots'[j].supersededBy = Latest + 1

(* What the request, the active case and the stage do when it is added.     *)
Follows(row) ==
    /\ request' = request \/ \E w \in Tracers : request' = [request EXCEPT ![w] = Idle]
    /\ \/ active' = active
       \/ /\ \E w \in Tracers : active' = [active EXCEPT ![w] = Latest + 1]
          /\ ~(row.again /\ row.failed)
    /\ \/ caseStage' = caseStage
       \/ caseStage' = row.stage /\ caseStage' \in Stages /\ ~(row.again /\ row.failed)

(* A snapshot is added, in the place of the one it started from or not.     *)
LEMMA AddedStep ==
    ASSUME SnapshotsInv, NEW row \in Snapshots, NEW k \in 0..Latest, NEW replaced \in BOOLEAN,
           Fits(row, k, replaced), Added(row, k, replaced), Follows(row)
    PROVE  SnapshotsInv'
  <1> DEFINE id == Latest + 1
  <1>1. /\ SnapshotsTypeOK /\ FailureDisplacesNothing /\ RetraceIsApart /\ ExtensionIsNext
        /\ snapshots \in Seq(Snapshots) /\ Latest \in Nat /\ Ids = 1..Latest
        /\ MaxSnapshots \in Nat
    BY TraceSnapshotsAssumption DEF SnapshotsInv, SnapshotsTypeOK, Latest, Ids
  <1>2. /\ snapshots' \in Seq(Snapshots) /\ Latest' = id /\ Ids' = Ids \cup {id} /\ id \notin Ids
        /\ snapshots'[id] = row
        /\ \A j \in Ids : /\ snapshots'[j].cacheIdentity = snapshots[j].cacheIdentity
                          /\ snapshots'[j].traced = snapshots[j].traced
                          /\ snapshots'[j].parent = snapshots[j].parent
        /\ \A j \in Ids : /\ snapshots'[j].failed = snapshots[j].failed
                          /\ snapshots'[j].stage = snapshots[j].stage
                          /\ snapshots'[j].again = snapshots[j].again
        /\ \A j \in Ids : \/ snapshots'[j].supersededBy = snapshots[j].supersededBy
                          \/ replaced /\ j = k /\ snapshots'[j].supersededBy = id
    <2>1. id \notin Ids
      BY <1>1
    <2>2. Added(row, k, replaced)
      OBVIOUS
    <2>3. QED
      BY <2>1, <2>2, Zenon DEF Added
  <1>4. /\ row.parent = k /\ row.supersededBy = 0
        /\ row.again => /\ row.cacheIdentity.kind = "retrace" /\ row.traced.kind = "retrace"
                        /\ k # 0
        /\ row.cacheIdentity.kind = "watch" => row.cacheIdentity.of <= Latest
        /\ replaced => k # 0 /\ ~(row.again /\ row.failed)
    BY DEF Fits
  <1>5. /\ request' \in [Tracers -> {Idle} \cup Traces']
        /\ \A v \in Tracers : request'[v].pc = "tracing" /\ request'[v].again => request'[v].stale # 0
    BY <1>1, <1>2, RequestsEnd DEF Follows
  <1>6. /\ active' \in [Tracers -> 0..id]
        /\ \A v \in Tracers : \/ active'[v] = active[v]
                              \/ active'[v] = id /\ ~(row.again /\ row.failed)
    <2>1. active \in [Tracers -> 0..Latest]
      BY <1>1 DEF SnapshotsTypeOK
    <2>2. CASE active' = active
      BY <1>1, <2>1, <2>2
    <2>3. ASSUME NEW w \in Tracers, active' = [active EXCEPT ![w] = id],
                 ~(row.again /\ row.failed)
          PROVE  /\ active' \in [Tracers -> 0..id]
                 /\ \A v \in Tracers : \/ active'[v] = active[v]
                                       \/ active'[v] = id /\ ~(row.again /\ row.failed)
      BY <1>1, <2>1, <2>3
    <2>4. QED
      BY <2>2, <2>3 DEF Follows
  <1>7. SnapshotsTypeOK'
    <2>1. \A j \in Ids : snapshots'[j].parent < j /\ snapshots'[j].supersededBy <= id
      <3>1. \A j \in Ids : /\ snapshots[j].parent < j /\ snapshots[j].supersededBy <= Latest
                           /\ snapshots[j].supersededBy \in Nat
        BY <1>1, RowTyped DEF SnapshotsTypeOK, Snapshots
      <3>2. ASSUME NEW j \in Ids PROVE snapshots'[j].parent < j
        BY <1>2, <3>1
      <3>3. ASSUME NEW j \in Ids PROVE snapshots'[j].supersededBy <= id
        <4>1. CASE snapshots'[j].supersededBy = snapshots[j].supersededBy
          BY <1>1, <3>1, <4>1
        <4>2. CASE snapshots'[j].supersededBy = id
          BY <1>1, <4>2
        <4>3. QED
          BY <1>2, <4>1, <4>2
      <3>4. QED
        BY <3>2, <3>3
    <2>2. row.parent < id /\ row.supersededBy <= id
      BY <1>1, <1>4
    <2>3. caseStage' \in Stages
      BY <1>1 DEF SnapshotsTypeOK, Follows
    <2>4. \A j \in Ids' : snapshots'[j].parent < j /\ snapshots'[j].supersededBy <= Latest'
      BY <1>2, <1>4, <2>1, <2>2
    <2>5. Latest' <= MaxSnapshots
      BY <1>1, <1>2 DEF Fits
    <2>6. QED
      BY <1>2, <1>4, <1>5, <1>6, <2>3, <2>4, <2>5 DEF SnapshotsTypeOK
  <1>8. FailureDisplacesNothing'
    <2>0. /\ \A i, j \in Ids : snapshots[i].cacheIdentity = snapshots[j].cacheIdentity => i = j
          /\ \A j \in Ids : snapshots[j].supersededBy # 0 =>
                /\ snapshots[j].supersededBy > j /\ snapshots[snapshots[j].supersededBy].parent = j
                /\ ~RetraceFailed(snapshots[j].supersededBy)
          /\ \A v \in Tracers : active[v] # 0 => ~RetraceFailed(active[v])
          /\ \/ caseStage = "intake"
             \/ \E j \in Ids : snapshots[j].stage = caseStage /\ ~RetraceFailed(j)
      BY <1>1 DEF FailureDisplacesNothing
    <2>1. \A i, j \in Ids' : snapshots'[i].cacheIdentity = snapshots'[j].cacheIdentity => i = j
      <3>1. \A j \in Ids : snapshots[j].cacheIdentity # row.cacheIdentity
        BY DEF Fits, Keyed
      <3>2. \A j \in Ids : snapshots'[j].cacheIdentity = snapshots[j].cacheIdentity
        BY <1>2, <1>4
      <3>3. QED
        BY <1>2, <1>4, <2>0, <3>1, <3>2
    <2>2. \A j \in Ids : RetraceFailed(j) <=> snapshots'[j].again /\ snapshots'[j].failed
      BY <1>2, <1>4 DEF RetraceFailed
    <2>3. \A j \in Ids : snapshots[j].supersededBy # 0 => snapshots[j].supersededBy \in Ids
      <3>1. \A j \in Ids : snapshots[j].supersededBy \in Nat /\ snapshots[j].supersededBy <= Latest
        BY <1>1, RowTyped DEF SnapshotsTypeOK, Snapshots
      <3>2. QED
        BY <1>1, <3>1
    <2>4. ASSUME NEW j \in Ids', snapshots'[j].supersededBy # 0
          PROVE  LET next == snapshots'[j].supersededBy IN
                 /\ next > j /\ snapshots'[next].parent = j
                 /\ ~(snapshots'[next].again /\ snapshots'[next].failed)
      <3>1. j \in Ids
        BY <1>2, <1>4, <2>4
      <3>2. CASE replaced /\ j = k /\ snapshots'[j].supersededBy = id
        BY <1>1, <1>2, <1>4, <3>1, <3>2
      <3>3. CASE snapshots'[j].supersededBy = snapshots[j].supersededBy
        <4> DEFINE next == snapshots[j].supersededBy
        <4>1. snapshots'[j].supersededBy = next
          BY <1>2, <1>4, <3>1, <3>3
        <4> HIDE DEF next
        <4>2. next \in Ids /\ next > j /\ snapshots[next].parent = j /\ ~RetraceFailed(next)
          BY <2>0, <2>3, <2>4, <3>1, <4>1 DEF next
        <4>3. snapshots'[next].parent = j /\ ~(snapshots'[next].again /\ snapshots'[next].failed)
          BY <1>2, <1>4, <2>2, <4>2
        <4>4. QED
          BY <4>1, <4>2, <4>3
      <3>4. QED
        BY <1>2, <3>1, <3>2, <3>3
    <2>5. ASSUME NEW v \in Tracers, active'[v] # 0
          PROVE  ~(snapshots'[active'[v]].again /\ snapshots'[active'[v]].failed)
      <3>1. CASE active'[v] = id /\ ~(row.again /\ row.failed)
        BY <1>2, <1>4, <3>1
      <3>2. CASE active'[v] = active[v]
        <4>1. active[v] \in Ids
          BY <1>1, <2>5, <3>2 DEF SnapshotsTypeOK
        <4>2. ~RetraceFailed(active[v])
          BY <2>0, <2>5, <3>2
        <4>3. QED
          BY <2>2, <3>2, <4>1, <4>2
      <3>3. QED
        BY <1>6, <3>1, <3>2
    <2>6. \/ caseStage' = "intake"
          \/ \E j \in Ids' : /\ snapshots'[j].stage = caseStage'
                             /\ ~(snapshots'[j].again /\ snapshots'[j].failed)
      <3>1. CASE caseStage' = caseStage
        BY <1>2, <1>4, <2>0, <2>2, <3>1
      <3>2. CASE caseStage' = row.stage /\ ~(row.again /\ row.failed)
        BY <1>2, <1>4, <3>2
      <3>3. QED
        BY <3>1, <3>2 DEF Follows
    <2>7. QED
      BY <2>1, <2>4, <2>5, <2>6 DEF FailureDisplacesNothing, RetraceFailed
  <1>9. RetraceIsApart' /\ ExtensionIsNext'
    <2>1. ASSUME NEW j \in Ids', snapshots'[j].again
          PROVE  /\ snapshots'[j].cacheIdentity.kind = "retrace"
                 /\ snapshots'[j].traced.kind = "retrace" /\ snapshots'[j].parent # 0
      <3>1. CASE j = id
        BY <1>2, <1>4, <2>1, <3>1
      <3>2. CASE j \in Ids
        <4>1. /\ snapshots'[j].cacheIdentity = snapshots[j].cacheIdentity
              /\ snapshots'[j].traced = snapshots[j].traced
              /\ snapshots'[j].parent = snapshots[j].parent
              /\ snapshots[j].again
          BY <1>2, <1>4, <2>1, <3>2
        <4>2. QED
          BY <1>1, <3>2, <4>1 DEF RetraceIsApart
      <3>3. QED
        BY <1>2, <1>4, <3>1, <3>2
    <2>2. ASSUME NEW j \in Ids', snapshots'[j].cacheIdentity.kind = "watch"
          PROVE  snapshots'[j].cacheIdentity.of < j
      <3>1. CASE j = id
        <4>1. row.cacheIdentity.kind = "watch" /\ row.cacheIdentity.of <= Latest
          BY <1>2, <1>4, <2>2, <3>1
        <4>2. row.cacheIdentity.of \in Nat
          BY <4>1 DEF Snapshots, Identities
        <4>3. QED
          BY <1>1, <1>2, <1>4, <3>1, <4>1, <4>2
      <3>2. CASE j \in Ids
        <4>1. snapshots'[j].cacheIdentity = snapshots[j].cacheIdentity
          BY <1>2, <1>4, <3>2
        <4>2. QED
          BY <1>1, <2>2, <3>2, <4>1 DEF ExtensionIsNext
      <3>3. QED
        BY <1>2, <1>4, <3>1, <3>2
    <2>3. QED
      BY <1>2, <1>5, <2>1, <2>2 DEF RetraceIsApart, ExtensionIsNext
  <1>10. QED
    BY <1>7, <1>8, <1>9 DEF SnapshotsInv

LEMMA RowIsAdded ==
    ASSUME SnapshotsTypeOK, NEW row \in Snapshots, NEW k \in 0..Latest, NEW replaced \in BOOLEAN,
           replaced => k # 0,
           snapshots' = Append(IF replaced THEN [snapshots EXCEPT ![k].supersededBy = Latest + 1]
                               ELSE snapshots, row)
    PROVE  Added(row, k, replaced)
  <1>1. snapshots \in Seq(Snapshots) /\ Latest \in Nat /\ Ids = 1..Latest /\ Latest = Len(snapshots)
    BY DEF SnapshotsTypeOK, Latest, Ids
  <1>2. CASE ~replaced
    <2>1. snapshots' = Append(snapshots, row)
      BY <1>2
    <2>2. QED
      BY <1>1, <2>1, RowAppended DEF Added
  <1>3. CASE replaced
    <2> DEFINE r == [snapshots[k] EXCEPT !.supersededBy = Latest + 1]
               s == [snapshots EXCEPT ![k] = r]
    <2>1. k \in Ids /\ snapshots[k] \in Snapshots
      BY <1>1, <1>3
    <2>0. PICK n \in Nat : n = Latest + 1
      BY <1>1
    <2>2. /\ r \in Snapshots
          /\ r.cacheIdentity = snapshots[k].cacheIdentity /\ r.traced = snapshots[k].traced
          /\ r.parent = snapshots[k].parent /\ r.failed = snapshots[k].failed
          /\ r.stage = snapshots[k].stage /\ r.again = snapshots[k].again
          /\ r.supersededBy = Latest + 1
      BY <2>0, <2>1 DEF Snapshots
    <2>3. snapshots' = Append(s, row)
      BY <1>3
    <2> HIDE DEF r
    <2>4. /\ s \in Seq(Snapshots) /\ Len(s) = Len(snapshots)
          /\ s[k] = r /\ \A j \in Ids : j # k => s[j] = snapshots[j]
      BY <1>1, <2>1, <2>2
    <2> HIDE DEF s
    <2>5. /\ snapshots' \in Seq(Snapshots) /\ Latest' = Latest + 1
          /\ Ids' = Ids \cup {Latest + 1}
          /\ \A i \in Ids : snapshots'[i] = s[i]
          /\ snapshots'[Latest + 1] = row
      BY <1>1, <2>3, <2>4, RowAppended
    <2>6. QED
      BY <1>3, <2>2, <2>4, <2>5 DEF Added
  <1>4. QED
    BY <1>2, <1>3

LEMMA SealedStep ==
    ASSUME SnapshotsInv, NEW w \in Tracers, NEW outcome \in Outcomes,
           request[w] \in Traces, Latest < MaxSnapshots, Sealed(w, request[w], outcome),
           request' = [request EXCEPT ![w] = Idle]
    PROVE  SnapshotsInv'
  <1> DEFINE r == request[w]
             id == Latest + 1
             key == IF r.again THEN Identity("retrace", id) ELSE Identity("params", r.params)
             replaced == r.stale # 0 /\ ~FailedRetrace(r, outcome)
             row == TraceSnapshot(key, key, r.params, r.stale, outcome, r.again)
  <1>1. /\ SnapshotsTypeOK /\ RetraceIsApart /\ Latest \in Nat
        /\ outcome.failed \in BOOLEAN /\ outcome.stage \in Stages
    BY OutcomeTyped DEF SnapshotsInv, SnapshotsTypeOK, Latest
  <1>2. /\ r.pc = "tracing" /\ r.params \in Params /\ r.again \in BOOLEAN /\ r.stale \in 0..Latest
        /\ r.shows \in BOOLEAN
        /\ r.again => r.stale # 0
    BY <1>1 DEF Traces, RetraceIsApart
  <1>3. /\ key \in Identities
        /\ r.again => key.kind = "retrace"
        /\ key.kind # "watch"
    <2>1. CASE r.again
      BY <1>1, <2>1 DEF Identity, Identities
    <2>2. CASE ~r.again
      BY <1>2, <2>2 DEF Identity, Identities
    <2>3. QED
      BY <2>1, <2>2
  <1>4. /\ Keyed(key) = {}
        /\ snapshots' = Append(IF replaced THEN [snapshots EXCEPT ![r.stale].supersededBy = id]
                               ELSE snapshots, row)
        /\ caseStage' = StageWritten(r, outcome)
        /\ Shown(w, r.shows /\ ~(r.again /\ outcome.failed), id)
    BY DEF Sealed
  <1> HIDE DEF key, r
  <1>5. /\ row \in Snapshots /\ row.parent = r.stale /\ row.supersededBy = 0
        /\ row.cacheIdentity = key /\ row.traced = key /\ row.stage = outcome.stage
        /\ row.again = r.again /\ row.failed = outcome.failed
    <2>1. PICK again \in BOOLEAN, failed \in BOOLEAN : again = r.again /\ failed = outcome.failed
      BY <1>1, <1>2
    <2>2. row = [cacheIdentity |-> key, traced |-> key, base |-> r.params, parent |-> r.stale,
                 supersededBy |-> 0, failed |-> failed, stage |-> outcome.stage, again |-> again]
      BY <2>1 DEF TraceSnapshot
    <2> HIDE DEF row
    <2>3. QED
      BY <1>1, <1>2, <1>3, <2>1, <2>2 DEF Snapshots
  <1>6. PICK b \in BOOLEAN : b <=> replaced
    OBVIOUS
  <1>7. b => r.stale # 0 /\ ~(row.again /\ row.failed)
    <2>1. b => r.stale # 0 /\ ~(r.again /\ r.stale # 0 /\ outcome.failed)
      BY <1>6 DEF FailedRetrace
    <2>2. QED
      BY <1>5, <2>1
  <1>8. snapshots' = Append(IF b THEN [snapshots EXCEPT ![r.stale].supersededBy = Latest + 1]
                            ELSE snapshots, row)
    BY <1>4, <1>6
  <1> HIDE DEF replaced, row
  <1>9. Added(row, r.stale, b)
    BY <1>1, <1>2, <1>5, <1>7, <1>8, RowIsAdded
  <1>10. Fits(row, r.stale, b)
    BY <1>2, <1>3, <1>4, <1>5, <1>7 DEF Fits
  <1>11. Follows(row)
    <2>1. \/ active' = active
          \/ active' = [active EXCEPT ![w] = Latest + 1] /\ ~(row.again /\ row.failed)
      BY <1>4, <1>5 DEF Shown
    <2>2. \/ caseStage' = caseStage
          \/ caseStage' = row.stage /\ caseStage' \in Stages /\ ~(row.again /\ row.failed)
      BY <1>1, <1>2, <1>4, <1>5 DEF StageWritten, FailedRetrace
    <2>3. QED
      BY <2>1, <2>2 DEF Follows
  <1>12. QED
    BY <1>2, <1>5, <1>9, <1>10, <1>11, AddedStep

LEMMA ExtendStep ==
    ASSUME SnapshotsInv, Extend
    PROVE  SnapshotsInv'
  <1> DEFINE id == Latest + 1
             parent == snapshots[Latest]
             row == [parent EXCEPT !.cacheIdentity = Identity("watch", Latest), !.parent = Latest,
                                   !.supersededBy = 0, !.again = FALSE]
  <1>1. /\ SnapshotsTypeOK /\ ExtensionIsNext /\ snapshots # <<>> /\ Latest < MaxSnapshots
        /\ UNCHANGED <<caseStage, request, active>>
        /\ Ids = 1..Latest /\ Latest \in Nat /\ Latest = Len(snapshots)
        /\ snapshots \in Seq(Snapshots)
    BY DEF Extend, SnapshotsInv, SnapshotsTypeOK, Latest, Ids
  <1>2. Latest \in Ids /\ Latest # 0 /\ parent \in Snapshots
    BY <1>1
  <1>3. snapshots' = Append([snapshots EXCEPT ![Latest].supersededBy = id], row)
    <2>1. Last(snapshots) = parent
      BY <1>1 DEF Last
    <2>2. QED
      BY <2>1 DEF Extend
  <1>4. /\ row \in Snapshots /\ row.parent = Latest /\ row.supersededBy = 0 /\ row.again = FALSE
        /\ row.cacheIdentity = Identity("watch", Latest)
    <2>1. Identity("watch", Latest) \in Identities
      BY <1>1 DEF Identity, Identities
    <2>2. QED
      BY <1>1, <1>2, <2>1 DEF Snapshots
  <1> HIDE DEF row
  <1>5. Identity("watch", Latest).kind = "watch" /\ Identity("watch", Latest).of = Latest
    BY DEF Identity
  <1>6. Keyed(row.cacheIdentity) = {}
    <2>1. ASSUME NEW i \in Ids, snapshots[i].cacheIdentity = Identity("watch", Latest) PROVE FALSE
      BY <1>1, <1>5, <2>1 DEF ExtensionIsNext
    <2>2. QED
      BY <1>4, <2>1 DEF Keyed
  <1> PICK b \in BOOLEAN : b
    OBVIOUS
  <1>7. Added(row, Latest, b)
    <2>1. snapshots' = Append(IF b THEN [snapshots EXCEPT ![Latest].supersededBy = Latest + 1]
                              ELSE snapshots, row)
      BY <1>3
    <2>2. Latest \in 0..Latest
      BY <1>1
    <2>3. QED
      BY <1>1, <1>2, <1>4, <2>1, <2>2, RowIsAdded
  <1>8. Fits(row, Latest, b)
    BY <1>1, <1>2, <1>4, <1>5, <1>6 DEF Fits
  <1>9. Follows(row)
    BY <1>1 DEF Follows
  <1>10. QED
    <2>1. Latest \in 0..Latest
      BY <1>1
    <2>2. QED
      BY <1>4, <1>7, <1>8, <1>9, <2>1, AddedStep

(* Only the request changes.                                                *)
LEMMA RequestStep ==
    ASSUME SnapshotsInv, UNCHANGED <<snapshots, caseStage>>,
           request' \in [Tracers -> {Idle} \cup Traces],
           \A w \in Tracers : request'[w].pc = "tracing" /\ request'[w].again => request'[w].stale # 0,
           active' \in [Tracers -> 0..Latest],
           \A w \in Tracers : active'[w] # 0 /\ active'[w] # active[w] => ~RetraceFailed(active'[w])
    PROVE  SnapshotsInv'
  <1>1. /\ SnapshotsTypeOK /\ FailureDisplacesNothing /\ RetraceIsApart /\ ExtensionIsNext
        /\ Latest' = Latest /\ Ids' = Ids /\ Traces' = Traces
        /\ \A i : RetraceFailed(i)' <=> RetraceFailed(i)
    BY DEF SnapshotsInv, Latest, Ids, Traces, RetraceFailed
  <1>2. SnapshotsTypeOK'
    BY <1>1 DEF SnapshotsTypeOK
  <1>3. FailureDisplacesNothing'
    <2>1. \A w \in Tracers : active'[w] # 0 =>
             ~(snapshots[active'[w]].again /\ snapshots[active'[w]].failed)
      BY <1>1 DEF FailureDisplacesNothing, RetraceFailed
    <2>2. QED
      BY <1>1, <2>1 DEF FailureDisplacesNothing, RetraceFailed
  <1>4. RetraceIsApart' /\ ExtensionIsNext'
    BY <1>1 DEF RetraceIsApart, ExtensionIsNext
  <1>5. QED
    BY <1>2, <1>3, <1>4 DEF SnapshotsInv

LEMMA StartedStep ==
    ASSUME SnapshotsInv, NEW w \in Tracers, NEW p \in Params, NEW again \in BOOLEAN,
           NEW shows \in BOOLEAN, again => Latest # 0,
           request' = [request EXCEPT ![w] = Tracing(p, again, shows, Latest)],
           UNCHANGED <<snapshots, caseStage, active>>
    PROVE  SnapshotsInv'
  <1> DEFINE t == Tracing(p, again, shows, Latest)
  <1>1. SnapshotsTypeOK /\ RetraceIsApart /\ Latest \in 0..Latest
    BY DEF SnapshotsInv, SnapshotsTypeOK, Latest
  <1>2. t \in Traces /\ t.again = again /\ t.stale = Latest
    BY <1>1 DEF Tracing, Traces, SnapshotsTypeOK
  <1> HIDE DEF t
  <1>3. request' = [request EXCEPT ![w] = t]
    BY DEF t
  <1>4. /\ request' \in [Tracers -> {Idle} \cup Traces]
        /\ \A v \in Tracers : request'[v].pc = "tracing" /\ request'[v].again => request'[v].stale # 0
    BY <1>1, <1>2, <1>3 DEF SnapshotsTypeOK, RetraceIsApart
  <1>5. QED
    BY <1>1, <1>4, RequestStep DEF SnapshotsTypeOK

LEMMA ViewTraceStep ==
    ASSUME SnapshotsInv, NEW w \in Tracers, NEW i \in Ids, ViewTrace(w, i)
    PROVE  SnapshotsInv'
  <1>1. /\ SnapshotsTypeOK /\ FailureDisplacesNothing /\ RetraceIsApart
        /\ Promoted(i) /\ active' = [active EXCEPT ![w] = i]
        /\ UNCHANGED <<snapshots, caseStage, request>>
    BY DEF ViewTrace, SnapshotsInv
  <1>2. Ids = 1..Latest /\ snapshots[i] \in Snapshots /\ Latest \in Nat
    BY <1>1, RowTyped
  <1>3. ~RetraceFailed(i)
    <2> SUFFICES ASSUME RetraceFailed(i) PROVE FALSE
      OBVIOUS
    <2> DEFINE k == snapshots[i].parent
    <2>1. snapshots[i].again /\ snapshots[i].failed /\ k # 0
      BY <1>1 DEF RetraceIsApart, RetraceFailed
    <2>2. k \in Ids
      BY <1>1, <1>2, <2>1 DEF SnapshotsTypeOK, Snapshots
    <2>3. snapshots[k].supersededBy = i
      BY <1>1, <2>1 DEF Promoted
    <2>4. i # 0
      BY <1>2
    <2>5. QED
      BY <1>1, <2>2, <2>3, <2>4 DEF FailureDisplacesNothing
  <1>4. active' \in [Tracers -> 0..Latest]
    BY <1>1, <1>2 DEF SnapshotsTypeOK
  <1>5. \A v \in Tracers : active'[v] # active[v] => active'[v] = i
    BY <1>1 DEF SnapshotsTypeOK
  <1>6. \A v \in Tracers : active'[v] # 0 /\ active'[v] # active[v] => ~RetraceFailed(active'[v])
    BY <1>3, <1>5 DEF RetraceFailed
  <1>7. QED
    BY <1>1, <1>4, <1>6, RequestStep DEF SnapshotsTypeOK, RetraceIsApart

LEMMA TracerStepKeeps ==
    ASSUME SnapshotsInv, NEW w \in Tracers, TracerStep(w)
    PROVE  SnapshotsInv'
  <1>1. /\ SnapshotsTypeOK /\ RetraceIsApart /\ Latest \in Nat
        /\ request[w].pc = "tracing" => request[w] \in Traces
    BY IdleIsNoTrace DEF SnapshotsInv, SnapshotsTypeOK, Latest
  <1>2. ASSUME NEW p \in Params, NEW shows \in BOOLEAN, OpenCase(w, p, shows) PROVE SnapshotsInv'
    <2>1. CASE FoundKeyed(w, Identity("params", p), shows) \/ FoundLegacy(w, Identity("params", p), shows)
      <3>1. CASE UNCHANGED <<caseStage, request>>
        BY <2>1, <3>1, FoundStep
      <3>2. CASE Keyed(Identity("params", p)) \cup Legacy(Identity("params", p)) = {}
        BY <2>1, <3>2 DEF FoundKeyed, FoundLegacy
      <3>3. QED
        BY <1>2, <3>1, <3>2 DEF OpenCase
    <2>2. CASE /\ request' = [request EXCEPT ![w] = Tracing(p, FALSE, shows, Latest)]
               /\ UNCHANGED <<snapshots, caseStage, active>>
      BY <2>2, StartedStep
    <2>3. QED
      BY <1>2, <2>1, <2>2 DEF OpenCase
  <1>3. ASSUME NEW i \in Ids, Retrace(w, i) PROVE SnapshotsInv'
    <2>1. snapshots[i].base \in Params /\ Latest # 0
      BY <1>1, <1>3, RowTyped DEF Snapshots
    <2>2. QED
      BY <1>3, <2>1, StartedStep DEF Retrace
  <1>4. ASSUME NEW outcome \in Outcomes, SealSnapshot(w, outcome) PROVE SnapshotsInv'
    <2>1. /\ request[w] \in Traces /\ Latest < MaxSnapshots
          /\ request' = [request EXCEPT ![w] = Idle]
          /\ Sealed(w, request[w], outcome) \/ Concurrent(w, request[w])
      BY <1>1, <1>4 DEF SealSnapshot
    <2>2. CASE Concurrent(w, request[w])
      <3>1. request[w].params \in Params /\ request[w].shows \in BOOLEAN
        BY <2>1 DEF Traces
      <3>2. QED
        BY <2>1, <2>2, <3>1, FoundStep DEF Concurrent
    <2>3. QED
      BY <2>1, <2>2, SealedStep
  <1>5. ASSUME TraceLost(w) PROVE SnapshotsInv'
    <2>1. /\ request' \in [Tracers -> {Idle} \cup Traces]
          /\ \A v \in Tracers : request'[v].pc = "tracing" /\ request'[v].again => request'[v].stale # 0
      BY <1>1, <1>5, IdleIsNoTrace DEF TraceLost, SnapshotsTypeOK, RetraceIsApart
    <2>2. QED
      BY <1>1, <1>5, <2>1, RequestStep DEF TraceLost, SnapshotsTypeOK
  <1>6. QED
    BY <1>2, <1>3, <1>4, <1>5, ViewTraceStep DEF TracerStep

LEMMA SnapshotsStep == SnapshotsInv /\ [SnapshotsNext]_snapshotVars => SnapshotsInv'
  <1> SUFFICES ASSUME SnapshotsInv, [SnapshotsNext]_snapshotVars PROVE SnapshotsInv'
    OBVIOUS
  <1>1. CASE UNCHANGED snapshotVars
    BY <1>1, RequestStep DEF snapshotVars, SnapshotsInv, SnapshotsTypeOK, RetraceIsApart
  <1>2. CASE SnapshotsNext
    BY <1>2, ExtendStep, TracerStepKeeps DEF SnapshotsNext
  <1>3. QED
    BY <1>1, <1>2

(* repository.py: the snapshots of a case, its stage and the requests stay  *)
(* well formed, for any number of requests, parameters and snapshots.       *)
THEOREM SnapshotsTypeCorrect == SnapshotsSpec => []SnapshotsTypeOK
  <1>1. SnapshotsInv => SnapshotsTypeOK
    BY DEF SnapshotsInv
  <1>2. QED
    BY <1>1, SnapshotsInitInvariant, SnapshotsStep, PTL DEF SnapshotsSpec

(* get_or_create_trace: however requests that trace, retrace and look at a  *)
(* case overlap, one snapshot exists per identity, each is replaced only by *)
(* one that started from it, and a retrace that failed replaces nothing,    *)
(* is nobody's active case and gives the case no stage.                     *)
THEOREM FailureIsContained == SnapshotsSpec => []FailureDisplacesNothing
  <1>1. SnapshotsInv => FailureDisplacesNothing
    BY DEF SnapshotsInv
  <1>2. QED
    BY <1>1, SnapshotsInitInvariant, SnapshotsStep, PTL DEF SnapshotsSpec

-----------------------------------------------------------------------------
(* Provider requests.  Every request in the window is a poll or a trace's.  *)
LEMMA WindowCounted ==
    ASSUME NEW S, NEW window \in Seq(S)
    PROVE  /\ Cardinality(Polls(window)) \in Nat /\ Cardinality(ForTraces(window)) \in Nat
           /\ Cardinality(Polls(window)) + Cardinality(ForTraces(window)) = Len(window)
  <1> DEFINE ids == 1..Len(window)
  <1>1. Len(window) \in Nat /\ DOMAIN window = ids
    OBVIOUS
  <1>2. IsFiniteSet(ids) /\ Cardinality(ids) = Len(window)
    BY <1>1, FS_Interval
  <1>3. ForTraces(window) = ids \ Polls(window) /\ ids \cap Polls(window) = Polls(window)
    BY <1>1 DEF ForTraces, Polls
  <1> HIDE DEF ids
  <1>4. Polls(window) \in SUBSET ids
    BY <1>3
  <1>5. IsFiniteSet(Polls(window)) /\ IsFiniteSet(ForTraces(window))
    BY <1>2, <1>3, <1>4, FS_Subset, FS_Difference
  <1>6. Cardinality(ForTraces(window)) = Cardinality(ids) - Cardinality(Polls(window))
    BY <1>2, <1>3, FS_Difference
  <1>7. QED
    BY <1>1, <1>2, <1>5, <1>6, FS_CardinalityType

(* What is dropped from the left takes no place that polls did not have.    *)
LEMMA TailHasNoMorePolls ==
    ASSUME NEW S, NEW window \in Seq(S), NEW k \in 1..Len(window)
    PROVE  LET tail == SubSeq(window, k, Len(window)) IN
           /\ tail \in Seq(S) /\ Len(tail) <= Len(window)
           /\ Cardinality(Polls(tail)) <= Cardinality(Polls(window))
  <1> DEFINE tail == SubSeq(window, k, Len(window))
             f == [i \in Polls(tail) |-> i + (k - 1)]
  <1>1. /\ tail \in Seq(S) /\ Len(tail) = Len(window) - k + 1
        /\ DOMAIN tail = 1..(Len(window) - k + 1) /\ DOMAIN window = 1..Len(window)
        /\ \A i \in 1..(Len(window) - k + 1) : tail[i] = window[i + (k - 1)]
    OBVIOUS
  <1> HIDE DEF tail
  <1>2. \A i \in Polls(tail) : i + (k - 1) \in Polls(window)
    BY <1>1 DEF Polls
  <1>3. f \in [Polls(tail) -> Polls(window)]
    BY <1>2
  <1>4. \A i, j \in Polls(tail) : f[i] = f[j] => i = j
    BY <1>1 DEF Polls
  <1>5. f \in Injection(Polls(tail), Polls(window))
    <2> HIDE DEF f
    <2>1. QED
      BY <1>3, <1>4 DEF Injection, IsInjective
  <1>6. IsFiniteSet(Polls(window))
    <2>1. IsFiniteSet(1..Len(window)) /\ Polls(window) \in SUBSET (1..Len(window))
      BY <1>1, FS_Interval DEF Polls
    <2>2. QED
      BY <2>1, FS_Subset
  <1>7. QED
    <2> HIDE DEF f
    <2>1. Cardinality(Polls(tail)) <= Cardinality(Polls(window))
      BY <1>5, <1>6, FS_Injection
    <2>2. QED
      BY <1>1, <2>1 DEF tail

LEMMA PrunedKeeps ==
    ASSUME ProviderAssumption, NEW S, requests \in Seq(S), NEW at \in Nat,
           \A k \in DOMAIN requests : requests[k].at \in Nat
    PROVE  /\ Pruned(at) \in Seq(S) /\ Len(Pruned(at)) <= Len(requests)
           /\ Cardinality(Polls(Pruned(at))) <= Cardinality(Polls(requests))
  <1> DEFINE kept == {k \in DOMAIN requests : InWindow(requests[k], at)}
  <1>1. CASE kept = {}
    <2>1. Pruned(at) = <<>>
      BY <1>1 DEF Pruned
    <2>2. Polls(<<>>) = {}
      BY DEF Polls
    <2>3. Polls(Pruned(at)) = {}
      BY <2>1, <2>2, Zenon
    <2>4. Cardinality(Polls(Pruned(at))) = 0
      BY <2>3, FS_EmptySet, Zenon
    <2>5. Cardinality(Polls(requests)) \in Nat /\ Len(requests) \in Nat
      BY WindowCounted
    <2>6. Pruned(at) \in Seq(S) /\ Len(Pruned(at)) = 0
      BY <2>1
    <2>7. QED
      BY <2>4, <2>5, <2>6
  <1>2. CASE kept # {}
    <2> DEFINE first == CHOOSE k \in kept : \A j \in kept : k <= j
    <2>1. Len(requests) \in Nat /\ DOMAIN requests = 1..Len(requests)
      OBVIOUS
    <2>2. kept \subseteq 1..Len(requests) /\ kept \in SUBSET Nat
      BY <2>1
    <2>3. Pruned(at) = SubSeq(requests, first, Len(requests))
      BY <1>2 DEF Pruned
    <2>4. first \in kept
      <3> HIDE DEF kept
      <3>1. \E k \in kept : \A j \in kept : k <= j
        BY <1>2, <2>2, SetHasMinimum
      <3>2. QED
        BY <3>1
    <2> HIDE DEF first, kept
    <2>5. first \in 1..Len(requests)
      BY <2>2, <2>4
    <2>6. QED
      BY <2>3, <2>5, TailHasNoMorePolls
  <1>3. QED
    BY <1>1, <1>2

LEMMA PollsAppended ==
    ASSUME NEW S, NEW window \in Seq(S), NEW e \in S
    PROVE  Cardinality(Polls(Append(window, e))) =
             Cardinality(Polls(window)) + IF e.category = "watch_poll" THEN 1 ELSE 0
  <1> DEFINE n == Len(window)
             longer == Append(window, e)
  <1>1. /\ n \in Nat /\ DOMAIN window = 1..n /\ DOMAIN longer = 1..(n + 1)
        /\ longer[n + 1] = e /\ \A i \in 1..n : longer[i] = window[i]
    BY Appended
  <1>2. IsFiniteSet(Polls(window)) /\ Cardinality(Polls(window)) \in Nat
    <2>1. IsFiniteSet(1..n) /\ Polls(window) \in SUBSET (1..n)
      BY <1>1, FS_Interval DEF Polls
    <2>2. QED
      BY <2>1, FS_Subset, FS_CardinalityType
  <1> HIDE DEF n, longer
  <1>3. n + 1 \notin Polls(window)
    BY <1>1 DEF Polls
  <1>4. \A i \in 1..(n + 1) : i \in 1..n \/ i = n + 1
    BY <1>1
  <1>5. \A i \in 1..n : i \in Polls(longer) <=> i \in Polls(window)
    BY <1>1 DEF Polls
  <1>6. Polls(longer) \subseteq 1..(n + 1) /\ Polls(window) \subseteq 1..n
    BY <1>1 DEF Polls
  <1>7. CASE e.category = "watch_poll"
    <2>1. n + 1 \in Polls(longer)
      BY <1>1, <1>7 DEF Polls
    <2>2. Polls(longer) = Polls(window) \cup {n + 1}
      BY <1>4, <1>5, <1>6, <2>1
    <2>3. QED
      BY <1>2, <1>3, <1>7, <2>2, FS_AddElement DEF longer
  <1>8. CASE e.category # "watch_poll"
    <2>1. n + 1 \notin Polls(longer)
      BY <1>1, <1>8 DEF Polls
    <2>2. Polls(longer) = Polls(window)
      BY <1>4, <1>5, <1>6, <2>1
    <2>3. QED
      BY <1>2, <1>8, <2>2 DEF longer
  <1>9. QED
    BY <1>7, <1>8

LEMMA ProviderInitInv == ProviderInit => ProviderInv
  <1> SUFFICES ASSUME ProviderInit PROVE ProviderInv
    OBVIOUS
  <1>1. requests = <<>> /\ now = 0 /\ call = [c \in Callers |-> Resting]
    BY DEF ProviderInit
  <1>2. ProviderTypeOK
    BY <1>1, ProviderAssumption DEF ProviderTypeOK
  <1>3. Len(requests) = 0 /\ Polls(requests) = {}
    BY <1>1 DEF Polls
  <1>4. Cardinality(Polls(requests)) = 0
    BY <1>3, FS_EmptySet, Zenon
  <1>5. WindowIsShared
    BY <1>3, <1>4, ProviderAssumption DEF WindowIsShared
  <1>6. QED
    BY <1>2, <1>5 DEF ProviderInv

LEMMA CallTyped ==
    ASSUME ProviderTypeOK, NEW c \in Callers, call[c].pc # "idle"
    PROVE  call[c] \in Called
  <1>1. call[c] \in {Resting} \cup Called
    BY DEF ProviderTypeOK
  <1>2. QED
    BY <1>1 DEF Resting

(* What InteractiveShareKept says of a step.                                *)
ShareKept ==
    /\ Len(requests') <= RequestLimit
    /\ (\E c \in Callers : TraceDenied(c)) => Cardinality(ForTraces(requests')) >= InteractiveShare

(* A caller goes on, with no reservation made or denied.                    *)
LEMMA CallerMoves ==
    ASSUME ProviderInv, NEW c \in Callers, NEW q \in {Resting} \cup Called,
           call' = [call EXCEPT ![c] = q], UNCHANGED <<now, requests>>,
           call[c].pc = "stamped" => q.pc # "failed"
    PROVE  ProviderInv' /\ ShareKept
  <1>1. Called' = Called /\ Reservations' = Reservations
    BY DEF Called, Reservations
  <1>2. /\ call' \in [Callers -> {Resting} \cup Called]
        /\ \A d \in Callers : call'[d] = IF d = c THEN q ELSE call[d]
    BY DEF ProviderInv, ProviderTypeOK
  <1>3. ProviderTypeOK'
    BY <1>1, <1>2 DEF ProviderInv, ProviderTypeOK
  <1>4. WindowIsShared'
    BY DEF ProviderInv, WindowIsShared, Polls
  <1>5. \A d \in Callers : ~TraceDenied(d)
    BY <1>2 DEF TraceDenied
  <1>6. Len(requests') <= RequestLimit
    BY DEF ProviderInv, WindowIsShared
  <1>7. QED
    BY <1>3, <1>4, <1>5, <1>6 DEF ProviderInv, ShareKept

(* What the window is after a reservation, and what a denied trace finds.   *)
LEMMA ReserveStep ==
    ASSUME ProviderInv, NEW c \in Callers, Reserve(c)
    PROVE  ProviderInv' /\ ShareKept
  <1> DEFINE window == Pruned(call[c].at)
             category == call[c].category
             denied == [call[c] EXCEPT !.pc = "failed", !.error = "budget", !.at = 0]
             sent == [call[c] EXCEPT !.pc = "sent", !.at = 0]
             e == [at |-> call[c].at, category |-> category]
  <1>0. ProviderTypeOK /\ WindowIsShared /\ now \in Nat
    BY DEF ProviderInv, ProviderTypeOK
  <1>1. call[c] \in Called
    BY <1>0, CallTyped DEF Reserve
  <1>2. call[c].at \in 0..now /\ call[c].at \in Nat /\ category \in Categories /\ e \in Reservations
    BY <1>0, <1>1 DEF Called, Reservations
  <1>3. denied \in Called /\ sent \in Called /\ denied.pc = "failed" /\ sent.pc = "sent"
    <2>1. 0 \in 0..now
      BY <1>0
    <2>2. "budget" \in Failures \cup {"none", "budget", "cursor_repeated", "page_budget"}
      OBVIOUS
    <2>3. denied \in Called /\ denied.pc = "failed"
      BY <1>1, <2>1, <2>2 DEF Called
    <2>4. sent \in Called /\ sent.pc = "sent"
      BY <1>1, <2>1 DEF Called
    <2>5. QED
      BY <2>3, <2>4
  <1>4. /\ window \in Seq(Reservations) /\ Len(window) <= Len(requests)
        /\ Cardinality(Polls(window)) <= Cardinality(Polls(requests))
    <2>1. requests \in Seq(Reservations)
      BY <1>0 DEF ProviderTypeOK
    <2>2. \A k \in DOMAIN requests : requests[k].at \in Nat
      <3>1. \A k \in DOMAIN requests : requests[k] \in Reservations
        BY <2>1
      <3>2. \A m \in Reservations : m.at \in Nat
        BY <1>0 DEF Reservations
      <3>3. QED
        BY <3>1, <3>2
    <2>3. QED
      BY <1>2, <2>1, <2>2, ProviderAssumption, PrunedKeeps
  <1>5. /\ RequestLimit \in Nat /\ InteractiveShare \in Nat /\ InteractiveShare <= RequestLimit
        /\ Len(requests) \in Nat /\ Cardinality(Polls(requests)) \in Nat
        /\ Len(requests) <= RequestLimit
        /\ Cardinality(Polls(requests)) <= RequestLimit - InteractiveShare
    BY <1>0, ProviderAssumption, WindowCounted DEF ProviderTypeOK, WindowIsShared
  <1>6. /\ Cardinality(Polls(window)) \in Nat /\ Cardinality(ForTraces(window)) \in Nat
        /\ Cardinality(Polls(window)) + Cardinality(ForTraces(window)) = Len(window)
    BY <1>4, WindowCounted
  <1>7. Called' = Called /\ Reservations' = Reservations /\ now' = now
    BY DEF Called, Reservations, Reserve
  <1>8. \A d \in Callers : d # c => call'[d] = call[d]
    BY <1>0 DEF Reserve, ProviderTypeOK
  <1>9. \A d \in Callers : d # c => ~TraceDenied(d)
    BY <1>8 DEF TraceDenied
  <1>10. \/ /\ Denied(window, category) /\ requests' = window
            /\ call' = [call EXCEPT ![c] = denied]
         \/ /\ ~Denied(window, category) /\ requests' = Append(window, e)
            /\ call' = [call EXCEPT ![c] = sent]
    BY DEF Reserve
  <1> HIDE DEF window, category, denied, sent, e
  <1>11. CASE /\ Denied(window, category) /\ requests' = window
              /\ call' = [call EXCEPT ![c] = denied]
    <2>1. ProviderTypeOK'
      BY <1>0, <1>3, <1>4, <1>7, <1>11 DEF ProviderTypeOK
    <2>2. Polls(requests)' = Polls(window) /\ ForTraces(requests)' = ForTraces(window)
      BY <1>11 DEF Polls, ForTraces
    <2>3. Len(requests') <= RequestLimit
      BY <1>4, <1>5, <1>6, <1>11
    <2>4. Cardinality(Polls(window)) <= RequestLimit - InteractiveShare
      BY <1>4, <1>5, <1>6
    <2>5. WindowIsShared'
      BY <2>2, <2>3, <2>4 DEF WindowIsShared
    <2>6. ASSUME TraceDenied(c) PROVE Cardinality(ForTraces(requests')) >= InteractiveShare
      <3>1. category = "interactive_trace"
        BY <2>6 DEF TraceDenied, category
      <3>2. Len(window) >= RequestLimit
        BY <1>11, <3>1 DEF Denied
      <3>3. Cardinality(ForTraces(window)) >= InteractiveShare
        BY <1>4, <1>5, <1>6, <2>4, <3>2
      <3>4. QED
        BY <1>11, <3>3
    <2>7. QED
      BY <1>9, <2>1, <2>3, <2>5, <2>6 DEF ProviderInv, ShareKept
  <1>12. CASE /\ ~Denied(window, category) /\ requests' = Append(window, e)
              /\ call' = [call EXCEPT ![c] = sent]
    <2>1. /\ Append(window, e) \in Seq(Reservations) /\ Len(Append(window, e)) = Len(window) + 1
          /\ Len(window) \in Nat
      BY <1>2, <1>4, Appended
    <2>2. ProviderTypeOK'
      BY <1>0, <1>3, <1>7, <1>12, <2>1 DEF ProviderTypeOK
    <2>3. Cardinality(Polls(Append(window, e))) =
            Cardinality(Polls(window)) + IF category = "watch_poll" THEN 1 ELSE 0
      <3>1. e.category = category
        BY DEF e
      <3>2. QED
        BY <1>2, <1>4, <3>1, PollsAppended
    <2>4. ~(Len(window) >= RequestLimit)
          /\ (category = "watch_poll" => ~(Len(window) >= RequestLimit - InteractiveShare))
      BY <1>12 DEF Denied
    <2>5. Len(Append(window, e)) <= RequestLimit
      BY <1>5, <2>1, <2>4
    <2>6. Cardinality(Polls(Append(window, e))) <= RequestLimit - InteractiveShare
      <3>1. CASE category = "watch_poll"
        <4>1. Cardinality(Polls(window)) <= Len(window)
          BY <1>6
        <4>2. QED
          BY <1>5, <1>6, <2>1, <2>3, <2>4, <3>1, <4>1
      <3>2. CASE category # "watch_poll"
        BY <1>4, <1>5, <1>6, <2>3, <3>2
      <3>3. QED
        BY <3>1, <3>2
    <2>7. WindowIsShared'
      <3>1. Polls(requests)' = Polls(Append(window, e))
        BY <1>12 DEF Polls
      <3>2. QED
        BY <1>12, <2>5, <2>6, <3>1 DEF WindowIsShared
    <2>8. ~TraceDenied(c)
      <3>1. call'[c] = sent
        BY <1>0, <1>12 DEF ProviderTypeOK
      <3>2. QED
        BY <1>3, <3>1 DEF TraceDenied
    <2>9. QED
      BY <1>9, <1>12, <2>2, <2>5, <2>7, <2>8 DEF ProviderInv, ShareKept
  <1>13. QED
    BY <1>10, <1>11, <1>12

LEMMA ReceivedTyped ==
    ASSUME ProviderTypeOK, NEW c \in Callers, call[c].pc = "sent", NEW error \in Failures \cup {"none"}
    PROVE  /\ Received(c, error) \in Called
           /\ \A pc \in {"done", "failed"} :
                 /\ [Received(c, error) EXCEPT !.pc = pc] \in Called
                 /\ [Received(c, error) EXCEPT !.pc = pc].pc = pc
           /\ \A e \in {"cursor_repeated", "page_budget"} :
                 [Received(c, error) EXCEPT !.pc = "failed", !.error = e] \in Called
           /\ Received(c, error).page = call[c].page
  <1> DEFINE got == Received(c, error)
             Receipts == {"response_recorded", "provider_gap"}
  <1>1. call[c] \in Called
    BY CallTyped
  <1>2. Append(call[c].receipts, Completeness(error)) \in Seq(Receipts)
    <2>1. call[c].receipts \in Seq(Receipts)
      BY <1>1 DEF Called
    <2>2. Completeness(error) \in Receipts
      BY DEF Completeness
    <2>3. QED
      BY <2>1, <2>2, Appended
  <1>3. got = [call[c] EXCEPT !.receipts = Append(call[c].receipts, Completeness(error)),
                              !.error = error]
    BY <1>1 DEF Received, Called
  <1>4. got \in Called /\ got.page = call[c].page
    BY <1>1, <1>2, <1>3 DEF Called
  <1> HIDE DEF got
  <1>5. ASSUME NEW pc \in {"done", "failed"}
        PROVE  [got EXCEPT !.pc = pc] \in Called /\ [got EXCEPT !.pc = pc].pc = pc
    BY <1>4 DEF Called
  <1>6. ASSUME NEW e \in {"cursor_repeated", "page_budget"}
        PROVE  [got EXCEPT !.pc = "failed", !.error = e] \in Called
    BY <1>4 DEF Called
  <1>7. QED
    BY <1>4, <1>5, <1>6 DEF got

LEMMA AnswerSteps ==
    ASSUME ProviderInv, NEW c \in Callers,
           AnswerFails(c) \/ CursorRepeats(c) \/ LastPageReceived(c) \/ PageReceived(c)
    PROVE  ProviderInv' /\ ShareKept
  <1> DEFINE got == Received(c, "none")
  <1>0. ProviderTypeOK /\ call[c].pc = "sent" /\ UNCHANGED <<now, requests>>
    BY DEF ProviderInv, AnswerFails, CursorRepeats, LastPageReceived, PageReceived
  <1>1. got \in Called /\ got.page = call[c].page /\ call[c] \in Called
    BY <1>0, CallTyped, ReceivedTyped
  <1>2. CASE AnswerFails(c)
    <2>1. PICK error \in Failures :
             call' = [call EXCEPT ![c] = [Received(c, error) EXCEPT !.pc = "failed"]]
      BY <1>2 DEF AnswerFails
    <2>2. [Received(c, error) EXCEPT !.pc = "failed"] \in Called
      BY <1>0, ReceivedTyped
    <2>3. QED
      BY <1>0, <2>1, <2>2, CallerMoves
  <1>3. CASE CursorRepeats(c)
    <2>1. [got EXCEPT !.pc = "failed", !.error = "cursor_repeated"] \in Called
      BY <1>0, ReceivedTyped
    <2>2. QED
      BY <1>0, <1>3, <2>1, CallerMoves DEF CursorRepeats
  <1>4. CASE LastPageReceived(c)
    <2>1. [got EXCEPT !.pc = "done"] \in Called
      BY <1>0, ReceivedTyped
    <2>2. QED
      BY <1>0, <1>4, <2>1, CallerMoves DEF LastPageReceived
  <1>5. CASE PageReceived(c)
    <2> DEFINE done == [got EXCEPT !.pc = "done"]
               failed == [got EXCEPT !.pc = "failed", !.error = "page_budget"]
    <2>1. done \in Called /\ failed \in Called
      BY <1>0, ReceivedTyped
    <2>2. CASE call[c].page < MaxPages
      <3>1. call[c].page + 1 \in 1..MaxPages
        BY <1>1, <2>2, ProviderAssumption DEF Called
      <3>2. PICK page \in 1..MaxPages : page = got.page + 1
        BY <1>1, <3>1
      <3>3. [got EXCEPT !.pc = "ready", !.page = page] \in Called
        BY <1>1 DEF Called
      <3>4. [got EXCEPT !.pc = "ready", !.page = page] = [got EXCEPT !.pc = "ready", !.page = @ + 1]
        BY <1>1, <3>2 DEF Called
      <3>5. call' = [call EXCEPT ![c] = [got EXCEPT !.pc = "ready", !.page = page]]
        <4>1. call[c].page # MaxPages
          BY <2>2, ProviderAssumption
        <4>2. QED
          BY <1>5, <3>4, <4>1 DEF PageReceived
      <3>6. QED
        BY <1>0, <3>3, <3>5, CallerMoves
    <2>3. CASE call[c].page = MaxPages
      <3>1. ~(call[c].page < MaxPages)
        BY <2>3, ProviderAssumption
      <3>2. call' = [call EXCEPT ![c] = IF call[c].kind = "lookup" THEN done ELSE failed]
        BY <1>5, <3>1 DEF PageReceived
      <3> HIDE DEF done, failed
      <3>3. QED
        BY <1>0, <2>1, <3>2, CallerMoves
    <2>4. QED
      BY <1>5, <2>2, <2>3 DEF PageReceived
  <1>6. QED
    BY <1>2, <1>3, <1>4, <1>5

LEMMA OtherCallerSteps ==
    ASSUME ProviderInv, NEW c \in Callers, StartFetch(c) \/ ReadClock(c) \/ FetchEnds(c)
    PROVE  ProviderInv' /\ ShareKept
  <1>0. ProviderTypeOK /\ now \in Nat
    BY DEF ProviderInv, ProviderTypeOK
  <1>1. CASE StartFetch(c)
    <2>1. PICK kind \in Fetches, category \in Categories :
             call' = [call EXCEPT ![c] = Fetch(kind, category)]
      BY <1>1 DEF StartFetch
    <2>2. Fetch(kind, category) \in Called
      BY <1>0, ProviderAssumption DEF Fetch, Called
    <2>3. QED
      BY <1>1, <2>1, <2>2, CallerMoves DEF StartFetch
  <1>2. CASE ReadClock(c)
    <2> DEFINE q == [call[c] EXCEPT !.pc = "stamped", !.at = now]
    <2>1. call[c] \in Called /\ now \in 0..now
      BY <1>0, <1>2, CallTyped DEF ReadClock
    <2>2. q \in Called /\ q.pc = "stamped"
      BY <2>1 DEF Called
    <2>3. call' = [call EXCEPT ![c] = q]
      BY <1>2 DEF ReadClock
    <2> HIDE DEF q
    <2>4. QED
      BY <1>2, <2>2, <2>3, CallerMoves DEF ReadClock
  <1>3. CASE FetchEnds(c)
    BY <1>3, CallerMoves DEF FetchEnds, Resting
  <1>4. QED
    BY <1>1, <1>2, <1>3

LEMMA ProviderTickStep ==
    ASSUME ProviderInv, ProviderTick
    PROVE  ProviderInv' /\ ShareKept
  <1>0. ProviderTypeOK /\ WindowIsShared
    BY DEF ProviderInv
  <1>1. now \in Nat /\ now' \in 0..MaxClock /\ 0..now \subseteq 0..now'
    BY <1>0, ProviderAssumption DEF ProviderTypeOK, ProviderTick
  <1>2. Called \subseteq Called' /\ Reservations \subseteq Reservations'
    BY <1>1 DEF Called, Reservations
  <1>3. requests' \in Seq(Reservations')
    <2>1. requests \in Seq(Reservations) /\ requests' = requests
      BY <1>0 DEF ProviderTypeOK, ProviderTick
    <2>2. QED
      BY <1>2, <2>1
  <1>4. ProviderTypeOK'
    BY <1>0, <1>1, <1>2, <1>3 DEF ProviderTypeOK, ProviderTick
  <1>5. WindowIsShared'
    BY <1>0 DEF WindowIsShared, Polls, ProviderTick
  <1>6. ShareKept
    BY <1>0 DEF ShareKept, TraceDenied, WindowIsShared, ProviderTick
  <1>7. QED
    BY <1>4, <1>5, <1>6 DEF ProviderInv

LEMMA ProviderStep ==
    ProviderInv /\ [ProviderNext]_providerVars => ProviderInv' /\ [ShareKept]_providerVars
  <1> SUFFICES ASSUME ProviderInv, [ProviderNext]_providerVars
               PROVE  ProviderInv' /\ [ShareKept]_providerVars
    OBVIOUS
  <1>1. CASE UNCHANGED providerVars
    <2>1. ProviderInv'
      BY <1>1 DEF providerVars, ProviderInv, ProviderTypeOK, WindowIsShared, Polls, Called,
                  Reservations
    <2>2. QED
      BY <1>1, <2>1
  <1>2. ASSUME NEW c \in Callers,
               \/ StartFetch(c) \/ ReadClock(c) \/ Reserve(c) \/ AnswerFails(c)
               \/ CursorRepeats(c) \/ LastPageReceived(c) \/ PageReceived(c) \/ FetchEnds(c)
        PROVE  ProviderInv' /\ ShareKept
    BY <1>2, ReserveStep, AnswerSteps, OtherCallerSteps
  <1>3. QED
    BY <1>1, <1>2, ProviderTickStep DEF ProviderNext

(* provider_budget.py and the adapters: the window, the fetches in progress *)
(* and their receipts stay well formed, for any number of callers.          *)
THEOREM ProviderTypeCorrect == ProviderSpec => []ProviderTypeOK
  <1>1. ProviderInv => ProviderTypeOK
    BY DEF ProviderInv
  <1>2. QED
    BY <1>1, ProviderInitInv, ProviderStep, PTL DEF ProviderSpec

(* reserve_provider_request: for every limit, share, window length and      *)
(* number of threads, and although clocks are read before the lock is taken, *)
(* the window is not overdrawn and no trace is denied before traces had     *)
(* their whole share.                                                       *)
THEOREM PollsLeaveTheShare == ProviderSpec => InteractiveShareKept
  <1>1. [ShareKept]_providerVars <=>
          [/\ Len(requests') <= RequestLimit
           /\ (\E c \in Callers : TraceDenied(c)) =>
                 Cardinality(ForTraces(requests')) >= InteractiveShare]_providerVars
    BY DEF ShareKept
  <1>2. QED
    BY <1>1, ProviderInitInv, ProviderStep, PTL DEF ProviderSpec, InteractiveShareKept

-----------------------------------------------------------------------------
(* Wallet watches.  The order of the watchlist, and the place of a watch.   *)
Candidates(ws) == {a \in Watched(ws) : ws[a].status # "paused"}

Betters(ws, a) == {b \in Candidates(ws) : Better(ws, b, a)}

Place(ws, a) == Cardinality(Betters(ws, a))

Having(ws, s) == {a \in Addresses : ws[a].status = s}

(* What CapacityFollowsOfficers says of a watchlist.                        *)
Fair(ws) ==
    /\ Cardinality(Having(ws, "active")) <= WatchCap
    /\ Having(ws, "capacity_wait") # {} => Cardinality(Having(ws, "active")) = WatchCap
    /\ \A a \in Having(ws, "capacity_wait"), b \in Having(ws, "active") :
          ws[a].rank <= ws[b].rank

LEMMA TierOrders ==
    /\ \A t \in Tiers : TierOrder(t) \in Nat
    /\ \A t, u \in Tiers : TierOrder(t) = TierOrder(u) => t = u
  <1>1. TierOrder("hot") = 0 /\ TierOrder("standard") = 1 /\ TierOrder("cold") = 2
    BY DEF TierOrder
  <1>2. QED
    BY <1>1 DEF Tiers

LEMMA BetterIsOrder ==
    ASSUME NEW ws \in [Addresses -> WalletWatches], MaxRank \in Nat, Addresses \subseteq Nat
    PROVE  /\ \A a \in Addresses : ~Better(ws, a, a)
           /\ \A a, b, c \in Addresses : Better(ws, a, b) /\ Better(ws, b, c) => Better(ws, a, c)
           /\ \A a, b \in Addresses : a # b => Better(ws, a, b) \/ Better(ws, b, a)
           /\ \A a, b \in Addresses : ~Better(ws, a, b) => ws[a].rank <= ws[b].rank
  <1>1. \A a \in Addresses : /\ ws[a].rank \in Nat /\ ws[a].tier \in Tiers
                             /\ TierOrder(ws[a].tier) \in Nat /\ a \in Nat
    BY TierOrders DEF WalletWatches
  <1>2. \A a, b \in Addresses :
           TierOrder(ws[a].tier) = TierOrder(ws[b].tier) <=> ws[a].tier = ws[b].tier
    BY <1>1, TierOrders
  <1>3. \A a \in Addresses : ~Better(ws, a, a)
    BY <1>1 DEF Better
  <1>4. ASSUME NEW a \in Addresses, NEW b \in Addresses, NEW c \in Addresses,
               Better(ws, a, b), Better(ws, b, c)
        PROVE  Better(ws, a, c)
    BY <1>1, <1>2, <1>4 DEF Better
  <1>5. ASSUME NEW a \in Addresses, NEW b \in Addresses, a # b
        PROVE  Better(ws, a, b) \/ Better(ws, b, a)
    BY <1>1, <1>2, <1>5 DEF Better
  <1>6. \A a, b \in Addresses : ~Better(ws, a, b) => ws[a].rank <= ws[b].rank
    BY <1>1 DEF Better
  <1>7. QED
    BY <1>3, <1>4, <1>5, <1>6

LEMMA PlacesTyped ==
    ASSUME IsFiniteSet(Addresses), NEW ws, NEW a
    PROVE  /\ IsFiniteSet(Candidates(ws)) /\ Candidates(ws) \subseteq Addresses
           /\ IsFiniteSet(Betters(ws, a)) /\ Place(ws, a) \in Nat
  <1>1. Candidates(ws) \in SUBSET Addresses /\ Betters(ws, a) \in SUBSET Addresses
    BY DEF Candidates, Betters, Watched
  <1>2. QED
    BY <1>1, FS_Subset, FS_CardinalityType DEF Place

LEMMA PlaceGrows ==
    ASSUME WalletWatchAssumption, NEW ws \in [Addresses -> WalletWatches],
           NEW a \in Candidates(ws), NEW b \in Candidates(ws), Better(ws, b, a)
    PROVE  Place(ws, b) < Place(ws, a)
  <1>1. a \in Addresses /\ b \in Addresses /\ IsFiniteSet(Betters(ws, a))
    BY PlacesTyped DEF WalletWatchAssumption
  <1>2. Betters(ws, b) \subseteq Betters(ws, a)
    <2>1. ASSUME NEW c \in Betters(ws, b) PROVE c \in Betters(ws, a)
      <3>1. c \in Candidates(ws) /\ c \in Addresses /\ Better(ws, c, b)
        BY <2>1, PlacesTyped DEF Betters, WalletWatchAssumption
      <3>2. Better(ws, c, a)
        BY <1>1, <3>1, BetterIsOrder DEF WalletWatchAssumption
      <3>3. QED
        BY <3>1, <3>2 DEF Betters
    <2>2. QED
      BY <2>1
  <1>3. b \in Betters(ws, a) /\ b \notin Betters(ws, b)
    BY <1>1, BetterIsOrder DEF Betters, WalletWatchAssumption
  <1>4. /\ Cardinality(Betters(ws, b)) <= Cardinality(Betters(ws, a))
        /\ Cardinality(Betters(ws, b)) # Cardinality(Betters(ws, a))
    BY <1>1, <1>2, <1>3, FS_Subset
  <1>5. Place(ws, a) \in Nat /\ Place(ws, b) \in Nat
    BY PlacesTyped DEF WalletWatchAssumption
  <1>6. QED
    BY <1>4, <1>5 DEF Place

(* As many as have a place below the capacity, and all of it if any has not. *)
LEMMA PlacesFillCapacity ==
    ASSUME WalletWatchAssumption, NEW ws \in [Addresses -> WalletWatches]
    PROVE  LET chosen == {a \in Candidates(ws) : Place(ws, a) < WatchCap} IN
           /\ Cardinality(chosen) <= WatchCap
           /\ Candidates(ws) \ chosen # {} => Cardinality(chosen) = WatchCap
  <1> DEFINE C == Candidates(ws)
             chosen == {a \in C : Place(ws, a) < WatchCap}
             waiting == C \ chosen
  <1>1. /\ WatchCap \in Nat \ {0} /\ IsFiniteSet(C) /\ C \subseteq Addresses
        /\ \A a \in C : Place(ws, a) \in Nat /\ IsFiniteSet(Betters(ws, a))
    BY PlacesTyped DEF WalletWatchAssumption
  <1>2. chosen \in SUBSET C
    OBVIOUS
  <1>3. IsFiniteSet(chosen) /\ Cardinality(chosen) \in Nat
    <2> HIDE DEF chosen, C
    <2>1. QED
      BY <1>1, <1>2, FS_Subset, FS_CardinalityType
  <1>4. Cardinality(chosen) <= WatchCap
    <2>1. CASE chosen = {}
      BY <1>1, <2>1, FS_EmptySet
    <2>2. CASE chosen # {}
      <3> DEFINE places == {Place(ws, a) : a \in chosen}
      <3>1. places \in SUBSET (0..WatchCap) /\ places # {}
        BY <1>1, <2>2
      <3>2. PICK p \in places : \A q \in places : q <= p
        <4> HIDE DEF places
        <4>1. QED
          BY <1>1, <3>1, SetHasMaximum
      <3>3. PICK last \in chosen : Place(ws, last) = p
        BY <3>2
      <3>4. \A a \in chosen : Place(ws, a) <= Place(ws, last)
        BY <3>2, <3>3
      <3>5. chosen \ {last} \subseteq Betters(ws, last)
        <4>1. ASSUME NEW a \in chosen, a # last PROVE a \in Betters(ws, last)
          <5>1. a \in C /\ last \in C /\ a \in Addresses /\ last \in Addresses
            BY <1>1, <4>1
          <5>2. ~Better(ws, last, a)
            <6>1. Place(ws, a) <= Place(ws, last)
              BY <3>4
            <6>2. Place(ws, a) \in Nat /\ Place(ws, last) \in Nat
              BY <1>1, <5>1
            <6>3. ASSUME Better(ws, last, a) PROVE Place(ws, last) < Place(ws, a)
              BY <5>1, <6>3, PlaceGrows
            <6>4. QED
              BY <6>1, <6>2, <6>3
          <5>3. Better(ws, a, last)
            BY <4>1, <5>1, <5>2, BetterIsOrder DEF WalletWatchAssumption
          <5>4. QED
            BY <5>1, <5>3 DEF Betters
        <4>2. QED
          BY <4>1
      <3>6. last \in C /\ Place(ws, last) < WatchCap
        BY <3>3
      <3> HIDE DEF chosen, C
      <3>7. Cardinality(chosen \ {last}) = Cardinality(chosen) - 1
        BY <1>3, <3>3, FS_RemoveElement
      <3>8. Cardinality(chosen \ {last}) <= Place(ws, last)
        BY <1>1, <3>5, <3>6, FS_Subset DEF Place
      <3>9. Place(ws, last) \in Nat
        BY <1>1, <3>6
      <3>10. QED
        BY <1>1, <1>3, <3>6, <3>7, <3>8, <3>9
    <2>3. QED
      BY <2>1, <2>2
  <1>5. ASSUME waiting # {} PROVE Cardinality(chosen) >= WatchCap
    <2> DEFINE places == {Place(ws, a) : a \in waiting}
    <2>1. places \in SUBSET Nat /\ places # {}
      BY <1>1, <1>5
    <2>2. PICK p \in places : \A q \in places : p <= q
      <3> HIDE DEF places
      <3>1. QED
        BY <2>1, SetHasMinimum
    <2>3. PICK first \in waiting : Place(ws, first) = p
      BY <2>2
    <2>4. \A a \in waiting : Place(ws, first) <= Place(ws, a)
      BY <2>2, <2>3
    <2>5. Betters(ws, first) \subseteq chosen
      <3>1. ASSUME NEW a \in Betters(ws, first), a \notin chosen PROVE FALSE
        <4>1. a \in C /\ Better(ws, a, first) /\ first \in C
          BY <3>1, <2>3 DEF Betters
        <4>2. Place(ws, a) < Place(ws, first)
          BY <4>1, PlaceGrows
        <4>3. Place(ws, first) <= Place(ws, a)
          BY <2>4, <3>1, <4>1
        <4>4. QED
          BY <1>1, <4>1, <4>2, <4>3
      <3>2. QED
        BY <3>1
    <2>6. Place(ws, first) >= WatchCap
      BY <1>1, <2>3
    <2>7. Place(ws, first) \in Nat
      BY <1>1, <2>3
    <2> HIDE DEF chosen, C, waiting
    <2>8. Place(ws, first) <= Cardinality(chosen)
      BY <1>3, <2>5, FS_Subset DEF Place
    <2>9. QED
      BY <1>1, <1>3, <2>6, <2>7, <2>8
  <1>6. QED
    <2> HIDE DEF chosen, C
    <2>1. C \ chosen # {} => Cardinality(chosen) = WatchCap
      BY <1>1, <1>3, <1>4, <1>5
    <2>2. QED
      BY <1>4, <2>1 DEF chosen, C

LEMMA RebalancedIsFair ==
    ASSUME WalletWatchAssumption, NEW ws \in [Addresses -> WalletWatches]
    PROVE  Rebalanced(ws) \in [Addresses -> WalletWatches] /\ Fair(Rebalanced(ws))
  <1> DEFINE C == Candidates(ws)
             chosen == {a \in C : Place(ws, a) < WatchCap}
             new == Rebalanced(ws)
  <1>1. new = [a \in Addresses |->
                 IF a \notin C THEN ws[a]
                 ELSE [ws[a] EXCEPT !.status = IF Place(ws, a) < WatchCap THEN "active"
                                                 ELSE "capacity_wait"]]
    BY DEF Rebalanced, Candidates, Place, Betters
  <1>2. /\ WatchCap \in Nat /\ C \subseteq Addresses
        /\ \A a \in C : Place(ws, a) \in Nat
    BY PlacesTyped DEF WalletWatchAssumption
  <1>3. /\ Cardinality(chosen) <= WatchCap
        /\ C \ chosen # {} => Cardinality(chosen) = WatchCap
    BY PlacesFillCapacity
  <1>4. \A a \in Addresses : a \notin C => ws[a].status \in {"none", "paused"}
    BY DEF Candidates, Watched
  <1> HIDE DEF new, C
  <1>5. ASSUME NEW a \in Addresses
        PROVE  /\ new[a] \in WalletWatches /\ new[a].rank = ws[a].rank
               /\ new[a].status = "active" <=> a \in chosen
               /\ new[a].status = "capacity_wait" <=> a \in C \ chosen
    <2>1. ws[a] \in WalletWatches
      OBVIOUS
    <2>2. CASE a \notin C
      <3>1. new[a] = ws[a]
        BY <1>1, <2>2
      <3>2. QED
        BY <1>4, <2>1, <2>2, <3>1
    <2>3. CASE a \in chosen
      <3>1. new[a] = [ws[a] EXCEPT !.status = "active"]
        BY <1>1, <2>3
      <3>2. QED
        BY <2>1, <2>3, <3>1 DEF WalletWatches, WatchStatuses
    <2>4. CASE a \in C \ chosen
      <3>1. new[a] = [ws[a] EXCEPT !.status = "capacity_wait"]
        BY <1>1, <2>4
      <3>2. QED
        BY <2>1, <2>4, <3>1 DEF WalletWatches, WatchStatuses
    <2>5. QED
      BY <2>2, <2>3, <2>4
  <1>6. new \in [Addresses -> WalletWatches]
    BY <1>1, <1>5
  <1>7. Having(new, "active") = chosen /\ Having(new, "capacity_wait") = C \ chosen
    BY <1>2, <1>5 DEF Having
  <1>8. ASSUME NEW a \in C \ chosen, NEW b \in chosen PROVE new[a].rank <= new[b].rank
    <2>1. a \in C /\ b \in C /\ a \in Addresses /\ b \in Addresses
      BY <1>2
    <2>2. ~(Place(ws, a) < Place(ws, b))
      BY <1>2, <2>1
    <2>3. ~Better(ws, a, b)
      BY <2>1, <2>2, PlaceGrows DEF C
    <2>4. ws[a].rank <= ws[b].rank
      BY <2>1, <2>3, BetterIsOrder DEF WalletWatchAssumption
    <2>5. QED
      BY <1>5, <2>1, <2>4
  <1>9. Fair(new)
    <2> HIDE DEF chosen
    <2>1. QED
      BY <1>3, <1>7, <1>8 DEF Fair
  <1>10. QED
    BY <1>6, <1>9 DEF new

LEMMA FairIsCapacity == CapacityFollowsOfficers <=> (~overlapped => Fair(watches))
  BY DEF CapacityFollowsOfficers, Fair, Having

(* The parts of the state that an action of the watchlist leaves alone.      *)
Besides == <<time, caseOpen, traced, confirmed, alerts, extended, cycle>>

LEMMA TimeStays ==
    ASSUME UNCHANGED time
    PROVE  /\ WalletWatches' = WalletWatches /\ Cycles' = Cycles
           /\ WatchChanges' = WatchChanges
  BY DEF WalletWatches, Cycles, WatchChanges

LEMMA WatchesTyped ==
    ASSUME WatchTypeOK, NEW a \in Addresses
    PROVE  watches[a] \in WalletWatches
  BY DEF WatchTypeOK

LEMMA NewWatchTyped ==
    ASSUME time \in Nat, NEW status \in WatchStatuses, NEW rank \in 0..MaxRank, NEW tier \in Tiers,
           NEW at \in Nat
    PROVE  WalletWatch(status, rank, tier, at) \in WalletWatches
  <1>1. PICK z \in 0..time : z = 0
    OBVIOUS
  <1>2. WalletWatch(status, rank, tier, at) =
          [status |-> status, rank |-> rank, tier |-> tier, due |-> at,
           baseline |-> FALSE, last |-> z, moved |-> z]
    BY <1>1 DEF WalletWatch
  <1>3. QED
    BY <1>2 DEF WalletWatches

LEMMA WatchInitInv == WatchInit => WatchInv
  <1> SUFFICES ASSUME WatchInit PROVE WatchInv
    OBVIOUS
  <1>1. MaxRank \in Nat /\ time = 1 /\ time \in 1..MaxWatchTime /\ 0 \in 0..MaxRank /\ 0 \in 0..time
    BY WalletWatchAssumption DEF WatchInit
  <1>2. NoWatch \in WalletWatches /\ NoWatch.status = "none"
    <2>1. NoWatch \in WalletWatches
      BY <1>1, NewWatchTyped DEF NoWatch, WatchStatuses, Tiers
    <2>2. QED
      BY <2>1 DEF NoWatch, WalletWatch
  <1>3. watches \in [Addresses -> WalletWatches] /\ \A a \in Addresses : watches[a] = NoWatch
    BY <1>2 DEF WatchInit
  <1>4. alerts \in [DOMAIN alerts -> WalletAlerts]
    <2>1. alerts = <<>> /\ DOMAIN alerts = {}
      BY DEF WatchInit
    <2>2. alerts = [k \in {} |-> 0]
      BY <2>1
    <2>3. QED
      BY <2>1, <2>2
  <1>5. WatchTypeOK
    BY <1>1, <1>3, <1>4 DEF WatchTypeOK, WatchInit, Cycles
  <1>6. Having(watches, "active") = {} /\ Having(watches, "capacity_wait") = {}
    BY <1>2, <1>3 DEF Having
  <1>7. Fair(watches)
    BY <1>6, FS_EmptySet, WalletWatchAssumption DEF Fair
  <1>8. QED
    BY <1>5, <1>7, FairIsCapacity DEF WatchInv

(* What is written of a row.                                                 *)
LEMMA WrittenTyped ==
    ASSUME NEW row \in WalletWatches, NEW old \in WalletWatches, NEW new \in WalletWatches
    PROVE  /\ Written(row, old, new) \in WalletWatches
           /\ row.status = old.status => Written(row, old, new).status = new.status
           /\ row.rank = old.rank => Written(row, old, new).rank = new.rank
  <1>1. CASE old.status = "none"
    BY <1>1 DEF Written
  <1>2. CASE old.status # "none"
    <2>1. PICK status \in WatchStatuses :
             status = IF new.status = old.status THEN row.status ELSE new.status
      BY DEF WalletWatches
    <2>2. PICK rank \in 0..MaxRank : rank = IF new.rank = old.rank THEN row.rank ELSE new.rank
      BY DEF WalletWatches
    <2>3. PICK tier \in Tiers : tier = IF new.tier = old.tier THEN row.tier ELSE new.tier
      BY DEF WalletWatches
    <2>4. Written(row, old, new) = [row EXCEPT !.status = status, !.rank = rank, !.tier = tier]
      BY <1>2, <2>1, <2>2, <2>3 DEF Written
    <2>5. QED
      BY <2>1, <2>2, <2>4 DEF WalletWatches
  <1>3. QED
    BY <1>1, <1>2

(* A change of the watchlist that ends in its rebalancing.                   *)
LEMMA WatchlistChanges ==
    ASSUME WatchInv, UNCHANGED time,
           NEW loaded \in [Addresses -> WalletWatches], NEW changed \in [Addresses -> WalletWatches],
           watches' = Relisted(loaded, changed), overlapped' = Overlap(loaded)
    PROVE  /\ watches' \in [Addresses -> WalletWatches'] /\ overlapped' \in BOOLEAN
           /\ CapacityFollowsOfficers'
  <1> DEFINE ranked == Rebalanced(changed)
             flushed(a) == Written(watches[a], loaded[a], changed[a])
  <1>1. ranked \in [Addresses -> WalletWatches] /\ Fair(ranked)
    BY WalletWatchAssumption, RebalancedIsFair
  <1> HIDE DEF ranked
  <1>2. ASSUME NEW a \in Addresses
        PROVE  /\ watches'[a] = Written(flushed(a), changed[a], ranked[a])
               /\ watches'[a] \in WalletWatches
               /\ ~Overlap(loaded) => /\ watches'[a].status = ranked[a].status
                                      /\ watches'[a].rank = ranked[a].rank
    <2>1. /\ watches[a] \in WalletWatches /\ loaded[a] \in WalletWatches
          /\ changed[a] \in WalletWatches /\ ranked[a] \in WalletWatches
      BY <1>1, WatchesTyped DEF WatchInv
    <2>2. /\ flushed(a) \in WalletWatches
          /\ watches[a].status = loaded[a].status => flushed(a).status = changed[a].status
          /\ watches[a].rank = loaded[a].rank => flushed(a).rank = changed[a].rank
      BY <2>1, WrittenTyped
    <2>3. watches'[a] = Written(flushed(a), changed[a], ranked[a])
      BY DEF Relisted, ranked
    <2> HIDE DEF flushed
    <2>4. QED
      BY <2>1, <2>2, <2>3, WrittenTyped DEF Overlap
  <1>3. watches' \in [Addresses -> WalletWatches]
    BY <1>2 DEF Relisted
  <1>4. ~Overlap(loaded) => Fair(watches')
    <2> SUFFICES ASSUME ~Overlap(loaded) PROVE Fair(watches')
      OBVIOUS
    <2>1. \A status : Having(watches', status) = Having(ranked, status)
      BY <1>2 DEF Having
    <2>2. \A a \in Addresses : watches'[a].rank = ranked[a].rank
      BY <1>2
    <2>3. \A a \in Having(watches', "capacity_wait"), b \in Having(watches', "active") :
             watches'[a].rank <= watches'[b].rank
      BY <1>1, <2>1, <2>2 DEF Fair, Having
    <2>4. /\ Having(watches', "active") = Having(ranked, "active")
          /\ Having(watches', "capacity_wait") = Having(ranked, "capacity_wait")
      BY <2>1
    <2>5. QED
      BY <1>1, <2>3, <2>4 DEF Fair
  <1>5. CapacityFollowsOfficers'
    BY <1>4 DEF CapacityFollowsOfficers, Fair, Having
  <1>6. Overlap(loaded) \in BOOLEAN
    BY DEF Overlap
  <1>7. QED
    BY <1>3, <1>5, <1>6, TimeStays

(* Nothing that capacity is about changes.                                   *)
LEMMA WatchlistKeeps ==
    ASSUME WatchInv, UNCHANGED overlapped,
           \A a \in Addresses : /\ watches'[a].status = watches[a].status
                                /\ watches'[a].rank = watches[a].rank
    PROVE  CapacityFollowsOfficers'
  <1>0. SUFFICES ASSUME ~overlapped PROVE Fair(watches)'
    BY DEF CapacityFollowsOfficers, Fair, Having
  <1>1. Fair(watches)
    BY <1>0, FairIsCapacity DEF WatchInv
  <1>2. \A s : Having(watches, s)' = Having(watches, s)
    BY DEF Having
  <1>3. Having(watches, "active")' = Having(watches, "active")
        /\ Having(watches, "capacity_wait")' = Having(watches, "capacity_wait")
    BY <1>2
  <1>4. \A a \in Having(watches, "capacity_wait"), b \in Having(watches, "active") :
           watches'[a].rank <= watches'[b].rank
    BY <1>1 DEF Fair, Having
  <1>5. QED
    BY <1>1, <1>3, <1>4 DEF Fair

LEMMA TierForTyped ==
    ASSUME NEW open, NEW a, NEW moved, NEW at
    PROVE  TierFor(open, a, moved, at) \in Tiers
  BY DEF TierFor, Tiers

LEMMA RankIsHighest ==
    ASSUME WatchTypeOK
    PROVE  HighestRank \in 0..MaxRank
  <1> DEFINE ranks == {watches[a].rank : a \in Addresses}
  <1>1. \A a \in Addresses : watches[a].rank \in 0..MaxRank
    BY WatchesTyped DEF WalletWatches
  <1>2. ranks \in SUBSET (0..MaxRank) /\ ranks # {} /\ MaxRank \in Nat
    BY <1>1, WalletWatchAssumption
  <1>3. \E n \in ranks : \A m \in ranks : m <= n
    <2> HIDE DEF ranks
    <2>1. QED
      BY <1>2, SetHasMaximum
  <1>4. HighestRank = CHOOSE n \in ranks : \A a \in Addresses : watches[a].rank <= n
    BY DEF HighestRank
  <1>5. \E n \in ranks : \A a \in Addresses : watches[a].rank <= n
    BY <1>3
  <1>6. HighestRank \in ranks
    BY <1>4, <1>5
  <1>7. QED
    BY <1>2, <1>6

(* The actions of the watchlist leave the other parts well formed.          *)
LEMMA TypeStays ==
    ASSUME WatchTypeOK, UNCHANGED Besides, watches' \in [Addresses -> WalletWatches'],
           change' \in [Officers -> {NoChange} \cup WatchChanges], overlapped' \in BOOLEAN
    PROVE  WatchTypeOK'
  BY TimeStays DEF WatchTypeOK, Besides

LEMMA PrepareStep ==
    ASSUME WatchInv, NEW o \in Officers, NEW a \in Addresses, NEW row \in WalletWatches,
           Prepare(o, a, row)
    PROVE  WatchInv'
  <1>1. /\ WatchTypeOK /\ time \in Nat /\ 0 \in Nat
        /\ watches[a] \in WalletWatches
    BY WatchesTyped, WalletWatchAssumption DEF WatchInv, WatchTypeOK
  <1>2. Read(a) \in WalletWatches
    BY <1>1, NewWatchTyped DEF Read, WalletWatches
  <1>3. UNCHANGED Besides /\ UNCHANGED <<watches, overlapped, time>>
    BY DEF Prepare, Besides
  <1>4. change' \in [Officers -> {NoChange} \cup WatchChanges]
    BY <1>1, <1>2 DEF Prepare, WatchTypeOK, WatchChanges
  <1>5. WatchTypeOK'
    BY <1>1, <1>3, <1>4, TypeStays, TimeStays DEF WatchTypeOK
  <1>6. QED
    BY <1>3, <1>5, WatchlistKeeps DEF WatchInv

LEMMA OfficerStep ==
    ASSUME WatchInv, NEW o \in Officers, NEW a \in Addresses,
           \/ PinManually(o, a) \/ Prioritize(o, a)
           \/ SetPaused(o, a, "paused") \/ SetPaused(o, a, "capacity_wait")
    PROVE  WatchInv'
  <1>0. WatchTypeOK /\ time \in Nat /\ watches[a] \in WalletWatches
    BY WatchesTyped, WalletWatchAssumption DEF WatchInv, WatchTypeOK
  <1>1. Read(a) \in WalletWatches /\ Read(a).status \in WatchStatuses
    <2>1. Read(a) \in WalletWatches
      BY <1>0, NewWatchTyped DEF Read, WalletWatches
    <2>2. QED
      BY <2>1 DEF WalletWatches
  <1>2. HighestRank < MaxRank => HighestRank + 1 \in 0..MaxRank
    BY <1>0, RankIsHighest, WalletWatchAssumption
  <1>3. ASSUME NEW w \in WalletWatches, NEW rank \in 0..MaxRank, NEW status \in WatchStatuses
        PROVE  /\ [w EXCEPT !.rank = rank, !.status = status] \in WalletWatches
               /\ [w EXCEPT !.status = status] \in WalletWatches
    BY DEF WalletWatches
  <1>4. SUFFICES \E row \in WalletWatches : Prepare(o, a, row)
    BY PrepareStep
  <1>5. CASE PinManually(o, a)
    <2>1. PICK rank \in 0..MaxRank : rank = HighestRank + 1
      BY <1>2, <1>5 DEF PinManually
    <2> DEFINE new == WalletWatch("active", rank, TierFor(caseOpen, ReportedAddress, 0, time), time)
               row == IF watches[a].status = "none" THEN new
                      ELSE [Read(a) EXCEPT !.rank = rank, !.status = "active"]
    <2>2. new \in WalletWatches
      BY <1>0, NewWatchTyped, TierForTyped DEF WatchStatuses
    <2>3. row \in WalletWatches
      BY <1>1, <1>3, <2>2 DEF WatchStatuses
    <2>4. Prepare(o, a, row)
      BY <1>5, <2>1 DEF PinManually
    <2>5. QED
      BY <2>3, <2>4
  <1>6. CASE Prioritize(o, a)
    <2>1. PICK rank \in 0..MaxRank : rank = HighestRank + 1
      BY <1>2, <1>6 DEF Prioritize
    <2>2. PICK status \in WatchStatuses :
             status = IF Read(a).status = "paused" THEN "capacity_wait" ELSE Read(a).status
      BY <1>1 DEF WatchStatuses
    <2> DEFINE row == [Read(a) EXCEPT !.rank = rank, !.status = status]
    <2>3. row \in WalletWatches
      BY <1>1, <1>3
    <2>4. [Read(a) EXCEPT !.rank = HighestRank + 1,
                          !.status = IF @ = "paused" THEN "capacity_wait" ELSE @] = row
      BY <1>1, <2>1, <2>2 DEF WalletWatches
    <2>5. Prepare(o, a, row)
      BY <1>6, <2>4 DEF Prioritize
    <2>6. QED
      BY <2>3, <2>5
  <1>7. ASSUME NEW status \in {"paused", "capacity_wait"}, SetPaused(o, a, status)
        PROVE  \E row \in WalletWatches : Prepare(o, a, row)
    <2>1. [Read(a) EXCEPT !.status = status] \in WalletWatches
      BY <1>1 DEF WalletWatches, WatchStatuses
    <2>2. Prepare(o, a, [Read(a) EXCEPT !.status = status])
      BY <1>7 DEF SetPaused
    <2>3. QED
      BY <2>1, <2>2
  <1>8. QED
    BY <1>5, <1>6, <1>7

LEMMA CommitChangeStep ==
    ASSUME WatchInv, NEW o \in Officers, CommitChange(o)
    PROVE  WatchInv'
  <1> DEFINE c == change[o]
             loaded == [watches EXCEPT ![c.address] = c.loaded]
             changed == [watches EXCEPT ![c.address] = c.row]
  <1>0. /\ WatchTypeOK /\ UNCHANGED Besides /\ UNCHANGED time
        /\ watches \in [Addresses -> WalletWatches]
    BY DEF WatchInv, WatchTypeOK, CommitChange, Besides
  <1>1. change' \in [Officers -> {NoChange} \cup WatchChanges]
    BY <1>0 DEF WatchTypeOK, CommitChange
  <1>2. CASE UNCHANGED <<watches, overlapped>>
    <2>1. WatchTypeOK'
      BY <1>0, <1>1, <1>2, TypeStays, TimeStays DEF WatchTypeOK
    <2>2. QED
      BY <1>2, <2>1, WatchlistKeeps DEF WatchInv
  <1>3. CASE watches' = Relisted(loaded, changed) /\ overlapped' = Overlap(loaded)
    <2>1. c \in WatchChanges
      BY <1>0 DEF WatchTypeOK, CommitChange
    <2>2. c.loaded \in WalletWatches /\ c.row \in WalletWatches
      BY <2>1 DEF WatchChanges
    <2> HIDE DEF c
    <2>3. loaded \in [Addresses -> WalletWatches] /\ changed \in [Addresses -> WalletWatches]
      BY <1>0, <2>2
    <2> HIDE DEF loaded, changed
    <2>4. /\ watches' \in [Addresses -> WalletWatches'] /\ overlapped' \in BOOLEAN
          /\ CapacityFollowsOfficers'
      BY <1>0, <1>3, <2>3, WatchlistChanges
    <2>5. QED
      BY <1>0, <1>1, <2>4, TypeStays DEF WatchInv
  <1>4. QED
    BY <1>2, <1>3 DEF CommitChange

(* What is done to alerts, to the case or to the cycle leaves the watchlist. *)
LEMMA WatchlistStays ==
    ASSUME WatchInv, UNCHANGED listVars
    PROVE  CapacityFollowsOfficers'
  BY WatchlistKeeps DEF listVars

LEMMA AlertStep ==
    ASSUME WatchInv, NEW k \in DOMAIN alerts, Transition(k) \/ Snooze(k)
    PROVE  WatchInv'
  <1>0. WatchTypeOK /\ alerts \in [DOMAIN alerts -> WalletAlerts] /\ time \in Nat
    BY WalletWatchAssumption DEF WatchInv, WatchTypeOK
  <1>1. UNCHANGED <<time, caseOpen, traced, confirmed, watches, change, overlapped, extended, cycle>>
    BY DEF Transition, Snooze, listVars
  <1>2. \E alert \in WalletAlerts : alerts' = [alerts EXCEPT ![k] = alert]
    <2>1. CASE Transition(k)
      <3>1. PICK t \in Transitions : alerts' = [alerts EXCEPT ![k] = Alert(t[2])]
        BY <2>1 DEF Transition, SetAlert
      <3>2. t[2] \in {"read", "acknowledged", "dismissed", "resolved"}
        BY <3>1 DEF Transitions
      <3>3. Alert(t[2]) \in WalletAlerts
        BY <3>2 DEF Alert, WalletAlerts
      <3>4. QED
        BY <3>1, <3>3
    <2>2. CASE Snooze(k)
      <3>1. PICK back \in {"unread", "read", "acknowledged"} : back = alerts[k].state
        BY <2>2 DEF Snooze
      <3>2. PICK until \in Nat : until = time + 1
        BY <1>0
      <3>3. alerts' = [alerts EXCEPT ![k] = [state |-> "snoozed", back |-> back, until |-> until]]
        BY <2>2, <3>1, <3>2 DEF Snooze, SetAlert
      <3>4. [state |-> "snoozed", back |-> back, until |-> until] \in WalletAlerts
        BY DEF WalletAlerts
      <3>5. QED
        BY <3>3, <3>4
    <2>3. QED
      BY <2>1, <2>2
  <1>3. alerts' \in [DOMAIN alerts -> WalletAlerts]
    BY <1>0, <1>2
  <1>4. WatchTypeOK'
    <2>1. alerts' \in [DOMAIN alerts' -> WalletAlerts]
      BY <1>3
    <2>2. QED
      BY <1>0, <1>1, <2>1, TimeStays DEF WatchTypeOK
  <1>5. QED
    BY <1>1, <1>4, WatchlistStays DEF WatchInv, listVars

LEMMA StartCycleStep ==
    ASSUME WatchInv, StartCycle
    PROVE  WatchInv'
  <1>0. WatchTypeOK /\ time \in Nat \ {0} /\ UNCHANGED <<time, listVars>>
    BY WalletWatchAssumption DEF WatchInv, WatchTypeOK, StartCycle
  <1>1. cycle' \in Cycles'
    <2>1. /\ time \in 1..time /\ caseOpen \in BOOLEAN /\ traced \in SUBSET Addresses
          /\ watches \in [Addresses -> WalletWatches]
      BY <1>0 DEF WatchTypeOK
    <2>2. [pc |-> "reading", at |-> time, open |-> caseOpen, traced |-> traced,
           loaded |-> watches] \in Cycles
      BY <2>1 DEF Cycles
    <2>3. QED
      BY <2>2, TimeStays DEF StartCycle
  <1>2. WatchTypeOK'
    BY <1>0, <1>1, TimeStays DEF WatchTypeOK, StartCycle, listVars
  <1>3. QED
    BY <1>0, <1>2, WatchlistStays DEF WatchInv

LEMMA SynchronizeStep ==
    ASSUME WatchInv, Synchronize
    PROVE  WatchInv'
  <1> DEFINE loaded == [a \in Addresses |-> Loaded(a)]
             changed == [a \in Addresses |-> Synchronized(a, loaded[a])]
  <1>0. /\ WatchTypeOK /\ time \in Nat /\ cycle.at \in 1..time /\ cycle.at \in Nat
        /\ cycle.loaded \in [Addresses -> WalletWatches]
        /\ UNCHANGED <<time, caseOpen, traced, confirmed, change, alerts, extended>>
    <2>1. WatchTypeOK /\ cycle \in Cycles /\ time \in Nat /\ cycle.pc = "reading"
      BY WalletWatchAssumption DEF WatchInv, WatchTypeOK, Synchronize
    <2>2. cycle \in [pc : {"reading"}, at : 1..time, open : BOOLEAN, traced : SUBSET Addresses,
                     loaded : [Addresses -> WalletWatches]]
      BY <2>1 DEF Cycles, NoCycle
    <2>3. QED
      BY <2>1, <2>2 DEF Synchronize
  <1>1. loaded \in [Addresses -> WalletWatches]
    BY <1>0, WatchesTyped DEF Loaded
  <1> HIDE DEF loaded
  <1>2. ASSUME NEW a \in Addresses, NEW row \in WalletWatches
        PROVE  Synchronized(a, row) \in WalletWatches
    <2>1. \A tier \in Tiers : [row EXCEPT !.tier = tier] \in WalletWatches
      BY DEF WalletWatches
    <2>2. "cold" \in Tiers /\ row.tier \in Tiers
      BY DEF WalletWatches, Tiers
    <2>3. CASE ~cycle.open
      BY <2>1, <2>2, <2>3 DEF Synchronized
    <2>4. CASE cycle.open /\ a \notin cycle.traced
      BY <2>4 DEF Synchronized
    <2>5. CASE cycle.open /\ a \in cycle.traced /\ row.status = "none"
      <3>1. 0 \in 0..MaxRank /\ "active" \in WatchStatuses
        BY WalletWatchAssumption DEF WatchStatuses
      <3>2. QED
        BY <1>0, <2>5, <3>1, TierForTyped, NewWatchTyped DEF Synchronized
    <2>6. CASE cycle.open /\ a \in cycle.traced /\ row.status # "none"
      BY <2>1, <2>2, <2>6, TierForTyped DEF Synchronized
    <2>7. QED
      BY <2>3, <2>4, <2>5, <2>6
  <1>3. changed \in [Addresses -> WalletWatches]
    BY <1>1, <1>2
  <1>4. watches' = Relisted(loaded, changed) /\ overlapped' = Overlap(loaded)
    BY DEF Synchronize, loaded
  <1> HIDE DEF changed
  <1>5. /\ watches' \in [Addresses -> WalletWatches'] /\ overlapped' \in BOOLEAN
        /\ CapacityFollowsOfficers'
    BY <1>0, <1>1, <1>3, <1>4, WatchlistChanges
  <1>6. cycle' \in Cycles'
    <2>1. [pc |-> "releasing", at |-> cycle.at] \in Cycles
      BY <1>0 DEF Cycles
    <2>2. QED
      BY <1>0, <2>1, TimeStays DEF Synchronize
  <1>7. WatchTypeOK'
    BY <1>0, <1>5, <1>6, TimeStays DEF WatchTypeOK
  <1>8. QED
    BY <1>5, <1>7 DEF WatchInv

LEMMA CycleTyped ==
    ASSUME WatchTypeOK, cycle.pc # "idle"
    PROVE  /\ cycle.at \in 1..time /\ time \in Nat /\ cycle.at \in Nat
           /\ cycle.pc \in {"polling", "fetching"} =>
                 /\ cycle \in [pc : {"polling", "fetching"}, at : 1..time,
                               queue : Seq(Addresses) \ {<<>>}]
                 /\ Polled \in Addresses
  <1>1. cycle \in Cycles /\ time \in Nat
    BY WalletWatchAssumption DEF WatchTypeOK
  <1>2. \/ cycle \in [pc : {"reading"}, at : 1..time, open : BOOLEAN, traced : SUBSET Addresses,
                      loaded : [Addresses -> WalletWatches]]
        \/ cycle \in [pc : {"releasing"}, at : 1..time]
        \/ cycle \in [pc : {"polling", "fetching"}, at : 1..time, queue : Seq(Addresses) \ {<<>>}]
    BY <1>1 DEF Cycles, NoCycle
  <1>3. QED
    BY <1>1, <1>2 DEF Polled

LEMMA QueueTyped ==
    ASSUME WatchTypeOK, Due # {}, PollLimit # 0, NEW queue \in FirstDue
    PROVE  queue \in Seq(Addresses) \ {<<>>}
  <1> DEFINE n == Cardinality(Due)
             m == IF n <= PollLimit THEN n ELSE PollLimit
  <1>1. Due \in SUBSET Addresses
    BY DEF Due
  <1>2. IsFiniteSet(Due) /\ n \in Nat /\ n # 0
    BY <1>1, WalletWatchAssumption, FS_Subset, FS_EmptySet, FS_CardinalityType
  <1>3. m \in Nat /\ m >= 1
    BY <1>2, WalletWatchAssumption
  <1>4. queue \in [1..m -> Due]
    BY DEF FirstDue
  <1> HIDE DEF m
  <1>5. queue \in [1..m -> Addresses]
    BY <1>1, <1>4
  <1>6. queue \in Seq(Addresses) /\ Len(queue) = m
    BY <1>3, <1>5
  <1>7. QED
    BY <1>3, <1>6

LEMMA ReleaseStep ==
    ASSUME WatchInv, ReleaseAndSelect
    PROVE  WatchInv'
  <1>0. WatchTypeOK /\ alerts \in [DOMAIN alerts -> WalletAlerts]
    BY DEF WatchInv, WatchTypeOK
  <1>1. cycle.at \in 1..time
    BY <1>0, CycleTyped DEF ReleaseAndSelect
  <1>2. alerts' \in [DOMAIN alerts' -> WalletAlerts]
    <2>1. ASSUME NEW k \in DOMAIN alerts, alerts[k].state = "snoozed"
          PROVE  Alert(alerts[k].back) \in WalletAlerts
      <3>1. alerts[k] \in WalletAlerts
        BY <1>0
      <3>2. alerts[k].back \in {"unread", "read", "acknowledged"}
        BY <2>1, <3>1 DEF WalletAlerts
      <3>3. QED
        BY <3>2 DEF Alert, WalletAlerts
    <2>2. DOMAIN alerts' = DOMAIN alerts
      BY DEF ReleaseAndSelect
    <2>3. QED
      BY <1>0, <2>1, <2>2 DEF ReleaseAndSelect
  <1>3. cycle' \in Cycles
    <2>1. CASE Due = {} \/ PollLimit = 0
      BY <2>1 DEF ReleaseAndSelect, Cycles
    <2>2. CASE ~(Due = {} \/ PollLimit = 0)
      <3>1. PICK queue \in FirstDue :
               cycle' = [pc |-> "polling", at |-> cycle.at, queue |-> queue]
        BY <2>2 DEF ReleaseAndSelect
      <3>2. queue \in Seq(Addresses) \ {<<>>}
        BY <1>0, <2>2, QueueTyped
      <3>3. QED
        BY <1>1, <3>1, <3>2 DEF Cycles
    <2>3. QED
      BY <2>1, <2>2
  <1>4. WatchTypeOK'
    BY <1>0, <1>2, <1>3, TimeStays DEF WatchTypeOK, ReleaseAndSelect, listVars
  <1>5. QED
    BY <1>4, WatchlistStays DEF WatchInv, ReleaseAndSelect

LEMMA RestTyped ==
    ASSUME WatchTypeOK, cycle.pc = "fetching"
    PROVE  Rest(cycle.queue) \in Cycles
  <1>1. cycle.at \in 1..time /\ cycle.queue \in Seq(Addresses) /\ cycle.queue # <<>>
    BY CycleTyped
  <1>2. CASE Len(cycle.queue) = 1
    BY <1>2 DEF Rest, Cycles
  <1>3. CASE Len(cycle.queue) # 1
    <2>1. ASSUME NEW queue \in Seq(Addresses), queue # <<>>, Len(queue) # 1
          PROVE  Tail(queue) \in Seq(Addresses) \ {<<>>}
      <3>1. Len(queue) \in Nat /\ Len(queue) # 0
        BY <2>1
      <3>2. Tail(queue) \in Seq(Addresses) /\ Len(Tail(queue)) = Len(queue) - 1
        BY <2>1, <3>1
      <3>3. Len(Tail(queue)) # 0
        BY <2>1, <3>1, <3>2
      <3>4. Len(<<>>) = 0
        OBVIOUS
      <3>5. QED
        BY <3>2, <3>3, <3>4, Zenon
    <2>2. QED
      BY <1>1, <1>3, <2>1 DEF Rest, Cycles
  <1>4. QED
    BY <1>2, <1>3

LEMMA DueTyped ==
    ASSUME NEW t \in Nat, NEW tier \in Tiers
    PROVE  DueAfter(t, tier) \in Nat
  BY TierOrders, WalletWatchAssumption DEF DueAfter

LEMMA NewestTyped ==
    ASSUME NEW t \in Nat, NEW none \in 0..t, NEW events,
           \A e \in events : e.ts \in 0..t
    PROVE  NewestTime(events, none) \in 0..t
  <1> DEFINE times == {e.ts : e \in events}
  <1>1. CASE events = {}
    BY <1>1 DEF NewestTime
  <1>2. CASE events # {}
    <2>1. times \in SUBSET (0..t) /\ times # {}
      BY <1>2
    <2>2. \E n \in times : \A m \in times : m <= n
      <3> HIDE DEF times
      <3>1. QED
        BY <2>1, SetHasMaximum
    <2>3. \E n \in times : \A e \in events : e.ts <= n
      BY <2>2
    <2>4. NewestTime(events, none) = CHOOSE n \in times : \A e \in events : e.ts <= n
      BY <1>2 DEF NewestTime
    <2>5. NewestTime(events, none) \in times
      BY <2>3, <2>4
    <2>6. QED
      BY <2>1, <2>5
  <1>3. QED
    BY <1>1, <1>2

LEMMA ObservedTyped ==
    ASSUME WatchTypeOK, cycle.pc = "fetching", NEW a
    PROVE  /\ Observed(a) \subseteq confirmed /\ New(a) \subseteq Observed(a)
           /\ \A e \in Observed(a) : e.ts \in 0..time
  <1>1. cycle.at \in 1..time /\ time \in Nat /\ cycle.at \in Nat
    BY CycleTyped
  <1>2. \A e \in confirmed : e.ts \in Nat
    BY WalletWatchAssumption DEF WatchTypeOK
  <1>3. QED
    BY <1>1, <1>2 DEF Observed, New

LEMMA PolledWatchTyped ==
    ASSUME WatchTypeOK, cycle.pc = "fetching", NEW a \in Addresses
    PROVE  /\ PolledWatch(a) \in WalletWatches
           /\ PolledWatch(a).status = watches[a].status /\ PolledWatch(a).rank = watches[a].rank
  <1>1. cycle.at \in Nat /\ time \in Nat
    BY CycleTyped
  <1>2. /\ watches[a] \in WalletWatches /\ watches[a].last \in 0..time
        /\ watches[a].moved \in 0..time /\ watches[a].tier \in Tiers
    BY WatchesTyped DEF WalletWatches
  <1>3. \A e \in New(a) : e.ts \in 0..time
    BY ObservedTyped
  <1>4. NewestTime(New(a), 0) \in 0..time
    <2>1. 0 \in 0..time
      BY <1>1
    <2>2. QED
      BY <1>1, <1>3, <2>1, NewestTyped
  <1>5. NewestTime(Observed(a), watches[a].last) \in 0..time
    BY <1>1, <1>2, ObservedTyped, NewestTyped
  <1> DEFINE tier == IF New(a) # {} THEN "hot" ELSE watches[a].tier
             moved == IF NewestTime(New(a), 0) > watches[a].moved THEN NewestTime(New(a), 0)
                      ELSE watches[a].moved
             last == NewestTime(Observed(a), watches[a].last)
             due == DueAfter(cycle.at, tier)
  <1>6. tier \in Tiers /\ moved \in 0..time /\ last \in 0..time /\ due \in Nat
    <2>1. tier \in Tiers
      BY <1>2 DEF Tiers
    <2>2. QED
      BY <1>1, <1>2, <1>4, <1>5, <2>1, DueTyped
  <1>7. PolledWatch(a) = [watches[a] EXCEPT !.baseline = TRUE, !.moved = moved, !.tier = tier,
                                            !.last = last, !.due = due]
    BY <1>2 DEF PolledWatch, WalletWatches
  <1> HIDE DEF tier, moved, last, due
  <1>8. QED
    BY <1>2, <1>6, <1>7 DEF WalletWatches

LEMMA PollEndsTyped ==
    ASSUME WatchInv, cycle.pc = "fetching", NEW row \in WalletWatches,
           row.status = watches[Polled].status, row.rank = watches[Polled].rank,
           watches' = [watches EXCEPT ![Polled] = row], UNCHANGED <<time, overlapped>>
    PROVE  watches' \in [Addresses -> WalletWatches'] /\ CapacityFollowsOfficers'
  <1>1. Polled \in Addresses /\ watches \in [Addresses -> WalletWatches]
    BY CycleTyped DEF WatchInv, WatchTypeOK
  <1>2. watches' \in [Addresses -> WalletWatches]
    BY <1>1
  <1>3. \A a \in Addresses : /\ watches'[a].status = watches[a].status
                             /\ watches'[a].rank = watches[a].rank
    BY <1>1
  <1>4. QED
    BY <1>2, <1>3, WatchlistKeeps, TimeStays

LEMMA PollSucceedsStep ==
    ASSUME WatchInv, PollSucceeds
    PROVE  WatchInv'
  <1> DEFINE hits == {e \in New(Polled) : Triggers(Polled, e)}
  <1>0. WatchTypeOK /\ cycle.pc = "fetching" /\ Polled \in Addresses
        /\ UNCHANGED <<time, overlapped>>
    BY CycleTyped DEF WatchInv, PollSucceeds
  <1>1. watches' \in [Addresses -> WalletWatches'] /\ CapacityFollowsOfficers'
    <2>1. watches' = [watches EXCEPT ![Polled] = PolledWatch(Polled)]
      BY DEF PollSucceeds
    <2>2. QED
      BY <1>0, <2>1, PolledWatchTyped, PollEndsTyped
  <1>2. hits \subseteq confirmed
    BY <1>0, ObservedTyped
  <1>3. extended' \subseteq confirmed'
    <2>1. extended' = extended \cup hits /\ confirmed' = confirmed
      BY DEF PollSucceeds
    <2> HIDE DEF hits
    <2>2. QED
      BY <1>0, <1>2, <2>1 DEF WatchTypeOK
  <1>4. alerts' \in [DOMAIN alerts' -> WalletAlerts]
    <2> DEFINE raised == DOMAIN alerts \cup {<<Polled, e>> : e \in hits}
    <2>1. alerts' = [k \in raised |-> IF k \in DOMAIN alerts THEN alerts[k] ELSE Alert("unread")]
      BY DEF PollSucceeds
    <2>2. Alert("unread") \in WalletAlerts
      BY DEF Alert, WalletAlerts
    <2>3. alerts \in [DOMAIN alerts -> WalletAlerts]
      BY <1>0 DEF WatchTypeOK
    <2> HIDE DEF raised
    <2>4. QED
      BY <2>1, <2>2, <2>3
  <1>5. cycle' \in Cycles
    BY <1>0, RestTyped DEF PollSucceeds
  <1>6. WatchTypeOK'
    BY <1>0, <1>1, <1>3, <1>4, <1>5, TimeStays DEF WatchTypeOK, PollSucceeds
  <1>7. QED
    BY <1>1, <1>6 DEF WatchInv

LEMMA PollDeferredStep ==
    ASSUME WatchInv, PollDeferred
    PROVE  WatchInv'
  <1> DEFINE due == DueAfter(cycle.at, watches[Polled].tier)
             row == [watches[Polled] EXCEPT !.due = due]
  <1>0. /\ WatchTypeOK /\ cycle.pc = "fetching" /\ UNCHANGED <<time, overlapped>>
        /\ Polled \in Addresses /\ cycle.at \in Nat /\ watches[Polled] \in WalletWatches
    BY CycleTyped, WatchesTyped DEF WatchInv, PollDeferred
  <1>1. due \in Nat
    BY <1>0, DueTyped DEF WalletWatches
  <1>2. watches' = [watches EXCEPT ![Polled] = row]
    BY DEF PollDeferred
  <1> HIDE DEF due
  <1>3. /\ row \in WalletWatches /\ row.status = watches[Polled].status
        /\ row.rank = watches[Polled].rank
    BY <1>0, <1>1 DEF WalletWatches
  <1> HIDE DEF row
  <1>4. watches' \in [Addresses -> WalletWatches'] /\ CapacityFollowsOfficers'
    BY <1>0, <1>2, <1>3, PollEndsTyped
  <1>5. cycle' \in Cycles
    BY <1>0, RestTyped DEF PollDeferred
  <1>6. WatchTypeOK'
    BY <1>0, <1>4, <1>5, TimeStays DEF WatchTypeOK, PollDeferred
  <1>7. QED
    BY <1>4, <1>6 DEF WatchInv

LEMMA OtherPollSteps ==
    ASSUME WatchInv, BeginPoll \/ PollRaises \/ SynchronizeRaises
    PROVE  WatchInv'
  <1>0. WatchTypeOK /\ UNCHANGED <<time, caseOpen, traced, confirmed, listVars, alerts, extended>>
    BY DEF WatchInv, BeginPoll, PollRaises, SynchronizeRaises
  <1>1. cycle' \in Cycles
    <2>1. NoCycle \in Cycles
      BY DEF Cycles
    <2>2. ASSUME cycle.pc = "polling" PROVE [cycle EXCEPT !.pc = "fetching"] \in Cycles
      <3>1. cycle \in [pc : {"polling", "fetching"}, at : 1..time, queue : Seq(Addresses) \ {<<>>}]
        BY <1>0, <2>2, CycleTyped
      <3>2. [cycle EXCEPT !.pc = "fetching"]
              \in [pc : {"polling", "fetching"}, at : 1..time, queue : Seq(Addresses) \ {<<>>}]
        BY <3>1
      <3>3. QED
        BY <3>2 DEF Cycles
    <2>3. QED
      BY <2>1, <2>2 DEF BeginPoll, PollRaises, SynchronizeRaises
  <1>2. WatchTypeOK'
    BY <1>0, <1>1, TimeStays DEF WatchTypeOK, listVars
  <1>3. QED
    BY <1>0, <1>2, WatchlistStays DEF WatchInv

LEMMA WorldStep ==
    ASSUME WatchInv, Confirm \/ TraceEnds \/ CloseCase
    PROVE  WatchInv'
  <1>0. WatchTypeOK /\ UNCHANGED <<time, listVars, alerts, extended, cycle>>
    BY DEF WatchInv, Confirm, TraceEnds, CloseCase
  <1>1. /\ caseOpen' \in BOOLEAN /\ traced' \subseteq Addresses
        /\ confirmed' \subseteq Transfers /\ confirmed \subseteq confirmed'
    BY <1>0, WalletWatchAssumption DEF WatchTypeOK, Confirm, TraceEnds, CloseCase
  <1>2. WatchTypeOK'
    BY <1>0, <1>1, TimeStays DEF WatchTypeOK, listVars
  <1>3. QED
    BY <1>0, <1>2, WatchlistStays DEF WatchInv

LEMMA WatchTickStep ==
    ASSUME WatchInv, WatchTick
    PROVE  WatchInv'
  <1>0. /\ WatchTypeOK /\ watches \in [Addresses -> WalletWatches] /\ cycle \in Cycles
        /\ change \in [Officers -> {NoChange} \cup WatchChanges]
        /\ UNCHANGED <<caseOpen, traced, confirmed, listVars, alerts, extended, cycle>>
    BY DEF WatchInv, WatchTypeOK, WatchTick
  <1>1. time' \in 1..MaxWatchTime /\ 0..time \subseteq 0..time' /\ 1..time \subseteq 1..time'
    BY <1>0, WalletWatchAssumption DEF WatchTypeOK, WatchTick
  <1>2. WalletWatches \subseteq WalletWatches'
    BY <1>1 DEF WalletWatches
  <1>3. [Addresses -> WalletWatches] \subseteq [Addresses -> WalletWatches']
    BY <1>2
  <1>4. WatchTypeOK'
    <2>1. Cycles \subseteq Cycles'
      BY <1>1, <1>3 DEF Cycles
    <2>2. WatchChanges \subseteq WatchChanges'
      BY <1>2 DEF WatchChanges
    <2>3. change' \in [Officers -> {NoChange} \cup WatchChanges'] /\ cycle' \in Cycles'
      BY <1>0, <2>1, <2>2 DEF listVars
    <2>4. watches' \in [Addresses -> WalletWatches']
      BY <1>0, <1>3 DEF listVars
    <2>5. QED
      BY <1>0, <1>1, <2>3, <2>4 DEF WatchTypeOK, listVars
  <1>5. QED
    BY <1>0, <1>4, WatchlistStays DEF WatchInv

LEMMA WatchStep == WatchInv /\ [WatchNext]_watchVars => WatchInv'
  <1> SUFFICES ASSUME WatchInv, [WatchNext]_watchVars PROVE WatchInv'
    OBVIOUS
  <1>1. CASE UNCHANGED watchVars
    <2>1. WatchTypeOK'
      BY <1>1, TimeStays DEF watchVars, WatchInv, WatchTypeOK
    <2>2. QED
      BY <1>1, <2>1, WatchlistStays DEF WatchInv, watchVars, listVars
  <1>2. CASE WatchNext
    BY <1>2, OfficerStep, CommitChangeStep, AlertStep, StartCycleStep, SynchronizeStep, ReleaseStep,
       OtherPollSteps,
       PollSucceedsStep, PollDeferredStep, WorldStep, WatchTickStep DEF WatchNext
  <1>3. QED
    BY <1>1, <1>2

(* watch.py: watches, alerts, extensions and the cycle stay well formed; in  *)
(* particular no cursor is ahead of the clock.                               *)
THEOREM WatchTypeCorrect == WatchSpec => []WatchTypeOK
  <1>1. WatchInv => WatchTypeOK
    BY DEF WatchInv
  <1>2. QED
    BY <1>1, WatchInitInv, WatchStep, PTL DEF WatchSpec

(* _rebalance_watchlist and its callers: for every number of wallets and     *)
(* requests and every capacity, the last change that met no other half way   *)
(* left the capacity used up before a watch waits and not exceeded, and no   *)
(* watch that waits ranked above one that is polled; whatever changes that   *)
(* overlapped had left before, and whatever was polled since.                *)
THEOREM CapacityIsFair == WatchSpec => []CapacityFollowsOfficers
  <1>1. WatchInv => CapacityFollowsOfficers
    BY DEF WatchInv
  <1>2. QED
    BY <1>1, WatchInitInv, WatchStep, PTL DEF WatchSpec

-----------------------------------------------------------------------------
(* Narratives.  The rows after an insertion: the new one at the end, and the *)
(* one it supersedes.                                                        *)
LEMMA InsertedRows ==
    ASSUME NarrativeAssumption, NarrativesTypeOK, NEW source \in Sources, NEW text \in Texts
    PROVE  /\ Inserted(source, text) \in Seq(Rows)
           /\ Len(Inserted(source, text)) = Len(narratives) + 1
           /\ Inserted(source, text)[Len(narratives) + 1] = ComplaintNarrative(source, text)
           /\ \A i \in NarrativeIds :
                 Inserted(source, text)[i] =
                    IF i \in Previous(source)
                    THEN [narratives[i] EXCEPT !.supersededBy = Len(narratives) + 1]
                    ELSE narratives[i]
  <1> DEFINE n == Len(narratives)
             olds == Superseded(source, n + 1)
             row == ComplaintNarrative(source, text)
  <1>1. n \in Nat /\ NarrativeIds = 1..n /\ narratives \in Seq(Rows)
    BY DEF NarrativesTypeOK, NarrativeIds
  <1>2. row \in Rows
    BY DEF NarrativesTypeOK, ComplaintNarrative, Rows
  <1>3. \A i \in NarrativeIds : narratives[i] \in Rows
    BY <1>1
  <1>4. \A i \in NarrativeIds : [narratives[i] EXCEPT !.supersededBy = n + 1] \in Rows
    <2>1. ASSUME NEW r \in Rows, NEW k \in Nat
          PROVE  [r EXCEPT !.supersededBy = k] \in Rows
      BY DEF Rows
    <2>2. n + 1 \in Nat
      BY <1>1
    <2>3. QED
      BY <2>1, <2>2, <1>3, Zenon
  <1>5. olds \in [1..n -> Rows]
    BY <1>1, <1>3, <1>4 DEF Superseded
  <1>6. olds \in Seq(Rows) /\ Len(olds) = n
    BY <1>5, <1>1
  <1>7. \A i \in NarrativeIds :
           olds[i] = IF i \in Previous(source)
                     THEN [narratives[i] EXCEPT !.supersededBy = n + 1] ELSE narratives[i]
    BY DEF Superseded
  <1>8. Inserted(source, text) = Append(olds, row)
    BY DEF Inserted
  <1> HIDE DEF olds, row
  <1>9. /\ Append(olds, row) \in Seq(Rows) /\ Len(Append(olds, row)) = n + 1
        /\ Append(olds, row)[n + 1] = row
        /\ \A i \in 1..n : Append(olds, row)[i] = olds[i]
    BY <1>2, <1>6, Appended
  <1>10. QED
    BY <1>1, <1>7, <1>8, <1>9 DEF row

(* One narrative of a source is current, said without counting.             *)
LEMMA CurrentIsOne ==
    ASSUME NarrativesTypeOK, NEW source
    PROVE  Cardinality(Current(source)) = 1 <=> \E k : Current(source) = {k}
  <1>1. IsFiniteSet(NarrativeIds)
    BY FS_Interval DEF NarrativesTypeOK, NarrativeIds
  <1>2. IsFiniteSet(Current(source))
    BY <1>1, FS_Subset DEF Current
  <1>3. QED
    BY <1>2, FS_Singleton

LEMMA NarrativesInitInv == NarrativeAssumption /\ NarrativesInit => NarrativesInv
  <1> SUFFICES ASSUME NarrativeAssumption, NarrativesInit PROVE NarrativesInv
    OBVIOUS
  <1>1. narratives \in Seq(Rows) /\ Len(narratives) = 0 /\ NarrativeIds = {}
    BY DEF NarrativesInit, NarrativeIds
  <1>2. NarrativesTypeOK
    BY <1>1 DEF NarrativesTypeOK, NarrativesInit, NarrativeAssumption
  <1>3. OneCurrentNarrative
    BY <1>1 DEF OneCurrentNarrative
  <1>4. FileBeforeRow /\ ReviewedIsAssessed
    BY DEF FileBeforeRow, ReviewedIsAssessed, NarrativesInit, NoIntake, Request
  <1>5. QED
    BY <1>2, <1>3, <1>4 DEF NarrativesInv

(* The requests in flight, by what they are at.                             *)
LEMMA IntakeTyped ==
    ASSUME NarrativesTypeOK, NEW r \in Intakes
    PROVE  /\ intake[r].pc \in {"check", "open", "write", "insert"} => intake[r] \in Deliveries
           /\ intake[r].pc = "assess" => intake[r] \in Assessing
           /\ intake[r].pc = "review" => intake[r] \in Reviewing
  <1>1. intake[r] \in {NoIntake} \cup Deliveries \cup Assessing \cup Reviewing
    BY DEF NarrativesTypeOK
  <1>2. NoIntake.pc = "idle"
    BY DEF NoIntake, Request
  <1>3. intake[r] \in Deliveries => intake[r].pc \in {"check", "open", "write", "insert"}
    BY DEF Deliveries
  <1>4. intake[r] \in Assessing => intake[r].pc = "assess"
    BY DEF Assessing
  <1>5. intake[r] \in Reviewing => intake[r].pc = "review"
    BY DEF Reviewing
  <1>6. QED
    BY <1>1, <1>2, <1>3, <1>4, <1>5

(* Where the rows, reviews and revisions stay and no file disappears, a      *)
(* request that goes on as its program lets it keeps the invariant.          *)
Allowed(q) ==
    /\ q \in {NoIntake} \cup Deliveries \cup Assessing \cup Reviewing
    /\ q.pc \in {"write", "insert"} => artifact'[q.text] # "absent"
    /\ q.pc = "review" => q.of \in narratives[q.id].assessed

FilesStay ==
    /\ artifact' \in [Texts -> {"absent", "torn", "whole"}]
    /\ \A x \in Texts : artifact[x] # "absent" => artifact'[x] # "absent"

LEMMA DeliveryText ==
    ASSUME NarrativesTypeOK, NEW r \in Intakes, intake[r].pc \in {"check", "open", "write", "insert"}
    PROVE  intake[r].text \in Texts /\ intake[r].source \in Sources
  <1>1. intake[r] \in Deliveries
    BY IntakeTyped
  <1>2. QED
    BY <1>1 DEF Deliveries

LEMMA CurrentStays ==
    ASSUME NarrativesTypeOK, OneCurrentNarrative, FilesStay, narratives' = narratives
    PROVE  OneCurrentNarrative'
  <1>1. \A i \in NarrativeIds : narratives[i].text \in Texts
    <2>1. \A i \in NarrativeIds : narratives[i] \in Rows
      BY DEF NarrativesTypeOK, NarrativeIds
    <2>2. QED
      BY <2>1 DEF Rows
  <1>2. NarrativeIds' = NarrativeIds
    BY DEF NarrativeIds
  <1>3. \A s : Current(s)' = Current(s)
    BY <1>2 DEF Current
  <1>4. \A s, x : Stored(s, x)' = Stored(s, x)
    BY <1>2 DEF Stored
  <1>5. \A i, j \in NarrativeIds' :
           j \in Stored(narratives[i].source, narratives[i].text)' => i = j
    <2>1. \A i, j \in NarrativeIds :
             j \in Stored(narratives[i].source, narratives[i].text) => i = j
      BY DEF OneCurrentNarrative
    <2>2. ASSUME NEW i \in NarrativeIds
          PROVE  Stored(narratives[i].source, narratives[i].text)' =
                   Stored(narratives[i].source, narratives[i].text)
      BY <1>2 DEF Stored
    <2>3. QED
      BY <1>2, <2>1, <2>2
  <1>6. ASSUME NEW i \in NarrativeIds'
        PROVE  /\ Cardinality(Current(narratives[i].source)') = 1
               /\ narratives'[i].supersededBy # 0 =>
                    /\ narratives'[i].supersededBy > i
                    /\ narratives'[narratives'[i].supersededBy].source = narratives'[i].source
               /\ narratives'[i].assessed # {} /\ artifact'[narratives'[i].text] # "absent"
    <2>1. i \in NarrativeIds
      BY <1>2
    <2>2. Cardinality(Current(narratives[i].source)) = 1
      BY <2>1 DEF OneCurrentNarrative
    <2>3. QED
      BY <1>1, <1>3, <2>1, <2>2 DEF OneCurrentNarrative, FilesStay
  <1>7. QED
    BY <1>5, <1>6 DEF OneCurrentNarrative, Current, Stored, NarrativeIds

LEMMA IntakeMoves ==
    ASSUME NarrativesInv, FilesStay, UNCHANGED <<narratives, reviews, revision>>,
           NEW r \in Intakes, NEW q, Allowed(q), intake' = [intake EXCEPT ![r] = q]
    PROVE  NarrativesInv'
  <1>0. NarrativesTypeOK /\ OneCurrentNarrative /\ FileBeforeRow /\ ReviewedIsAssessed
    BY DEF NarrativesInv
  <1>1. NarrativeIds' = NarrativeIds
    BY DEF NarrativeIds
  <1>2. Assessing' = Assessing /\ Reviewing' = Reviewing
    BY <1>1 DEF Assessing, Reviewing
  <1>3. /\ intake' \in [Intakes -> {NoIntake} \cup Deliveries \cup Assessing \cup Reviewing]
        /\ \A p \in Intakes : intake'[p] = IF p = r THEN q ELSE intake[p]
    BY <1>0 DEF NarrativesTypeOK, Allowed
  <1>4. NarrativesTypeOK'
    BY <1>0, <1>1, <1>2, <1>3 DEF NarrativesTypeOK, FilesStay
  <1>5. OneCurrentNarrative'
    BY <1>0, CurrentStays
  <1>6. FileBeforeRow'
    <2>1. ASSUME NEW p \in Intakes, intake[p].pc \in {"write", "insert"}
          PROVE  artifact'[intake[p].text] # "absent"
      <3>1. intake[p].text \in Texts
        BY <1>0, <2>1, DeliveryText
      <3>2. QED
        BY <1>0, <2>1, <3>1 DEF FileBeforeRow, FilesStay
    <2>2. QED
      BY <1>3, <2>1 DEF FileBeforeRow, Allowed
  <1>7. ReviewedIsAssessed'
    BY <1>0, <1>3 DEF ReviewedIsAssessed, Allowed
  <1>8. QED
    BY <1>4, <1>5, <1>6, <1>7 DEF NarrativesInv

(* Rows that only grow keep what requests and reviews know of them.          *)
LEMMA RowsGrow ==
    ASSUME NarrativesInv, UNCHANGED <<reviews, artifact, revision>>,
           NEW r \in Intakes, intake' = [intake EXCEPT ![r] = NoIntake],
           narratives' \in Seq(Rows), Len(narratives') <= MaxNarratives,
           \A i \in NarrativeIds' : narratives'[i].supersededBy <= Len(narratives'),
           NarrativeIds \subseteq NarrativeIds',
           \A i \in NarrativeIds : narratives[i].assessed \subseteq narratives'[i].assessed
    PROVE  NarrativesTypeOK' /\ FileBeforeRow' /\ ReviewedIsAssessed'
  <1>0. NarrativesTypeOK /\ FileBeforeRow /\ ReviewedIsAssessed
    BY DEF NarrativesInv
  <1>1. Assessing \subseteq Assessing' /\ Reviewing \subseteq Reviewing'
    BY DEF Assessing, Reviewing
  <1>2. NoIntake.pc = "idle"
    BY DEF NoIntake, Request
  <1>3. /\ intake' \in [Intakes -> {NoIntake} \cup Deliveries \cup Assessing' \cup Reviewing']
        /\ \A p \in Intakes : intake'[p] = IF p = r THEN NoIntake ELSE intake[p]
    BY <1>0, <1>1 DEF NarrativesTypeOK
  <1>4. reviews' \subseteq [id : NarrativeIds', of : 1..MaxRevision]
    <2>1. reviews \subseteq [id : NarrativeIds, of : 1..MaxRevision]
      BY <1>0 DEF NarrativesTypeOK
    <2>2. [id : NarrativeIds, of : 1..MaxRevision] \subseteq [id : NarrativeIds', of : 1..MaxRevision]
      OBVIOUS
    <2>3. QED
      BY <2>1, <2>2
  <1>5. \A v \in reviews' : v.of \in narratives'[v.id].assessed
    <2>1. ASSUME NEW v \in reviews PROVE v.id \in NarrativeIds /\ v.of \in narratives[v.id].assessed
      <3>1. v \in [id : NarrativeIds, of : 1..MaxRevision]
        BY <1>0 DEF NarrativesTypeOK
      <3>2. QED
        BY <1>0, <3>1 DEF NarrativesTypeOK
    <2>2. QED
      BY <2>1
  <1>6. NarrativesTypeOK'
    BY <1>0, <1>3, <1>4, <1>5 DEF NarrativesTypeOK
  <1>7. FileBeforeRow'
    BY <1>0, <1>2, <1>3 DEF FileBeforeRow
  <1>8. ReviewedIsAssessed'
    <2>1. ASSUME NEW p \in Intakes, intake[p].pc = "review"
          PROVE  intake[p].id \in NarrativeIds
      <3>1. intake[p] \in Reviewing
        BY <1>0, <2>1, IntakeTyped
      <3>2. QED
        BY <3>1 DEF Reviewing
    <2>2. QED
      BY <1>0, <1>2, <1>3, <2>1 DEF ReviewedIsAssessed
  <1>9. QED
    BY <1>6, <1>7, <1>8

(* The row of a text that was not stored becomes the current one of its      *)
(* source, and the only one.                                                 *)
LEMMA InsertedStep ==
    ASSUME NarrativeAssumption, NarrativesInv, NEW r \in Intakes, NEW source \in Sources,
           NEW text \in Texts, Stored(source, text) = {}, artifact[text] # "absent",
           Len(narratives) < MaxNarratives,
           narratives' = Inserted(source, text), UNCHANGED <<reviews, artifact, revision>>,
           intake' = [intake EXCEPT ![r] = NoIntake]
    PROVE  NarrativesInv'
  <1> DEFINE n == Len(narratives)
  <1>0. NarrativesTypeOK /\ OneCurrentNarrative
    BY DEF NarrativesInv
  <1>1. n \in Nat /\ NarrativeIds = 1..n /\ narratives \in Seq(Rows)
    BY <1>0 DEF NarrativesTypeOK, NarrativeIds
  <1>2. narratives' \in Seq(Rows) /\ Len(narratives') = n + 1 /\ NarrativeIds' = 1..(n + 1)
    BY <1>0, <1>1, InsertedRows DEF NarrativeIds
  <1>3. /\ narratives'[n + 1].source = source /\ narratives'[n + 1].text = text
        /\ narratives'[n + 1].supersededBy = 0 /\ narratives'[n + 1].assessed # {}
    <2>1. narratives'[n + 1] = ComplaintNarrative(source, text)
      BY <1>0, InsertedRows
    <2>2. QED
      BY <2>1 DEF ComplaintNarrative
  <1>4. ASSUME NEW i \in 1..n
        PROVE  /\ narratives'[i].source = narratives[i].source
               /\ narratives'[i].text = narratives[i].text
               /\ narratives'[i].assessed = narratives[i].assessed
               /\ narratives'[i].supersededBy =
                    IF i \in Previous(source) THEN n + 1 ELSE narratives[i].supersededBy
               /\ narratives[i].text \in Texts /\ narratives[i].supersededBy \in 0..n
    <2>1. narratives'[i] = IF i \in Previous(source)
                           THEN [narratives[i] EXCEPT !.supersededBy = n + 1]
                           ELSE narratives[i]
      BY <1>0, <1>1, InsertedRows
    <2>2. narratives[i] \in Rows
      BY <1>1
    <2>3. narratives[i].supersededBy <= n
      BY <1>0, <1>1 DEF NarrativesTypeOK
    <2>4. QED
      BY <2>1, <2>2, <2>3, <1>1 DEF Rows
  <1> HIDE DEF n
  <1>5. /\ \A s : Current(s) \subseteq 1..n
        /\ \A i \in 1..n : \E k : Current(narratives[i].source) = {k}
    <2>1. \A i \in 1..n : Cardinality(Current(narratives[i].source)) = 1
      BY <1>0, <1>1 DEF OneCurrentNarrative
    <2>2. QED
      BY <1>0, <1>1, <2>1, CurrentIsOne DEF Current
  <1>6. Previous(source) = Current(source)
    <2>1. ASSUME NEW i \in Current(source) PROVE i \in Previous(source)
      <3>1. i \in 1..n /\ narratives[i].source = source
        BY <1>1, <2>1 DEF Current
      <3>2. PICK k : Current(source) = {k}
        BY <1>5, <3>1
      <3>3. QED
        BY <3>1, <3>2, <2>1, <1>1 DEF Previous
    <2>2. QED
      BY <2>1 DEF Previous
  <1>7. ASSUME NEW s PROVE Current(s)' = IF s = source THEN {n + 1} ELSE Current(s)
    <2>1. \A i \in 1..n : i \in Previous(source) => narratives[i].source = source
      BY <1>6 DEF Current
    <2>2. CASE s = source
      <3>1. ASSUME NEW i \in 1..n, i \in Current(source)' PROVE FALSE
        <4>1. narratives'[i].source = source /\ narratives'[i].supersededBy = 0
          BY <3>1 DEF Current
        <4>2. i \notin Previous(source)
          BY <1>1, <1>4, <4>1
        <4>3. i \in Current(source)
          BY <1>1, <1>4, <4>1, <4>2 DEF Current
        <4>4. QED
          BY <1>6, <4>2, <4>3
      <3>2. n + 1 \in Current(source)'
        BY <1>1, <1>2, <1>3 DEF Current
      <3>3. Current(source)' \subseteq 1..(n + 1)
        BY <1>2 DEF Current
      <3>4. QED
        BY <1>1, <2>2, <3>1, <3>2, <3>3
    <2>3. CASE s # source
      <3>1. \A i \in 1..n : i \in Current(s)' <=> i \in Current(s)
        BY <1>1, <1>2, <1>4, <2>1, <2>3 DEF Current
      <3>2. n + 1 \notin Current(s)'
        BY <1>2, <1>3, <2>3 DEF Current
      <3>3. Current(s)' \subseteq 1..(n + 1) /\ Current(s) \subseteq 1..n
        BY <1>2, <1>5 DEF Current
      <3>4. \A i \in 1..(n + 1) : i \in 1..n \/ i = n + 1
        BY <1>1
      <3>5. Current(s)' = Current(s)
        BY <3>1, <3>2, <3>3, <3>4, Zenon
      <3>6. QED
        BY <2>3, <3>5
    <2>4. QED
      BY <2>2, <2>3
  <1>8. NarrativesTypeOK' /\ FileBeforeRow' /\ ReviewedIsAssessed'
    <2>1. \A i \in NarrativeIds' : narratives'[i].supersededBy <= Len(narratives')
      <3>1. ASSUME NEW i \in 1..(n + 1) PROVE narratives'[i].supersededBy <= n + 1
        BY <1>1, <1>3, <1>4
      <3>2. QED
        BY <1>2, <3>1
    <2>2. /\ NarrativeIds \subseteq NarrativeIds'
          /\ \A i \in NarrativeIds : narratives[i].assessed \subseteq narratives'[i].assessed
      BY <1>1, <1>2, <1>4
    <2>3. Len(narratives') <= MaxNarratives
      BY <1>1, <1>2 DEF NarrativeAssumption, n
    <2>4. QED
      BY <1>2, <2>1, <2>2, <2>3, RowsGrow
  <1>9. \A i, j \in NarrativeIds' :
           j \in Stored(narratives[i].source, narratives[i].text)' => i = j
    <2>1. \A i, j \in 1..n : narratives[i].source = narratives[j].source
             /\ narratives[i].text = narratives[j].text => i = j
      BY <1>0, <1>1 DEF OneCurrentNarrative, Stored
    <2>2. \A i \in 1..n : ~(narratives[i].source = source /\ narratives[i].text = text)
      BY <1>1 DEF Stored
    <2>3. \A i, j \in 1..(n + 1) : narratives'[i].source = narratives'[j].source
             /\ narratives'[i].text = narratives'[j].text => i = j
      <3>1. \A i \in 1..(n + 1) : i \in 1..n \/ i = n + 1
        BY <1>1
      <3>2. QED
        BY <1>3, <1>4, <2>1, <2>2, <3>1
    <2>4. QED
      BY <1>2, <2>3 DEF Stored
  <1>10. ASSUME NEW i \in NarrativeIds'
         PROVE  /\ Cardinality(Current(narratives[i].source)') = 1
                /\ narratives'[i].supersededBy # 0 =>
                     /\ narratives'[i].supersededBy > i
                     /\ narratives'[narratives'[i].supersededBy].source = narratives'[i].source
                /\ narratives'[i].assessed # {} /\ artifact'[narratives'[i].text] # "absent"
    <2>1. i \in 1..n \/ i = n + 1
      BY <1>1, <1>2
    <2>2. Cardinality({n + 1}) = 1
      BY FS_Singleton
    <2>3. CASE i = n + 1
      BY <1>3, <1>7, <2>2, <2>3
    <2>4. CASE i \in 1..n
      <3>1. /\ Cardinality(Current(narratives[i].source)) = 1
            /\ narratives[i].supersededBy # 0 =>
                 /\ narratives[i].supersededBy > i
                 /\ narratives[narratives[i].supersededBy].source = narratives[i].source
            /\ narratives[i].assessed # {} /\ artifact[narratives[i].text] # "absent"
        BY <1>0, <1>1, <2>4 DEF OneCurrentNarrative
      <3>2. Cardinality(Current(narratives[i].source)') = 1
        BY <1>4, <1>7, <2>2, <2>4, <3>1
      <3>3. narratives'[i].assessed # {} /\ artifact'[narratives'[i].text] # "absent"
        BY <1>4, <2>4, <3>1
      <3>4. CASE i \in Previous(source)
        <4>1. narratives'[i].supersededBy = n + 1 /\ narratives'[i].source = source
          BY <1>4, <1>6, <2>4, <3>4 DEF Current
        <4>2. QED
          BY <1>1, <1>3, <2>4, <3>2, <3>3, <4>1
      <3>5. CASE i \notin Previous(source)
        <4>1. /\ narratives'[i].supersededBy = narratives[i].supersededBy
              /\ narratives'[i].source = narratives[i].source
          BY <1>4, <2>4, <3>5
        <4>2. ASSUME narratives[i].supersededBy # 0
              PROVE  narratives[i].supersededBy \in 1..n
          BY <1>1, <1>4, <2>4, <4>2
        <4>3. QED
          BY <1>4, <3>1, <3>2, <3>3, <4>1, <4>2
      <3>6. QED
        BY <3>4, <3>5
    <2>5. QED
      BY <2>1, <2>3, <2>4
  <1>11. OneCurrentNarrative'
    BY <1>9, <1>10 DEF OneCurrentNarrative
  <1>12. QED
    BY <1>8, <1>11 DEF NarrativesInv

LEMMA RequestOver == ASSUME NEW r \in Intakes, Ends(r)
                     PROVE  intake' = [intake EXCEPT ![r] = NoIntake] /\ Allowed(NoIntake)
  <1>1. NoIntake.pc = "idle"
    BY DEF NoIntake, Request
  <1>2. QED
    BY <1>1 DEF Ends, Allowed

LEMMA FilesStayHere ==
    ASSUME NarrativesTypeOK, UNCHANGED artifact
    PROVE  FilesStay
  BY DEF NarrativesTypeOK, FilesStay

LEMMA LookUpStep ==
    ASSUME NarrativesInv, NEW r \in Intakes, NEW source \in Sources, NEW text \in Texts,
           LookUp(r, source, text)
    PROVE  NarrativesInv'
  <1>0. NarrativesTypeOK /\ FilesStay
    BY FilesStayHere DEF NarrativesInv, LookUp
  <1>1. ASSUME intake' = [intake EXCEPT ![r] = Request("check", source, text, 0, 0)]
        PROVE  NarrativesInv'
    <2>1. Allowed(Request("check", source, text, 0, 0))
      BY DEF Allowed, Request, Deliveries
    <2>2. QED
      BY <1>0, <1>1, <2>1, IntakeMoves DEF LookUp
  <1>2. ASSUME NEW i \in Stored(source, text),
               intake' = [intake EXCEPT ![r] = Request("assess", source, text, i, 0)]
        PROVE  NarrativesInv'
    <2>1. Allowed(Request("assess", source, text, i, 0))
      BY DEF Allowed, Request, Assessing, Stored
    <2>2. QED
      BY <1>0, <1>2, <2>1, IntakeMoves DEF LookUp
  <1>3. QED
    BY <1>1, <1>2 DEF LookUp

(* A delivery goes on to write its file, and to insert its row.             *)
LEMMA DeliveryGoes ==
    ASSUME NarrativesInv, FilesStay, UNCHANGED <<narratives, reviews, revision>>, NEW r \in Intakes,
           intake[r].pc \in {"check", "open", "write", "insert"},
           NEW pc \in {"open", "write", "insert"}, Goes(r, pc),
           pc \in {"write", "insert"} => artifact'[intake[r].text] # "absent"
    PROVE  NarrativesInv'
  <1> DEFINE q == [intake[r] EXCEPT !.pc = pc]
  <1>1. NarrativesTypeOK
    BY DEF NarrativesInv
  <1>2. intake[r] \in Deliveries
    BY <1>1, IntakeTyped
  <1>3. q \in Deliveries /\ q.pc = pc /\ q.text = intake[r].text
    BY <1>2 DEF Deliveries
  <1>4. intake' = [intake EXCEPT ![r] = q]
    BY DEF Goes
  <1> HIDE DEF q
  <1>5. Allowed(q)
    BY <1>3 DEF Allowed
  <1>6. QED
    BY <1>4, <1>5, IntakeMoves

LEMMA FileSteps ==
    ASSUME NarrativesInv, NEW r \in Intakes,
           CheckArtifact(r) \/ OpenArtifact(r) \/ WriteArtifact(r)
    PROVE  NarrativesInv'
  <1>0. NarrativesTypeOK /\ FileBeforeRow
    BY DEF NarrativesInv
  <1>1. CASE CheckArtifact(r)
    <2>1. FilesStay /\ UNCHANGED <<narratives, reviews, artifact, revision>>
      BY <1>0, <1>1, FilesStayHere DEF CheckArtifact
    <2>2. CASE artifact[intake[r].text] = "absent" /\ Goes(r, "open")
      BY <1>1, <2>1, <2>2, DeliveryGoes DEF CheckArtifact
    <2>3. CASE artifact[intake[r].text] = "whole" /\ Goes(r, "insert")
      BY <1>1, <2>1, <2>3, DeliveryGoes DEF CheckArtifact
    <2>4. CASE Ends(r)
      BY <2>1, <2>4, RequestOver, IntakeMoves
    <2>5. QED
      BY <1>1, <2>2, <2>3, <2>4 DEF CheckArtifact
  <1>2. CASE OpenArtifact(r)
    <2>1. intake[r].text \in Texts
      BY <1>0, <1>2, DeliveryText DEF OpenArtifact
    <2>2. FilesStay /\ artifact'[intake[r].text] # "absent"
      BY <1>0, <1>2, <2>1 DEF OpenArtifact, NarrativesTypeOK, FilesStay
    <2>3. QED
      BY <1>2, <2>2, DeliveryGoes DEF OpenArtifact
  <1>3. CASE WriteArtifact(r)
    <2>1. intake[r].text \in Texts
      BY <1>0, <1>3, DeliveryText DEF WriteArtifact
    <2>2. FilesStay /\ artifact'[intake[r].text] # "absent"
      BY <1>0, <1>3, <2>1 DEF WriteArtifact, NarrativesTypeOK, FilesStay
    <2>3. QED
      BY <1>3, <2>2, DeliveryGoes DEF WriteArtifact
  <1>4. QED
    BY <1>1, <1>2, <1>3

LEMMA InsertNarrativeStep ==
    ASSUME NarrativeAssumption, NarrativesInv, NEW r \in Intakes, InsertNarrative(r)
    PROVE  NarrativesInv'
  <1>0. NarrativesTypeOK /\ FileBeforeRow /\ FilesStay
    BY FilesStayHere DEF NarrativesInv, InsertNarrative
  <1>1. intake[r].text \in Texts /\ intake[r].source \in Sources
    BY <1>0, DeliveryText DEF InsertNarrative
  <1>2. artifact[intake[r].text] # "absent"
    BY <1>0 DEF FileBeforeRow, InsertNarrative
  <1>3. CASE Stored(intake[r].source, intake[r].text) # {}
    <2>1. narratives' = narratives
      BY <1>3 DEF InsertNarrative
    <2>2. QED
      BY <1>0, <2>1, RequestOver, IntakeMoves DEF InsertNarrative
  <1>4. CASE Stored(intake[r].source, intake[r].text) = {}
    <2>1. narratives' = Inserted(intake[r].source, intake[r].text)
      BY <1>4 DEF InsertNarrative
    <2>2. QED
      BY <1>1, <1>2, <1>4, <2>1, RequestOver, InsertedStep DEF InsertNarrative
  <1>5. QED
    BY <1>3, <1>4

LEMMA AssessAgainStep ==
    ASSUME NarrativesInv, NEW r \in Intakes, AssessAgain(r)
    PROVE  NarrativesInv'
  <1> DEFINE i == intake[r].id
  <1>0. NarrativesTypeOK /\ OneCurrentNarrative
    BY DEF NarrativesInv
  <1>1. i \in NarrativeIds /\ NarrativeIds = 1..Len(narratives) /\ revision \in 1..MaxRevision
    <2>1. intake[r] \in Assessing
      BY <1>0, IntakeTyped DEF AssessAgain
    <2>2. QED
      BY <1>0, <2>1 DEF Assessing, NarrativesTypeOK, NarrativeIds
  <1>2. narratives' = [narratives EXCEPT ![i].assessed = @ \cup {revision}]
    BY DEF AssessAgain
  <1>3. \A j \in NarrativeIds : narratives[j] \in Rows
    BY <1>0 DEF NarrativesTypeOK, NarrativeIds
  <1> HIDE DEF i
  <1>4. [narratives[i] EXCEPT !.assessed = @ \cup {revision}] \in Rows
    BY <1>1, <1>3 DEF Rows
  <1>5. narratives' \in Seq(Rows) /\ Len(narratives') = Len(narratives) /\ NarrativeIds' = NarrativeIds
    BY <1>0, <1>1, <1>2, <1>4 DEF NarrativesTypeOK, NarrativeIds
  <1>6. ASSUME NEW j \in NarrativeIds
        PROVE  /\ narratives'[j].source = narratives[j].source
               /\ narratives'[j].text = narratives[j].text
               /\ narratives'[j].supersededBy = narratives[j].supersededBy
               /\ narratives[j].assessed \subseteq narratives'[j].assessed
    <2>1. CASE j = i
      <3>1. narratives'[j] = [narratives[i] EXCEPT !.assessed = @ \cup {revision}]
        BY <1>0, <1>1, <1>2, <2>1 DEF NarrativesTypeOK, NarrativeIds
      <3>2. QED
        BY <1>1, <1>3, <2>1, <3>1 DEF Rows
    <2>2. CASE j # i
      BY <1>0, <1>1, <1>2, <2>2 DEF NarrativesTypeOK, NarrativeIds
    <2>3. QED
      BY <2>1, <2>2
  <1>7. NarrativesTypeOK' /\ FileBeforeRow' /\ ReviewedIsAssessed'
    <2>1. \A j \in NarrativeIds' : narratives'[j].supersededBy <= Len(narratives')
      BY <1>0, <1>5, <1>6 DEF NarrativesTypeOK
    <2>2. Len(narratives') <= MaxNarratives
      BY <1>0, <1>5 DEF NarrativesTypeOK
    <2>3. NarrativeIds \subseteq NarrativeIds'
      BY <1>5
    <2>4. QED
      BY <1>5, <1>6, <2>1, <2>2, <2>3, RowsGrow, RequestOver DEF AssessAgain
  <1>8. \A s : Current(s)' = Current(s)
    BY <1>5, <1>6 DEF Current
  <1>9. \A j, k \in NarrativeIds' :
           k \in Stored(narratives[j].source, narratives[j].text)' => j = k
    BY <1>0, <1>5, <1>6 DEF OneCurrentNarrative, Stored
  <1>10. ASSUME NEW j \in NarrativeIds'
         PROVE  /\ Cardinality(Current(narratives[j].source)') = 1
                /\ narratives'[j].supersededBy # 0 =>
                     /\ narratives'[j].supersededBy > j
                     /\ narratives'[narratives'[j].supersededBy].source = narratives'[j].source
                /\ narratives'[j].assessed # {} /\ artifact'[narratives'[j].text] # "absent"
    <2>1. /\ Cardinality(Current(narratives[j].source)) = 1
          /\ narratives[j].supersededBy # 0 =>
               /\ narratives[j].supersededBy > j
               /\ narratives[narratives[j].supersededBy].source = narratives[j].source
          /\ narratives[j].assessed # {} /\ artifact[narratives[j].text] # "absent"
      BY <1>0, <1>5 DEF OneCurrentNarrative
    <2>2. narratives[j].supersededBy # 0 => narratives[j].supersededBy \in NarrativeIds
      <3>1. narratives[j].supersededBy \in Nat /\ narratives[j].supersededBy <= Len(narratives)
        BY <1>0, <1>3, <1>5 DEF NarrativesTypeOK, Rows
      <3>2. QED
        BY <1>0, <1>1, <3>1 DEF NarrativesTypeOK
    <2>3. artifact' = artifact
      BY DEF AssessAgain
    <2>4. Cardinality(Current(narratives[j].source)') = 1
      BY <1>5, <1>6, <1>8, <2>1
    <2>5. QED
      BY <1>5, <1>6, <2>1, <2>2, <2>3, <2>4
  <1>11. OneCurrentNarrative'
    BY <1>9, <1>10 DEF OneCurrentNarrative
  <1>12. QED
    BY <1>7, <1>11 DEF NarrativesInv

LEMMA LoadAssessmentStep ==
    ASSUME NarrativesInv, NEW r \in Intakes, LoadAssessment(r)
    PROVE  NarrativesInv'
  <1>0. NarrativesTypeOK /\ FilesStay
    BY FilesStayHere DEF NarrativesInv, LoadAssessment
  <1>1. PICK i \in NarrativeIds : \E of \in narratives[i].assessed :
           intake' = [intake EXCEPT ![r] = Request("review", "none", "none", i, of)]
    BY DEF LoadAssessment
  <1>2. PICK of \in narratives[i].assessed :
           intake' = [intake EXCEPT ![r] = Request("review", "none", "none", i, of)]
    BY <1>1
  <1>3. of \in 1..MaxRevision
    <2>1. narratives[i] \in Rows
      BY <1>0 DEF NarrativesTypeOK, NarrativeIds
    <2>2. QED
      BY <2>1 DEF Rows
  <1>4. Allowed(Request("review", "none", "none", i, of))
    BY <1>3 DEF Allowed, Request, Reviewing
  <1>5. QED
    BY <1>0, <1>2, <1>4, IntakeMoves DEF LoadAssessment

LEMMA RecordReviewStep ==
    ASSUME NarrativesInv, NEW r \in Intakes, RecordReview(r)
    PROVE  NarrativesInv'
  <1> DEFINE v == [id |-> intake[r].id, of |-> intake[r].of]
  <1>0. NarrativesTypeOK /\ OneCurrentNarrative /\ FileBeforeRow /\ ReviewedIsAssessed /\ FilesStay
    BY FilesStayHere DEF NarrativesInv, RecordReview
  <1>1. v \in [id : NarrativeIds, of : 1..MaxRevision] /\ v.of \in narratives[v.id].assessed
    <2>1. intake[r] \in Reviewing
      BY <1>0, IntakeTyped DEF RecordReview
    <2>2. QED
      BY <1>0, <2>1 DEF Reviewing, ReviewedIsAssessed, RecordReview
  <1>2. NoIntake.pc = "idle" /\ NarrativeIds' = NarrativeIds
    BY DEF NoIntake, Request, NarrativeIds, RecordReview
  <1>3. /\ intake' \in [Intakes -> {NoIntake} \cup Deliveries \cup Assessing \cup Reviewing]
        /\ \A p \in Intakes : intake'[p] = IF p = r THEN NoIntake ELSE intake[p]
    BY <1>0 DEF NarrativesTypeOK, RecordReview, Ends
  <1>4. Assessing' = Assessing /\ Reviewing' = Reviewing
    BY <1>2 DEF Assessing, Reviewing
  <1>5. reviews' = reviews \cup {v}
    BY DEF RecordReview
  <1> HIDE DEF v
  <1>6. NarrativesTypeOK'
    BY <1>0, <1>1, <1>2, <1>3, <1>4, <1>5 DEF NarrativesTypeOK, RecordReview
  <1>7. OneCurrentNarrative'
    BY <1>0, CurrentStays DEF RecordReview
  <1>8. FileBeforeRow' /\ ReviewedIsAssessed'
    BY <1>0, <1>2, <1>3 DEF FileBeforeRow, ReviewedIsAssessed, RecordReview
  <1>9. QED
    BY <1>6, <1>7, <1>8 DEF NarrativesInv

LEMMA RestartStep ==
    ASSUME NarrativeAssumption, NarrativesInv, Restart
    PROVE  NarrativesInv'
  <1>0. NarrativesTypeOK /\ OneCurrentNarrative /\ FilesStay
    BY FilesStayHere DEF NarrativesInv, Restart
  <1>1. NoIntake.pc = "idle" /\ NarrativeIds' = NarrativeIds
    BY DEF NoIntake, Request, NarrativeIds, Restart
  <1>2. revision' \in 1..MaxRevision
    BY <1>0 DEF NarrativesTypeOK, Restart, NarrativeAssumption
  <1>3. intake' \in [Intakes -> {NoIntake}] /\ \A p \in Intakes : intake'[p] = NoIntake
    BY DEF Restart
  <1>4. NarrativesTypeOK'
    BY <1>0, <1>1, <1>2, <1>3 DEF NarrativesTypeOK, Restart
  <1>5. OneCurrentNarrative'
    BY <1>0, CurrentStays DEF Restart
  <1>6. FileBeforeRow' /\ ReviewedIsAssessed'
    BY <1>1, <1>3 DEF FileBeforeRow, ReviewedIsAssessed
  <1>7. QED
    BY <1>4, <1>5, <1>6 DEF NarrativesInv

LEMMA NarrativesStep ==
    NarrativeAssumption /\ NarrativesInv /\ [NarrativesNext]_narrativeVars => NarrativesInv'
  <1> SUFFICES ASSUME NarrativeAssumption, NarrativesInv, [NarrativesNext]_narrativeVars
               PROVE  NarrativesInv'
    OBVIOUS
  <1>0. NarrativesTypeOK
    BY DEF NarrativesInv
  <1>1. CASE UNCHANGED narrativeVars
    <2>1. NarrativesTypeOK' /\ FileBeforeRow' /\ ReviewedIsAssessed'
      BY <1>1 DEF narrativeVars, NarrativesInv, NarrativesTypeOK, NarrativeIds, Assessing,
                  Reviewing, FileBeforeRow, ReviewedIsAssessed
    <2>2. OneCurrentNarrative'
      BY <1>0, <1>1, FilesStayHere, CurrentStays DEF narrativeVars, NarrativesInv
    <2>3. QED
      BY <2>1, <2>2 DEF NarrativesInv
  <1>2. CASE Restart
    BY <1>2, RestartStep
  <1>3. ASSUME NEW r \in Intakes, IntakeStep(r) PROVE NarrativesInv'
    <2>1. ASSUME NEW text \in Texts, LookUp(r, "connector", text) \/ LookUp(r, text, text)
          PROVE  NarrativesInv'
      <3>1. "connector" \in Sources /\ text \in Sources
        BY DEF Sources
      <3>2. QED
        BY <2>1, <3>1, LookUpStep
    <2>2. CASE CheckArtifact(r) \/ OpenArtifact(r) \/ WriteArtifact(r)
      BY <2>2, FileSteps
    <2>3. CASE InsertNarrative(r)
      BY <2>3, InsertNarrativeStep
    <2>4. CASE AssessAgain(r)
      BY <2>4, AssessAgainStep
    <2>5. CASE IntakeFails(r)
      BY <1>0, <2>5, FilesStayHere, RequestOver, IntakeMoves DEF IntakeFails
    <2>6. CASE LoadAssessment(r)
      BY <2>6, LoadAssessmentStep
    <2>7. CASE RecordReview(r)
      BY <2>7, RecordReviewStep
    <2>8. QED
      BY <1>3, <2>1, <2>2, <2>3, <2>4, <2>5, <2>6, <2>7 DEF IntakeStep
  <1>4. QED
    BY <1>1, <1>2, <1>3 DEF NarrativesNext

(* narrative_triage.py: rows, assessments, reviews, files and requests stay  *)
(* well formed, and every review is of an assessment that there is.          *)
THEOREM NarrativesTypeCorrect == NarrativesSpec => []NarrativesTypeOK
  <1>1. NarrativesInv => NarrativesTypeOK
    BY DEF NarrativesInv
  <1>2. QED
    BY <1>1, NarrativeAssumption, NarrativesInitInv, NarrativesStep, PTL DEF NarrativesSpec

(* ingest_narrative: whatever requests deliver, repeat or lose the texts of  *)
(* whichever sources side by side, no text of a source is stored twice and   *)
(* every source that has a narrative has exactly one that counts.            *)
THEOREM OneNarrativeCounts == NarrativesSpec => []OneCurrentNarrative
  <1>1. NarrativesInv => OneCurrentNarrative
    BY DEF NarrativesInv
  <1>2. QED
    BY <1>1, NarrativeAssumption, NarrativesInitInv, NarrativesStep, PTL DEF NarrativesSpec

-----------------------------------------------------------------------------
(* All components.  A behaviour of the run is one of each component: the   *)
(* others rest in an initial state, so what is proved of a component holds *)
(* of them as the run composes them.                                       *)
THEOREM TracingImplements ==
    Spec => /\ LotsSpec /\ SnapshotsSpec /\ ProviderSpec
            /\ WatchSpec /\ CustodySpec /\ NarrativesSpec
  <1>1. Init => /\ TraceInit /\ LotsInit /\ SnapshotsInit /\ ProviderInit
                /\ WatchInit /\ CustodyInit /\ NarrativesInit
    BY DEF Init
  <1>2. [Next]_tracingVars =>
           /\ [LotsStep]_lotVars
           /\ [SnapshotsNext]_snapshotVars
           /\ [ProviderNext]_providerVars
           /\ [WatchNext]_watchVars
           /\ [CustodyNext]_custodyVars
           /\ [NarrativesNext]_narrativeVars
    <2>0. OverlappingChanges \/ ChangesInTurn => WatchNext
      BY DEF OverlappingChanges, ChangesInTurn
    <2>1. ASSUME Next
          PROVE  /\ LotsStep \/ UNCHANGED lotVars
                 /\ SnapshotsNext \/ UNCHANGED snapshotVars
                 /\ ProviderNext \/ UNCHANGED providerVars
                 /\ WatchNext \/ UNCHANGED watchVars
                 /\ CustodyNext \/ UNCHANGED custodyVars
                 /\ NarrativesNext \/ UNCHANGED narrativeVars
      BY <2>0, <2>1, Zenon DEF Next
    <2>2. ASSUME UNCHANGED tracingVars
          PROVE  /\ UNCHANGED lotVars
                 /\ UNCHANGED snapshotVars
                 /\ UNCHANGED providerVars
                 /\ UNCHANGED watchVars
                 /\ UNCHANGED custodyVars
                 /\ UNCHANGED narrativeVars
      BY <2>2 DEF tracingVars
    <2>3. QED
      BY <2>1, <2>2, Zenon
  <1>3. QED
    BY <1>1, <1>2, PTL
       DEF Spec, LotsSpec, SnapshotsSpec, ProviderSpec, WatchSpec, CustodySpec, NarrativesSpec

(* Every component keeps its types in every behaviour of the run.          *)
THEOREM TracingTypeCorrect == Spec => []TracingTypeOK
  <1>1. TraceTypeOK /\ LotsTypeOK /\ SnapshotsTypeOK /\ ProviderTypeOK /\ WatchTypeOK
           /\ CustodyTypeOK /\ NarrativesTypeOK => TracingTypeOK
    BY DEF TracingTypeOK
  <1>2. QED
    BY <1>1, TracingImplements, WorkerKeepsTrace, TraceTypeCorrect, LotsTypeCorrect,
       SnapshotsTypeCorrect, ProviderTypeCorrect, WatchTypeCorrect, CustodyTypeCorrect,
       NarrativesTypeCorrect, PTL
=============================================================================
