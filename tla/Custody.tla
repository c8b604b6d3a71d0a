------------------------------ MODULE Custody ------------------------------
(* What a provider certifies about a credit, and an action on it.  An       *)
(* import commits the assertion, the response and each kind of record by    *)
(* itself; it can end after any of these, be repeated, and overlap with     *)
(* another one.  An officer's step on the action is checked against the     *)
(* row as it was loaded, and writes the columns it changed.                 *)
EXTENDS Naturals, Sequences, FiniteSets

CONSTANTS Desks,      \* requests in flight
          Responses,  \* [ref, credit, available, tables]
          MaxUnits    \* largest amount of an action

(* The tables in the order in which _persist_provider_response_records     *)
(* fills them.                                                              *)
Tables == <<"ledger", "kyc", "trade", "withdrawal", "session">>

TableNames == {Tables[k] : k \in DOMAIN Tables}

(* A response fills these tables only; "none" stands for no credit.        *)
ASSUME CustodyAssumption ==
    /\ MaxUnits \in Nat \ {0}
    /\ \A r \in Responses : r.tables \subseteq TableNames /\ r.credit # "none"

VARIABLES assertions,  \* credit -> the custody assertion, for those there are
          responses,   \* response_ref -> the stored response
          rows,        \* <<response_ref, table>>
          action,      \* the custody action
          desk         \* Desks -> the request

custodyVars == <<assertions, responses, rows, action, desk>>

-----------------------------------------------------------------------------
NoRequest == [pc |-> "idle"]

(* A verified outcome; amount 0 stands for evidence without an amount.     *)
Outcome(given, amount) == [given |-> given, amount |-> amount]

CustodyAction(status, amount, credit, authority) ==
    [status |-> status, amount |-> amount, credit |-> credit, authority |-> authority,
     outcome |-> Outcome(FALSE, 0)]

(* The credit "none": an action on no assertion.                           *)
NoAction == CustodyAction("none", 0, "none", FALSE)

CustodyInit ==
    /\ assertions = <<>> /\ responses = <<>> /\ rows = {}
    /\ action = NoAction
    /\ desk = [d \in Desks |-> NoRequest]

With(f, key, value) == [k \in DOMAIN f \cup {key} |-> IF k = key THEN value ELSE f[k]]

To(d, pc) == desk' = [desk EXCEPT ![d].pc = pc]

-----------------------------------------------------------------------------
(* import_certified_provider_response of a response that is valid itself.  *)
StartImport(d, response) ==
    /\ desk[d] = NoRequest
    /\ desk' = [desk EXCEPT ![d] = [pc |-> "assertion", response |-> response, left |-> Tables]]
    /\ UNCHANGED <<assertions, responses, rows, action>>

(* import_custody_assertion: the first assertion of a credit stays; one    *)
(* with other terms is refused, one with the same terms is taken for it.   *)
AssertCustody(d) ==
    /\ desk[d].pc = "assertion"
    /\ LET r == desk[d].response IN
       \/ /\ r.credit \notin DOMAIN assertions
          /\ assertions' = With(assertions, r.credit, r.available)
          /\ To(d, "response")
       \/ /\ r.credit \in DOMAIN assertions
          /\ To(d, IF assertions[r.credit] = r.available THEN "response" ELSE "refused")
          /\ UNCHANGED assertions
    /\ UNCHANGED <<responses, rows, action>>

(* A response that is stored already is taken as imported. *)
StoreResponseOnly(d) ==
    /\ desk[d].pc = "response"
    /\ LET r == desk[d].response IN
       \/ /\ r.ref \notin DOMAIN responses
          /\ responses' = With(responses, r.ref, r)
          /\ To(d, "rows")
       \/ /\ r.ref \in DOMAIN responses
          /\ To(d, IF responses[r.ref] = r THEN "done" ELSE "refused")
          /\ UNCHANGED responses
    /\ UNCHANGED <<assertions, rows, action>>

(* _upsert_provider_response_record compares the digest of the payload.    *)
StoreResponse(d) ==
    /\ desk[d].pc = "response"
    /\ LET r == desk[d].response IN
       \/ /\ r.ref \notin DOMAIN responses
          /\ responses' = With(responses, r.ref, r)
          /\ To(d, "rows")
       \/ /\ r.ref \in DOMAIN responses
          /\ To(d, IF responses[r.ref] = r THEN "rows" ELSE "refused")
          /\ UNCHANGED responses
    /\ UNCHANGED <<assertions, rows, action>>

(* One table in one commit, if the response has records for it; what is    *)
(* there already is left.                                                  *)
StoreRows(d) ==
    /\ desk[d].pc = "rows" /\ desk[d].left # <<>>
    /\ LET r == desk[d].response IN
       rows' = rows \cup ({r.ref} \X (r.tables \cap {Head(desk[d].left)}))
    /\ desk' = [desk EXCEPT ![d].left = Tail(@)]
    /\ UNCHANGED <<assertions, responses, action>>

ImportDone(d) ==
    /\ desk[d].pc = "rows" /\ desk[d].left = <<>>
    /\ To(d, "done")
    /\ UNCHANGED <<assertions, responses, rows, action>>

(* The request is answered, or a constraint or a crash ends it.            *)
RequestEnds(d) ==
    /\ desk[d] # NoRequest
    /\ desk' = [desk EXCEPT ![d] = NoRequest]
    /\ UNCHANGED <<assertions, responses, rows, action>>

-----------------------------------------------------------------------------
(* ACTION_STATUSES and ALLOWED_ACTION_TRANSITIONS; the statuses reviewed    *)
(* and confirmed stand for their twins review and confirmed_hold as well,  *)
(* which go and come the same ways.                                        *)
ActionStatuses == {"draft", "reviewed", "submitted", "acknowledged", "confirmed",
                   "rejected", "expired", "released", "seizure_control", "restoration"}

AllowedTransitions(status) ==
    CASE status = "draft" -> {"reviewed", "expired"}
      [] status = "reviewed" -> {"submitted", "expired"}
      [] status = "submitted" -> {"acknowledged", "rejected", "expired"}
      [] status = "acknowledged" -> {"confirmed", "rejected", "expired"}
      [] status = "confirmed" -> {"released", "seizure_control"}
      [] status = "seizure_control" -> {"restoration", "released"}
      [] OTHER -> {}

ConfirmedRestraint == {"confirmed", "seizure_control"}

(* What the provider can still be made to hold, as far as it is certified. *)
WithinCustody(amount) ==
    action.credit \in DOMAIN assertions => amount <= assertions[action.credit]

(* create_action_draft                                                     *)
CreateDraft(d) ==
    /\ desk[d] = NoRequest /\ action = NoAction
    /\ \E credit \in DOMAIN assertions \cup {"none"}, amount \in 1..MaxUnits, authority \in BOOLEAN :
          /\ credit # "none" => amount <= assertions[credit]
          /\ action' = CustodyAction("draft", amount, credit, authority)
    /\ UNCHANGED <<assertions, responses, rows, desk>>

LoadAction(d) ==
    /\ desk[d] = NoRequest /\ action # NoAction
    /\ desk' = [desk EXCEPT ![d] = [pc |-> "action", seen |-> action]]
    /\ UNCHANGED <<assertions, responses, rows, action>>

(* _validate_verified_outcome                                              *)
Verified(outcome) ==
    outcome.given /\ outcome.amount <= action.amount /\ WithinCustody(outcome.amount)

(* advance_action_status.  An outcome that comes with another status than  *)
(* a confirmed one is taken as it is; one that is equal to the outcome that*)
(* was loaded is not written, whatever another request wrote meanwhile.    *)
AdvanceAction(d) ==
    /\ desk[d].pc = "action"
    /\ \E to \in AllowedTransitions(desk[d].seen.status), given \in BOOLEAN, amount \in 0..MaxUnits :
          LET outcome == Outcome(given, amount) IN
          /\ ~given => amount = 0
          /\ to \in {"reviewed", "submitted"} => action.authority
          /\ to \in ConfirmedRestraint => Verified(outcome)
          /\ action' = [action EXCEPT !.status = to,
                                      !.outcome = IF given /\ outcome # desk[d].seen.outcome
                                                  THEN outcome ELSE @]
    /\ desk' = [desk EXCEPT ![d] = NoRequest]
    /\ UNCHANGED <<assertions, responses, rows>>

CustodyNext ==
    \E d \in Desks :
       \/ \E response \in Responses : StartImport(d, response)
       \/ AssertCustody(d) \/ StoreResponse(d) \/ StoreRows(d) \/ ImportDone(d)
       \/ RequestEnds(d) \/ CreateDraft(d) \/ LoadAction(d) \/ AdvanceAction(d)

CustodySpec == CustodyInit /\ [][CustodyNext]_custodyVars

-----------------------------------------------------------------------------
Credits == {r.credit : r \in Responses}

CustodyActions == [status : ActionStatuses, amount : Nat, credit : Credits \cup {"none"},
                   authority : BOOLEAN, outcome : [given : BOOLEAN, amount : Nat]]

ImportRequests == [pc : {"assertion", "response", "rows", "done", "refused"},
                   response : Responses, left : Seq(TableNames)]

ActionRequests == [pc : {"action"}, seen : CustodyActions]

CustodyTypeOK ==
    /\ DOMAIN assertions \subseteq Credits
    /\ \A ref \in DOMAIN responses : responses[ref] \in Responses
    /\ action \in {NoAction} \cup CustodyActions
    /\ desk \in [Desks -> {NoRequest} \cup ImportRequests \cup ActionRequests]

(* An import that reports success left everything its response holds,      *)
(* after whatever was interrupted or ran beside it; records belong to the  *)
(* one response stored under their reference, and that to an assertion of  *)
(* the same terms.                                                         *)
CertifiedImportIsWhole ==
    /\ \A d \in Desks : desk[d].pc = "done" =>
          LET r == desk[d].response IN
          r.ref \in DOMAIN responses /\ {r.ref} \X r.tables \subseteq rows
    /\ \A row \in rows : row[1] \in DOMAIN responses /\ row[2] \in responses[row[1]].tables
    /\ \A ref \in DOMAIN responses :
          LET r == responses[ref] IN
          r.credit \in DOMAIN assertions /\ assertions[r.credit] = r.available

(* What makes CertifiedImportIsWhole inductive: an import that got as far  *)
(* as its response found or wrote the assertion, one at its records the    *)
(* response, and a record it has not come to yet is still before it.       *)
ImportAsFarAs(q) ==
    LET r == q.response IN
    /\ q.pc \in {"response", "rows", "done"} =>
          r.credit \in DOMAIN assertions /\ assertions[r.credit] = r.available
    /\ q.pc \in {"rows", "done"} => r.ref \in DOMAIN responses /\ responses[r.ref] = r
    /\ q.pc # "refused" =>
          \A t \in r.tables : <<r.ref, t>> \in rows \/ \E k \in DOMAIN q.left : q.left[k] = t
    /\ q.pc = "done" => q.left = <<>>

CustodyInv ==
    /\ CustodyTypeOK /\ CertifiedImportIsWhole
    /\ \A d \in Desks : desk[d] \in ImportRequests => ImportAsFarAs(desk[d])
=============================================================================
