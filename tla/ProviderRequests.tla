-------------------------- MODULE ProviderRequests --------------------------
(* The requests to TronGrid and Etherscan: the paging of the two adapters,  *)
(* the sliding window that all threads of the process share, and the        *)
(* receipts that end as source coverage.  A thread reads the clock before   *)
(* it takes the lock of the window.                                         *)
EXTENDS Naturals, Sequences, FiniteSets

CONSTANTS Callers,           \* threads that fetch
          RequestLimit,             \* requests per window
          InteractiveShare,  \* requests that only interactive traces may use
          BudgetWindow,      \* length of the window
          MaxPages,          \* page budget of one fetch
          MaxClock           \* bound of the model

ASSUME ProviderAssumption ==
    /\ RequestLimit \in Nat \ {0} /\ InteractiveShare \in 0..RequestLimit
    /\ BudgetWindow \in Nat \ {0} /\ MaxPages \in Nat \ {0} /\ MaxClock \in Nat

VARIABLES now,       \* the clock
          requests,  \* _REQUESTS, oldest entry first
          call       \* Callers -> the fetch in progress

providerVars == <<now, requests, call>>

-----------------------------------------------------------------------------
Categories == {"interactive_trace", "watch_poll"}

(* A TRON history goes by cursor, an EVM history by page number; a lookup  *)
(* of one transaction's transfers stops at its page budget without error.  *)
Fetches == {"trc20", "tokentx", "lookup"}

Resting == [pc |-> "idle"]

Fetch(kind, category) ==
    [pc |-> "ready", kind |-> kind, category |-> category,
     page |-> 1, at |-> 0, error |-> "none", receipts |-> <<>>]

ProviderInit ==
    /\ now = 0 /\ requests = <<>>
    /\ call = [c \in Callers |-> Resting]

StartFetch(c) ==
    /\ call[c].pc = "idle"
    /\ \E kind \in Fetches, category \in Categories :
          call' = [call EXCEPT ![c] = Fetch(kind, category)]
    /\ UNCHANGED <<now, requests>>

-----------------------------------------------------------------------------
(* reserve_provider_request *)
ReadClock(c) ==
    /\ call[c].pc = "ready"
    /\ call' = [call EXCEPT ![c].pc = "stamped", ![c].at = now]
    /\ UNCHANGED <<now, requests>>

(* _prune drops from the left as long as the entry is old enough.          *)
InWindow(request, at) == request.at + BudgetWindow > at

Pruned(at) ==
    LET kept == {k \in DOMAIN requests : InWindow(requests[k], at)}
    IN  IF kept = {} THEN <<>>
        ELSE SubSeq(requests, CHOOSE k \in kept : \A j \in kept : k <= j, Len(requests))

(* The poll that takes the first request of the share is let through.      *)
DeniedAboveShare(window, category) ==
    \/ Len(window) >= RequestLimit
    \/ category = "watch_poll" /\ Len(window) > RequestLimit - InteractiveShare

Denied(window, category) ==
    \/ Len(window) >= RequestLimit
    \/ category = "watch_poll" /\ Len(window) >= RequestLimit - InteractiveShare

(* A denial leaves no request and no receipt.                              *)
Reserve(c) ==
    /\ call[c].pc = "stamped"
    /\ LET window == Pruned(call[c].at) category == call[c].category IN
       \/ /\ Denied(window, category)
          /\ requests' = window
          /\ call' = [call EXCEPT ![c].pc = "failed", ![c].error = "budget",
                                         ![c].at = 0]
       \/ /\ ~Denied(window, category)
          /\ requests' = Append(window, [at |-> call[c].at, category |-> category])
          /\ call' = [call EXCEPT ![c].pc = "sent", ![c].at = 0]
    /\ UNCHANGED now

-----------------------------------------------------------------------------
(* How a request ends, and what persist_provider_coverage makes of it: a   *)
(* refusal inside an HTTP 200 is recorded like an answer.                  *)
Failures == {"network_error", "schema_drift", "http_error", "configuration", "refused_in_200"}

Completeness(error) ==
    IF error \in {"none", "refused_in_200"} THEN "response_recorded" ELSE "provider_gap"

Received(c, error) ==
    [call[c] EXCEPT !.receipts = Append(@, Completeness(error)), !.error = error]

AnswerFails(c) ==
    /\ call[c].pc = "sent"
    /\ \E error \in Failures :
          call' = [call EXCEPT ![c] = [Received(c, error) EXCEPT !.pc = "failed"]]
    /\ UNCHANGED <<now, requests>>

(* The cursor of a page is one that was given before.                      *)
CursorRepeats(c) ==
    /\ call[c].pc = "sent" /\ call[c].kind = "trc20" /\ call[c].page > 1
    /\ call' = [call EXCEPT ![c] = [Received(c, "none") EXCEPT !.pc = "failed",
                                                              !.error = "cursor_repeated"]]
    /\ UNCHANGED <<now, requests>>

LastPageReceived(c) ==
    /\ call[c].pc = "sent"
    /\ call' = [call EXCEPT ![c] = [Received(c, "none") EXCEPT !.pc = "done"]]
    /\ UNCHANGED <<now, requests>>

PageReceived(c) ==
    /\ call[c].pc = "sent"
    /\ LET got == Received(c, "none") IN
       \/ /\ call[c].page < MaxPages
          /\ call' = [call EXCEPT ![c] = [got EXCEPT !.pc = "ready", !.page = @ + 1]]
       \/ /\ call[c].page = MaxPages
          /\ call' = [call EXCEPT ![c] =
                        IF call[c].kind = "lookup" THEN [got EXCEPT !.pc = "done"]
                        ELSE [got EXCEPT !.pc = "failed", !.error = "page_budget"]]
    /\ UNCHANGED <<now, requests>>

FetchEnds(c) ==
    /\ call[c].pc \in {"done", "failed"}
    /\ call' = [call EXCEPT ![c] = Resting]
    /\ UNCHANGED <<now, requests>>

ProviderTick == now < MaxClock /\ now' = now + 1 /\ UNCHANGED <<requests, call>>

ProviderNext ==
    \/ ProviderTick
    \/ \E c \in Callers :
          \/ StartFetch(c) \/ ReadClock(c) \/ Reserve(c) \/ AnswerFails(c)
          \/ CursorRepeats(c) \/ LastPageReceived(c) \/ PageReceived(c) \/ FetchEnds(c)

ProviderSpec == ProviderInit /\ [][ProviderNext]_providerVars

-----------------------------------------------------------------------------
Reservations == [at : 0..now, category : Categories]

Called == [pc : {"ready", "stamped", "sent", "done", "failed"}, kind : Fetches,
           category : Categories, page : 1..MaxPages, at : 0..now,
           error : Failures \cup {"none", "budget", "cursor_repeated", "page_budget"},
           receipts : Seq({"response_recorded", "provider_gap"})]

ProviderTypeOK ==
    /\ now \in 0..MaxClock
    /\ requests \in Seq(Reservations)
    /\ call \in [Callers -> {Resting} \cup Called]

Polls(window) == {k \in DOMAIN window : window[k].category = "watch_poll"}

ForTraces(window) == {k \in DOMAIN window : window[k].category # "watch_poll"}

(* Watch polls cannot use up what is kept for interactive traces, whatever *)
(* the order in which clocks are read and requests are counted: whenever a *)
(* trace is denied, at least its whole share went to traces.               *)
TraceDenied(c) ==
    /\ call[c].pc = "stamped" /\ call'[c].pc = "failed"
    /\ call[c].category = "interactive_trace"

InteractiveShareKept ==
    [][/\ Len(requests') <= RequestLimit
       /\ (\E c \in Callers : TraceDenied(c)) =>
             Cardinality(ForTraces(requests')) >= InteractiveShare
      ]_providerVars

(* What it follows from: the window is never overdrawn, and of it the polls *)
(* hold at most what is not kept for traces.                               *)
WindowIsShared ==
    /\ Len(requests) <= RequestLimit
    /\ Cardinality(Polls(requests)) <= RequestLimit - InteractiveShare

ProviderInv == ProviderTypeOK /\ WindowIsShared
=============================================================================
