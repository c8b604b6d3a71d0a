---------------------------- MODULE OfficerSessions ----------------------------
(***************************************************************************)
(* The sessions of one officer: the rows of app/services/sessions.py, the  *)
(* handlers of app/main.py that resolve, end and revoke them, and the idle *)
(* timers of the open pages (app.js).  The pages of a browser share one    *)
(* signed cookie, which a response writes as the session of its request    *)
(* left it.                                                                *)
(*                                                                         *)
(* A handler runs in a thread: it loads a row, decides, and commits the    *)
(* columns it changed; another request may commit in between.              *)
(*                                                                         *)
(* Abstractions.  A unit of time is longer than a request.  The token and  *)
(* the CSRF token of a cookie are written together at a login, so a page   *)
(* holds the right CSRF token when it was loaded under the row the cookie  *)
(* names.  Warning and countdown are a matter of the shield that is up     *)
(* already.  officer_signout stands for every reason but idle_timeout.  The*)
(* activity counters of a row (record_session_activity) are left out.  What*)
(* a page asks by itself, on a timer or when it has loaded (status and     *)
(* replay of a trace, navigation state, autosave), is a poll.              *)
(***************************************************************************)
EXTENDS Integers, FiniteSets

CONSTANTS Tabs,      \* pages of the officer's browser
          Rows,      \* officersession rows that may be created
          Requests,  \* requests that may be under way at once
          Obscure,   \* idleObscureSeconds
          Timeout,   \* idleTimeoutSeconds and session_idle_timeout_seconds
          Touch,     \* 60 seconds, the interval at which activity is reported
          MaxOverlaps, \* bound on the requests sent while another is under way
          MaxPolls     \* bound on the polls of all pages in a unit of time

ASSUME SessionAssumption ==
    /\ Touch \in Nat \ {0} /\ Obscure \in Nat /\ Timeout \in Nat
    /\ Touch <= Obscure /\ Obscure <= Timeout
    /\ MaxOverlaps \in Nat /\ MaxPolls \in Nat
    /\ "none" \notin Rows \cup Tabs

VARIABLES row,     \* OfficerSession rows
          cookie,  \* the row the browser's cookie names, or "none"
          tab,     \* the script state of each page
          call,    \* requests under way
          overlaps, \* requests sent while another was under way
          polls,   \* polls sent in this unit of time
          away     \* the officer has left for good

bounds == <<overlaps, polls>>
sessionVars == <<row, cookie, tab, call, bounds, away>>

-----------------------------------------------------------------------------
(* left is expires_ts_ms - now.                                            *)
OfficerSession == [state: {"unused", "active", "ended"}, left: 0..Timeout,
                   reason: {"none", "idle_timeout", "officer_signout"}]

(* idle is the time since lastActivityAt, touch since lastServerTouchAt    *)
(* (counted up to Touch), under the row of the login the page belongs to.  *)
Page == [open: BOOLEAN, idle: 0..Timeout, touch: 0..Touch, locked: BOOLEAN,
         ending: BOOLEAN, under: Rows \cup {"none"}]

ClosedPage == [open |-> FALSE, idle |-> 0, touch |-> 0, locked |-> FALSE,
               ending |-> FALSE, under |-> "none"]

LoadedPage(r) == [ClosedPage EXCEPT !.open = TRUE, !.under = r]

(* A request carries the cookie and the CSRF token of its page.            *)
NoCall == [kind |-> "none", tab |-> "none", row |-> "none", csrf |-> "none", step |-> "none",
           seen |-> "none", reason |-> "none", rows |-> {}]

Call(kind, t, step, reason) ==
    [NoCall EXCEPT !.kind = kind, !.tab = t, !.row = cookie, !.csrf = tab[t].under,
                   !.step = step, !.reason = reason]

SessionInit ==
    /\ row = [r \in Rows |-> [state |-> "unused", left |-> 0, reason |-> "none"]]
    /\ cookie = "none"
    /\ tab = [t \in Tabs |-> ClosedPage]
    /\ call = [q \in Requests |-> NoCall]
    /\ overlaps = 0 /\ polls = 0
    /\ away = FALSE

-----------------------------------------------------------------------------
(* prototype_login: a new row and a new cookie; the old row stays active.  *)
Login(t) ==
    /\ ~away /\ ~tab[t].open
    /\ \E r \in Rows : row[r].state = "unused"
    /\ LET r == CHOOSE r \in Rows : row[r].state = "unused" IN
         /\ row' = [row EXCEPT ![r].state = "active", ![r].left = Timeout]
         /\ cookie' = r
         /\ tab' = [tab EXCEPT ![t] = LoadedPage(r)]
    /\ UNCHANGED <<call, bounds, away>>

(* A page sends a request with the cookie of the moment.                   *)
Issue(q, request) ==   \* in any free slot: they are alike
    /\ call[q] = NoCall /\ q = CHOOSE p \in Requests : call[p] = NoCall
    /\ call' = [call EXCEPT ![q] = request]
    /\ IF \A p \in Requests : call[p] = NoCall
       THEN UNCHANGED overlaps
       ELSE overlaps < MaxOverlaps /\ overlaps' = overlaps + 1

Send(q, request) == Issue(q, request) /\ UNCHANGED polls

OpenPage(q, t) ==
    /\ ~away /\ ~tab[t].open /\ cookie # "none"
    /\ Send(q, Call("page", t, "load", "none"))
    /\ UNCHANGED <<row, cookie, tab, away>>

(* registerActivity.                                                       *)
(* Activity only restarts the timers of the page.                          *)
ActivityUnreported(q, t) ==
    /\ ~away /\ tab[t].open /\ ~tab[t].locked
    /\ tab' = [tab EXCEPT ![t].idle = 0, ![t].touch = 0]
    /\ UNCHANGED <<row, cookie, call, bounds, away>>

Activity(q, t) ==
    /\ ~away /\ tab[t].open /\ ~tab[t].locked
    /\ IF tab[t].touch >= Touch
       THEN /\ Send(q, Call("extend", t, "load", "none"))
            /\ tab' = [tab EXCEPT ![t].idle = 0, ![t].touch = 0]
       ELSE /\ tab' = [tab EXCEPT ![t].idle = 0]
            /\ UNCHANGED <<call, bounds>>
    /\ UNCHANGED <<row, cookie, away>>

(* The timers of a page ask also while it is obscured and nobody is there. *)
(* Its script disregards a refusal, so no page waits for the answer.       *)
Poll(q) ==
    /\ \E t \in Tabs : tab[t].open
    /\ polls < MaxPolls /\ polls' = polls + 1
    /\ Issue(q, [NoCall EXCEPT !.kind = "poll", !.row = cookie, !.step = "load"])
    /\ UNCHANGED <<row, cookie, tab, away>>

(* The resume button of the shield.                                        *)
ResumePage(q, t) ==
    /\ ~away /\ tab[t].open /\ tab[t].locked
    /\ \A p \in Requests : call[p].kind = "resume" => call[p].tab # t
    /\ Send(q, Call("resume", t, "load", "none"))
    /\ UNCHANGED <<row, cookie, tab, away>>

SignOut(q, t, kind) ==
    /\ ~away /\ tab[t].open /\ ~tab[t].locked
    /\ Send(q, Call(kind, t, IF kind = "logout" THEN "end" ELSE "load",
                    "officer_signout"))
    /\ UNCHANGED <<row, cookie, tab, away>>

(* tick: obscure, and end the session once the page was idle for Timeout.  *)
Due(t) ==
    /\ tab[t].open
    /\ \/ tab[t].idle >= Obscure /\ ~tab[t].locked
       \/ tab[t].idle >= Timeout /\ ~tab[t].ending

(* The timer reports activity of its own instead of signing out.           *)
IdleTickExtends(q, t) ==
    /\ Due(t)
    /\ IF tab[t].idle >= Timeout
       THEN Send(q, Call("extend", t, "load", "none")) /\ UNCHANGED tab
       ELSE tab' = [tab EXCEPT ![t].locked = TRUE] /\ UNCHANGED <<call, bounds>>
    /\ UNCHANGED <<row, cookie, away>>

IdleTick(q, t) ==
    /\ Due(t)
    /\ IF tab[t].idle >= Timeout
       THEN /\ Send(q, Call("logout", t, "end", "idle_timeout"))
            /\ tab' = [tab EXCEPT ![t].ending = TRUE, ![t].locked = TRUE]
       ELSE tab' = [tab EXCEPT ![t].locked = TRUE] /\ UNCHANGED <<call, bounds>>
    /\ UNCHANGED <<row, cookie, away>>

LeaveForGood == ~away /\ away' = TRUE /\ UNCHANGED <<row, cookie, tab, call, bounds>>

SessionTick ==
    /\ \A t \in Tabs : ~Due(t)
    /\ \A q \in Requests : call[q] = NoCall
    /\ tab' = [t \in Tabs |-> IF tab[t].open
                              THEN [tab[t] EXCEPT !.idle = IF @ < Timeout THEN @ + 1 ELSE @,
                                                  !.touch = IF @ < Touch THEN @ + 1 ELSE @]
                              ELSE tab[t]]
    /\ row' = [r \in Rows |-> [row[r] EXCEPT !.left = IF @ > 0 THEN @ - 1 ELSE @]]
    /\ polls' = 0
    /\ UNCHANGED <<cookie, call, overlaps, away>>

-----------------------------------------------------------------------------
(* Responses.  A refused request sends its page to the login.  A page that *)
(* is left hears of no answer any more.                                    *)
Abandoned(request, t) == IF request.tab = t THEN [request EXCEPT !.tab = "none"] ELSE request

Answer(q, cookieAfter, page) ==
    LET t == call[q].tab IN
    /\ cookie' = cookieAfter
    /\ tab' = IF t = "none" THEN tab ELSE [tab EXCEPT ![t] = page]
    /\ call' = [p \in Requests |->
                  IF p = q THEN NoCall
                  ELSE IF t # "none" /\ ~page.open THEN Abandoned(call[p], t)
                  ELSE call[p]]
    /\ UNCHANGED bounds

ToLogin(q, cookieAfter) == Answer(q, cookieAfter, ClosedPage)

(* resolve_officer_session with touch, as the dependency session_user.     *)
Load(q) ==
    LET r == call[q].row IN
    /\ call[q].step = "load"
    /\ IF r = "none" \/ row[r].state # "active"
       THEN ToLogin(q, "none")
       ELSE /\ call' = [call EXCEPT ![q].step = "resolve",
                                    ![q].seen = IF row[r].left = 0 THEN "expired" ELSE "active"]
            /\ UNCHANGED <<cookie, tab, bounds>>
    /\ UNCHANGED <<row, away>>

ExpireSession(q) ==
    /\ call[q].step = "resolve" /\ call[q].seen = "expired"
    /\ row' = [row EXCEPT ![call[q].row].state = "ended", ![call[q].row].reason = "idle_timeout"]
    /\ ToLogin(q, "none")
    /\ UNCHANGED <<away>>

(* The whole row is written back as it was loaded.                         *)
TouchWholeRow(q) ==
    /\ call[q].step = "resolve" /\ call[q].seen = "active"
    /\ row' = [row EXCEPT ![call[q].row].left = Timeout, ![call[q].row].state = "active"]
    /\ call' = [call EXCEPT ![q].step = "handler"]
    /\ UNCHANGED <<cookie, tab, bounds, away>>

TouchSession(q) ==
    /\ call[q].step = "resolve" /\ call[q].seen = "active"
    /\ row' = [row EXCEPT ![call[q].row].left = Timeout]
    /\ call' = [call EXCEPT ![q].step = "handler"]
    /\ UNCHANGED <<cookie, tab, bounds, away>>

(* The handlers behind it; require_csrf compares with the request's cookie.*)
(* The answer to a poll reaches no page.                                   *)
Permitted(q) == call[q].csrf = call[q].row

HandlePage(q) ==
    /\ call[q].step = "handler" /\ call[q].kind \in {"page", "poll", "extend", "resume"}
    /\ LET page == IF call[q].tab = "none" THEN ClosedPage ELSE tab[call[q].tab] IN
       \/ call[q].kind = "page" /\ Answer(q, call[q].row, LoadedPage(call[q].row))
       \/ call[q].kind = "poll" /\ Answer(q, call[q].row, ClosedPage)
       \/ call[q].kind \notin {"page", "poll"} /\ ~Permitted(q) /\ ToLogin(q, call[q].row)
       \/ call[q].kind = "extend" /\ Permitted(q) /\ Answer(q, call[q].row, page)
       \/ call[q].kind = "resume" /\ Permitted(q)
          /\ Answer(q, call[q].row, [page EXCEPT !.idle = 0, !.touch = 0, !.locked = FALSE])
    /\ UNCHANGED <<row, away>>

(* active_officer_sessions of revoke_all_officer_sessions.                 *)
Listed(r) == row[r].state = "active" /\ row[r].left > 0

SelectAll(q) ==
    /\ call[q].step = "handler" /\ call[q].kind = "logoutAll"
    /\ IF Permitted(q)
       THEN /\ call' = [call EXCEPT ![q].step = "revoke", ![q].rows = {r \in Rows : Listed(r)}]
            /\ UNCHANGED <<cookie, tab, bounds>>
       ELSE ToLogin(q, call[q].row)
    /\ UNCHANGED <<row, away>>

RevokeAll(q) ==
    /\ call[q].step = "revoke"
    /\ row' = [r \in Rows |-> IF r \in call[q].rows
                              THEN [row[r] EXCEPT !.state = "ended", !.reason = call[q].reason]
                              ELSE row[r]]
    /\ ToLogin(q, "none")
    /\ UNCHANGED <<away>>

(* logout does not resolve the session: it checks the CSRF token and ends  *)
(* the row of the cookie if it finds it not ended.                         *)
LoadToEnd(q) ==
    /\ call[q].step = "end"
    /\ IF call[q].row = "none" \/ ~Permitted(q)
       THEN ToLogin(q, call[q].row)
       ELSE /\ call' = [call EXCEPT ![q].step = "signout", ![q].seen = row[call[q].row].state]
            /\ UNCHANGED <<cookie, tab, bounds>>
    /\ UNCHANGED <<row, away>>

EndSession(q) ==
    /\ call[q].step = "signout"
    /\ row' = IF call[q].seen = "active"
              THEN [row EXCEPT ![call[q].row].state = "ended", ![call[q].row].reason = call[q].reason]
              ELSE row
    /\ ToLogin(q, "none")
    /\ UNCHANGED <<away>>

-----------------------------------------------------------------------------
Served(q) ==
    \/ Load(q) \/ ExpireSession(q) \/ TouchSession(q) \/ HandlePage(q)
    \/ SelectAll(q) \/ RevokeAll(q) \/ LoadToEnd(q) \/ EndSession(q)

SessionNext ==
    \/ \E q \in Requests : Served(q) \/ Poll(q)
    \/ \E t \in Tabs : Login(t)
    \/ \E q \in Requests, t \in Tabs :
          \/ OpenPage(q, t) \/ Activity(q, t) \/ ResumePage(q, t)
          \/ SignOut(q, t, "logout") \/ SignOut(q, t, "logoutAll") \/ IdleTick(q, t)
    \/ LeaveForGood \/ SessionTick

(* Requests are answered, timers fire and time passes.                     *)
SessionFairness ==
    /\ \A q \in Requests : WF_sessionVars(Served(q))
    /\ \A t \in Tabs : WF_sessionVars(\E q \in Requests : IdleTick(q, t))
    /\ WF_sessionVars(SessionTick)

-----------------------------------------------------------------------------
SessionTypeOK ==
    /\ row \in [Rows -> OfficerSession]
    /\ cookie \in Rows \cup {"none"}
    /\ tab \in [Tabs -> Page]
    /\ \A q \in Requests : call[q].row \in Rows \cup {"none"} /\ call[q].rows \subseteq Rows

(* An ended session never comes back: a request that resolved it before it *)
(* was ended touches its expiry and counters, not its end, and a cookie    *)
(* that a late response restores names a row that stays ended.             *)
EndedIsFinal ==
    [][\A r \in Rows : row[r].state = "ended" => row'[r].state = "ended"]_sessionVars

(* No request that the page waits for is under way.                        *)
Reported(t) == \A q \in Requests : call[q].tab # t

(* The deadline of the server lags the one the page counts down to by no   *)
(* more than the interval at which activity is reported.                   *)
ServerNearPageDeadline ==
    \A t \in Tabs :
       tab[t].open /\ tab[t].under # "none" /\ Reported(t) =>
          row[tab[t].under].left >= Timeout - tab[t].idle - Touch

(* The inductive invariant of the two: a handler runs on a row that was    *)
(* touched just now, as no time passes while a request is under way; the   *)
(* page that waits for an answer to its activity is open, and under the row*)
(* that the request will touch unless it has been loaded again just now;   *)
(* and every open page is near the deadline or reports activity.           *)
SessionRequest ==
    [kind: {"none", "page", "poll", "extend", "resume", "logout", "logoutAll"},
     tab: Tabs \cup {"none"}, row: Rows \cup {"none"}, csrf: Rows \cup {"none"},
     step: {"none", "load", "resolve", "handler", "revoke", "end", "signout"},
     seen: {"none", "unused", "active", "ended", "expired"},
     reason: {"none", "idle_timeout", "officer_signout"}, rows: SUBSET Rows]

JustTouched(rows, r) == r \in Rows => rows[r].left = Timeout

HandledIsTouched ==
    \A q \in Requests :
       /\ call[q].step \in {"resolve", "handler"} => call[q].row \in Rows
       /\ call[q].step = "handler" => JustTouched(row, call[q].row)

SenderIsOpen ==
    \A q \in Requests : \A t \in Tabs :
       call[q].tab = t /\ call[q].kind \in {"extend", "resume"} =>
          /\ tab[t].open
          /\ call[q].csrf = tab[t].under \/ JustTouched(row, tab[t].under)

NearDeadline(rows, page) ==
    page.under \in Rows =>
       /\ rows[page.under].left >= Timeout - page.idle - Touch
       /\ page.touch < Touch => rows[page.under].left >= Timeout - page.touch

Reporting(t) == \E q \in Requests : call[q].tab = t /\ call[q].kind = "extend"

OpenIsNear == \A t \in Tabs : tab[t].open => NearDeadline(row, tab[t]) \/ Reporting(t)

SessionInv ==
    /\ SessionTypeOK /\ call \in [Requests -> SessionRequest]
    /\ HandledIsTouched /\ SenderIsOpen /\ OpenIsNear

(* An unattended workstation: once the officer has left, every page is     *)
(* obscured or gone and every session is ended or expired, for good.  The  *)
(* polls of a page touch its session as the officer's own requests do, so  *)
(* this rests on the page, which signs out by its own clock, even when the *)
(* session it may end is another than the one it polls.                    *)
UnattendedSessionsEnd ==
    away ~> [](/\ \A t \in Tabs : tab[t].open => tab[t].locked
               /\ \A r \in Rows : row[r].state = "active" => row[r].left = 0)

SessionSpec == SessionInit /\ [][SessionNext]_sessionVars /\ SessionFairness
=============================================================================
