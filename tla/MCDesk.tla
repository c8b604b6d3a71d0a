--------------------------------- MODULE MCDesk ---------------------------------
(* The three components of an officer's desk that share no state, checked   *)
(* in one run: each behaviour is one of PresenceMonitor, OfficerSessions or  *)
(* DispatchSla, with the other two at rest.                                  *)
EXTENDS PresenceMonitor, OfficerSessions, DispatchSla

VARIABLE component

deskVars == <<component, presenceVars, sessionVars, dispatchVars>>

Init ==
    /\ component \in {"presence", "sessions", "dispatch"}
    /\ PresenceInit /\ (component # "presence" => toggle = "idle" /\ ~hidden)
    /\ SessionInit
    /\ DispatchInit

Next ==
    /\ UNCHANGED component
    /\ \/ component = "presence" /\ PresenceNext /\ UNCHANGED <<sessionVars, dispatchVars>>
       \/ component = "sessions" /\ SessionNext /\ UNCHANGED <<presenceVars, dispatchVars>>
       \/ component = "dispatch" /\ DispatchNext /\ UNCHANGED <<presenceVars, sessionVars>>

(* What is fair in a component is disabled while it rests.                   *)
Spec == Init /\ [][Next]_deskVars /\ PresenceFairness /\ SessionFairness

DeskTypeOK == PresenceTypeOK /\ SessionTypeOK /\ DispatchTypeOK
=============================================================================
