-------------------------------- MODULE MCTracing --------------------------------
(* The components of a trace and of what follows it that share no state in   *)
(* their models, checked in one run: each behaviour is one of LotExpansion,   *)
(* TraceSnapshots, ProviderRequests, WalletWatch, Custody or NarrativeIntake, *)
(* with the others at rest.                                                   *)
EXTENDS LotExpansion, TraceSnapshots, ProviderRequests, WalletWatch, Custody,
        NarrativeIntake, TLC

VARIABLE component

tracingVars == <<component, lotVars, snapshotVars, providerVars, watchVars, custodyVars,
                 narrativeVars>>

Pay(p, n) == [src |-> p[1], dst |-> p[2], amount |-> n]

(* Every transfer in a transaction of its own, or the first two in one, with the   *)
(* indices of their events or without.                                             *)
Apart(h) == [i \in DOMAIN h |-> h[i] @@ [tx |-> i, log |-> i]]

Together(h, numbered) ==
    [i \in DOMAIN h |-> h[i] @@ [tx |-> IF i = 2 THEN 1 ELSE i, log |-> IF numbered THEN i ELSE 0]]

Late == Pay(<<"s", "b">>, 3)

Ordinary ==
    {Pay(p, n) : p \in {<<"s", "a">>, <<"s", "b">>, <<"a", "b">>, <<"b", "a">>}, n \in {1, 3}}
        \cup {Pay(<<"a", "s">>, 3), Pay(<<"s", "none">>, 3)}

Onward == Pay(<<"b", "c">>, 3)

Refused == {<<Pay(<<"s", "a">>, 8), Pay(<<"s", "b">>, 1), Pay(<<"s", "b">>, 2), Onward, Late>>,
            <<Pay(<<"s", "a">>, 4), Pay(<<"a", "b">>, 8), Pay(<<"a", "b">>, 1), Pay(<<"a", "b">>, 2), Late>>}

Single == Apart(<<Late>>)

Meeting == <<Pay(<<"s", "a">>, 3), Pay(<<"a", "b">>, 3), Pay(<<"s", "b">>, 1), Onward, Late>>

(* Routes that join at b and go on; a cycle through the reported address; a cycle  *)
(* of a and b; attributions that are refused.                                      *)
MCWorked ==
    LET followed ==
            {<<Pay(<<"s", "a">>, 3), Pay(<<"s", "b">>, 1), Pay(<<"a", "b">>, 3), Onward, Pay(<<"c", "d">>, 3)>>,
             <<Pay(<<"s", "a">>, 3), Pay(<<"a", "b">>, 3), Pay(<<"b", "s">>, 3), Pay(<<"s", "c">>, 2), Late>>,
             <<Pay(<<"s", "b">>, 2), Pay(<<"b", "a">>, 1), Pay(<<"a", "b">>, 3), Onward, Late>>}
    IN  {Apart(h) : h \in followed \cup Refused}

(* Every list of three of these transfers, followed by one from b to c and     *)
(* one from s to b that is after WindowEnd; two transfers of one transaction;  *)
(* those above; and a single transfer.                                         *)
MCHistories ==
    {Apart(h \o <<Onward, Late>>) : h \in [1..3 -> Ordinary]}
        \cup {Together(Meeting, numbered) : numbered \in BOOLEAN} \cup MCWorked \cup {Single}

MCTransfers == {[from |-> 3, to |-> 2, ts |-> 2, reported |-> FALSE],
                [from |-> 1, to |-> 2, ts |-> 3, reported |-> FALSE]}

Response(ref, credit, available, tables) ==
    [ref |-> ref, credit |-> credit, available |-> available, tables |-> tables]

MCResponses == {Response("r1", "c1", 1, {"ledger", "kyc"}),
                Response("r1", "c1", 1, {"ledger"}),
                Response("r2", "c1", 2, {})}

(* Changes of the watchlist that overlap each other and the cycle, while no        *)
(* transfer is confirmed, the case stays open and the clock stands still; two of   *)
(* them at a time.                                                                 *)
OverlappingChanges ==
    /\ WatchNext /\ UNCHANGED <<time, caseOpen, confirmed>>
    /\ cycle' # NoCycle => \E o \in Officers : change'[o] = NoChange

(* Or a change at a time, between two cycles that start undisturbed.               *)
ChangesInTurn ==
    /\ WatchNext
    /\ change # [o \in Officers |-> NoChange] \/ cycle # NoCycle
          => change' = [o \in Officers |-> NoChange]
    /\ cycle.pc = "reading" => cycle' # cycle

AtRest ==
    /\ component # "trace" => /\ chain = Single /\ engine = "TRON" /\ ~byHash
                              /\ strategy = "dominant_fund_flow"
    /\ component # "snapshots" => snapshots = <<>>

Init ==
    /\ component \in {"trace", "snapshots", "provider", "watchlist", "watch", "custody", "narratives"}
    /\ TraceInit /\ LotsInit /\ SnapshotsInit /\ ProviderInit /\ WatchInit /\ CustodyInit
    /\ NarrativesInit
    /\ AtRest

Next ==
    /\ UNCHANGED component
    /\ \/ /\ component = "trace" /\ LotsStep
          /\ UNCHANGED <<snapshotVars, providerVars, watchVars, custodyVars, narrativeVars>>
       \/ /\ component = "snapshots" /\ SnapshotsNext
          /\ UNCHANGED <<lotVars, providerVars, watchVars, custodyVars, narrativeVars>>
       \/ /\ component = "provider" /\ ProviderNext
          /\ UNCHANGED <<lotVars, snapshotVars, watchVars, custodyVars, narrativeVars>>
       \/ /\ \/ component = "watchlist" /\ OverlappingChanges
             \/ component = "watch" /\ ChangesInTurn
          /\ UNCHANGED <<lotVars, snapshotVars, providerVars, custodyVars, narrativeVars>>
       \/ /\ component = "custody" /\ CustodyNext
          /\ UNCHANGED <<lotVars, snapshotVars, providerVars, watchVars, narrativeVars>>
       \/ /\ component = "narratives" /\ NarrativesNext
          /\ UNCHANGED <<lotVars, snapshotVars, providerVars, watchVars, custodyVars>>

Spec == Init /\ [][Next]_tracingVars

WorkedSpec == component = "trace" /\ chain \in MCWorked /\ Init /\ [][Next]_tracingVars

(* The requests and threads of all components go by the same names, which    *)
(* are interchangeable.                                                       *)
Alike == Permutations(Tracers)

TracingTypeOK ==
    /\ TraceTypeOK /\ LotsTypeOK /\ SnapshotsTypeOK /\ ProviderTypeOK /\ WatchTypeOK /\ CustodyTypeOK
    /\ NarrativesTypeOK
=============================================================================
