----------------------------- MODULE MCServices -----------------------------
(***************************************************************************)
(* One instance each of CostLedger, CatalogCache, Retrieval and            *)
(* AppleWriteGateway for TLC.  The four share no state, so one run checks  *)
(* them side by side: a behaviour is one of the component that `service`   *)
(* names, and the others stay in one of their initial states.              *)
(***************************************************************************)
EXTENDS CostLedger, CatalogCache, Retrieval, AppleWriteGateway, TLC

CONSTANTS k1, k2, r1,          \* two operations of one run
          p1, p2, q1, q2, q3   \* three requests in two processes

\* Both operations charge one run, so that they compete for its budget.
OneRun == [k \in Keys |-> r1]

\* Two requests share a process and can join, the third is in the other one.
TwoProcesses == [c \in Requests |-> IF c = q3 THEN p2 ELSE p1]

\* Four strategies in two tiers: a local one, one that asks a hosted search,
\* one that asks Apple, and a fallback that asks both.
Portfolio == 1..4
PortfolioTier == <<1, 1, 1, 2>>
PortfolioRounds == <<1, 2, 2, 1>>
PortfolioNeeds == <<{}, {"hosted"}, {"apple"}, {"apple", "hosted"}>>
PortfolioQualifies == <<{}, {"apple"}, {"apple"}, {"apple"}>>

-----------------------------------------------------------------------------
VARIABLE service

vars == <<service, ledgerVars, cacheVars, retrievalVars, gatewayVars>>

\* The components that are not named begin in one fixed initial state.
CacheAside == service # "cache" => entry = "none"
RetrievalAside == service # "retrieval" => ~broken /\ pool = 0

Init ==
    /\ service \in {"ledger", "cache", "retrieval", "gateway"}
    /\ LedgerInit /\ CacheInit /\ RetrievalInit /\ GatewayInit
    /\ CacheAside /\ RetrievalAside

LedgerStep == service = "ledger" /\ LedgerNext /\ UNCHANGED <<service, cacheVars, retrievalVars, gatewayVars>>
CacheStep == service = "cache" /\ CacheNext /\ UNCHANGED <<service, ledgerVars, retrievalVars, gatewayVars>>
RetrievalStep == service = "retrieval" /\ RetrievalNext /\ UNCHANGED <<service, ledgerVars, cacheVars, gatewayVars>>
CallStep == service = "retrieval" /\ Proceed /\ UNCHANGED <<service, ledgerVars, cacheVars, gatewayVars>>
GatewayStep == service = "gateway" /\ GatewayNext /\ UNCHANGED <<service, ledgerVars, cacheVars, retrievalVars>>

Next == LedgerStep \/ CacheStep \/ RetrievalStep \/ GatewayStep

Spec == Init /\ [][Next]_vars /\ WF_vars(CallStep)

\* The four components stay within their types and limits.
ServicesTypeOK == LedgerTypeOK /\ CacheTypeOK /\ RetrievalTypeOK /\ GatewayTypeOK

\* Retrieval ends (RetrievalEnds), in the behaviours that are retrieval's.
RetrievalSettles == service = "retrieval" => RetrievalEnds
=============================================================================
