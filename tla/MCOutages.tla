------------------------------ MODULE MCOutages ------------------------------
(***************************************************************************)
(* One instance each of DependencyCircuit and ResearchPasses for TLC: what *)
(* an outage of the provider does to a V3 run and to a factual V2 run.  A  *)
(* run has one of the two pipelines, so they share no state: a behaviour   *)
(* is one of the pipeline that `pipeline` names, and the other one stays   *)
(* in one of its initial states.                                           *)
(***************************************************************************)
EXTENDS DependencyCircuit, ResearchPasses

\* Two slots of the circuit; the jitter moves the second one.
TwoSlots == <<{1}, {1, 2}>>

-----------------------------------------------------------------------------
VARIABLE pipeline

vars == <<pipeline, circuitVars, researchVars>>

V3 == pipeline = "v3" /\ UNCHANGED <<pipeline, researchVars>>
V2 == pipeline = "v2" /\ UNCHANGED <<pipeline, circuitVars>>

Init ==
    /\ pipeline \in {"v2", "v3"}
    /\ CircuitInit /\ ResearchInit
    /\ pipeline = "v3" => ~contract

CircuitStep == V3 /\ CircuitNext
ResearchStep == V2 /\ ResearchNext
Next == CircuitStep \/ ResearchStep

\* The fairness of CircuitSpec and ResearchSpec.
Spec == Init /\ [][Next]_vars
        /\ WF_vars(V3 /\ Worker) /\ WF_vars(V3 /\ Tick)
        /\ WF_vars(V2 /\ Research) /\ WF_vars(V2 /\ WindowPasses)

-----------------------------------------------------------------------------
\* Both components stay within their types and limits.
OutagesTypeOK == CircuitTypeOK /\ ResearchTypeOK

\* Every outage comes to a verdict (OutageEnds), in the V3 pipeline.
OutageSettles == pipeline = "v3" => OutageEnds

\* Open research ends (ResearchEnds), in the V2 pipeline.
ResearchSettles == pipeline = "v2" => ResearchEnds
=============================================================================
