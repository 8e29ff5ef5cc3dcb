--------------------------- MODULE MCPublishedRun ---------------------------
(***************************************************************************)
(* One instance each of ApplePublication and SharedRun for TLC: a run      *)
(* while it is published, and afterwards.  The two share no state; a       *)
(* behaviour is one of the part that `part` names, the other part stays in *)
(* one of its initial states.                                              *)
(***************************************************************************)
EXTENDS ApplePublication, SharedRun, TLC

VARIABLE part

allVars == <<part, vars, sharingVars>>

SharingAside ==
    part # "sharing" => canonical = "complete" /\ access[Min(Visitors)] = "live"

RunInit == part \in {"publication", "sharing"} /\ Init /\ SharingInit /\ SharingAside

PublicationStep == part = "publication" /\ Next /\ UNCHANGED <<part, sharingVars>>
SharingStep == part = "sharing" /\ SharingNext /\ UNCHANGED <<part, vars>>

\* The fairness of either part, in the behaviours that are its own.
RunFairness ==
    LET publishing == part = "publication"
        sharing == part = "sharing"
    IN  /\ \A e \in Execs :
             WF_vars(publishing /\ (Step(e) \/ LookFails(e) \/ PermitRefused(e) \/ Rejected(e)))
        /\ WF_vars(publishing /\ Take) /\ WF_vars(publishing /\ LateArrives)
        /\ WF_vars(publishing /\ LeaseExpires /\ UNCHANGED troubles)
        /\ WF_vars(publishing /\ Reauthorize) /\ WF_vars(publishing /\ Recover)
        /\ \A p \in Lists : WF_vars(publishing /\ Shows(p))
        /\ \A v \in Visitors :
             /\ WF_sharingVars(sharing /\ JoinStep(v))
             /\ SF_sharingVars(sharing /\ DeletionStep(v))
        /\ \A k \in Captors : WF_sharingVars(sharing /\ CaptureStep(k))
        /\ WF_sharingVars(sharing /\ OwnerStep) /\ SF_sharingVars(sharing /\ PurgeStep)
        /\ WF_sharingVars(sharing /\ SweepStep) /\ WF_sharingVars(sharing /\ Abort)

\* Publication may stop anywhere; whoever waits in the sharing must not.
Stopped == part = "publication" /\ UNCHANGED allVars

RunNext == PublicationStep \/ SharingStep \/ Stopped

RunSpec == RunInit /\ [][RunNext]_allVars /\ RunFairness

\* Publication ends (PublicationEnds), in the behaviours that are its own.
PublishedRunEnds == part = "publication" => PublicationEnds

\* The two parts stay within their types.
RunTypeOK == TypeOK /\ SharedRunTypeOK
=============================================================================
