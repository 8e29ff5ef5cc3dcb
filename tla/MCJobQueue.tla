----------------------------- MODULE MCJobQueue -----------------------------
(* Instances of JobQueue for TLC.                                          *)
EXTENDS JobQueue, TLC

CONSTANTS j1, j2, j3, j4, r1, deep, manifest

\* Every job researches one run, in the deep lane, or outside it when fast.
ResearchRun == [j \in Jobs |-> r1]
Research == [j \in Jobs |-> "research"]
Deep == [j \in Jobs |-> deep]
DeepAndFast == [j \in Jobs |-> IF j \in {j1, j2} THEN deep ELSE NoLane]

\* A publication job: publications of one manifest share a lane.
Publication == [j \in Jobs |-> "publication"]
OneManifest == [j \in Jobs |-> manifest]

\* Three instances in one.  Nothing disturbs a job whose first execution is in
\* its handler when its lease expires, and which can then be leased twice behind
\* it.  After one attempt that ended in a retry a request or a failing call
\* disturbs what is left of the job, and after two of them both do.
InHandler(w) ==
    [pc |-> "handler", job |-> j1, worker |-> w, epoch |-> 1, begun |-> TRUE,
     lost |-> FALSE, aborted |-> FALSE, control |-> "none",
     plan |-> "complete", cause |-> "none", catching |-> FALSE]
Overtaken ==
    /\ spare = [pauses |-> 0, requests |-> 0, faults |-> 0]
    /\ \E w \in Workers, e \in Execs :
         /\ job = [j \in Jobs |-> [status |-> "leased", owner |-> w, epoch |-> 1,
                                   live |-> FALSE, due |-> TRUE, attempts |-> 1]]
         /\ exec = [x \in Execs |-> IF x = e THEN InHandler(w) ELSE Idle]
         /\ active = [v \in Workers |-> [j \in Jobs |-> IF v = w THEN e ELSE NoExec]]
    /\ attempt = [j \in Jobs |-> [g \in Generations |-> IF g = 1 THEN "running" ELSE "none"]]
Retried(times) ==
    /\ \E requests \in 0..MaxRequests, faults \in 0..MaxFaults :
         /\ requests + faults = times
         /\ spare = [pauses |-> 0, requests |-> requests, faults |-> faults]
    /\ job = [j \in Jobs |-> [status |-> "queued", owner |-> NoWorker, epoch |-> times,
                              live |-> FALSE, due |-> TRUE, attempts |-> times]]
    /\ attempt = [j \in Jobs |-> [g \in Generations |->
                     IF g \in 1..times THEN "finished" ELSE "none"]]
    /\ exec = [e \in Execs |-> Idle]
    /\ active = [w \in Workers |-> [j \in Jobs |-> NoExec]]
FencingInit ==
    /\ Overtaken \/ Retried(1) \/ Retried(2)
    /\ run = [r \in Runs |-> "active"]
    /\ worker = [w \in Workers |-> "up"]
    /\ paused = {} /\ overtaken = {}
    /\ blame = [r \in Runs |-> "none"]

FencingSpec == FencingInit /\ [][Next]_vars

Symmetry == Permutations(Execs) \cup Permutations(Workers)
LaneSymmetry == Symmetry \cup Permutations({j1, j2}) \cup Permutations({j3, j4})
=============================================================================
