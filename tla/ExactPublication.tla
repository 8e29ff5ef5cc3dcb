-------------------------- MODULE ExactPublication --------------------------
(* What publication promises to the reader of a playlist: it is put         *)
(* together track by track in the order of the manifest and shown when it   *)
(* is the manifest, not before and never changed afterwards.                *)
EXTENDS Integers

CONSTANTS Count,   \* tracks of the manifest
          Batch    \* tracks added at once, at most

VARIABLES content,   \* tracks of the manifest the playlist holds, in order
          status     \* "open" or "published"

Init == content = 0 /\ status = "open"

Extend ==
    /\ status = "open"
    /\ content' \in content + 1 .. content + Batch
    /\ content' <= Count
    /\ UNCHANGED status

\* The playlist is given up for a new one.
Restart == status = "open" /\ content' = 0 /\ UNCHANGED status

Publish == status = "open" /\ content = Count /\ status' = "published" /\ UNCHANGED content

Next == Extend \/ Restart \/ Publish

Spec == Init /\ [][Next]_<<content, status>>
=============================================================================
