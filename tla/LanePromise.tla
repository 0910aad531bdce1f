------------------------------ MODULE LanePromise ------------------------------
(***************************************************************************)
(* What a lane's container promises to the driver outside it, local or in  *)
(* the cloud: it answers while the bridge is up, anything of Looks at each *)
(* look; a report counts as complete only of a review whose result was     *)
(* accepted, and is written once the bridge is gone; the runner's last     *)
(* word comes after it.  LaneRunner implements this; LocalLane and         *)
(* CloudLane are built on it.                                              *)
(***************************************************************************)
EXTENDS LaneSight

VARIABLES
  link,    \* the bridge's socket: "soon", "up" or "gone"
  report,  \* report.json: "none", "partial" or "complete"
  taken,   \* the candidate the bridge accepted
  ended    \* the runner's last word is an ending (of Ends)

laneVars == <<link, report, taken, ended>>

LaneInit == link = "soon" /\ report = "none" /\ taken = "none" /\ ended = FALSE

\* What an inspect may answer.  A review is done only by an accept.
Looks == {v \in Views : v.state = "done" => taken # "none"}

Opens == link = "soon" /\ link' = "up" /\ UNCHANGED <<report, taken, ended>>

\* The bridge's own judgement of an accept.
Accept == link = "up" /\ taken' \in Candidates /\ UNCHANGED <<link, report, ended>>

\* The bridge, the report and the last word, in this order.
Closes ==
  /\ ~ended /\ link' = "gone" /\ ended' \in BOOLEAN
  /\ \/ report' = report
     \/ report = "none" /\ report' = "partial"
     \/ report = "none" /\ report' = "complete" /\ taken # "none" /\ link = "gone"
  /\ UNCHANGED taken

LaneNext == Opens \/ Accept \/ Closes
LaneSpec == LaneInit /\ [][LaneNext]_laneVars
===============================================================================
