-------------------------- MODULE MCMissionDownload --------------------------
(* Small instances of MissionDownload for TLC. *)
EXTENDS MissionDownload

CONSTANTS vehicle, bystander, wp1, wp2

NoEndpoints   == {}
OneBystander  == {bystander}
VehicleTalks  == {vehicle}
AllTalk       == {vehicle, bystander}
TwoWaypoints  == {wp1, wp2}

(* The vehicle may have no mission. *)
AllMissions == {<<>>, <<wp1>>, <<wp2, wp1, wp2>>}
UpToTwoItems == {<<>>, <<wp1>>, <<wp2, wp1>>}
OneMission  == {<<wp1, wp2>>}
=============================================================================
