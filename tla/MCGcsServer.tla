----------------------------- MODULE MCGcsServer -----------------------------
(* Small instances of GcsServer for TLC. *)
EXTENDS GcsServer

CONSTANTS c1, c2, p1, p2, garbage

OneClient  == {c1}
TwoClients == {c1, c2}
OnePoint   == {p1}
TwoPoints  == {p1, p2}

OneMessage == {1}
UpToOne    == {0, 1}
UpToTwo    == {0, 1, 2}

UploadPayloads  == {"waypoint", "waitForMission", "uploadMission"}
DownloadOnly    == {"getMission"}
FlightPayloads  == CommandPayloads \union {"autoRTL"}
RoutePayloads   == FlightPayloads \union {"waypoint", "waitForMission"}
=============================================================================
