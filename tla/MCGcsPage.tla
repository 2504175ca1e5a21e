------------------------------ MODULE MCGcsPage ------------------------------
(* Small instances of GcsPage for TLC.  A .cfg that needs fewer points gives two of them one value. *)
EXTENDS GcsPage

CONSTANTS home, origin, east, west

EastPoints == {home, origin, east}
WestPoints == {west}
AllPoints  == EastPoints \union WestPoints
NoPoints   == {}

AnyPage    == BOOLEAN
LaterPage  == {FALSE}
AnyCurrent == BOOLEAN
NoFraction == {TRUE}

WayMission(points) == [points |-> points, rtl |-> FALSE]
RtlMission(points) == [points |-> points, rtl |-> TRUE]

(* Missions of no and of two waypoints; one ends with a return.            *)
OneMission   == {RtlMission(<<east, home>>)}
TwoMissions  == OneMission \union {WayMission(<<home, east>>)}
SomeMissions == TwoMissions \union {NoMission}
=============================================================================
