------------------------------- MODULE GcsPage -------------------------------
(***************************************************************************)
(* The page of the ground station: the script of index.html and its client *)
(* main.kt, connected to the backend by one WebSocket.                     *)
(*                                                                         *)
(* The page's buttons and clicks change its lists and raise flags.  The    *)
(* client acts only when a message of the backend arrives: it shows the    *)
(* mission in it if one was asked for, then turns the flags into payloads. *)
(* A mission is asked for with "getMission" and recognised by its number.  *)
(*                                                                         *)
(* The backend is reduced to what the page depends on: it handles payloads *)
(* in order, unless the page came over the server's first connection, whose *)
(* payloads are dropped; it downloads a mission when asked, whether or not *)
(* the page was told the one before; and it is the board of MissionBoard,  *)
(* which GcsServer implements, with the page as its client.                *)
(***************************************************************************)
EXTENDS Integers, Sequences, SequencesExt

CONSTANTS
  Points,       \* places on the map
  Home,         \* where the drone is when a route is begun
  Origin,       \* latitude 0, longitude 0
  Negative,     \* places with a negative latitude or longitude
  Missions,     \* what a download may find on the vehicle
  WholeAmperes, \* may the battery's current be a whole number: TRUE, FALSE
  FirstPages,   \* may the page be the first to connect: TRUE, FALSE
  MaxClicks,    \* bound: what the user does
  MaxOthers,    \* bound: missions other pages ask for
  MaxReloads,   \* bound: reloads of the page
  MaxQueue      \* bound: messages on their way to the page

(* A mission is its waypoints and whether a return to launch ends it.      *)
NoMission == [points |-> <<>>, rtl |-> FALSE]

ASSUME PointsAssumption == {Home, Origin} \union Negative \subseteq Points
ASSUME MissionsAssumption == Missions \subseteq [points : Seq(Points), rtl : BOOLEAN]
ASSUME ChoicesAssumption == WholeAmperes \subseteq BOOLEAN /\ FirstPages \subseteq BOOLEAN
ASSUME BoundsAssumption ==
  MaxClicks \in Nat /\ MaxOthers \in Nat /\ MaxReloads \in Nat /\ MaxQueue \in Nat \ {0}

VARIABLES
  page,               \* the globals and the document of index.html
  isFirstGetMission, waitForMissionID, lastGcsMissionID,   \* locals of connect
  toPage, toServer,   \* the WebSocket, one queue each way
  number, mission, seen, lost,   \* the board of the backend
  mute,               \* the page's connection has no message handler
  downloading, requested,   \* main is in a download; recieved_mission
  mission_points,
  clicks, others, reloads,  \* counters for the bounds
  published,          \* published[n + 1]: the mission of number n
  passedOver,         \* numbers replaced before the page was told them
  careless            \* the user did what the page does not cope with

client  == <<isFirstGetMission, waitForMissionID, lastGcsMissionID>>
board   == <<number, mission, seen, lost>>
history == <<published, passedOver>>
backend == <<board, mute, downloading, requested, history>>
bounds  == <<clicks, others, reloads>>
vars == <<page, client, toPage, toServer, backend, mission_points, bounds, careless>>

ThisPage == "page"
Backend == INSTANCE MissionBoard WITH Clients <- {ThisPage}

(* route is clickedCoordinates; markers are the positions of the waypoint  *)
(* markers; entries are the indices in the list of waypoints, after filler *)
(* nodes of text that the document begins with.                            *)
NewPage ==
  [route |-> <<>>, markers |-> <<>>, entries |-> <<>>, filler |-> 3, returnLine |-> FALSE,
   takeoffPanel |-> FALSE, first |-> TRUE, canFly |-> FALSE, upload |-> FALSE,
   deleteMissions |-> FALSE, autoRTL |-> FALSE, RTL |-> FALSE, mission |-> TRUE]

Init ==
  /\ page = NewPage
  /\ isFirstGetMission = TRUE /\ waitForMissionID = FALSE /\ lastGcsMissionID = 0
  /\ toPage = <<>> /\ toServer = <<>>
  /\ Backend!Init /\ lost = {} /\ published = <<NoMission>> /\ passedOver = {}
  /\ mute \in FirstPages /\ downloading = FALSE /\ requested = TRUE
  /\ mission_points = <<>>
  /\ clicks = 0 /\ others = 0 /\ reloads = 0 /\ careless = FALSE
-----------------------------------------------------------------------------
(* The user.  Drawing can be switched on at any time, so the switch is not *)
(* modelled; opening and closing panels changes nothing.                   *)

User(newPage) ==
  /\ clicks < MaxClicks /\ clicks' = clicks + 1
  /\ page' = newPage
  /\ UNCHANGED <<client, toPage, toServer, backend, mission_points, others, reloads>>

Awaiting == page.mission \/ waitForMissionID

(* The entries of a list filled anew: the first coordinate has none.       *)
EntriesOf(route) == [i \in 1..(Len(route) - 1) |-> i]

MapClick(p) ==
  LET new   == IF page.first THEN <<Home, p>> ELSE <<p>>
      route == page.route \o new
  IN  /\ User([page EXCEPT !.route = route, !.markers = @ \o new, !.first = FALSE,
                           !.entries = Append(@, Len(route) - 1)])
      /\ careless' = (careless \/ Awaiting)

AllButLast(s) == IF s = <<>> THEN s ELSE Front(s)

(* Removing a child of an empty list throws, and the marker stays.         *)
NoChild_Never(pg) == FALSE
NoChild(pg) == pg.entries = <<>> /\ pg.filler = 0

deleteLastWaypoint ==
  /\ User(IF NoChild(page)
          THEN [page EXCEPT !.route = AllButLast(@)]
          ELSE [page EXCEPT !.route = AllButLast(@), !.markers = AllButLast(@),
                            !.entries = AllButLast(@),
                            !.filler = IF page.entries = <<>> THEN @ - 1 ELSE @])
  /\ careless' = (careless \/ NoChild(page))

deleteAll ==
  /\ User([page EXCEPT !.route = <<>>, !.markers = <<>>, !.entries = <<>>, !.filler = 0,
                       !.returnLine = FALSE, !.first = TRUE, !.deleteMissions = TRUE])
  /\ UNCHANGED careless

getUploadedMission_KeepsRoute(pg) ==
  [pg EXCEPT !.markers = <<>>, !.entries = <<>>, !.filler = 0,
             !.returnLine = FALSE, !.mission = TRUE]
getUploadedMission(pg) ==
  [pg EXCEPT !.route = <<>>, !.markers = <<>>, !.entries = <<>>, !.filler = 0,
             !.returnLine = FALSE, !.mission = TRUE]

GetMissionButton == User(getUploadedMission(page)) /\ UNCHANGED careless

WithoutIndex(s, k) == SubSeq(s, 1, k) \o SubSeq(s, k + 2, Len(s))

(* The buttons of a list entry; entries that point beyond the route are    *)
(* left alone.  The coordinate k of the page is element k + 1 here.        *)
Entry(k) == k \in ToSet(page.entries) /\ k < Len(page.route) /\ k < Len(page.markers)

RemoveEntry(k) ==
  /\ Entry(k)
  /\ LET route == WithoutIndex(page.route, k)
     IN  User([page EXCEPT !.route = route, !.markers = route, !.filler = 0,
                           !.entries = EntriesOf(route)])
  /\ UNCHANGED careless

ApplyEntry(k, p) ==
  /\ Entry(k)
  /\ User([page EXCEPT !.route[k + 1] = p, !.markers[k + 1] = p])
  /\ UNCHANGED careless

enableToFly(pg) == [pg EXCEPT !.takeoffPanel = TRUE, !.upload = TRUE]

addReturnWaypoint(pg) ==
  IF pg.returnLine THEN pg ELSE [pg EXCEPT !.returnLine = TRUE, !.autoRTL = TRUE]

(* Without a route the map library is handed undefined points, and the     *)
(* handler may end there.                                                  *)
AddReturnButton ==
  /\ \/ User(addReturnWaypoint(page))
     \/ page.route = <<>> /\ User([page EXCEPT !.returnLine = TRUE])
  /\ UNCHANGED careless

PlainButton ==
  /\ \/ User(enableToFly(page))
     \/ User([page EXCEPT !.RTL = TRUE])
     \/ page.takeoffPanel /\ User([page EXCEPT !.canFly = TRUE])
  /\ UNCHANGED careless
-----------------------------------------------------------------------------
(* Showing a mission.                                                      *)

(* The parser finds one default item in a mission without items.  The      *)
(* current is parsed before the mission, after the mission's number, and   *)
(* unless it is a whole number that throws: no item is parsed.             *)
ItemsOf(m) == IF m = NoMission THEN [points |-> <<Origin>>, rtl |-> FALSE] ELSE m
parseJson(tel) == IF tel.whole THEN ItemsOf(tel.mission) ELSE NoMission

(* A waypoint is drawn; a return to launch behind two coordinates or more  *)
(* presses the buttons Add Return Waypoint and Enable to Fly.              *)
uploadWaypointData(pg, m) ==
  LET drawn == [pg EXCEPT !.route = @ \o m.points, !.markers = @ \o m.points,
                          !.first = IF m.points = <<>> THEN @ ELSE FALSE]
  IN  IF m.rtl /\ Len(drawn.route) > 1
      THEN [enableToFly(addReturnWaypoint(drawn)) EXCEPT !.first = FALSE]
      ELSE drawn

finishUploadWaypointData(pg) ==
  IF Len(pg.route) <= 1
  THEN [pg EXCEPT !.route = <<>>, !.markers = <<>>, !.first = TRUE]
  ELSE [pg EXCEPT !.entries = @ \o EntriesOf(pg.route)]

Shown(pg, tel) == finishUploadWaypointData(uploadWaypointData(pg, parseJson(tel)))
-----------------------------------------------------------------------------
(* The client: what it does with a message.                                *)

Payload(type) == [type |-> type]
Waypoint(p)   == [type |-> "waypoint", at |-> p]
UploadOf(r)   == [type |-> "uploadMission", route |-> r]   \* route: history

(* The pattern knows no minus sign.                                        *)
convertCoordinates[route \in Seq(Points)] ==
  LET kept[n \in 0..Len(route)] ==
        IF n = 0 THEN <<>>
        ELSE IF route[n] \in Negative THEN kept[n - 1] ELSE Append(kept[n - 1], route[n])
  IN  kept[Len(route)]

When(condition, sends) == IF condition THEN sends ELSE <<>>

Waypoints(coordinates) == [i \in DOMAIN coordinates |-> Waypoint(coordinates[i])]

UploadPayloads_NoClear(pg) == Waypoints(convertCoordinates[pg.route]) \o <<UploadOf(pg.route)>>
UploadPayloads(pg) ==
  <<Payload("waitForMission")>> \o Waypoints(convertCoordinates[pg.route]) \o <<UploadOf(pg.route)>>

Flies(pg) == pg.canFly /\ convertCoordinates[pg.route] # <<>>

Payloads(pg) ==
  When(Flies(pg), <<Payload("fly")>>)
    \o When(pg.upload, UploadPayloads(pg))
    \o When(pg.autoRTL, <<Payload("autoRTL")>>)
    \o When(pg.deleteMissions, <<Payload("deleteMissions")>>)
    \o When(pg.RTL, <<Payload("RTL")>>)

FlagsReset(pg) ==
  [pg EXCEPT !.canFly = @ /\ ~Flies(pg), !.upload = FALSE, !.autoRTL = FALSE,
             !.deleteMissions = FALSE, !.RTL = FALSE]

IsAnswer_Same(last, id) == id = last
IsAnswer(last, id) == id = last + 1

onmessage ==
  /\ toPage # <<>>
  /\ toPage' = Tail(toPage)
  /\ LET tel     == Head(toPage)
         asks    == page.mission /\ ~isFirstGetMission
         last    == IF asks THEN tel.id ELSE lastGcsMissionID
         answers == (waitForMissionID \/ asks) /\ IsAnswer(last, tel.id)
         shows   == (page.mission /\ isFirstGetMission) \/ answers
         pg      == [IF shows THEN Shown(page, tel) ELSE page EXCEPT !.mission = FALSE]
     IN  /\ isFirstGetMission' = (isFirstGetMission /\ ~page.mission)
         /\ waitForMissionID' = ((waitForMissionID \/ asks) /\ ~answers)
         /\ lastGcsMissionID' = IF answers THEN last + 1 ELSE last
         /\ page' = FlagsReset(pg)
         /\ toServer' = toServer \o When(asks, <<Payload("getMission")>>) \o Payloads(pg)
  /\ UNCHANGED <<backend, mission_points, bounds, careless>>

(* A reload closes the connection; what was sent last may be lost.  The    *)
(* new connection has a message handler, unless the server is only just    *)
(* starting.                                                               *)
Reload ==
  /\ reloads < MaxReloads /\ reloads' = reloads + 1
  /\ page' = NewPage /\ careless' = FALSE
  /\ isFirstGetMission' = TRUE /\ waitForMissionID' = FALSE /\ lastGcsMissionID' = 0
  /\ toPage' = <<>> /\ toServer' \in IF mute THEN {<<>>} ELSE Prefixes(toServer)
  /\ mute' \in {mute, FALSE}
  /\ lost' = {} /\ Backend!Join(ThisPage)
  /\ UNCHANGED <<downloading, requested, history, mission_points, clicks, others>>
-----------------------------------------------------------------------------
(* The backend.                                                            *)

HandlePayload ==
  /\ ~mute /\ toServer # <<>>
  /\ toServer' = Tail(toServer)
  /\ LET m == Head(toServer)
     IN  /\ mission_points' = CASE m.type \in {"waitForMission", "deleteMissions"} -> <<>>
                                [] m.type = "waypoint" -> Append(mission_points, m.at)
                                [] OTHER -> mission_points
         /\ requested' = (requested \/ m.type = "getMission")
  /\ UNCHANGED <<page, client, toPage, board, mute, downloading, history, bounds, careless>>

DropPayload ==
  /\ mute /\ toServer # <<>>
  /\ toServer' = Tail(toServer)
  /\ UNCHANGED <<page, client, toPage, backend, mission_points, bounds, careless>>

OtherPageAsks ==
  /\ others < MaxOthers /\ others' = others + 1
  /\ requested' = TRUE
  /\ UNCHANGED <<page, client, toPage, toServer, board, mute, downloading, history>>
  /\ UNCHANGED <<mission_points, clicks, reloads, careless>>

Broadcast ==
  /\ ~downloading /\ Len(toPage) < MaxQueue
  /\ Backend!Tell(ThisPage) /\ lost' = {}
  /\ \E whole \in WholeAmperes :
       toPage' = Append(toPage, [id |-> number, mission |-> mission, whole |-> whole])
  /\ UNCHANGED <<page, client, toServer, mute, downloading, requested, history>>
  /\ UNCHANGED <<mission_points, bounds, careless>>

(* The flag alone starts a download, also when the datagrams since the last*)
(* one completed no message and the page was told nothing.                 *)
StartDownload ==
  /\ requested /\ ~downloading
  /\ downloading' = TRUE
  /\ UNCHANGED <<page, client, toPage, toServer, board, mute, requested, history>>
  /\ UNCHANGED <<mission_points, bounds, careless>>

EndDownload ==
  /\ downloading /\ downloading' = FALSE
  /\ requested' = FALSE
  /\ lost' = lost \union {c \in {ThisPage} : Backend!Owed(c)} /\ Backend!Publish
  /\ published' = Append(published, mission')
  /\ passedOver' = IF lost' = {} THEN passedOver ELSE passedOver \union {number}
  /\ UNCHANGED <<page, client, toPage, toServer, mute, mission_points, bounds, careless>>

UserActs ==
  \/ \E p \in Points : MapClick(p)
  \/ \E k \in ToSet(page.entries) : RemoveEntry(k) \/ \E p \in Points : ApplyEntry(k, p)
  \/ deleteLastWaypoint \/ deleteAll \/ GetMissionButton \/ AddReturnButton \/ PlainButton

Next ==
  \/ UserActs \/ onmessage \/ Reload
  \/ HandlePayload \/ DropPayload \/ OtherPageAsks \/ Broadcast \/ StartDownload \/ EndDownload

Spec == Init /\ [][Next]_vars

(* Fairness: messages and payloads are delivered, and the main loop of the *)
(* backend goes on (FairSpec of GcsServer).                                *)
FairSpec ==
  /\ Spec
  /\ WF_vars(onmessage) /\ WF_vars(HandlePayload)
  /\ WF_vars(Broadcast) /\ WF_vars(StartDownload) /\ WF_vars(EndDownload)
-----------------------------------------------------------------------------
MissionTypes == [points : Seq(Points), rtl : BOOLEAN]

PageTypes ==
  [route : Seq(Points), markers : Seq(Points), entries : Seq(Nat), filler : 0..3,
   returnLine : BOOLEAN, takeoffPanel : BOOLEAN, first : BOOLEAN, canFly : BOOLEAN,
   upload : BOOLEAN, deleteMissions : BOOLEAN, autoRTL : BOOLEAN, RTL : BOOLEAN,
   mission : BOOLEAN]

Telemetry == [id : Nat, mission : MissionTypes, whole : BOOLEAN]
Told == [id : Nat, mission : MissionTypes] \union {Backend!Nothing}

SimplePayloads ==
  {Payload(t) : t \in {"fly", "waitForMission", "autoRTL", "deleteMissions", "RTL", "getMission"}}
PayloadTypes ==
  SimplePayloads \union [type : {"waypoint"}, at : Points]
                 \union [type : {"uploadMission"}, route : Seq(Points)]

(* The variables hold values of their types. *)
TypeOK ==
  /\ page \in PageTypes
  /\ isFirstGetMission \in BOOLEAN /\ waitForMissionID \in BOOLEAN /\ lastGcsMissionID \in Nat
  /\ toPage \in Seq(Telemetry) /\ Len(toPage) <= MaxQueue
  /\ toServer \in Seq(PayloadTypes)
  /\ number \in Nat /\ mission \in MissionTypes /\ lost \subseteq {ThisPage}
  /\ seen \in [{ThisPage} -> Told]
  /\ published \in Seq(MissionTypes) /\ passedOver \subseteq Nat
  /\ mute \in BOOLEAN /\ downloading \in BOOLEAN /\ requested \in BOOLEAN
  /\ mission_points \in Seq(Points)
  /\ clicks \in 0..MaxClicks /\ others \in 0..MaxOthers /\ reloads \in 0..MaxReloads
  /\ careless \in BOOLEAN

(* Whatever is drawn, moved, removed, deleted and downloaded, in any order, *)
(* every coordinate has its marker at its place and every list entry acts  *)
(* on a coordinate of its own.  (A careless user draws while a mission is  *)
(* awaited, or deletes a last waypoint from an empty list.)                *)
PageIsConsistent == ~careless =>
  /\ page.markers = page.route
  /\ \A i \in DOMAIN page.entries : page.entries[i] < Len(page.route)
  /\ IsInjective(page.entries)

(* When the backend is told to upload, its list is the route that the page *)
(* showed, however uploads, deletions and reloads were mixed before.       *)
UploadIsTheRoute ==
  ~mute /\ toServer # <<>> /\ Head(toServer).type = "uploadMission" =>
    LET route == Head(toServer).route
    IN  ToSet(route) \intersect Negative = {} => mission_points = route

(* Once the first mission was shown, a message changes the route only when *)
(* it answers a request of before: the route is then, waypoint for         *)
(* waypoint, the mission that the backend downloaded under the number      *)
(* after the one the page asked with, not the mission it had before.  A    *)
(* mission of fewer than two waypoints is not shown, and one that comes    *)
(* with a current of a fraction of an ampere is taken and lost.            *)
AnswerIsPublished == [][
  LET received == Len(toPage') < Len(toPage) /\ reloads' = reloads
      answered == waitForMissionID /\ ~waitForMissionID'
      changed  == page'.route # page.route
      m        == published[lastGcsMissionID' + 1]
      readable == Head(toPage).whole
  IN  received /\ ~isFirstGetMission /\ ~careless /\ (answered \/ changed) =>
        /\ answered
        /\ page'.route = IF readable /\ Len(m.points) > 1 THEN m.points ELSE <<>>]_vars

(* A page that waits for a mission gets one: no request lost at the end of *)
(* a download, no download for another page and no queued message leaves it *)
(* waiting for ever.  Two things do: its connection is the server's first, *)
(* whose payloads nobody handles, or the number it waits for was replaced  *)
(* by a second download before a message could tell it.                    *)
WaitEnds ==
  waitForMissionID ~> ~waitForMissionID \/ mute \/ lastGcsMissionID + 1 \in passedOver
=============================================================================
