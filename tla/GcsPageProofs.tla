---------------------------- MODULE GcsPageProofs ----------------------------
(***************************************************************************)
(* Machine-checked proofs about GcsPage, for any route, missions, clicks   *)
(* and reloads.                                                            *)
(***************************************************************************)
EXTENDS GcsPage, Basics, SequenceTheorems, TLAPS

(* The parts of the state on which what the page shows depends; the first  *)
(* mission is shown before any other is waited for.                        *)
ShownTypes ==
  /\ page \in PageTypes
  /\ toPage \in Seq(Telemetry)
  /\ number \in Nat /\ mission \in MissionTypes
  /\ isFirstGetMission => ~waitForMissionID

(* The entries of the list count from d to the end of the route.           *)
Numbered(pg, d) ==
  /\ Len(pg.entries) = Len(pg.route) - d
  /\ \A n \in 1..Len(pg.entries) : pg.entries[n] = n - 1 + d

(* The list of a careful user counts from 1, for the route began at the    *)
(* drone or was downloaded, or from 0; while a mission is awaited nothing  *)
(* is drawn.                                                               *)
Drawn ==
  /\ page.markers = page.route
  /\ Numbered(page, 0) \/ Numbered(page, 1)
  /\ page.first \/ Awaiting => page.route = <<>>

DrawnInv == ~careless => Drawn
-----------------------------------------------------------------------------
(* A sequence without its last element.                                    *)
LEMMA AllButLastIs ==
  ASSUME NEW S, NEW s \in Seq(S)
  PROVE  /\ AllButLast(s) \in Seq(S)
         /\ Len(AllButLast(s)) = IF s = <<>> THEN 0 ELSE Len(s) - 1
         /\ \A k \in 1..Len(AllButLast(s)) : AllButLast(s)[k] = s[k]
<1>1. CASE s = <<>>
  BY <1>1, EmptySeq DEF AllButLast
<1>2. CASE s # <<>>
  <2>1. Len(s) \in Nat /\ Len(s) > 0
    BY <1>2, EmptySeq
  <2>2. Len(s) - 1 \in 0..Len(s)
    BY <2>1
  <2>3. AllButLast(s) = SubSeq(s, 1, Len(s) - 1)
    BY <1>2 DEF AllButLast, Front
  <2>. QED  BY <1>2, <2>2, <2>3, Beginning
<1>. QED  BY <1>1, <1>2

(* The items of a route.                                                   *)
LEMMA EntriesOfIs ==
  ASSUME NEW route \in Seq(Points)
  PROVE  /\ EntriesOf(route) \in Seq(Nat)
         /\ Len(EntriesOf(route)) = IF route = <<>> THEN 0 ELSE Len(route) - 1
         /\ \A k \in 1..Len(EntriesOf(route)) : EntriesOf(route)[k] = k
<1>1. CASE route = <<>>
  <2> DEFINE none == [k \in 1..0 |-> k]
  <2>1. Len(route) = 0 /\ 1..(0 - 1) = 1..0
    BY <1>1, EmptySeq
  <2>2. EntriesOf(route) = none
    BY <2>1 DEF EntriesOf
  <2>3. none \in Seq(Nat) /\ Len(none) = 0
    OBVIOUS
  <2>. QED  BY <1>1, <2>2, <2>3
<1>2. CASE route # <<>>
  <2>1. Len(route) \in Nat /\ Len(route) > 0
    BY <1>2, EmptySeq
  <2> DEFINE n == Len(route) - 1
  <2>2. n \in Nat
    BY <2>1
  <2>3. EntriesOf(route) = [k \in 1..n |-> k]
    BY DEF EntriesOf
  <2>4. [k \in 1..n |-> k] \in Seq(Nat) /\ Len([k \in 1..n |-> k]) = n
    <3> HIDE DEF n
    <3>. QED  BY <2>2
  <2>. QED  BY <1>2, <2>2, <2>3, <2>4
<1>. QED  BY <1>1, <1>2

(* A sequence without one of its elements.                                 *)
LEMMA WithoutIndexIs ==
  ASSUME NEW s \in Seq(Points), NEW k \in Nat, k < Len(s)
  PROVE  WithoutIndex(s, k) \in Seq(Points) /\ Len(WithoutIndex(s, k)) = Len(s) - 1
<1> DEFINE a == SubSeq(s, 1, k)
           b == SubSeq(s, k + 2, Len(s))
<1>1. Len(s) \in Nat /\ k \in 0..Len(s) /\ k + 2 \in Int /\ Len(s) \in Int
  BY LenProperties
<1>2. a \in Seq(Points) /\ Len(a) = k
  BY <1>1, Beginning
<1>3. \A i \in (k + 2)..Len(s) : s[i] \in Points
  BY <1>1, ElementOfSeq
<1>4. b \in Seq(Points) /\ Len(b) = IF k + 2 <= Len(s) THEN Len(s) - (k + 2) + 1 ELSE 0
  BY <1>1, <1>3, SubSeqProperties
<1>5. WithoutIndex(s, k) = a \o b
  BY DEF WithoutIndex
<1> HIDE DEF a, b
<1>6. Len(b) = Len(s) - k - 1
  BY <1>1, <1>4
<1>7. a \o b \in Seq(Points) /\ Len(a \o b) = Len(a) + Len(b)
  BY <1>2, <1>4, ConcatProperties
<1>. QED  BY <1>1, <1>2, <1>5, <1>6, <1>7

(* A page begins with no mission, and keeps one of the missions.           *)
LEMMA MissionIs == NoMission \in MissionTypes /\ Missions \subseteq MissionTypes
BY MissionsAssumption, EmptySeq DEF NoMission, MissionTypes

(* A message's mission as the page reads it.                               *)
LEMMA ParsedIs ==
  ASSUME NEW tel \in Telemetry
  PROVE  parseJson(tel) \in MissionTypes
<1>1. tel.mission \in MissionTypes
  BY DEF Telemetry
<1>2. <<Origin>> \in Seq(Points)
  BY PointsAssumption
<1>3. [points |-> <<Origin>>, rtl |-> FALSE] \in MissionTypes
  BY <1>2 DEF MissionTypes
<1>. QED  BY <1>1, <1>3, MissionIs DEF parseJson, ItemsOf

(* Drawing waypoints extends the route and the markers alike.              *)
LEMMA UploadedIs ==
  ASSUME NEW pg \in PageTypes, NEW m \in MissionTypes,
         NEW new, new = uploadWaypointData(pg, m)
  PROVE  /\ new \in PageTypes
         /\ new.route = pg.route \o m.points
         /\ new.markers = pg.markers \o m.points
         /\ new.entries = pg.entries
         /\ new.first => pg.first /\ m.points = <<>>
<1> DEFINE drawn == [pg EXCEPT !.route = @ \o m.points, !.markers = @ \o m.points,
                               !.first = IF m.points = <<>> THEN @ ELSE FALSE]
           returning == [enableToFly(addReturnWaypoint(drawn)) EXCEPT !.first = FALSE]
<1>1. m.points \in Seq(Points) /\ pg.route \in Seq(Points) /\ pg.markers \in Seq(Points)
  BY DEF MissionTypes, PageTypes
<1>2. pg.route \o m.points \in Seq(Points) /\ pg.markers \o m.points \in Seq(Points)
  BY <1>1, ConcatProperties
<1>3. /\ drawn \in PageTypes
      /\ drawn.route = pg.route \o m.points /\ drawn.markers = pg.markers \o m.points
      /\ drawn.entries = pg.entries
      /\ drawn.first => pg.first /\ m.points = <<>>
  BY <1>2 DEF PageTypes
<1>4. new = drawn \/ new = returning
  BY DEF uploadWaypointData
<1>5. /\ returning \in PageTypes
      /\ returning.route = drawn.route /\ returning.markers = drawn.markers
      /\ returning.entries = drawn.entries /\ ~returning.first
  <2> HIDE DEF drawn
  <2>. QED  BY <1>3 DEF PageTypes, enableToFly, addReturnWaypoint
<1>. QED  BY <1>3, <1>4, <1>5

(* Finishing a mission.                                                    *)
LEMMA FinishedIs ==
  ASSUME NEW pg \in PageTypes, NEW new, new = finishUploadWaypointData(pg)
  PROVE  /\ new \in PageTypes
         /\ Len(pg.route) <= 1 =>
              new.route = <<>> /\ new.markers = <<>> /\ new.entries = pg.entries
         /\ Len(pg.route) > 1 =>
              /\ new.route = pg.route /\ new.markers = pg.markers /\ new.first = pg.first
              /\ new.entries = pg.entries \o EntriesOf(pg.route)
<1>1. pg.route \in Seq(Points) /\ pg.entries \in Seq(Nat) /\ Len(pg.route) \in Nat
  BY LenProperties DEF PageTypes
<1>2. pg.entries \o EntriesOf(pg.route) \in Seq(Nat)
  BY <1>1, EntriesOfIs, ConcatProperties
<1>3. <<>> \in Seq(Points)
  BY EmptySeq
<1> DEFINE cleared == [pg EXCEPT !.route = <<>>, !.markers = <<>>, !.first = TRUE]
           listed  == [pg EXCEPT !.entries = @ \o EntriesOf(pg.route)]
<1>4. /\ cleared \in PageTypes /\ cleared.route = <<>> /\ cleared.markers = <<>>
      /\ cleared.entries = pg.entries
  BY <1>3 DEF PageTypes
<1>5. /\ listed \in PageTypes
      /\ listed.route = pg.route /\ listed.markers = pg.markers /\ listed.first = pg.first
      /\ listed.entries = pg.entries \o EntriesOf(pg.route)
  BY <1>2 DEF PageTypes
<1>6. /\ Len(pg.route) <= 1 => new = cleared
      /\ Len(pg.route) > 1 => new = listed
  BY <1>1 DEF finishUploadWaypointData
<1> HIDE DEF cleared, listed
<1>7. Len(pg.route) <= 1 \/ Len(pg.route) > 1
  BY <1>1
<1>. QED  BY <1>4, <1>5, <1>6, <1>7

(* A mission shown on an empty map is the route, with a list that counts   *)
(* from 1.                                                                 *)
LEMMA ShownIs ==
  ASSUME NEW pg \in PageTypes, NEW tel \in Telemetry, NEW new, new = Shown(pg, tel)
  PROVE  /\ new \in PageTypes
         /\ pg.route = <<>> /\ pg.markers = <<>> /\ pg.entries = <<>> =>
              /\ new.markers = new.route
              /\ Numbered(new, 0) \/ Numbered(new, 1)
              /\ new.first => new.route = <<>>
              /\ new.route = IF Len(parseJson(tel).points) > 1 THEN parseJson(tel).points
                                                              ELSE <<>>
<1> DEFINE m == parseJson(tel)
           drawn == uploadWaypointData(pg, m)
<1>1. m \in MissionTypes /\ m.points \in Seq(Points)
  BY ParsedIs DEF MissionTypes
<1>2. /\ drawn \in PageTypes
      /\ drawn.route = pg.route \o m.points /\ drawn.markers = pg.markers \o m.points
      /\ drawn.entries = pg.entries
      /\ drawn.first => m.points = <<>>
  <2> HIDE DEF m
  <2>. QED  BY <1>1, UploadedIs
<1>3. new = finishUploadWaypointData(drawn)
  BY DEF Shown
<1> HIDE DEF m, drawn
<1>4. new \in PageTypes
  BY <1>2, <1>3, FinishedIs
<1>5. ASSUME pg.route = <<>>, pg.markers = <<>>, pg.entries = <<>>
      PROVE  /\ new.markers = new.route
             /\ Numbered(new, 0) \/ Numbered(new, 1)
             /\ new.first => new.route = <<>>
             /\ new.route = IF Len(m.points) > 1 THEN m.points ELSE <<>>
  <2>1. drawn.route = m.points /\ drawn.markers = m.points /\ drawn.entries = <<>>
    BY <1>1, <1>2, <1>5, ConcatEmptySeq
  <2>2. Len(m.points) \in Nat
    BY <1>1, LenProperties
  <2>3. CASE Len(m.points) <= 1
    <3>1. new.route = <<>> /\ new.markers = <<>> /\ new.entries = <<>>
      BY <1>2, <1>3, <2>1, <2>3, FinishedIs
    <3>2. Numbered(new, 0)
      BY <3>1, EmptySeq DEF Numbered
    <3>. QED  BY <2>2, <2>3, <3>1, <3>2
  <2>4. CASE Len(m.points) > 1
    <3>1. /\ new.route = m.points /\ new.markers = m.points /\ new.first = drawn.first
          /\ new.entries = <<>> \o EntriesOf(m.points)
      <4>1. Len(drawn.route) > 1
        BY <2>1, <2>4
      <4>2. /\ new.route = drawn.route /\ new.markers = drawn.markers /\ new.first = drawn.first
            /\ new.entries = drawn.entries \o EntriesOf(drawn.route)
        BY <1>2, <1>3, <4>1, FinishedIs
      <4>. QED  BY <2>1, <4>2
    <3>2. new.entries = EntriesOf(m.points)
      <4>1. EntriesOf(m.points) \in Seq(Nat)
        BY <1>1, EntriesOfIs
      <4>. QED  BY <3>1, <4>1, ConcatEmptySeq
    <3>3. m.points # <<>>
      BY <2>4, EmptySeq
    <3>4. Numbered(new, 1)
      BY <1>1, <3>1, <3>2, <3>3, EntriesOfIs DEF Numbered
    <3>. QED  BY <1>2, <2>4, <3>1, <3>3, <3>4
  <2>. QED  BY <2>2, <2>3, <2>4
<1>. QED  BY <1>4, <1>5 DEF m

(* Resetting the mission mode.                                             *)
LEMMA ResetIs ==
  ASSUME NEW pg \in PageTypes, NEW new, new = FlagsReset(pg)
  PROVE  /\ new \in PageTypes
         /\ new.route = pg.route /\ new.markers = pg.markers /\ new.entries = pg.entries
         /\ new.first = pg.first /\ new.mission = pg.mission
BY DEF FlagsReset, PageTypes
-----------------------------------------------------------------------------
(* What the user's actions leave alone.                                    *)
UserFrame == UNCHANGED <<client, toPage, toServer, backend, mission_points, others, reloads>>

UserStep == page' \in PageTypes /\ DrawnInv' /\ UserFrame

(* An action that draws, moves and removes nothing.                        *)
LEMMA ButtonStep ==
  ASSUME ShownTypes, DrawnInv, NEW new \in PageTypes, User(new), careless => careless',
         new.route = page.route, new.markers = page.markers, new.entries = page.entries,
         new.first = page.first, new.mission = page.mission
  PROVE  UserStep
<1>1. page' = new /\ UserFrame
  BY DEF User, UserFrame
<1>2. waitForMissionID' = waitForMissionID
  BY <1>1 DEF UserFrame, client
<1>. QED  BY <1>1, <1>2 DEF UserStep, DrawnInv, Drawn, Numbered, Awaiting

(* One that leaves the map empty.                                          *)
LEMMA EmptyingStep ==
  ASSUME NEW new \in PageTypes, User(new),
         new.route = <<>>, new.markers = <<>>, new.entries = <<>>
  PROVE  UserStep
<1>1. page' = new /\ UserFrame
  BY DEF User, UserFrame
<1>2. Numbered(page', 0)
  BY <1>1, EmptySeq DEF Numbered
<1>. QED  BY <1>1, <1>2 DEF UserStep, DrawnInv, Drawn

(* What the page shows is in order after a click on the map, ...           *)
LEMMA MapClickStep ==
  ASSUME ShownTypes, DrawnInv, NEW p \in Points, MapClick(p)
  PROVE  UserStep
<1> DEFINE points == IF page.first THEN <<Home, p>> ELSE <<p>>
           route == page.route \o points
           drawn == [page EXCEPT !.route = route, !.markers = @ \o points, !.first = FALSE,
                                 !.entries = Append(@, Len(route) - 1)]
<1>1. User(drawn) /\ careless' = (careless \/ Awaiting)
  BY DEF MapClick
<1>2. page' = drawn /\ UserFrame
  BY <1>1 DEF User, UserFrame
<1>3. /\ page.route \in Seq(Points) /\ page.markers \in Seq(Points)
      /\ page.entries \in Seq(Nat) /\ page \in PageTypes
  BY DEF ShownTypes, PageTypes
<1>4. /\ points \in Seq(Points) /\ Len(points) \in {1, 2}
      /\ Len(points) = IF page.first THEN 2 ELSE 1
  BY PointsAssumption
<1>5. Len(page.route) \in Nat /\ Len(page.entries) \in Nat
  BY <1>3, LenProperties
<1>6. /\ route \in Seq(Points) /\ Len(route) = Len(page.route) + Len(points)
      /\ page.markers \o points \in Seq(Points)
  <2> HIDE DEF points
  <2>. QED  BY <1>3, <1>4, ConcatProperties
<1> HIDE DEF points
<1>7. Len(route) - 1 \in Nat
  <2> HIDE DEF route
  <2>1. Len(points) \in Nat /\ Len(points) >= 1
    BY <1>4
  <2>2. Len(route) = Len(page.route) + Len(points)
    BY <1>6
  <2>3. Len(route) \in Nat /\ Len(route) >= 1
    BY <1>5, <2>1, <2>2
  <2>. QED  BY <2>3
<1>8. /\ Append(page.entries, Len(route) - 1) \in Seq(Nat)
      /\ Len(Append(page.entries, Len(route) - 1)) = Len(page.entries) + 1
      /\ \A n \in 1..Len(page.entries) :
           Append(page.entries, Len(route) - 1)[n] = page.entries[n]
      /\ Append(page.entries, Len(route) - 1)[Len(page.entries) + 1] = Len(route) - 1
  <2> HIDE DEF route
  <2>. QED  BY <1>3, <1>7, AppendProperties
<1>9. /\ drawn \in PageTypes
      /\ drawn.route = route /\ drawn.markers = page.markers \o points
      /\ drawn.entries = Append(page.entries, Len(route) - 1) /\ ~drawn.first
      /\ drawn.mission = page.mission
  <2> HIDE DEF route
  <2>. QED  BY <1>3, <1>6, <1>8 DEF PageTypes
<1>10. ASSUME ~careless' PROVE Drawn'
  <2>1. ~careless /\ ~Awaiting /\ Drawn
    BY <1>1, <1>10 DEF DrawnInv
  <2>2. page'.markers = page'.route
    BY <1>2, <1>9, <2>1 DEF Drawn
  <2>3. ~page'.first /\ ~Awaiting'
    BY <1>2, <1>9, <2>1 DEF Awaiting, UserFrame, client
  <2>4. Numbered(page', 0) \/ Numbered(page', 1)
    <3> DEFINE e == Append(page.entries, Len(route) - 1)
    <3>1. page'.entries = e /\ page'.route = route
      BY <1>2, <1>9
    <3>2. \A n \in 1..Len(e) : n \in 1..Len(page.entries) \/ n = Len(page.entries) + 1
      BY <1>5, <1>8
    <3> HIDE DEF e, route
    <3>3. CASE page.first
      <4>1. Len(page.route) = 0
        BY <2>1, <3>3, EmptySeq DEF Drawn
      <4>2. Len(page.entries) = 0
        BY <1>5, <2>1, <4>1 DEF Drawn, Numbered
      <4>3. Len(route) = 2 /\ Len(e) = 1
        BY <1>4, <1>6, <1>8, <3>3, <4>1, <4>2 DEF e
      <4>4. e[1] = 1
        BY <1>8, <4>2, <4>3 DEF e
      <4>. QED  BY <3>1, <4>3, <4>4 DEF Numbered
    <3>4. ASSUME ~page.first, NEW d \in {0, 1}, Numbered(page, d) PROVE Numbered(page', d)
      <4>1. Len(route) = Len(page.route) + 1 /\ Len(e) = Len(page.entries) + 1
        BY <1>4, <1>6, <1>8, <3>4 DEF e
      <4>2. Len(page.entries) = Len(page.route) - d
        BY <3>4 DEF Numbered
      <4>3. \A n \in 1..Len(page.entries) : e[n] = n - 1 + d
        BY <1>8, <3>4 DEF Numbered, e
      <4>4. e[Len(page.entries) + 1] = Len(route) - 1
        BY <1>8 DEF e
      <4>5. Len(e) = Len(route) - d
        BY <1>5, <4>1, <4>2
      <4>6. \A n \in 1..Len(e) : e[n] = n - 1 + d
        BY <1>5, <3>2, <4>1, <4>2, <4>3, <4>4
      <4>. QED  BY <3>1, <4>5, <4>6 DEF Numbered
    <3>. QED  BY <2>1, <3>3, <3>4 DEF Drawn
  <2>. QED  BY <2>2, <2>3, <2>4 DEF Drawn
<1>. QED  BY <1>2, <1>9, <1>10 DEF UserStep, DrawnInv

(* ... after the last point is deleted, ...                                *)
LEMMA DeleteLastStep ==
  ASSUME ShownTypes, DrawnInv, deleteLastWaypoint
  PROVE  UserStep
<1> DEFINE broken == [page EXCEPT !.route = AllButLast(@)]
           shorter == [page EXCEPT !.route = AllButLast(@), !.markers = AllButLast(@),
                                   !.entries = AllButLast(@),
                                   !.filler = IF page.entries = <<>> THEN @ - 1 ELSE @]
<1>1. /\ page' = IF NoChild(page) THEN broken ELSE shorter
      /\ UserFrame /\ careless' = (careless \/ NoChild(page))
  BY DEF deleteLastWaypoint, User, UserFrame
<1>2. /\ page.route \in Seq(Points) /\ page.markers \in Seq(Points)
      /\ page.entries \in Seq(Nat) /\ page.filler \in 0..3 /\ page \in PageTypes
  BY DEF ShownTypes, PageTypes
<1>3. /\ AllButLast(page.route) \in Seq(Points) /\ AllButLast(page.markers) \in Seq(Points)
      /\ AllButLast(page.entries) \in Seq(Nat)
  BY <1>2, AllButLastIs
<1>4. broken \in PageTypes
  BY <1>2, <1>3 DEF PageTypes
<1>5. ~NoChild(page) =>
        /\ shorter \in PageTypes
        /\ shorter.route = AllButLast(page.route) /\ shorter.markers = AllButLast(page.markers)
        /\ shorter.entries = AllButLast(page.entries)
        /\ shorter.first = page.first /\ shorter.mission = page.mission
  <2>1. ~NoChild(page) => (IF page.entries = <<>> THEN page.filler - 1 ELSE page.filler) \in 0..3
    BY <1>2 DEF NoChild
  <2>. QED  BY <1>2, <1>3, <2>1 DEF PageTypes
<1> HIDE DEF broken, shorter
<1>6. ASSUME ~careless' PROVE Drawn'
  <2>1. ~careless /\ ~NoChild(page) /\ page' = shorter /\ Drawn
    BY <1>1, <1>6 DEF DrawnInv
  <2>2. /\ page'.route = AllButLast(page.route) /\ page'.markers = AllButLast(page.markers)
        /\ page'.entries = AllButLast(page.entries)
        /\ page'.first = page.first /\ page'.mission = page.mission
    BY <1>5, <2>1
  <2>3. page'.markers = page'.route
    BY <2>1, <2>2 DEF Drawn
  <2>4. page'.first \/ Awaiting' => page'.route = <<>>
    BY <1>1, <2>1, <2>2 DEF Drawn, Awaiting, UserFrame, client, AllButLast
  <2>5. Numbered(page', 0) \/ Numbered(page', 1)
    <3> DEFINE e == AllButLast(page.entries)
               r == AllButLast(page.route)
    <3>1. /\ Len(r) = IF page.route = <<>> THEN 0 ELSE Len(page.route) - 1
          /\ Len(e) = IF page.entries = <<>> THEN 0 ELSE Len(page.entries) - 1
          /\ \A n \in 1..Len(e) : e[n] = page.entries[n]
      BY <1>2, AllButLastIs
    <3>2. /\ Len(page.route) \in Nat /\ (page.route = <<>> <=> Len(page.route) = 0)
          /\ Len(page.entries) \in Nat /\ (page.entries = <<>> <=> Len(page.entries) = 0)
      BY <1>2, EmptySeq, LenProperties
    <3> HIDE DEF e, r
    <3>3. CASE page.entries = <<>>
      <4>1. Len(e) = 0 /\ Len(page.entries) = 0
        BY <3>1, <3>2, <3>3
      <4>2. Len(page.route) \in {0, 1}
        BY <2>1, <3>2, <4>1 DEF Drawn, Numbered
      <4>3. Len(r) = 0
        BY <3>1, <3>2, <4>2
      <4>4. Len(page'.entries) = 0 /\ Len(page'.route) = 0
        BY <2>2, <4>1, <4>3 DEF e, r
      <4>. QED  BY <4>4 DEF Numbered
    <3>4. ASSUME page.entries # <<>>, NEW d \in {0, 1}, Numbered(page, d)
          PROVE  Numbered(page', d)
      <4>1. Len(page.entries) = Len(page.route) - d
        BY <3>4 DEF Numbered
      <4>2. page.route # <<>>
        BY <3>2, <3>4, <4>1
      <4>3. Len(e) = Len(page.entries) - 1 /\ Len(r) = Len(page.route) - 1
        BY <3>1, <3>4, <4>2
      <4>4. Len(e) = Len(r) - d
        BY <3>2, <4>1, <4>3
      <4>5. \A n \in 1..Len(e) : n \in 1..Len(page.entries)
        BY <3>2, <4>3
      <4>6. \A n \in 1..Len(e) : e[n] = n - 1 + d
        BY <3>1, <3>4, <4>5 DEF Numbered
      <4>7. page'.entries = e /\ page'.route = r
        BY <2>2 DEF e, r
      <4>. QED  BY <4>4, <4>6, <4>7 DEF Numbered
    <3>. QED  BY <2>1, <3>3, <3>4 DEF Drawn
  <2>. QED  BY <2>3, <2>4, <2>5 DEF Drawn
<1>. QED  BY <1>1, <1>4, <1>5, <1>6 DEF UserStep, DrawnInv

(* ... after an item is removed, ...                                       *)
LEMMA RemoveEntryStep ==
  ASSUME ShownTypes, DrawnInv, NEW k \in ToSet(page.entries), RemoveEntry(k)
  PROVE  UserStep
<1> DEFINE r == WithoutIndex(page.route, k)
           new == [page EXCEPT !.route = r, !.markers = r, !.filler = 0, !.entries = EntriesOf(r)]
<1>1. page' = new /\ UserFrame /\ careless' = careless /\ k < Len(page.route)
  BY DEF RemoveEntry, Entry, User, UserFrame
<1>2. page.route \in Seq(Points) /\ page.entries \in Seq(Nat) /\ page \in PageTypes
  BY DEF ShownTypes, PageTypes
<1>3. k \in Nat
  <2>1. PICK n \in DOMAIN page.entries : k = page.entries[n]
    BY DEF ToSet
  <2>2. n \in 1..Len(page.entries)
    BY <1>2, <2>1, LenProperties
  <2>. QED  BY <1>2, <2>1, <2>2, ElementOfSeq
<1>4. r \in Seq(Points) /\ Len(page.route) \in Nat
  BY <1>1, <1>2, <1>3, WithoutIndexIs, LenProperties
<1> HIDE DEF r
<1>5. /\ EntriesOf(r) \in Seq(Nat)
      /\ Len(EntriesOf(r)) = IF r = <<>> THEN 0 ELSE Len(r) - 1
      /\ \A n \in 1..Len(EntriesOf(r)) : EntriesOf(r)[n] = n
  BY <1>4, EntriesOfIs
<1>6. /\ new \in PageTypes
      /\ new.route = r /\ new.markers = r /\ new.entries = EntriesOf(r)
      /\ new.first = page.first /\ new.mission = page.mission
  <2>1. EntriesOf(r) \in Seq(Nat)
    BY <1>5
  <2>. QED  BY <1>2, <1>4, <2>1, 0 \in 0..3 DEF PageTypes
<1> HIDE DEF new
<1>7. ASSUME ~careless' PROVE Drawn'
  <2>1. ~careless /\ Drawn
    BY <1>1, <1>7 DEF DrawnInv
  <2>2. page.route # <<>>
    BY <1>1, <1>3, EmptySeq
  <2>3. ~page'.first /\ ~Awaiting'
    BY <1>1, <1>6, <2>1, <2>2 DEF Drawn, Awaiting, UserFrame, client
  <2>4. Numbered(page', 0) \/ Numbered(page', 1)
    <3>1. CASE r = <<>>
      BY <1>1, <1>5, <1>6, <3>1, EmptySeq DEF Numbered
    <3>2. CASE r # <<>>
      BY <1>1, <1>5, <1>6, <3>2 DEF Numbered
    <3>. QED  BY <3>1, <3>2
  <2>. QED  BY <1>1, <1>6, <2>3, <2>4 DEF Drawn
<1>. QED  BY <1>1, <1>6, <1>7 DEF UserStep, DrawnInv

(* ... after one is edited, ...                                            *)
LEMMA ApplyEntryStep ==
  ASSUME ShownTypes, DrawnInv, NEW k \in ToSet(page.entries), NEW p \in Points, ApplyEntry(k, p)
  PROVE  UserStep
<1> DEFINE r == [page.route EXCEPT ![k + 1] = p]
           ms == [page.markers EXCEPT ![k + 1] = p]
           new == [page EXCEPT !.route = r, !.markers = ms]
<1>1. /\ page' = new /\ UserFrame /\ careless' = careless
      /\ k < Len(page.route) /\ k < Len(page.markers)
  BY DEF ApplyEntry, Entry, User, UserFrame
<1>2. /\ page.route \in Seq(Points) /\ page.markers \in Seq(Points)
      /\ page.entries \in Seq(Nat) /\ page \in PageTypes
  BY DEF ShownTypes, PageTypes
<1>3. k \in Nat
  <2>1. PICK n \in DOMAIN page.entries : k = page.entries[n]
    BY DEF ToSet
  <2>2. n \in 1..Len(page.entries)
    BY <1>2, <2>1, LenProperties
  <2>. QED  BY <1>2, <2>1, <2>2, ElementOfSeq
<1>4. k + 1 \in 1..Len(page.route) /\ k + 1 \in 1..Len(page.markers)
  BY <1>1, <1>2, <1>3, LenProperties
<1>5. r \in Seq(Points) /\ Len(r) = Len(page.route) /\ ms \in Seq(Points)
  BY <1>2, <1>4, ExceptSeq
<1>6. ms = r \/ page.markers # page.route
  OBVIOUS
<1> HIDE DEF r, ms
<1>7. /\ new \in PageTypes
      /\ new.route = r /\ new.markers = ms /\ new.entries = page.entries
      /\ new.first = page.first /\ new.mission = page.mission
  BY <1>2, <1>5 DEF PageTypes
<1> HIDE DEF new
<1>8. ASSUME ~careless' PROVE Drawn'
  <2>1. ~careless /\ Drawn
    BY <1>1, <1>8 DEF DrawnInv
  <2>2. page.route # <<>>
    BY <1>1, <1>3, EmptySeq
  <2>3. ~page'.first /\ ~Awaiting'
    BY <1>1, <1>7, <2>1, <2>2 DEF Drawn, Awaiting, UserFrame, client
  <2>4. Numbered(page', 0) \/ Numbered(page', 1)
    BY <1>1, <1>5, <1>7, <2>1 DEF Drawn, Numbered
  <2>. QED  BY <1>1, <1>6, <1>7, <2>1, <2>3, <2>4 DEF Drawn
<1>. QED  BY <1>1, <1>7, <1>8 DEF UserStep, DrawnInv

(* ... after any act of the user, ...                                      *)
LEMMA UserActsStep ==
  ASSUME ShownTypes, DrawnInv, UserActs
  PROVE  UserStep
<1>1. page \in PageTypes /\ <<>> \in Seq(Points) /\ <<>> \in Seq(Nat)
  BY EmptySeq DEF ShownTypes
<1>2. ASSUME NEW p \in Points, MapClick(p) PROVE UserStep
  BY <1>2, MapClickStep
<1>3. ASSUME NEW k \in ToSet(page.entries), RemoveEntry(k) PROVE UserStep
  BY <1>3, RemoveEntryStep
<1>4. ASSUME NEW k \in ToSet(page.entries), NEW p \in Points, ApplyEntry(k, p) PROVE UserStep
  BY <1>4, ApplyEntryStep
<1>5. CASE deleteAll
  <2> DEFINE new == [page EXCEPT !.route = <<>>, !.markers = <<>>, !.entries = <<>>, !.filler = 0,
                                 !.returnLine = FALSE, !.first = TRUE, !.deleteMissions = TRUE]
  <2>1. User(new)
    BY <1>5 DEF deleteAll
  <2>2. new \in PageTypes /\ new.route = <<>> /\ new.markers = <<>> /\ new.entries = <<>>
    BY <1>1, 0 \in 0..3 DEF PageTypes
  <2> HIDE DEF new
  <2>. QED  BY <2>1, <2>2, EmptyingStep
<1>6. CASE GetMissionButton
  <2> DEFINE new == getUploadedMission(page)
  <2>1. User(new)
    BY <1>6 DEF GetMissionButton
  <2>2. new \in PageTypes /\ new.route = <<>> /\ new.markers = <<>> /\ new.entries = <<>>
    BY <1>1, 0 \in 0..3 DEF PageTypes, getUploadedMission
  <2> HIDE DEF new
  <2>. QED  BY <2>1, <2>2, EmptyingStep
<1>7. ASSUME NEW new, User(new), UNCHANGED careless,
             \/ new = addReturnWaypoint(page) \/ new = [page EXCEPT !.returnLine = TRUE]
             \/ new = enableToFly(page) \/ new = [page EXCEPT !.RTL = TRUE]
             \/ new = [page EXCEPT !.canFly = TRUE]
      PROVE  UserStep
  <2>1. /\ new \in PageTypes
        /\ new.route = page.route /\ new.markers = page.markers /\ new.entries = page.entries
        /\ new.first = page.first /\ new.mission = page.mission
    BY <1>1, <1>7 DEF PageTypes, addReturnWaypoint, enableToFly
  <2>. QED  BY <1>7, <2>1, ButtonStep
<1>8. CASE AddReturnButton
  BY <1>7, <1>8 DEF AddReturnButton
<1>9. CASE PlainButton
  BY <1>7, <1>9 DEF PlainButton
<1>. QED  BY <1>2, <1>3, <1>4, <1>5, <1>6, <1>8, <1>9, DeleteLastStep DEF UserActs
-----------------------------------------------------------------------------
(* A message that is shown meets an empty map: the list of a careful user  *)
(* who awaits a mission is empty.                                          *)
LEMMA AwaitingIsEmpty ==
  ASSUME ShownTypes, Drawn, Awaiting
  PROVE  page.route = <<>> /\ page.markers = <<>> /\ page.entries = <<>>
<1>1. page.route = <<>> /\ page.markers = <<>> /\ Len(page.route) = 0
  BY EmptySeq DEF Drawn
<1>2. page.entries \in Seq(Nat) /\ Len(page.entries) \in Nat
  BY LenProperties DEF ShownTypes, PageTypes
<1>3. Len(page.entries) = 0
  BY <1>1, <1>2 DEF Drawn, Numbered
<1>. QED  BY <1>1, <1>2, <1>3, EmptySeq

(* Whether a message is shown, in the words of onmessage.                  *)
Asks == page.mission /\ ~isFirstGetMission
LastId == IF Asks THEN Head(toPage).id ELSE lastGcsMissionID
Answers == (waitForMissionID \/ Asks) /\ IsAnswer(LastId, Head(toPage).id)
Shows == (page.mission /\ isFirstGetMission) \/ Answers

(* ... after a message of the backend, ...                                 *)
LEMMA MessageStep ==
  ASSUME ShownTypes, DrawnInv, onmessage
  PROVE  /\ page' \in PageTypes /\ DrawnInv'
         /\ toPage # <<>> /\ toPage' = Tail(toPage) /\ UNCHANGED <<number, mission, careless>>
         /\ ~Shows => page'.route = page.route
         /\ ~careless /\ Shows =>
              page'.route = IF Len(parseJson(Head(toPage)).points) > 1
                            THEN parseJson(Head(toPage)).points ELSE <<>>
<1> DEFINE tel == Head(toPage)
           shown == IF Shows THEN Shown(page, tel) ELSE page
           pg == [shown EXCEPT !.mission = FALSE]
<1>1. /\ toPage # <<>> /\ toPage' = Tail(toPage) /\ page' = FlagsReset(pg)
      /\ UNCHANGED <<number, mission, careless>>
      /\ waitForMissionID' = ((waitForMissionID \/ Asks) /\ ~Answers)
  BY DEF onmessage, backend, board, Asks, LastId, Answers, Shows
<1>2. page \in PageTypes /\ tel \in Telemetry
  BY <1>1, HeadTailProperties DEF ShownTypes
<1> HIDE DEF tel
<1>3. shown \in PageTypes
  BY <1>2, ShownIs
<1>4. ~careless /\ Shows =>
        /\ shown.markers = shown.route
        /\ Numbered(shown, 0) \/ Numbered(shown, 1)
        /\ shown.first => shown.route = <<>>
        /\ shown.route = IF Len(parseJson(tel).points) > 1 THEN parseJson(tel).points ELSE <<>>
  <2>1. ASSUME ~careless, Shows
        PROVE  page.route = <<>> /\ page.markers = <<>> /\ page.entries = <<>>
    BY <2>1, AwaitingIsEmpty DEF DrawnInv, Awaiting, Shows, Answers, Asks
  <2>. QED  BY <1>2, <2>1, ShownIs
<1>5. ~Shows => shown = page
  OBVIOUS
<1> HIDE DEF shown
<1>6. /\ pg \in PageTypes /\ ~pg.mission
      /\ pg.route = shown.route /\ pg.markers = shown.markers /\ pg.entries = shown.entries
      /\ pg.first = shown.first
  BY <1>3 DEF PageTypes
<1> HIDE DEF pg
<1>7. /\ page' \in PageTypes /\ ~page'.mission
      /\ page'.route = shown.route /\ page'.markers = shown.markers
      /\ page'.entries = shown.entries /\ page'.first = shown.first
  BY <1>1, <1>6, ResetIs
<1>8. ASSUME ~careless' PROVE Drawn'
  <2>1. ~careless /\ Drawn
    BY <1>1, <1>8 DEF DrawnInv
  <2>2. CASE Shows
    <3>1. Awaiting' => FALSE
      BY <1>1, <1>7, <2>2 DEF ShownTypes, Awaiting, Shows, Asks, Answers
    <3>. QED  BY <1>4, <1>7, <2>1, <2>2, <3>1 DEF Drawn, Numbered
  <2>3. CASE ~Shows
    <3>1. Awaiting' => Awaiting
      BY <1>1, <1>7 DEF Awaiting, Asks
    <3>. QED  BY <1>5, <1>7, <2>1, <2>3, <3>1 DEF Drawn, Numbered
  <2>. QED  BY <2>2, <2>3
<1>. QED  BY <1>1, <1>4, <1>5, <1>7, <1>8 DEF DrawnInv, tel
-----------------------------------------------------------------------------
(* Every message on its way carries a mission under its own number.        *)
PublishedInv ==
  /\ published \in Seq(MissionTypes) /\ Len(published) = number + 1
  /\ mission = published[number + 1]
  /\ \A k \in 1..Len(toPage) :
       toPage[k].id \in 0..number /\ toPage[k].mission = published[toPage[k].id + 1]

ShowInv == ShownTypes /\ DrawnInv /\ PublishedInv

(* ... and on a new page.                                                  *)
LEMMA NewPageIs ==
  /\ NewPage \in PageTypes
  /\ NewPage.route = <<>> /\ NewPage.markers = <<>> /\ NewPage.entries = <<>>
<1>1. <<>> \in Seq(Points) /\ <<>> \in Seq(Nat) /\ 3 \in 0..3
  BY EmptySeq
<1>. QED  BY <1>1 DEF NewPage, PageTypes

(* A page just loaded. *)
LEMMA LoadedIs ==
  ASSUME page' = NewPage, toPage' = <<>>, ~waitForMissionID', number' \in Nat,
         mission' \in MissionTypes
  PROVE  ShownTypes' /\ DrawnInv'
<1>1. Numbered(page', 0)
  BY NewPageIs, EmptySeq DEF Numbered
<1>. QED  BY <1>1, NewPageIs, EmptySeq DEF ShownTypes, DrawnInv, Drawn

(* It is so at first.                                                      *)
LEMMA ShowInit == Init => ShowInv
<1>. SUFFICES ASSUME Init PROVE ShowInv
  OBVIOUS
<1>1. page = NewPage /\ toPage = <<>> /\ ~waitForMissionID /\ number = 0 /\ mission = NoMission
      /\ published = <<NoMission>>
  BY DEF Init, Backend!Init
<1>2. Numbered(page, 0)
  BY <1>1, NewPageIs, EmptySeq DEF Numbered
<1>3. ShownTypes /\ DrawnInv
  BY <1>1, <1>2, NewPageIs, MissionIs, EmptySeq DEF ShownTypes, DrawnInv, Drawn
<1>4. <<NoMission>> \in Seq(MissionTypes) /\ Len(<<NoMission>>) = 1 /\ <<NoMission>>[1] = NoMission
  BY MissionIs
<1>5. PublishedInv
  BY <1>1, <1>4, EmptySeq DEF PublishedInv
<1>. QED  BY <1>3, <1>5 DEF ShowInv

(* The steps that neither draw nor show.                                   *)
PageFrame == UNCHANGED <<page, client, careless>>

(* Steps that leave the page alone leave it in order.                      *)
LEMMA QuietStep ==
  ASSUME ShownTypes, DrawnInv, PageFrame, toPage' \in Seq(Telemetry),
         number' \in Nat, mission' \in MissionTypes
  PROVE  ShownTypes' /\ DrawnInv'
BY DEF PageFrame, client, ShownTypes, DrawnInv, Drawn, Numbered, Awaiting

(* A broadcast to the page.                                                *)
LEMMA BroadcastStep ==
  ASSUME ShowInv, Broadcast
  PROVE  ShowInv'
<1>1. PICK whole \in WholeAmperes :
        toPage' = Append(toPage, [id |-> number, mission |-> mission, whole |-> whole])
  BY DEF Broadcast
<1> DEFINE tel == [id |-> number, mission |-> mission, whole |-> whole]
<1>2. PageFrame /\ UNCHANGED <<number, mission, published>>
  BY DEF Broadcast, PageFrame, bounds, history, Backend!Tell
<1>3. tel \in Telemetry /\ toPage \in Seq(Telemetry) /\ number \in Nat
  BY ChoicesAssumption DEF ShowInv, ShownTypes, Telemetry
<1>4. tel.id = number /\ tel.mission = mission
  OBVIOUS
<1> HIDE DEF tel
<1>5. /\ toPage' \in Seq(Telemetry) /\ Len(toPage') = Len(toPage) + 1
      /\ \A k \in 1..Len(toPage) : toPage'[k] = toPage[k]
      /\ toPage'[Len(toPage) + 1] = tel
  BY <1>1, <1>3, AppendProperties DEF tel
<1>6. ShownTypes' /\ DrawnInv'
  BY <1>2, <1>5, QuietStep DEF ShowInv, ShownTypes
<1>7. Len(toPage) \in Nat
  BY <1>3, LenProperties
<1>8. ASSUME NEW k \in 1..Len(toPage')
      PROVE  /\ toPage'[k].id \in 0..number'
             /\ toPage'[k].mission = published'[toPage'[k].id + 1]
  <2>1. CASE k \in 1..Len(toPage)
    BY <1>2, <1>5, <2>1 DEF ShowInv, PublishedInv
  <2>2. CASE k = Len(toPage) + 1
    BY <1>2, <1>3, <1>4, <1>5, <2>2 DEF ShowInv, PublishedInv
  <2>. QED  BY <1>5, <1>7, <2>1, <2>2
<1>. QED  BY <1>2, <1>6, <1>8 DEF ShowInv, PublishedInv

(* The end of a download.                                                  *)
LEMMA EndDownloadStep ==
  ASSUME ShowInv, EndDownload
  PROVE  ShowInv'
<1>1. /\ mission' \in Missions \union {mission} /\ number' = number + 1
      /\ published' = Append(published, mission')
      /\ PageFrame /\ toPage' = toPage
  BY DEF EndDownload, PageFrame, bounds, Backend!Publish, Backend!NextNumber
<1>2. number \in Nat /\ mission' \in MissionTypes /\ toPage \in Seq(Telemetry)
  BY <1>1, MissionIs DEF ShowInv, ShownTypes
<1>3. /\ published' \in Seq(MissionTypes) /\ Len(published') = Len(published) + 1
      /\ \A k \in 1..Len(published) : published'[k] = published[k]
      /\ published'[Len(published) + 1] = mission'
  BY <1>1, <1>2, AppendProperties DEF ShowInv, PublishedInv
<1>4. ShownTypes' /\ DrawnInv'
  BY <1>1, <1>2, QuietStep DEF ShowInv
<1>5. ASSUME NEW k \in 1..Len(toPage')
      PROVE  /\ toPage'[k].id \in 0..number'
             /\ toPage'[k].mission = published'[toPage'[k].id + 1]
  <2>1. toPage[k].id \in 0..number /\ toPage[k].mission = published[toPage[k].id + 1]
    BY <1>1 DEF ShowInv, PublishedInv
  <2>2. toPage[k].id + 1 \in 1..Len(published)
    BY <1>2, <2>1 DEF ShowInv, PublishedInv
  <2>. QED  BY <1>1, <1>2, <1>3, <2>1, <2>2
<1>6. Len(published') = number' + 1 /\ mission' = published'[number' + 1]
  BY <1>1, <1>2, <1>3 DEF ShowInv, PublishedInv
<1>. QED  BY <1>3, <1>4, <1>5, <1>6 DEF ShowInv, PublishedInv

(* Every step keeps what is shown in order.                                *)
LEMMA ShowStep == ShowInv /\ [Next]_vars => ShowInv'
<1>. SUFFICES ASSUME ShowInv, [Next]_vars PROVE ShowInv'
  OBVIOUS
<1>1. CASE UserActs
  <2>1. UserStep
    BY <1>1, UserActsStep DEF ShowInv
  <2>2. ShownTypes' /\ DrawnInv'
    BY <2>1 DEF UserStep, UserFrame, client, backend, board, history, ShowInv, ShownTypes
  <2>3. PublishedInv'
    BY <2>1 DEF UserStep, UserFrame, backend, board, history, ShowInv, PublishedInv
  <2>. QED  BY <2>2, <2>3 DEF ShowInv
<1>2. CASE onmessage
  <2>1. /\ page' \in PageTypes /\ DrawnInv' /\ toPage # <<>> /\ toPage' = Tail(toPage)
        /\ UNCHANGED <<number, mission>>
    BY <1>2, MessageStep DEF ShowInv
  <2>2. /\ toPage' \in Seq(Telemetry) /\ Len(toPage') = Len(toPage) - 1
        /\ \A k \in 1..Len(toPage') : toPage'[k] = toPage[k + 1]
    BY <2>1, HeadTailProperties DEF ShowInv, ShownTypes
  <2>3. isFirstGetMission' => ~waitForMissionID'
    BY <1>2 DEF onmessage, ShowInv, ShownTypes
  <2>4. Len(toPage) \in Nat /\ published' = published
    BY <1>2, LenProperties DEF ShowInv, ShownTypes, onmessage, backend, history
  <2>5. \A k \in 1..Len(toPage') : k + 1 \in 1..Len(toPage)
    BY <2>2, <2>4
  <2>6. PublishedInv'
    BY <2>1, <2>2, <2>4, <2>5 DEF ShowInv, PublishedInv
  <2>. QED  BY <2>1, <2>2, <2>3, <2>6 DEF ShowInv, ShownTypes
<1>3. CASE Reload
  <2>1. /\ page' = NewPage /\ toPage' = <<>> /\ ~waitForMissionID'
        /\ UNCHANGED <<number, mission, published>>
    BY <1>3 DEF Reload, Backend!Join, history
  <2>2. ShownTypes' /\ DrawnInv'
    BY <2>1, LoadedIs DEF ShowInv, ShownTypes
  <2>3. PublishedInv'
    BY <2>1, EmptySeq DEF ShowInv, PublishedInv
  <2>. QED  BY <2>2, <2>3 DEF ShowInv
<1>4. ASSUME PageFrame, UNCHANGED <<toPage, number, mission, published>> PROVE ShowInv'
  <2>1. ShownTypes' /\ DrawnInv'
    BY <1>4, QuietStep DEF ShowInv, ShownTypes
  <2>. QED  BY <1>4, <2>1 DEF ShowInv, PublishedInv
<1>5. CASE HandlePayload
  BY <1>4, <1>5 DEF HandlePayload, PageFrame, board, history
<1>6. CASE OtherPageAsks
  BY <1>4, <1>6 DEF OtherPageAsks, PageFrame, board, history
<1>7. CASE StartDownload
  BY <1>4, <1>7 DEF StartDownload, PageFrame, board, bounds, history
<1>8. CASE UNCHANGED vars
  BY <1>4, <1>8 DEF vars, PageFrame, backend, board, history
<1>9. CASE DropPayload
  BY <1>4, <1>9 DEF DropPayload, PageFrame, backend, board, history
<1>. QED  BY <1>1, <1>2, <1>3, <1>5, <1>6, <1>7, <1>8, <1>9, BroadcastStep, EndDownloadStep
          DEF Next

(* What is shown is in order in every state.                               *)
LEMMA ShowCorrect == Spec => []ShowInv
BY ShowInit, ShowStep, PTL DEF Spec

(* Whatever is drawn, moved, removed, deleted and downloaded, in any order *)
(* and for any routes: every coordinate keeps its marker and every entry   *)
(* of the list acts on a coordinate of its own.                            *)
THEOREM PageIsConsistentCorrect == Spec => []PageIsConsistent
<1>1. ShowInv => PageIsConsistent
  <2>. SUFFICES ASSUME ShowInv, ~careless PROVE
           /\ page.markers = page.route
           /\ \A i \in DOMAIN page.entries : page.entries[i] < Len(page.route)
           /\ IsInjective(page.entries)
    BY DEF PageIsConsistent
  <2>1. Drawn /\ page.route \in Seq(Points) /\ page.entries \in Seq(Nat)
    BY DEF ShowInv, DrawnInv, ShownTypes, PageTypes
  <2>2. /\ DOMAIN page.entries = 1..Len(page.entries)
        /\ Len(page.entries) \in Nat /\ Len(page.route) \in Nat
    BY <2>1, LenProperties
  <2>3. PICK d \in {0, 1} : Numbered(page, d)
    BY <2>1 DEF Drawn
  <2>4. \A i \in DOMAIN page.entries : page.entries[i] = i - 1 + d
    BY <2>2, <2>3 DEF Numbered
  <2>5. Len(page.entries) = Len(page.route) - d
    BY <2>3 DEF Numbered
  <2>6. \A i \in DOMAIN page.entries : page.entries[i] < Len(page.route)
    BY <2>2, <2>4, <2>5
  <2>7. IsInjective(page.entries)
    BY <2>2, <2>4 DEF IsInjective
  <2>. QED  BY <2>1, <2>6, <2>7 DEF Drawn
<1>. QED  BY <1>1, ShowCorrect, PTL

(* A message is told from a reload by the count of reloads.                *)
LEMMA ReloadCounts == Reload => reloads' = reloads + 1
BY Zenon DEF Reload

LEMMA ReloadsAreCounted == Spec => [](reloads \in Nat)
<1>1. Init => reloads \in Nat
  BY DEF Init
<1>2. reloads \in Nat /\ [Next]_vars => (reloads \in Nat)'
  <2>. SUFFICES ASSUME reloads \in Nat, [Next]_vars PROVE reloads' \in Nat
    OBVIOUS
  <2>1. CASE UserActs
    BY <2>1 DEF UserActs, MapClick, RemoveEntry, ApplyEntry, deleteLastWaypoint, deleteAll,
                GetMissionButton, AddReturnButton, PlainButton, User
  <2>. QED  BY <2>1, ReloadCounts
            DEF Next, onmessage, HandlePayload, DropPayload, OtherPageAsks, Broadcast,
                StartDownload, EndDownload, bounds, vars
<1>. QED  BY <1>1, <1>2, PTL DEF Spec

(* What the mission of a message is on the map.                            *)
LEMMA ReadableIs ==
  ASSUME NEW tel
  PROVE  (IF Len(parseJson(tel).points) > 1 THEN parseJson(tel).points ELSE <<>>)
           = (IF tel.whole /\ Len(tel.mission.points) > 1 THEN tel.mission.points ELSE <<>>)
<1>1. NoMission.points = <<>> /\ Len(NoMission.points) = 0
  BY EmptySeq DEF NoMission
<1>2. CASE ~tel.whole
  BY <1>1, <1>2 DEF parseJson
<1>3. CASE tel.whole /\ tel.mission = NoMission
  <2>1. parseJson(tel).points = <<Origin>> /\ Len(<<Origin>>) = 1
    BY <1>3 DEF parseJson, ItemsOf
  <2>. QED  BY <1>1, <1>3, <2>1
<1>4. CASE tel.whole /\ tel.mission # NoMission
  BY <1>4 DEF parseJson, ItemsOf
<1>. QED  BY <1>2, <1>3, <1>4

(* An answer is the mission of the number after the one the page asked     *)
(* with, and nothing but an answer changes the route, for any downloads,   *)
(* requests of other pages and messages still on their way.                *)
THEOREM AnswerIsPublishedCorrect == Spec => AnswerIsPublished
<1> DEFINE answered == waitForMissionID /\ ~waitForMissionID'
           m == published[lastGcsMissionID' + 1]
<1>1. ASSUME ShowInv, reloads \in Nat, [Next]_vars,
             Len(toPage') < Len(toPage), reloads' = reloads
      PROVE  onmessage
  <2>1. Len(toPage) \in Nat
    BY <1>1, LenProperties DEF ShowInv, ShownTypes
  <2>2. toPage' # toPage
    BY <1>1, <2>1
  <2>3. ~UserActs
    BY <1>1, <2>2, UserActsStep DEF ShowInv, UserStep, UserFrame
  <2>4. ~Reload
    BY <1>1, ReloadCounts
  <2>5. ~Broadcast
    <3>. SUFFICES ASSUME Broadcast PROVE FALSE
      OBVIOUS
    <3>1. PICK whole \in WholeAmperes :
            toPage' = Append(toPage, [id |-> number, mission |-> mission, whole |-> whole])
      BY DEF Broadcast
    <3> DEFINE tel == [id |-> number, mission |-> mission, whole |-> whole]
    <3>2. tel \in Telemetry
      BY <1>1, ChoicesAssumption DEF ShowInv, ShownTypes, Telemetry
    <3> HIDE DEF tel
    <3>3. Len(toPage') = Len(toPage) + 1
      BY <1>1, <3>1, <3>2, AppendProperties DEF tel, ShowInv, ShownTypes
    <3>. QED  BY <1>1, <2>1, <3>3
  <2>. QED  BY <1>1, <2>2, <2>3, <2>4, <2>5
            DEF Next, HandlePayload, DropPayload, OtherPageAsks, StartDownload, EndDownload, vars
<1>2. ASSUME ShowInv, onmessage, ~isFirstGetMission, ~careless,
             answered \/ page'.route # page.route
      PROVE  /\ answered
             /\ page'.route = IF Head(toPage).whole /\ Len(m.points) > 1
                              THEN m.points ELSE <<>>
  <2>1. /\ toPage # <<>> /\ (~Shows => page'.route = page.route)
        /\ Shows => page'.route = IF Len(parseJson(Head(toPage)).points) > 1
                                  THEN parseJson(Head(toPage)).points ELSE <<>>
    BY <1>2, MessageStep DEF ShowInv
  <2>2. /\ waitForMissionID' = ((waitForMissionID \/ Asks) /\ ~Answers)
        /\ lastGcsMissionID' = IF Answers THEN LastId + 1 ELSE LastId
    BY <1>2 DEF onmessage, Asks, LastId, Answers
  <2>3. Answers
    BY <1>2, <2>1, <2>2 DEF Shows
  <2>4. /\ Head(toPage) = toPage[1] /\ 1 \in 1..Len(toPage)
        /\ Head(toPage).id \in Nat
    <3>1. toPage \in Seq(Telemetry) /\ toPage # <<>>
      BY <1>2, <2>1 DEF ShowInv, ShownTypes
    <3>2. Len(toPage) \in Nat /\ Len(toPage) # 0
      BY <3>1, LenProperties, EmptySeq
    <3>3. Head(toPage) = toPage[1] /\ Head(toPage) \in Telemetry
      BY <3>1, HeadTailProperties
    <3>. QED  BY <3>2, <3>3 DEF Telemetry
  <2>5. ~Asks
    BY <2>3, <2>4 DEF Answers, LastId, IsAnswer
  <2>6. answered
    BY <2>2, <2>3, <2>5 DEF Answers
  <2>7. lastGcsMissionID' = Head(toPage).id
    BY <2>2, <2>3 DEF Answers, IsAnswer
  <2>8. Head(toPage).mission = m
    BY <1>2, <2>4, <2>7 DEF ShowInv, PublishedInv
  <2>. QED  BY <2>1, <2>3, <2>6, <2>8, ReadableIs DEF Shows
<1>3. ShowInv /\ reloads \in Nat /\ [Next]_vars =>
        (Len(toPage') < Len(toPage) /\ reloads' = reloads /\ ~isFirstGetMission /\ ~careless
           /\ (answered \/ page'.route # page.route) =>
           /\ answered
           /\ page'.route = IF Head(toPage).whole /\ Len(m.points) > 1
                            THEN m.points ELSE <<>>)
  BY <1>1, <1>2
<1>. QED  BY <1>3, ShowCorrect, ReloadsAreCounted, PTL DEF Spec, AnswerIsPublished
-----------------------------------------------------------------------------
(* What convertCoordinates keeps of the first n coordinates.               *)
Kept(before, p) == IF p \in Negative THEN before ELSE Append(before, p)
Keeps(kept, route, n) ==
  kept = [k \in 0..n |-> IF k = 0 THEN <<>> ELSE Kept(kept[k - 1], route[k])]

(* There is a function that keeps the waypoints of any route.              *)
LEMMA KeptExists ==
  ASSUME NEW route, NEW N \in Nat
  PROVE  \E kept : Keeps(kept, route, N)
<1> DEFINE S == {n \in Nat : \E kept : Keeps(kept, route, n)}
<1>1. 0 \in S
  <2>1. Keeps([k \in 0..0 |-> <<>>], route, 0)
    BY DEF Keeps
  <2>. QED  BY <2>1
<1>2. ASSUME NEW n \in Nat, n \in S PROVE n + 1 \in S
  <2>1. PICK kept : Keeps(kept, route, n)
    BY <1>2
  <2> DEFINE longer == [k \in 0..(n + 1) |-> IF k = n + 1 THEN Kept(kept[n], route[k]) ELSE kept[k]]
  <2>2. longer = [k \in 0..(n + 1) |-> IF k = 0 THEN <<>> ELSE Kept(longer[k - 1], route[k])]
    BY <2>1 DEF Keeps
  <2> HIDE DEF longer
  <2>3. Keeps(longer, route, n + 1)
    BY <2>2 DEF Keeps
  <2>. QED  BY <2>3
<1> HIDE DEF S
<1>3. 0..N \subseteq S
  BY <1>1, <1>2, InductionFrom
<1>. QED  BY <1>3 DEF S

(* The payloads' coordinates are places, and all of the route's if none is *)
(* negative.                                                               *)
LEMMA ConvertedIs ==
  ASSUME NEW route \in Seq(Points)
  PROVE  /\ convertCoordinates[route] \in Seq(Points)
         /\ ToSet(route) \intersect Negative = {} => convertCoordinates[route] = route
<1> DEFINE N == Len(route)
           kept == CHOOSE kept : Keeps(kept, route, N)
<1>1. N \in Nat /\ \A k \in 1..N : route[k] \in Points
  BY LenProperties, ElementOfSeq
<1>2. convertCoordinates[route] = kept[N]
  BY DEF convertCoordinates, Keeps, Kept
<1>3. Keeps(kept, route, N)
  BY <1>1, KeptExists
<1> HIDE DEF N, kept
<1>4. /\ kept[0] = <<>>
      /\ \A n \in 1..N : kept[n] = Kept(kept[n - 1], route[n])
  BY <1>1, <1>3 DEF Keeps
<1> DEFINE S == {n \in 0..N : kept[n] \in Seq(Points)}
<1>5. 0 \in S
  <2>1. 0 \in 0..N
    BY <1>1
  <2>2. kept[0] \in Seq(Points)
    BY <1>4, EmptySeq, Zenon
  <2>. QED  BY <2>1, <2>2, Zenon
<1>6. ASSUME NEW n \in 0..(N - 1), n \in S PROVE n + 1 \in S
  <2>1. n + 1 \in 1..N /\ n + 1 - 1 = n /\ n + 1 \in 0..N
    BY <1>1
  <2>2. kept[n + 1] = Kept(kept[n], route[n + 1])
    BY <1>4, <2>1
  <2>3. kept[n] \in Seq(Points) /\ route[n + 1] \in Points
    BY <1>1, <1>6, <2>1
  <2>4. Append(kept[n], route[n + 1]) \in Seq(Points)
    BY <2>3, AppendProperties
  <2>. QED  BY <2>1, <2>2, <2>3, <2>4 DEF Kept
<1>7. 0..N \subseteq S
  <2> HIDE DEF S
  <2>. QED  BY <1>1, <1>5, <1>6, InductionFrom
<1>8. kept[N] \in Seq(Points)
  BY <1>1, <1>7
<1>9. ASSUME ToSet(route) \intersect Negative = {} PROVE kept[N] = route
  <2> DEFINE A == {n \in 0..N : kept[n] = SubSeq(route, 1, n)}
  <2>1. \A n \in 1..N : route[n] \notin Negative
    BY <1>1, <1>9, LenProperties DEF ToSet, N
  <2>2. 0 \in A
    <3>1. SubSeq(route, 1, 0) = <<>>
      BY SubSeqEmpty
    <3>2. 0 \in 0..N
      BY <1>1
    <3>3. kept[0] = SubSeq(route, 1, 0)
      BY <1>4, <3>1, Zenon
    <3>. QED  BY <3>2, <3>3, Zenon
  <2>3. ASSUME NEW n \in 0..(N - 1), n \in A PROVE n + 1 \in A
    <3>1. n + 1 \in 1..N /\ n + 1 - 1 = n /\ n + 1 \in 0..N
      BY <1>1
    <3>2. kept[n + 1] = Append(SubSeq(route, 1, n), route[n + 1])
      <4>1. kept[n + 1] = Kept(kept[n], route[n + 1]) /\ kept[n] = SubSeq(route, 1, n)
        BY <1>4, <2>3, <3>1
      <4>. QED  BY <2>1, <3>1, <4>1 DEF Kept
    <3>3. SubSeq(route, 1, n + 1) = SubSeq(route, 1, n) \o <<route[n + 1]>>
      BY <1>1, <3>1, SubSeqRecursiveSecond DEF N
    <3>4. SubSeq(route, 1, n) \in Seq(Points) /\ route[n + 1] \in Points
      BY <1>1, <3>1, SubSeqProperties
    <3>5. SubSeq(route, 1, n + 1) = Append(SubSeq(route, 1, n), route[n + 1])
      BY <3>3, <3>4, AppendIsConcat
    <3>. QED  BY <3>1, <3>2, <3>5
  <2>4. 0..N \subseteq A
    <3> HIDE DEF A
    <3>. QED  BY <1>1, <2>2, <2>3, InductionFrom
  <2>5. kept[N] = SubSeq(route, 1, N)
    BY <1>1, <2>4
  <2>. QED  BY <2>5, SubSeqFull DEF N
<1>. QED  BY <1>2, <1>8, <1>9

(* The upload in a queue of payloads: how many waypoints it has, where they *)
(* are, and the place of the payload that clears the list before them.     *)
Uploads(q) == {k \in 1..Len(q) : q[k].type = "uploadMission"}
Size(upload) == Len(convertCoordinates[upload.route])
Nth(upload, j) == Waypoint(convertCoordinates[upload.route][j])
BeginsAt(q, k) == k - Size(q[k]) - 1

(* Before every upload stand its waypoints, as far as they are still there. *)
Ordered(q) == \A k \in Uploads(q) :
  /\ BeginsAt(q, k) >= 1 => q[BeginsAt(q, k)] = Payload("waitForMission")
  /\ \A j \in 1..Size(q[k]) : BeginsAt(q, k) + j >= 1 => q[BeginsAt(q, k) + j] = Nth(q[k], j)

Whole(q) == q \in Seq(PayloadTypes) /\ Ordered(q) /\ \A k \in Uploads(q) : BeginsAt(q, k) >= 1

(* What an upload sends.                                                   *)
LEMMA UploadIs ==
  ASSUME NEW upload \in PayloadTypes, upload.type = "uploadMission"
  PROVE  /\ convertCoordinates[upload.route] \in Seq(Points) /\ Size(upload) \in Nat
         /\ ToSet(upload.route) \intersect Negative = {} =>
              convertCoordinates[upload.route] = upload.route
<1>1. upload.route \in Seq(Points)
  BY DEF PayloadTypes, SimplePayloads, Payload
<1>2. convertCoordinates[upload.route] \in Seq(Points)
  BY <1>1, ConvertedIs
<1>. QED  BY <1>1, <1>2, ConvertedIs, LenProperties DEF Size

(* Messages in order, followed by messages in order.                       *)
LEMMA OrderedConcat ==
  ASSUME NEW q \in Seq(PayloadTypes), Ordered(q), NEW r, Whole(r)
  PROVE  /\ q \o r \in Seq(PayloadTypes) /\ Ordered(q \o r)
         /\ \A k \in Uploads(q \o r) :
              \/ k \in Uploads(q) /\ (q \o r)[k] = q[k]
              \/ BeginsAt(q \o r, k) >= 1
<1>1. /\ Len(q) \in Nat /\ Len(r) \in Nat /\ r \in Seq(PayloadTypes)
      /\ q \o r \in Seq(PayloadTypes) /\ Len(q \o r) = Len(q) + Len(r)
      /\ \A k \in 1..(Len(q) + Len(r)) :
           (q \o r)[k] = IF k <= Len(q) THEN q[k] ELSE r[k - Len(q)]
  BY LenProperties, ConcatProperties DEF Whole
<1> DEFINE s == q \o r
<1> HIDE DEF s
<1>2. ASSUME NEW k \in Uploads(s), k <= Len(q)
      PROVE  /\ k \in Uploads(q) /\ s[k] = q[k]
             /\ BeginsAt(s, k) >= 1 => s[BeginsAt(s, k)] = Payload("waitForMission")
             /\ \A j \in 1..Size(s[k]) :
                  BeginsAt(s, k) + j >= 1 => s[BeginsAt(s, k) + j] = Nth(s[k], j)
  <2>1. k \in Uploads(q) /\ s[k] = q[k] /\ k \in 1..Len(q)
    BY <1>1, <1>2 DEF Uploads, s
  <2>2. Size(q[k]) \in Nat
    BY <2>1, UploadIs, ElementOfSeq DEF Uploads
  <2>3. BeginsAt(s, k) = BeginsAt(q, k) /\ BeginsAt(q, k) = k - Size(q[k]) - 1
    BY <2>1 DEF BeginsAt
  <2>4. \A i \in 1..Len(q) : s[i] = q[i]
    BY <1>1 DEF s
  <2>5. BeginsAt(s, k) >= 1 => s[BeginsAt(s, k)] = Payload("waitForMission")
    BY <1>1, <2>1, <2>2, <2>3, <2>4 DEF Ordered
  <2>6. ASSUME NEW j \in 1..Size(s[k]), BeginsAt(s, k) + j >= 1
        PROVE  s[BeginsAt(s, k) + j] = Nth(s[k], j)
    <3>1. BeginsAt(q, k) + j \in 1..Len(q)
      BY <1>1, <2>1, <2>2, <2>3, <2>6
    <3>2. q[BeginsAt(q, k) + j] = Nth(q[k], j)
      BY <2>1, <2>3, <2>6 DEF Ordered
    <3>. QED  BY <2>1, <2>3, <2>4, <3>1, <3>2
  <2>. QED  BY <2>1, <2>5, <2>6
<1>3. ASSUME NEW k \in Uploads(s), ~(k <= Len(q))
      PROVE  /\ BeginsAt(s, k) >= 1 /\ s[BeginsAt(s, k)] = Payload("waitForMission")
             /\ \A j \in 1..Size(s[k]) :
                  BeginsAt(s, k) + j >= 1 => s[BeginsAt(s, k) + j] = Nth(s[k], j)
  <2> DEFINE d == k - Len(q)
  <2>1. k \in 1..(Len(q) + Len(r)) /\ d \in 1..Len(r) /\ s[k] = r[d] /\ d \in Uploads(r)
    BY <1>1, <1>3 DEF Uploads, s
  <2>2. Size(r[d]) \in Nat
    BY <1>1, <2>1, UploadIs, ElementOfSeq DEF Uploads
  <2>3. BeginsAt(r, d) >= 1 /\ BeginsAt(r, d) = d - Size(r[d]) - 1
    BY <2>1 DEF Whole, BeginsAt
  <2>4. BeginsAt(s, k) = k - Size(r[d]) - 1
    BY <2>1 DEF BeginsAt
  <2>5. \A i \in 1..Len(r) : s[Len(q) + i] = r[i]
    BY <1>1 DEF s
  <2>6. BeginsAt(s, k) = Len(q) + BeginsAt(r, d)
    BY <1>1, <2>1, <2>2, <2>3, <2>4
  <2> HIDE DEF d
  <2>7. BeginsAt(r, d) \in 1..Len(r)
    BY <1>1, <2>1, <2>2, <2>3
  <2>8. s[BeginsAt(s, k)] = Payload("waitForMission")
    BY <2>1, <2>3, <2>5, <2>6, <2>7 DEF Whole, Ordered
  <2>9. ASSUME NEW j \in 1..Size(s[k]), BeginsAt(s, k) + j >= 1
        PROVE  s[BeginsAt(s, k) + j] = Nth(s[k], j)
    <3>1. BeginsAt(r, d) + j \in 1..Len(r)
      BY <1>1, <2>1, <2>2, <2>3
    <3>2. r[BeginsAt(r, d) + j] = Nth(r[d], j)
      BY <2>1, <3>1 DEF Whole, Ordered
    <3>3. BeginsAt(s, k) + j = Len(q) + (BeginsAt(r, d) + j)
      BY <1>1, <2>1, <2>2, <2>3, <2>6
    <3>. QED  BY <2>1, <2>5, <3>1, <3>2, <3>3
  <2>10. BeginsAt(s, k) >= 1
    BY <1>1, <2>6, <2>7
  <2>. QED  BY <2>8, <2>9, <2>10
<1>4. \A k \in Uploads(s) : k <= Len(q) \/ ~(k <= Len(q))
  OBVIOUS
<1>5. Ordered(s)
  BY <1>2, <1>3 DEF Ordered
<1>6. \A k \in Uploads(s) : (k \in Uploads(q) /\ s[k] = q[k]) \/ BeginsAt(s, k) >= 1
  BY <1>2, <1>3
<1>. QED  BY <1>1, <1>5, <1>6 DEF s

(* Whole uploads, followed by whole uploads.                               *)
LEMMA WholeConcat ==
  ASSUME NEW q, Whole(q), NEW r, Whole(r)
  PROVE  Whole(q \o r)
<1>1. q \in Seq(PayloadTypes) /\ r \in Seq(PayloadTypes) /\ Ordered(q)
  BY DEF Whole
<1>2. /\ q \o r \in Seq(PayloadTypes) /\ Ordered(q \o r)
      /\ \A k \in Uploads(q \o r) :
           \/ k \in Uploads(q) /\ (q \o r)[k] = q[k]
           \/ BeginsAt(q \o r, k) >= 1
  BY <1>1, OrderedConcat
<1>3. \A k \in Uploads(q \o r) : BeginsAt(q \o r, k) >= 1
  BY <1>2 DEF Whole, BeginsAt
<1>. QED  BY <1>2, <1>3 DEF Whole

(* Messages without an upload hold whole uploads only.                     *)
LEMMA WholeIfNoUpload ==
  ASSUME NEW p \in SimplePayloads
  PROVE  Whole(<<p>>) /\ Whole(<<>>)
<1>1. p \in PayloadTypes /\ p.type # "uploadMission"
  BY DEF PayloadTypes, SimplePayloads, Payload
<1>2. Uploads(<<p>>) = {} /\ Uploads(<<>>) = {}
  BY <1>1 DEF Uploads
<1>. QED  BY <1>1, <1>2, EmptySeq DEF Whole, Ordered

(* What an upload sends is a whole upload.                                 *)
LEMMA UploadIsWhole ==
  ASSUME NEW pg \in PageTypes
  PROVE  Whole(UploadPayloads(pg))
<1> DEFINE cs == convertCoordinates[pg.route]
           n == Len(cs)
           points == [i \in DOMAIN cs |-> Waypoint(cs[i])]
           clear == Payload("waitForMission")
           upload == UploadOf(pg.route)
           q == UploadPayloads(pg)
<1>1. upload \in PayloadTypes /\ clear \in PayloadTypes
  BY DEF PageTypes, PayloadTypes, SimplePayloads, UploadOf, Payload
<1>2. cs \in Seq(Points) /\ n \in Nat /\ DOMAIN cs = 1..n
  <2>1. pg.route \in Seq(Points)
    BY DEF PageTypes
  <2>2. cs \in Seq(Points)
    BY <2>1, ConvertedIs
  <2>. HIDE DEF cs
  <2>. QED  BY <2>2, LenProperties
<1>3. \A i \in 1..n : Waypoint(cs[i]) \in PayloadTypes
  <2>1. \A i \in 1..n : cs[i] \in Points
    BY <1>2, ElementOfSeq
  <2>. QED  BY <2>1 DEF PayloadTypes, Waypoint
<1>4. points \in Seq(PayloadTypes) /\ Len(points) = n
  <2>1. points \in [1..n -> PayloadTypes]
    BY <1>2, <1>3
  <2>. HIDE DEF points
  <2>. QED  BY <1>2, <2>1, SeqDef
<1>5. \A i \in 1..n : points[i] = Waypoint(cs[i])
  BY <1>2
<1>6. q = <<clear>> \o points \o <<upload>>
  BY DEF UploadPayloads, Waypoints
<1>7. upload.type = "uploadMission" /\ upload.route = pg.route
  BY DEF UploadOf
<1>8. clear.type = "waitForMission" /\ \A i \in 1..n : points[i].type = "waypoint"
  BY <1>5 DEF Payload, Waypoint
<1>9. Size(upload) = n /\ \A j \in 1..n : Nth(upload, j) = points[j]
  BY <1>5, <1>7 DEF Size, Nth
<1> HIDE DEF cs, n, points, upload, q
<1>10. /\ <<clear>> \o points \in Seq(PayloadTypes) /\ Len(<<clear>> \o points) = n + 1
       /\ (<<clear>> \o points)[1] = clear
       /\ \A i \in 1..n : (<<clear>> \o points)[i + 1] = points[i]
  <2>. HIDE DEF clear
  <2>1. <<clear>> \in Seq(PayloadTypes) /\ Len(<<clear>>) = 1 /\ <<clear>>[1] = clear
    BY <1>1
  <2>. QED  BY <1>2, <1>4, <2>1, ConcatProperties
<1> DEFINE front == <<clear>> \o points
<1> HIDE DEF front
<1>11. /\ q \in Seq(PayloadTypes) /\ Len(q) = n + 2
       /\ q[1] = clear /\ q[n + 2] = upload /\ \A i \in 1..n : q[i + 1] = points[i]
  <2>1. <<upload>> \in Seq(PayloadTypes) /\ Len(<<upload>>) = 1 /\ <<upload>>[1] = upload
    BY <1>1
  <2>2. /\ front \in Seq(PayloadTypes) /\ Len(front) = n + 1 /\ front[1] = clear
        /\ \A i \in 1..n : front[i + 1] = points[i]
    BY <1>10 DEF front
  <2>3. q = front \o <<upload>>
    BY <1>6 DEF front
  <2>. HIDE DEF clear
  <2>4. /\ q \in Seq(PayloadTypes) /\ Len(q) = n + 2
        /\ \A k \in 1..(n + 2) : q[k] = IF k <= n + 1 THEN front[k] ELSE <<upload>>[k - (n + 1)]
    BY <1>2, <2>1, <2>2, <2>3, ConcatProperties
  <2>5. q[1] = front[1] /\ \A i \in 1..n : q[i + 1] = front[i + 1]
    BY <1>2, <2>4
  <2>6. q[n + 2] = <<upload>>[1]
    BY <1>2, <2>4
  <2>. QED  BY <2>1, <2>2, <2>4, <2>5, <2>6
<1>12. \A k \in Uploads(q) : k = n + 2
  <2>. SUFFICES ASSUME NEW k \in Uploads(q), k # n + 2 PROVE FALSE
    OBVIOUS
  <2>1. k = 1 \/ \E i \in 1..n : k = i + 1
    <3>1. k \in 1..(n + 2)
      BY <1>11 DEF Uploads
    <3>2. k = 1 \/ k - 1 \in 1..n
      BY <1>2, <3>1
    <3>. QED  BY <3>1, <3>2
  <2>. QED  BY <1>8, <1>11, <2>1 DEF Uploads
<1>13. BeginsAt(q, n + 2) = 1
  BY <1>2, <1>9, <1>11 DEF BeginsAt
<1>14. Ordered(q)
  BY <1>2, <1>9, <1>11, <1>12, <1>13 DEF Ordered, clear
<1>. QED  BY <1>11, <1>12, <1>13, <1>14 DEF Whole, q

(* Whatever flags the page raised.                                         *)
LEMMA PayloadsAreWhole ==
  ASSUME NEW pg \in PageTypes, NEW asks
  PROVE  Whole(When(asks, <<Payload("getMission")>>)) /\ Whole(Payloads(pg))
<1>1. \A b, t : t \in {"fly", "waitForMission", "autoRTL", "deleteMissions", "RTL", "getMission"}
                  => Whole(When(b, <<Payload(t)>>))
  <2>. SUFFICES ASSUME NEW b, NEW t,
                       t \in {"fly", "waitForMission", "autoRTL", "deleteMissions", "RTL", "getMission"}
                PROVE  Whole(When(b, <<Payload(t)>>))
    OBVIOUS
  <2>1. Payload(t) \in SimplePayloads
    BY DEF SimplePayloads
  <2>. QED  BY <2>1, WholeIfNoUpload DEF When
<1>2. Whole(When(pg.upload, UploadPayloads(pg)))
  <2>1. Payload("fly") \in SimplePayloads
    BY DEF SimplePayloads
  <2>. QED  BY <2>1, UploadIsWhole, WholeIfNoUpload DEF When
<1>3. Whole(When(Flies(pg), <<Payload("fly")>>) \o When(pg.upload, UploadPayloads(pg)))
  BY <1>1, <1>2, WholeConcat
<1>4. Whole(When(Flies(pg), <<Payload("fly")>>) \o When(pg.upload, UploadPayloads(pg))
              \o When(pg.autoRTL, <<Payload("autoRTL")>>))
  BY <1>1, <1>3, WholeConcat
<1>5. Whole(When(Flies(pg), <<Payload("fly")>>) \o When(pg.upload, UploadPayloads(pg))
              \o When(pg.autoRTL, <<Payload("autoRTL")>>)
              \o When(pg.deleteMissions, <<Payload("deleteMissions")>>))
  BY <1>1, <1>4, WholeConcat
<1>. QED  BY <1>1, <1>5, WholeConcat DEF Payloads

(* The list of the backend is what it took of the waypoints of an upload   *)
(* that is coming.                                                         *)
Taken(q, list) == \A k \in Uploads(q) :
  BeginsAt(q, k) < 1 => list = SubSeq(convertCoordinates[q[k].route], 1, Size(q[k]) - k + 1)

QueueInv ==
  /\ toServer \in Seq(PayloadTypes) /\ mission_points \in Seq(Points)
  /\ Ordered(toServer) /\ Taken(toServer, mission_points)

(* Messages that are sent behind those in the queue.                       *)
LEMMA SentStep ==
  ASSUME QueueInv, NEW r, Whole(r), toServer' = toServer \o r, mission_points' = mission_points
  PROVE  QueueInv'
<1>1. /\ toServer' \in Seq(PayloadTypes) /\ Ordered(toServer')
      /\ \A k \in Uploads(toServer') :
           \/ k \in Uploads(toServer) /\ toServer'[k] = toServer[k]
           \/ BeginsAt(toServer', k) >= 1
  BY OrderedConcat DEF QueueInv
<1> DEFINE s == toServer'
<1> HIDE DEF s
<1>2. ASSUME NEW k \in Uploads(s), BeginsAt(s, k) < 1
      PROVE  mission_points' = SubSeq(convertCoordinates[s[k].route], 1, Size(s[k]) - k + 1)
  <2>1. Size(s[k]) \in Nat /\ k \in Nat
    BY <1>1, <1>2, UploadIs, ElementOfSeq, LenProperties DEF Uploads, s
  <2>2. ~(BeginsAt(s, k) >= 1)
    BY <1>2, <2>1 DEF BeginsAt
  <2>3. k \in Uploads(toServer) /\ s[k] = toServer[k]
    BY <1>1, <2>2 DEF s
  <2>4. BeginsAt(toServer, k) < 1
    BY <1>2, <2>3 DEF BeginsAt
  <2>. QED  BY <2>3, <2>4 DEF QueueInv, Taken
<1>3. Taken(s, mission_points')
  BY <1>2 DEF Taken
<1>. QED  BY <1>1, <1>3 DEF QueueInv, s

(* What was sent last is lost with the connection.                         *)
LEMMA LostStep ==
  ASSUME QueueInv, NEW n \in 0..Len(toServer), toServer' = SubSeq(toServer, 1, n),
         mission_points' = mission_points
  PROVE  QueueInv'
<1>1. Len(toServer) \in Nat
  BY LenProperties DEF QueueInv
<1>2. /\ toServer' \in Seq(PayloadTypes) /\ Len(toServer') = n
      /\ \A k \in 1..n : toServer'[k] = toServer[k]
  BY Beginning DEF QueueInv
<1>3. ASSUME NEW k \in Uploads(toServer')
      PROVE  /\ k \in Uploads(toServer) /\ toServer'[k] = toServer[k] /\ k \in 1..n
             /\ BeginsAt(toServer', k) = BeginsAt(toServer, k)
             /\ BeginsAt(toServer, k) = k - Size(toServer[k]) - 1 /\ Size(toServer[k]) \in Nat
  <2>1. k \in 1..n /\ toServer'[k] = toServer[k] /\ toServer[k].type = "uploadMission"
    BY <1>2, <1>3 DEF Uploads
  <2>2. k \in Uploads(toServer) /\ toServer[k] \in PayloadTypes
    BY <1>1, <2>1, ElementOfSeq DEF Uploads, QueueInv
  <2>. QED  BY <2>1, <2>2, UploadIs DEF BeginsAt
<1>4. ASSUME NEW k \in Uploads(toServer'), BeginsAt(toServer', k) >= 1
      PROVE  toServer'[BeginsAt(toServer', k)] = Payload("waitForMission")
  <2>1. BeginsAt(toServer, k) \in 1..n /\ BeginsAt(toServer, k) >= 1
    BY <1>1, <1>3, <1>4
  <2>. QED  BY <1>2, <1>3, <2>1 DEF QueueInv, Ordered
<1>5. ASSUME NEW k \in Uploads(toServer'), NEW j \in 1..Size(toServer'[k]),
             BeginsAt(toServer', k) + j >= 1
      PROVE  toServer'[BeginsAt(toServer', k) + j] = Nth(toServer'[k], j)
  <2>1. j \in 1..Size(toServer[k])
    BY <1>3
  <2>2. BeginsAt(toServer, k) + j \in 1..n /\ BeginsAt(toServer, k) + j >= 1
    BY <1>1, <1>3, <1>5, <2>1
  <2>3. toServer[BeginsAt(toServer, k) + j] = Nth(toServer[k], j)
    BY <1>3, <2>1, <2>2 DEF QueueInv, Ordered
  <2>. QED  BY <1>2, <1>3, <2>2, <2>3
<1>6. Ordered(toServer')
  BY <1>4, <1>5 DEF Ordered
<1>7. Taken(toServer', mission_points')
  BY <1>3 DEF Taken, QueueInv
<1>. QED  BY <1>2, <1>6, <1>7 DEF QueueInv

(* The backend handles the payloads in order: a clearing, a waypoint or    *)
(* something else before the upload.                                       *)
LEMMA HandleStep ==
  ASSUME QueueInv, HandlePayload
  PROVE  QueueInv'
<1> DEFINE q == toServer
           r == toServer'
           m == Head(toServer)
<1>1. q \in Seq(PayloadTypes) /\ q # <<>> /\ r = Tail(q) /\ mission_points \in Seq(Points)
  BY DEF QueueInv, HandlePayload
<1>2. mission_points' = CASE m.type \in {"waitForMission", "deleteMissions"} -> <<>>
                          [] m.type = "waypoint" -> Append(mission_points, m.at)
                          [] OTHER -> mission_points
  BY DEF HandlePayload
<1>3. /\ r \in Seq(PayloadTypes) /\ Len(r) = Len(q) - 1 /\ Len(q) \in Nat /\ Len(q) >= 1
      /\ m \in PayloadTypes /\ m = q[1] /\ \A i \in 1..Len(r) : r[i] = q[i + 1]
  <2>1. Len(q) \in Nat /\ Len(q) # 0
    BY <1>1, LenProperties, EmptySeq
  <2>2. m = q[1]
    BY <1>1
  <2>. QED  BY <1>1, <2>1, <2>2, HeadTailProperties
<1>4. mission_points' \in Seq(Points)
  <2>1. CASE m.type = "waypoint"
    <3>1. m.at \in Points
      BY <1>3, <2>1 DEF PayloadTypes, SimplePayloads, Payload
    <3>2. Append(mission_points, m.at) \in Seq(Points)
      BY <1>1, <3>1, AppendProperties
    <3>3. "waypoint" \notin {"waitForMission", "deleteMissions"}
      OBVIOUS
    <3>. QED  BY <1>2, <2>1, <3>2, <3>3
  <2>2. CASE m.type # "waypoint"
    BY <1>1, <1>2, <2>2, EmptySeq
  <2>. QED  BY <2>1, <2>2
<1> HIDE DEF q, r, m
<1>5. ASSUME NEW k \in Uploads(r)
      PROVE  /\ k \in 1..Len(r) /\ k + 1 \in Uploads(q) /\ r[k] = q[k + 1]
             /\ Size(r[k]) \in Nat /\ convertCoordinates[r[k].route] \in Seq(Points)
             /\ BeginsAt(q, k + 1) = k - Size(r[k]) /\ BeginsAt(r, k) = k - Size(r[k]) - 1
  <2>1. k \in 1..Len(r) /\ r[k].type = "uploadMission"
    BY <1>5 DEF Uploads
  <2>2. r[k] = q[k + 1] /\ k + 1 \in 1..Len(q)
    BY <1>3, <2>1
  <2>3. Size(r[k]) \in Nat /\ convertCoordinates[r[k].route] \in Seq(Points)
    BY <1>3, <2>1, UploadIs, ElementOfSeq
  <2>. QED  BY <2>1, <2>2, <2>3 DEF BeginsAt, Uploads
<1>6. Ordered(q) /\ Taken(q, mission_points)
  BY DEF QueueInv, q
<1>7. ASSUME NEW k \in Uploads(r), BeginsAt(r, k) >= 1
      PROVE  r[BeginsAt(r, k)] = Payload("waitForMission")
  <2>1. BeginsAt(r, k) \in 1..Len(r) /\ BeginsAt(q, k + 1) = BeginsAt(r, k) + 1
    BY <1>3, <1>5, <1>7
  <2>2. BeginsAt(q, k + 1) >= 1
    BY <2>1
  <2>. QED  BY <1>3, <1>5, <1>6, <2>1, <2>2 DEF Ordered
<1>8. ASSUME NEW k \in Uploads(r), NEW j \in 1..Size(r[k]), BeginsAt(r, k) + j >= 1
      PROVE  r[BeginsAt(r, k) + j] = Nth(r[k], j)
  <2>1. j \in 1..Size(q[k + 1])
    BY <1>5
  <2>2. BeginsAt(r, k) + j \in 1..Len(r) /\ BeginsAt(q, k + 1) + j = BeginsAt(r, k) + j + 1
    <3> DEFINE size == Size(r[k])
               begin == BeginsAt(r, k)
    <3>1. /\ k \in 1..Len(r) /\ size \in Nat /\ begin = k - size - 1 /\ j \in 1..size
          /\ BeginsAt(q, k + 1) = k - size
      BY <1>5
    <3>2. begin + j >= 1
      BY <1>8
    <3> HIDE DEF size, begin
    <3>. QED  BY <1>3, <3>1, <3>2 DEF begin
  <2>3. BeginsAt(q, k + 1) + j >= 1
    BY <2>2
  <2>4. q[BeginsAt(q, k + 1) + j] = Nth(q[k + 1], j)
    BY <1>5, <1>6, <2>1, <2>3 DEF Ordered
  <2>. QED  BY <1>3, <1>5, <2>2, <2>4
<1>9. ASSUME NEW k \in Uploads(r), BeginsAt(r, k) < 1
      PROVE  mission_points' = SubSeq(convertCoordinates[r[k].route], 1, Size(r[k]) - k + 1)
  <2> DEFINE cs == convertCoordinates[r[k].route]
             n == Size(r[k])
  <2>1. cs \in Seq(Points) /\ n = Len(cs) /\ n \in Nat /\ k \in Nat \ {0} /\ k <= n + 1
    BY <1>3, <1>5, <1>9 DEF Size
  <2>2. cs = convertCoordinates[q[k + 1].route] /\ n = Size(q[k + 1])
    BY <1>5
  <2>3. k + 1 \in Uploads(q) /\ BeginsAt(q, k + 1) = k - n
    BY <1>5
  <2> HIDE DEF cs, n
  <2>4. CASE k = n + 1
    <3>1. BeginsAt(q, k + 1) = 1
      BY <2>1, <2>3, <2>4
    <3>2. q[1] = Payload("waitForMission")
      BY <1>6, <2>3, <3>1 DEF Ordered
    <3>3. mission_points' = <<>>
      BY <1>2, <1>3, <3>2 DEF Payload
    <3>4. n - k + 1 = 0
      BY <2>1, <2>4
    <3>5. SubSeq(cs, 1, 0) = <<>>
      BY SubSeqEmpty
    <3>. QED  BY <3>3, <3>4, <3>5 DEF cs, n
  <2>5. CASE k <= n
    <3> DEFINE j == n - k + 1
    <3>1. j \in 1..n /\ BeginsAt(q, k + 1) + j = 1 /\ BeginsAt(q, k + 1) < 1
      BY <2>1, <2>3, <2>5
    <3>2. n - (k + 1) + 1 = j - 1 /\ j - 1 \in 0..n
      BY <2>1, <2>5, <3>1
    <3>3. n - k + 1 = j
      OBVIOUS
    <3> HIDE DEF j
    <3>4. q[1] = Waypoint(cs[j])
      <4>1. q[BeginsAt(q, k + 1) + j] = Nth(q[k + 1], j)
        BY <1>6, <2>2, <2>3, <3>1 DEF Ordered
      <4>. QED  BY <2>2, <3>1, <4>1 DEF Nth
    <3>5. mission_points = SubSeq(cs, 1, j - 1)
      BY <1>6, <2>2, <2>3, <3>1, <3>2 DEF Taken
    <3>6. mission_points' = Append(mission_points, cs[j])
      <4>1. m.type = "waypoint" /\ m.at = cs[j]
        BY <1>3, <3>4 DEF Waypoint
      <4>. QED  BY <1>2, <4>1
    <3>7. SubSeq(cs, 1, j) = SubSeq(cs, 1, j - 1) \o <<cs[j]>>
      BY <2>1, <3>1, SubSeqRecursiveSecond
    <3>8. cs[j] \in Points
      BY <2>1, <3>1, ElementOfSeq
    <3>9. Append(mission_points, cs[j]) = mission_points \o <<cs[j]>>
      BY <1>1, <3>8, AppendIsConcat
    <3>. QED  BY <3>3, <3>5, <3>6, <3>7, <3>9 DEF cs, n
  <2>. QED  BY <2>1, <2>4, <2>5
<1>10. Ordered(r)
  BY <1>7, <1>8 DEF Ordered
<1>11. Taken(r, mission_points')
  BY <1>9 DEF Taken
<1>. QED  BY <1>3, <1>4, <1>10, <1>11 DEF QueueInv, r

(* What the page answers to a message.                                     *)
LEMMA MessageSends ==
  ASSUME ShownTypes, onmessage, toServer \in Seq(PayloadTypes)
  PROVE  \E r : Whole(r) /\ toServer' = toServer \o r
<1> DEFINE tel == Head(toPage)
           shown == IF Shows THEN Shown(page, tel) ELSE page
           pg == [shown EXCEPT !.mission = FALSE]
           asked == When(Asks, <<Payload("getMission")>>)
<1>1. toPage # <<>> /\ toServer' = toServer \o asked \o Payloads(pg)
  BY DEF onmessage, Asks, LastId, Answers, Shows
<1>2. page \in PageTypes /\ tel \in Telemetry
  BY <1>1, HeadTailProperties DEF ShownTypes
<1> HIDE DEF tel
<1>3. shown \in PageTypes
  BY <1>2, ShownIs
<1> HIDE DEF shown
<1>4. pg \in PageTypes
  BY <1>3 DEF PageTypes
<1> HIDE DEF pg
<1>5. Whole(asked) /\ Whole(Payloads(pg))
  BY <1>4, PayloadsAreWhole
<1> HIDE DEF asked
<1>6. Whole(asked \o Payloads(pg))
  BY <1>5, WholeConcat
<1>7. toServer' = toServer \o (asked \o Payloads(pg))
  BY <1>1, <1>5, ConcatAssociative DEF Whole
<1>. QED  BY <1>6, <1>7

(* A mute page's messages are dropped, whatever they are.                  *)
UploadInv ==
  /\ toServer \in Seq(PayloadTypes) /\ mission_points \in Seq(Points)
  /\ ~mute => QueueInv

(* The queue is empty at first.                                            *)
LEMMA NoUploads ==
  /\ <<>> \in Seq(PayloadTypes) /\ Ordered(<<>>)
  /\ \A list : Taken(<<>>, list)
<1>1. Uploads(<<>>) = {}
  BY DEF Uploads
<1>. QED  BY <1>1, EmptySeq DEF Ordered, Taken

LEMMA UploadInit == Init => UploadInv
<1>1. Init => toServer = <<>> /\ mission_points = <<>>
  BY DEF Init
<1>. QED  BY <1>1, NoUploads, EmptySeq DEF UploadInv, QueueInv

(* Every step keeps the uploads in the queue whole.                        *)
LEMMA UploadStep == ShowInv /\ UploadInv /\ [Next]_vars => UploadInv'
<1>. SUFFICES ASSUME ShowInv, UploadInv, [Next]_vars PROVE UploadInv'
  OBVIOUS
<1>1. ASSUME UNCHANGED <<toServer, mission_points, mute>> PROVE UploadInv'
  BY <1>1 DEF UploadInv, QueueInv
<1>2. CASE UserActs
  BY <1>1, <1>2, UserActsStep DEF ShowInv, UserStep, UserFrame, backend
<1>3. CASE onmessage
  <2>1. PICK r : Whole(r) /\ toServer' = toServer \o r
    BY <1>3, MessageSends DEF ShowInv, UploadInv
  <2>2. mission_points' = mission_points /\ mute' = mute
    BY <1>3 DEF onmessage, backend
  <2>3. toServer' \in Seq(PayloadTypes)
    BY <2>1, ConcatProperties DEF Whole, UploadInv
  <2>4. ~mute => QueueInv'
    BY <2>1, <2>2, SentStep DEF UploadInv
  <2>. QED  BY <2>2, <2>3, <2>4 DEF UploadInv
<1>4. CASE Reload
  <2>1. mission_points' = mission_points
    BY <1>4 DEF Reload
  <2>2. CASE mute
    <3>1. toServer' = <<>>
      BY <1>4, <2>2 DEF Reload
    <3>. QED  BY <2>1, <3>1, NoUploads DEF UploadInv, QueueInv
  <2>3. CASE ~mute
    <3>1. PICK n \in 0..Len(toServer) : toServer' = SubSeq(toServer, 1, n)
      BY <1>4, <2>3 DEF Reload, Prefixes
    <3>2. QueueInv'
      BY <2>1, <2>3, <3>1, LostStep DEF UploadInv
    <3>. QED  BY <3>2 DEF UploadInv, QueueInv
  <2>. QED  BY <2>2, <2>3
<1>5. CASE HandlePayload
  <2>1. QueueInv'
    BY <1>5, HandleStep DEF UploadInv, HandlePayload
  <2>. QED  BY <2>1 DEF UploadInv, QueueInv
<1>6. CASE DropPayload
  <2>1. mute /\ mute' = mute /\ mission_points' = mission_points
        /\ toServer # <<>> /\ toServer' = Tail(toServer)
    BY <1>6 DEF DropPayload, backend
  <2>2. toServer' \in Seq(PayloadTypes)
    BY <2>1, HeadTailProperties DEF UploadInv
  <2>. QED  BY <2>1, <2>2 DEF UploadInv
<1>7. CASE OtherPageAsks \/ Broadcast \/ StartDownload \/ EndDownload \/ UNCHANGED vars
  BY <1>1, <1>7 DEF OtherPageAsks, Broadcast, StartDownload, EndDownload, vars, backend
<1>. QED  BY <1>2, <1>3, <1>4, <1>5, <1>6, <1>7 DEF Next

(* They are whole in every state.                                          *)
LEMMA UploadCorrect == Spec => []UploadInv
<1>. DEFINE Inv == ShowInv /\ UploadInv
<1>1. Init => Inv
  BY ShowInit, UploadInit
<1>2. Inv /\ [Next]_vars => Inv'
  BY ShowStep, UploadStep
<1>. QED  BY <1>1, <1>2, PTL DEF Spec

(* The list that the backend is told to upload is the route that the page  *)
(* showed, for any routes, and any uploads, deletions and lost payloads    *)
(* before.                                                                 *)
THEOREM UploadIsTheRouteCorrect == Spec => []UploadIsTheRoute
<1>1. UploadInv => UploadIsTheRoute
  <2>. SUFFICES ASSUME UploadInv, ~mute, toServer # <<>>, Head(toServer).type = "uploadMission",
                       ToSet(Head(toServer).route) \intersect Negative = {}
                PROVE  mission_points = Head(toServer).route
    BY DEF UploadIsTheRoute
  <2> DEFINE m == Head(toServer)
             cs == convertCoordinates[m.route]
  <2>1. Len(toServer) \in Nat /\ Len(toServer) # 0 /\ m = toServer[1] /\ m \in PayloadTypes
    <3>1. toServer \in Seq(PayloadTypes)
      BY DEF UploadInv, QueueInv
    <3>. QED  BY <3>1, LenProperties, EmptySeq, HeadTailProperties
  <2>2. /\ cs \in Seq(Points) /\ Size(m) \in Nat /\ cs = m.route
    BY <2>1, UploadIs
  <2>3. 1 \in Uploads(toServer)
    BY <2>1 DEF Uploads
  <2>4. Size(toServer[1]) = Len(cs)
    BY <2>1 DEF Size
  <2>5. BeginsAt(toServer, 1) < 1 /\ Size(toServer[1]) - 1 + 1 = Len(cs)
    <3>. HIDE DEF m, cs
    <3>. QED  BY <2>1, <2>2, <2>4 DEF BeginsAt
  <2>6. mission_points = SubSeq(convertCoordinates[toServer[1].route], 1, Size(toServer[1]) - 1 + 1)
    BY <2>3, <2>5 DEF UploadInv, QueueInv, Taken
  <2>7. mission_points = SubSeq(cs, 1, Len(cs))
    BY <2>1, <2>5, <2>6
  <2>8. SubSeq(cs, 1, Len(cs)) = cs
    <3>. HIDE DEF cs
    <3>. QED  BY <2>2, SubSeqFull
  <2>. QED  BY <2>2, <2>7, <2>8
<1>. QED  BY <1>1, UploadCorrect, PTL
-----------------------------------------------------------------------------
(* The types that are left.                                                *)
RestTypes ==
  /\ isFirstGetMission \in BOOLEAN /\ waitForMissionID \in BOOLEAN /\ lastGcsMissionID \in Nat
  /\ Len(toPage) <= MaxQueue
  /\ lost \subseteq {ThisPage} /\ seen \in [{ThisPage} -> Told]
  /\ passedOver \subseteq Nat /\ mute \in BOOLEAN
  /\ downloading \in BOOLEAN /\ requested \in BOOLEAN
  /\ clicks \in 0..MaxClicks /\ others \in 0..MaxOthers /\ reloads \in 0..MaxReloads
  /\ careless \in BOOLEAN

(* A page that was told nothing.                                           *)
LEMMA NothingIsTold == Backend!Nothing \in Told
BY DEF Told

(* The types of the rest at first, ...                                     *)
LEMMA RestInit == Init => RestTypes
<1>. SUFFICES ASSUME Init PROVE RestTypes
  OBVIOUS
<1>1. seen = [c \in {ThisPage} |-> Backend!Nothing]
  BY DEF Init, Backend!Init
<1>2. seen \in [{ThisPage} -> Told]
  BY <1>1, NothingIsTold
<1>3. toPage = <<>> /\ Len(<<>>) <= MaxQueue
  BY BoundsAssumption DEF Init
<1>4. Len(toPage) <= MaxQueue
  BY <1>3
<1>5. /\ isFirstGetMission = TRUE /\ waitForMissionID = FALSE /\ lastGcsMissionID = 0
      /\ lost = {} /\ passedOver = {} /\ downloading = FALSE /\ requested = TRUE
      /\ clicks = 0 /\ others = 0 /\ reloads = 0 /\ careless = FALSE
  BY DEF Init
<1>6. /\ isFirstGetMission \in BOOLEAN /\ waitForMissionID \in BOOLEAN
      /\ downloading \in BOOLEAN /\ requested \in BOOLEAN /\ careless \in BOOLEAN
      /\ lost \subseteq {ThisPage} /\ passedOver \subseteq Nat
  BY <1>5
<1>7. /\ lastGcsMissionID \in Nat
      /\ clicks \in 0..MaxClicks /\ others \in 0..MaxOthers /\ reloads \in 0..MaxReloads
  BY <1>5, BoundsAssumption
<1>8. mute \in BOOLEAN
  BY ChoicesAssumption DEF Init
<1>. QED  BY <1>2, <1>4, <1>6, <1>7, <1>8, Zenon DEF RestTypes

(* ... and after every step.                                               *)
LEMMA RestStep == ShowInv /\ RestTypes /\ [Next]_vars => RestTypes'
<1>. SUFFICES ASSUME ShowInv, RestTypes, [Next]_vars PROVE RestTypes'
  OBVIOUS
<1>1. number \in Nat /\ mission \in MissionTypes /\ toPage \in Seq(Telemetry)
  BY DEF ShowInv, ShownTypes
<1>2. CASE UserActs
  <2>1. UNCHANGED <<client, toPage, backend, others, reloads>>
    BY <1>2, UserActsStep DEF ShowInv, UserStep, UserFrame
  <2>2. clicks' \in 0..MaxClicks
    <3>1. \A new : User(new) => clicks' \in 0..MaxClicks
      BY BoundsAssumption DEF RestTypes, User
    <3>2. UserActs => \E new : User(new)
      BY DEF UserActs, MapClick, RemoveEntry, ApplyEntry, deleteLastWaypoint, deleteAll,
             GetMissionButton, AddReturnButton, PlainButton
    <3>. QED  BY <1>2, <3>1, <3>2
  <2>3. careless' \in BOOLEAN
    <3>1. \A p \in Points : MapClick(p) => careless' \in BOOLEAN
      BY DEF MapClick
    <3>2. deleteLastWaypoint => careless' \in BOOLEAN
      BY DEF deleteLastWaypoint
    <3>. QED  BY <1>2, <3>1, <3>2 DEF RestTypes, UserActs, RemoveEntry, ApplyEntry, deleteAll,
              GetMissionButton, AddReturnButton, PlainButton
  <2>. QED  BY <2>1, <2>2, <2>3 DEF RestTypes, client, backend, board, history
<1>3. CASE onmessage
  <2>1. /\ toPage # <<>> /\ toPage' = Tail(toPage) /\ UNCHANGED <<backend, bounds, careless>>
        /\ isFirstGetMission' = (isFirstGetMission /\ ~page.mission)
        /\ waitForMissionID' = ((waitForMissionID \/ Asks) /\ ~Answers)
        /\ lastGcsMissionID' = IF Answers THEN LastId + 1 ELSE LastId
    BY <1>3 DEF onmessage, Asks, LastId, Answers
  <2>2. Head(toPage) \in Telemetry /\ Len(toPage') = Len(toPage) - 1 /\ Len(toPage) \in Nat
    BY <1>1, <2>1, HeadTailProperties, LenProperties
  <2>3. Head(toPage).id \in Nat
    BY <2>2 DEF Telemetry
  <2>4. lastGcsMissionID' \in Nat
    BY <2>1, <2>3 DEF RestTypes, LastId
  <2>5. isFirstGetMission' \in BOOLEAN /\ waitForMissionID' \in BOOLEAN
    BY <2>1 DEF RestTypes
  <2>6. Len(toPage') <= MaxQueue
    BY <2>2, BoundsAssumption DEF RestTypes
  <2>. QED  BY <2>1, <2>4, <2>5, <2>6 DEF RestTypes, backend, board, history, bounds
<1>4. CASE Reload
  <2>1. seen' = [seen EXCEPT ![ThisPage] = Backend!Nothing]
    BY <1>4 DEF Reload, Backend!Join
  <2>2. seen' \in [{ThisPage} -> Told]
    BY <2>1, NothingIsTold DEF RestTypes
  <2>3. toPage' = <<>> /\ Len(<<>>) <= MaxQueue
    BY <1>4, BoundsAssumption DEF Reload
  <2>4. Len(toPage') <= MaxQueue
    BY <2>3
  <2>5. /\ isFirstGetMission' = TRUE /\ waitForMissionID' = FALSE /\ lastGcsMissionID' = 0
        /\ careless' = FALSE /\ reloads < MaxReloads /\ reloads' = reloads + 1
        /\ lost' = {} /\ mute' \in {mute, FALSE}
        /\ UNCHANGED <<passedOver, downloading, requested, clicks, others>>
    BY <1>4 DEF Reload, history
  <2>6. isFirstGetMission' \in BOOLEAN /\ waitForMissionID' \in BOOLEAN /\ careless' \in BOOLEAN
    BY <2>5
  <2>7. lastGcsMissionID' \in Nat /\ reloads' \in 0..MaxReloads
    BY <2>5, BoundsAssumption DEF RestTypes
  <2>8. UNCHANGED <<passedOver, downloading, requested, clicks, others>>
    BY <2>5
  <2>9. lost' \subseteq {ThisPage} /\ mute' \in BOOLEAN
    BY <2>5 DEF RestTypes
  <2>. QED  BY <2>2, <2>4, <2>6, <2>7, <2>8, <2>9, Zenon DEF RestTypes
<1>5. CASE Broadcast
  <2>1. /\ seen' = [seen EXCEPT ![ThisPage] = Backend!Board] /\ lost' = {}
        /\ UNCHANGED <<client, mute, passedOver, downloading, requested, bounds, careless>>
        /\ Len(toPage) < MaxQueue
    BY <1>5 DEF Broadcast, Backend!Tell, history
  <2>2. seen' \in [{ThisPage} -> Told]
    BY <1>1, <2>1 DEF RestTypes, Told, Backend!Board
  <2>3. PICK whole \in WholeAmperes :
          toPage' = Append(toPage, [id |-> number, mission |-> mission, whole |-> whole])
    BY <1>5 DEF Broadcast
  <2> DEFINE tel == [id |-> number, mission |-> mission, whole |-> whole]
  <2>4. tel \in Telemetry
    BY <1>1, ChoicesAssumption DEF Telemetry
  <2> HIDE DEF tel
  <2>5. Len(toPage') = Len(toPage) + 1 /\ Len(toPage) \in Nat
    BY <1>1, <2>3, <2>4, AppendProperties, LenProperties DEF tel
  <2>. QED  BY <2>1, <2>2, <2>5, BoundsAssumption DEF RestTypes, client, bounds
<1>6. CASE HandlePayload
  <2>1. requested' \in BOOLEAN
    BY <1>6 DEF HandlePayload, RestTypes
  <2>2. UNCHANGED <<client, toPage, board, mute, downloading, history, bounds, careless>>
    BY <1>6 DEF HandlePayload
  <2>. QED  BY <2>1, <2>2 DEF RestTypes, client, board, history, bounds
<1>7. CASE OtherPageAsks
  BY <1>7, BoundsAssumption DEF OtherPageAsks, RestTypes, client, board, history
<1>8. CASE StartDownload
  BY <1>8 DEF StartDownload, RestTypes, client, board, history, bounds
<1>9. CASE EndDownload
  <2>1. passedOver' \subseteq Nat
    BY <1>1, <1>9 DEF EndDownload, RestTypes
  <2>. QED  BY <1>9, <2>1 DEF EndDownload, Backend!Publish, RestTypes, client, bounds
<1>10. CASE UNCHANGED vars
  BY <1>10 DEF vars, RestTypes, client, backend, board, history, bounds
<1>11. CASE DropPayload
  BY <1>11 DEF DropPayload, RestTypes, client, backend, board, history, bounds
<1>. QED  BY <1>2, <1>3, <1>4, <1>5, <1>6, <1>7, <1>8, <1>9, <1>10, <1>11 DEF Next

(* Every variable keeps its type, the queues among them.                   *)
THEOREM TypeCorrect == Spec => []TypeOK
<1>. DEFINE Inv == ShowInv /\ RestTypes
<1>1. Init => Inv
  BY ShowInit, RestInit
<1>2. Inv /\ [Next]_vars => Inv'
  BY ShowStep, RestStep
<1>3. Inv /\ UploadInv => TypeOK
  BY DEF ShowInv, ShownTypes, PublishedInv, RestTypes, UploadInv, TypeOK
<1>. QED  BY <1>1, <1>2, <1>3, UploadCorrect, PTL DEF Spec
=============================================================================
