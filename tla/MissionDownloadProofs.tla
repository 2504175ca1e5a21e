------------------------ MODULE MissionDownloadProofs ------------------------
(***************************************************************************)
(* Machine-checked proofs about MissionDownload, for every vehicle,        *)
(* network, mission, retry limit and number of downloads.                  *)
(***************************************************************************)
EXTENDS MissionDownload, TLAPS

LEMMA MaxType == UINT16_MAX \in Nat /\ UINT16_MAX >= 1
BY DEF UINT16_MAX

(* Sending keeps the requests in flight well formed. *)
LEMMA SendType ==
  ASSUME TypeOK, NEW r \in Requests, sendMessage(r)
  PROVE  toVehicle' \subseteq Requests
BY DEF TypeOK, sendMessage

LEMMA RequestTypes ==
  /\ ListRequest \in Requests
  /\ Ack \in Requests
  /\ \A s \in 0..UINT16_MAX : ItemRequest(s) \in Requests
BY DEF ListRequest, Ack, ItemRequest, Requests

(* What a received message is, by its type. *)
LEMMA ReplyTypes ==
  ASSUME NEW m \in Replies
  PROVE  /\ m.type \in {"telemetry", "count", "item", "reject"}
         /\ m.from \in Peers
         /\ m.type = "count" => m.count \in 0..UINT16_MAX
         /\ m.type = "item" => m.item \in Items
BY DEF Replies, Reject, Peers

(* The vehicle's answers are well formed. *)
LEMMA AnswerTypes ==
  ASSUME TypeOK
  PROVE  /\ Count(Len(mission)) \in Replies
         /\ \A i \in 1..Len(mission) : ItemReply(Item(i - 1, mission[i])) \in Replies
         /\ Reject \in Replies
<1>0. mission \in Seq(Waypoints) /\ Len(mission) \in 0..UINT16_MAX
  BY MissionsAssumption DEF TypeOK
<1>1. Count(Len(mission)) \in Replies
  BY <1>0 DEF Count, Replies
<1>2. ASSUME NEW i \in 1..Len(mission)
      PROVE  ItemReply(Item(i - 1, mission[i])) \in Replies
  <2>1. Len(mission) \in Nat /\ Len(mission) <= UINT16_MAX /\ i \in Nat
    BY <1>0, MaxType
  <2>2. mission[i] \in Waypoints
    BY <1>0, <2>1
  <2>3. i - 1 \in 0..UINT16_MAX
    BY <2>1, MaxType
  <2>. QED  BY <2>2, <2>3 DEF ItemReply, Item, Items, Replies
<1>. QED  BY <1>1, <1>2 DEF Replies
-----------------------------------------------------------------------------
(* Type correctness. *)

(* The retry counter reaches its limit only by giving up. *)
RetriesLeft == pc # "idle" => retry_count < MAX_RETRIES

LEMMA TypeInit == Init => TypeOK /\ RetriesLeft
<1>. SUFFICES ASSUME Init PROVE TypeOK /\ RetriesLeft
  OBVIOUS
<1>1. mission_items \in Seq(Items)
  BY DEF Init
<1>2. /\ expected_seq \in 0..UINT16_MAX /\ mission_count \in 0..UINT16_MAX
      /\ retry_count \in 0..MAX_RETRIES
      /\ session \in 0..MaxSessions /\ replans \in 0..MaxReplans
  BY BoundsAssumption, MaxType DEF Init
<1>. QED  BY <1>1, <1>2 DEF Init, TypeOK, RetriesLeft, Peers, Outcomes

LEMMA TypeStep == TypeOK /\ RetriesLeft /\ [Next]_vars => TypeOK' /\ RetriesLeft'
<1>. SUFFICES ASSUME TypeOK, RetriesLeft, [Next]_vars PROVE TypeOK' /\ RetriesLeft'
  OBVIOUS
<1>. USE DEF TypeOK, RetriesLeft, loop, items, retry, network, world, vars
<1>1. CASE StartDownload
  <2>1. toVehicle' \subseteq Requests /\ timer' = "running"
    BY <1>1, SendType, RequestTypes DEF StartDownload, sendMissionRequestList, resetTimeout
  <2>2. session' \in 0..MaxSessions
    BY <1>1, BoundsAssumption DEF StartDownload
  <2>3. mission_items' \in Seq(Items)
    BY <1>1 DEF StartDownload
  <2>4. /\ expected_seq' \in 0..UINT16_MAX /\ mission_count' \in 0..UINT16_MAX
        /\ retry_count' \in 0..MAX_RETRIES /\ retry_count' < MAX_RETRIES
    BY <1>1, BoundsAssumption, MaxType DEF StartDownload
  <2>. QED  BY <1>1, <2>1, <2>2, <2>3, <2>4 DEF StartDownload, Peers, Outcomes
<1>2. CASE ConstructorThrows
  BY <1>2, BoundsAssumption DEF ConstructorThrows, Outcomes
<1>3. CASE OnNothing
  BY <1>3 DEF OnNothing
<1>4. CASE OnFragment
  BY <1>4, ReplyTypes DEF OnFragment, Taken
<1>5. CASE OnTelemetry
  BY <1>5, ReplyTypes, BoundsAssumption DEF OnTelemetry, Receive, Taken
<1>6. CASE OnMissionCount
  <2>1. PICK m \in toGcs : m.type = "count" /\ Receive(m) /\ mission_count' = m.count
    BY <1>6 DEF OnMissionCount
  <2>2. expected_seq' = 0 /\ pc' = "check" /\ requestNextMissionItem
        /\ UNCHANGED <<download_complete, outcome, mission_items>>
    BY <1>6 DEF OnMissionCount
  <2>3. toVehicle' \subseteq Requests /\ timer' = "running"
    BY <2>2, SendType, RequestTypes, MaxType DEF requestNextMissionItem, resetTimeout
  <2>. QED  BY <2>1, <2>2, <2>3, ReplyTypes, BoundsAssumption, MaxType DEF Receive, Taken
<1>7. CASE OnExpectedItem
  <2>1. PICK m \in toGcs : m.type = "item" /\ Receive(m)
                           /\ mission_items' = Append(mission_items, m.item)
    BY <1>7 DEF OnExpectedItem
  <2>2. /\ expected_seq' = (expected_seq + 1) % (UINT16_MAX + 1)
        /\ download_complete' = IsLast
        /\ sendMissionAck \/ requestNextMissionItem
        /\ pc' = "check"
        /\ UNCHANGED <<outcome, mission_count>>
    BY <1>7 DEF OnExpectedItem
  <2>3. expected_seq' \in 0..UINT16_MAX
    BY <2>2, MaxType
  <2>4. toVehicle' \subseteq Requests /\ timer' \in {"running", "expired"}
    BY <2>2, <2>3, SendType, RequestTypes
    DEF requestNextMissionItem, sendMissionAck, resetTimeout
  <2>5. mission_items' \in Seq(Items) /\ gcAddr' \in Peers
    BY <2>1, ReplyTypes DEF Receive
  <2>6. download_complete' \in BOOLEAN
    BY <2>2 DEF IsLast
  <2>. QED  BY <2>1, <2>2, <2>3, <2>4, <2>5, <2>6, BoundsAssumption DEF Receive, Taken
<1>8. CASE OnOutOfOrderItem
  <2>1. PICK m \in toGcs : m.type = "item" /\ Receive(m)
    BY <1>8 DEF OnOutOfOrderItem
  <2>2. /\ UNCHANGED items /\ requestNextMissionItem
        /\ pc' = "check" /\ UNCHANGED <<download_complete, outcome>>
    BY <1>8 DEF OnOutOfOrderItem
  <2>3. toVehicle' \subseteq Requests /\ timer' = "running"
    BY <2>2, SendType, RequestTypes DEF requestNextMissionItem, resetTimeout
  <2>. QED  BY <2>1, <2>2, <2>3, ReplyTypes, BoundsAssumption DEF Receive, Taken
<1>9. CASE OnReject
  BY <1>9, ReplyTypes, BoundsAssumption DEF OnReject, Receive, Taken, Outcomes
<1>10. CASE NoTimeout
  BY <1>10 DEF NoTimeout, EndIteration, Outcomes
<1>11. CASE RetryAfterTimeout
  <2>1. toVehicle' \subseteq Requests /\ timer' = "running"
    BY <1>11, SendType, RequestTypes
    DEF RetryAfterTimeout, sendMissionRequestList, requestNextMissionItem, resetTimeout
  <2>2. retry_count' \in 0..MAX_RETRIES /\ retry_count' < MAX_RETRIES
    BY <1>11, BoundsAssumption DEF RetryAfterTimeout, NextRetry
  <2>. QED  BY <1>11, <2>1, <2>2 DEF RetryAfterTimeout, EndIteration, Outcomes
<1>12. CASE GiveUp
  <2>1. retry_count' \in 0..MAX_RETRIES
    BY <1>12, BoundsAssumption DEF GiveUp, NextRetry
  <2>. QED  BY <1>12, <2>1 DEF GiveUp, Outcomes
<1>13. CASE TimeoutPasses
  BY <1>13 DEF TimeoutPasses
<1>14. CASE SendTelemetry
  <2>1. \A p \in Talkers : Telemetry(p) \in Replies
    BY PeersAssumption DEF Telemetry, Replies
  <2>. QED  BY <1>14, <2>1 DEF SendTelemetry
<1>15. CASE VehicleReplans
  BY <1>15, BoundsAssumption DEF VehicleReplans
<1>16. CASE VehicleSendsCount
  BY <1>16, AnswerTypes DEF VehicleSendsCount, Answered, Taken
<1>17. CASE VehicleSendsItem
  BY <1>17, AnswerTypes DEF VehicleSendsItem, Answered, Taken
<1>18. CASE VehicleRejects
  BY <1>18, AnswerTypes DEF VehicleRejects, Answered, Taken
<1>19. CASE UNCHANGED vars
  BY <1>19
<1>. QED  BY <1>1, <1>2, <1>3, <1>4, <1>5, <1>6, <1>7, <1>8, <1>9, <1>10, <1>11,
             <1>12, <1>13, <1>14, <1>15, <1>16, <1>17, <1>18, <1>19
          DEF Next, Downloader, Environment

(* The state always has its types: downloadMission never leaves the range  *)
(* of its uint16_t counters and only sends well-formed requests.           *)
THEOREM TypeCorrect == Spec => []TypeOK
<1>1. Spec => [](TypeOK /\ RetriesLeft)
  BY TypeInit, TypeStep, PTL DEF Spec
<1>. QED  BY <1>1, PTL
-----------------------------------------------------------------------------
(* The order of the collected items. *)

(* What a step may do to the items and to expected_seq. *)
LEMMA ItemsChange ==
  ASSUME TypeOK, [Next]_vars
  PROVE  \/ UNCHANGED <<mission_items, expected_seq>>
         \/ expected_seq' = 0 /\ mission_items' \in {<<>>, mission_items}
         \/ \E it \in Items :
              /\ it.seq = expected_seq
              /\ mission_items' = Append(mission_items, it)
              /\ expected_seq' = (expected_seq + 1) % (UINT16_MAX + 1)
<1>1. CASE StartDownload
  BY <1>1 DEF StartDownload
<1>2. CASE OnMissionCount
  BY <1>2 DEF OnMissionCount
<1>3. CASE OnExpectedItem
  <2>1. PICK m \in toGcs : /\ m.type = "item"
                           /\ IsExpected(m)
                           /\ mission_items' = Append(mission_items, m.item)
                           /\ expected_seq' = (expected_seq + 1) % (UINT16_MAX + 1)
    BY <1>3 DEF OnExpectedItem
  <2>2. m.item \in Items
    BY <2>1, ReplyTypes DEF TypeOK
  <2>. QED  BY <2>1, <2>2 DEF IsExpected
<1>4. CASE ~ (StartDownload \/ OnMissionCount \/ OnExpectedItem)
  BY <1>4
  DEF Next, Downloader, Environment, vars, items, ConstructorThrows, OnNothing,
      OnFragment, OnTelemetry, OnOutOfOrderItem, OnReject, NoTimeout, RetryAfterTimeout,
      GiveUp, TimeoutPasses, SendTelemetry, VehicleReplans, VehicleSendsCount,
      VehicleSendsItem, VehicleRejects, Answered
<1>. QED  BY <1>1, <1>2, <1>3, <1>4

(* The successor of expected_seq: one more, or 0 when the uint16_t wraps. *)
LEMMA Successor ==
  ASSUME NEW n \in 0..UINT16_MAX
  PROVE  (n + 1) % (UINT16_MAX + 1) \in {0, n + 1}
<1>1. CASE n = UINT16_MAX
  BY <1>1 DEF UINT16_MAX
<1>2. CASE n < UINT16_MAX
  <2>1. n \in Nat /\ n + 1 < UINT16_MAX + 1
    BY <1>2, MaxType
  <2>2. \A k \in Nat : k < 65536 => k % 65536 = k
    OBVIOUS
  <2>3. UINT16_MAX + 1 = 65536
    BY DEF UINT16_MAX
  <2>. QED  BY <2>1, <2>2, <2>3
<1>. QED  BY <1>1, <1>2, MaxType

LEMMA SequenceStep ==
  ASSUME TypeOK, ItemsInSequence, [Next]_vars
  PROVE  ItemsInSequence'
<1>. USE DEF ItemsInSequence, LastItem
<1>1. CASE UNCHANGED <<mission_items, expected_seq>>
  BY <1>1
<1>2. CASE expected_seq' = 0 /\ mission_items' \in {<<>>, mission_items}
  BY <1>2 DEF TypeOK
<1>3. CASE \E it \in Items :
              /\ it.seq = expected_seq
              /\ mission_items' = Append(mission_items, it)
              /\ expected_seq' = (expected_seq + 1) % (UINT16_MAX + 1)
  <2>1. PICK it \in Items : /\ it.seq = expected_seq
                            /\ mission_items' = Append(mission_items, it)
                            /\ expected_seq' = (expected_seq + 1) % (UINT16_MAX + 1)
    BY <1>3
  <2>2. /\ mission_items \in Seq(Items) /\ mission_items' \in Seq(Items)
        /\ Len(mission_items') = Len(mission_items) + 1
    BY <2>1 DEF TypeOK
  <2>3. CASE expected_seq' = 0
    BY <2>2, <2>3
  <2>4. CASE expected_seq' = expected_seq + 1
    <3>1. expected_seq \in Nat
      BY MaxType DEF TypeOK
    <3>2. expected_seq' <= Len(mission_items')
      BY <2>2, <2>4, <3>1
    <3>3. ASSUME NEW i \in 1..expected_seq'
          PROVE  mission_items'[Len(mission_items') - expected_seq' + i].seq = i - 1
      <4>1. Len(mission_items') - expected_seq' + i = Len(mission_items) - expected_seq + i
        BY <2>2, <2>4, <3>1
      <4>2. CASE i = expected_seq + 1
        BY <2>1, <2>2, <3>1, <4>1, <4>2
      <4>3. CASE i \in 1..expected_seq
        <5>1. mission_items'[Len(mission_items) - expected_seq + i]
                = mission_items[Len(mission_items) - expected_seq + i]
          BY <2>1, <2>2, <3>1, <4>3
        <5>. QED  BY <4>1, <4>3, <5>1
      <4>. QED  BY <2>4, <3>1, <4>2, <4>3
    <3>. QED  BY <3>2, <3>3
  <2>. QED  BY <2>1, <2>3, <2>4, Successor DEF TypeOK
<1>. QED  BY <1>1, <1>2, <1>3, ItemsChange

(* Of whatever reaches the port, the downloader keeps a numbered run: its  *)
(* newest expected_seq items are 0, 1, ..., expected_seq - 1.              *)
THEOREM SequenceCorrect == Spec => []ItemsInSequence
<1>1. Init => ItemsInSequence
  BY DEF Init, ItemsInSequence
<1>2. ItemsInSequence /\ TypeOK /\ [Next]_vars => ItemsInSequence'
  BY SequenceStep
<1>. QED  BY <1>1, <1>2, TypeCorrect, PTL DEF Spec
-----------------------------------------------------------------------------
(* The mission of a vehicle that does not change it. *)

(* Every answer in flight speaks of the vehicle's mission ... *)
FaithfulReplies == \A m \in toGcs :
  /\ m.type = "count" => m.count = Len(mission)
  /\ m.type = "item"  => /\ m.item.seq < Len(mission)
                         /\ m.item = Item(m.item.seq, mission[m.item.seq + 1])

(* ... so the newest items are a prefix of it. *)
PrefixCollected ==
  /\ mission_count \in {0, Len(mission)}
  /\ expected_seq <= Len(mission)
  /\ expected_seq <= Len(mission_items)
  /\ \A i \in 1..expected_seq :
       LastItem(expected_seq, i) = Item(i - 1, mission[i])

(* The loop ends with success only after the last item. *)
CompleteMeansAll ==
  /\ download_complete => mission_count = expected_seq /\ expected_seq > 0
  /\ pc = "receive" => ~download_complete
  /\ outcome = "success" => download_complete /\ pc = "idle"

StableInv == replans = 0 => FaithfulReplies /\ PrefixCollected /\ CompleteMeansAll

(* What may be in flight to the ground station after a step. *)
LEMMA RepliesChange ==
  ASSUME TypeOK, [Next]_vars, NEW m \in toGcs'
  PROVE  \/ m \in toGcs
         \/ \E p \in Peers : m = Telemetry(p)
         \/ m = Count(Len(mission))
         \/ \E i \in 1..Len(mission) :
              /\ m = ItemReply(Item(i - 1, mission[i]))
              /\ ItemRequest(i - 1) \in toVehicle
         \/ m = Reject /\ \E r \in toVehicle : r.type = "item" /\ r.seq >= Len(mission)
<1>1. CASE SendTelemetry
  BY <1>1, PeersAssumption DEF SendTelemetry
<1>2. CASE VehicleSendsCount \/ VehicleSendsItem \/ VehicleRejects
  BY <1>2 DEF VehicleSendsCount, VehicleSendsItem, VehicleRejects, Answered
<1>3. CASE ~ (SendTelemetry \/ VehicleSendsCount \/ VehicleSendsItem \/ VehicleRejects)
  BY <1>3
  DEF Next, Downloader, Environment, vars, network, StartDownload, ConstructorThrows,
      OnNothing, OnFragment, OnTelemetry, OnMissionCount, OnExpectedItem, OnOutOfOrderItem,
      OnReject, NoTimeout, RetryAfterTimeout, GiveUp, TimeoutPasses, VehicleReplans,
      Receive, Taken
<1>. QED  BY <1>1, <1>2, <1>3

LEMMA MissionType ==
  ASSUME TypeOK
  PROVE  /\ mission \in Seq(Waypoints)
         /\ Len(mission) \in Nat /\ Len(mission) <= UINT16_MAX
         /\ expected_seq \in Nat /\ mission_count \in Nat
         /\ Len(mission_items) \in Nat
BY MissionsAssumption, MaxType DEF TypeOK

LEMMA FaithfulStep ==
  ASSUME TypeOK, FaithfulReplies, [Next]_vars, mission' = mission
  PROVE  FaithfulReplies'
<1>. SUFFICES ASSUME NEW m \in toGcs'
              PROVE  /\ m.type = "count" => m.count = Len(mission)
                     /\ m.type = "item"  =>
                          /\ m.item.seq < Len(mission)
                          /\ m.item = Item(m.item.seq, mission[m.item.seq + 1])
  BY DEF FaithfulReplies
<1>1. CASE m \in toGcs
  BY <1>1 DEF FaithfulReplies
<1>2. CASE \E p \in Peers : m = Telemetry(p)
  BY <1>2 DEF Telemetry
<1>3. CASE m = Count(Len(mission))
  BY <1>3 DEF Count
<1>4. CASE \E i \in 1..Len(mission) : m = ItemReply(Item(i - 1, mission[i]))
  <2>1. PICK i \in 1..Len(mission) : m = ItemReply(Item(i - 1, mission[i]))
    BY <1>4
  <2>2. m.type = "item" /\ m.item = Item(i - 1, mission[i]) /\ m.item.seq = i - 1
    BY <2>1 DEF ItemReply, Item
  <2>3. i - 1 < Len(mission) /\ (i - 1) + 1 = i
    BY MissionType
  <2>. QED  BY <2>2, <2>3
<1>5. CASE m = Reject
  BY <1>5 DEF Reject
<1>. QED  BY <1>1, <1>2, <1>3, <1>4, <1>5, RepliesChange

(* Accepting an item, the one step that lengthens the prefix. *)
LEMMA AcceptStep ==
  ASSUME TypeOK, FaithfulReplies, PrefixCollected, mission' = mission, OnExpectedItem
  PROVE  /\ PrefixCollected'
         /\ expected_seq' = expected_seq + 1
<1>1. PICK m \in toGcs : /\ m.type = "item" /\ IsExpected(m)
                         /\ mission_items' = Append(mission_items, m.item)
  BY DEF OnExpectedItem
<1>2. /\ expected_seq' = (expected_seq + 1) % (UINT16_MAX + 1)
      /\ mission_count' = mission_count
  BY DEF OnExpectedItem
<1>3. /\ m.item = Item(expected_seq, mission[expected_seq + 1])
      /\ m.item.seq = expected_seq /\ expected_seq < Len(mission)
  BY <1>1 DEF FaithfulReplies, IsExpected
<1>4. expected_seq' = expected_seq + 1
  <2>1. expected_seq + 1 \in Nat /\ expected_seq + 1 < UINT16_MAX + 1
    BY <1>3, MissionType, MaxType
  <2>2. \A k \in Nat : k < 65536 => k % 65536 = k
    OBVIOUS
  <2>3. UINT16_MAX + 1 = 65536
    BY DEF UINT16_MAX
  <2>. QED  BY <1>2, <2>1, <2>2, <2>3
<1>5. /\ mission_items \in Seq(Items) /\ m.item \in Items
      /\ Len(mission_items') = Len(mission_items) + 1
  BY <1>1, ReplyTypes DEF TypeOK
<1>6. /\ expected_seq' <= Len(mission) /\ expected_seq' <= Len(mission_items')
  BY <1>3, <1>4, <1>5, MissionType DEF PrefixCollected
<1>7. ASSUME NEW i \in 1..expected_seq'
      PROVE  mission_items'[Len(mission_items') - expected_seq' + i] = Item(i - 1, mission[i])
  <2>1. Len(mission_items') - expected_seq' + i = Len(mission_items) - expected_seq + i
    BY <1>4, <1>5, MissionType
  <2>2. CASE i = expected_seq + 1
    <3>1. Len(mission_items) - expected_seq + i = Len(mission_items) + 1 /\ i - 1 = expected_seq
      BY <2>2, MissionType
    <3>2. mission_items'[Len(mission_items) + 1] = m.item
      BY <1>1, <1>5
    <3>. QED  BY <1>3, <2>1, <2>2, <3>1, <3>2
  <2>3. CASE i \in 1..expected_seq
    <3>1. Len(mission_items) - expected_seq + i \in 1..Len(mission_items)
      BY <2>3, MissionType DEF PrefixCollected
    <3>2. mission_items'[Len(mission_items) - expected_seq + i]
            = mission_items[Len(mission_items) - expected_seq + i]
      BY <1>1, <1>5, <3>1
    <3>. QED  BY <2>1, <2>3, <3>2 DEF PrefixCollected, LastItem
  <2>. QED  BY <1>4, <2>2, <2>3, MissionType
<1>. QED  BY <1>2, <1>4, <1>6, <1>7 DEF PrefixCollected, LastItem

EndOfIteration == NoTimeout \/ RetryAfterTimeout \/ GiveUp

LEMMA StableStep ==
  ASSUME TypeOK, StableInv, [Next]_vars
  PROVE  StableInv'
<1>. SUFFICES ASSUME replans' = 0
              PROVE  FaithfulReplies' /\ PrefixCollected' /\ CompleteMeansAll'
  BY DEF StableInv
<1>1. CASE VehicleReplans
  <2>1. replans \in Nat /\ replans' = replans + 1
    BY <1>1, BoundsAssumption DEF VehicleReplans, TypeOK
  <2>. QED  BY <2>1
<1>2. CASE ~ VehicleReplans
  <2>1. replans' = replans /\ mission' = mission
    BY <1>2
    DEF Next, Downloader, Environment, vars, world, StartDownload, ConstructorThrows,
        OnNothing, OnFragment, OnTelemetry, OnMissionCount, OnExpectedItem,
        OnOutOfOrderItem, OnReject, NoTimeout, RetryAfterTimeout, GiveUp, TimeoutPasses,
        SendTelemetry, VehicleSendsCount, VehicleSendsItem, VehicleRejects, Answered, Receive
  <2>2. FaithfulReplies /\ PrefixCollected /\ CompleteMeansAll
    BY <2>1 DEF StableInv
  <2>3. FaithfulReplies'
    BY <2>1, <2>2, FaithfulStep
  <2>4. CASE StartDownload
    <3>1. /\ mission_items' = <<>> /\ expected_seq' = 0 /\ mission_count' = 0
          /\ download_complete' = FALSE /\ outcome' = "none"
      BY <2>4 DEF StartDownload
    <3>2. PrefixCollected'
      BY <2>1, <3>1, MissionType DEF PrefixCollected
    <3>. QED  BY <2>3, <3>1, <3>2 DEF CompleteMeansAll
  <2>5. CASE OnMissionCount
    <3>1. PICK m \in toGcs : m.type = "count" /\ mission_count' = m.count
      BY <2>5 DEF OnMissionCount
    <3>2. /\ expected_seq' = 0 /\ mission_items' = mission_items
          /\ pc = "receive" /\ pc' = "check"
          /\ download_complete' = download_complete /\ outcome' = outcome
      BY <2>5 DEF OnMissionCount, Receive
    <3>3. PrefixCollected'
      BY <2>1, <2>2, <3>1, <3>2, MissionType DEF PrefixCollected, FaithfulReplies
    <3>. QED  BY <2>2, <2>3, <3>2, <3>3 DEF CompleteMeansAll
  <2>6. CASE OnExpectedItem
    <3>1. PrefixCollected' /\ expected_seq' = expected_seq + 1
      BY <2>1, <2>2, <2>6, AcceptStep
    <3>2. /\ download_complete' = IsLast /\ mission_count' = mission_count
          /\ pc = "receive" /\ pc' = "check" /\ outcome' = outcome
      BY <2>6 DEF OnExpectedItem, Receive
    <3>3. download_complete' => expected_seq' = mission_count
      BY <3>2, Zenon DEF IsLast
    <3>4. expected_seq' > 0
      BY <3>1, MissionType
    <3>. QED  BY <2>2, <2>3, <3>1, <3>2, <3>3, <3>4 DEF CompleteMeansAll
  <2>7. CASE EndOfIteration
    <3>1. UNCHANGED <<mission_items, expected_seq, mission_count, download_complete>>
      BY <2>7 DEF EndOfIteration, NoTimeout, RetryAfterTimeout, GiveUp, items
    <3>2. \/ pc' = "idle" /\ outcome' = "gaveup"
          \/ download_complete /\ pc' = "idle" /\ outcome' = "success"
          \/ ~download_complete /\ pc' = "receive" /\ outcome' = outcome /\ pc = "check"
      BY <2>7, Zenon DEF EndOfIteration, NoTimeout, RetryAfterTimeout, GiveUp, EndIteration
    <3>. QED  BY <2>1, <2>2, <2>3, <3>1, <3>2 DEF PrefixCollected, LastItem, CompleteMeansAll
  <2>8. CASE ~ (StartDownload \/ OnMissionCount \/ OnExpectedItem \/ EndOfIteration)
    <3>1. /\ UNCHANGED <<mission_items, expected_seq, mission_count, download_complete>>
          /\ pc' # "receive" \/ pc' = pc
          /\ outcome' # "success" \/ (outcome' = outcome /\ (pc' = pc \/ pc = "receive"))
      BY <1>2, <2>8
      DEF Next, Downloader, Environment, vars, items, loop, ConstructorThrows, OnNothing,
          OnFragment, OnTelemetry, OnOutOfOrderItem, OnReject, EndOfIteration, TimeoutPasses,
          SendTelemetry, VehicleSendsCount, VehicleSendsItem, VehicleRejects, Answered, Receive
    <3>. QED  BY <2>1, <2>2, <2>3, <3>1 DEF PrefixCollected, LastItem, CompleteMeansAll
  <2>. QED  BY <2>4, <2>5, <2>6, <2>7, <2>8
<1>. QED  BY <1>1, <1>2

LEMMA StableInit == Init => StableInv
<1>. SUFFICES ASSUME Init PROVE FaithfulReplies /\ PrefixCollected /\ CompleteMeansAll
  BY DEF StableInv
<1>1. Len(mission) \in Nat /\ Len(mission_items) = 0
  BY MissionsAssumption DEF Init
<1>. QED  BY <1>1 DEF Init, FaithfulReplies, PrefixCollected, CompleteMeansAll

(* A download that reports success of a mission nobody changed meanwhile   *)
(* has the whole of it as its newest items.                                *)
THEOREM StableMissionCorrect == Spec => []StableMissionIsDownloaded
<1>1. Init => StableInv
  BY StableInit
<1>2. TypeOK /\ StableInv /\ [Next]_vars => StableInv'
  BY StableStep
<1>3. TypeOK /\ StableInv => StableMissionIsDownloaded
  <2>. SUFFICES ASSUME TypeOK, StableInv, replans = 0, outcome = "success"
                PROVE  /\ mission # <<>> /\ mission_count = Len(mission)
                       /\ Len(mission) <= Len(mission_items)
                       /\ \A i \in 1..Len(mission) :
                            LastItem(Len(mission), i) = Item(i - 1, mission[i])
    BY DEF StableMissionIsDownloaded
  <2>1. /\ expected_seq > 0 /\ mission_count = expected_seq
        /\ mission_count \in {0, Len(mission)}
        /\ expected_seq <= Len(mission_items)
    BY DEF StableInv, CompleteMeansAll, PrefixCollected
  <2>2. expected_seq = Len(mission) /\ mission # <<>>
    BY <2>1, MissionType
  <2>. QED  BY <2>1, <2>2 DEF StableInv, PrefixCollected
<1>. QED  BY <1>1, <1>2, <1>3, TypeCorrect, PTL DEF Spec
-----------------------------------------------------------------------------
(* The first download of a nonempty mission. *)

(* Until a count has arrived no item was asked for; until the download is  *)
(* complete nothing beyond the mission was.                                *)
NothingBeyond ==
  /\ outcome # "rejected"
  /\ session = 0 => pc = "idle" /\ mission_count = 0 /\ ~download_complete
  /\ mission_count = 0 => /\ \A r \in toVehicle : r.type # "item"
                          /\ \A m \in toGcs : m.type # "item"
  /\ ~download_complete => /\ \A r \in toVehicle : r.type = "item" => r.seq < Len(mission)
                           /\ \A m \in toGcs : m.type # "reject"
                           /\ mission_count # 0 => expected_seq < Len(mission)

FirstInv == session <= 1 /\ replans = 0 /\ mission # <<>> => NothingBeyond

(* The replies that a step adds keep NothingBeyond, by what was asked for. *)
LEMMA RepliesWithin ==
  ASSUME TypeOK, NothingBeyond, [Next]_vars, NEW m \in toGcs'
  PROVE  /\ mission_count = 0 => m.type # "item"
         /\ ~download_complete => m.type # "reject"
<1>1. CASE m \in toGcs
  BY <1>1 DEF NothingBeyond
<1>2. CASE (\E p \in Peers : m = Telemetry(p)) \/ m = Count(Len(mission))
  BY <1>2 DEF Telemetry, Count
<1>3. CASE \E i \in 1..Len(mission) : /\ m = ItemReply(Item(i - 1, mission[i]))
                                      /\ ItemRequest(i - 1) \in toVehicle
  <2>1. PICK i \in 1..Len(mission) : /\ m = ItemReply(Item(i - 1, mission[i]))
                                     /\ ItemRequest(i - 1) \in toVehicle
    BY <1>3
  <2>2. m.type = "item" /\ ItemRequest(i - 1).type = "item"
    BY <2>1 DEF ItemReply, ItemRequest
  <2>. QED  BY <2>1, <2>2 DEF NothingBeyond
<1>4. CASE m = Reject /\ \E r \in toVehicle : r.type = "item" /\ r.seq >= Len(mission)
  <2>1. PICK r \in toVehicle : r.type = "item" /\ r.seq >= Len(mission)
    BY <1>4
  <2>2. r.seq \in Nat
    BY <2>1, MaxType DEF TypeOK, Requests, ListRequest, Ack
  <2>3. ~ (r.seq < Len(mission))
    BY <2>1, <2>2, MissionType
  <2>4. m.type = "reject"
    BY <1>4 DEF Reject
  <2>. QED  BY <2>1, <2>3, <2>4 DEF NothingBeyond
<1>. QED  BY <1>1, <1>2, <1>3, <1>4, RepliesChange

LEMMA FirstStep ==
  ASSUME TypeOK, StableInv, StableInv', FirstInv, [Next]_vars
  PROVE  FirstInv'
<1>. SUFFICES ASSUME session' <= 1, replans' = 0, mission' # <<>>
              PROVE  NothingBeyond'
  BY DEF FirstInv
<1>1. CASE VehicleReplans
  <2>1. replans \in Nat /\ replans' = replans + 1
    BY <1>1, BoundsAssumption DEF VehicleReplans, TypeOK
  <2>. QED  BY <2>1
<1>2. CASE ~ VehicleReplans
  <2>1. replans' = replans /\ mission' = mission
    BY <1>2
    DEF Next, Downloader, Environment, vars, world, StartDownload, ConstructorThrows,
        OnNothing, OnFragment, OnTelemetry, OnMissionCount, OnExpectedItem,
        OnOutOfOrderItem, OnReject, NoTimeout, RetryAfterTimeout, GiveUp, TimeoutPasses,
        SendTelemetry, VehicleSendsCount, VehicleSendsItem, VehicleRejects, Answered, Receive
  <2>2. session \in Nat /\ (session' = session \/ session' = session + 1)
    BY <1>2, BoundsAssumption
    DEF Next, Downloader, Environment, vars, StartDownload, ConstructorThrows, TypeOK,
        OnNothing, OnFragment, OnTelemetry, OnMissionCount, OnExpectedItem,
        OnOutOfOrderItem, OnReject, NoTimeout, RetryAfterTimeout, GiveUp, TimeoutPasses,
        SendTelemetry, VehicleSendsCount, VehicleSendsItem, VehicleRejects, Answered, Receive
  <2>3. NothingBeyond
    BY <2>1, <2>2 DEF FirstInv
  <2>4. /\ FaithfulReplies /\ PrefixCollected /\ CompleteMeansAll
        /\ PrefixCollected' /\ mission # <<>> /\ Len(mission) > 0
    BY <2>1, MissionType DEF StableInv
  <2>5. \A m \in toGcs' : /\ mission_count = 0 => m.type # "item"
                          /\ ~download_complete => m.type # "reject"
    BY <2>3, RepliesWithin
  <2>6. ASSUME pc = "receive" PROVE session # 0 /\ ~download_complete
    BY <2>3, <2>4, <2>6 DEF NothingBeyond, CompleteMeansAll
  <2>7. CASE StartDownload
    <3>1. session = 0 /\ session' = 1
      BY <2>2, <2>7 DEF StartDownload
    <3>2. mission_count = 0 /\ ~download_complete
      BY <2>3, <3>1 DEF NothingBeyond
    <3>3. toVehicle' \subseteq toVehicle \union {ListRequest}
      BY <2>7 DEF StartDownload, sendMissionRequestList, sendMessage
    <3>4. \A r \in toVehicle' : r.type # "item"
      BY <2>3, <3>2, <3>3 DEF NothingBeyond, ListRequest
    <3>5. outcome' = "none" /\ mission_count' = 0 /\ ~download_complete'
      BY <2>7 DEF StartDownload
    <3>. QED  BY <2>5, <3>1, <3>2, <3>4, <3>5 DEF NothingBeyond
  <2>8. CASE ConstructorThrows
    <3>1. /\ session' = session + 1 /\ outcome' = "exception"
          /\ UNCHANGED <<mission_count, expected_seq, download_complete, toVehicle, toGcs>>
      BY <2>8 DEF ConstructorThrows, items, network
    <3>. QED  BY <2>1, <2>2, <2>3, <3>1 DEF NothingBeyond
  <2>9. CASE OnMissionCount
    <3>1. PICK m \in toGcs : m.type = "count" /\ mission_count' = m.count
      BY <2>9 DEF OnMissionCount
    <3>2. /\ expected_seq' = 0 /\ pc = "receive" /\ session' = session
          /\ download_complete' = download_complete /\ outcome' = outcome
          /\ toVehicle' \subseteq toVehicle \union {ItemRequest(expected_seq')}
      BY <2>9 DEF OnMissionCount, Receive, requestNextMissionItem, sendMessage
    <3>3. mission_count' = Len(mission)
      BY <2>4, <3>1 DEF FaithfulReplies
    <3>4. \A r \in toVehicle' : r.type = "item" => r.seq < Len(mission)
      BY <2>3, <2>4, <2>6, <3>2 DEF NothingBeyond, ItemRequest
    <3>. QED  BY <2>1, <2>3, <2>4, <2>5, <2>6, <3>2, <3>3, <3>4, MissionType DEF NothingBeyond
  <2>10. CASE OnExpectedItem \/ OnOutOfOrderItem
    <3>1. /\ pc = "receive" /\ session' = session /\ outcome' = outcome
          /\ mission_count' = mission_count
          /\ \E m \in toGcs : m.type = "item"
      BY <2>10 DEF OnExpectedItem, OnOutOfOrderItem, Receive, items
    <3>2. mission_count # 0 /\ mission_count = Len(mission)
      BY <2>3, <2>4, <3>1 DEF NothingBeyond, PrefixCollected
    <3>3. ~download_complete' =>
            /\ expected_seq' < Len(mission)
            /\ toVehicle' \subseteq toVehicle \union {ItemRequest(expected_seq')}
      <4>1. CASE OnExpectedItem
        <5>1. ~download_complete' => expected_seq' # mission_count /\ requestNextMissionItem
          BY <4>1, Zenon DEF OnExpectedItem, IsLast
        <5>2. expected_seq' <= Len(mission) /\ expected_seq' \in Nat
          <6>1. expected_seq' \in Nat
            BY <4>1, <2>1, <2>4, AcceptStep, MissionType
          <6>. QED  BY <2>1, <2>4, <6>1 DEF PrefixCollected
        <5>. QED  BY <3>2, <5>1, <5>2, MissionType DEF requestNextMissionItem, sendMessage
      <4>2. CASE OnOutOfOrderItem
        <5>1. expected_seq' = expected_seq /\ requestNextMissionItem
          BY <4>2 DEF OnOutOfOrderItem, items
        <5>2. expected_seq < Len(mission)
          BY <2>3, <2>6, <3>1, <3>2 DEF NothingBeyond
        <5>. QED  BY <5>1, <5>2 DEF requestNextMissionItem, sendMessage
      <4>. QED  BY <2>10, <4>1, <4>2
    <3>4. ~download_complete' =>
            \A r \in toVehicle' : r.type = "item" => r.seq < Len(mission)
      BY <2>3, <2>6, <3>1, <3>3 DEF NothingBeyond, ItemRequest
    <3>. QED  BY <2>1, <2>3, <2>5, <2>6, <3>1, <3>2, <3>3, <3>4 DEF NothingBeyond
  <2>11. CASE OnReject
    <3>1. pc = "receive" /\ \E m \in toGcs : m.type = "reject"
      BY <2>11 DEF OnReject, Receive
    <3>. QED  BY <2>3, <2>6, <3>1 DEF NothingBeyond
  <2>12. CASE RetryAfterTimeout
    <3>1. /\ pc = "check" /\ session' = session /\ outcome' \in {outcome, "success"}
          /\ UNCHANGED <<mission_count, expected_seq, download_complete, toGcs>>
      BY <2>12 DEF RetryAfterTimeout, EndIteration, items
    <3>2. IF mission_count = 0
          THEN toVehicle' \subseteq toVehicle \union {ListRequest}
          ELSE toVehicle' \subseteq toVehicle \union {ItemRequest(expected_seq)}
      BY <2>12, <3>1
      DEF RetryAfterTimeout, sendMissionRequestList, requestNextMissionItem, sendMessage
    <3>3. mission_count = 0 => \A r \in toVehicle' : r.type # "item"
      BY <2>3, <3>2 DEF NothingBeyond, ListRequest
    <3>4. ~download_complete =>
            \A r \in toVehicle' : r.type = "item" => r.seq < Len(mission)
      BY <2>3, <3>2 DEF NothingBeyond, ListRequest, ItemRequest
    <3>. QED  BY <2>1, <2>3, <3>1, <3>3, <3>4 DEF NothingBeyond
  <2>13. CASE ~ \/ StartDownload \/ ConstructorThrows \/ OnMissionCount \/ OnExpectedItem
                \/ OnOutOfOrderItem \/ OnReject \/ RetryAfterTimeout
    <3>1. /\ UNCHANGED <<mission_count, expected_seq, download_complete, session>>
          /\ toVehicle' \subseteq toVehicle
          /\ outcome' # "rejected" \/ outcome' = outcome
          /\ pc' = pc \/ pc # "idle"
      BY <1>2, <2>13
      DEF Next, Downloader, Environment, vars, items, loop, network, OnNothing, OnFragment,
          OnTelemetry, NoTimeout, GiveUp, EndIteration, TimeoutPasses, SendTelemetry,
          VehicleSendsCount, VehicleSendsItem, VehicleRejects, Answered, Taken, Receive
    <3>. QED  BY <2>1, <2>3, <2>5, <3>1 DEF NothingBeyond
  <2>. QED  BY <2>7, <2>8, <2>9, <2>10, <2>11, <2>12, <2>13
<1>. QED  BY <1>1, <1>2

(* The first download of a nonempty mission that nobody changes is never   *)
(* rejected by the vehicle: no request beyond its end is answered in time. *)
THEOREM FirstDownloadCorrect == Spec => []FirstDownloadIsNotRejected
<1>1. Init => StableInv /\ FirstInv
  <2>1. Init => NothingBeyond
    BY DEF Init, NothingBeyond
  <2>. QED  BY <2>1, StableInit DEF FirstInv
<1>2. /\ TypeOK /\ StableInv /\ [Next]_vars => StableInv'
      /\ TypeOK /\ StableInv /\ StableInv' /\ FirstInv /\ [Next]_vars => FirstInv'
  BY StableStep, FirstStep
<1>3. TypeOK /\ FirstInv => FirstDownloadIsNotRejected
  BY DEF FirstInv, NothingBeyond, FirstDownloadIsNotRejected
<1>. QED  BY <1>1, <1>2, <1>3, TypeCorrect, PTL DEF Spec
-----------------------------------------------------------------------------
(* The download implements MissionTransfer. *)

(* The answers in flight, whichever mission they are about ... *)
HeldReplies == \A m \in toGcs :
  /\ m.type = "count" => \E k \in Missions : m.count = Len(k)
  /\ m.type = "item"  => Transfer!IsHeld(m.item)

(* ... make a batch of them; the loop ends only after the last. *)
HeldInv ==
  /\ HeldReplies
  /\ \A i \in 1..Len(mission_items) : Transfer!IsHeld(mission_items[i])
  /\ mission_count = 0 \/ \E k \in Missions : mission_count = Len(k)
  /\ CompleteMeansAll

LEMMA HeldInit == Init => HeldInv
<1>. SUFFICES ASSUME Init PROVE HeldInv
  OBVIOUS
<1>1. Len(mission_items) = 0
  BY DEF Init
<1>. QED  BY <1>1 DEF Init, HeldInv, HeldReplies, CompleteMeansAll

LEMMA HeldRepliesStep ==
  ASSUME TypeOK, HeldReplies, [Next]_vars
  PROVE  HeldReplies'
<1>. SUFFICES ASSUME NEW m \in toGcs'
              PROVE  /\ m.type = "count" => \E k \in Missions : m.count = Len(k)
                     /\ m.type = "item"  => Transfer!IsHeld(m.item)
  BY DEF HeldReplies, Transfer!IsHeld
<1>0. mission \in Missions
  BY DEF TypeOK
<1>1. CASE m \in toGcs
  BY <1>1 DEF HeldReplies
<1>2. CASE (\E p \in Peers : m = Telemetry(p)) \/ m = Reject
  BY <1>2 DEF Telemetry, Reject
<1>3. CASE m = Count(Len(mission))
  BY <1>0, <1>3 DEF Count
<1>4. CASE \E i \in 1..Len(mission) : m = ItemReply(Item(i - 1, mission[i]))
  <2>1. PICK i \in 1..Len(mission) : m = ItemReply(Item(i - 1, mission[i]))
    BY <1>4
  <2>2. m.type = "item" /\ m.item.seq = i - 1 /\ m.item.wp = mission[i]
    BY <2>1 DEF ItemReply, Item
  <2>3. i - 1 \in 0..(Len(mission) - 1) /\ (i - 1) + 1 = i
    BY MissionType
  <2>. QED  BY <1>0, <2>2, <2>3 DEF Transfer!IsHeld
<1>. QED  BY <1>1, <1>2, <1>3, <1>4, RepliesChange

(* The number of an item of a mission is below the limit of its type, so   *)
(* expected_seq never wraps.                                               *)
LEMMA HeldNumber ==
  ASSUME NEW item, Transfer!IsHeld(item)
  PROVE  item.seq \in Nat /\ item.seq < UINT16_MAX
<1>1. PICK k \in Missions : item.seq \in 0..(Len(k) - 1)
  BY DEF Transfer!IsHeld
<1>2. Len(k) \in Nat /\ Len(k) <= UINT16_MAX
  BY MissionsAssumption
<1>. QED  BY <1>1, <1>2, MaxType

LEMMA HeldStep ==
  ASSUME TypeOK, HeldInv, [Next]_vars
  PROVE  HeldInv'
<1>1. HeldReplies'
  BY HeldRepliesStep DEF HeldInv
<1>2. CASE StartDownload
  <2>1. /\ mission_items' = <<>> /\ mission_count' = 0
        /\ ~download_complete' /\ outcome' = "none"
    BY <1>2 DEF StartDownload
  <2>. QED  BY <1>1, <2>1 DEF HeldInv, CompleteMeansAll
<1>3. CASE OnMissionCount
  <2>1. PICK m \in toGcs : m.type = "count" /\ mission_count' = m.count
    BY <1>3 DEF OnMissionCount
  <2>2. /\ pc = "receive" /\ pc' = "check"
        /\ UNCHANGED <<mission_items, download_complete, outcome>>
    BY <1>3 DEF OnMissionCount, Receive
  <2>3. \E k \in Missions : mission_count' = Len(k)
    BY <2>1 DEF HeldInv, HeldReplies
  <2>. QED  BY <1>1, <2>2, <2>3 DEF HeldInv, CompleteMeansAll, Transfer!IsHeld
<1>4. CASE OnExpectedItem
  <2>1. PICK m \in toGcs : /\ m.type = "item" /\ IsExpected(m)
                           /\ mission_items' = Append(mission_items, m.item)
    BY <1>4 DEF OnExpectedItem
  <2>2. /\ expected_seq' = (expected_seq + 1) % (UINT16_MAX + 1)
        /\ download_complete' = IsLast /\ mission_count' = mission_count
        /\ pc = "receive" /\ pc' = "check" /\ outcome' = outcome
    BY <1>4 DEF OnExpectedItem, Receive
  <2>3. Transfer!IsHeld(m.item) /\ m.item.seq = expected_seq
    BY <2>1 DEF HeldInv, HeldReplies, IsExpected
  <2>4. expected_seq' = expected_seq + 1
    <3>1. expected_seq \in Nat /\ expected_seq < UINT16_MAX
      BY <2>3, HeldNumber
    <3>2. \A n \in Nat : n < 65535 => (n + 1) % (65535 + 1) = n + 1
      OBVIOUS
    <3>. QED  BY <2>2, <3>1, <3>2 DEF UINT16_MAX
  <2>5. ASSUME NEW i \in 1..Len(mission_items') PROVE Transfer!IsHeld(mission_items'[i])
    <3>1. /\ Len(mission_items') = Len(mission_items) + 1
          /\ mission_items'[Len(mission_items) + 1] = m.item
          /\ i \in 1..Len(mission_items) => mission_items'[i] = mission_items[i]
      BY <2>1, ReplyTypes DEF TypeOK
    <3>2. i \in 1..Len(mission_items) \/ i = Len(mission_items) + 1
      BY <3>1, MissionType
    <3>. QED  BY <2>3, <3>1, <3>2 DEF HeldInv
  <2>6. download_complete' => mission_count' = expected_seq' /\ expected_seq' > 0
    <3>1. download_complete' => expected_seq' = mission_count
      BY <2>2, Zenon DEF IsLast
    <3>. QED  BY <2>2, <2>4, <3>1, MissionType
  <2>7. CompleteMeansAll'
    BY <2>2, <2>6 DEF HeldInv, CompleteMeansAll
  <2>. QED  BY <1>1, <2>2, <2>5, <2>7 DEF HeldInv, Transfer!IsHeld
<1>5. CASE EndOfIteration
  <2>1. UNCHANGED <<mission_items, expected_seq, mission_count, download_complete>>
    BY <1>5 DEF EndOfIteration, NoTimeout, RetryAfterTimeout, GiveUp, items
  <2>2. \/ pc' = "idle" /\ outcome' = "gaveup"
        \/ download_complete /\ pc' = "idle" /\ outcome' = "success"
        \/ ~download_complete /\ pc' = "receive" /\ outcome' = outcome /\ pc = "check"
    BY <1>5, Zenon DEF EndOfIteration, NoTimeout, RetryAfterTimeout, GiveUp, EndIteration
  <2>. QED  BY <1>1, <2>1, <2>2 DEF HeldInv, CompleteMeansAll, Transfer!IsHeld
<1>6. CASE ~ (StartDownload \/ OnMissionCount \/ OnExpectedItem \/ EndOfIteration)
  <2>1. /\ UNCHANGED <<mission_items, expected_seq, mission_count, download_complete>>
        /\ pc' # "receive" \/ pc' = pc
        /\ outcome' # "success" \/ (outcome' = outcome /\ (pc' = pc \/ pc = "receive"))
    BY <1>6
    DEF Next, Downloader, Environment, vars, items, loop, ConstructorThrows, OnNothing,
        OnFragment, OnTelemetry, OnOutOfOrderItem, OnReject, EndOfIteration, TimeoutPasses,
        SendTelemetry, VehicleReplans, VehicleSendsCount, VehicleSendsItem, VehicleRejects,
        Answered, Receive
  <2>. QED  BY <1>1, <2>1 DEF HeldInv, CompleteMeansAll, Transfer!IsHeld
<1>. QED  BY <1>2, <1>3, <1>4, <1>5, <1>6

(* What has been collected when the loop ends with success. *)
LEMMA CompleteIsDelivery ==
  ASSUME TypeOK, ItemsInSequence, StableInv, HeldInv, download_complete
  PROVE  Transfer!IsDelivery(mission_items)
<1>. USE DEF Transfer!IsNumbered, Transfer!Newest, LastItem
<1>1. mission_count = expected_seq /\ expected_seq > 0
  BY DEF HeldInv, CompleteMeansAll
<1>2. Transfer!IsNumbered(mission_items, mission_count)
  BY <1>1, MissionType DEF ItemsInSequence
<1>3. PICK k \in Missions : mission_count = Len(k)
  BY <1>1, MissionType DEF HeldInv
<1>4. ASSUME replans = 0 PROVE Transfer!EndsWith(mission_items, mission)
  <2>1. mission_count = Len(mission)
    BY <1>1, <1>4, MissionType DEF StableInv, PrefixCollected
  <2>2. \A i \in 1..Len(mission) : LastItem(Len(mission), i) = Item(i - 1, mission[i])
    BY <1>1, <1>4, <2>1 DEF StableInv, PrefixCollected
  <2>3. ASSUME NEW i \in 1..Len(mission) PROVE LastItem(Len(mission), i).wp = mission[i]
    <3>1. LastItem(Len(mission), i) = Item(i - 1, mission[i])
      BY <2>2
    <3>2. Item(i - 1, mission[i]).wp = mission[i]
      BY DEF Item
    <3>. QED  BY <3>1, <3>2
  <2>. QED  BY <1>2, <2>1, <2>3 DEF Transfer!EndsWith
<1>5. ~ (replans > 0) => replans = 0
  BY BoundsAssumption DEF TypeOK
<1>6. \A i \in 1..Len(mission_items) : Transfer!IsHeld(mission_items[i])
  BY DEF HeldInv
<1>. QED  BY <1>2, <1>3, <1>4, <1>5, <1>6 DEF Transfer!IsDelivery

LEMMA TransferStep ==
  ASSUME TypeOK, ItemsInSequence, StableInv, HeldInv, [Next]_vars
  PROVE  [Transfer!Next]_(Transfer!transferVars)
<1>. USE DEF Transfer!Next, Transfer!transferVars
<1>0. outcome = "success" => pc = "idle"
  BY DEF HeldInv, CompleteMeansAll
<1>1. CASE StartDownload
  <2>1. Transfer!Begin
    BY <1>1 DEF StartDownload, world, Transfer!Begin
  <2>. QED  BY <2>1
<1>2. CASE ConstructorThrows
  <2>1. Transfer!Begin
    BY <1>2 DEF ConstructorThrows, world, Transfer!Begin
  <2>. QED  BY <2>1
<1>3. CASE OnReject
  <2>1. Transfer!Fail
    BY <1>0, <1>3 DEF OnReject, Receive, world, Transfer!Fail
  <2>. QED  BY <2>1
<1>4. CASE EndOfIteration
  <2>1. pc = "check" /\ UNCHANGED <<mission_items, mission, replans>>
    BY <1>4 DEF EndOfIteration, NoTimeout, RetryAfterTimeout, GiveUp, items, world
  <2>2. \/ pc' = "idle" /\ outcome' = "gaveup"
        \/ download_complete /\ pc' = "idle" /\ outcome' = "success"
        \/ pc' = "receive" /\ outcome' = outcome
    BY <1>4, Zenon DEF EndOfIteration, NoTimeout, RetryAfterTimeout, GiveUp, EndIteration
  <2>3. CASE pc' = "idle" /\ outcome' = "gaveup"
    <3>1. Transfer!Fail
      BY <1>0, <2>1, <2>3 DEF Transfer!Fail
    <3>. QED  BY <3>1
  <2>4. CASE download_complete /\ pc' = "idle" /\ outcome' = "success"
    <3>1. Transfer!IsDelivery(mission_items)
      BY <2>4, CompleteIsDelivery
    <3>2. Transfer!Succeed
      BY <2>1, <2>4, <3>1 DEF Transfer!Succeed
    <3>. QED  BY <3>2
  <2>5. CASE pc' = "receive" /\ outcome' = outcome
    BY <2>1, <2>5
  <2>. QED  BY <2>2, <2>3, <2>4, <2>5
<1>5. CASE VehicleReplans
  <2>1. replans \in Nat /\ replans' = replans + 1 /\ mission' \in Missions
    BY <1>5, BoundsAssumption DEF VehicleReplans, TypeOK
  <2>2. Transfer!Change
    BY <1>5, <2>1 DEF VehicleReplans, loop, items, Transfer!Change
  <2>. QED  BY <2>2
<1>6. CASE ~ \/ StartDownload \/ ConstructorThrows \/ OnReject
             \/ EndOfIteration \/ VehicleReplans
  <2>1. /\ UNCHANGED <<mission, replans, outcome>>
        /\ pc' = pc \/ (pc # "idle" /\ pc' # "idle")
        /\ mission_items' = mission_items \/ pc # "idle"
    BY <1>6
    DEF Next, Downloader, Environment, vars, items, loop, world, OnNothing, OnFragment,
        OnTelemetry, OnMissionCount, OnExpectedItem, OnOutOfOrderItem, EndOfIteration,
        TimeoutPasses, SendTelemetry, VehicleSendsCount, VehicleSendsItem, VehicleRejects,
        Answered, Receive
  <2>. QED  BY <1>0, <2>1
<1>. QED  BY <1>1, <1>2, <1>3, <1>4, <1>5, <1>6

(* A download is what the main loop takes it for: under way until it ends  *)
(* once, with nothing or with items that end with a whole mission, the     *)
(* vehicle's own unless it changed it.                                     *)
THEOREM TransferKeptCorrect == Spec => TransferKept
<1>1. Init => Transfer!Init
  BY DEF Init, Transfer!Init
<1>2. Init => StableInv /\ HeldInv
  BY StableInit, HeldInit
<1>3. /\ TypeOK /\ StableInv /\ [Next]_vars => StableInv'
      /\ TypeOK /\ HeldInv /\ [Next]_vars => HeldInv'
  BY StableStep, HeldStep
<1>4. /\ TypeOK /\ ItemsInSequence /\ StableInv /\ HeldInv /\ [Next]_vars
           => [Transfer!Next]_(Transfer!transferVars)
  BY TransferStep
<1>. QED  BY <1>1, <1>2, <1>3, <1>4, TypeCorrect, SequenceCorrect, PTL
          DEF Spec, TransferKept, Transfer!Spec
=============================================================================
