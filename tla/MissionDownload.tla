--------------------------- MODULE MissionDownload ---------------------------
(***************************************************************************)
(* The mission download of the ground station backend: the class           *)
(* UDPMissionDownloader of backend/getMission.hpp, driven over UDP against *)
(* an autopilot that answers the MAVLink mission protocol.                 *)
(*                                                                         *)
(* The downloader asks for the list (MISSION_REQUEST_LIST), learns the     *)
(* number of items (MISSION_COUNT), then asks for them one by one          *)
(* (MISSION_REQUEST_INT / MISSION_ITEM_INT) and acknowledges the last.  A  *)
(* timer of TIMEOUT_MS drives retries.  Each download of the server builds *)
(* a new downloader on the same local port, so an answer to a request of   *)
(* one download (a session here) may reach the next.                       *)
(***************************************************************************)
EXTENDS Integers, Sequences

CONSTANTS
  Vehicle,            \* the autopilot's endpoint
  Others,             \* other endpoints that may send to the local port
  Talkers,            \* the endpoints that send telemetry unasked
  Waypoints,          \* contents of mission items
  Missions,           \* the missions the vehicle may hold
  MAX_RETRIES,        \* unanswered requests before the download gives up
  NetworkDuplicates,  \* whether the network may deliver a datagram twice
  MaxItems,           \* bound: no new count is received with this many items
  MaxSessions,        \* bound: downloads started
  MaxReplans          \* bound: changes of the vehicle's mission

Peers == {Vehicle} \union Others

UINT16_MAX == 65535   \* seq and count travel as uint16_t

ASSUME PeersAssumption == Vehicle \notin Others /\ Talkers \subseteq Peers
ASSUME MissionsAssumption ==
  /\ Missions \subseteq Seq(Waypoints)
  /\ \A m \in Missions : Len(m) <= UINT16_MAX
ASSUME BoundsAssumption ==
  /\ MAX_RETRIES \in Nat \ {0}
  /\ MaxItems \in Nat /\ MaxSessions \in Nat /\ MaxReplans \in Nat
  /\ NetworkDuplicates \in BOOLEAN

VARIABLES
  pc,                 \* where the download loop is
  download_complete,
  outcome,            \* how the last finished download ended
  mission_items,      \* the items collected, in the order they were accepted
  expected_seq,
  mission_count,
  retry_count,
  timer,              \* "expired" once TIMEOUT_MS passed since resetTimeout
  gcAddr,             \* where the next request is sent
  toVehicle, toGcs,   \* datagrams in flight or in a socket buffer
  mission,            \* the mission the vehicle holds
  session, replans    \* counters for the bounds

loop    == <<pc, download_complete, outcome>>
items   == <<mission_items, expected_seq, mission_count>>
retry   == <<retry_count, timer, gcAddr>>
network == <<toVehicle, toGcs>>
world   == <<mission, replans>>
vars    == <<loop, items, retry, network, world, session>>

Item(seq, wp) == [seq |-> seq, wp |-> wp]
Items == [seq : 0..UINT16_MAX, wp : Waypoints]

ListRequest    == [type |-> "list"]
ItemRequest(s) == [type |-> "item", seq |-> s]
Ack            == [type |-> "ack"]
Requests == {ListRequest, Ack} \union [type : {"item"}, seq : 0..UINT16_MAX]

(* Telemetry stands for every message that only resets the retry counter:  *)
(* heartbeats, message ids without a case, and a MISSION_ACK that accepts. *)
Telemetry(p) == [type |-> "telemetry", from |-> p]
Count(n)     == [type |-> "count", from |-> Vehicle, count |-> n]
ItemReply(i) == [type |-> "item", from |-> Vehicle, item |-> i]
Reject       == [type |-> "reject", from |-> Vehicle]
Replies == [type : {"telemetry"}, from : Peers]
             \union [type : {"count"}, from : {Vehicle}, count : 0..UINT16_MAX]
             \union [type : {"item"}, from : {Vehicle}, item : Items]
             \union {Reject}

Init ==
  /\ pc = "idle" /\ download_complete = FALSE /\ outcome = "none"
  /\ mission_items = <<>> /\ expected_seq = 0 /\ mission_count = 0
  /\ retry_count = 0 /\ timer = "running" /\ gcAddr = Vehicle
  /\ toVehicle = {} /\ toGcs = {}
  /\ mission \in Missions
  /\ session = 0 /\ replans = 0
-----------------------------------------------------------------------------
(* Sending.  sendMessage addresses gcAddr, which recvfrom overwrites with  *)
(* the source of the last datagram: a request sent elsewhere is not        *)
(* answered.                                                               *)

sendMessage(r) ==
  toVehicle' = IF gcAddr' = Vehicle THEN toVehicle \union {r} ELSE toVehicle

resetTimeout == timer' = "running"

sendMissionRequestList == sendMessage(ListRequest) /\ resetTimeout

requestNextMissionItem_OneBehind ==
  sendMessage(ItemRequest(expected_seq' - 1)) /\ resetTimeout

requestNextMissionItem == sendMessage(ItemRequest(expected_seq')) /\ resetTimeout

sendMissionAck == sendMessage(Ack) /\ UNCHANGED timer
-----------------------------------------------------------------------------
(* Starting a download: the constructor binds the local port and           *)
(* downloadMission sends the first request; or the constructor throws.     *)

StartDownload ==
  /\ pc = "idle" /\ session < MaxSessions
  /\ session' = session + 1
  /\ pc' = "receive" /\ download_complete' = FALSE /\ outcome' = "none"
  /\ mission_items' = <<>> /\ expected_seq' = 0 /\ mission_count' = 0
  /\ retry_count' = 0 /\ gcAddr' = Vehicle
  /\ sendMissionRequestList
  /\ UNCHANGED <<toGcs, world>>

ConstructorThrows ==
  /\ pc = "idle" /\ session < MaxSessions
  /\ session' = session + 1
  /\ outcome' = "exception"
  /\ UNCHANGED <<pc, download_complete, items, retry, network, world>>
-----------------------------------------------------------------------------
(* One iteration of the loop: receive and dispatch, then check the timer.  *)

(* What is left of a channel once m is received.  Datagrams are received in *)
(* any order; a lost one is one that is never received.                    *)
Taken(channel, m) == IF NetworkDuplicates THEN channel ELSE channel \ {m}

Receive(m) ==
  /\ pc = "receive" /\ m \in toGcs
  /\ toGcs' = Taken(toGcs, m)
  /\ gcAddr' = m.from
  /\ retry_count' = 0
  /\ UNCHANGED <<world, session>>

OnNothing ==
  /\ pc = "receive" /\ pc' = "check"
  /\ UNCHANGED <<download_complete, outcome, items, retry, network, world, session>>

(* A datagram without one complete message: recvfrom has still overwritten *)
(* the address of the next request.                                        *)
OnFragment == \E m \in toGcs :
  /\ pc = "receive" /\ pc' = "check"
  /\ m.type = "telemetry"
  /\ toGcs' = Taken(toGcs, m)
  /\ gcAddr' = m.from
  /\ UNCHANGED <<download_complete, outcome, items, retry_count, timer>>
  /\ UNCHANGED <<toVehicle, world, session>>

OnTelemetry == \E m \in toGcs :
  /\ m.type = "telemetry" /\ Receive(m)
  /\ pc' = "check"
  /\ UNCHANGED <<download_complete, outcome, items, timer, toVehicle>>

OnMissionCount == \E m \in toGcs :
  /\ m.type = "count" /\ Receive(m)
  /\ Len(mission_items) < MaxItems
  /\ mission_count' = m.count
  /\ expected_seq' = 0
  /\ requestNextMissionItem
  /\ pc' = "check"
  /\ UNCHANGED <<download_complete, outcome, mission_items>>

IsExpected_Any(m) == m.item.seq \in Nat
IsExpected_OrLater(m) == m.item.seq >= expected_seq
IsExpected(m) == m.item.seq = expected_seq

IsLast_AtLeast == expected_seq' >= mission_count
IsLast_OnePast == expected_seq' = mission_count + 1
IsLast == expected_seq' = mission_count

(* The item expected next is kept; the last one completes the download.    *)
OnExpectedItem == \E m \in toGcs :
  /\ m.type = "item" /\ Receive(m)
  /\ IsExpected(m)
  /\ mission_items' = Append(mission_items, m.item)
  /\ expected_seq' = (expected_seq + 1) % (UINT16_MAX + 1)
  /\ download_complete' = IsLast
  /\ IF IsLast THEN sendMissionAck ELSE requestNextMissionItem
  /\ pc' = "check"
  /\ UNCHANGED <<outcome, mission_count>>

OnOutOfOrderItem == \E m \in toGcs :
  /\ m.type = "item" /\ Receive(m)
  /\ ~IsExpected(m)
  /\ UNCHANGED items
  /\ requestNextMissionItem
  /\ pc' = "check"
  /\ UNCHANGED <<download_complete, outcome>>

OnReject == \E m \in toGcs :
  /\ m.type = "reject" /\ Receive(m)
  /\ pc' = "idle" /\ outcome' = "rejected"
  /\ UNCHANGED <<download_complete, items, timer, toVehicle>>

(* The end of an iteration: the loop goes on until download_complete.      *)
EndIteration ==
  IF download_complete THEN pc' = "idle" /\ outcome' = "success"
                       ELSE pc' = "receive" /\ UNCHANGED outcome

NoTimeout ==
  /\ pc = "check" /\ timer = "running"
  /\ EndIteration
  /\ UNCHANGED <<download_complete, items, retry, network, world, session>>

NextRetry_Stuck == retry_count
NextRetry == retry_count + 1

(* A timeout also fires in the iteration that completed the download, when *)
(* the last item came late: sendMissionAck does not restart the timer.     *)
RetryAfterTimeout ==
  /\ pc = "check" /\ timer = "expired"
  /\ NextRetry < MAX_RETRIES
  /\ retry_count' = NextRetry
  /\ UNCHANGED <<items, gcAddr>>
  /\ IF mission_count = 0 THEN sendMissionRequestList ELSE requestNextMissionItem
  /\ EndIteration
  /\ UNCHANGED <<download_complete, toGcs, world, session>>

GiveUp ==
  /\ pc = "check" /\ timer = "expired"
  /\ NextRetry >= MAX_RETRIES
  /\ retry_count' = NextRetry
  /\ pc' = "idle" /\ outcome' = "gaveup"
  /\ UNCHANGED <<download_complete, items, timer, gcAddr, network, world, session>>

Downloader ==
  \/ OnNothing \/ OnFragment \/ OnTelemetry
  \/ OnMissionCount \/ OnExpectedItem \/ OnOutOfOrderItem \/ OnReject
  \/ NoTimeout \/ RetryAfterTimeout \/ GiveUp

TimeoutPasses ==
  /\ pc # "idle" /\ timer = "running"
  /\ timer' = "expired"
  /\ UNCHANGED <<loop, items, retry_count, gcAddr, network, world, session>>
-----------------------------------------------------------------------------
(* The vehicle, as the downloader sees it: it answers the list request     *)
(* with its count, an item request with the item or a rejection, and does  *)
(* not answer the acknowledgement.                                         *)

Answered(r, reply) ==
  /\ r \in toVehicle
  /\ toVehicle' = Taken(toVehicle, r)
  /\ toGcs' = toGcs \union {reply}
  /\ UNCHANGED <<loop, items, retry, world, session>>

VehicleSendsCount == Answered(ListRequest, Count(Len(mission)))

VehicleSendsItem == \E i \in 1..Len(mission) :
  Answered(ItemRequest(i - 1), ItemReply(Item(i - 1, mission[i])))

VehicleRejects == \E r \in toVehicle :
  r.type = "item" /\ r.seq >= Len(mission) /\ Answered(r, Reject)

VehicleReplans ==
  /\ replans < MaxReplans
  /\ replans' = replans + 1
  /\ mission' \in Missions \ {mission}
  /\ UNCHANGED <<loop, items, retry, network, session>>

SendTelemetry == \E p \in Talkers :
  /\ toGcs' = toGcs \union {Telemetry(p)}
  /\ UNCHANGED <<loop, items, retry, toVehicle, world, session>>

Environment ==
  \/ TimeoutPasses \/ SendTelemetry \/ VehicleReplans
  \/ VehicleSendsCount \/ VehicleSendsItem \/ VehicleRejects

Next == StartDownload \/ ConstructorThrows \/ Downloader \/ Environment

Spec == Init /\ [][Next]_vars

(* Fairness: the main thread keeps running the loop and the clock advances. *)
(* Nothing is assumed of the vehicle or of the network.                     *)
FairSpec == Spec /\ WF_vars(Downloader) /\ WF_vars(TimeoutPasses)
-----------------------------------------------------------------------------
Outcomes == {"none", "success", "rejected", "gaveup", "exception"}

(* The variables hold the values their C++ types and the protocol allow.   *)
TypeOK ==
  /\ pc \in {"idle", "receive", "check"}
  /\ download_complete \in BOOLEAN
  /\ outcome \in Outcomes
  /\ mission_items \in Seq(Items)
  /\ expected_seq \in 0..UINT16_MAX
  /\ mission_count \in 0..UINT16_MAX
  /\ retry_count \in 0..MAX_RETRIES
  /\ timer \in {"running", "expired"}
  /\ gcAddr \in Peers
  /\ toVehicle \subseteq Requests
  /\ toGcs \subseteq Replies
  /\ mission \in Missions
  /\ session \in 0..MaxSessions
  /\ replans \in 0..MaxReplans

(* The i-th of the last n items collected. *)
LastItem(n, i) == mission_items[Len(mission_items) - n + i]

(* Whatever the network lost, repeated or reordered, and whatever an       *)
(* earlier download left in flight, the newest expected_seq items are      *)
(* numbered 0, 1, ..., expected_seq - 1 in that order (the seq test of     *)
(* downloadMission and the two places that move expected_seq).             *)
ItemsInSequence ==
  /\ expected_seq <= Len(mission_items)
  /\ \A i \in 1..expected_seq : LastItem(expected_seq, i).seq = i - 1

(* A download that returns true has collected, as its newest items, the    *)
(* whole mission of a vehicle that did not change it, item for item.       *)
StableMissionIsDownloaded ==
  replans = 0 /\ outcome = "success" =>
    /\ mission # <<>> /\ mission_count = Len(mission)
    /\ Len(mission) <= Len(mission_items)
    /\ \A i \in 1..Len(mission) :
         LastItem(Len(mission), i) = Item(i - 1, mission[i])

(* The first download never asks beyond the end of an unchanged, nonempty  *)
(* mission in time to see the answer: the vehicle never rejects it.  (A    *)
(* later one may be rejected by an answer meant for an earlier one.)       *)
FirstDownloadIsNotRejected ==
  session = 1 /\ replans = 0 /\ mission # <<>> => outcome # "rejected"

(* The download keeps what the main loop relies on (MissionTransfer): it    *)
(* ends, and only then, with nothing or with items that end with a whole   *)
(* mission, whatever was lost, repeated, late or meant for an earlier      *)
(* download (downloadMission and getMissionItemsJson, called once it       *)
(* returned true).                                                         *)
Transfer == INSTANCE MissionTransfer WITH
  busy    <- pc # "idle",
  changed <- replans > 0,
  batch   <- IF outcome = "success" THEN mission_items ELSE <<>>

TransferKept == Transfer!Spec

(* downloadMission returns, whatever requests and answers are lost, late   *)
(* or meant for an earlier download, so the main loop of the server goes   *)
(* on.  Needed: the network repeats no datagram, the mission changes only  *)
(* finitely often and nobody sends telemetry unasked, for every message    *)
(* resets retry_count.  And the vehicle has a mission: a count of zero is  *)
(* a message too and leaves mission_count at 0, so that the list is asked  *)
(* for, and answered, for ever.                                            *)
DownloadTerminates ==
  pc = "receive" ~> pc = "idle" \/ (mission = <<>> /\ mission_count = 0)

(* What the code announces when a download succeeds ("Tum gorevler         *)
(* alindi", all missions received) of a sequence MAVLink numbers without   *)
(* gaps or repetitions: as many items as the vehicle counted.              *)
EveryItemOnce == outcome = "success" => Len(mission_items) = mission_count
=============================================================================
