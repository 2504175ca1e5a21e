------------------------------ MODULE GcsServer ------------------------------
(***************************************************************************)
(* The ground station backend, backend/serverGC.cpp with the commands of   *)
(* backend/mission.hpp and backend/setParam.hpp.                           *)
(*                                                                         *)
(* Two threads share plain globals without a lock.  The WebSocket thread   *)
(* keeps the set of connections, turns payloads into flags and edits the   *)
(* list of mission points.  The main thread waits for a telemetry datagram,*)
(* broadcasts each message of it to the connections, then tests the flags  *)
(* in a fixed order, executes the commands whose flag is set, clears each  *)
(* flag after its execution, and sends a heartbeat to the vehicle.         *)
(*                                                                         *)
(* The download of a mission is one step here; MissionDownload models it.  *)
(***************************************************************************)
EXTENDS Integers, Sequences, FiniteSets

CONSTANTS
  Clients,      \* WebSocket clients
  Payloads,     \* the payloads clients send, a subset of AllPayloads
  Points,       \* mission points a waypoint payload may carry
  Garbage,      \* what a read outside mission_points may return
  BatchSizes,   \* how many MAVLink messages a datagram may complete
  MaxMessages,  \* bound: payloads sent
  MaxOpens      \* bound: connections opened

(* The commands, numbered in the order in which main tests their flags. *)
UPLOAD   == 1
FLY      == 2
RTL      == 3
PARAM    == 4
DOWNLOAD == 5
Commands == 1..5

CommandPayloads == {"uploadMission", "fly", "RTL", "param", "getMission"}
ClearPayloads   == {"waitForMission", "deleteMissions"}
AllPayloads == CommandPayloads \union ClearPayloads \union {"waypoint", "autoRTL"}

UINT16 == 65536

ASSUME PayloadsAssumption == Payloads \subseteq AllPayloads
ASSUME GarbageAssumption == Garbage \notin Points
ASSUME BatchAssumption == BatchSizes \subseteq Nat
ASSUME BoundAssumption == MaxMessages \in Nat /\ MaxOpens \in Nat

VARIABLES
  \* the main thread
  pc,                \* where it is; inside a command, the next thing it does
  cmd,               \* the command tested next or being executed
  msgs,              \* messages of the datagram not parsed yet
  left,              \* connections the broadcast loop has still to visit
  i,                 \* index of the upload loop
  current_mission_id,
  currentMission,    \* which download currentMissionJsonStr comes from, 0: none
  \* shared by the threads
  flag,              \* received_fly_command and the other request flags
  recieved_auto_RTL,
  mission_points,
  connections,
  m_message_handler, \* whether set_message_handler was called
  \* the WebSocket library and the clients
  next_has_handler,  \* whether the connection waiting in accept has a handler
  accepted,          \* clients whose connection is not open yet
  mute,              \* the connections without a message handler
  closing,           \* connections closed by the client, not erased yet
  seen,              \* what each client was last sent: mission id and mission
  sentMessages, opens,  \* counters for the bounds
  \* the vehicle, and history for the properties
  announced, sent,   \* the count and the items of the newest upload
  edited,            \* mission_points was edited since the count was sent
  credit,            \* requests that may still be executed, per command
  overtaken,         \* overtaken[k][j]: starts of j since k was requested
  untold,            \* no message was broadcast since the last download
  skipped,           \* clients that were left behind: by a broadcast that was
                     \* disturbed, or by a download with the one before untold
  ignored            \* a payload of an open connection was not handled

thread   == <<pc, cmd>>
told     == <<seen, untold, skipped>>
telem    == <<msgs, left, told>>
upload   == <<i, announced, sent, edited>>
shown    == <<current_mission_id, currentMission>>
requests == <<flag, credit, overtaken>>
conns    == <<accepted, connections, mute, closing, next_has_handler, opens>>
payloads == <<recieved_auto_RTL, mission_points, sentMessages, ignored>>
vars == <<thread, telem, upload, shown, requests, m_message_handler, conns, payloads>>

NoId == [id |-> -1, mission |-> 0]

Init ==
  /\ pc = "listen" /\ cmd = 1 /\ msgs = 0 /\ left = {} /\ i = 0
  /\ current_mission_id = 0 /\ currentMission = 0
  /\ flag = [k \in Commands |-> k = DOWNLOAD]
  /\ recieved_auto_RTL = FALSE /\ mission_points = <<>>
  /\ accepted = {} /\ connections = {} /\ mute = {} /\ closing = {}
  /\ m_message_handler = FALSE /\ next_has_handler = FALSE
  /\ seen = [c \in Clients |-> NoId]
  /\ sentMessages = 0 /\ opens = 0
  /\ announced = 0 /\ sent = <<>> /\ edited = FALSE
  /\ credit = [k \in Commands |-> IF k = DOWNLOAD THEN 1 ELSE 0]
  /\ overtaken = [k \in Commands |-> [j \in Commands |-> 0]]
  /\ untold = FALSE /\ skipped = {} /\ ignored = FALSE
-----------------------------------------------------------------------------
(* Startup: the socket listens and the first connection object, with the   *)
(* handlers of that moment, waits in accept; the WebSocket thread starts;  *)
(* only then is the message handler set.                                   *)

start_accept ==
  /\ pc = "listen" /\ pc' = "spawn"
  /\ next_has_handler' = m_message_handler
  /\ UNCHANGED <<cmd, telem, upload, shown, requests, m_message_handler, payloads>>
  /\ UNCHANGED <<accepted, connections, mute, closing, opens>>

SpawnThread ==
  /\ pc = "spawn" /\ pc' = "set_handler"
  /\ UNCHANGED <<cmd, telem, upload, shown, requests, m_message_handler, conns, payloads>>

set_message_handler ==
  /\ pc = "set_handler" /\ pc' = "recv"
  /\ m_message_handler' = TRUE
  /\ UNCHANGED <<cmd, telem, upload, shown, requests, conns, payloads>>
-----------------------------------------------------------------------------
(* The main loop: telemetry.  A datagram is parsed byte by byte; every     *)
(* complete message is processed and broadcast before parsing goes on.  A  *)
(* datagram may complete no message, and recvfrom may fail: then the loop  *)
(* goes on to the commands with nobody told anything.                      *)

recvfrom ==
  /\ pc = "recv" /\ pc' = "parse"
  /\ msgs' \in BatchSizes
  /\ UNCHANGED <<cmd, left, told, upload, shown, requests, m_message_handler, conns, payloads>>

MoreMessages_OneMore == msgs >= 0
MoreMessages == msgs > 0

NextMessage == msgs - 1

(* A heartbeat in loiter mode is answered with the RTL mode, if autoRTL was*)
(* requested; other messages only update the latest telemetry.             *)
process_mavlink_message ==
  /\ pc = "parse" /\ MoreMessages
  /\ msgs' = NextMessage
  /\ \E loiter \in BOOLEAN :
       pc' = IF loiter /\ recieved_auto_RTL THEN "set_mode_rtl" ELSE "to_json"
  /\ UNCHANGED <<cmd, left, told, upload, shown, requests, m_message_handler, conns, payloads>>

(* Sending a datagram to the vehicle changes nothing but the position. *)
Sends(at, next) ==
  /\ pc = at /\ pc' = next
  /\ UNCHANGED <<cmd, telem, upload, shown, requests, m_message_handler, conns, payloads>>

set_mode_rtl == Sends("set_mode_rtl", "to_json")

(* What the page is told: besides the telemetry, the number and the mission *)
(* of the last download.                                                   *)
all_data_to_json == [id |-> current_mission_id, mission |-> currentMission]

broadcast_data ==
  /\ pc = "to_json" /\ pc' = "broadcast"
  /\ left' = connections
  /\ UNCHANGED <<cmd, msgs, told, upload, shown, requests, m_message_handler, conns, payloads>>

(* One iteration of the broadcast loop.  Sending to a connection that the  *)
(* client closed may throw; the exception is caught inside the loop.       *)
SendTo(c) ==
  /\ pc = "broadcast" /\ c \in left
  /\ left' = left \ {c}
  /\ seen' = [seen EXCEPT ![c] = all_data_to_json]
  /\ skipped' = skipped \ {c}
  /\ UNCHANGED <<thread, msgs, untold, upload, shown, requests, m_message_handler, conns, payloads>>

SendThrows_EndsLoop(c) ==
  /\ pc = "broadcast" /\ c \in left \intersect closing
  /\ left' = {}
  /\ UNCHANGED <<thread, msgs, told, upload, shown, requests, m_message_handler, conns, payloads>>

SendThrows(c) ==
  /\ pc = "broadcast" /\ c \in left \intersect closing
  /\ left' = left \ {c}
  /\ UNCHANGED <<thread, msgs, told, upload, shown, requests, m_message_handler, conns, payloads>>

EndBroadcast ==
  /\ pc = "broadcast" /\ left = {} /\ pc' = "parse"
  /\ untold' = FALSE
  /\ UNCHANGED <<cmd, msgs, left, seen, skipped, upload, shown, requests, m_message_handler, conns, payloads>>

EndOfDatagram ==
  /\ pc = "parse" /\ ~MoreMessages
  /\ pc' = "test" /\ cmd' = 1
  /\ UNCHANGED <<telem, upload, shown, requests, m_message_handler, conns, payloads>>

Telemetry ==
  \/ recvfrom \/ process_mavlink_message \/ set_mode_rtl \/ broadcast_data
  \/ (\E c \in Clients : SendTo(c) \/ SendThrows(c))
  \/ EndBroadcast \/ EndOfDatagram
-----------------------------------------------------------------------------
(* The main loop: commands.  Each flag is tested in turn; the command is   *)
(* executed and its flag cleared after the execution.                      *)

First(k) ==
  CASE k = UPLOAD -> "clear" [] k = FLY -> "mode" [] k = RTL -> "rtl"
    [] k = PARAM -> "param" [] k = DOWNLOAD -> "download"

Execute(k) ==
  /\ pc = "test" /\ cmd = k /\ flag[k]
  /\ pc' = First(k)
  /\ credit' = [credit EXCEPT ![k] = @ - 1]
  /\ overtaken' = [w \in Commands |->
       IF w = k THEN [j \in Commands |-> 0]
       ELSE IF flag[w] THEN [overtaken[w] EXCEPT ![k] = @ + 1] ELSE overtaken[w]]
  /\ UNCHANGED <<cmd, telem, upload, shown, flag, m_message_handler, conns, payloads>>

Skip(k) ==
  /\ pc = "test" /\ cmd = k /\ ~flag[k]
  /\ cmd' = k + 1
  /\ UNCHANGED <<pc, telem, upload, shown, requests, m_message_handler, conns, payloads>>

(* upload_mission: clear, count, then the items, each read from            *)
(* mission_points when its turn comes.                                     *)

send_mission_clear_all == Sends("clear", "count")

send_mission_count ==
  /\ pc = "count" /\ pc' = "items"
  /\ announced' = Len(mission_points) % UINT16
  /\ i' = 0 /\ sent' = <<>> /\ edited' = FALSE
  /\ UNCHANGED <<cmd, telem, shown, requests, m_message_handler, conns, payloads>>

MoreItems_ButLast == i + 1 < Len(mission_points)
MoreItems == i < Len(mission_points)

ItemLoop_WaitsForPoints ==
  /\ pc = "items"
  /\ pc' = IF MoreItems THEN "send" ELSE IF i < announced THEN "items" ELSE "reset"
  /\ UNCHANGED <<cmd, telem, upload, shown, requests, m_message_handler, conns, payloads>>

ItemLoop ==
  /\ pc = "items"
  /\ pc' = IF MoreItems THEN "send" ELSE "reset"
  /\ UNCHANGED <<cmd, telem, upload, shown, requests, m_message_handler, conns, payloads>>

(* The list may have been cleared since the loop tested the index.         *)
send_mission_item ==
  /\ pc = "send" /\ pc' = "items"
  /\ \E p \in IF i < Len(mission_points) THEN {mission_points[i + 1]}
                                         ELSE Points \union {Garbage} :
       sent' = Append(sent, p)
  /\ i' = i + 1
  /\ UNCHANGED <<announced, edited>>
  /\ UNCHANGED <<cmd, telem, shown, requests, m_message_handler, conns, payloads>>

upload_mission ==
  send_mission_clear_all \/ send_mission_count \/ ItemLoop \/ send_mission_item

(* fly_command sends three commands with pauses between them; the RTL      *)
(* command and the parameter are one datagram each.                        *)

send_set_mode_command      == Sends("mode", "arm")
send_arm_command           == Sends("arm", "start")
send_mission_start_command == Sends("start", "reset")

fly_command == send_set_mode_command \/ send_arm_command \/ send_mission_start_command
send_rtl_command == Sends("rtl", "reset")
setParameter == Sends("param", "reset")

(* A download replaces the mission only if it succeeds; it ends after      *)
(* success, failure and exception alike (see MissionDownload).             *)
downloadMission ==
  /\ pc = "download" /\ pc' = "reset"
  /\ currentMission' \in {currentMission, current_mission_id + 1}
  /\ untold' = TRUE
  /\ skipped' = IF untold THEN Clients ELSE skipped
  /\ UNCHANGED <<cmd, msgs, left, seen, upload, current_mission_id, requests>>
  /\ UNCHANGED <<m_message_handler, conns, payloads>>

ClearFlag_Never(k) == flag
ClearFlag_All(k) == [w \in Commands |-> FALSE]
ClearFlag(k) == [flag EXCEPT ![k] = FALSE]

NextMissionId_Same == current_mission_id
NextMissionId == current_mission_id + 1

NextTest_FromTheTop == 1
NextTest == cmd + 1

(* The end of an execution; every download counts in current_mission_id.   *)
Reset ==
  /\ pc = "reset" /\ pc' = "test" /\ cmd' = NextTest
  /\ flag' = ClearFlag(cmd)
  /\ current_mission_id' = IF cmd = DOWNLOAD THEN NextMissionId ELSE current_mission_id
  /\ credit' = [credit EXCEPT ![cmd] = 0]   \* a request meanwhile is lost
  /\ UNCHANGED <<telem, upload, currentMission, overtaken>>
  /\ UNCHANGED <<m_message_handler, conns, payloads>>

send_heartbeat ==
  /\ pc = "test" /\ cmd = 6
  /\ pc' = "recv" /\ cmd' = 1
  /\ UNCHANGED <<telem, upload, shown, requests, m_message_handler, conns, payloads>>

CommandLoop ==
  \/ (\E k \in Commands : Execute(k) \/ Skip(k))
  \/ upload_mission \/ fly_command \/ send_rtl_command \/ setParameter \/ downloadMission
  \/ Reset \/ send_heartbeat

Main == start_accept \/ SpawnThread \/ set_message_handler \/ Telemetry \/ CommandLoop
-----------------------------------------------------------------------------
(* The WebSocket thread.  std::set is not safe against a concurrent        *)
(* change: opening a connection while the main thread iterates leaves the  *)
(* loop any rest of the set to visit; closing one may also crash the       *)
(* process (the iterator is on the erased node).                           *)

Running == pc \notin {"listen", "spawn", "crashed"}

Iterating == pc = "broadcast"

(* Accepting hands the waiting connection to the client and prepares the   *)
(* next one with the handlers of this moment.                              *)
Accept(c) ==
  /\ Running /\ opens < MaxOpens /\ c \notin connections \union accepted
  /\ opens' = opens + 1
  /\ accepted' = accepted \union {c}
  /\ mute' = IF next_has_handler THEN mute \ {c} ELSE mute \union {c}
  /\ next_has_handler' = m_message_handler
  /\ UNCHANGED <<thread, telem, upload, shown, requests, m_message_handler, payloads>>
  /\ UNCHANGED <<connections, closing>>

(* The open handler runs after the handshake.                              *)
OnOpen(c) ==
  /\ Running /\ c \in accepted
  /\ accepted' = accepted \ {c}
  /\ connections' = connections \union {c}
  /\ seen' = [seen EXCEPT ![c] = NoId]
  /\ IF Iterating THEN skipped' = Clients /\ left' \in SUBSET connections'
                  ELSE UNCHANGED <<skipped, left>>
  /\ UNCHANGED <<thread, msgs, untold, upload, shown, requests, m_message_handler, payloads>>
  /\ UNCHANGED <<mute, closing, next_has_handler, opens>>

ClientCloses(c) ==
  /\ Running /\ c \in connections \ closing
  /\ closing' = closing \union {c}
  /\ UNCHANGED <<accepted, connections, mute, next_has_handler, opens>>
  /\ UNCHANGED <<thread, telem, upload, shown, requests, m_message_handler, payloads>>

OnClose(c) ==
  /\ Running /\ c \in closing
  /\ connections' = connections \ {c}
  /\ closing' = closing \ {c}
  /\ IF Iterating
     THEN /\ skipped' = Clients /\ left' \in SUBSET connections'
          /\ pc' \in {pc, "crashed"}
     ELSE UNCHANGED <<skipped, left, pc>>
  /\ UNCHANGED <<cmd, msgs, seen, untold, upload, shown, requests, m_message_handler>>
  /\ UNCHANGED <<accepted, mute, next_has_handler, opens, payloads>>

(* A payload arrives; a connection without a handler drops it.             *)
Handle(c, p) ==
  /\ Running /\ p \in Payloads /\ sentMessages < MaxMessages
  /\ c \in connections \ closing /\ c \notin mute
  /\ sentMessages' = sentMessages + 1
  /\ UNCHANGED <<thread, telem, shown, m_message_handler, conns, ignored>>

OnIgnored(c) ==
  /\ Running /\ sentMessages < MaxMessages
  /\ c \in (connections \ closing) \intersect mute
  /\ sentMessages' = sentMessages + 1
  /\ ignored' = TRUE
  /\ UNCHANGED <<thread, telem, upload, shown, requests, m_message_handler, conns>>
  /\ UNCHANGED <<recieved_auto_RTL, mission_points>>

CommandOf(p) ==
  CASE p = "uploadMission" -> UPLOAD [] p = "fly" -> FLY [] p = "RTL" -> RTL
    [] p = "param" -> PARAM [] p = "getMission" -> DOWNLOAD

Requested(k) ==
  /\ flag' = [flag EXCEPT ![k] = TRUE]
  /\ credit' = [credit EXCEPT ![k] = @ + 1]

OnCommand(c) == \E p \in CommandPayloads :
  /\ Handle(c, p)
  /\ Requested(CommandOf(p))
  /\ UNCHANGED <<upload, overtaken, recieved_auto_RTL, mission_points>>

OnClear(c) == \E p \in ClearPayloads :
  /\ Handle(c, p)
  /\ mission_points' = <<>> /\ edited' = TRUE
  /\ UNCHANGED <<i, announced, sent, requests, recieved_auto_RTL>>

OnWaypoint(c) == \E p \in Points :
  /\ Handle(c, "waypoint")
  /\ mission_points' = Append(mission_points, p) /\ edited' = TRUE
  /\ UNCHANGED <<i, announced, sent, requests, recieved_auto_RTL>>

OnAutoRTL(c) ==
  /\ Handle(c, "autoRTL")
  /\ recieved_auto_RTL' = TRUE
  /\ UNCHANGED <<upload, requests, mission_points>>

WebSocketThread == \E c \in Clients :
  \/ Accept(c) \/ OnOpen(c) \/ ClientCloses(c) \/ OnClose(c) \/ OnIgnored(c)
  \/ OnCommand(c) \/ OnClear(c) \/ OnWaypoint(c) \/ OnAutoRTL(c)

(* A crashed process does nothing more. *)
Crashed == pc = "crashed" /\ UNCHANGED vars

Next == Main \/ WebSocketThread \/ Crashed

Spec == Init /\ [][Next]_vars

(* Fairness: the main thread is scheduled, datagrams keep arriving (the    *)
(* autopilot sends telemetry all the time) and a download ends.            *)
FairSpec == Spec /\ WF_vars(Main)
-----------------------------------------------------------------------------
UploadSteps == {"clear", "count", "items", "send"}
CommandSteps == UploadSteps \union {"mode", "arm", "start", "rtl", "param", "download", "reset"}
LoopSteps == {"recv", "parse", "set_mode_rtl", "to_json", "broadcast"}
Steps == {"listen", "spawn", "set_handler", "test", "crashed"} \union LoopSteps \union CommandSteps

Executing(k) == pc \in CommandSteps /\ cmd = k

(* The variables hold values of their types; the loops stay within bounds. *)
TypeOK ==
  /\ pc \in Steps /\ cmd \in 1..6
  /\ msgs \in Nat /\ left \subseteq connections /\ i \in Nat
  /\ current_mission_id \in Nat /\ currentMission \in 0..(current_mission_id + 1)
  /\ flag \in [Commands -> BOOLEAN]
  /\ recieved_auto_RTL \in BOOLEAN /\ m_message_handler \in BOOLEAN
  /\ mission_points \in Seq(Points)
  /\ accepted \subseteq Clients /\ connections \subseteq Clients \ accepted
  /\ mute \subseteq Clients /\ closing \subseteq connections
  /\ next_has_handler \in BOOLEAN
  /\ seen \in [Clients -> [id : Int, mission : Nat]]
  /\ sentMessages \in 0..MaxMessages /\ opens \in 0..MaxOpens
  /\ announced \in 0..(UINT16 - 1) /\ sent \in Seq(Points \union {Garbage})
  /\ edited \in BOOLEAN /\ ignored \in BOOLEAN
  /\ untold \in BOOLEAN /\ skipped \subseteq Clients
  /\ credit \in [Commands -> Int]
  /\ overtaken \in [Commands -> [Commands -> Nat]]

(* No request is executed twice: an execution starts only on a request     *)
(* received since the command's flag was last cleared (a mission download  *)
(* at startup counts as requested).                                        *)
NoPhantomCommand == \A k \in Commands : credit[k] >= 0

(* Bounded waiting: whatever clients go on requesting, no other command is *)
(* started twice while a command waits.                                    *)
BoundedOvertaking == \A k, j \in Commands : flag[k] => overtaken[k][j] <= 1

(* When no client edits the list during an upload, the vehicle is sent as  *)
(* many items as were announced, and they are the mission of the page.     *)
QuietUploadIsExact ==
  pc = "reset" /\ cmd = UPLOAD /\ ~edited /\ Len(mission_points) < UINT16 =>
    announced = Len(sent) /\ sent = mission_points

(* A client that shows mission n is next told n or n + 1: the page         *)
(* recognises the mission it asked for by the number following the last.   *)
(* Excepted until they are told the mission again: a client that is        *)
(* closing; those that a broadcast may have left behind, because the       *)
(* connections changed during it; and all of them when a download followed *)
(* another and no message was broadcast between the two, which the main    *)
(* loop allows (a datagram may complete no message).                       *)
NoSkippedId == [][\A c \in Clients :
  seen[c] # NoId /\ seen'[c] # NoId /\ c \notin skipped \union closing =>
    seen'[c].id - seen[c].id \in {0, 1}]_vars

(* The mission shown under a number never changes silently: a client that  *)
(* fetched it need not fetch it again.                                     *)
NoSilentChange == [][\A c \in Clients :
  seen'[c].id = seen[c].id => seen'[c].mission = seen[c].mission]_vars

(* A request that does not arrive during the execution of its own command  *)
(* is executed, unless the process crashes.                                *)
CommandServed == \A k \in Commands :
  flag[k] /\ ~Executing(k) ~> Executing(k) \/ pc = "crashed"

(* The backend keeps the promise to its pages (MissionBoard): only clients *)
(* that are gone, closing or skipped (left behind by a disturbed broadcast *)
(* or by two downloads with no message between them) may miss a number.    *)
(* The number of a download counts from its end, although main increments  *)
(* it later.                                                               *)
Published == pc = "reset" /\ cmd = DOWNLOAD

Pages == INSTANCE MissionBoard WITH
  Missions  <- Nat,
  NoMission <- 0,
  number    <- current_mission_id + (IF Published THEN 1 ELSE 0),
  mission   <- currentMission,
  lost      <- (Clients \ connections) \union closing \union skipped

PromiseKept == Pages!Spec

(* An upload ends although its loop reads the length of a list that the    *)
(* clients edit meanwhile: unless they append points for ever, the main    *)
(* loop comes back to its telemetry and its heartbeats.                    *)
UploadEnds ==
  <>[][Len(mission_points') <= Len(mission_points)]_vars =>
    (Executing(UPLOAD) ~> ~Executing(UPLOAD))

(* MAVLink: MISSION_COUNT carries the number of items in the sequence.     *)
CountMatchesItems == pc = "reset" /\ cmd = UPLOAD => announced = Len(sent)

(* websocketpp: the message handler is called after a new message has been *)
(* received.                                                               *)
EveryPayloadHandled == ~ignored
=============================================================================
