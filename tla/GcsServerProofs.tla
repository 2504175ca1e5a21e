--------------------------- MODULE GcsServerProofs ---------------------------
(***************************************************************************)
(* Machine-checked proofs about GcsServer, for any number of clients and   *)
(* connections, any payloads in any order, and any telemetry.              *)
(***************************************************************************)
EXTENDS GcsServer, TLAPS

(* Where the command index may be: a command is being executed only at its *)
(* own index, and every iteration of the main loop starts from the first.  *)
IndexInv ==
  /\ pc \in CommandSteps => cmd \in Commands
  /\ pc \notin CommandSteps \union {"test", "crashed"} => cmd = 1
  /\ pc \notin {"broadcast", "crashed"} => left = {}

TypeInv == TypeOK /\ IndexInv

LEMMA TypeInit == Init => TypeInv
<1>. SUFFICES ASSUME Init PROVE TypeInv
  OBVIOUS
<1>1. credit \in [Commands -> Int] /\ flag \in [Commands -> BOOLEAN]
  BY DEF Init, Commands, DOWNLOAD
<1>2. overtaken \in [Commands -> [Commands -> Nat]]
  BY DEF Init
<1>3. seen \in [Clients -> [id : Int, mission : Nat]]
  BY DEF Init, NoId
<1>4. announced \in 0..(UINT16 - 1) /\ sent \in Seq(Points \union {Garbage})
      /\ mission_points \in Seq(Points)
  BY DEF Init, UINT16
<1>5. sentMessages \in 0..MaxMessages /\ opens \in 0..MaxOpens
  BY BoundAssumption DEF Init
<1>6. /\ pc = "listen" /\ cmd = 1 /\ msgs = 0 /\ left = {} /\ i = 0
      /\ current_mission_id = 0 /\ currentMission = 0
      /\ accepted = {} /\ connections = {} /\ mute = {} /\ closing = {}
      /\ recieved_auto_RTL = FALSE /\ m_message_handler = FALSE /\ next_has_handler = FALSE
      /\ edited = FALSE /\ untold = FALSE /\ skipped = {} /\ ignored = FALSE
  BY DEF Init
<1>7. IndexInv /\ pc \in Steps /\ cmd \in 1..6
  BY <1>6 DEF IndexInv, Steps, CommandSteps, UploadSteps, LoopSteps
<1>8. /\ msgs \in Nat /\ left \subseteq connections /\ i \in Nat
      /\ accepted \subseteq Clients /\ connections \subseteq Clients \ accepted
      /\ mute \subseteq Clients /\ closing \subseteq connections
  BY <1>6
<1>9. current_mission_id \in Nat /\ currentMission \in 0..(current_mission_id + 1)
  BY <1>6
<1>10. /\ recieved_auto_RTL \in BOOLEAN /\ m_message_handler \in BOOLEAN
       /\ next_has_handler \in BOOLEAN /\ edited \in BOOLEAN /\ skipped \subseteq Clients
       /\ untold \in BOOLEAN /\ ignored \in BOOLEAN
  BY <1>6
<1>. QED  BY <1>1, <1>2, <1>3, <1>4, <1>5, <1>7, <1>8, <1>9, <1>10 DEF TypeInv, TypeOK

LEMMA ModRange == \A n \in Nat : n % UINT16 \in 0..(UINT16 - 1)
<1>1. \A n, m \in Nat : m > 0 => n % m \in 0..(m - 1)
  OBVIOUS
<1>2. UINT16 \in Nat /\ UINT16 > 0
  BY DEF UINT16
<1>. QED  BY <1>1, <1>2

(* The steps of startup and telemetry. *)
LEMMA TelemetryTypes ==
  ASSUME TypeInv, start_accept \/ SpawnThread \/ set_message_handler \/ Telemetry
  PROVE  TypeInv'
<1>. USE DEF TypeInv, TypeOK, IndexInv, thread, telem, told, upload, shown, requests, conns, payloads,
             Steps, CommandSteps, UploadSteps, LoopSteps
<1>1. CASE start_accept
  BY <1>1 DEF start_accept
<1>2. CASE SpawnThread
  BY <1>2 DEF SpawnThread
<1>3. CASE set_message_handler
  BY <1>3 DEF set_message_handler
<1>4. CASE recvfrom
  BY <1>4, BatchAssumption DEF recvfrom
<1>5. CASE process_mavlink_message
  <2>1. msgs' \in Nat
    BY <1>5 DEF process_mavlink_message, MoreMessages, NextMessage
  <2>2. pc' \in {"set_mode_rtl", "to_json"}
    BY <1>5, Zenon DEF process_mavlink_message
  <2>. QED  BY <1>5, <2>1, <2>2 DEF process_mavlink_message
<1>6. CASE set_mode_rtl
  BY <1>6 DEF set_mode_rtl, Sends
<1>7. CASE broadcast_data
  BY <1>7 DEF broadcast_data
<1>8. CASE \E c \in Clients : SendTo(c) \/ SendThrows(c)
  <2>1. PICK c \in Clients : SendTo(c) \/ SendThrows(c)
    BY <1>8
  <2>2. seen' \in [Clients -> [id : Int, mission : Nat]]
    <3>1. [id |-> current_mission_id, mission |-> currentMission] \in [id : Int, mission : Nat]
      OBVIOUS
    <3>. QED  BY <2>1, <3>1 DEF SendTo, SendThrows, all_data_to_json
  <2>. QED  BY <2>1, <2>2 DEF SendTo, SendThrows
<1>9. CASE EndBroadcast
  BY <1>9 DEF EndBroadcast
<1>10. CASE EndOfDatagram
  BY <1>10 DEF EndOfDatagram
<1>. QED  BY <1>1, <1>2, <1>3, <1>4, <1>5, <1>6, <1>7, <1>8, <1>9, <1>10 DEF Telemetry

(* The steps of the commands. *)
LEMMA CommandTypes ==
  ASSUME TypeInv, CommandLoop
  PROVE  TypeInv'
<1>. USE DEF TypeInv, TypeOK, IndexInv, thread, telem, told, upload, shown, requests, conns, payloads,
             Steps, CommandSteps, UploadSteps, LoopSteps
<1>1. ASSUME NEW k \in Commands, Execute(k) PROVE TypeInv'
  <2>1. pc' \in CommandSteps
    BY <1>1 DEF Execute, First, Commands, UPLOAD, FLY, RTL, PARAM, DOWNLOAD
  <2>2. credit' \in [Commands -> Int]
    BY <1>1 DEF Execute
  <2>3. overtaken' \in [Commands -> [Commands -> Nat]]
    <3>1. ASSUME NEW w \in Commands PROVE overtaken'[w] \in [Commands -> Nat]
      BY <1>1 DEF Execute
    <3>. QED  BY <1>1, <3>1 DEF Execute
  <2>4. /\ pc = "test" /\ cmd = k
        /\ UNCHANGED <<cmd, telem, upload, shown, flag, m_message_handler, conns, payloads>>
    BY <1>1 DEF Execute
  <2>. QED  BY <2>1, <2>2, <2>3, <2>4
<1>2. ASSUME NEW k \in Commands, Skip(k) PROVE TypeInv'
  <2>1. cmd' \in 1..6
    BY <1>2 DEF Skip, Commands
  <2>2. /\ pc = "test" /\ pc' = pc
        /\ UNCHANGED <<telem, upload, shown, requests, m_message_handler, conns, payloads>>
    BY <1>2 DEF Skip
  <2>. QED  BY <2>1, <2>2
<1>3. CASE send_mission_clear_all
  BY <1>3 DEF send_mission_clear_all, Sends
<1>4. CASE send_mission_count
  <2>1. announced' \in 0..(UINT16 - 1)
    <3>1. Len(mission_points) \in Nat
      OBVIOUS
    <3>. QED  BY <1>4, <3>1, ModRange DEF send_mission_count
  <2>2. sent' \in Seq(Points \union {Garbage})
    BY <1>4 DEF send_mission_count
  <2>. QED  BY <1>4, <2>1, <2>2 DEF send_mission_count
<1>5. CASE ItemLoop
  BY <1>5 DEF ItemLoop
<1>6. CASE send_mission_item
  <2>1. PICK p \in IF i < Len(mission_points) THEN {mission_points[i + 1]}
                                             ELSE Points \union {Garbage} :
          sent' = Append(sent, p)
    BY <1>6 DEF send_mission_item
  <2>2. i < Len(mission_points) => mission_points[i + 1] \in Points
    OBVIOUS
  <2>3. p \in Points \union {Garbage}
    BY <2>1, <2>2
  <2>4. sent' \in Seq(Points \union {Garbage})
    BY <2>1, <2>3
  <2>. QED  BY <1>6, <2>4 DEF send_mission_item
<1>7. CASE fly_command \/ send_rtl_command \/ setParameter
  BY <1>7 DEF fly_command, send_set_mode_command, send_arm_command,
      send_mission_start_command, send_rtl_command, setParameter, Sends
<1>8. CASE downloadMission
  BY <1>8 DEF downloadMission
<1>9. CASE Reset
  <2>1. cmd' \in 1..6
    BY <1>9 DEF Reset, NextTest, Commands
  <2>2. flag' \in [Commands -> BOOLEAN] /\ credit' \in [Commands -> Int]
    BY <1>9 DEF Reset, ClearFlag
  <2>3. current_mission_id' \in {current_mission_id, current_mission_id + 1}
    BY <1>9 DEF Reset, NextMissionId
  <2>. QED  BY <1>9, <2>1, <2>2, <2>3 DEF Reset
<1>10. CASE send_heartbeat
  BY <1>10 DEF send_heartbeat
<1>. QED  BY <1>1, <1>2, <1>3, <1>4, <1>5, <1>6, <1>7, <1>8, <1>9, <1>10
          DEF CommandLoop, upload_mission

LEMMA CommandOfType == \A p \in CommandPayloads : CommandOf(p) \in Commands
BY DEF CommandPayloads, CommandOf, Commands, UPLOAD, FLY, RTL, PARAM, DOWNLOAD

(* The steps of the WebSocket thread. *)
LEMMA WebSocketTypes ==
  ASSUME TypeInv, WebSocketThread
  PROVE  TypeInv'
<1>. USE DEF TypeInv, TypeOK, IndexInv, thread, telem, told, upload, shown, requests, conns, payloads
<1>0. PICK c \in Clients :
        \/ Accept(c) \/ OnOpen(c) \/ ClientCloses(c) \/ OnClose(c) \/ OnIgnored(c)
        \/ OnCommand(c) \/ OnClear(c) \/ OnWaypoint(c) \/ OnAutoRTL(c)
  BY DEF WebSocketThread
<1>1. CASE OnOpen(c)
  <2>1. /\ accepted' \subseteq Clients /\ connections' \subseteq Clients \ accepted'
        /\ closing' \subseteq connections'
        /\ UNCHANGED <<mute, next_has_handler, opens, untold>>
    BY <1>1 DEF OnOpen
  <2>2. left' \subseteq connections' /\ skipped' \subseteq Clients
        /\ (pc # "broadcast" => left' = left)
    BY <1>1 DEF OnOpen, Iterating
  <2>3. seen' \in [Clients -> [id : Int, mission : Nat]]
    BY <1>1 DEF OnOpen, NoId
  <2>4. /\ pc # "crashed" /\ UNCHANGED <<thread, msgs, upload, shown, requests>>
        /\ UNCHANGED <<m_message_handler, payloads>>
    BY <1>1 DEF OnOpen, Running
  <2>. QED  BY <2>1, <2>2, <2>3, <2>4
<1>2. CASE ClientCloses(c)
  BY <1>2 DEF ClientCloses
<1>3. CASE OnClose(c)
  <2>1. connections' \subseteq Clients \ accepted /\ closing' \subseteq connections'
    BY <1>3 DEF OnClose
  <2>2. \/ skipped' = Clients /\ left' \subseteq connections' /\ pc = "broadcast"
           /\ pc' \in {pc, "crashed"}
        \/ UNCHANGED <<skipped, left, pc>> /\ pc # "broadcast"
    BY <1>3 DEF OnClose, Iterating
  <2>3. /\ UNCHANGED <<cmd, msgs, seen, untold, upload, shown, requests, m_message_handler>>
        /\ UNCHANGED <<accepted, mute, next_has_handler, opens, payloads>>
    BY <1>3 DEF OnClose
  <2>4. CASE UNCHANGED <<skipped, left, pc>> /\ pc # "broadcast"
    <3>1. left = {} /\ left' = {}
      BY <1>3, <2>4 DEF OnClose, Running
    <3>. QED  BY <2>1, <2>3, <2>4, <3>1
  <2>5. CASE /\ skipped' = Clients /\ left' \subseteq connections' /\ pc = "broadcast"
             /\ pc' \in {pc, "crashed"}
    <3>1. /\ pc' \in Steps /\ pc' \notin CommandSteps /\ pc' \in {"broadcast", "crashed"}
          /\ cmd = 1
      BY <2>5 DEF Steps, CommandSteps, UploadSteps, LoopSteps
    <3>. QED  BY <2>1, <2>3, <2>5, <3>1
  <2>. QED  BY <2>2, <2>4, <2>5
<1>4. CASE OnIgnored(c)
  BY <1>4, BoundAssumption DEF OnIgnored
<1>5. CASE OnCommand(c)
  <2>1. PICK p \in CommandPayloads : Handle(c, p) /\ Requested(CommandOf(p))
    BY <1>5 DEF OnCommand
  <2>2. flag' \in [Commands -> BOOLEAN] /\ credit' \in [Commands -> Int]
    BY <2>1, CommandOfType DEF Requested
  <2>3. sentMessages' \in 0..MaxMessages
    BY <2>1, BoundAssumption DEF Handle
  <2>4. UNCHANGED <<upload, overtaken, recieved_auto_RTL, mission_points>>
    BY <1>5 DEF OnCommand
  <2>. QED  BY <2>1, <2>2, <2>3, <2>4 DEF Handle
<1>6. CASE OnClear(c)
  BY <1>6, BoundAssumption DEF OnClear, Handle
<1>7. CASE OnWaypoint(c)
  BY <1>7, BoundAssumption DEF OnWaypoint, Handle
<1>8. CASE OnAutoRTL(c)
  BY <1>8, BoundAssumption DEF OnAutoRTL, Handle
<1>9. CASE Accept(c)
  <2>1. /\ accepted' \subseteq Clients /\ connections \subseteq Clients \ accepted'
        /\ mute' \subseteq Clients /\ opens' \in 0..MaxOpens /\ next_has_handler' \in BOOLEAN
    BY <1>9, BoundAssumption DEF Accept
  <2>. QED  BY <1>9, <2>1 DEF Accept
<1>. QED  BY <1>0, <1>1, <1>2, <1>3, <1>4, <1>5, <1>6, <1>7, <1>8, <1>9

LEMMA TypeStep == TypeInv /\ [Next]_vars => TypeInv'
<1>1. ASSUME TypeInv, UNCHANGED vars PROVE TypeInv'
  BY <1>1 DEF TypeInv, TypeOK, IndexInv, vars, thread, telem, told, upload, shown, requests,
              conns, payloads
<1>. QED  BY <1>1, TelemetryTypes, CommandTypes, WebSocketTypes DEF Next, Main, Crashed

(* The globals, the loops and the history stay within their types under    *)
(* every interleaving of the two threads.                                  *)
THEOREM TypeCorrect == Spec => []TypeOK
<1>1. Spec => []TypeInv
  BY TypeInit, TypeStep, PTL DEF Spec
<1>2. TypeInv => TypeOK
  BY DEF TypeInv
<1>. QED  BY <1>1, <1>2, PTL
-----------------------------------------------------------------------------
(* No execution without a request. *)

(* A raised flag stands for a request, except while it is being served. *)
RequestInv == \A k \in Commands :
  /\ credit[k] >= 0
  /\ flag[k] /\ ~Executing(k) => credit[k] >= 1

(* Which steps start or end the execution of a command. *)
LEMMA ExecutingChange ==
  ASSUME TypeInv, [Next]_vars
  PROVE  \/ \E k \in Commands : Execute(k)
         \/ Reset
         \/ /\ \A k \in Commands : Executing(k)' = Executing(k)
            /\ UNCHANGED requests \/ \E c \in Clients : OnCommand(c)
<1>. USE DEF Executing, CommandSteps, UploadSteps
<1>1. CASE start_accept \/ SpawnThread \/ set_message_handler
  BY <1>1 DEF start_accept, SpawnThread, set_message_handler, requests
<1>2. CASE Telemetry
  BY <1>2
  DEF Telemetry, recvfrom, process_mavlink_message, set_mode_rtl, Sends, broadcast_data,
      SendTo, SendThrows, EndBroadcast, EndOfDatagram, requests, thread
<1>3. CASE upload_mission \/ fly_command \/ send_rtl_command \/ setParameter
           \/ downloadMission \/ send_heartbeat \/ \E k \in Commands : Skip(k)
  BY <1>3
  DEF upload_mission, send_mission_clear_all, send_mission_count, ItemLoop, send_mission_item,
      fly_command, send_set_mode_command, send_arm_command, send_mission_start_command,
      send_rtl_command, setParameter, downloadMission, send_heartbeat, Skip, Sends, requests
<1>4. CASE WebSocketThread
  <2>1. PICK c \in Clients :
          \/ Accept(c) \/ OnOpen(c) \/ ClientCloses(c) \/ OnClose(c) \/ OnIgnored(c)
          \/ OnCommand(c) \/ OnClear(c) \/ OnWaypoint(c) \/ OnAutoRTL(c)
    BY <1>4 DEF WebSocketThread
  <2>2. CASE OnClose(c)
    BY <2>2 DEF OnClose, Iterating, requests
  <2>3. CASE ~OnClose(c)
    <3>1. pc' = pc /\ cmd' = cmd /\ (OnCommand(c) \/ UNCHANGED requests)
      BY <2>1, <2>3
      DEF Accept, OnOpen, ClientCloses, OnIgnored, OnCommand, OnClear, OnWaypoint, OnAutoRTL, Handle,
          thread, requests
    <3>. QED  BY <3>1
  <2>. QED  BY <2>2, <2>3
<1>5. CASE Crashed \/ UNCHANGED vars
  BY <1>5 DEF Crashed, vars, thread, requests
<1>. QED  BY <1>1, <1>2, <1>3, <1>4, <1>5 DEF Next, Main, CommandLoop

LEMMA RequestStep ==
  ASSUME TypeInv, RequestInv, [Next]_vars
  PROVE  RequestInv'
<1>. USE DEF RequestInv
<1>0. /\ credit \in [Commands -> Int] /\ flag \in [Commands -> BOOLEAN]
      /\ pc \in CommandSteps => cmd \in Commands
  BY DEF TypeInv, TypeOK, IndexInv
<1>1. ASSUME NEW k \in Commands, Execute(k) PROVE RequestInv'
  <2>1. /\ flag[k] /\ flag' = flag
        /\ credit' = [credit EXCEPT ![k] = @ - 1]
        /\ pc = "test" /\ pc' = First(k) /\ cmd' = k
    BY <1>1 DEF Execute
  <2>2. ~Executing(k) /\ \A w \in Commands : ~Executing(w)
    BY <2>1 DEF Executing, CommandSteps, UploadSteps
  <2>3. Executing(k)'
    BY <2>1 DEF Executing, First, CommandSteps, UploadSteps, Commands, UPLOAD, FLY, RTL,
                PARAM, DOWNLOAD
  <2>. QED  BY <1>0, <2>1, <2>2, <2>3
<1>2. CASE Reset
  <2>1. /\ flag' = [flag EXCEPT ![cmd] = FALSE] /\ credit' = [credit EXCEPT ![cmd] = 0]
        /\ cmd \in Commands
    BY <1>0, <1>2 DEF Reset, ClearFlag, CommandSteps
  <2>2. \A w \in Commands : w # cmd => ~Executing(w)
    BY DEF Executing
  <2>. QED  BY <1>0, <2>1, <2>2
<1>3. ASSUME NEW c \in Clients, OnCommand(c), \A k \in Commands : Executing(k)' = Executing(k)
      PROVE  RequestInv'
  <2>1. PICK k \in Commands : /\ flag' = [flag EXCEPT ![k] = TRUE]
                              /\ credit' = [credit EXCEPT ![k] = @ + 1]
    BY <1>3, CommandOfType DEF OnCommand, Requested
  <2>. QED  BY <1>0, <1>3, <2>1
<1>4. CASE (\A k \in Commands : Executing(k)' = Executing(k)) /\ UNCHANGED requests
  BY <1>4 DEF requests
<1>. QED  BY <1>1, <1>2, <1>3, <1>4, ExecutingChange

(* Each execution answers a request received since the flag was cleared:   *)
(* no lost update on the shared flags makes a command run a second time.   *)
THEOREM NoPhantomCorrect == Spec => []NoPhantomCommand
<1>1. Init => RequestInv
  <2>. SUFFICES ASSUME Init, NEW k \in Commands
                PROVE  credit[k] >= 0 /\ (flag[k] => credit[k] >= 1)
    BY DEF RequestInv
  <2>1. credit[k] = IF k = DOWNLOAD THEN 1 ELSE 0
    BY DEF Init
  <2>2. flag[k] => k = DOWNLOAD
    BY Zenon DEF Init
  <2>. QED  BY <2>1, <2>2
<1>2. TypeInv /\ RequestInv /\ [Next]_vars => RequestInv'
  BY RequestStep
<1>3. RequestInv => NoPhantomCommand
  BY DEF RequestInv, NoPhantomCommand
<1>. QED  BY <1>1, <1>2, <1>3, TypeInit, TypeStep, PTL DEF Spec
-----------------------------------------------------------------------------
(* Bounded waiting. *)

(* The test of j's flag is over in this iteration of the main loop. *)
Passed(j) == cmd > j \/ (cmd = j /\ pc \in CommandSteps)

(* A waiting command w was overtaken by j only if j has had its turn since *)
(* and w has not: in the same iteration, or j in this one or the previous  *)
(* one when j comes after w.                                               *)
OvertakeInv == \A w \in Commands :
  /\ ~flag[w] \/ Executing(w) => \A j \in Commands : overtaken[w][j] = 0
  /\ flag[w] => \A j \in Commands :
       /\ overtaken[w][j] \in {0, 1}
       /\ overtaken[w][j] = 1 => IF j < w THEN Passed(j) /\ cmd <= w
                                         ELSE j > w /\ (Passed(j) \/ cmd <= w)

(* Which steps move the command index. *)
LEMMA IndexChange ==
  ASSUME TypeInv, [Next]_vars
  PROVE  \/ \E k \in Commands : Execute(k) \/ Skip(k)
         \/ Reset
         \/ send_heartbeat
         \/ /\ cmd' = cmd /\ \A j \in Commands : Passed(j)' = Passed(j)
            /\ \A k \in Commands : Executing(k)' = Executing(k)
            /\ UNCHANGED requests \/ \E c \in Clients : OnCommand(c)
<1>. USE DEF CommandSteps, UploadSteps
<1>1. CASE start_accept \/ SpawnThread \/ set_message_handler
  BY <1>1 DEF start_accept, SpawnThread, set_message_handler, requests, Passed, Executing
<1>2. CASE Telemetry
  <2>1. cmd' = cmd /\ UNCHANGED requests
    BY <1>2
    DEF Telemetry, recvfrom, process_mavlink_message, set_mode_rtl, Sends, broadcast_data,
        SendTo, SendThrows, EndBroadcast, EndOfDatagram, requests, thread, TypeInv, IndexInv
  <2>2. pc \notin CommandSteps /\ pc' \notin CommandSteps
    BY <1>2
    DEF Telemetry, recvfrom, process_mavlink_message, set_mode_rtl, Sends, broadcast_data,
        SendTo, SendThrows, EndBroadcast, EndOfDatagram, thread
  <2>. QED  BY <2>1, <2>2 DEF Passed, Executing
<1>3. CASE upload_mission \/ fly_command \/ send_rtl_command \/ setParameter \/ downloadMission
  <2>1. cmd' = cmd /\ UNCHANGED requests
    BY <1>3
    DEF upload_mission, send_mission_clear_all, send_mission_count, ItemLoop,
        send_mission_item, fly_command, send_set_mode_command, send_arm_command,
        send_mission_start_command, send_rtl_command, setParameter, downloadMission,
        Sends, requests
  <2>2. pc \in CommandSteps /\ pc' \in CommandSteps
    BY <1>3
    DEF upload_mission, send_mission_clear_all, send_mission_count, ItemLoop,
        send_mission_item, fly_command, send_set_mode_command, send_arm_command,
        send_mission_start_command, send_rtl_command, setParameter, downloadMission, Sends
  <2>. QED  BY <2>1, <2>2 DEF Passed, Executing
<1>4. CASE WebSocketThread
  <2>1. PICK c \in Clients :
          \/ Accept(c) \/ OnOpen(c) \/ ClientCloses(c) \/ OnClose(c) \/ OnIgnored(c)
          \/ OnCommand(c) \/ OnClear(c) \/ OnWaypoint(c) \/ OnAutoRTL(c)
    BY <1>4 DEF WebSocketThread
  <2>2. CASE OnClose(c)
    BY <2>2 DEF OnClose, Iterating, requests, Passed, Executing
  <2>3. CASE ~OnClose(c)
    <3>1. pc' = pc /\ cmd' = cmd /\ (OnCommand(c) \/ UNCHANGED requests)
      BY <2>1, <2>3
      DEF Accept, OnOpen, ClientCloses, OnIgnored, OnCommand, OnClear, OnWaypoint, OnAutoRTL, Handle,
          thread, requests
    <3>. QED  BY <3>1 DEF Passed, Executing
  <2>. QED  BY <2>2, <2>3
<1>5. CASE Crashed \/ UNCHANGED vars
  BY <1>5 DEF Crashed, vars, thread, requests, Passed, Executing
<1>. QED  BY <1>1, <1>2, <1>3, <1>4, <1>5 DEF Next, Main, CommandLoop

LEMMA OvertakeStep ==
  ASSUME TypeInv, OvertakeInv, [Next]_vars
  PROVE  OvertakeInv'
<1>0. /\ flag \in [Commands -> BOOLEAN] /\ overtaken \in [Commands -> [Commands -> Nat]]
      /\ cmd \in 1..6
      /\ pc \in CommandSteps => cmd \in Commands
  BY DEF TypeInv, TypeOK, IndexInv
<1>1. ASSUME NEW k \in Commands, Execute(k) PROVE OvertakeInv'
  <2>1. /\ flag[k] /\ flag' = flag /\ cmd = k /\ cmd' = k
        /\ pc = "test" /\ pc' = First(k)
        /\ \A w \in Commands : overtaken'[w] =
             IF w = k THEN [j \in Commands |-> 0]
             ELSE IF flag[w] THEN [overtaken[w] EXCEPT ![k] = @ + 1] ELSE overtaken[w]
    BY <1>1 DEF Execute
  <2>2. pc \notin CommandSteps /\ pc' \in CommandSteps
    BY <2>1 DEF First, CommandSteps, UploadSteps, Commands, UPLOAD, FLY, RTL, PARAM, DOWNLOAD
  <2>3. ASSUME NEW w \in Commands
        PROVE  /\ ~flag'[w] \/ Executing(w)' => \A j \in Commands : overtaken'[w][j] = 0
               /\ flag'[w] => \A j \in Commands :
                    /\ overtaken'[w][j] \in {0, 1}
                    /\ overtaken'[w][j] = 1 =>
                         IF j < w THEN Passed(j)' /\ cmd' <= w
                                  ELSE j > w /\ (Passed(j)' \/ cmd' <= w)
    <3>1. CASE w = k
      <4>1. overtaken'[w] = [j \in Commands |-> 0]
        BY <2>1, <3>1
      <4>. QED  BY <2>1, <3>1, <4>1
    <3>2. CASE w # k /\ ~flag[w]
      <4>1. overtaken'[w] = overtaken[w]
        BY <2>1, <3>2
      <4>. QED  BY <2>1, <3>2, <4>1 DEF OvertakeInv
    <3>3. CASE w # k /\ flag[w]
      <4>1. ~Executing(w)'
        BY <2>1, <3>3 DEF Executing
      <4>2. ASSUME NEW j \in Commands, j # k
            PROVE  /\ overtaken'[w][j] \in {0, 1}
                   /\ overtaken'[w][j] = 1 =>
                        IF j < w THEN Passed(j)' /\ cmd' <= w
                                 ELSE j > w /\ (Passed(j)' \/ cmd' <= w)
        <5>1. overtaken'[w][j] = overtaken[w][j]
          BY <1>0, <2>1, <3>3, <4>2
        <5>2. Passed(j) => Passed(j)'
          BY <2>1, <2>2 DEF Passed
        <5>. QED  BY <2>1, <3>3, <5>1, <5>2 DEF OvertakeInv
      <4>3. /\ overtaken'[w][k] \in {0, 1}
            /\ overtaken'[w][k] = 1 =>
                 IF k < w THEN Passed(k)' /\ cmd' <= w
                          ELSE k > w /\ (Passed(k)' \/ cmd' <= w)
        <5>1. ~Passed(k) /\ Passed(k)'
          BY <2>1, <2>2 DEF Passed, Commands
        <5>2. overtaken[w][k] = 0
          BY <2>1, <3>3, <5>1 DEF OvertakeInv, Commands
        <5>3. overtaken'[w][k] = 1
          <6>1. overtaken'[w] = [overtaken[w] EXCEPT ![k] = @ + 1]
            BY <2>1, <3>3
          <6>. QED  BY <1>0, <5>2, <6>1
        <5>. QED  BY <2>1, <3>3, <5>1, <5>3 DEF Commands
      <4>. QED  BY <2>1, <3>3, <4>1, <4>2, <4>3
    <3>. QED  BY <3>1, <3>2, <3>3
  <2>. QED  BY <2>3 DEF OvertakeInv
<1>2. ASSUME NEW k \in Commands, Skip(k) PROVE OvertakeInv'
  <2>1. /\ ~flag[k] /\ cmd = k /\ cmd' = k + 1 /\ pc = "test" /\ pc' = "test"
        /\ UNCHANGED <<flag, overtaken>>
    BY <1>2 DEF Skip, requests
  <2>2. pc \notin CommandSteps /\ pc' \notin CommandSteps
    BY <2>1 DEF CommandSteps, UploadSteps
  <2>3. \A w \in Commands : ~Executing(w)' /\ (Passed(w) => Passed(w)')
    BY <2>1, <2>2 DEF Executing, Passed, Commands
  <2>4. \A w \in Commands : flag[w] /\ cmd <= w => cmd' <= w
    BY <2>1 DEF Commands
  <2>. QED  BY <2>1, <2>3, <2>4 DEF OvertakeInv
<1>3. CASE Reset
  <2>0. cmd \in Commands
    BY <1>0, <1>3 DEF Reset, CommandSteps
  <2>1. /\ flag' = [flag EXCEPT ![cmd] = FALSE] /\ overtaken' = overtaken
        /\ cmd' = cmd + 1 /\ pc' = "test" /\ pc = "reset" /\ cmd \in Commands
    BY <1>3, <2>0 DEF Reset, ClearFlag, NextTest
  <2>2. pc \in CommandSteps /\ pc' \notin CommandSteps
    BY <2>1 DEF CommandSteps, UploadSteps
  <2>3. Executing(cmd) /\ \A w \in Commands : ~Executing(w)' /\ (Passed(w) => Passed(w)')
    BY <2>1, <2>2 DEF Executing, Passed, Commands
  <2>4. \A w \in Commands : flag'[w] => flag[w] /\ w # cmd /\ (cmd <= w => cmd' <= w)
    BY <1>0, <2>1 DEF Commands
  <2>5. \A w \in Commands : ~flag'[w] => ~flag[w] \/ w = cmd
    BY <1>0, <2>1
  <2>. QED  BY <2>1, <2>3, <2>4, <2>5 DEF OvertakeInv
<1>4. CASE send_heartbeat
  <2>1. /\ cmd = 6 /\ cmd' = 1 /\ pc = "test" /\ pc' = "recv" /\ UNCHANGED <<flag, overtaken>>
    BY <1>4 DEF send_heartbeat, requests
  <2>2. \A w \in Commands : ~Executing(w)' /\ cmd' <= w /\ ~(cmd <= w)
    BY <2>1 DEF Executing, CommandSteps, UploadSteps, Commands
  <2>. QED  BY <2>1, <2>2 DEF OvertakeInv
<1>5. CASE /\ cmd' = cmd /\ \A j \in Commands : Passed(j)' = Passed(j)
           /\ \A k \in Commands : Executing(k)' = Executing(k)
           /\ UNCHANGED requests
  BY <1>5 DEF OvertakeInv, requests
<1>6. ASSUME /\ cmd' = cmd /\ \A j \in Commands : Passed(j)' = Passed(j)
             /\ \A k \in Commands : Executing(k)' = Executing(k),
             NEW c \in Clients, OnCommand(c)
      PROVE  OvertakeInv'
  <2>0. overtaken' = overtaken
    BY <1>6 DEF OnCommand
  <2>1. PICK k \in Commands : flag' = [flag EXCEPT ![k] = TRUE]
    BY <1>6, CommandOfType DEF OnCommand, Requested
  <2>2. \A w \in Commands : (flag'[w] <=> flag[w] \/ w = k)
    BY <1>0, <2>1
  <2>. QED  BY <1>6, <2>0, <2>1, <2>2 DEF OvertakeInv
<1>. QED  BY <1>1, <1>2, <1>3, <1>4, <1>5, <1>6, IndexChange

(* While a command waits, no other command is started twice, whatever the  *)
(* clients request meanwhile: the main loop tests every flag in each       *)
(* iteration, in one order.                                                *)
THEOREM BoundedOvertakingCorrect == Spec => []BoundedOvertaking
<1>1. Init => OvertakeInv
  BY DEF Init, OvertakeInv, Executing
<1>2. TypeInv /\ OvertakeInv /\ [Next]_vars => OvertakeInv'
  BY OvertakeStep
<1>3. OvertakeInv => BoundedOvertaking
  BY DEF OvertakeInv, BoundedOvertaking
<1>. QED  BY <1>1, <1>2, <1>3, TypeInit, TypeStep, PTL DEF Spec
-----------------------------------------------------------------------------
(* An upload nobody disturbs. *)

(* Each step of a command belongs to that command. *)
StepInv ==
  /\ pc \in UploadSteps => cmd = UPLOAD
  /\ pc \in {"mode", "arm", "start"} => cmd = FLY
  /\ pc = "rtl" => cmd = RTL
  /\ pc = "param" => cmd = PARAM
  /\ pc = "download" => cmd = DOWNLOAD

(* The items sent so far are the beginning of the list that was counted. *)
UploadInv ==
  ~edited /\ (pc \in {"items", "send"} \/ (pc = "reset" /\ cmd = UPLOAD)) =>
    /\ announced = Len(mission_points) % UINT16
    /\ i = Len(sent) /\ i <= Len(mission_points)
    /\ \A j \in 1..i : sent[j] = mission_points[j]
    /\ pc = "send" => i < Len(mission_points)
    /\ pc = "reset" => i = Len(mission_points)

LEMMA UploadStep ==
  ASSUME TypeInv, StepInv, UploadInv, [Next]_vars
  PROVE  StepInv' /\ UploadInv'
<1>. USE DEF StepInv, UploadInv, UploadSteps, UPLOAD, FLY, RTL, PARAM, DOWNLOAD
<1>0. /\ mission_points \in Seq(Points) /\ sent \in Seq(Points \union {Garbage}) /\ i \in Nat
      /\ Len(mission_points) \in Nat
  BY DEF TypeInv, TypeOK
<1>1. CASE start_accept \/ SpawnThread \/ set_message_handler \/ Telemetry
  <2>1. pc' \in {"spawn", "set_handler", "recv", "parse", "set_mode_rtl", "to_json",
                 "broadcast", "test"}
    BY <1>1
    DEF start_accept, SpawnThread, set_message_handler, Telemetry, recvfrom,
        process_mavlink_message, set_mode_rtl, Sends, broadcast_data, SendTo, SendThrows,
        EndBroadcast, EndOfDatagram, thread
  <2>. QED  BY <2>1
<1>2. ASSUME NEW k \in Commands, Execute(k) PROVE StepInv' /\ UploadInv'
  <2>1. cmd' = k /\ pc' = First(k)
    BY <1>2 DEF Execute
  <2>2. \/ (k = 1 /\ pc' = "clear")
        \/ (k = 2 /\ pc' = "mode")
        \/ (k = 3 /\ pc' = "rtl")
        \/ (k = 4 /\ pc' = "param")
        \/ (k = 5 /\ pc' = "download")
    BY <2>1 DEF First, Commands
  <2>. QED  BY <2>1, <2>2
<1>3. CASE (\E k \in Commands : Skip(k)) \/ Reset \/ send_heartbeat
  <2>1. pc' \in {"test", "recv"}
    BY <1>3 DEF Skip, Reset, send_heartbeat
  <2>. QED  BY <2>1
<1>4. CASE send_mission_clear_all \/ fly_command \/ send_rtl_command \/ setParameter
           \/ downloadMission
  <2>1. cmd' = cmd /\ \/ pc = "clear" /\ pc' = "count"
                      \/ pc = "mode" /\ pc' = "arm"
                      \/ pc = "arm" /\ pc' = "start"
                      \/ pc \in {"start", "rtl", "param", "download"} /\ pc' = "reset"
    BY <1>4
    DEF send_mission_clear_all, fly_command, send_set_mode_command, send_arm_command,
        send_mission_start_command, send_rtl_command, setParameter, downloadMission,
        Sends
  <2>. QED  BY <2>1
<1>5. CASE send_mission_count
  <2>1. /\ announced' = Len(mission_points) % UINT16 /\ mission_points' = mission_points
        /\ i' = 0 /\ sent' = <<>> /\ pc = "count" /\ pc' = "items" /\ cmd' = cmd
    BY <1>5 DEF send_mission_count, payloads
  <2>. QED  BY <1>0, <2>1
<1>6. CASE ItemLoop
  <2>1. /\ pc = "items" /\ pc' = IF i < Len(mission_points) THEN "send" ELSE "reset"
        /\ cmd' = cmd /\ UNCHANGED <<i, announced, sent, edited, mission_points>>
    BY <1>6 DEF ItemLoop, MoreItems, upload, payloads
  <2>. QED  BY <1>0, <2>1
<1>7. CASE send_mission_item
  <2>1. /\ pc = "send" /\ pc' = "items" /\ i' = i + 1 /\ cmd' = cmd
        /\ UNCHANGED <<announced, edited, mission_points>>
    BY <1>7 DEF send_mission_item, payloads
  <2>2. SUFFICES ASSUME ~edited PROVE UploadInv'
    BY <2>1
  <2>3. i < Len(mission_points) /\ i = Len(sent) /\ announced = Len(mission_points) % UINT16
        /\ \A j \in 1..i : sent[j] = mission_points[j]
    BY <2>1, <2>2
  <2>4. sent' = Append(sent, mission_points[i + 1])
    BY <1>7, <2>3 DEF send_mission_item
  <2>5. Len(sent') = i + 1 /\ \A j \in 1..(i + 1) : sent'[j] = mission_points[j]
    <3>1. mission_points[i + 1] \in Points
      BY <1>0, <2>3
    <3>. QED  BY <1>0, <2>3, <2>4, <3>1
  <2>. QED  BY <1>0, <2>1, <2>3, <2>5
<1>8. CASE WebSocketThread
  <2>1. PICK c \in Clients :
          \/ Accept(c) \/ OnOpen(c) \/ ClientCloses(c) \/ OnClose(c) \/ OnIgnored(c)
          \/ OnCommand(c) \/ OnClear(c) \/ OnWaypoint(c) \/ OnAutoRTL(c)
    BY <1>8 DEF WebSocketThread
  <2>2. (pc' = pc \/ pc' = "crashed") /\ cmd' = cmd
        /\ (edited' = TRUE \/ UNCHANGED <<edited, mission_points>>)
        /\ UNCHANGED <<i, announced, sent>>
    BY <2>1
    DEF Accept, OnOpen, ClientCloses, OnClose, OnIgnored, OnCommand, OnClear, OnWaypoint, OnAutoRTL,
        Handle, thread, upload, payloads
  <2>. QED  BY <2>2
<1>9. CASE Crashed \/ UNCHANGED vars
  BY <1>9 DEF Crashed, vars, thread, upload, payloads
<1>. QED  BY <1>1, <1>2, <1>3, <1>4, <1>5, <1>6, <1>7, <1>8, <1>9
          DEF Next, Main, CommandLoop, upload_mission

(* An upload during which no client edits the list sends the vehicle as    *)
(* many items as it announced, and exactly the list of mission points.     *)
THEOREM QuietUploadCorrect == Spec => []QuietUploadIsExact
<1>1. Init => StepInv /\ UploadInv
  BY DEF Init, StepInv, UploadInv, UploadSteps
<1>2. TypeInv /\ StepInv /\ UploadInv /\ [Next]_vars => StepInv' /\ UploadInv'
  BY UploadStep
<1>3. TypeInv /\ UploadInv => QuietUploadIsExact
  <2>. SUFFICES ASSUME TypeInv, UploadInv, pc = "reset", cmd = UPLOAD, ~edited,
                       Len(mission_points) < UINT16
                PROVE  announced = Len(sent) /\ sent = mission_points
    BY DEF QuietUploadIsExact
  <2>1. /\ mission_points \in Seq(Points) /\ sent \in Seq(Points \union {Garbage})
        /\ Len(sent) = Len(mission_points) /\ announced = Len(mission_points) % UINT16
        /\ \A j \in 1..Len(sent) : sent[j] = mission_points[j]
    BY DEF TypeInv, TypeOK, UploadInv
  <2>2. announced = Len(mission_points)
    <3>1. \A n, m \in Nat : n < m => n % m = n
      OBVIOUS
    <3>2. Len(mission_points) \in Nat /\ UINT16 \in Nat
      BY <2>1 DEF UINT16
    <3>. QED  BY <2>1, <3>1, <3>2
  <2>3. sent = mission_points
    BY <2>1
  <2>. QED  BY <2>1, <2>2, <2>3
<1>. QED  BY <1>1, <1>2, <1>3, TypeInit, TypeStep, PTL DEF Spec
=============================================================================
