------------------------ MODULE GcsServerBoardProofs ------------------------
(***************************************************************************)
(* Machine-checked proof that the backend implements MissionBoard, and the *)
(* properties its pages inherit from it, for datagrams that complete any   *)
(* number of messages, none included: a download leaves clients behind     *)
(* when no message was broadcast since the one before, and only then.      *)
(***************************************************************************)
EXTENDS GcsServerProofs

PagesFacts == INSTANCE MissionBoardProofs WITH
  Missions  <- Nat,
  NoMission <- 0,
  number    <- current_mission_id + (IF Published THEN 1 ELSE 0),
  mission   <- currentMission,
  lost      <- (Clients \ connections) \union closing \union skipped

Lost == (Clients \ connections) \union closing \union skipped

Told(c) == seen[c] = NoId \/ seen[c].id = current_mission_id

(* Who was told the current number: a client the broadcast loop visited    *)
(* and, from the end of a broadcast to the next download, every client.    *)
ToldInv ==
  /\ Published => untold
  /\ \A c \in Clients \ Lost :
       /\ pc = "broadcast" => c \in left \/ Told(c)
       /\ ~untold => Told(c)

BoardStepInv == TypeInv /\ StepInv /\ UploadInv /\ ToldInv

(* The steps that leave the board, the clients and the promise alone.      *)
BoardIdle ==
  UNCHANGED <<current_mission_id, currentMission, seen, skipped, connections, closing>>

LEMMA TelemetryTells ==
  ASSUME BoardStepInv,
         start_accept \/ SpawnThread \/ set_message_handler \/ Telemetry
  PROVE  ToldInv' /\ [Pages!Next]_(Pages!boardVars)
<1>. USE DEF BoardStepInv, Published, thread, telem, told, shown, conns, CommandSteps, UploadSteps
<1>1. CASE \/ start_accept \/ SpawnThread \/ set_message_handler \/ recvfrom
           \/ process_mavlink_message \/ set_mode_rtl \/ broadcast_data \/ EndBroadcast
           \/ EndOfDatagram
  <2>1. BoardIdle
    BY <1>1
    DEF start_accept, SpawnThread, set_message_handler, recvfrom, process_mavlink_message,
        set_mode_rtl, Sends, broadcast_data, EndBroadcast, EndOfDatagram, BoardIdle
  <2>2. ~Published /\ ~Published'
    BY <1>1
    DEF start_accept, SpawnThread, set_message_handler, recvfrom, process_mavlink_message,
        set_mode_rtl, Sends, broadcast_data, EndBroadcast, EndOfDatagram
  <2>3. UNCHANGED Pages!boardVars
    BY <2>1, <2>2 DEF Pages!boardVars, BoardIdle
  <2>4. Lost' = Lost /\ \A c \in Clients : Told(c)' = Told(c)
    BY <2>1 DEF Lost, Told, BoardIdle
  <2>5. ToldInv'
    <3>1. CASE EndBroadcast
      BY <2>2, <2>4, <3>1 DEF EndBroadcast, ToldInv
    <3>2. CASE broadcast_data
      BY <2>2, <2>4, <3>2 DEF broadcast_data, ToldInv, Lost
    <3>3. CASE \/ start_accept \/ SpawnThread \/ set_message_handler \/ recvfrom
               \/ process_mavlink_message \/ set_mode_rtl \/ EndOfDatagram
      <4>1. untold' = untold /\ pc' # "broadcast"
        BY <3>3
        DEF start_accept, SpawnThread, set_message_handler, recvfrom,
            process_mavlink_message, set_mode_rtl, Sends, EndOfDatagram
      <4>. QED  BY <2>2, <2>4, <4>1 DEF ToldInv
    <3>. QED  BY <1>1, <3>1, <3>2, <3>3
  <2>. QED  BY <2>3, <2>5
<1>2. ASSUME NEW c \in Clients, SendTo(c)
      PROVE  ToldInv' /\ [Pages!Next]_(Pages!boardVars)
  <2>1. /\ pc = "broadcast" /\ pc' = pc /\ cmd' = cmd /\ left' = left \ {c} /\ c \in left
        /\ seen' = [seen EXCEPT ![c] = all_data_to_json] /\ skipped' = skipped \ {c}
        /\ UNCHANGED <<current_mission_id, currentMission, untold, connections, closing>>
    BY <1>2 DEF SendTo
  <2>2. c \in connections /\ seen \in [Clients -> [id : Int, mission : Nat]]
    BY <2>1 DEF TypeInv, TypeOK
  <2>3. Lost' \in {Lost, Lost \ {c}}
    <3>0. Lost' = (Clients \ connections) \union closing \union (skipped \ {c})
      BY <2>1 DEF Lost
    <3>1. CASE c \in closing
      <4>1. Lost' = Lost
        BY <3>0, <3>1 DEF Lost
      <4>. QED  BY <4>1
    <3>2. CASE c \notin closing
      <4>1. Lost' = Lost \ {c}
        BY <2>2, <3>0, <3>2 DEF Lost
      <4>. QED  BY <4>1
    <3>. QED  BY <3>1, <3>2
  <2>4. Pages!Tell(c)
    <3>1. ~Published /\ ~Published' /\ current_mission_id \in Nat
      BY <2>1 DEF TypeInv, TypeOK
    <3>2. Pages!Board = all_data_to_json
      BY <3>1 DEF Pages!Board, all_data_to_json
    <3>3. UNCHANGED <<current_mission_id + (IF Published THEN 1 ELSE 0), currentMission>>
      BY <2>1, <3>1
    <3>. QED  BY <2>1, <2>3, <3>2, <3>3 DEF Pages!Tell, Lost
  <2>5. ToldInv'
    <3>1. ASSUME NEW d \in Clients \ Lost'
          PROVE  (d \in left' \/ Told(d)') /\ (~untold' => Told(d)')
      BY <2>1, <2>2, <2>3, <3>1 DEF ToldInv, Told, all_data_to_json
    <3>. QED  BY <2>1, <3>1 DEF ToldInv
  <2>. QED  BY <2>4, <2>5 DEF Pages!Next
<1>3. ASSUME NEW c \in Clients, SendThrows(c)
      PROVE  ToldInv' /\ [Pages!Next]_(Pages!boardVars)
  <2>1. /\ pc = "broadcast" /\ pc' = pc /\ cmd' = cmd /\ left' = left \ {c} /\ c \in closing
        /\ BoardIdle /\ untold' = untold
    BY <1>3 DEF SendThrows, BoardIdle
  <2>2. UNCHANGED Pages!boardVars
    BY <2>1 DEF Pages!boardVars, BoardIdle
  <2>3. Lost' = Lost /\ c \in Lost /\ \A d \in Clients : Told(d)' = Told(d)
    BY <2>1 DEF Lost, Told, BoardIdle
  <2>. QED  BY <2>1, <2>2, <2>3 DEF ToldInv
<1>. QED  BY <1>1, <1>2, <1>3 DEF Telemetry

LEMMA CommandsPublish ==
  ASSUME BoardStepInv, CommandLoop
  PROVE  ToldInv' /\ [Pages!Next]_(Pages!boardVars)
<1>. USE DEF BoardStepInv, Published, thread, telem, told, shown, conns, CommandSteps, UploadSteps,
             DOWNLOAD, UPLOAD, FLY, RTL, PARAM
<1>0. current_mission_id \in Nat /\ currentMission \in 0..(current_mission_id + 1)
      /\ cmd \in 1..6
  BY DEF TypeInv, TypeOK
<1>1. CASE downloadMission
  <2>1. /\ pc = "download" /\ pc' = "reset" /\ cmd = 5 /\ cmd' = cmd
        /\ currentMission' \in {currentMission, current_mission_id + 1}
        /\ untold' = TRUE /\ skipped' = IF untold THEN Clients ELSE skipped
        /\ UNCHANGED <<current_mission_id, seen, connections, closing>>
    BY <1>1 DEF downloadMission, StepInv
  <2>2. /\ Lost' \in SUBSET Clients /\ Lost \subseteq Lost'
        /\ \A c \in Clients \ Lost' : Told(c)
    BY <2>1 DEF ToldInv, Lost, TypeInv, TypeOK
  <2>3. Pages!Publish
    <3>1. \A c \in Clients : Pages!Owed(c) => c \in Lost'
      BY <2>1, <2>2, <1>0 DEF Pages!Owed, Pages!Nothing, Told, NoId
    <3>2. currentMission' \in Nat \union {currentMission}
      BY <1>0, <2>1
    <3>. QED  BY <1>0, <2>1, <2>2, <3>1, <3>2 DEF Pages!Publish, Pages!NextNumber, Lost
  <2>4. ToldInv'
    BY <2>1 DEF ToldInv
  <2>. QED  BY <2>3, <2>4 DEF Pages!Next
<1>2. CASE Reset
  <2>1. /\ pc = "reset" /\ pc' = "test" /\ cmd' = cmd + 1
        /\ current_mission_id' = IF cmd = 5 THEN current_mission_id + 1 ELSE current_mission_id
        /\ UNCHANGED <<currentMission, seen, untold, skipped, connections, closing>>
    BY <1>2 DEF Reset, NextTest, NextMissionId
  <2>2. UNCHANGED Pages!boardVars
    BY <1>0, <2>1 DEF Pages!boardVars
  <2>3. ToldInv'
    BY <1>0, <2>1 DEF ToldInv, Told, Lost
  <2>. QED  BY <2>2, <2>3
<1>3. CASE \/ (\E k \in Commands : Execute(k) \/ Skip(k))
           \/ upload_mission \/ fly_command \/ send_rtl_command \/ setParameter
           \/ send_heartbeat
  <2>1. BoardIdle /\ untold' = untold
    BY <1>3
    DEF Execute, Skip, upload_mission, send_mission_clear_all, send_mission_count, ItemLoop,
        send_mission_item, fly_command, send_set_mode_command, send_arm_command,
        send_mission_start_command, send_rtl_command, setParameter, send_heartbeat, Sends,
        BoardIdle
  <2>2. pc' # "broadcast" /\ ~Published /\ ~Published'
    <3>1. ASSUME NEW k \in Commands, Execute(k) PROVE <2>2
      BY <3>1, <1>0 DEF Execute, First, Commands
    <3>2. ASSUME NEW k \in Commands, Skip(k) PROVE <2>2
      BY <3>2, <1>0 DEF Skip
    <3>3. CASE upload_mission
      BY <3>3, <1>0
      DEF StepInv, upload_mission, send_mission_clear_all, send_mission_count, ItemLoop,
          send_mission_item, Sends
    <3>4. CASE fly_command \/ send_rtl_command \/ setParameter
      BY <3>4, <1>0
      DEF StepInv, fly_command, send_set_mode_command, send_arm_command,
          send_mission_start_command, send_rtl_command, setParameter, Sends
    <3>5. CASE send_heartbeat
      BY <3>5 DEF send_heartbeat
    <3>. QED  BY <1>3, <3>1, <3>2, <3>3, <3>4, <3>5
  <2>3. UNCHANGED Pages!boardVars
    BY <2>1, <2>2 DEF Pages!boardVars, BoardIdle
  <2>4. Lost' = Lost /\ \A c \in Clients : Told(c)' = Told(c)
    BY <2>1 DEF Lost, Told, BoardIdle
  <2>5. ToldInv'
    BY <2>1, <2>2, <2>4 DEF ToldInv
  <2>. QED  BY <2>3, <2>5
<1>. QED  BY <1>1, <1>2, <1>3 DEF CommandLoop

LEMMA ClientsJoin ==
  ASSUME BoardStepInv, WebSocketThread
  PROVE  ToldInv' /\ [Pages!Next]_(Pages!boardVars)
<1>. USE DEF BoardStepInv, Published, thread, telem, told, shown, conns
<1>0. PICK c \in Clients :
        \/ Accept(c) \/ OnOpen(c) \/ ClientCloses(c) \/ OnClose(c) \/ OnIgnored(c)
        \/ OnCommand(c) \/ OnClear(c) \/ OnWaypoint(c) \/ OnAutoRTL(c)
  BY DEF WebSocketThread
<1>1. CASE OnOpen(c)
  <2>1. /\ pc' = pc /\ cmd' = cmd /\ msgs' = msgs
        /\ seen' = [seen EXCEPT ![c] = NoId] /\ connections' = connections \union {c}
        /\ UNCHANGED <<current_mission_id, currentMission, untold, closing>>
        /\ \/ pc = "broadcast" /\ skipped' = Clients
           \/ UNCHANGED <<skipped, left>>
    BY <1>1 DEF OnOpen, Iterating
  <2>2. skipped \subseteq Clients /\ closing \subseteq Clients
        /\ seen \in [Clients -> [id : Int, mission : Nat]]
    BY DEF TypeInv, TypeOK
  <2>3. Lost' \in SUBSET Clients /\ Lost \ {c} \subseteq Lost'
    BY <2>1, <2>2 DEF Lost
  <2>4. Pages!Join(c)
    BY <2>1, <2>3 DEF Pages!Join, Pages!Nothing, NoId, Lost
  <2>5. ToldInv'
    <3>1. CASE skipped' = Clients
      BY <2>1, <3>1 DEF ToldInv, Lost
    <3>2. CASE UNCHANGED <<skipped, left>>
      <4>1. ASSUME NEW d \in Clients \ Lost' PROVE Told(d)' \/ (d \notin Lost /\ Told(d)' = Told(d))
        BY <2>1, <2>2, <2>3 DEF Told
      <4>. QED  BY <2>1, <3>2, <4>1 DEF ToldInv
    <3>. QED  BY <2>1, <3>1, <3>2
  <2>. QED  BY <2>4, <2>5 DEF Pages!Next
<1>2. CASE ClientCloses(c) \/ OnClose(c)
  <2>1. /\ cmd' = cmd /\ UNCHANGED <<current_mission_id, currentMission, seen, untold>>
        /\ Published' = Published
        /\ \/ skipped' = Clients
           \/ UNCHANGED <<pc, left, skipped>>
    BY <1>2 DEF ClientCloses, OnClose, Iterating
  <2>2. Lost \subseteq Lost' /\ Lost' \in SUBSET Clients
    BY <1>2 DEF ClientCloses, OnClose, Iterating, Lost, TypeInv, TypeOK
  <2>3. Pages!Lose
    BY <2>1, <2>2 DEF Pages!Lose, Lost
  <2>4. ToldInv'
    <3>1. CASE skipped' = Clients
      BY <2>1, <3>1 DEF ToldInv, Lost
    <3>2. CASE UNCHANGED <<pc, left, skipped>>
      BY <2>1, <2>2, <3>2 DEF ToldInv, Told
    <3>. QED  BY <2>1, <3>1, <3>2
  <2>. QED  BY <2>3, <2>4 DEF Pages!Next
<1>3. CASE \/ Accept(c) \/ OnIgnored(c) \/ OnCommand(c) \/ OnClear(c) \/ OnWaypoint(c)
           \/ OnAutoRTL(c)
  <2>1. BoardIdle /\ UNCHANGED <<pc, cmd, left, untold>>
    BY <1>3
    DEF Accept, OnIgnored, OnCommand, OnClear, OnWaypoint, OnAutoRTL, Handle, BoardIdle
  <2>2. UNCHANGED Pages!boardVars
    BY <2>1 DEF Pages!boardVars, BoardIdle
  <2>3. ToldInv'
    BY <2>1 DEF ToldInv, Told, Lost, BoardIdle
  <2>. QED  BY <2>2, <2>3
<1>. QED  BY <1>0, <1>1, <1>2, <1>3

LEMMA BoardRefined ==
  ASSUME BoardStepInv, [Next]_vars
  PROVE  ToldInv' /\ [Pages!Next]_(Pages!boardVars)
<1>1. CASE Crashed \/ UNCHANGED vars
  <2>1. BoardIdle /\ UNCHANGED <<pc, cmd, left, untold>>
    BY <1>1 DEF Crashed, vars, thread, telem, told, shown, conns, BoardIdle
  <2>2. UNCHANGED Pages!boardVars
    BY <2>1 DEF Pages!boardVars, BoardIdle, Published
  <2>3. ToldInv'
    BY <2>1 DEF BoardStepInv, ToldInv, Told, Lost, BoardIdle, Published
  <2>. QED  BY <2>2, <2>3
<1>. QED  BY <1>1, TelemetryTells, CommandsPublish, ClientsJoin DEF Next, Main

LEMMA BoardStepInit == Init => BoardStepInv /\ Pages!Init
<1>1. Init => StepInv /\ UploadInv /\ ToldInv
  BY DEF Init, StepInv, UploadInv, UploadSteps, ToldInv, CommandSteps, Lost, Published
<1>2. Init => Pages!Init
  BY DEF Init, Pages!Init, Pages!Nothing, NoId, Published
<1>. QED  BY <1>1, <1>2, TypeInit DEF BoardStepInv

LEMMA BoardStepAlways == Spec => []BoardStepInv
<1>1. BoardStepInv /\ [Next]_vars => BoardStepInv'
  BY TypeStep, UploadStep, BoardRefined DEF BoardStepInv
<1>. QED  BY <1>1, BoardStepInit, PTL DEF Spec
-----------------------------------------------------------------------------
(* The two threads with their flags, loops and lost clients implement the  *)
(* board: a number is replaced before a client was told it only if the     *)
(* client is gone, closing or skipped.                                     *)
THEOREM PromiseKeptCorrect == Spec => PromiseKept
<1>1. BoardStepInv /\ [Next]_vars => [Pages!Next]_(Pages!boardVars)
  BY BoardRefined
<1>. QED  BY <1>1, BoardStepInit, BoardStepAlways, PTL DEF Spec, PromiseKept, Pages!Spec

(* The facts of MissionBoardProofs are about the same board.               *)
LEMMA SameBoard ==
  /\ Pages!Init => PagesFacts!Init
  /\ [Pages!Next]_(Pages!boardVars) => [PagesFacts!Next]_(PagesFacts!boardVars)
<1>1. Pages!Init => PagesFacts!Init
  BY DEF Pages!Init, PagesFacts!Init, Pages!Nothing, PagesFacts!Nothing
<1>2. (UNCHANGED Pages!boardVars) => UNCHANGED PagesFacts!boardVars
  BY DEF Pages!boardVars, PagesFacts!boardVars
<1>3. Pages!Next => PagesFacts!Next
  <2>1. Pages!Publish => PagesFacts!Publish
    BY DEF Pages!Publish, PagesFacts!Publish, Pages!Owed, PagesFacts!Owed, Pages!Nothing,
           PagesFacts!Nothing, Pages!NextNumber, PagesFacts!NextNumber
  <2>2. \A c \in Clients : Pages!Tell(c) => PagesFacts!Tell(c)
    BY DEF Pages!Tell, PagesFacts!Tell, Pages!Board, PagesFacts!Board
  <2>3. \A c \in Clients : Pages!Join(c) => PagesFacts!Join(c)
    BY DEF Pages!Join, PagesFacts!Join, Pages!Nothing, PagesFacts!Nothing
  <2>4. Pages!Lose => PagesFacts!Lose
    BY DEF Pages!Lose, PagesFacts!Lose
  <2>. QED  BY <2>1, <2>2, <2>3, <2>4 DEF Pages!Next, PagesFacts!Next
<1>. QED  BY <1>1, <1>2, <1>3

(* Nobody is told anything before connecting.                              *)
LEMMA ToldWhenConnected ==
  ASSUME TypeInv, [Next]_vars, NEW c \in Clients \ connections
  PROVE  seen'[c] = seen[c] \/ seen'[c] = NoId
<1>. USE DEF thread, telem, told
<1>0. seen \in [Clients -> [id : Int, mission : Nat]] /\ left \subseteq connections
  BY DEF TypeInv, TypeOK
<1>1. CASE Telemetry
  <2>1. ASSUME NEW d \in Clients, SendTo(d) PROVE seen'[c] = seen[c]
    BY <1>0, <2>1 DEF SendTo
  <2>. QED
    BY <1>1, <2>1
    DEF Telemetry, recvfrom, process_mavlink_message, set_mode_rtl, Sends, broadcast_data,
        SendThrows, EndBroadcast, EndOfDatagram
<1>2. CASE start_accept \/ SpawnThread \/ set_message_handler \/ CommandLoop
  BY <1>2
  DEF start_accept, SpawnThread, set_message_handler, CommandLoop, Execute, Skip,
      upload_mission, send_mission_clear_all, send_mission_count, ItemLoop, send_mission_item,
      fly_command, send_set_mode_command, send_arm_command, send_mission_start_command,
      send_rtl_command, setParameter, downloadMission, Reset, send_heartbeat, Sends
<1>3. CASE WebSocketThread
  <2>1. PICK d \in Clients :
          \/ Accept(d) \/ OnOpen(d) \/ ClientCloses(d) \/ OnClose(d) \/ OnIgnored(d)
          \/ OnCommand(d) \/ OnClear(d) \/ OnWaypoint(d) \/ OnAutoRTL(d)
    BY <1>3 DEF WebSocketThread
  <2>2. CASE OnOpen(d)
    BY <1>0, <2>2 DEF OnOpen
  <2>3. CASE ~OnOpen(d)
    BY <2>1, <2>3
    DEF Accept, ClientCloses, OnClose, OnIgnored, OnCommand, OnClear, OnWaypoint, OnAutoRTL, Handle
  <2>. QED  BY <2>2, <2>3
<1>4. CASE Crashed \/ UNCHANGED vars
  BY <1>4 DEF Crashed, vars
<1>. QED  BY <1>1, <1>2, <1>3, <1>4 DEF Next, Main

(* What one step may tell a client, inherited from the board.              *)
LEMMA NextTold ==
  ASSUME TypeInv, PagesFacts!BoardInv, [Next]_vars,
         [PagesFacts!Next]_(PagesFacts!boardVars), NEW c \in Clients
  PROVE  /\ seen[c] # NoId /\ seen'[c] # NoId /\ c \notin skipped \union closing =>
              seen'[c].id - seen[c].id \in {0, 1}
         /\ seen'[c].id = seen[c].id => seen'[c].mission = seen[c].mission
<1>1. /\ seen[c] # NoId /\ seen'[c] # NoId /\ c \notin Lost =>
           seen'[c].id - seen[c].id \in {0, 1}
      /\ seen'[c].id = seen[c].id => seen'[c].mission = seen[c].mission
  <2>1. PagesFacts!Nothing = NoId
    BY DEF PagesFacts!Nothing, NoId
  <2>. QED  BY <2>1, PagesFacts!NextTelling DEF Lost
<1>2. ASSUME c \notin connections, seen[c] # NoId, seen'[c] # NoId
      PROVE  seen'[c].id - seen[c].id \in {0, 1}
  <2>1. seen'[c] = seen[c] /\ seen[c].id \in Int
    BY <1>2, ToldWhenConnected DEF TypeInv, TypeOK
  <2>. QED  BY <2>1
<1>. QED  BY <1>1, <1>2 DEF Lost

LEMMA ToldAlways == Spec => []PagesFacts!BoardInv
<1>1. Init => PagesFacts!BoardInv
  BY BoardStepInit, SameBoard, PagesFacts!BoardInit
<1>2. BoardStepInv /\ PagesFacts!BoardInv /\ [Next]_vars => PagesFacts!BoardInv'
  BY BoardRefined, SameBoard, PagesFacts!BoardStep
<1>. QED  BY <1>1, <1>2, BoardStepAlways, PTL DEF Spec

(* A client that is neither closing nor skipped is next told the number it *)
(* knows or the following one, however many messages a datagram completes. *)
THEOREM NoSkippedIdCorrect == Spec => NoSkippedId
<1>1. BoardStepInv /\ PagesFacts!BoardInv /\ [Next]_vars =>
        [\A c \in Clients :
           seen[c] # NoId /\ seen'[c] # NoId /\ c \notin skipped \union closing =>
             seen'[c].id - seen[c].id \in {0, 1}]_vars
  BY NextTold, BoardRefined, SameBoard DEF BoardStepInv
<1>. QED  BY <1>1, BoardStepAlways, ToldAlways, PTL DEF Spec, NoSkippedId

(* The mission a client was told under a number never changes, not even    *)
(* for a client that closes or that a broadcast skipped.                   *)
THEOREM NoSilentChangeCorrect == Spec => NoSilentChange
<1>1. BoardStepInv /\ PagesFacts!BoardInv /\ [Next]_vars =>
        [\A c \in Clients :
           seen'[c].id = seen[c].id => seen'[c].mission = seen[c].mission]_vars
  BY NextTold, BoardRefined, SameBoard DEF BoardStepInv
<1>. QED  BY <1>1, BoardStepAlways, ToldAlways, PTL DEF Spec, NoSilentChange
=============================================================================
