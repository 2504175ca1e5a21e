# KuzgunGCS: a TLA+ model of the ground station

KuzgunGCS is a ground station for one drone. A C++ backend talks MAVLink over
UDP to the autopilot and WebSocket to a web page; the page shows the drone and
its mission on a map and lets the user draw a mission, upload it, start it and
call the drone back. The modules in this directory model both, and the parts of the two
vendored libraries that the backend's correctness rests on: the MAVLink parser and the WebSocket
connection. They are checked with TLC on small instances, and every safety property of the passing runs is
also proved with TLAPS, for every instance. The plan at the end says
what comes next.

## 1. Inventory

| component | code | state | operations |
|---|---|---|---|
| mission download | `backend/getMission.hpp` | items collected, `expected_seq`, `mission_count`, `retry_count`, time of the last request, `gcAddr`, one UDP socket | `downloadMission` and the requests it sends |
| main loop | `backend/serverGC.cpp`, `main` | latest telemetry, `current_mission_id`, `currentMissionJsonStr` | receive a datagram, process and broadcast its messages, execute the requested commands, send a heartbeat |
| commands | `backend/mission.hpp`, `backend/setParam.hpp` | `mission_points` | upload, fly, RTL, set a parameter: datagrams with pauses of seconds between them, no answer awaited |
| WebSocket handlers | `backend/serverGC.cpp:211-219, 250-293` | `connections`, the request flags, `recieved_auto_RTL` | open, close, message |
| telemetry formatting | `backend/serverGC.cpp:46-136` | none | telemetry, mission and mission number to JSON |
| page | `index.html` | `clickedCoordinates`, `first`, flags `canFly`, `upload`, `deleteMissions`, `autoRTL`, `RTL`, `mission`, `param` | clicks, buttons, display of a downloaded mission |
| page client | `wasmJsMain/.../main.kt` | `isFirstGetMission`, `waitForMissionID`, `lastGcsMissionID` | on every message: show telemetry, take a mission, turn the page's flags into payloads |
| telemetry parser | `wasmJsMain/.../DroneData.kt` | none | JSON text to telemetry, by regular expressions |
| the rest | `DroneDataClient.kt`, Android, desktop and common code, `test.py` | none of the ground station's | unused code, template code, a test client |
| MAVLink library | `backend/mavlink`, in it `mavlink_helpers.h` | status and buffer of the channel, static | frame a message; parse a byte; generated code for every message |
| WebSocket library | `backend/websocketpp`, in it `impl/connection_impl.hpp` and `transport/asio` | state, send queue, write flag, timers of a connection | accept, handshake, read, write, send, close, terminate |

**Interactions.** The autopilot's telemetry arrives on UDP port 14550 and paces
the main loop: one datagram, then all flags once. Commands go to port 14580. A
download opens a socket of its own on port 14555. The WebSocket library runs in a
second thread, which calls the handlers; they share plain globals with the
main thread, without a lock. The page receives one JSON text per MAVLink message
and sends short texts: `fly`, `waypoint,lat,lng`, `uploadMission`, ... Each text
sets a flag or edits `mission_points`. The page asks for a mission with
`getMission` and recognises it later by `current_mission_id` having grown by one.

**What is hard here.** The flags and the list are changed by one thread while
the other is in a command that takes seconds. The mission protocol is UDP with
retries, and consecutive downloads share a port. The set of connections is
changed while the broadcast loop iterates over it. Every command blocks
telemetry, heartbeats and the other commands. The mission and its number
change separately. Both sockets feed one MAVLink parser, which keeps its state between datagrams. A
connection is ended by whichever comes first of timers, reads, writes and frames, while the main thread
sends on it. PROJECT.json lists each of these hazards at its line.

**What makes each part correct.**
A download that returns true holds the vehicle's mission; it ends, if the vehicle has
one and is otherwise quiet; it is not refused. The main loop executes every request once, in bounded order,
and does not stay in an upload. An upload sends as many items as it announced.
A client is shown missions under numbers that grow one by one, if messages keep coming, and never change
their meaning. The page turns each button into one request, and shows the
mission it asked for. The parser delivers frames and nothing else, and gets over noise. A
connection opens and closes once, sends in order what it was given, and ends when its client is gone.

## 2. Modules

| module | what it is |
|---|---|
| `MissionDownload` | the downloader, the network, the vehicle's side of the mission protocol |
| `MissionTransfer` | abstract: what the backend relies on in a download |
| `GcsServer` | both threads of the backend and the clients' connections |
| `MissionBoard` | abstract: what the backend promises the pages about missions |
| `GcsPage` | the page, its client, and as much of the backend as they depend on: `MissionBoard` |
| `MavlinkChannel` | the MAVLink parser, the sender's framing, and the two readers of datagrams |
| `ConnectionLife` | abstract: what the backend relies on in a WebSocket connection |
| `WsConnection` | one connection of the WebSocket library, used by its thread and by the main thread |
| `MCMissionDownload`, `MCGcsServer`, `MCGcsPage`, `MCMavlinkChannel`, `MCWsConnection` | values of the constants for TLC |
| `MissionDownloadProofs`, `GcsServerProofs`, `MissionBoardProofs`, `GcsServerBoardProofs`, `GcsPageProofs`, `MavlinkChannelProofs`, `WsConnectionProofs` | theorems and proofs |
| `Basics` | lemmas several of them use: induction over numbers, beginnings of sequences |

How they compose:

    GcsPage      -- INSTANCE -->  MissionBoard    <-- implements --  GcsServer
    GcsServer    -- relies on --> ConnectionLife  <-- implements --  WsConnection
    GcsServer    -- relies on --> MissionTransfer   <-- implements --  MissionDownload
    MissionDownload, GcsServer  -- rely on -->  messages (MavlinkChannel)

### MissionDownload

One iteration of the loop of `downloadMission` is two steps: `pc = "receive"`
(receive at most one message and dispatch it: `OnNothing`, `OnFragment`,
`OnTelemetry`, `OnMissionCount`, `OnExpectedItem`, `OnOutOfOrderItem`,
`OnReject`) and `pc = "check"` (`NoTimeout`, `RetryAfterTimeout`, `GiveUp`).
The clock may pass `TIMEOUT_MS` between any two steps (`TimeoutPasses`), so a late
answer races with the retry. `outcome` is the return value.
The variables have the names of the members and locals they stand for;
`session` numbers the downloads. Each begins with a new `UDPMissionDownloader`
and what is still in flight from the previous one (`StartDownload`), since all use
one port.

The network is two sets of datagrams. A datagram is received in any order; one
that is never received is lost; with `NetworkDuplicates` it stays in the set
and may be received again. `recvfrom` overwrites `gcAddr`, so a request after a
datagram of another endpoint goes there and is not answered. The vehicle answers
each request from its current mission, which it may replace (`VehicleReplans`).
Messages whose only effect is to reset `retry_count` are one kind,
`Telemetry`. A bound of the model, `MaxItems`, is a guard of `OnMissionCount`: without it
repeated counts make `mission_items` grow for ever. It is large (1000, never
reached) in the runs where cutting behaviours off would matter.

`TransferKept` is the refinement of `MissionTransfer`: a transfer is under way while `pc # "idle"`, and its
batch is what `getMissionItemsJson` may be asked for, `mission_items` after success. The batch ends with a whole mission, numbered
from 0; only a repeated count puts items before it (`EveryItemOnce`). It is the vehicle's own mission if the vehicle never
changed it. Otherwise it may be a mixture of missions: nothing in the protocol ties an item to a count, and an
answer meant for an earlier download may be of a mission long gone. The "download" step of `GcsServer` is
this transfer from begin to end.

### GcsServer

`pc` says where the main thread is: startup (`listen`, `spawn`,
`set_handler`), the telemetry part (`recv`, `parse`, `set_mode_rtl`, `to_json`,
`broadcast`), the test of the flags (`test`, with `cmd` the flag tested next), or inside the command
`cmd` (`clear`, `count`, `items`, `send` for an upload, `mode`, `arm`, `start` for a flight,
`rtl`, `param`, `download`, then `reset`). The
WebSocket thread's handlers are atomic actions that may happen between any two of
these steps. `flag[k]` is the bool of command `k` (`received_fly_command` and so on), numbered in
the order of the tests in `main`. A flag is read by `Execute` and cleared by
`Reset`, with the whole command in between, as in the code.

- A datagram completes a number of messages from `BatchSizes`, which may contain 0 (also for a `recvfrom` that fails);
  each message is broadcast by a loop over `left`. A send to a connection its client has closed may throw
  (`SendThrows`); the loop goes on.
- The flags are tested after a datagram of no message too. So two downloads may end with no broadcast between them, and
  nobody sees the number of the first: `untold` is set from the end of a download to the end of the next broadcast,
  and a download that ends while it is set makes every client one of `skipped`.
- `Accept` is the TCP accept, which creates the connection object for the next client; the open handler, `OnOpen`, runs after
  the handshake. In between the client is in `accepted`, not yet in `connections`.
- Changing a `std::set` during another thread's iteration is undefined. After an insertion
  the model lets the loop visit any subset of the set; after an erasure it may
  also crash. `skipped` remembers the clients such a loop may have left behind, too,
  until they are told again.
- `send_mission_item` reads an arbitrary point (`Garbage`) if the list was cleared after the
  loop's test.
- `mute` are the connections created before `set_message_handler` ran: the
  library copies the handlers of the server into a connection when it is
  created, and `start_accept` creates the first one.
- `credit`, `overtaken`, `announced`, `sent`, `edited`, `untold`, `skipped`, `ignored` and
  `seen` are history: they do not influence any other variable.

Simplifications: reads and writes of one flag, and of the list inside one
handler, are atomic; telemetry values are not kept; a download
is one step that may or may not change the mission. Payloads are well formed.

- `PromiseKept` is the refinement of `MissionBoard`: the board's number is `current_mission_id`, or
  one more between the end of a download and the statement that increments it; `lost` are the clients
  not connected, closing or skipped.
- `UploadEnds` says that the loop of an upload ends although it reads the length of the list again and again while clients clear and
  extend it; its premise is that they do not append points for ever. Heartbeats are sent once per iteration of the main loop, so they
  go on only as far as every part of the iteration ends: `recvfrom` may block, and a download may not end (below). No
  property says that heartbeats continue, since the code does not ensure it.

### MissionBoard

A number, a mission, and what each client was told last. A download that ends always takes the next number, also when it failed. `lost`
are the clients that may miss a number: not connected, left behind by a fault, or not told the present number when the next one
replaces it. All others see every number.

### GcsPage

`page` is a record of the script's globals and of the parts of the document that the script
reads back: `route` is `clickedCoordinates`, `markers` the positions of
`waypointMarkerList`, `entries` the index each entry of the waypoint list was created with,
`filler` the three nodes of text and comment that the list begins with (they are its
`lastChild` when no entry is left), `returnLine` whether `lineReturn` is drawn. Each button and
the click on the map is an action, which changes the record and sends nothing.
The locals of `connect` are variables of their own. `onmessage` is one action,
as JavaScript runs it: it shows the mission of the message when `Shown` applies, sends
`getMission`, then turns the flags into payloads in the order of the code.

The WebSocket is a queue each way. The backend is reduced to `Backend`, an instance of `MissionBoard` with
the page as its client, from which a download takes `Publish`, a broadcast `Tell` and a reload `Join`; a
download that starts on request; and `mission_points`.
`StartDownload` needs the flag alone, as in `main`: also with the page not told the last number. A download that ends then
makes the page lost on the board, and `passedOver` keeps the number it was not told.
`EndDownload` forgets requests received meanwhile, as the code does. A `Reload` gives a new page and connection;
any part of what the old page had sent last is lost.

- `mute` says that the page's connection is the server's first, which has no message handler: `DropPayload` takes what it sends. Whether a
  page may be the first is the constant `FirstPages`. A reload gets a connection with a handler, or without one if the handler is
  not set yet.
- The points with a negative coordinate are the constant `Negative`; `convertCoordinates` drops them.
- An empty mission is parsed as one item at latitude and longitude 0 (`ItemsOf`).
- A message whose battery current is not a whole number of amperes makes `parseJson` give up before the mission and
  after its number: `whole` says which, from the constant `WholeAmperes`. Such an answer is taken and its mission lost.
- `Home` stands for the drone's position when a route is begun.
- A return to launch ends a mission or is absent, as in every mission the backend uploads.
- `AddReturnButton` without a route hands undefined points to the map library, which may throw
  before or after the flag is set; both are allowed.
- Entries of the list that point beyond the route, which only a careless user can have, are not pressed.
- `careless` is history: the user drew while a mission was awaited, or deleted a last
  waypoint from an empty list. `published`, `passedOver` and the `route` of the payload `uploadMission` are history too.
- The drawing switch, panels, icons, altitude and speed fields are left out, and so are the flags
  `param`, which nothing sets, and `refresh`, which changes nothing.
- The list is compared when the handler receives `uploadMission`; what the main loop sends of it
  later is the subject of `GcsServer`.

### MavlinkChannel

`mavlink_parse_char` takes one byte of `buf`; each case of its switch is an action, named for what it does, with
the library's names for the states. The sender's side, `Sent`, is a function from a message to its bytes: header of
version 1 or 2, payload without the zeros at its end, checksum with the sender's extra byte (the field `crc_extra` of a message), signature. The datagrams are
one or two frames, or members of `Noise`; a longer one than the reader's buffer is cut (`Cut`). The main loop feeds
every byte, the download stops at the first message (`Rest`); both use one channel, so its state is one set of
variables. `rxmsg` keeps what the last message left in it, as the static buffer does. The table of messages is
searched by the code's bisection (`mavlink_get_msg_entry`).

- A byte, the markers, the table, the length of a signature and the checksum are constants, so that the
  small instance has few bytes; the checksum is any function of a sequence of bytes.
- Assumed of the constants: the table is in the order of its numbers, without repetition (the generated `MAVLINK_MESSAGE_CRCS`
  is); a message to send has fields of a byte and a payload that fits into the array, no flag but that of the signature, and in
  version 1 no flag and one byte of number; sender and receiver share a dialect, so the messages are in the receiver's table with the sender's
  extra byte (a message that is not is `Noise`; its frame fails the checksum, unless its extra byte is 0); what is in a datagram are bytes.
- Signatures are skipped over, not verified: no key is set up, so the code accepts every one.
- `frame`, `intact`, `clean` and `noise` are history and bound.

### WsConnection and ConnectionLife

The library's variables keep their names. `io_service` runs one task at a time (`Task`): the completion of a
read or a write, an expired timer, a posted `write_frame`; each is an action. `handle_read_frame` is a loop that
processes the frames of a read one by one (`looping`, `m_buf`), because the main thread's `send` may come
between two of them. `send` is three steps: the state is checked under one lock, the frame queued
under another, the write posted without one. A timer has three states, and `cancel` is without effect on one that has
expired. `terminate` with its handlers is one operator, `Terminate`, used by everything that ends a connection: it is often
called again, and calls no handler then.

- A write succeeds only if its last frame reached the socket (`wire`), and fails only if the client is gone or the
  connection closed; it may also never end, when a client stops reading.
- Frames from the client are whole and of five kinds; a pong from it is like data.
- A request is good or bad, comes in parts or not at all, and may have frames behind it.
- `calls`, `accepted` and `wire` are history, and the variables of `ConnectionLife`: handlers called once and in order, frames
  going out in the order accepted, none after a close frame.

## 3. Runs

| run | instance | shows |
|---|---|---|
| `download_safety` | 2 downloads, missions of 0, 1, 3 items, one change of mission, duplicates, bystander and vehicle talk, `MAX_RETRIES` 2, `MaxItems` 4 | `TypeOK`, `ItemsInSequence`, `StableMissionIsDownloaded`, `FirstDownloadIsNotRejected`, `TransferKept` |
| `download_live` | 2 downloads, missions of 0, 1, 2 items, one change of mission, no duplicates, no talkers, `MAX_RETRIES` 3 | `DownloadTerminates` |
| `download_repeats` | 1 download of two items, `MAX_RETRIES` 5 | `EveryItemOnce` is violated |
| `download_chatter` | 1 download, the vehicle sends telemetry | `DownloadTerminates` is violated |
| `server_commands` | 1 client, 3 payloads of every kind, 2 points, 2 connections, datagrams of 1 message | `TypeOK`, `NoPhantomCommand`, `BoundedOvertaking`, `QuietUploadIsExact`, `CommandServed`, `UploadEnds` |
| `server_broadcast` | 2 clients, 3 connections, datagrams of 0, 1 or 2 messages, 2 requests to download | `NoSkippedId`, `NoSilentChange`, `PromiseKept` |
| `server_count` | 1 client, 3 payloads, datagrams of 0 or 1 message | `CountMatchesItems` is violated |
| `server_first` | 1 client, 1 payload, datagrams of 0 or 1 message | `EveryPayloadHandled` is violated |
| `page_route` | 2 points, missions of no or two waypoints, with or without return, messages readable or not, 4 clicks | `TypeOK`, `PageIsConsistent`, `UploadIsTheRoute`, `AnswerIsPublished` |
| `page_live` | 2 points, one of them negative, the page first or not, 2 clicks, 1 request of another page, 1 reload, 2 messages queued | `UploadIsTheRoute`, `WaitEnds` |
| `mavlink_channel` | bytes 0 to 7, a table of 5 messages, 3 of them sent (version 1, zeros, signed), 2 outside it, datagrams of up to 2 frames, buffers of 26 and 16 bytes, 1 datagram of noise or cut | `TypeOK`, `CleanDatagramsComeThrough`, `DeliveredIsAFrame`, `Recovers` |
| `websocket_connection` | 2 frames from the client, 2 from the main thread | `TypeOK`, `WriteOwnsBatch`, `NoStrandedFrame`, `LivesOneLife`, `HandshakeEnds`, `GoodbyeEnds`, `LostClientIsNoticed` |

**Why the bounds are enough.** Two downloads are the least with which an answer
can be late for the wrong one; three items the least with a first, middle and
last. Two retries let a request be repeated and the download give up.
Three payloads let one command wait while another is requested, executed and
requested again, the least with which one could overtake twice; or hold a point, an upload, and a clear or a second point
during it. For every number of payloads the safety properties are proved. Two clients and three
connections let one client close and come back while the other is being sent to. Datagrams of no message matter to what
clients are told, hence in `server_broadcast`, where two requests are the least that skip a number; the properties of `server_commands` are about
requests, which arrive between any two steps, and its datagrams have one message (with none as well its liveness takes twice as long and
shows the same).
The first connection of a server is mute, hence at least two connections in every run
whose client must be heard.
Four clicks draw two waypoints (a route of three), remove or move one and use a button, or upload,
change and upload again; a downloaded mission adds a route without clicks. Two queued
messages let a message of before the request arrive after it. In `page_live`
a mission that is shown starts an upload by itself, so two clicks and a reload give up to four uploads.
Two frames a datagram let noise spoil the next frame, and a buffer cut the second; the noise is a message outside the table, every beginning and every end of
a signed frame and every change of one byte of it, or of a frame of version 1, into a marker or another value. The datagrams are without end, so that
every state the noise leaves meets every datagram, from either socket.
Two frames from the client let a ping or a second close frame come between the first close frame and its end, two sends let
one frame wait behind the write of another and a third step of `send` come after the end.

**Deadlock** is checked in the runs of `GcsServer`, `GcsPage` and `MavlinkChannel`. A
download is one of at most `MaxSessions`, after which the model of
`MissionDownload` rightly stops; and a connection that has ended does nothing more.

**Fairness.** `MissionDownload!FairSpec`: the main thread goes on running its loop,
which never blocks (the socket is non-blocking), and time passes. Nothing is assumed
of the vehicle or the network. `GcsServer!FairSpec`: the main thread goes on.
This contains two assumptions about its surroundings: `recvfrom` returns, since an autopilot
sends telemetry all the time, and a download ends. The second is what `download_live`
shows without talkers and with a mission, and what `download_chatter` refutes with talkers. Nothing is assumed
of clients. (`CommandServed` and `UploadEnds` thus hold while both assumptions do.) `GcsPage!FairSpec`: messages and payloads are delivered, and the backend's loop broadcasts,
downloads and ends downloads, which is `GcsServer!FairSpec`; nothing is assumed of the user, reloads and
other pages. `MavlinkChannel!FairSpec`: telemetry keeps arriving and is parsed (noise is bounded, so it ceases).
`WsConnection!FairSpec`: the thread goes on processing frames it has read; `io_service` takes its
tasks in turn, so a timer expires and its handler runs, and a read of a dead socket fails, even if other tasks keep it
from being enabled all the time (strong fairness: the tasks wait while `handle_read_frame` loops). Nothing is
assumed of clients, of the main thread, and of writes, which may stall for ever.

**What the page runs show.** `PageIsConsistent`: every coordinate keeps its marker and every
list entry its coordinate, until the user is careless. `AnswerIsPublished`: an answer is exactly
the mission the backend published under the expected number, which for a
failed download is the old mission. `UploadIsTheRoute`: the list is the route, also after a reload
that cut an upload short, unless a coordinate is negative. `WaitEnds`: a page stops waiting, with two exceptions that its
statement names, each needed: its payloads are dropped (`mute`), or the number it waits for was replaced unseen by a second
download (`passedOver`). It rests on failed downloads being counted (the mutant that does
not count them is caught) and on what `NoSkippedId` says of the server.

**What the server's broadcast run shows.** `NoSkippedId` and `PromiseKept`: the ways to miss a number are those listed at `lost`
above and no others. The code has them all: `main` may download twice with no message between, and the set of connections is changed without a lock.

**When a download ends.** `DownloadTerminates` needs a network that repeats nothing, finitely many changes of the mission, an autopilot that sends
nothing unasked, and a mission: every message resets `retry_count`, a `MISSION_COUNT` of zero as well, and leaves `mission_count` at 0, so that
the list is asked for again without end. The property excepts the case that the vehicle has no mission and the download has no count.

`AnswerIsPublished` also says what happens to an answer that cannot be read: it is taken, its mission is not shown.

**What the channel run shows.** `CleanDatagramsComeThrough`: a datagram of whole frames that meets an idle parser arrives
message for message, zeros included, and leaves the parser idle, whichever socket reads it.
`DeliveredIsAFrame`: after any noise what is delivered is the bytes since the last marker with a good
checksum. One exception is in its statement: after a bad checksum the parser restarts on a marker of version 2 without
forgetting that the broken frame was of version 1, and parses what follows as version 1. `Recovers`: noise costs some messages only.

**What the connection run shows.** `NoStrandedFrame`: no order of the two threads loses the wakeup of the writer.
`WriteOwnsBatch`: the frames of a write under way are touched by nobody. `LivesOneLife`: a refinement. The three
liveness properties: a connection ends although its client never finishes the request, never reads, or is gone. The last
holds once a read is under way, and every path that processes frames must start one: the mutant of `ReadFlag` shows it.

**The four violations** are what the code does against what a text of the
repository says.

1. `EveryItemOnce` (`getMission.hpp:164`): the first request for the list is
   answered late, after its retry; the second `MISSION_COUNT` restarts the
   sequence over the items collected, and the download succeeds with
   items twice. `ItemsInSequence` and `StableMissionIsDownloaded` say what
   does hold: the newest items are the mission.
2. `DownloadTerminates` with telemetry (`getMission.hpp:150`): each message resets
   `retry_count`, so `MAX_RETRIES` is only reached in silence.
3. `CountMatchesItems` (`mission.hpp:226`): the page clears or extends the list
   while an upload pauses between count and items.
4. `EveryPayloadHandled` (`serverGC.cpp:250`): the first connection never has a message handler.

## 4. Proofs

All theorems are of the form `Spec => []P`, `Spec => [][A]_vars` or `Spec => Abstract!Spec`, from the
assumptions on the constants alone: for any number of clients, endpoints, items, downloads, retries and frames, any routes,
and any messages, tables, checksums and noise.

`Basics`
- `LeastElement` and `InductionFrom`: the library's induction theorems take a predicate, which the provers cannot instantiate. Stated
  with the set of the numbers for which the predicate holds, induction follows from the well-foundedness of `<`. The recursive functions
  of the models are definitions by `CHOOSE`; the proofs show with `InductionFrom` that there is a function to choose
  (`KeptExists`, `SearchExists`, `WireExists`, one of growing length after the other) and then what it computes.

`MissionDownloadProofs`
- `TypeCorrect`: `TypeOK`, strengthened by `RetriesLeft` (in the loop
  `retry_count < MAX_RETRIES`), without which `retry_count <= MAX_RETRIES` is not inductive.
- `SequenceCorrect`: `ItemsInSequence` is inductive with the types. An item is
  appended only with the expected number; a count resets the expected number to 0.
- `StableMissionCorrect`: `StableInv` says that (1) while the mission has not changed every
  reply in flight is about it, whichever download it was meant for, (2) the newest
  `expected_seq` items are its first items, (3) `download_complete` means the
  whole of it was collected.
- `FirstDownloadCorrect`: `FirstInv` says that in the first download no request beyond the end
  is in flight before the download is complete, hence no rejection.
- `TransferKeptCorrect`: the refinement of `MissionTransfer`. `HeldInv` says, whatever the vehicle changed, that every item in flight or
  collected is one of some mission at its place and every count a mission's length (`HeldReplies`), and that
  the loop ends with success only after as many items as were counted (`CompleteMeansAll`). The number of
  such an item is below the limit of `uint16_t`, so `expected_seq` never wraps (`HeldNumber`). With `ItemsInSequence` and
  `StableInv` the batch is a delivery (`CompleteIsDelivery`), and each step is one of the transfer or none (`TransferStep`).

`GcsServerProofs`
- `TypeCorrect`: `TypeOK` with `IndexInv`: a command runs at its own index,
  an iteration begins with the first, and nothing is left to broadcast
  outside the broadcast loop.
- `NoPhantomCorrect`: a flag that is set outside its own execution has a request
  to its credit (`RequestInv`).
- `BoundedOvertakingCorrect`: `OvertakeInv` relates the number of times `j` overtook `w` to
  where the loop stands between them.
- `QuietUploadCorrect`: `UploadInv`: unless the list was edited, the items sent are the
  first `i` of the list that was counted. `StepInv` ties each step to its command.

`MissionBoardProofs`
- `NumbersAreConsecutive`: `BoardInv` says that no client knows a number of the future, that one who knows the
  present number knows its mission, and that one the promise holds for knows at least the number before; hence what it is told
  grows one by one, and a number that is told again comes with the mission it had.

`GcsServerBoardProofs`
- `PromiseKeptCorrect`: `PromiseKept`, step by step. The telemetry part implements `Tell` and `Lose` (`TelemetryTells`), the
  end of a download `Publish` (`CommandsPublish`), the handlers `Join` and `Lose` (`ClientsJoin`). They need `ToldInv`: unless `untold`, every client that
  is not lost was told the number, and during a broadcast in any case unless it is still to be visited; the end of a download sets `untold`. When a download ends with the number before
  `untold`, all clients are lost to the board in the same step, so no assumption on `BatchSizes` is needed.
- `NoSkippedIdCorrect` and `NoSilentChangeCorrect` then follow from the board's theorem and from what a client knows when it connects.

`GcsPageProofs`
- `PageIsConsistentCorrect`: `Drawn` says how the list of a careful user counts: without gaps to the end of the route, from 1 when
  the route began at the drone or was downloaded, from 0 otherwise; and that the route is empty while a mission is awaited, so that
  an answer never meets a drawing. `PageIsConsistent` alone is not inductive: a new entry is the length of the route, which is
  its own only if the others are below, and an answer numbers from 1 whatever is there (`ShownIs`). One lemma per kind of click follows the edits of route, markers and entries.
- `AnswerIsPublishedCorrect`: with `PublishedInv`, every message on its way carries the mission published under
  its own number, however many downloads ago. `MessageStep` says when a message is shown and what it then leaves on the map.

- `UploadIsTheRouteCorrect`: `UploadInv` follows an upload from the page's queue to the backend's list, unless the page is `mute`: then only
  types are claimed, and a reload that ends it starts with an empty queue. Of every `uploadMission`
  in the queue, the messages before it are its waypoints and, before those, the one that clears the list (`Whole`), as far as they
  have not been handled; and when the clearing has, the list is the beginning of the waypoints that has been handled too (`Taken`). What the page sends of one cycle
  keeps that (`UploadIsWhole`), whatever flags it raised; a reload leaves a beginning of the queue, which keeps it. At the head of the queue
  this says that the list is `convertCoordinates` of the route, and that is the route if no coordinate is negative (`ConvertedIs`).
- `TypeCorrect`: with `ShowInv`, which the clicks need, and `UploadInv`, which has the type of the queue.

`MavlinkChannelProofs`
- `LookupCorrect`: the bisection finds the entry of a message, at the ends of the table too, for every table in order: by induction over the width of
  the part that is searched (`SearchFinds`), since the next part is narrower (`Narrower`).
- `TypeCorrect`: `TypeOK` is inductive with one addition, that nothing has been counted of a payload while the header is read.
- `DeliveredIsAFrameCorrect`: `FrameInv` says for each state of the parser what the bytes since the last marker are: the header read so far
  (`HeaderInv`: a field for each byte, at its place in either version), the header and as much of the payload as was counted (`PayloadInv`), all of it and one byte of the
  checksum (`CrcInv`), all but the rest of a signature (`SignatureInv`). `VersionInv` relates the marker to the flag that says how the header is read:
  in step but for the restart after a bad checksum. The zeros that are filled in change nothing of what was received (`ZeroFilledIs`).
- `CleanDatagramsCorrect`: `CleanInv` says that for a clean datagram there are `rest[0]`, `rest[1]`, ..., the bytes left after each of its messages, such that the
  bytes of the frame under way and those in the buffer together are the next message and its rest (`Synced`). So the next byte is never missing and never wrong: in the
  header by `HeaderAhead`, in the payload and at the first byte of the checksum by `PayloadAhead`, at the second by `CrcAhead`, in a signature by `SignatureAhead`.
  Each rests on what two parses of the same bytes must agree on (`HeadersAgree`, `BodiesAgree`, `FramesAgree`). The end of the datagram is then the end of
  the last frame, and the message is the one that was sent: what was trimmed were zeros (`TrimmedIs`), and zeros were filled in (`MessagesAgree`).

`WsConnectionProofs`
- `TypeCorrect`, `WriteOwnsBatchCorrect`: neither is inductive alone. `Guarded` adds `FlagIsKept`: the
  write flag is set without a write under way only in a connection that has ended.
- `NoStrandedCorrect`: from `Guarded`, action by action: each step that leaves a frame in the queue posts, writes or has the flag.
- `LivesOneLifeCorrect`: `LifeInv` has four parts: which handlers were called is told by the state (`Told`), the steps of the
  handshake follow each other (`Opening`), only a connection that was opened reads frames or is sent to (`Speaking`), and while it
  lives what was accepted is what went out followed by the queue, with a terminal frame only at the end, where the write flag is kept (`Ordered`). Each action
  then maps to one step of `ConnectionLife` or to none.

Only model-checked: the liveness properties, which are beyond the prover (`DownloadTerminates`, `CommandServed`,
`UploadEnds`, `WaitEnds`, `Recovers`, `HandshakeEnds`, `GoodbyeEnds`, `LostClientIsNoticed`). What is proved are the invariants and
action properties of the passing runs, all of them, the three refinements among them.

## 5. Not modelled

- The page's display of telemetry, panels and icons; the telemetry parser beyond the mission.
- The text of JSON and of the console, the values of telemetry and of the commands' parameters.
- `wait_for_mission_ack`, which nothing calls; `DroneDataClient`, which nothing constructs; the
  application shell generated from a template.
- Malformed waypoint payloads (an exception of `stod` in the handler ends the process).
- Of the MAVLink library: the generated code of the messages (fields to bytes and back; by far most of the repository's
  lines, several hundred messages in two languages, of which the backend uses a dozen), keys and replay of signatures, the
  statistics of the channel, `mavlink_parse_char`'s counters.
- Of the WebSocket library: the client's side, TLS, HTTP requests that are not handshakes, calls the backend does not make (`close`,
  `ping`, `pause_reading`), masking, fragments and the bytes of frames (`processors/hybi13.hpp`), the other
  transports, configuration, loggers and older protocol versions.
- So the share of the repository's lines that is modelled is small and stays small: more than nine tenths of them are generated or vendored, and the
  system's own logic is a few files, which are modelled nearly whole.

## 6. Plan

Done of the plan so far: the five components above, the three abstract specifications with the refinements
to them, and the proofs listed. What is left, in this order:

1. Frames as bytes in `WsConnection`: fragments, and control frames between them (`hybi13.hpp`).
2. `Gcs`: page and server composed without `MissionBoard` between them: fly and upload out of one click
   cycle, several pages. Each alone is near the limit of what TLC checks in minutes, so this needs a coarser server.
