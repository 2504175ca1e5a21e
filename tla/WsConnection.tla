---------------------------- MODULE WsConnection ----------------------------
(***************************************************************************)
(* One connection of the WebSocket library, on the side of the server:     *)
(* websocketpp/impl/connection_impl.hpp over transport/asio/connection.hpp.*)
(*                                                                         *)
(* Two threads use it.  The WebSocket thread runs the tasks of io_service  *)
(* one at a time: completed reads and writes, timers, posted calls.  The   *)
(* main thread only sends (broadcast_data), in three steps, because it     *)
(* holds a lock for the state, then one for the queue, then none.  A task  *)
(* is one action, except that reading goes frame by frame: nothing that    *)
(* the main thread does can tell the steps of a task apart.                *)
(*                                                                         *)
(* The application never closes a connection itself and sends no pings;    *)
(* frames are taken whole, and a pong from the client is like data; every  *)
(* HTTP request is a handshake, good or bad.                               *)
(***************************************************************************)
EXTENDS Integers, Sequences

CONSTANTS
  MaxReads,   \* bound: frames the client sends
  MaxSends    \* bound: frames the application sends

ASSUME BoundAssumption == MaxReads \in Nat /\ MaxSends \in Nat

VARIABLES
  m_state, m_internal_state,
  m_was_clean,        \* the closing handshake is complete
  m_send_queue, m_current_msgs, m_write_flag,
  m_handshake_timer,  \* the timer that terminate cancels, 0 for none
  timers,             \* all timers, in the order they were set
  m_response,         \* the handshake is accepted, or answered by an error
  \* the tasks of io_service that are under way
  responding,         \* the HTTP response is being written
  writes,             \* writes of frames under way
  posted,             \* calls of write_frame waiting to run
  reading,            \* the read under way
  looping, m_buf,     \* handle_read_frame runs; the frames it has still to process
  \* the main thread and the client
  sending,            \* where the main thread is in send
  client,             \* the client's socket works
  reads, sends,       \* counters for the bounds
  \* history
  calls, accepted, wire

writer  == <<m_send_queue, m_current_msgs, m_write_flag, writes, posted>>
reader  == <<reading, looping, m_buf, reads>>
state   == <<m_state, m_internal_state, m_was_clean, m_handshake_timer, timers>>
opening == <<m_response, responding>>
main    == <<sending, sends>>
history == <<calls, accepted, wire>>
vars == <<state, opening, writer, reader, main, client, history>>

Kinds == {"data", "pong", "close"}

(* The close frames of a server are all terminal: acknowledgements, and    *)
(* the codes that to_ws makes of protocol errors.                          *)
Frames == {f \in [kind : Kinds, n : 0..(MaxReads + MaxSends), terminal : BOOLEAN] :
             f.terminal = (f.kind = "close")}
Frame(kind, n) == [kind |-> kind, n |-> n, terminal |-> kind = "close"]

Init ==
  /\ m_state = "connecting" /\ m_internal_state = "USER_INIT" /\ m_was_clean = FALSE
  /\ m_send_queue = <<>> /\ m_current_msgs = <<>> /\ m_write_flag = FALSE
  /\ m_handshake_timer = 0 /\ timers = <<>>
  /\ m_response = "none" /\ responding = FALSE /\ writes = 0 /\ posted = 0
  /\ reading = "none" /\ looping = FALSE /\ m_buf = <<>>
  /\ sending = "idle" /\ client = TRUE /\ reads = 0 /\ sends = 0
  /\ calls = <<>> /\ accepted = <<>> /\ wire = <<>>
-----------------------------------------------------------------------------
(* Timers.  cancel is too late for a timer that expired: its task is       *)
(* already waiting, and will run as if nothing had happened.               *)

SetTimer_Never == UNCHANGED <<timers, m_handshake_timer>>
SetTimer ==
  /\ timers' = Append(timers, "waiting")
  /\ m_handshake_timer' = Len(timers) + 1

Cancelled(ts) ==
  [t \in DOMAIN ts |-> IF t = m_handshake_timer /\ ts[t] = "waiting" THEN "over" ELSE ts[t]]
CancelTimer == timers' = Cancelled(timers) /\ m_handshake_timer' = 0

(* terminate, and handle_terminate, which async_shutdown calls at once: a  *)
(* socket without TLS is shut down on the spot.  It is often called again. *)
Called == CASE m_state = "connecting" -> <<"fail">>
            [] m_state = "closed"     -> <<>>
            [] OTHER                  -> <<"close">>

Terminate(ts) ==
  /\ timers' = Cancelled(ts) /\ m_handshake_timer' = 0
  /\ m_state' = "closed"
  /\ calls' = calls \o Called
  /\ UNCHANGED <<m_internal_state, accepted, wire>>
terminate == Terminate(timers)

(* The WebSocket thread is not in handle_read_frame: it runs a task.       *)
Task == ~looping

TimerExpires(t) ==
  /\ Task /\ timers[t] = "waiting"
  /\ timers' = [timers EXCEPT ![t] = "expired"]
  /\ UNCHANGED <<m_state, m_internal_state, m_was_clean, m_handshake_timer>>
  /\ UNCHANGED <<opening, writer, reader, main, client, history>>

(* handle_open_handshake_timeout and handle_close_handshake_timeout.       *)
handle_timeout(t) ==
  /\ Task /\ timers[t] = "expired"
  /\ Terminate([timers EXCEPT ![t] = "over"])
  /\ UNCHANGED <<m_was_clean, opening, writer, reader, main, client>>
-----------------------------------------------------------------------------
(* The queue.  write_frame is always posted, never called.                 *)

NeedsWriting_BeforePush(queue) == ~m_write_flag /\ Len(queue) > 1
NeedsWriting(queue) == ~m_write_flag /\ queue # <<>>

write_push(frame) ==
  /\ m_send_queue' = Append(m_send_queue, frame)
  /\ accepted' = Append(accepted, frame)

(* pong, and the end of send_close_frame.                                  *)
PushAndPost(frame) ==
  /\ write_push(frame)
  /\ posted' = posted + (IF NeedsWriting(m_send_queue') THEN 1 ELSE 0)
  /\ UNCHANGED <<m_current_msgs, m_write_flag, writes>>

(* What write_pop yields until a terminal frame or the end of the queue.   *)
BatchLen(queue) ==
  CHOOSE n \in 0..Len(queue) :
    /\ \A k \in 1..(n - 1) : ~queue[k].terminal
    /\ n = Len(queue) \/ (n > 0 /\ queue[n].terminal)
Batch(queue) == SubSeq(queue, 1, BatchLen(queue))

(* After terminate nothing that is written reaches the socket.             *)
WriteAllowed_Always == TRUE
WriteAllowed == ~m_write_flag
write_frame ==
  /\ Task /\ posted > 0 /\ posted' = posted - 1
  /\ IF WriteAllowed /\ m_send_queue # <<>>
     THEN /\ m_current_msgs' = m_current_msgs \o Batch(m_send_queue)
          /\ m_send_queue' = SubSeq(m_send_queue, BatchLen(m_send_queue) + 1, Len(m_send_queue))
          /\ m_write_flag' = TRUE /\ writes' = writes + 1
          /\ wire' = IF m_state = "closed" THEN wire ELSE wire \o m_current_msgs'
     ELSE UNCHANGED <<m_current_msgs, m_send_queue, m_write_flag, writes, wire>>
  /\ UNCHANGED <<state, opening, reader, main, client, calls, accepted>>

WriteEnds(ok) ==
  /\ Task /\ writes > 0 /\ writes' = writes - 1
  /\ IF ok THEN wire # <<>> /\ wire[Len(wire)] = m_current_msgs[Len(m_current_msgs)]
     ELSE ~client \/ m_state = "closed"

(* The frames are cleared first; the flag is released only when all is     *)
(* well.  A write that ended before the socket was shut down may be        *)
(* reported afterwards.                                                    *)
Cleared_Never == m_current_msgs
Cleared == <<>>
handle_write_frame(ok) ==
  /\ WriteEnds(ok)
  /\ m_current_msgs' = Cleared
  /\ IF ~ok \/ m_current_msgs[Len(m_current_msgs)].terminal
     THEN terminate /\ UNCHANGED <<m_write_flag, posted>>
     ELSE /\ m_write_flag' = FALSE
          /\ posted' = posted + (IF m_send_queue # <<>> THEN 1 ELSE 0)
          /\ UNCHANGED <<m_state, m_internal_state, m_handshake_timer, timers, history>>
  /\ UNCHANGED <<m_was_clean, m_send_queue, opening, reader, main, client>>
-----------------------------------------------------------------------------
(* The opening handshake.                                                  *)

handle_accept(ok) ==
  /\ Task /\ m_internal_state = "USER_INIT" /\ m_state = "connecting"
  /\ IF ok
     THEN /\ m_internal_state' = "READ_HTTP_REQUEST"
          /\ SetTimer
          /\ reading' = "handshake"
          /\ UNCHANGED <<m_state, history>>
     ELSE terminate /\ UNCHANGED reading
  /\ UNCHANGED <<m_was_clean, opening, writer, looping, m_buf, reads, main, client>>

(* Frames may follow the request in the same read.                         *)
Incoming(frames) ==
  /\ client /\ reads + Len(frames) <= MaxReads
  /\ reads' = reads + Len(frames)
  /\ m_buf' = frames

ClientFrames == {"data", "ping", "close", "invalid_close", "protocol_error"}
ShortReads == {<<>>} \union {<<f>> : f \in ClientFrames} \union {<<f, g>> : f, g \in ClientFrames}

handle_read_handshake(request, frames) ==
  /\ Task /\ reading = "handshake"
  /\ CASE request = "error" ->
            /\ ~client \/ m_state = "closed"
            /\ frames = <<>> /\ reading' = "none"
            /\ terminate
            /\ UNCHANGED <<opening, m_buf, reads>>
       [] request = "partial" ->
            /\ client /\ frames = <<>>
            /\ reading' = IF m_state = "closed" THEN "none" ELSE "handshake"
            /\ UNCHANGED <<m_state, m_internal_state, m_handshake_timer, timers, history>>
            /\ UNCHANGED <<opening, m_buf, reads>>
       [] OTHER ->
            /\ Incoming(frames) /\ (request = "bad" => frames = <<>>)
            /\ reading' = "none"
            /\ IF m_state = "closed" THEN UNCHANGED <<m_internal_state, opening>>
               ELSE /\ m_internal_state' = "PROCESS_HTTP_REQUEST"
                    /\ m_response' = request /\ responding' = TRUE
            /\ UNCHANGED <<m_state, m_handshake_timer, timers, history>>
  /\ UNCHANGED <<m_was_clean, writer, looping, main, client>>

(* m_state is open before the open handler runs, and frames that were read *)
(* with the request are processed after it.                                *)
Abandoned_Never == FALSE
Abandoned == m_state = "closed"
handle_write_http_response(ok) ==
  /\ Task /\ responding /\ responding' = FALSE
  /\ ok \/ ~client \/ m_state = "closed"
  /\ CASE ~ok -> terminate /\ UNCHANGED looping
       [] ok /\ Abandoned ->
            UNCHANGED <<m_state, m_internal_state, m_handshake_timer, timers, looping, history>>
       [] ok /\ ~Abandoned /\ m_response = "bad" -> terminate /\ UNCHANGED looping
       [] OTHER ->
            /\ CancelTimer
            /\ m_internal_state' = "PROCESS_CONNECTION" /\ m_state' = "open"
            /\ calls' = Append(calls, "open")
            /\ looping' = TRUE
            /\ UNCHANGED <<accepted, wire>>
  /\ UNCHANGED <<m_was_clean, m_response, writer, reading, m_buf, reads, main, client>>
-----------------------------------------------------------------------------
(* Reading frames.                                                         *)

handle_read_frame(frames) ==
  /\ Task /\ reading = "frames"
  /\ Incoming(frames) /\ frames # <<>>
  /\ reading' = "none" /\ looping' = TRUE
  /\ UNCHANGED <<state, opening, writer, main, client, history>>

ReadFails ==
  /\ Task /\ reading = "frames" /\ (~client \/ m_state = "closed")
  /\ reading' = "none"
  /\ terminate
  /\ UNCHANGED <<m_was_clean, opening, writer, looping, m_buf, reads, main, client>>

ReadFlag_Cleared == FALSE
ReadFlag == TRUE
read_frame ==
  /\ looping /\ m_buf = <<>>
  /\ looping' = FALSE
  /\ reading' = IF ReadFlag THEN "frames" ELSE "none"
  /\ UNCHANGED <<state, opening, writer, m_buf, reads, main, client, history>>

Processes(kinds) ==
  /\ looping /\ m_buf # <<>> /\ Head(m_buf) \in kinds
  /\ UNCHANGED <<m_internal_state, opening, reads, main, client, wire>>

GoesOn == m_buf' = Tail(m_buf) /\ UNCHANGED <<reading, looping>>
Unmoved == UNCHANGED <<m_state, m_was_clean, m_handshake_timer, timers, calls>>

(* Nothing is answered: data goes to the application, if the connection is *)
(* open, and everything but a close frame is ignored if it is not.         *)
Ignored(kind) ==
  \/ kind = "data"
  \/ kind = "ping" /\ m_state # "open"
  \/ kind \in {"close", "invalid_close"} /\ m_state = "closed"

process_nothing ==
  /\ Processes({kind \in ClientFrames : Ignored(kind)})
  /\ GoesOn /\ Unmoved
  /\ UNCHANGED <<writer, accepted>>

process_ping ==
  /\ Processes({"ping"}) /\ m_state = "open"
  /\ GoesOn /\ Unmoved
  /\ PushAndPost(Frame("pong", reads))

send_close_frame ==
  /\ m_state' = "closing"
  /\ SetTimer
  /\ PushAndPost(Frame("close", 0))
  /\ UNCHANGED calls

(* While closing, a valid close frame is the client's acknowledgement or   *)
(* of no interest, and an invalid one is acknowledged, perhaps again.      *)
process_close ==
  /\ Processes({"close", "invalid_close"}) /\ m_state # "closed"
  /\ GoesOn
  /\ m_was_clean' = TRUE
  /\ IF m_state = "open" \/ Head(m_buf) = "invalid_close" THEN send_close_frame
     ELSE /\ IF m_was_clean
             THEN UNCHANGED <<m_state, timers, m_handshake_timer, calls, accepted>>
             ELSE terminate
          /\ UNCHANGED writer

(* After a protocol error nothing more is read, not even the client's      *)
(* acknowledgement.                                                        *)
consume_error ==
  /\ Processes({"protocol_error"})
  /\ m_buf' = <<>> /\ looping' = FALSE /\ UNCHANGED <<reading, m_was_clean>>
  /\ IF m_state = "open" THEN send_close_frame
     ELSE terminate /\ UNCHANGED writer
-----------------------------------------------------------------------------
(* The main thread: send, with the state checked under one lock and the    *)
(* frame queued under another.                                             *)

SendChecks ==
  /\ sending = "idle" /\ sends < MaxSends
  /\ m_state = "open"
  /\ sending' = "checked" /\ sends' = sends + 1
  /\ UNCHANGED <<state, opening, writer, reader, client, history>>

SendPushes ==
  /\ sending = "checked"
  /\ write_push(Frame("data", sends))
  /\ sending' = IF NeedsWriting(m_send_queue') THEN "dispatch" ELSE "idle"
  /\ UNCHANGED <<state, opening, m_current_msgs, m_write_flag, writes, posted>>
  /\ UNCHANGED <<reader, sends, client, calls, wire>>

SendDispatches ==
  /\ sending = "dispatch" /\ sending' = "idle"
  /\ posted' = posted + 1
  /\ UNCHANGED <<state, opening, m_send_queue, m_current_msgs, m_write_flag, writes>>
  /\ UNCHANGED <<reader, sends, client, history>>

ClientVanishes ==
  /\ client /\ client' = FALSE
  /\ UNCHANGED <<state, opening, writer, reader, main, history>>

Process == read_frame \/ process_nothing \/ process_ping \/ process_close \/ consume_error

Reads ==
  \/ \E request \in {"error", "partial", "ok", "bad"}, frames \in ShortReads :
       handle_read_handshake(request, frames)
  \/ \E frames \in ShortReads : handle_read_frame(frames)
  \/ ReadFails

Send == SendChecks \/ SendPushes \/ SendDispatches

Next ==
  \/ \E ok \in BOOLEAN : handle_accept(ok) \/ handle_write_http_response(ok) \/ handle_write_frame(ok)
  \/ Reads \/ Process
  \/ write_frame
  \/ \E t \in DOMAIN timers : TimerExpires(t) \/ handle_timeout(t)
  \/ Send
  \/ ClientVanishes

Spec == Init /\ [][Next]_vars

(* Fairness: the WebSocket thread goes on processing what it has read, and *)
(* io_service runs its tasks in turn; timers expire.  Nothing is assumed   *)
(* of clients, of the application or of writes that a slow client delays.  *)
TimerTask == \E t \in DOMAIN timers : TimerExpires(t) \/ handle_timeout(t)
FairSpec == Spec /\ WF_vars(Process) /\ SF_vars(TimerTask) /\ SF_vars(ReadFails)
-----------------------------------------------------------------------------
(* The variables hold values of their types; in particular no write begins *)
(* while another is under way.                                             *)
TypeOK ==
  /\ m_state \in {"connecting", "open", "closing", "closed"}
  /\ m_internal_state \in {"USER_INIT", "READ_HTTP_REQUEST", "PROCESS_HTTP_REQUEST",
                           "PROCESS_CONNECTION"}
  /\ m_was_clean \in BOOLEAN /\ m_response \in {"none", "ok", "bad"} /\ responding \in BOOLEAN
  /\ m_send_queue \in Seq(Frames) /\ m_current_msgs \in Seq(Frames) /\ m_write_flag \in BOOLEAN
  /\ timers \in Seq({"waiting", "expired", "over"}) /\ m_handshake_timer \in 0..Len(timers)
  /\ writes \in {0, 1} /\ posted \in Nat
  /\ reading \in {"none", "handshake", "frames"} /\ looping \in BOOLEAN
  /\ m_buf \in Seq(ClientFrames)
  /\ sending \in {"idle", "checked", "dispatch"} /\ client \in BOOLEAN
  /\ reads \in 0..MaxReads /\ sends \in 0..MaxSends
  /\ accepted \in Seq(Frames) /\ wire \in Seq(Frames)

(* A write and the frames it owns belong together: handle_write_frame does *)
(* not find m_current_msgs empty, write_frame never adds to the frames of  *)
(* a write under way, and the flag guards both.                            *)
WriteOwnsBatch ==
  /\ writes = 1 <=> m_current_msgs # <<>>
  /\ writes = 1 => m_write_flag

(* No frame is left lying in the queue: someone is going to write it, or   *)
(* the connection has ended and the flag was never released.               *)
NoStrandedFrame ==
  m_send_queue # <<>> =>
    \/ posted > 0 \/ writes > 0 \/ sending = "dispatch"
    \/ m_write_flag /\ m_state = "closed"

Life == INSTANCE ConnectionLife

(* The handlers are called in order and once, whatever comes together:     *)
(* timeouts too late to be cancelled, failing reads and writes, close      *)
(* frames; and what the two threads send goes out in the order in which it *)
(* was accepted, nothing after the close frame.                            *)
LivesOneLife == Life!Spec

(* A client that does not finish its request cannot hold the connection.   *)
HandshakeEnds == m_internal_state # "USER_INIT" ~> m_state # "connecting"

(* Once the closing handshake begins the close handler is called, even if  *)
(* the close frame is stuck behind a write that never ends.                *)
GoodbyeEnds == m_state = "closing" ~> calls = <<"open", "close">>

(* The application hears of every client that vanishes.                    *)
LostClientIsNoticed == ~client /\ m_state = "open" ~> calls = <<"open", "close">>
=============================================================================
