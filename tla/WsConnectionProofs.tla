------------------------- MODULE WsConnectionProofs -------------------------
(***************************************************************************)
(* Machine-checked proofs about WsConnection, for any number of frames     *)
(* sent and received.                                                      *)
(***************************************************************************)
EXTENDS WsConnection, Basics

TimerStates == {"waiting", "expired", "over"}

(* A batch is a nonempty beginning of the queue, and only its last frame   *)
(* may be terminal.                                                        *)
LEMMA BatchLenIs ==
  ASSUME NEW q \in Seq(Frames), q # <<>>
  PROVE  /\ BatchLen(q) \in 1..Len(q)
         /\ \A k \in 1..(BatchLen(q) - 1) : ~q[k].terminal
         /\ BatchLen(q) = Len(q) \/ q[BatchLen(q)].terminal
<1> DEFINE Good(n) == /\ \A k \in 1..(n - 1) : ~q[k].terminal
                      /\ n = Len(q) \/ (n > 0 /\ q[n].terminal)
           Ends == {n \in 1..Len(q) : q[n].terminal}
<1>1. Len(q) \in Nat /\ Len(q) > 0
  BY EmptySeq
<1>2. \E n \in 0..Len(q) : Good(n)
  <2>1. CASE Ends = {}
    <3>1. Good(Len(q))
      BY <2>1, <1>1
    <3>. QED  BY <3>1, <1>1
  <2>2. CASE Ends # {}
    <3>0. Ends \in SUBSET Nat
      BY <1>1
    <3>1. PICK n \in Ends : \A k \in Ends : n <= k
      <4> HIDE DEF Ends
      <4>. QED  BY <2>2, <3>0, LeastElement
    <3>2. Good(n)
      BY <3>1, <1>1
    <3>. QED  BY <3>1, <3>2, <1>1
  <2>. QED  BY <2>1, <2>2
<1>3. BatchLen(q) \in 0..Len(q) /\ Good(BatchLen(q))
  BY <1>2 DEF BatchLen
<1>. QED  BY <1>1, <1>3

LEMMA BatchIs ==
  ASSUME NEW q \in Seq(Frames), q # <<>>
  PROVE  /\ Batch(q) \in Seq(Frames) /\ Len(Batch(q)) = BatchLen(q)
         /\ \A k \in 1..BatchLen(q) : Batch(q)[k] = q[k]
         /\ SubSeq(q, BatchLen(q) + 1, Len(q)) \in Seq(Frames)
         /\ Batch(q) \o SubSeq(q, BatchLen(q) + 1, Len(q)) = q
<1> DEFINE n == BatchLen(q)
<1>1. n \in 1..Len(q) /\ Len(q) \in Nat
  BY BatchLenIs
<1>2. \A i \in 1..Len(q) : q[i] \in Frames
  BY ElementOfSeq
<1>3. /\ SubSeq(q, 1, n) \in Seq(Frames) /\ Len(SubSeq(q, 1, n)) = n
      /\ \A k \in 1..n : SubSeq(q, 1, n)[k] = q[k]
  <2>1. \A i \in 1..n : q[i] \in Frames
    BY <1>1, <1>2
  <2>. QED  BY <1>1, <2>1, SubSeqProperties
<1>4. SubSeq(q, n + 1, Len(q)) \in Seq(Frames)
  <2>1. \A i \in (n + 1)..Len(q) : q[i] \in Frames
    BY <1>1, <1>2
  <2>. QED  BY <1>1, <2>1, SubSeqProperties
<1>5. SubSeq(q, 1, n) \o SubSeq(q, n + 1, Len(q)) = SubSeq(q, 1, Len(q))
  BY <1>1, ConcatAdjacentSubSeq
<1>6. SubSeq(q, 1, Len(q)) = q
  BY SubSeqFull
<1>. QED  BY <1>3, <1>4, <1>5, <1>6 DEF Batch

(* Timers. *)
LEMMA CancelledType ==
  ASSUME NEW ts \in Seq(TimerStates)
  PROVE  Cancelled(ts) \in Seq(TimerStates) /\ Len(Cancelled(ts)) = Len(ts)
<1>1. Len(ts) \in Nat /\ DOMAIN ts = 1..Len(ts) /\ \A t \in 1..Len(ts) : ts[t] \in TimerStates
  BY LenProperties, ElementOfSeq
<1>2. Cancelled(ts) \in [1..Len(ts) -> TimerStates]
  BY <1>1 DEF Cancelled, TimerStates
<1>. QED  BY <1>1, <1>2

LEMMA FrameTypes ==
  /\ \A n \in 0..(MaxReads + MaxSends), kind \in Kinds : Frame(kind, n) \in Frames
  /\ \A f \in Frames : f.terminal \in BOOLEAN
BY DEF Frame, Frames, Kinds
-----------------------------------------------------------------------------
(* Type correctness.                                                       *)

(* The flag guards the write under way, and is kept after the last one.    *)
FlagIsKept == m_write_flag /\ writes = 0 => m_state = "closed"

Guarded == TypeOK /\ WriteOwnsBatch /\ FlagIsKept

TimersOK == timers \in Seq(TimerStates) /\ m_handshake_timer \in 0..Len(timers)

LEMMA TerminateTypes ==
  ASSUME TypeOK, NEW ts \in Seq(TimerStates), Terminate(ts)
  PROVE  TimersOK' /\ m_state' = "closed" /\ UNCHANGED m_internal_state
<1>1. timers' = Cancelled(ts) /\ m_handshake_timer' = 0 /\ m_state' = "closed"
      /\ UNCHANGED m_internal_state
  BY DEF Terminate
<1>2. Cancelled(ts) \in Seq(TimerStates)
  BY CancelledType
<1>3. Len(timers') \in Nat
  BY <1>1, <1>2, LenProperties
<1>. QED  BY <1>1, <1>2, <1>3 DEF TimersOK

LEMMA SetTimerTypes ==
  ASSUME TypeOK, SetTimer
  PROVE  TimersOK'
<1>1. timers \in Seq(TimerStates) /\ timers' = Append(timers, "waiting")
      /\ m_handshake_timer' = Len(timers) + 1
  BY DEF SetTimer, TypeOK, TimerStates
<1>2. "waiting" \in TimerStates
  BY DEF TimerStates
<1>3. timers' \in Seq(TimerStates) /\ Len(timers') = Len(timers) + 1 /\ Len(timers) \in Nat
  BY <1>1, <1>2, AppendProperties, LenProperties
<1>. QED  BY <1>1, <1>3 DEF TimersOK

LEMMA TimerSteps ==
  ASSUME TypeOK, NEW t \in DOMAIN timers, NEW s \in TimerStates
  PROVE  /\ [timers EXCEPT ![t] = s] \in Seq(TimerStates)
         /\ Len([timers EXCEPT ![t] = s]) = Len(timers)
<1>1. timers \in Seq(TimerStates)
  BY DEF TypeOK, TimerStates
<1>2. t \in 1..Len(timers)
  BY <1>1, LenProperties
<1>. QED  BY <1>1, <1>2, ExceptSeq

LEMMA PushTypes ==
  ASSUME TypeOK, NEW f \in Frames, write_push(f)
  PROVE  /\ m_send_queue' \in Seq(Frames) /\ m_send_queue' # <<>>
         /\ accepted' \in Seq(Frames)
<1>1. m_send_queue \in Seq(Frames) /\ accepted \in Seq(Frames)
  BY DEF TypeOK
<1>2. m_send_queue' = Append(m_send_queue, f) /\ accepted' = Append(accepted, f)
  BY DEF write_push
<1>. QED  BY <1>1, <1>2, AppendProperties

LEMMA PushAndPostTypes ==
  ASSUME TypeOK, NEW f \in Frames, PushAndPost(f)
  PROVE  /\ m_send_queue' \in Seq(Frames) /\ m_send_queue' # <<>>
         /\ accepted' \in Seq(Frames)
         /\ posted' \in Nat /\ (m_write_flag \/ posted' > 0)
         /\ UNCHANGED <<m_current_msgs, m_write_flag, writes>>
<1>1. write_push(f)
  BY DEF PushAndPost
<1>2. m_send_queue' # <<>> /\ m_send_queue' \in Seq(Frames) /\ accepted' \in Seq(Frames)
  BY <1>1, PushTypes
<1>. QED  BY <1>2 DEF PushAndPost, NeedsWriting, TypeOK

LEMMA TypeInit == Init => Guarded
<1>1. /\ <<>> \in Seq(Frames) /\ <<>> \in Seq(ClientFrames)
      /\ <<>> \in Seq({"waiting", "expired", "over"}) /\ Len(<<>>) = 0
  BY EmptySeq
<1>. SUFFICES ASSUME Init PROVE Guarded
  OBVIOUS
<1>2. TypeOK
  <2>1. m_handshake_timer \in 0..Len(timers)
    BY <1>1 DEF Init
  <2>2. /\ m_send_queue \in Seq(Frames) /\ m_current_msgs \in Seq(Frames)
        /\ accepted \in Seq(Frames) /\ wire \in Seq(Frames) /\ m_buf \in Seq(ClientFrames)
        /\ timers \in Seq({"waiting", "expired", "over"})
    BY <1>1 DEF Init
  <2>3. posted \in Nat /\ reads \in 0..MaxReads /\ sends \in 0..MaxSends /\ writes \in {0, 1}
    BY BoundAssumption DEF Init
  <2>. QED  BY <2>1, <2>2, <2>3 DEF Init, TypeOK
<1>3. WriteOwnsBatch /\ FlagIsKept
  BY DEF Init, WriteOwnsBatch, FlagIsKept
<1>. QED  BY <1>2, <1>3 DEF Guarded

LEMMA ShortReadTypes ==
  ASSUME NEW frames \in ShortReads
  PROVE  frames \in Seq(ClientFrames) /\ Len(frames) \in Nat
<1>1. CASE frames = <<>>
  BY <1>1, EmptySeq
<1>2. ASSUME NEW f \in ClientFrames, frames = <<f>> PROVE frames \in Seq(ClientFrames)
  BY <1>2
<1>3. ASSUME NEW f \in ClientFrames, NEW g \in ClientFrames, frames = <<f, g>>
      PROVE  frames \in Seq(ClientFrames)
  BY <1>3
<1>4. frames \in Seq(ClientFrames)
  BY <1>1, <1>2, <1>3, EmptySeq DEF ShortReads
<1>. QED  BY <1>4, LenProperties

LEMMA TypeStep ==
  ASSUME Guarded, [Next]_vars
  PROVE  Guarded'
<1>0. TypeOK /\ WriteOwnsBatch /\ FlagIsKept
  BY DEF Guarded
<1>. USE <1>0, BoundAssumption
<1>a. ASSUME terminate, UNCHANGED <<m_was_clean, writer, looping, main, client>>,
             reading' \in {"none", "handshake", "frames"}, m_buf' \in Seq(ClientFrames),
             reads' \in 0..MaxReads, UNCHANGED m_response, responding' \in BOOLEAN
      PROVE  Guarded'
  <2>1. TimersOK' /\ m_state' = "closed" /\ UNCHANGED <<m_internal_state, accepted, wire>>
    BY <1>a, TerminateTypes DEF terminate, Terminate, TypeOK, TimerStates
  <2>. QED  BY <1>a, <2>1 DEF Guarded, TypeOK, WriteOwnsBatch, FlagIsKept, TimersOK, TimerStates,
         writer, main
<1>1. ASSUME NEW ok \in BOOLEAN, handle_accept(ok) PROVE Guarded'
  <2>1. CASE ok
    <3>1. TimersOK'
      BY <1>1, <2>1, SetTimerTypes DEF handle_accept
    <3>. QED  BY <1>1, <2>1, <3>1
      DEF handle_accept, Guarded, TypeOK, WriteOwnsBatch, FlagIsKept, TimersOK, TimerStates,
          opening, writer, main, history
  <2>2. CASE ~ok
    BY <1>1, <2>2, <1>a DEF handle_accept, opening, TypeOK
  <2>. QED  BY <2>1, <2>2
<1>2. ASSUME NEW ok \in BOOLEAN, handle_write_http_response(ok) PROVE Guarded'
  <2>1. CASE terminate /\ UNCHANGED looping
    BY <1>2, <2>1, <1>a DEF handle_write_http_response, TypeOK
  <2>2. CASE UNCHANGED <<m_state, m_internal_state, m_handshake_timer, timers, looping, history>>
    <3>1. /\ responding' = FALSE
          /\ UNCHANGED <<m_was_clean, m_response, writer, reading, m_buf, reads, main, client>>
      BY <1>2 DEF handle_write_http_response
      <3>2a. /\ m_was_clean' \in BOOLEAN /\ responding' \in BOOLEAN /\ m_write_flag' \in BOOLEAN
            /\ looping' \in BOOLEAN /\ client' \in BOOLEAN
        BY <2>2, <3>1 DEF TypeOK, writer, main, history
      <3>2. TypeOK'
        BY <2>2, <3>1, <3>2a DEF TypeOK, writer, main, history
    <3>3. WriteOwnsBatch' /\ FlagIsKept'
      BY <2>2, <3>1 DEF WriteOwnsBatch, FlagIsKept, writer
    <3>. QED  BY <3>2, <3>3 DEF Guarded
  <2>3. CASE /\ CancelTimer /\ ~Abandoned
             /\ m_internal_state' = "PROCESS_CONNECTION" /\ m_state' = "open"
             /\ looping' = TRUE /\ UNCHANGED <<accepted, wire>>
    <3>1. timers \in Seq(TimerStates)
      BY DEF TypeOK, TimerStates
    <3>2. TimersOK'
      BY <2>3, <3>1, CancelledType, LenProperties DEF CancelTimer, TimersOK
    <3>3. ~(m_write_flag /\ writes = 0)
      BY <2>3 DEF FlagIsKept, Abandoned
    <3>. QED  BY <1>2, <2>3, <3>2, <3>3 DEF handle_write_http_response, Guarded, TypeOK,
           WriteOwnsBatch, FlagIsKept, TimersOK, TimerStates, writer, main
  <2>. QED  BY <1>2, <2>1, <2>2, <2>3 DEF handle_write_http_response
<1>3. ASSUME NEW ok \in BOOLEAN, handle_write_frame(ok) PROVE Guarded'
  <2>0. writes = 1 /\ writes' = 0 /\ m_current_msgs' = <<>> /\ m_write_flag
    BY <1>3 DEF handle_write_frame, WriteEnds, Cleared, TypeOK, WriteOwnsBatch
  <2>1. CASE terminate /\ UNCHANGED <<m_write_flag, posted>>
    <3>1. TimersOK' /\ m_state' = "closed" /\ UNCHANGED <<m_internal_state, accepted, wire>>
      BY <2>1, TerminateTypes DEF terminate, Terminate, TypeOK, TimerStates
    <3>. QED  BY <1>3, <2>0, <2>1, <3>1 DEF handle_write_frame, Guarded, TypeOK, WriteOwnsBatch,
           FlagIsKept, TimersOK, TimerStates, opening, reader, main
  <2>2. CASE /\ m_write_flag' = FALSE
             /\ posted' = posted + (IF m_send_queue # <<>> THEN 1 ELSE 0)
             /\ UNCHANGED <<m_state, m_internal_state, m_handshake_timer, timers, history>>
    <3>1. UNCHANGED <<m_was_clean, m_send_queue, opening, reader, main, client>>
      BY <1>3 DEF handle_write_frame
    <3>2. posted' \in Nat /\ m_current_msgs' \in Seq(Frames)
      BY <2>0, <2>2, EmptySeq DEF TypeOK
      <3>3a. /\ m_was_clean' \in BOOLEAN /\ responding' \in BOOLEAN /\ m_write_flag' \in BOOLEAN
            /\ looping' \in BOOLEAN /\ client' \in BOOLEAN
        BY <2>0, <2>2, <3>1, <3>2 DEF TypeOK, opening, reader, main, history
      <3>3. TypeOK'
        BY <2>0, <2>2, <3>1, <3>2, <3>3a DEF TypeOK, opening, reader, main, history
    <3>4. WriteOwnsBatch' /\ FlagIsKept'
      BY <2>0, <2>2 DEF WriteOwnsBatch, FlagIsKept
    <3>. QED  BY <3>3, <3>4 DEF Guarded
  <2>. QED  BY <1>3, <2>1, <2>2 DEF handle_write_frame
<1>4. ASSUME NEW request \in {"error", "partial", "ok", "bad"}, NEW frames \in ShortReads,
             handle_read_handshake(request, frames)
      PROVE  Guarded'
  <2>1. CASE request = "error"
    BY <1>4, <2>1, <1>a DEF handle_read_handshake, TypeOK, opening
  <2>2. CASE request = "partial"
    BY <1>4, <2>2 DEF handle_read_handshake, Guarded, TypeOK, WriteOwnsBatch, FlagIsKept,
      writer, main, history, opening
  <2>3. CASE request \in {"ok", "bad"}
    <3>1. m_buf' \in Seq(ClientFrames) /\ reads' \in 0..MaxReads
      BY <1>4, <2>3, ShortReadTypes DEF handle_read_handshake, Incoming, TypeOK
    <3>. QED  BY <1>4, <2>3, <3>1 DEF handle_read_handshake, Guarded, TypeOK, WriteOwnsBatch,
           FlagIsKept, writer, main, history, opening
  <2>. QED  BY <2>1, <2>2, <2>3
<1>5. ASSUME NEW frames \in ShortReads, handle_read_frame(frames) PROVE Guarded'
  <2>1. m_buf' \in Seq(ClientFrames) /\ reads' \in 0..MaxReads
    BY <1>5, ShortReadTypes DEF handle_read_frame, Incoming, TypeOK
  <2>. QED  BY <1>5, <2>1 DEF handle_read_frame, Guarded, TypeOK, WriteOwnsBatch, FlagIsKept,
         state, writer, main, history, opening
<1>6. CASE ReadFails
  BY <1>6, <1>a DEF ReadFails, TypeOK, opening
<1>7. CASE read_frame
  <2>1. /\ looping' = FALSE /\ reading' = "frames"
        /\ UNCHANGED <<state, opening, writer, m_buf, reads, main, client, history>>
    BY <1>7 DEF read_frame, ReadFlag
    <2>2a. /\ m_was_clean' \in BOOLEAN /\ responding' \in BOOLEAN /\ m_write_flag' \in BOOLEAN
          /\ looping' \in BOOLEAN /\ client' \in BOOLEAN
      BY <2>1 DEF TypeOK, state, opening, writer, main, history
    <2>2. TypeOK'
      BY <2>1, <2>2a DEF TypeOK, state, opening, writer, main, history
  <2>3. WriteOwnsBatch' /\ FlagIsKept'
    BY <2>1 DEF WriteOwnsBatch, FlagIsKept, state, writer
  <2>. QED  BY <2>2, <2>3 DEF Guarded
<1>8. ASSUME NEW kinds, Processes(kinds)
      PROVE  /\ Tail(m_buf) \in Seq(ClientFrames) /\ <<>> \in Seq(ClientFrames)
             /\ reads \in 0..(MaxReads + MaxSends)
             /\ UNCHANGED <<m_internal_state, opening, reads, main, client, wire>>
  <2>1. m_buf \in Seq(ClientFrames) /\ m_buf # <<>> /\ reads \in 0..MaxReads
    BY <1>8 DEF Processes, TypeOK
  <2>2. Tail(m_buf) \in Seq(ClientFrames)
    BY <2>1, HeadTailProperties
  <2>. QED  BY <1>8, <2>1, <2>2, EmptySeq DEF Processes
<1>9. CASE process_nothing
  <2>1. Tail(m_buf) \in Seq(ClientFrames)
        /\ UNCHANGED <<m_internal_state, opening, reads, main, client, wire>>
    BY <1>9, <1>8 DEF process_nothing
  <2>. QED  BY <1>9, <2>1 DEF process_nothing, GoesOn, Unmoved, Guarded, TypeOK, WriteOwnsBatch,
         FlagIsKept, writer, main, opening
<1>10. CASE process_ping
  <2>1. Tail(m_buf) \in Seq(ClientFrames) /\ reads \in 0..(MaxReads + MaxSends)
        /\ UNCHANGED <<m_internal_state, opening, reads, main, client, wire>>
    BY <1>10, <1>8 DEF process_ping
  <2>2. Frame("pong", reads) \in Frames
    BY <2>1, FrameTypes DEF Kinds
  <2>3. /\ m_send_queue' \in Seq(Frames) /\ accepted' \in Seq(Frames) /\ posted' \in Nat
        /\ UNCHANGED <<m_current_msgs, m_write_flag, writes>>
    BY <1>10, <2>2, PushAndPostTypes DEF process_ping
  <2>. QED  BY <1>10, <2>1, <2>3 DEF process_ping, GoesOn, Unmoved, Guarded, TypeOK,
         WriteOwnsBatch, FlagIsKept, main, opening
<1>b. ASSUME send_close_frame, m_state # "closed", m_was_clean' \in BOOLEAN,
             UNCHANGED <<m_internal_state, opening, reads, main, client, wire>>,
             m_buf' \in Seq(ClientFrames), reading' = reading, looping' \in BOOLEAN
      PROVE  Guarded'
  <2>1. 0 \in 0..(MaxReads + MaxSends)
    OBVIOUS
  <2>2. Frame("close", 0) \in Frames
    BY <2>1, FrameTypes DEF Kinds
  <2>3. /\ m_send_queue' \in Seq(Frames) /\ accepted' \in Seq(Frames) /\ posted' \in Nat
        /\ UNCHANGED <<m_current_msgs, m_write_flag, writes>>
    BY <1>b, <2>2, PushAndPostTypes DEF send_close_frame
  <2>4. TimersOK' /\ m_state' = "closing"
    BY <1>b, SetTimerTypes DEF send_close_frame
  <2>. QED  BY <1>b, <2>3, <2>4 DEF Guarded, TypeOK, WriteOwnsBatch, FlagIsKept, TimersOK,
         TimerStates, main, opening
<1>11. CASE process_close
  <2>1. Tail(m_buf) \in Seq(ClientFrames)
        /\ UNCHANGED <<m_internal_state, opening, reads, main, client, wire>>
    BY <1>11, <1>8 DEF process_close
  <2>2. CASE send_close_frame
    BY <1>11, <2>1, <2>2, <1>b DEF process_close, GoesOn, TypeOK
  <2>3. CASE UNCHANGED <<m_state, timers, m_handshake_timer, calls, accepted, writer>>
    BY <1>11, <2>1, <2>3 DEF process_close, GoesOn, Guarded, TypeOK, WriteOwnsBatch, FlagIsKept,
      writer, main, opening
  <2>4. CASE terminate /\ UNCHANGED writer
    <3>1. TimersOK' /\ m_state' = "closed" /\ UNCHANGED <<m_internal_state, accepted, wire>>
      BY <2>4, TerminateTypes DEF terminate, Terminate, TypeOK, TimerStates
    <3>. QED  BY <1>11, <2>1, <2>4, <3>1 DEF process_close, GoesOn, Guarded, TypeOK,
           WriteOwnsBatch, FlagIsKept, TimersOK, TimerStates, writer, main, opening
  <2>. QED  BY <1>11, <2>2, <2>3, <2>4 DEF process_close
<1>12. CASE consume_error
  <2>1. <<>> \in Seq(ClientFrames)
        /\ UNCHANGED <<m_internal_state, opening, reads, main, client, wire>>
    BY <1>12, <1>8 DEF consume_error
  <2>2. CASE m_state = "open"
    BY <1>12, <2>1, <2>2, <1>b DEF consume_error, TypeOK
  <2>3. CASE m_state # "open"
    <3>1. terminate /\ UNCHANGED writer
      BY <1>12, <2>3 DEF consume_error
    <3>2. TimersOK' /\ m_state' = "closed" /\ UNCHANGED <<m_internal_state, accepted, wire>>
      BY <3>1, TerminateTypes DEF terminate, Terminate, TypeOK, TimerStates
    <3>. QED  BY <1>12, <2>1, <3>1, <3>2 DEF consume_error, Guarded, TypeOK,
           WriteOwnsBatch, FlagIsKept, TimersOK, TimerStates, writer, main, opening
  <2>. QED  BY <2>2, <2>3
<1>13. CASE write_frame
  <2>0. posted' \in Nat /\ UNCHANGED <<state, opening, reader, main, client, calls, accepted>>
    BY <1>13 DEF write_frame, TypeOK
  <2>1. CASE WriteAllowed /\ m_send_queue # <<>>
    <3>1. m_current_msgs = <<>> /\ writes = 0 /\ m_write_flag = FALSE
      BY <2>1 DEF WriteAllowed, WriteOwnsBatch, TypeOK
    <3>2. m_send_queue \in Seq(Frames) /\ wire \in Seq(Frames)
      BY DEF TypeOK
    <3>3. Batch(m_send_queue) \in Seq(Frames) /\ Len(Batch(m_send_queue)) > 0
          /\ SubSeq(m_send_queue, BatchLen(m_send_queue) + 1, Len(m_send_queue)) \in Seq(Frames)
      BY <2>1, <3>2, BatchIs, BatchLenIs
    <3>4. m_current_msgs' = Batch(m_send_queue)
      BY <1>13, <2>1, <3>1, <3>3, ConcatEmptySeq DEF write_frame
    <3>5. m_current_msgs' # <<>> /\ m_current_msgs' \in Seq(Frames)
      BY <3>3, <3>4, EmptySeq
    <3>6. wire' \in Seq(Frames)
      BY <1>13, <2>1, <3>2, <3>5, ConcatProperties DEF write_frame
    <3>6a. m_write_flag'
      BY <1>13, <2>1 DEF write_frame
    <3>6b. /\ writes' = writes + 1
           /\ m_send_queue' = SubSeq(m_send_queue, BatchLen(m_send_queue) + 1, Len(m_send_queue))
      BY <1>13, <2>1, Zenon DEF write_frame
    <3>7. m_send_queue' \in Seq(Frames) /\ writes' = 1
      BY <3>1, <3>3, <3>6b
    <3>8. TypeOK'
      BY <2>0, <3>5, <3>6, <3>6a, <3>7 DEF TypeOK, state, opening, reader, main
    <3>9. WriteOwnsBatch' /\ FlagIsKept'
      BY <3>5, <3>6a, <3>7 DEF WriteOwnsBatch, FlagIsKept
    <3>. QED  BY <3>8, <3>9 DEF Guarded
  <2>2. CASE ~(WriteAllowed /\ m_send_queue # <<>>)
    BY <1>13, <2>0, <2>2 DEF write_frame, Guarded, TypeOK, WriteOwnsBatch, FlagIsKept,
      state, opening, reader, main
  <2>. QED  BY <2>1, <2>2
<1>14. ASSUME NEW t \in DOMAIN timers, TimerExpires(t) PROVE Guarded'
  <2>1. timers' \in Seq(TimerStates) /\ Len(timers') = Len(timers)
    BY <1>14, TimerSteps DEF TimerExpires, TimerStates
  <2>. QED  BY <1>14, <2>1 DEF TimerExpires, Guarded, TypeOK, WriteOwnsBatch, FlagIsKept,
         TimerStates, opening, writer, reader, main, history
<1>15. ASSUME NEW t \in DOMAIN timers, handle_timeout(t) PROVE Guarded'
  <2>1. [timers EXCEPT ![t] = "over"] \in Seq(TimerStates)
    BY <1>15, TimerSteps DEF TimerStates
  <2>2. TimersOK' /\ m_state' = "closed" /\ UNCHANGED m_internal_state
    BY <1>15, <2>1, TerminateTypes DEF handle_timeout
  <2>. QED  BY <1>15, <2>2 DEF handle_timeout, Terminate, Guarded, TypeOK, WriteOwnsBatch,
         FlagIsKept, TimersOK, TimerStates, opening, writer, reader, main
<1>16. CASE SendChecks
  BY <1>16 DEF SendChecks, Guarded, TypeOK, WriteOwnsBatch, FlagIsKept,
    state, opening, writer, reader, history
<1>17. CASE SendPushes
  <2>1. sends \in 0..(MaxReads + MaxSends)
    BY DEF TypeOK
  <2>2. Frame("data", sends) \in Frames
    BY <2>1, FrameTypes DEF Kinds
  <2>3. m_send_queue' \in Seq(Frames) /\ accepted' \in Seq(Frames)
    BY <1>17, <2>2, PushTypes DEF SendPushes
  <2>. QED  BY <1>17, <2>3 DEF SendPushes, Guarded, TypeOK, WriteOwnsBatch, FlagIsKept,
         state, opening, reader
<1>18. CASE SendDispatches
  BY <1>18 DEF SendDispatches, Guarded, TypeOK, WriteOwnsBatch, FlagIsKept,
    state, opening, reader, history
<1>19. CASE ClientVanishes
  <2>1. client' = FALSE /\ UNCHANGED <<state, opening, writer, reader, main, history>>
    BY <1>19 DEF ClientVanishes
    <2>2a. /\ m_was_clean' \in BOOLEAN /\ responding' \in BOOLEAN /\ m_write_flag' \in BOOLEAN
          /\ looping' \in BOOLEAN /\ client' \in BOOLEAN
      BY <2>1 DEF TypeOK, state, opening, writer, reader, main, history
    <2>2. TypeOK'
      BY <2>1, <2>2a DEF TypeOK, state, opening, writer, reader, main, history
  <2>3. WriteOwnsBatch' /\ FlagIsKept'
    BY <2>1 DEF WriteOwnsBatch, FlagIsKept, state, writer
  <2>. QED  BY <2>2, <2>3 DEF Guarded
<1>20. CASE UNCHANGED vars
  BY <1>20 DEF vars, Guarded, TypeOK, WriteOwnsBatch, FlagIsKept,
    state, opening, writer, reader, main, history
<1>. QED  BY <1>1, <1>2, <1>3, <1>4, <1>5, <1>6, <1>7, <1>9, <1>10, <1>11, <1>12, <1>13, <1>14,
            <1>15, <1>16, <1>17, <1>18, <1>19, <1>20 DEF Next, Reads, Process, Send

(* The variables of TypeOK, WriteOwnsBatch and FlagIsKept hold values of   *)
(* their types, and the flag guards the frames being written, in every     *)
(* behaviour of both threads.                                              *)
LEMMA GuardedCorrect == Spec => []Guarded
<1>1. Init => Guarded
  BY TypeInit
<1>2. Guarded /\ [Next]_vars => Guarded'
  BY TypeStep
<1>. QED  BY <1>1, <1>2, PTL DEF Spec

(* The state of a connection stays within its types; no write of frames    *)
(* ever begins while another is under way.                                 *)
THEOREM TypeCorrect == Spec => []TypeOK
<1>1. Guarded => TypeOK
  BY DEF Guarded
<1>. QED  BY <1>1, GuardedCorrect, PTL

(* handle_write_frame always finds the frames of its own write, and only   *)
(* those, in m_current_msgs.                                               *)
THEOREM WriteOwnsBatchCorrect == Spec => []WriteOwnsBatch
<1>1. Guarded => WriteOwnsBatch
  BY DEF Guarded
<1>. QED  BY <1>1, GuardedCorrect, PTL
-----------------------------------------------------------------------------
(* No frame is stranded.                                                   *)

(* A frame may be left by a step that finds the flag set: then a write is  *)
(* under way, whose end posts the next one, or the connection has ended.   *)
LEMMA NoStrandedStep ==
  ASSUME Guarded, NoStrandedFrame, [Next]_vars
  PROVE  NoStrandedFrame'
<1>. USE DEF NoStrandedFrame
<1>0. /\ posted \in Nat /\ writes \in {0, 1} /\ m_write_flag \in BOOLEAN
      /\ writes = 1 => m_write_flag
      /\ m_write_flag /\ writes = 0 => m_state = "closed"
  BY DEF Guarded, TypeOK, WriteOwnsBatch, FlagIsKept
<1>a. ASSUME UNCHANGED <<writer, main>>, m_state = "closed" => m_state' = "closed"
      PROVE  NoStrandedFrame'
  BY <1>a DEF writer, main
<1>b. ASSUME NEW f, PushAndPost(f), m_state # "closed", UNCHANGED main
      PROVE  NoStrandedFrame'
  <2>1. m_write_flag => writes' = 1
    BY <1>b, <1>0 DEF PushAndPost
  <2>2. ~m_write_flag /\ m_send_queue' # <<>> => posted' = posted + 1
    BY <1>b DEF PushAndPost, NeedsWriting
  <2>. QED  BY <1>0, <2>1, <2>2
<1>1. ASSUME NEW ok \in BOOLEAN, handle_accept(ok) PROVE NoStrandedFrame'
  BY <1>1, <1>a DEF handle_accept, terminate, Terminate
<1>2. ASSUME NEW ok \in BOOLEAN, handle_write_http_response(ok) PROVE NoStrandedFrame'
  <2>1. UNCHANGED <<writer, main>>
    BY <1>2 DEF handle_write_http_response
  <2>2. m_state = "closed" => m_state' = "closed"
    BY <1>2 DEF handle_write_http_response, Abandoned, terminate, Terminate
  <2>. QED  BY <2>1, <2>2, <1>a
<1>3. ASSUME NEW ok \in BOOLEAN, handle_write_frame(ok) PROVE NoStrandedFrame'
  <2>1. CASE terminate /\ UNCHANGED <<m_write_flag, posted>>
    <3>1. writes = 1 /\ m_write_flag
      BY <1>3, <1>0 DEF handle_write_frame, WriteEnds
    <3>2. m_write_flag' /\ m_state' = "closed"
      BY <2>1, <3>1 DEF terminate, Terminate
    <3>. QED  BY <3>2
  <2>2. CASE posted' = posted + (IF m_send_queue # <<>> THEN 1 ELSE 0)
    BY <1>3, <2>2, <1>0 DEF handle_write_frame
  <2>. QED  BY <1>3, <2>1, <2>2 DEF handle_write_frame
<1>4. ASSUME NEW request \in {"error", "partial", "ok", "bad"}, NEW frames \in ShortReads,
             handle_read_handshake(request, frames)
      PROVE  NoStrandedFrame'
  BY <1>4, <1>a DEF handle_read_handshake, terminate, Terminate
<1>5. ASSUME NEW frames \in ShortReads, handle_read_frame(frames) PROVE NoStrandedFrame'
  BY <1>5, <1>a DEF handle_read_frame, state
<1>6. CASE ReadFails
  BY <1>6, <1>a DEF ReadFails, terminate, Terminate
<1>7. CASE read_frame
  BY <1>7, <1>a DEF read_frame, state
<1>8. CASE process_nothing
  BY <1>8, <1>a DEF process_nothing, Processes, Unmoved
<1>9. CASE process_ping
  BY <1>9, <1>b DEF process_ping, Processes
<1>10. CASE process_close
  <2>1. CASE send_close_frame
    BY <1>10, <2>1, <1>b DEF process_close, Processes, send_close_frame
  <2>2. CASE UNCHANGED writer /\ (m_state = "closed" => m_state' = "closed")
    BY <1>10, <2>2, <1>a DEF process_close, Processes
  <2>. QED  BY <1>10, <2>1, <2>2 DEF process_close, terminate, Terminate
<1>11. CASE consume_error
  <2>1. CASE m_state = "open" /\ send_close_frame
    BY <1>11, <2>1, <1>b DEF consume_error, Processes, send_close_frame
  <2>2. CASE terminate /\ UNCHANGED writer
    BY <1>11, <2>2, <1>a DEF consume_error, Processes, terminate, Terminate
  <2>. QED  BY <1>11, <2>1, <2>2 DEF consume_error
<1>12. CASE write_frame
  <2>1. CASE WriteAllowed /\ m_send_queue # <<>>
    <3>1. writes' = writes + 1
      BY <1>12, <2>1, Zenon DEF write_frame
    <3>. QED  BY <3>1, <1>0
  <2>2. CASE ~(WriteAllowed /\ m_send_queue # <<>>)
    <3>1. UNCHANGED <<m_send_queue, m_write_flag, writes, m_state>>
      BY <1>12, <2>2, Zenon DEF write_frame, state
    <3>2. m_send_queue # <<>> => m_write_flag
      BY <2>2 DEF WriteAllowed
    <3>. QED  BY <3>1, <3>2, <1>0
  <2>. QED  BY <2>1, <2>2
<1>13. ASSUME NEW t \in DOMAIN timers, TimerExpires(t) \/ handle_timeout(t)
       PROVE  NoStrandedFrame'
  BY <1>13, <1>a DEF TimerExpires, handle_timeout, Terminate
<1>14. CASE SendChecks
  BY <1>14 DEF SendChecks, writer, state
<1>15. CASE SendPushes
  <2>1. UNCHANGED <<m_write_flag, writes, m_state>>
    BY <1>15 DEF SendPushes, state
  <2>2. ~m_write_flag /\ m_send_queue' # <<>> => sending' = "dispatch"
    BY <1>15 DEF SendPushes, NeedsWriting
  <2>. QED  BY <2>1, <2>2, <1>0
<1>16. CASE SendDispatches
  BY <1>16, <1>0 DEF SendDispatches
<1>17. CASE ClientVanishes
  BY <1>17, <1>a DEF ClientVanishes, state
<1>18. CASE UNCHANGED vars
  BY <1>18, <1>a DEF vars, state
<1>. QED  BY <1>1, <1>2, <1>3, <1>4, <1>5, <1>6, <1>7, <1>8, <1>9, <1>10, <1>11, <1>12, <1>13,
            <1>14, <1>15, <1>16, <1>17, <1>18 DEF Next, Reads, Process, Send

(* A frame in the queue always has someone who is going to write it, while *)
(* the connection lives: the two threads never leave it to each other.     *)
THEOREM NoStrandedCorrect == Spec => []NoStrandedFrame
<1>1. Init => NoStrandedFrame
  BY DEF Init, NoStrandedFrame
<1>2. Guarded /\ NoStrandedFrame /\ [Next]_vars => NoStrandedFrame'
  BY NoStrandedStep
<1>. QED  BY <1>1, <1>2, GuardedCorrect, PTL DEF Spec
-----------------------------------------------------------------------------
(* The connection has been opened, and the application was told of it.     *)
EverOpen == calls \in {<<"open">>, <<"open", "close">>}

(* m_state says which handlers were called.                                *)
Told ==
  \/ m_state = "connecting" /\ calls = <<>> /\ accepted = <<>>
  \/ m_state \in {"open", "closing"} /\ calls = <<"open">>
  \/ m_state = "closed" /\ calls \in {<<"fail">>, <<"open", "close">>}

(* The steps of the opening handshake follow each other: no response is    *)
(* written once the connection is open.                                    *)
Opening ==
  /\ m_state = "connecting" /\ m_internal_state = "USER_INIT" => ~responding /\ reading = "none"
  /\ reading = "handshake" => m_state \in {"connecting", "closed"} /\ ~responding
  /\ responding => m_state \in {"connecting", "closed"}

(* Only a connection that was opened reads frames or is sent to.           *)
Speaking == looping \/ reading = "frames" \/ sending = "checked" => EverOpen

(* While the connection lives, what was accepted is on the wire or in the  *)
(* queue, and the flag is kept after a terminal frame.                     *)
Ordered ==
  m_state # "closed" =>
    /\ accepted = wire \o m_send_queue
    /\ \A k \in 1..Len(wire) : wire[k].terminal => k = Len(wire) /\ m_write_flag

LifeInv == Told /\ Opening /\ Speaking /\ Ordered

LifeStep == [Life!Next]_(Life!lifeVars)

Handlers == {"open", "close", "fail"}

LEMMA CallsType ==
  /\ <<"open">> \in Seq(Handlers) /\ <<"close">> \in Seq(Handlers) /\ <<"fail">> \in Seq(Handlers)
  /\ <<"open", "close">> \in Seq(Handlers)
  /\ <<"open">> \o <<"close">> = <<"open", "close">>
<1>1. "open" \in Handlers /\ "close" \in Handlers /\ "fail" \in Handlers
  BY DEF Handlers
<1>2. \A a \in Handlers : <<a>> \in Seq(Handlers) /\ Len(<<a>>) = 1 /\ <<a>>[1] = a
  OBVIOUS
<1>3. \A a, b \in Handlers :
        <<a, b>> \in Seq(Handlers) /\ Len(<<a, b>>) = 2 /\ <<a, b>>[1] = a /\ <<a, b>>[2] = b
  OBVIOUS
<1>4. \A a, b \in Handlers : <<a>> \o <<b>> = <<a, b>>
  <2>. TAKE a, b \in Handlers
  <2>1. /\ <<a>> \o <<b>> \in Seq(Handlers) /\ Len(<<a>> \o <<b>>) = 2
        /\ (<<a>> \o <<b>>)[1] = a /\ (<<a>> \o <<b>>)[2] = b
    BY <1>2, ConcatProperties
  <2>2. <<a, b>> \in Seq(Handlers) /\ Len(<<a, b>>) = 2 /\ <<a, b>>[1] = a /\ <<a, b>>[2] = b
    BY <1>3
  <2>. DEFINE s == <<a>> \o <<b>>
              t == <<a, b>>
  <2>. HIDE DEF s, t
  <2>3. s \in Seq(Handlers) /\ t \in Seq(Handlers) /\ Len(s) = 2 /\ Len(t) = 2
        /\ s[1] = t[1] /\ s[2] = t[2]
    BY <2>1, <2>2 DEF s, t
  <2>4. \A i \in 1..Len(s) : s[i] = t[i]
    BY <2>3
  <2>5. s = t
    BY <2>3, <2>4, SeqEqual
  <2>. QED  BY <2>5 DEF s, t
<1>. QED  BY <1>1, <1>2, <1>3, <1>4

LEMMA CallsDiffer ==
  /\ <<>> # <<"open">> /\ <<>> # <<"fail">> /\ <<>> # <<"open", "close">>
  /\ <<"open">> # <<"fail">> /\ <<"open">> # <<"open", "close">>
  /\ <<"fail">> # <<"open", "close">>
<1>1. /\ Len(<<>>) = 0 /\ Len(<<"open">>) = 1 /\ Len(<<"fail">>) = 1
      /\ Len(<<"open", "close">>) = 2 /\ <<"open">>[1] = "open" /\ <<"fail">>[1] = "fail"
  OBVIOUS
<1>. QED  BY <1>1

(* terminate, whenever it is called, closes the life or leaves it closed.  *)
LEMMA TerminateLives ==
  ASSUME Told, NEW ts, Terminate(ts)
  PROVE  /\ Told' /\ m_state' = "closed" /\ LifeStep
         /\ EverOpen => EverOpen'
<1>1. m_state' = "closed" /\ calls' = calls \o Called /\ UNCHANGED <<accepted, wire>>
  BY DEF Terminate
<1>2. CASE m_state = "connecting"
  <2>1. calls = <<>> /\ Called = <<"fail">>
    BY <1>2, CallsDiffer DEF Told, Called
  <2>2. calls' = <<"fail">>
    BY <1>1, <2>1
  <2>3. Life!Fail
    BY <1>1, <2>1, <2>2 DEF Life!Fail
  <2>. QED  BY <1>1, <2>1, <2>2, <2>3, CallsDiffer DEF Told, EverOpen, LifeStep, Life!Next
<1>3. CASE m_state \in {"open", "closing"}
  <2>1. calls = <<"open">> /\ Called = <<"close">>
    BY <1>3 DEF Told, Called
  <2>2. calls' = <<"open", "close">>
    BY <1>1, <2>1, CallsType
  <2>3. Life!Close
    BY <1>1, <2>1, <2>2 DEF Life!Close, Life!Opened
  <2>. QED  BY <1>1, <2>1, <2>2, <2>3 DEF Told, EverOpen, LifeStep, Life!Next
<1>4. CASE m_state = "closed"
  <2>1. Called = <<>> /\ calls \in {<<"fail">>, <<"open", "close">>}
    BY <1>4 DEF Told, Called
  <2>2. calls \in Seq(Handlers)
    BY <2>1, CallsType
  <2>3. calls' = calls
    BY <1>1, <2>1, <2>2, ConcatEmptySeq
  <2>. QED  BY <1>1, <2>1, <2>3 DEF Told, EverOpen, LifeStep, Life!lifeVars
<1>. QED  BY <1>2, <1>3, <1>4 DEF Told

LEMMA PushLives ==
  ASSUME TypeOK, Told, Ordered, EverOpen, NEW f \in Frames, write_push(f),
         UNCHANGED <<calls, wire, m_write_flag>>,
         \/ m_state' = m_state
         \/ m_state \in {"open", "closing"} /\ m_state' = "closing"
  PROVE  Told' /\ Ordered' /\ LifeStep /\ EverOpen'
<1>0. m_send_queue \in Seq(Frames) /\ accepted \in Seq(Frames) /\ wire \in Seq(Frames)
  BY DEF TypeOK
<1>1. m_send_queue' = Append(m_send_queue, f) /\ accepted' = Append(accepted, f)
  BY DEF write_push
<1>2. m_state # "connecting"
  BY CallsDiffer DEF Told, EverOpen
<1>3. Told' /\ EverOpen'
  BY <1>2 DEF Told, EverOpen
<1>4. Ordered'
  <2>1. SUFFICES ASSUME m_state' # "closed" PROVE accepted' = wire \o m_send_queue'
    BY DEF Ordered
  <2>2. accepted = wire \o m_send_queue
    BY <2>1 DEF Ordered
  <2>3. accepted' = (wire \o m_send_queue) \o <<f>>
    BY <1>0, <1>1, <2>2, AppendIsConcat
  <2>4. m_send_queue' = m_send_queue \o <<f>>
    BY <1>0, <1>1, AppendIsConcat
  <2>5. <<f>> \in Seq(Frames)
    OBVIOUS
  <2>. QED  BY <1>0, <2>3, <2>4, <2>5, ConcatAssociative
<1>5. Life!Accept
  <2>1. calls # <<>> /\ calls[1] = "open"
    BY CallsDiffer DEF EverOpen
  <2>. QED  BY <1>1, <2>1 DEF Life!Accept
<1>. QED  BY <1>3, <1>4, <1>5 DEF LifeStep, Life!Next

(* A step that only the handshake or the reading of frames knows of.       *)
LEMMA QuietLives ==
  ASSUME Told, Ordered, UNCHANGED <<m_state, history, m_send_queue, m_write_flag>>
  PROVE  Told' /\ Ordered' /\ LifeStep /\ (EverOpen => EverOpen')
<1>1. UNCHANGED <<m_state, calls, accepted, wire, m_send_queue, m_write_flag>>
  BY DEF history
<1>. QED  BY <1>1 DEF Told, Ordered, EverOpen, LifeStep, Life!lifeVars

(* What is written is a part of what was accepted, up to a terminal frame. *)
LEMMA WriteLives ==
  ASSUME Guarded, Told, Ordered, write_frame
  PROVE  Told' /\ Ordered' /\ LifeStep /\ (EverOpen => EverOpen')
<1>. DEFINE q == m_send_queue
            n == BatchLen(q)
            rest == SubSeq(q, n + 1, Len(q))
<1>0. /\ q \in Seq(Frames) /\ accepted \in Seq(Frames) /\ wire \in Seq(Frames)
      /\ writes \in {0, 1} /\ m_write_flag \in BOOLEAN
      /\ writes = 1 <=> m_current_msgs # <<>>
      /\ writes = 1 => m_write_flag
  BY DEF Guarded, TypeOK, WriteOwnsBatch
<1>1. UNCHANGED <<m_state, calls, accepted>>
  BY DEF write_frame, state
<1>2. Told' /\ (EverOpen => EverOpen')
  BY <1>1 DEF Told, EverOpen
<1>3. CASE ~(WriteAllowed /\ q # <<>>)
  <2>1. UNCHANGED <<m_send_queue, m_write_flag, wire>>
    BY <1>3, Zenon DEF write_frame
  <2>. QED  BY <1>1, <1>2, <2>1 DEF Ordered, LifeStep, Life!lifeVars
<1>4. CASE WriteAllowed /\ q # <<>>
  <2>1. /\ m_send_queue' = rest /\ m_write_flag'
        /\ m_current_msgs' = m_current_msgs \o Batch(q)
        /\ wire' = IF m_state = "closed" THEN wire ELSE wire \o m_current_msgs'
    BY <1>4, Zenon DEF write_frame
  <2>2. CASE m_state = "closed"
    BY <1>1, <1>2, <2>1, <2>2 DEF Ordered, LifeStep, Life!lifeVars
  <2>3. CASE m_state # "closed"
    <3>1. /\ Batch(q) \in Seq(Frames) /\ Len(Batch(q)) = n
          /\ \A k \in 1..n : Batch(q)[k] = q[k]
          /\ rest \in Seq(Frames) /\ Batch(q) \o rest = q
      BY <1>0, <1>4, BatchIs
    <3>2. n \in 1..Len(q) /\ (\A k \in 1..(n - 1) : ~q[k].terminal) /\ Len(q) \in Nat
      BY <1>0, <1>4, BatchLenIs, LenProperties
    <3>3. m_current_msgs = <<>>
      BY <1>0, <1>4 DEF WriteAllowed
    <3>4. wire' = wire \o Batch(q)
      BY <2>1, <2>3, <3>1, <3>3, ConcatEmptySeq
    <3>5. accepted = wire \o q
          /\ \A k \in 1..Len(wire) : ~wire[k].terminal
      BY <1>4, <2>3 DEF Ordered, WriteAllowed
    <3>6. accepted = wire' \o rest
      <4>1. (wire \o Batch(q)) \o rest = wire \o (Batch(q) \o rest)
        <5>1. wire \in Seq(Frames) /\ Batch(q) \in Seq(Frames) /\ rest \in Seq(Frames)
          BY <1>0, <3>1
        <5>. HIDE DEF q, rest
        <5>. QED  BY <5>1, ConcatAssociative
      <4>. QED  BY <3>1, <3>4, <3>5, <4>1
    <3>7. /\ Len(wire) \in Nat /\ Len(wire') = Len(wire) + n /\ wire' \in Seq(Frames)
          /\ \A i \in 1..(Len(wire) + n) :
               wire'[i] = IF i <= Len(wire) THEN wire[i] ELSE q[i - Len(wire)]
      <4>1. Len(wire) \in Nat
        BY <1>0, LenProperties
      <4>2. /\ wire' \in Seq(Frames) /\ Len(wire') = Len(wire) + n
            /\ \A i \in 1..(Len(wire) + n) :
                 wire'[i] = IF i <= Len(wire) THEN wire[i] ELSE Batch(q)[i - Len(wire)]
        <5>1. /\ wire \o Batch(q) \in Seq(Frames) /\ Len(wire \o Batch(q)) = Len(wire) + n
              /\ \A i \in 1..(Len(wire) + n) :
                   (wire \o Batch(q))[i] = IF i <= Len(wire) THEN wire[i] ELSE Batch(q)[i - Len(wire)]
          <6>. HIDE DEF q, n
          <6>. QED  BY <1>0, <3>1, ConcatProperties
        <5>. QED  BY <3>4, <5>1
      <4>3. \A i \in 1..(Len(wire) + n) : i <= Len(wire) \/ i - Len(wire) \in 1..n
        BY <3>2, <4>1
      <4>. QED  BY <3>1, <4>1, <4>2, <4>3
    <3>8. \A k \in 1..Len(wire') : wire'[k].terminal => k = Len(wire')
      <4>1. ASSUME NEW k \in 1..Len(wire'), k # Len(wire') PROVE ~wire'[k].terminal
        <5>1. CASE k <= Len(wire)
          BY <3>5, <3>7, <4>1, <5>1
        <5>2. CASE k > Len(wire)
          <6>1. k - Len(wire) \in 1..(n - 1)
            BY <3>2, <3>7, <4>1, <5>2
          <6>2. wire'[k] = q[k - Len(wire)]
            BY <3>2, <3>7, <4>1, <5>2
          <6>. QED  BY <3>2, <6>1, <6>2
        <5>. QED  BY <3>7, <5>1, <5>2
      <4>. QED  BY <4>1
    <3>9. Ordered'
      BY <1>1, <2>1, <3>6, <3>8 DEF Ordered
    <3>10. Life!Write
      <4>1. accepted # <<>>
        BY <1>0, <1>4, <3>5, ConcatEqualIffEmpty
      <4>2. calls = <<"open">>
        BY <2>3, <4>1 DEF Told
      <4>3. Len(accepted) = Len(wire') + Len(rest) /\ Len(rest) \in Nat
            /\ \A i \in 1..Len(wire') : accepted[i] = wire'[i]
        <5>1. Len(rest) \in Nat
          BY <3>1, LenProperties
        <5>. QED  BY <3>1, <3>6, <3>7, <5>1, ConcatProperties
      <4>4. wire' = SubSeq(accepted, 1, Len(wire'))
        <5>1. Len(wire') \in 1..Len(wire')
          BY <3>2, <3>7
        <5>2. SubSeq(accepted, 1, Len(wire')) = SubSeq(wire', 1, Len(wire'))
          BY <3>1, <3>2, <3>6, <3>7, <5>1, SubSeqOfConcat1
        <5>. QED  BY <3>7, <5>2, SubSeqFull
      <4>5. Len(wire') \in (Len(wire) + 1)..Len(accepted)
        BY <3>2, <3>7, <4>3
      <4>6. \A k \in 1..(Len(wire') - 1) : ~accepted[k].terminal
        BY <3>2, <3>7, <3>8, <4>3
      <4>. QED  BY <1>1, <4>2, <4>4, <4>5, <4>6 DEF Life!Write, Life!Opened
    <3>. QED  BY <1>2, <3>9, <3>10 DEF LifeStep, Life!Next
  <2>. QED  BY <2>2, <2>3
<1>. QED  BY <1>3, <1>4
-----------------------------------------------------------------------------
LEMMA LifeInit == Init => LifeInv /\ Life!Init
<1>1. Len(<<>>) = 0 /\ <<>> \o <<>> = <<>>
  OBVIOUS
<1>. QED  BY <1>1 DEF Init, LifeInv, Told, Opening, Speaking, Ordered, Life!Init

LEMMA LifeNext ==
  ASSUME Guarded, LifeInv, [Next]_vars
  PROVE  LifeInv' /\ LifeStep
<1>0. Told /\ Opening /\ Speaking /\ Ordered
  BY DEF LifeInv
<1>t. ASSUME NEW ts, Terminate(ts), reading' = "handshake" => ~responding',
             looping' \/ reading' = "frames" \/ sending' = "checked" => EverOpen
      PROVE  LifeInv' /\ LifeStep
  <2>1. Told' /\ m_state' = "closed" /\ LifeStep /\ (EverOpen => EverOpen')
    BY <1>0, <1>t, TerminateLives
  <2>. QED  BY <1>t, <2>1 DEF LifeInv, Opening, Speaking, Ordered
<1>q. ASSUME UNCHANGED <<m_state, history, m_send_queue, m_write_flag>>, Opening',
             looping' \/ reading' = "frames" \/ sending' = "checked" => EverOpen
      PROVE  LifeInv' /\ LifeStep
  <2>1. Told' /\ Ordered' /\ LifeStep /\ (EverOpen => EverOpen')
    BY <1>0, <1>q, QuietLives
  <2>. QED  BY <1>q, <2>1 DEF LifeInv, Speaking
<1>p. ASSUME NEW f \in Frames, write_push(f), EverOpen,
             UNCHANGED <<calls, wire, m_write_flag, opening, reading, m_internal_state>>,
             \/ m_state' = m_state
             \/ m_state \in {"open", "closing"} /\ m_state' = "closing"
      PROVE  LifeInv' /\ LifeStep
  <2>1. Told' /\ Ordered' /\ LifeStep /\ EverOpen'
    BY <1>0, <1>p, PushLives DEF Guarded
  <2>2. Opening'
    BY <1>0, <1>p DEF Opening, opening
  <2>. QED  BY <2>1, <2>2 DEF LifeInv, Speaking
<1>e. EverOpen => m_state # "connecting"
  BY <1>0, CallsDiffer DEF Told, EverOpen
<1>1. ASSUME NEW ok \in BOOLEAN, handle_accept(ok) PROVE LifeInv' /\ LifeStep
  <2>1. /\ m_internal_state = "USER_INIT" /\ m_state = "connecting" /\ ~responding
        /\ UNCHANGED <<m_was_clean, opening, writer, looping, m_buf, reads, main, client>>
    BY <1>0, <1>1 DEF handle_accept, Opening
  <2>2. CASE ok
    <3>1. m_internal_state' = "READ_HTTP_REQUEST" /\ reading' = "handshake"
          /\ UNCHANGED <<m_state, history>>
      BY <1>1, <2>2 DEF handle_accept
    <3>2. Opening'
      BY <2>1, <3>1 DEF Opening, opening
    <3>. QED  BY <1>0, <1>q, <2>1, <3>1, <3>2 DEF Speaking, writer, main
  <2>3. CASE ~ok
    <3>1. Terminate(timers) /\ UNCHANGED reading
      BY <1>1, <2>3 DEF handle_accept, terminate
    <3>. QED  BY <1>0, <1>t, <2>1, <3>1 DEF Opening, Speaking, opening, main
  <2>. QED  BY <2>2, <2>3
<1>2. ASSUME NEW ok \in BOOLEAN, handle_write_http_response(ok) PROVE LifeInv' /\ LifeStep
  <2>1. /\ responding /\ responding' = FALSE /\ reading # "handshake" /\ ~looping
        /\ m_state \in {"connecting", "closed"}
        /\ UNCHANGED <<m_was_clean, m_response, writer, reading, m_buf, reads, main, client>>
    BY <1>0, <1>2 DEF handle_write_http_response, Opening, Task
  <2>2. CASE terminate /\ UNCHANGED looping
    BY <1>0, <1>t, <2>1, <2>2 DEF terminate, Speaking, main
  <2>3. CASE UNCHANGED <<m_state, m_internal_state, m_handshake_timer, timers, looping, history>>
    <3>1. Opening'
      BY <1>0, <2>1, <2>3 DEF Opening
    <3>. QED  BY <1>0, <1>q, <2>1, <2>3, <3>1 DEF Speaking, writer, main
  <2>4. CASE /\ ~Abandoned /\ m_state' = "open" /\ calls' = Append(calls, "open")
             /\ UNCHANGED <<accepted, wire>>
    <3>1. m_state = "connecting" /\ calls = <<>> /\ accepted = <<>>
      BY <1>0, <2>1, <2>4 DEF Abandoned, Told
    <3>2. calls' = <<"open">>
      BY <2>4, <3>1
    <3>3. Life!Open
      BY <2>4, <3>1, <3>2 DEF Life!Open
    <3>4. Told' /\ Opening' /\ Speaking'
      BY <2>1, <2>4, <3>2 DEF Told, Opening, Speaking, EverOpen
    <3>5. Ordered'
      BY <1>0, <2>1, <2>4, <3>1 DEF Ordered, writer
    <3>. QED  BY <3>3, <3>4, <3>5 DEF LifeInv, LifeStep, Life!Next
  <2>. QED  BY <1>2, <2>2, <2>3, <2>4 DEF handle_write_http_response
<1>3. ASSUME NEW ok \in BOOLEAN, handle_write_frame(ok) PROVE LifeInv' /\ LifeStep
  <2>0. WriteEnds(ok) /\ UNCHANGED <<m_was_clean, m_send_queue, opening, reader, main, client>>
    BY <1>3 DEF handle_write_frame
  <2>1. CASE terminate
    BY <1>0, <1>t, <2>0, <2>1 DEF terminate, Opening, Speaking, opening, reader, main
  <2>2. CASE /\ ok /\ ~m_current_msgs[Len(m_current_msgs)].terminal
             /\ UNCHANGED <<m_state, m_internal_state, m_handshake_timer, timers, history>>
    <3>1. ~wire[Len(wire)].terminal
      BY <2>0, <2>2 DEF WriteEnds
    <3>2. Ordered'
      BY <1>0, <2>0, <2>2, <3>1 DEF Ordered, history
    <3>3. Told' /\ Opening' /\ Speaking' /\ LifeStep
      BY <1>0, <2>0, <2>2 DEF Told, Opening, Speaking, EverOpen, LifeStep, Life!lifeVars,
        opening, reader, main, history
    <3>. QED  BY <3>2, <3>3 DEF LifeInv
  <2>. QED  BY <1>3, <2>1, <2>2 DEF handle_write_frame
<1>4. ASSUME NEW request \in {"error", "partial", "ok", "bad"}, NEW frames \in ShortReads,
             handle_read_handshake(request, frames)
      PROVE  LifeInv' /\ LifeStep
  <2>0. /\ reading = "handshake" /\ m_state \in {"connecting", "closed"} /\ ~responding
        /\ UNCHANGED <<m_was_clean, writer, looping, main, client>>
    BY <1>0, <1>4 DEF handle_read_handshake, Opening
  <2>1. CASE request = "error"
    <3>1. Terminate(timers) /\ reading' = "none" /\ UNCHANGED opening
      BY <1>4, <2>1 DEF handle_read_handshake, terminate
    <3>. QED  BY <1>0, <1>t, <2>0, <3>1 DEF Speaking, main
  <2>2. CASE request = "partial"
    <3>1. /\ reading' \in {"none", "handshake"} /\ UNCHANGED opening
          /\ UNCHANGED <<m_state, m_internal_state, history>>
          /\ m_state = "closed" => reading' = "none"
      BY <1>4, <2>2 DEF handle_read_handshake
    <3>2. Opening'
      BY <1>0, <2>0, <3>1 DEF Opening, opening
    <3>. QED  BY <1>0, <1>q, <2>0, <3>1, <3>2 DEF Speaking, writer, main
  <2>3. CASE request \in {"ok", "bad"}
    <3>1. /\ reading' = "none" /\ UNCHANGED <<m_state, history>>
          /\ \/ m_state = "closed"
             \/ m_internal_state' = "PROCESS_HTTP_REQUEST"
      BY <1>4, <2>3 DEF handle_read_handshake
    <3>2. Opening'
      BY <2>0, <3>1 DEF Opening
    <3>. QED  BY <1>0, <1>q, <2>0, <3>1, <3>2 DEF Speaking, writer, main
  <2>. QED  BY <2>1, <2>2, <2>3
<1>5. ASSUME NEW frames \in ShortReads, handle_read_frame(frames) PROVE LifeInv' /\ LifeStep
  <2>1. /\ EverOpen /\ reading' = "none"
        /\ UNCHANGED <<state, opening, writer, main, client, history>>
    BY <1>0, <1>5 DEF handle_read_frame, Speaking
  <2>2. Opening'
    BY <1>0, <1>e, <2>1 DEF Opening, state, opening
  <2>. QED  BY <1>q, <2>1, <2>2 DEF state, writer
<1>6. CASE ReadFails
  <2>1. /\ reading = "frames" /\ reading' = "none" /\ Terminate(timers)
        /\ UNCHANGED <<looping, sending>>
    BY <1>6 DEF ReadFails, terminate, main
  <2>. QED  BY <1>0, <1>t, <2>1 DEF Speaking
<1>7. CASE read_frame
  <2>1. /\ EverOpen /\ reading' \in {"frames", "none"}
        /\ UNCHANGED <<state, opening, writer, m_buf, reads, main, client, history>>
    BY <1>0, <1>7 DEF read_frame, Speaking
  <2>2. Opening'
    BY <1>0, <1>e, <2>1 DEF Opening, state, opening
  <2>. QED  BY <1>q, <2>1, <2>2 DEF state, writer
<1>8. ASSUME NEW kinds, Processes(kinds)
      PROVE  EverOpen /\ UNCHANGED <<m_internal_state, opening, reads, main, client, wire>>
  BY <1>0, <1>8 DEF Processes, Speaking
<1>9. CASE process_nothing
  <2>1. /\ EverOpen /\ UNCHANGED <<reading, looping, m_state, calls, writer, accepted>>
        /\ UNCHANGED <<m_internal_state, opening, reads, main, client, wire>>
    BY <1>8, <1>9 DEF process_nothing, GoesOn, Unmoved
  <2>2. Opening'
    BY <1>0, <2>1 DEF Opening, opening
  <2>. QED  BY <1>q, <2>1, <2>2 DEF writer, history
<1>10. CASE process_ping
  <2>1. /\ EverOpen /\ UNCHANGED <<reading, looping, m_state, calls>>
        /\ UNCHANGED <<m_internal_state, opening, reads, main, client, wire>>
    BY <1>8, <1>10 DEF process_ping, GoesOn, Unmoved
  <2>2. PushAndPost(Frame("pong", reads)) /\ Frame("pong", reads) \in Frames
    <3>1. reads \in 0..(MaxReads + MaxSends)
      BY BoundAssumption DEF Guarded, TypeOK
    <3>. QED  BY <1>10, <3>1, FrameTypes DEF process_ping, Kinds
  <2>. QED  BY <1>p, <2>1, <2>2 DEF PushAndPost
<1>c. ASSUME send_close_frame, EverOpen, m_state # "closed",
             UNCHANGED <<reading, m_internal_state, opening, wire>>
      PROVE  LifeInv' /\ LifeStep
  <2>1. Frame("close", 0) \in Frames
    BY BoundAssumption, FrameTypes DEF Kinds
  <2>2. /\ write_push(Frame("close", 0)) /\ m_state' = "closing"
        /\ UNCHANGED <<calls, m_write_flag>>
    BY <1>c DEF send_close_frame, PushAndPost
  <2>3. m_state \in {"open", "closing"}
    BY <1>0, <1>c, <1>e DEF Told
  <2>. QED  BY <1>c, <1>p, <2>1, <2>2, <2>3
<1>11. CASE process_close
  <2>1. /\ EverOpen /\ UNCHANGED <<reading, looping>> /\ m_state # "closed"
        /\ UNCHANGED <<m_internal_state, opening, reads, main, client, wire>>
    BY <1>8, <1>11 DEF process_close, GoesOn
  <2>2. CASE send_close_frame
    BY <1>c, <2>1, <2>2
  <2>3. CASE UNCHANGED <<m_state, timers, m_handshake_timer, calls, accepted, writer>>
    <3>1. Opening'
      BY <1>0, <2>1, <2>3 DEF Opening, opening
    <3>. QED  BY <1>q, <2>1, <2>3, <3>1 DEF writer, history
  <2>4. CASE terminate
    BY <1>0, <1>t, <2>1, <2>4 DEF terminate, Opening, opening
  <2>. QED  BY <1>11, <2>2, <2>3, <2>4 DEF process_close
<1>12. CASE consume_error
  <2>1. /\ EverOpen /\ UNCHANGED reading
        /\ UNCHANGED <<m_internal_state, opening, reads, main, client, wire>>
    BY <1>8, <1>12 DEF consume_error
  <2>2. CASE m_state = "open" /\ send_close_frame
    BY <1>c, <2>1, <2>2
  <2>3. CASE terminate
    BY <1>0, <1>t, <2>1, <2>3 DEF terminate, Opening, opening
  <2>. QED  BY <1>12, <2>2, <2>3 DEF consume_error
<1>13. CASE write_frame
  <2>1. Told' /\ Ordered' /\ LifeStep /\ (EverOpen => EverOpen')
    BY <1>0, <1>13, WriteLives
  <2>2. UNCHANGED <<state, opening, reader, main>>
    BY <1>13 DEF write_frame
  <2>. QED  BY <1>0, <2>1, <2>2 DEF LifeInv, Opening, Speaking, state, opening, reader, main
<1>14. ASSUME NEW t \in DOMAIN timers, TimerExpires(t) PROVE LifeInv' /\ LifeStep
  <2>1. UNCHANGED <<m_state, m_internal_state, opening, writer, reader, main, history>>
    BY <1>14 DEF TimerExpires
  <2>2. Opening'
    BY <1>0, <2>1 DEF Opening, opening, reader
  <2>. QED  BY <1>0, <1>q, <2>1, <2>2 DEF Speaking, writer, reader, main
<1>15. ASSUME NEW t \in DOMAIN timers, handle_timeout(t) PROVE LifeInv' /\ LifeStep
  <2>1. /\ Terminate([timers EXCEPT ![t] = "over"])
        /\ UNCHANGED <<m_was_clean, opening, writer, reader, main, client>>
    BY <1>15 DEF handle_timeout
  <2>. QED  BY <1>0, <1>t, <2>1 DEF Opening, Speaking, opening, reader, main
<1>16. CASE SendChecks
  <2>1. m_state = "open" /\ UNCHANGED <<state, opening, writer, reader, client, history>>
    BY <1>16 DEF SendChecks
  <2>2. EverOpen
    BY <1>0, <2>1 DEF Told, EverOpen
  <2>3. Opening'
    BY <1>0, <2>1 DEF Opening, state, opening, reader
  <2>. QED  BY <1>q, <2>1, <2>2, <2>3 DEF state, writer
<1>17. CASE SendPushes
  <2>1. /\ EverOpen /\ write_push(Frame("data", sends))
        /\ UNCHANGED <<state, opening, m_write_flag, reader, calls, wire>>
    BY <1>0, <1>17 DEF SendPushes, Speaking
  <2>2. Frame("data", sends) \in Frames
    <3>1. sends \in 0..(MaxReads + MaxSends)
      BY BoundAssumption DEF Guarded, TypeOK
    <3>. QED  BY <3>1, FrameTypes DEF Kinds
  <2>. QED  BY <1>p, <2>1, <2>2 DEF state, reader
<1>18. CASE SendDispatches
  <2>1. /\ sending' = "idle" /\ UNCHANGED <<m_send_queue, m_write_flag>>
        /\ UNCHANGED <<state, opening, reader, history>>
    BY <1>18 DEF SendDispatches
  <2>2. Opening'
    BY <1>0, <2>1 DEF Opening, state, opening, reader
  <2>. QED  BY <1>0, <1>q, <2>1, <2>2 DEF Speaking, state, reader
<1>19. CASE ClientVanishes \/ UNCHANGED vars
  <2>1. UNCHANGED <<state, opening, writer, reader, main, history>>
    BY <1>19 DEF ClientVanishes, vars
  <2>2. Opening'
    BY <1>0, <2>1 DEF Opening, state, opening, reader
  <2>. QED  BY <1>0, <1>q, <2>1, <2>2 DEF Speaking, state, writer, reader, main
<1>. QED  BY <1>1, <1>2, <1>3, <1>4, <1>5, <1>6, <1>7, <1>9, <1>10, <1>11, <1>12, <1>13, <1>14,
            <1>15, <1>16, <1>17, <1>18, <1>19 DEF Next, Reads, Process, Send

(* The handlers of a connection are called in order and once, and what the *)
(* two threads send goes out in the order in which it was accepted, up to  *)
(* the close frame: WsConnection implements ConnectionLife.                *)
THEOREM LivesOneLifeCorrect == Spec => LivesOneLife
<1>1. Init => LifeInv /\ Life!Init
  BY LifeInit
<1>2. Guarded /\ LifeInv /\ [Next]_vars => LifeInv' /\ [Life!Next]_(Life!lifeVars)
  BY LifeNext DEF LifeStep
<1>. QED  BY <1>1, <1>2, GuardedCorrect, PTL DEF Spec, LivesOneLife, Life!Spec
=============================================================================
