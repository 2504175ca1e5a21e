--------------------------- MODULE ConnectionLife ---------------------------
(***************************************************************************)
(* What the backend relies on in a WebSocket connection, without locks,    *)
(* queues, timers and the socket.  A connection fails, or it opens and may *)
(* close later, and the application is told of each once.  What is sent    *)
(* goes out in the order in which it was accepted, and nothing follows a   *)
(* close frame.  (What was accepted last may never go out.)                *)
(*                                                                         *)
(* WsConnection implements this module; GcsServer, whose OnOpen and        *)
(* OnClose are the application's handlers, takes it for granted.           *)
(***************************************************************************)
EXTENDS Integers, Sequences

CONSTANT Frames   \* what can be sent: records with the field terminal

VARIABLES
  calls,      \* the handlers called: "open", "close", "fail"
  accepted,   \* the frames accepted for sending
  wire        \* the frames that went out

lifeVars == <<calls, accepted, wire>>

Init == calls = <<>> /\ accepted = <<>> /\ wire = <<>>

Opened == calls = <<"open">>

Open == calls = <<>> /\ calls' = <<"open">> /\ UNCHANGED <<accepted, wire>>
Fail == calls = <<>> /\ calls' = <<"fail">> /\ UNCHANGED <<accepted, wire>>
Close == Opened /\ calls' = <<"open", "close">> /\ UNCHANGED <<accepted, wire>>

(* A frame may be accepted by the time the connection closes.              *)
Accept ==
  /\ calls # <<>> /\ calls[1] = "open"
  /\ \E f \in Frames : accepted' = Append(accepted, f)
  /\ UNCHANGED <<calls, wire>>

Write ==
  /\ Opened
  /\ \E n \in (Len(wire) + 1)..Len(accepted) :
       /\ \A k \in 1..(n - 1) : ~accepted[k].terminal
       /\ wire' = SubSeq(accepted, 1, n)
  /\ UNCHANGED <<calls, accepted>>

Next == Open \/ Fail \/ Close \/ Accept \/ Write

Spec == Init /\ [][Next]_lifeVars
=============================================================================
