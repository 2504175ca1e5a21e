--------------------------- MODULE MavlinkChannel ---------------------------
(***************************************************************************)
(* How bytes become MAVLink messages: the parser of                        *)
(* backend/mavlink/mavlink_helpers.h with its two callers.                 *)
(*                                                                         *)
(* The parser takes one byte at a time and keeps its state in static       *)
(* buffers of the channel.  The main loop (serverGC.cpp) and the mission   *)
(* download (getMission.hpp) read different sockets and feed the same      *)
(* channel, MAVLINK_COMM_0; the main loop feeds every byte of a datagram,  *)
(* the download stops at the first message and forgets the rest.           *)
(*                                                                         *)
(* MissionDownload and GcsServer take messages for granted; this module is *)
(* about when that is justified.                                           *)
(***************************************************************************)
EXTENDS Integers, Sequences

CONSTANTS
  MAX_PAYLOAD_LEN,       \* 255: also the largest value of a byte
  SIGNATURE_BLOCK_LEN,   \* 13
  STX, STX_MAVLINK1,     \* the bytes that begin a frame, 253 and 254
  IFLAG_SIGNED,          \* 1: the only incompatibility flag known
  CrcLow(_), CrcHigh(_), \* the checksum of a sequence of bytes
  Entries,               \* mavlink_message_crcs, in the order of msgid
  Messages,              \* what vehicles send
  Noise,                 \* datagrams of anything else than whole frames of these
  MainBuffer,            \* 1024: buffer of the main loop
  DownloadBuffer,        \* 280: buffer of the download
  MaxFrames,             \* bound: frames in a datagram
  MaxNoise               \* bound: datagrams of noise, or cut off by a buffer

Byte == 0..MAX_PAYLOAD_LEN
SomeBytes == Seq(Byte)

ASSUME MarkerAssumption ==
  /\ MAX_PAYLOAD_LEN \in Nat \ {0} /\ SIGNATURE_BLOCK_LEN \in Nat \ {0}
  /\ {STX, STX_MAVLINK1, IFLAG_SIGNED} \subseteq Byte
  /\ STX # STX_MAVLINK1 /\ IFLAG_SIGNED # 0
ASSUME EntriesAssumption ==
  /\ Entries \in Seq([msgid : Nat, crc_extra : Byte, max_msg_len : Byte]) /\ Entries # <<>>
  /\ \A j, k \in DOMAIN Entries : j < k => Entries[j].msgid < Entries[k].msgid
ASSUME BufferAssumption == {MainBuffer, DownloadBuffer, MaxFrames, MaxNoise} \subseteq Nat

VARIABLES
  parse_state, packet_idx, signature_wait,
  in_mavlink1,   \* MAVLINK_STATUS_FLAG_IN_MAVLINK1
  rxmsg,         \* the message being assembled
  reader,        \* who reads the datagram
  buf,           \* its bytes not parsed yet
  delivered,     \* the messages found in it
  intact,        \* the messages that should be found in it, if clean
  clean,         \* whole frames, begun while no frame was being parsed
  frame,         \* history: the bytes since the last marker
  noise          \* counter for the bound

status == <<parse_state, packet_idx, signature_wait, in_mavlink1>>
datagram == <<reader, intact, clean, noise>>
vars == <<status, rxmsg, buf, delivered, datagram, frame>>

Blank == [k \in 1..MAX_PAYLOAD_LEN |-> 0]

Init ==
  /\ parse_state = "IDLE" /\ packet_idx = 0 /\ signature_wait = 0 /\ in_mavlink1 = FALSE
  /\ rxmsg = [magic |-> 0, len |-> 0, incompat_flags |-> 0, compat_flags |-> 0, seq |-> 0,
              sysid |-> 0, compid |-> 0, msgid |-> <<0, 0, 0>>, payload |-> Blank, checksum |-> <<>>]
  /\ reader = "main" /\ buf = <<>> /\ delivered = <<>> /\ intact = <<>> /\ clean = TRUE
  /\ frame = <<>> /\ noise = 0
-----------------------------------------------------------------------------
(* The sender (mavlink_finalize_message and mavlink_msg_to_send_buffer).   *)

Crc(bytes) == <<CrcLow(bytes), CrcHigh(bytes)>>

(* A message is declared at most once.  DeclaredExtra is the receiver's;    *)
(* the sender's own is an argument of mavlink_finalize_message.            *)
Number(id) == id[1] + (MAX_PAYLOAD_LEN + 1) * (id[2] + (MAX_PAYLOAD_LEN + 1) * id[3])
Declared(id) == {k \in DOMAIN Entries : Entries[k].msgid = Number(id)}
DeclaredExtra(id) ==
  IF Declared(id) = {} THEN 0 ELSE Entries[CHOOSE k \in Declared(id) : TRUE].crc_extra

(* Zeros at the end of a payload are not sent, but one byte is.            *)
TrimmedLen(payload) ==
  IF payload = <<>> THEN 0
  ELSE CHOOSE n \in 1..Len(payload) :
         /\ n = 1 \/ payload[n] # 0
         /\ \A k \in (n + 1)..Len(payload) : payload[k] = 0

Header(m) ==
  IF m.magic = STX_MAVLINK1
  THEN <<m.seq, m.sysid, m.compid, m.msgid[1]>>
  ELSE <<m.incompat_flags, m.compat_flags, m.seq, m.sysid, m.compid>> \o m.msgid

(* What the checksum covers, and a frame as far as the signature.          *)
Body(m, payload) == <<Len(payload)>> \o Header(m) \o payload
Framed(m, payload, extra) ==
  <<m.magic>> \o Body(m, payload) \o Crc(Body(m, payload) \o <<extra>>)

SignatureLen(m) == IF m.incompat_flags = IFLAG_SIGNED THEN SIGNATURE_BLOCK_LEN ELSE 0

Sent(m) ==
  IF m.magic = STX_MAVLINK1 THEN Framed(m, m.payload, m.crc_extra)
  ELSE Framed(m, SubSeq(m.payload, 1, TrimmedLen(m.payload)), m.crc_extra)
         \o [k \in 1..SignatureLen(m) |-> 0]

Wire(ms) ==
  LET wire[n \in 0..Len(ms)] == IF n = 0 THEN <<>> ELSE wire[n - 1] \o Sent(ms[n])
  IN  wire[Len(ms)]

(* The fields of mavlink_message_t are bytes, its payload an array of      *)
(* MAX_PAYLOAD_LEN.  Of the flags the sender knows that of the signature,  *)
(* and frames of version 1 have neither flags nor message numbers above    *)
(* 255.  Sender and receiver share a dialect: the messages are declared    *)
(* here, with the sender's crc_extra (others are noise: their frames fail  *)
(* the checksum).  What is put into a datagram, the checksums included,    *)
(* are bytes.                                                              *)
ASSUME MessagesAssumption == \A m \in Messages :
  /\ m \in [magic : {STX, STX_MAVLINK1}, incompat_flags : {0, IFLAG_SIGNED}, compat_flags : Byte,
             seq : Byte, sysid : Byte, compid : Byte, msgid : Byte \X Byte \X Byte,
             crc_extra : Byte, payload : SomeBytes]
  /\ Declared(m.msgid) # {} /\ m.crc_extra = DeclaredExtra(m.msgid)
  /\ Len(m.payload) <= MAX_PAYLOAD_LEN
  /\ m.magic = STX_MAVLINK1 => m.incompat_flags = 0 /\ m.msgid[2] = 0 /\ m.msgid[3] = 0
ASSUME DatagramsAssumption ==
  /\ Noise \subseteq SomeBytes
  /\ \A m \in Messages : Sent(m) \in SomeBytes
-----------------------------------------------------------------------------
(* recvfrom: a longer datagram is cut off at the end of the buffer.        *)

BufferOf(r) == IF r = "main" THEN MainBuffer ELSE DownloadBuffer
Cut(bytes, r) == SubSeq(bytes, 1, IF Len(bytes) > BufferOf(r) THEN BufferOf(r) ELSE Len(bytes))

Receives(r) ==
  /\ buf = <<>>
  /\ reader' = r /\ delivered' = <<>>
  /\ UNCHANGED <<status, rxmsg, frame>>

(* The download reads as far as the first message: a datagram that is cut  *)
(* after it is as good as whole if its first frame is the one found.       *)
Fits(ms, r) ==
  \/ Len(Wire(ms)) <= BufferOf(r)
  \/ r = "download" /\ parse_state = "IDLE" /\ Len(Sent(ms[1])) <= BufferOf(r)

Whole(ms, r) ==
  /\ intact' = IF r = "main" THEN ms ELSE <<ms[1]>>
  /\ clean' = (parse_state = "IDLE")
  /\ UNCHANGED noise

Broken ==
  /\ noise < MaxNoise /\ noise' = noise + 1
  /\ intact' = <<>> /\ clean' = FALSE

recvfrom(r) ==
  /\ Receives(r)
  /\ \/ \E n \in 1..MaxFrames : \E ms \in [1..n -> Messages] :
          /\ buf' = Cut(Wire(ms), r)
          /\ IF Fits(ms, r) THEN Whole(ms, r) ELSE Broken
     \/ \E bytes \in Noise : buf' = Cut(bytes, r) /\ Broken
-----------------------------------------------------------------------------
(* mavlink_frame_char_buffer: one action per state of the parser.          *)

c == Head(buf)

Parses(state) ==
  /\ parse_state = state /\ buf # <<>>
  /\ UNCHANGED datagram

(* The byte completes no message.                                          *)
Incomplete(state) ==
  /\ Parses(state)
  /\ buf' = Tail(buf) /\ UNCHANGED delivered

Skip ==
  /\ Incomplete("IDLE") /\ c \notin {STX, STX_MAVLINK1}
  /\ UNCHANGED <<status, rxmsg, frame>>

Marker(rx) == [rx EXCEPT !.len = 0, !.magic = c, !.checksum = <<>>]

Start ==
  /\ Incomplete("IDLE") /\ c \in {STX, STX_MAVLINK1}
  /\ parse_state' = "GOT_STX"
  /\ in_mavlink1' = (c = STX_MAVLINK1)
  /\ rxmsg' = Marker(rxmsg) /\ frame' = <<c>>
  /\ UNCHANGED <<packet_idx, signature_wait>>

(* The byte belongs to the frame and to its checksum.                      *)
Takes(from, rx, to) ==
  /\ Incomplete(from)
  /\ rxmsg' = [rx EXCEPT !.checksum = Append(@, c)]
  /\ parse_state' = to
  /\ frame' = Append(frame, c)
  /\ UNCHANGED <<signature_wait, in_mavlink1>>

TakesHeader(from, rx, to) == Takes(from, rx, to) /\ UNCHANGED packet_idx

Length ==
  /\ IF in_mavlink1
     THEN Takes("GOT_STX",
            [rxmsg EXCEPT !.len = c, !.incompat_flags = 0, !.compat_flags = 0], "GOT_COMPAT_FLAGS")
     ELSE Takes("GOT_STX", [rxmsg EXCEPT !.len = c], "GOT_LENGTH")
  /\ packet_idx' = 0

IncompatFlags ==
  /\ TakesHeader("GOT_LENGTH", [rxmsg EXCEPT !.incompat_flags = c], "GOT_INCOMPAT_FLAGS")
  /\ c \in {0, IFLAG_SIGNED}

UnknownFlags ==
  /\ Incomplete("GOT_LENGTH") /\ c \notin {0, IFLAG_SIGNED}
  /\ rxmsg' = [rxmsg EXCEPT !.incompat_flags = c]
  /\ parse_state' = "IDLE"
  /\ UNCHANGED <<packet_idx, signature_wait, in_mavlink1, frame>>

AfterHeader_Payload == "GOT_MSGID3"
AfterHeader == IF rxmsg.len > 0 THEN "GOT_MSGID3" ELSE "GOT_PAYLOAD"

HeaderByte ==
  \/ TakesHeader("GOT_INCOMPAT_FLAGS", [rxmsg EXCEPT !.compat_flags = c], "GOT_COMPAT_FLAGS")
  \/ TakesHeader("GOT_COMPAT_FLAGS", [rxmsg EXCEPT !.seq = c], "GOT_SEQ")
  \/ TakesHeader("GOT_SEQ", [rxmsg EXCEPT !.sysid = c], "GOT_SYSID")
  \/ TakesHeader("GOT_SYSID", [rxmsg EXCEPT !.compid = c], "GOT_COMPID")
  \/ TakesHeader("GOT_COMPID", [rxmsg EXCEPT !.msgid = <<c, 0, 0>>],
                 IF in_mavlink1 THEN AfterHeader ELSE "GOT_MSGID1")
  \/ TakesHeader("GOT_MSGID1", [rxmsg EXCEPT !.msgid[2] = c], "GOT_MSGID2")
  \/ TakesHeader("GOT_MSGID2", [rxmsg EXCEPT !.msgid[3] = c], AfterHeader)

PayloadByte ==
  /\ Takes("GOT_MSGID3", [rxmsg EXCEPT !.payload[packet_idx + 1] = c],
           IF packet_idx + 1 = rxmsg.len THEN "GOT_PAYLOAD" ELSE "GOT_MSGID3")
  /\ packet_idx' = packet_idx + 1

(* The bisection of mavlink_get_msg_entry: an entry, if there is one.      *)
EntryIndex(id) ==
  LET search[bounds \in (DOMAIN Entries) \X (DOMAIN Entries)] ==
        LET low  == bounds[1]
            high == bounds[2]
            mid  == (low + 1 + high) \div 2
        IN  IF low >= high THEN low
            ELSE IF id < Entries[mid].msgid THEN search[<<low, mid - 1>>]
            ELSE IF id > Entries[mid].msgid THEN search[<<mid, high>>]
            ELSE mid
  IN  search[<<1, Len(Entries)>>]

mavlink_get_msg_entry(id) ==
  LET e == Entries[EntryIndex(Number(id))]
  IN  IF e.msgid = Number(id) THEN {e} ELSE {}

crc_extra(id) == IF mavlink_get_msg_entry(id) = {} THEN 0
                 ELSE (CHOOSE e \in mavlink_get_msg_entry(id) : TRUE).crc_extra

(* A short payload of a known message is filled with zeros.                *)
ZeroFilled_Never(rx, n) == rx.payload
ZeroFilled(rx, n) ==
  [k \in 1..MAX_PAYLOAD_LEN |->
     IF \E e \in mavlink_get_msg_entry(rx.msgid) : k \in (n + 1)..e.max_msg_len
     THEN 0 ELSE rx.payload[k]]

AfterFirstCrc_Any(covered) == "GOT_CRC1"
AfterFirstCrc(covered) == IF c = CrcLow(covered) THEN "GOT_CRC1" ELSE "GOT_BAD_CRC1"

FirstCrc ==
  /\ Incomplete("GOT_PAYLOAD")
  /\ LET covered == Append(rxmsg.checksum, crc_extra(rxmsg.msgid))
     IN  /\ rxmsg' = [rxmsg EXCEPT !.checksum = covered,
                                   !.payload = ZeroFilled(rxmsg, packet_idx)]
         /\ parse_state' = AfterFirstCrc(covered)
  /\ frame' = Append(frame, c)
  /\ UNCHANGED <<packet_idx, signature_wait, in_mavlink1>>

(* A message is complete: the main loop processes it and goes on with the  *)
(* next byte, the download returns.                                        *)
Rest == IF reader = "main" THEN Tail(buf) ELSE <<>>

Delivers ==
  /\ delivered' = Append(delivered, rxmsg)
  /\ buf' = Rest
  /\ parse_state' = "IDLE"

GoodCrc ==
  /\ Parses("GOT_CRC1") /\ c = CrcHigh(rxmsg.checksum)
  /\ frame' = Append(frame, c)
  /\ IF rxmsg.incompat_flags = IFLAG_SIGNED
     THEN /\ parse_state' = "SIGNATURE_WAIT" /\ signature_wait' = SIGNATURE_BLOCK_LEN
          /\ buf' = Tail(buf) /\ UNCHANGED delivered
     ELSE Delivers /\ UNCHANGED signature_wait
  /\ UNCHANGED <<packet_idx, in_mavlink1, rxmsg>>

(* The channel has no keys, so every signature is accepted.                *)
Signature ==
  /\ Parses("SIGNATURE_WAIT")
  /\ frame' = Append(frame, c)
  /\ signature_wait' = signature_wait - 1
  /\ IF signature_wait' = 0
     THEN Delivers
     ELSE buf' = Tail(buf) /\ UNCHANGED <<delivered, parse_state>>
  /\ UNCHANGED <<packet_idx, in_mavlink1, rxmsg>>

AfterBadCrc_Stays == IF c = STX THEN "GOT_STX" ELSE parse_state
AfterBadCrc == IF c = STX THEN "GOT_STX" ELSE "IDLE"

(* After a bad checksum mavlink_parse_char starts over, with the last byte *)
(* if it is a marker of version 2.  The flag of the version, the magic and *)
(* a signature that is still to come are left as they are.                 *)
BadCrc ==
  /\ Incomplete(parse_state)
  /\ \/ parse_state = "GOT_BAD_CRC1"
     \/ parse_state = "GOT_CRC1" /\ c # CrcHigh(rxmsg.checksum)
  /\ IF rxmsg.incompat_flags = IFLAG_SIGNED
     THEN signature_wait' = SIGNATURE_BLOCK_LEN ELSE UNCHANGED signature_wait
  /\ parse_state' = AfterBadCrc
  /\ IF c = STX
     THEN frame' = <<c>> /\ rxmsg' = [rxmsg EXCEPT !.len = 0, !.checksum = <<>>]
     ELSE UNCHANGED <<rxmsg, frame>>
  /\ UNCHANGED <<packet_idx, in_mavlink1>>

mavlink_parse_char ==
  \/ Skip \/ Start \/ Length \/ IncompatFlags \/ UnknownFlags \/ HeaderByte \/ PayloadByte
  \/ FirstCrc \/ GoodCrc \/ BadCrc \/ Signature

Next == (\E r \in {"main", "download"} : recvfrom(r)) \/ mavlink_parse_char

Spec == Init /\ [][Next]_vars

(* Fairness: telemetry keeps arriving and is parsed.                       *)
FairSpec == Spec /\ WF_vars(Next)
-----------------------------------------------------------------------------
States ==
  {"IDLE", "GOT_STX", "GOT_LENGTH", "GOT_INCOMPAT_FLAGS", "GOT_COMPAT_FLAGS", "GOT_SEQ",
   "GOT_SYSID", "GOT_COMPID", "GOT_MSGID1", "GOT_MSGID2", "GOT_MSGID3", "GOT_PAYLOAD",
   "GOT_CRC1", "GOT_BAD_CRC1", "SIGNATURE_WAIT"}

Received ==
  [magic : Byte, len : Byte, incompat_flags : Byte, compat_flags : Byte, seq : Byte,
   sysid : Byte, compid : Byte, msgid : Byte \X Byte \X Byte,
   payload : [1..MAX_PAYLOAD_LEN -> Byte], checksum : Seq(Byte)]

(* The variables hold values of their types; in particular the parser      *)
(* writes within the payload and waits for one byte of it at least.        *)
TypeOK ==
  /\ parse_state \in States /\ in_mavlink1 \in BOOLEAN
  /\ packet_idx \in Byte /\ (parse_state = "GOT_MSGID3" => packet_idx < rxmsg.len)
  /\ signature_wait \in 0..SIGNATURE_BLOCK_LEN
  /\ parse_state = "SIGNATURE_WAIT" => signature_wait > 0
  /\ rxmsg \in Received
  /\ reader \in {"main", "download"} /\ buf \in Seq(Byte) /\ frame \in Seq(Byte)
  /\ delivered \in Seq(Received) /\ intact \in Seq(Messages) /\ clean \in BOOLEAN /\ noise \in 0..MaxNoise

(* Whatever bytes arrive, in datagrams cut anywhere, from either socket,   *)
(* a message is delivered only when the bytes since the last marker are    *)
(* its frame, checksum included.  (After a restart the marker itself may   *)
(* be the one of version 2 before a frame of version 1: see BadCrc.)       *)
Complete(m, bytes) ==
  /\ bytes # <<>> /\ bytes[1] \in {STX, STX_MAVLINK1}
  /\ \E signature \in {SubSeq(bytes, Len(bytes) - SignatureLen(m) + 1, Len(bytes))} :
       Tail(bytes) = Tail(Framed(m, SubSeq(m.payload, 1, m.len), DeclaredExtra(m.msgid))) \o signature

DeliveredIsAFrame == [][
  Len(delivered') > Len(delivered) => Complete(delivered'[Len(delivered')], frame')]_vars

SameMessage(rx, m) ==
  /\ rx.magic = m.magic /\ rx.msgid = m.msgid
  /\ rx.seq = m.seq /\ rx.sysid = m.sysid /\ rx.compid = m.compid
  /\ \A e \in Declared(m.msgid) : \A k \in 1..Entries[e].max_msg_len :
       rx.payload[k] = IF k <= Len(m.payload) THEN m.payload[k] ELSE 0

(* A datagram of whole frames loses nothing: every message arrives, in     *)
(* order and with the zeros that were not sent, and no frame is left over  *)
(* for the next datagram, whichever socket that comes from.  (The download *)
(* gets the first message.)                                                *)
CleanDatagramsComeThrough ==
  buf = <<>> /\ clean =>
    /\ parse_state = "IDLE"
    /\ Len(delivered) = Len(intact)
    /\ \A k \in DOMAIN intact : SameMessage(delivered[k], intact[k])

(* Noise costs some messages, never the connection: if it ceases, messages *)
(* are delivered again.  (Frames without markers inside are needed.)       *)
Recovers == []<>(delivered # <<>>)
=============================================================================
