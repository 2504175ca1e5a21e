-------------------------- MODULE MCMavlinkChannel --------------------------
(* A small instance of MavlinkChannel for TLC: bytes of 0..7 with the two  *)
(* highest as markers, and a checksum that depends on the order of bytes.  *)
EXTENDS MavlinkChannel

SmallCrc(bytes) ==
  LET sum[n \in 0..Len(bytes)] == IF n = 0 THEN 1 ELSE (3 * sum[n - 1] + bytes[n]) % 25
  IN  sum[Len(bytes)]
SmallCrcLow(bytes)  == SmallCrc(bytes) % 5
SmallCrcHigh(bytes) == SmallCrc(bytes) \div 5

(* The messages sent stand at the ends of the table and in the middle.     *)
Declare(msgid, extra, len) == [msgid |-> msgid, crc_extra |-> extra, max_msg_len |-> len]
SmallEntries ==
  <<Declare(1, 2, 2), Declare(3, 1, 1), Declare(10, 4, 3), Declare(20, 3, 2), Declare(45, 5, 2)>>

Message(magic, flags, id, extra, payload) ==
  [magic |-> magic, incompat_flags |-> flags, compat_flags |-> 0, seq |-> 3,
   sysid |-> 1, compid |-> 1, msgid |-> id, crc_extra |-> extra, payload |-> payload]

Version1 == Message(STX_MAVLINK1, 0, <<1, 0, 0>>, 2, <<4, 0>>)
Zeros    == Message(STX, 0, <<5, 5, 0>>, 5, <<0, 0>>)
Signed   == Message(STX, IFLAG_SIGNED, <<2, 1, 0>>, 4, <<1, 5, 0>>)
SmallMessages == {Version1, Zeros, Signed}

(* Messages the table does not know, of no payload, with a crc_extra of    *)
(* their own (rejected) and with none (delivered); frames without an end,  *)
(* without a beginning, and with one byte replaced.                        *)
Unknown  == {Message(STX, 0, <<5, 4, 0>>, extra, <<>>) : extra \in {0, 2}}
Cuts(w)  == {SubSeq(w, 1, n) : n \in 1..(Len(w) - 1)} \union {SubSeq(w, n, Len(w)) : n \in 2..Len(w)}
Flips(w) == {[w EXCEPT ![n] = b] : n \in 1..Len(w), b \in {2, STX, STX_MAVLINK1}}
SmallNoise ==
  {Sent(m) : m \in Unknown} \union Cuts(Sent(Signed)) \union Flips(Sent(Signed)) \union Flips(Sent(Version1))
=============================================================================
