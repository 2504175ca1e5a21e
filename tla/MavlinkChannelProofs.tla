------------------------ MODULE MavlinkChannelProofs ------------------------
(***************************************************************************)
(* What the parser of MavlinkChannel does with every sequence of bytes,    *)
(* for every table of messages, checksum and length of buffers.            *)
(***************************************************************************)
EXTENDS MavlinkChannel, Basics, SequenceTheorems, TLAPS

-----------------------------------------------------------------------------
(* The bisection of the table of messages.                                 *)

Bounds == (DOMAIN Entries) \X (DOMAIN Entries)

(* One step of the search, with the outcome of narrower ones.              *)
Narrowed(search, id, bounds) ==
  LET low  == bounds[1]
      high == bounds[2]
      mid  == (low + 1 + high) \div 2
  IN  IF low >= high THEN low
      ELSE IF id < Entries[mid].msgid THEN search[<<low, mid - 1>>]
      ELSE IF id > Entries[mid].msgid THEN search[<<mid, high>>]
      ELSE mid

(* The search is defined where the bounds are at most n apart.             *)
Width(bounds) == bounds[2] - bounds[1]
Searches(search, id, n) ==
  /\ search = [bounds \in Bounds |-> search[bounds]]
  /\ \A bounds \in Bounds : Width(bounds) <= n => search[bounds] = Narrowed(search, id, bounds)

(* The table is not empty, and its numbers go up.                          *)
LEMMA EntriesAre ==
  /\ Len(Entries) \in Nat \ {0} /\ DOMAIN Entries = 1..Len(Entries)
  /\ \A k \in DOMAIN Entries :
       Entries[k] \in [msgid : Nat, crc_extra : Byte, max_msg_len : Byte]
  /\ \A j, k \in DOMAIN Entries : j < k => Entries[j].msgid < Entries[k].msgid
<1>1. Len(Entries) \in Nat /\ DOMAIN Entries = 1..Len(Entries) /\ Len(Entries) # 0
  BY EntriesAssumption, LenProperties, EmptySeq
<1>. QED  BY <1>1, EntriesAssumption, ElementOfSeq

(* A part of the table is given by its first and last entries.             *)
LEMMA BoundsAre ==
  /\ \A b \in Bounds : /\ b[1] \in 1..Len(Entries) /\ b[2] \in 1..Len(Entries)
                       /\ Width(b) \in Int /\ Width(b) = b[2] - b[1]
  /\ \A low, high \in 1..Len(Entries) :
       <<low, high>> \in Bounds /\ Width(<<low, high>>) = high - low
<1>1. DOMAIN Entries = 1..Len(Entries) /\ Len(Entries) \in Nat
  BY EntriesAre
<1>2. /\ \A b \in Bounds : b[1] \in DOMAIN Entries /\ b[2] \in DOMAIN Entries
      /\ \A low, high \in DOMAIN Entries : <<low, high>> \in Bounds
  BY DEF Bounds
<1>. QED  BY <1>1, <1>2 DEF Width

(* A wider search looks at narrower ones only.                             *)
LEMMA Narrower ==
  ASSUME NEW bounds \in Bounds, Width(bounds) > 0
  PROVE  LET low  == bounds[1]
             high == bounds[2]
             mid  == (low + 1 + high) \div 2
         IN  /\ mid \in (low + 1)..high /\ mid \in DOMAIN Entries
             /\ <<low, mid - 1>> \in Bounds /\ Width(<<low, mid - 1>>) < Width(bounds)
             /\ <<mid, high>> \in Bounds /\ Width(<<mid, high>>) < Width(bounds)
<1> DEFINE low  == bounds[1]
           high == bounds[2]
           mid  == (low + 1 + high) \div 2
<1>1. low \in 1..Len(Entries) /\ high \in 1..Len(Entries) /\ low < high /\ Len(Entries) \in Nat
  BY BoundsAre, EntriesAre
<1>2. mid \in (low + 1)..high
  <2> HIDE DEF low, high
  <2>. QED  BY <1>1
<1> HIDE DEF low, high, mid
<1>3. /\ mid \in 1..Len(Entries) /\ mid - 1 \in 1..Len(Entries)
      /\ mid - 1 - low < high - low /\ high - mid < high - low
  BY <1>1, <1>2
<1>4. <<low, mid - 1>> \in Bounds /\ <<mid, high>> \in Bounds
  BY <1>1, <1>3, BoundsAre
<1>5. Width(<<low, mid - 1>>) = mid - 1 - low /\ Width(<<mid, high>>) = high - mid
  BY <1>1, <1>3, BoundsAre
<1>6. Width(bounds) = high - low
  BY DEF Width, low, high
<1>. QED  BY <1>2, <1>3, <1>4, <1>5, <1>6, EntriesAre DEF low, high, mid

(* There is a function that searches parts of any width.                   *)
LEMMA SearchExists ==
  ASSUME NEW id, NEW n \in Nat
  PROVE  \E search : Searches(search, id, n)
<1> DEFINE S == {k \in Nat : \E search : Searches(search, id, k)}
<1>1. 0 \in S
  <2> DEFINE ends == [bounds \in Bounds |-> bounds[1]]
  <2>1. ASSUME NEW bounds \in Bounds, Width(bounds) <= 0
        PROVE  ends[bounds] = Narrowed(ends, id, bounds)
    <3>1. bounds[1] >= bounds[2]
      BY <2>1, BoundsAre
    <3>. QED  BY <3>1 DEF Narrowed
  <2>2. Searches(ends, id, 0)
    BY <2>1 DEF Searches
  <2>. QED  BY <2>2
<1>2. ASSUME NEW k \in Nat, k \in S PROVE k + 1 \in S
  <2>1. PICK search : Searches(search, id, k)
    BY <1>2
  <2> DEFINE wider == [bounds \in Bounds |-> Narrowed(search, id, bounds)]
  <2>2. ASSUME NEW bounds \in Bounds, Width(bounds) <= k
        PROVE  wider[bounds] = search[bounds]
    BY <2>1, <2>2 DEF Searches
  <2>3. ASSUME NEW bounds \in Bounds, Width(bounds) <= k + 1
        PROVE  wider[bounds] = Narrowed(wider, id, bounds)
    <3>1. CASE Width(bounds) <= 0
      <4>1. bounds[1] >= bounds[2]
        BY <3>1, BoundsAre
      <4>. QED  BY <4>1 DEF Narrowed
    <3>2. CASE Width(bounds) > 0
      <4> DEFINE low  == bounds[1]
                 high == bounds[2]
                 mid  == (low + 1 + high) \div 2
      <4> HIDE DEF wider
      <4>1. /\ <<low, mid - 1>> \in Bounds /\ Width(<<low, mid - 1>>) < Width(bounds)
            /\ <<mid, high>> \in Bounds /\ Width(<<mid, high>>) < Width(bounds)
        BY <3>2, Narrower
      <4>2. \A b \in Bounds : Width(b) \in Int
        BY BoundsAre
      <4>3. Width(<<low, mid - 1>>) <= k /\ Width(<<mid, high>>) <= k
        <5> HIDE DEF low, high, mid
        <5>1. \A w, v \in Int : w < v /\ v <= k + 1 => w <= k
          OBVIOUS
        <5>. QED  BY <2>3, <4>1, <4>2, <5>1, Zenon
      <4>4. wider[<<low, mid - 1>>] = search[<<low, mid - 1>>] /\ wider[<<mid, high>>] = search[<<mid, high>>]
        BY <2>2, <4>1, <4>3, Zenon
      <4>5. wider[bounds] = Narrowed(search, id, bounds)
        BY DEF wider
      <4>. QED  BY <4>4, <4>5, Zenon DEF Narrowed
    <3>3. Width(bounds) \in Int
      BY BoundsAre
    <3>. QED  BY <3>1, <3>2, <3>3
  <2>4. Searches(wider, id, k + 1)
    <3>1. wider = [bounds \in Bounds |-> wider[bounds]]
      OBVIOUS
    <3> HIDE DEF wider
    <3>. QED  BY <2>3, <3>1 DEF Searches
  <2>. QED  BY <2>4
<1>3. 0..n \subseteq S
  <2> HIDE DEF S
  <2>. QED  BY <1>1, <1>2, InductionFrom
<1>. QED  BY <1>3

(* The search ends between its bounds, at the number if it is there.       *)
Found(search, id, bounds) ==
  /\ search[bounds] \in bounds[1]..bounds[2]
  /\ \A k \in bounds[1]..bounds[2] :
       Entries[k].msgid = id => Entries[search[bounds]].msgid = id

(* It finds the entry, by induction over the width of the part.            *)
LEMMA SearchFinds ==
  ASSUME NEW id \in Nat, NEW n \in Nat, NEW search, Searches(search, id, n),
         NEW bounds \in Bounds, Width(bounds) \in 0..n
  PROVE  Found(search, id, bounds)
<1> DEFINE S == {k \in 0..n : \A b \in Bounds : Width(b) \in 0..k => Found(search, id, b)}
<1>1. \A j, k \in 1..Len(Entries) :
        /\ Entries[j].msgid \in Nat
        /\ j < k => Entries[j].msgid < Entries[k].msgid
  BY EntriesAre
<1>2. ASSUME NEW b \in Bounds, Width(b) = 0 PROVE Found(search, id, b)
  <2>1. b[1] = b[2] /\ b[1] \in Nat /\ Width(b) <= n
    BY <1>2, BoundsAre
  <2>2. search[b] = Narrowed(search, id, b) /\ b[1] >= b[2]
    BY <2>1 DEF Searches
  <2>3. search[b] = b[1]
    BY <2>2, Zenon DEF Narrowed
  <2>. QED  BY <2>1, <2>3 DEF Found
<1>3. 0 \in S
  BY <1>2
<1>4. ASSUME NEW k \in 0..(n - 1), k \in S PROVE k + 1 \in S
  <2>1. ASSUME NEW b \in Bounds, Width(b) \in 1..(k + 1) PROVE Found(search, id, b)
    <3> DEFINE low  == b[1]
               high == b[2]
               mid  == (low + 1 + high) \div 2
               below == <<low, mid - 1>>
               above == <<mid, high>>
    <3>1. /\ mid \in (low + 1)..high /\ mid \in DOMAIN Entries
          /\ below \in Bounds /\ Width(below) < Width(b)
          /\ above \in Bounds /\ Width(above) < Width(b)
      BY <2>1, Narrower
    <3>2. /\ low \in 1..Len(Entries) /\ high \in 1..Len(Entries) /\ mid \in 1..Len(Entries)
          /\ Len(Entries) \in Nat /\ low < high
      <4>1. Len(Entries) \in Nat /\ mid \in 1..Len(Entries)
        BY <3>1, EntriesAre
      <4>2. low \in 1..Len(Entries) /\ high \in 1..Len(Entries) /\ Width(b) = high - low
        BY BoundsAre
      <4> HIDE DEF low, high, mid
      <4>. QED  BY <2>1, <4>1, <4>2
    <3>3. search[b] = Narrowed(search, id, b)
      BY <2>1 DEF Searches
    <3>4. Width(below) = mid - 1 - low /\ Width(above) = high - mid
      BY <3>1, <3>2, BoundsAre
    <3>5. search[b] = IF id < Entries[mid].msgid THEN search[below]
                      ELSE IF id > Entries[mid].msgid THEN search[above] ELSE mid
      <4>1. ~(low >= high)
        BY <3>2
      <4>. QED  BY <3>3, <4>1, Zenon DEF Narrowed
    <3>6. below[1] = low /\ below[2] = mid - 1 /\ above[1] = mid /\ above[2] = high
      OBVIOUS
    <3> HIDE DEF low, high, mid, below, above
    <3>7. Width(below) \in 0..k /\ Width(above) \in 0..k
      <4>1. Width(b) \in Int /\ Width(below) \in Nat /\ Width(above) \in Nat
        BY <2>1, <3>2, <3>1, <3>4
      <4> DEFINE w == Width(b)
                 x == Width(below)
                 y == Width(above)
      <4>2. w \in 1..(k + 1) /\ x \in Nat /\ y \in Nat /\ x < w /\ y < w
        BY <2>1, <3>1, <4>1
      <4> HIDE DEF w, x, y
      <4>3. x \in 0..k /\ y \in 0..k
        BY <4>2
      <4>. QED  BY <4>3 DEF x, y
    <3>8. Found(search, id, below) /\ Found(search, id, above)
      BY <1>4, <3>1, <3>7
    <3>9. CASE id < Entries[mid].msgid
      <4>1. search[b] = search[below]
        BY <3>5, <3>9
      <4>2. ASSUME NEW j \in low..high, Entries[j].msgid = id PROVE j \in low..(mid - 1)
        BY <1>1, <3>1, <3>2, <3>9, <4>2
      <4>3. /\ search[below] \in low..(mid - 1)
            /\ \A j \in low..(mid - 1) : Entries[j].msgid = id => Entries[search[below]].msgid = id
        BY <3>6, <3>8 DEF Found
      <4>4. search[b] \in low..high
        BY <3>1, <3>2, <4>1, <4>3
      <4>. QED  BY <4>1, <4>2, <4>3, <4>4 DEF Found, low, high
    <3>10. CASE id > Entries[mid].msgid
      <4>1. search[b] = search[above]
        BY <1>1, <3>2, <3>5, <3>10
      <4>2. ASSUME NEW j \in low..high, Entries[j].msgid = id PROVE j \in mid..high
        BY <1>1, <3>1, <3>2, <3>10, <4>2
      <4>3. /\ search[above] \in mid..high
            /\ \A j \in mid..high : Entries[j].msgid = id => Entries[search[above]].msgid = id
        BY <3>6, <3>8 DEF Found
      <4>4. search[b] \in low..high
        BY <3>1, <3>2, <4>1, <4>3
      <4>. QED  BY <4>1, <4>2, <4>3, <4>4 DEF Found, low, high
    <3>11. CASE id = Entries[mid].msgid
      <4>1. search[b] = mid
        BY <3>5, <3>11
      <4>. QED  BY <3>1, <3>2, <3>11, <4>1 DEF Found, low, high
    <3>. QED  BY <1>1, <3>2, <3>9, <3>10, <3>11
  <2>2. k + 1 \in 0..n
    BY <1>4
  <2>3. \A b \in Bounds : Width(b) \in 0..(k + 1) => Width(b) = 0 \/ Width(b) \in 1..(k + 1)
    BY <1>4
  <2>. QED  BY <1>2, <2>1, <2>2, <2>3
<1>5. 0..n \subseteq S
  <2> HIDE DEF S
  <2>. QED  BY <1>3, <1>4, InductionFrom
<1>. QED  BY <1>5

(* The bisection finds the entry of a message, whatever the table.         *)
LEMMA EntryIndexFinds ==
  ASSUME NEW id \in Nat
  PROVE  /\ EntryIndex(id) \in DOMAIN Entries
         /\ \A k \in DOMAIN Entries : Entries[k].msgid = id => EntryIndex(id) = k
<1> DEFINE N == Len(Entries)
           search == CHOOSE search : search = [bounds \in Bounds |-> Narrowed(search, id, bounds)]
<1>1. N \in Nat /\ N # 0 /\ DOMAIN Entries = 1..N
  BY EntriesAre
<1>2. EntryIndex(id) = search[<<1, N>>]
  BY DEF EntryIndex, Narrowed, Bounds
<1>3. PICK s : Searches(s, id, N)
  BY <1>1, SearchExists
<1>4. s = [bounds \in Bounds |-> s[bounds]]
  BY <1>3 DEF Searches
<1>5. \A bounds \in Bounds : s[bounds] = Narrowed(s, id, bounds)
  <2>1. ASSUME NEW bounds \in Bounds PROVE Width(bounds) <= N
    <3>1. bounds[1] \in 1..N /\ bounds[2] \in 1..N /\ Width(bounds) = bounds[2] - bounds[1]
      BY BoundsAre
    <3>. QED  BY <1>1, <3>1
  <2>. QED  BY <1>3, <2>1 DEF Searches
<1>6. s = [bounds \in Bounds |-> Narrowed(s, id, bounds)]
  BY <1>4, <1>5, Zenon
<1>7. search = [bounds \in Bounds |-> Narrowed(search, id, bounds)]
  BY <1>6, Zenon
<1>8. Searches(search, id, N)
  <2>1. \A bounds \in Bounds : search[bounds] = Narrowed(search, id, bounds)
    <3> HIDE DEF search
    <3> DEFINE narrowed == [bounds \in Bounds |-> Narrowed(search, id, bounds)]
    <3>1. \A bounds \in Bounds : narrowed[bounds] = Narrowed(search, id, bounds)
      OBVIOUS
    <3> HIDE DEF narrowed
    <3>2. search = narrowed
      BY <1>7 DEF narrowed
    <3>. QED  BY <3>1, <3>2
  <2> HIDE DEF search
  <2>2. search = [bounds \in Bounds |-> search[bounds]]
    BY <1>7, <2>1, Zenon
  <2>. QED  BY <2>1, <2>2 DEF Searches
<1> HIDE DEF search
<1> DEFINE whole == <<1, N>>
<1>9. whole \in Bounds /\ Width(whole) \in 0..N /\ whole[1] = 1 /\ whole[2] = N
  BY <1>1, BoundsAre
<1> HIDE DEF N, whole
<1>10. Found(search, id, whole)
  BY <1>1, <1>8, <1>9, SearchFinds
<1>11. /\ EntryIndex(id) \in DOMAIN Entries
       /\ \A k \in DOMAIN Entries : Entries[k].msgid = id => Entries[EntryIndex(id)].msgid = id
  BY <1>1, <1>2, <1>9, <1>10 DEF Found, whole
<1>12. \A j, k \in DOMAIN Entries : Entries[j].msgid = Entries[k].msgid => j = k
  <2>1. ASSUME NEW j \in DOMAIN Entries, NEW k \in DOMAIN Entries,
               Entries[j].msgid = Entries[k].msgid
        PROVE  j = k
    <3>1. /\ Entries[j].msgid \in Nat /\ Entries[k].msgid \in Nat
          /\ j < k => Entries[j].msgid < Entries[k].msgid
          /\ k < j => Entries[k].msgid < Entries[j].msgid
      BY EntriesAre
    <3>2. j \in Nat /\ k \in Nat
      BY <1>1
    <3>. QED  BY <2>1, <3>1, <3>2
  <2>. QED  BY <2>1
<1>. QED  BY <1>11, <1>12

(* Three bytes make a number.                                              *)
LEMMA NumberIs ==
  ASSUME NEW id \in Byte \X Byte \X Byte
  PROVE  Number(id) \in Nat
<1>1. /\ id[1] \in Nat /\ id[2] \in Nat /\ id[3] \in Nat
      /\ MAX_PAYLOAD_LEN + 1 \in Nat
  BY MarkerAssumption DEF Byte
<1>2. \A a, b \in Nat : a * b \in Nat
  OBVIOUS
<1>3. (MAX_PAYLOAD_LEN + 1) * id[3] \in Nat
  BY <1>1, <1>2
<1>4. id[2] + (MAX_PAYLOAD_LEN + 1) * id[3] \in Nat
  BY <1>1, <1>3
<1>5. (MAX_PAYLOAD_LEN + 1) * (id[2] + (MAX_PAYLOAD_LEN + 1) * id[3]) \in Nat
  BY <1>1, <1>2, <1>4
<1>. QED  BY <1>1, <1>5 DEF Number

(* mavlink_get_msg_entry: the bisection finds the entry of a message if    *)
(* the table has one and finds none otherwise, whatever the table.         *)
THEOREM LookupCorrect ==
  ASSUME NEW id \in Byte \X Byte \X Byte
  PROVE  mavlink_get_msg_entry(id) = {Entries[k] : k \in Declared(id)}
<1>1. Number(id) \in Nat
  BY NumberIs
<1> DEFINE n == Number(id)
           e == EntryIndex(n)
<1> HIDE DEF n
<1>2. e \in DOMAIN Entries /\ \A k \in DOMAIN Entries : Entries[k].msgid = n => e = k
  BY <1>1, EntryIndexFinds DEF n
<1> HIDE DEF e
<1>3. mavlink_get_msg_entry(id) = IF Entries[e].msgid = n THEN {Entries[e]} ELSE {}
  BY DEF mavlink_get_msg_entry, n, e
<1>4. Declared(id) = {k \in DOMAIN Entries : Entries[k].msgid = n}
  BY DEF Declared, n
<1>. QED  BY <1>2, <1>3, <1>4

(* The byte that the checksum ends with is the one of the table.           *)
LEMMA CrcExtraIs ==
  ASSUME NEW id \in Byte \X Byte \X Byte
  PROVE  crc_extra(id) = DeclaredExtra(id) /\ crc_extra(id) \in Byte
<1>1. mavlink_get_msg_entry(id) = {Entries[k] : k \in Declared(id)}
  BY LookupCorrect
<1>2. \A k \in DOMAIN Entries : Entries[k].crc_extra \in Byte /\ Entries[k].msgid \in Nat
  BY EntriesAre
<1>3. \A j, k \in Declared(id) : j = k /\ j \in DOMAIN Entries
  <2>1. Number(id) \in Nat
    BY NumberIs
  <2>. QED  BY <2>1, EntryIndexFinds DEF Declared
<1>4. CASE Declared(id) = {}
  <2>1. 0 \in Byte
    BY MarkerAssumption DEF Byte
  <2>. QED  BY <1>1, <1>4, <2>1 DEF crc_extra, DeclaredExtra
<1>5. CASE Declared(id) # {}
  <2>1. PICK k \in Declared(id) : TRUE
    BY <1>5
  <2>2. Declared(id) = {k} /\ mavlink_get_msg_entry(id) = {Entries[k]}
    BY <1>1, <1>3, <2>1
  <2>3. (CHOOSE j \in Declared(id) : TRUE) = k
    BY <2>2
  <2>4. (CHOOSE e \in mavlink_get_msg_entry(id) : TRUE) = Entries[k]
    BY <2>2
  <2>5. DeclaredExtra(id) = Entries[k].crc_extra
    BY <1>5, <2>3, Zenon DEF DeclaredExtra
  <2>6. crc_extra(id) = Entries[k].crc_extra
    BY <2>2, <2>4, Zenon DEF crc_extra
  <2>. QED  BY <1>2, <1>3, <2>1, <2>5, <2>6
<1>. QED  BY <1>4, <1>5
-----------------------------------------------------------------------------
(* Types.                                                                  *)

HeaderStates ==
  {"GOT_STX", "GOT_LENGTH", "GOT_INCOMPAT_FLAGS", "GOT_COMPAT_FLAGS", "GOT_SEQ", "GOT_SYSID",
   "GOT_COMPID", "GOT_MSGID1", "GOT_MSGID2"}

TypeInv ==
  /\ TypeOK
  /\ parse_state \in HeaderStates \ {"GOT_STX"} => packet_idx = 0

(* The first byte of a buffer, and the others.                             *)
LEMMA TheByte ==
  ASSUME NEW s \in Seq(Byte), s # <<>>
  PROVE  Head(s) \in Byte /\ Tail(s) \in Seq(Byte) /\ s = <<Head(s)>> \o Tail(s)
BY HeadTailProperties, HeadTailAppend

(* Fields take bytes.                                                      *)
LEMMA UpdatesAre ==
  ASSUME NEW rx \in Received, NEW b \in Byte
  PROVE  /\ [rx EXCEPT !.len = b] \in Received
         /\ [rx EXCEPT !.magic = b] \in Received
         /\ [rx EXCEPT !.incompat_flags = b] \in Received
         /\ [rx EXCEPT !.compat_flags = b] \in Received
         /\ [rx EXCEPT !.seq = b] \in Received
         /\ [rx EXCEPT !.sysid = b] \in Received
         /\ [rx EXCEPT !.compid = b] \in Received
         /\ [rx EXCEPT !.msgid = <<b, 0, 0>>] \in Received
         /\ [rx EXCEPT !.msgid[2] = b] \in Received
         /\ [rx EXCEPT !.msgid[3] = b] \in Received
         /\ \A k \in 1..MAX_PAYLOAD_LEN : [rx EXCEPT !.payload[k] = b] \in Received
         /\ [rx EXCEPT !.checksum = <<>>] \in Received
         /\ [rx EXCEPT !.checksum = Append(@, b)] \in Received
<1>1. 0 \in Byte
  BY MarkerAssumption DEF Byte
<1>2. ASSUME NEW t \in Byte \X Byte \X Byte
      PROVE  [t EXCEPT ![2] = b] \in Byte \X Byte \X Byte /\ [t EXCEPT ![3] = b] \in Byte \X Byte \X Byte
  OBVIOUS
<1>3. rx.msgid \in Byte \X Byte \X Byte /\ rx.payload \in [1..MAX_PAYLOAD_LEN -> Byte] /\ rx.checksum \in Seq(Byte)
  BY DEF Received
<1>4. <<b, 0, 0>> \in Byte \X Byte \X Byte
  BY <1>1
<1>5. \A k \in 1..MAX_PAYLOAD_LEN : [rx.payload EXCEPT ![k] = b] \in [1..MAX_PAYLOAD_LEN -> Byte]
  BY <1>3
<1>6. <<>> \in Seq(Byte) /\ Append(rx.checksum, b) \in Seq(Byte)
  BY <1>3, AppendProperties, EmptySeq
<1>7. /\ [rx EXCEPT !.len = b] \in Received
      /\ [rx EXCEPT !.magic = b] \in Received
      /\ [rx EXCEPT !.incompat_flags = b] \in Received
      /\ [rx EXCEPT !.compat_flags = b] \in Received
      /\ [rx EXCEPT !.seq = b] \in Received
      /\ [rx EXCEPT !.sysid = b] \in Received
      /\ [rx EXCEPT !.compid = b] \in Received
  BY DEF Received
<1>8. /\ [rx EXCEPT !.msgid = <<b, 0, 0>>] \in Received
      /\ [rx EXCEPT !.msgid[2] = b] \in Received
      /\ [rx EXCEPT !.msgid[3] = b] \in Received
  BY <1>2, <1>3, <1>4 DEF Received
<1>9. /\ \A k \in 1..MAX_PAYLOAD_LEN : [rx EXCEPT !.payload[k] = b] \in Received
      /\ [rx EXCEPT !.checksum = <<>>] \in Received
      /\ [rx EXCEPT !.checksum = Append(@, b)] \in Received
  BY <1>3, <1>5, <1>6 DEF Received
<1>. QED  BY <1>7, <1>8, <1>9
-----------------------------------------------------------------------------
(* The frames of a datagram, one by one.                                   *)

Wires(wire, ms, n) ==
  wire = [k \in 0..n |-> IF k = 0 THEN <<>> ELSE wire[k - 1] \o Sent(ms[k])]

(* There is a function that writes any number of messages.                 *)
LEMMA WireExists ==
  ASSUME NEW ms, NEW N \in Nat
  PROVE  \E wire : Wires(wire, ms, N)
<1> DEFINE S == {n \in Nat : \E wire : Wires(wire, ms, n)}
<1>1. 0 \in S
  <2>1. Wires([k \in 0..0 |-> <<>>], ms, 0)
    BY DEF Wires
  <2>. QED  BY <2>1
<1>2. ASSUME NEW n \in Nat, n \in S PROVE n + 1 \in S
  <2>1. PICK wire : Wires(wire, ms, n)
    BY <1>2
  <2> DEFINE longer == [k \in 0..(n + 1) |-> IF k = n + 1 THEN wire[n] \o Sent(ms[k]) ELSE wire[k]]
  <2>2. longer = [k \in 0..(n + 1) |-> IF k = 0 THEN <<>> ELSE longer[k - 1] \o Sent(ms[k])]
    BY <2>1 DEF Wires
  <2> HIDE DEF longer
  <2>3. Wires(longer, ms, n + 1)
    BY <2>2 DEF Wires
  <2>. QED  BY <2>3
<1> HIDE DEF S
<1>3. 0..N \subseteq S
  BY <1>1, <1>2, InductionFrom
<1>. QED  BY <1>3 DEF S

(* What is left of a datagram after each of its frames.                    *)
Left(rest, ms, n) ==
  /\ rest \in [0..n -> SomeBytes]
  /\ \A k \in 1..n : rest[k - 1] = Sent(ms[k]) \o rest[k]
Rests(rest, ms) == Left(rest, ms, Len(ms))

(* What is left to write after each message.                               *)
LEMMA WireIs ==
  ASSUME NEW ms \in Seq(Messages)
  PROVE  \E rest : Rests(rest, ms) /\ rest[0] = Wire(ms) /\ rest[Len(ms)] = <<>>
<1> DEFINE N == Len(ms)
           wire == CHOOSE wire : Wires(wire, ms, N)
<1>1. N \in Nat /\ \A k \in 1..N : ms[k] \in Messages /\ Sent(ms[k]) \in SomeBytes
  BY LenProperties, ElementOfSeq, DatagramsAssumption
<1>2. Wire(ms) = wire[N]
  BY DEF Wire, Wires
<1>3. Wires(wire, ms, N)
  BY <1>1, WireExists
<1> HIDE DEF N, wire
<1>4. wire[0] = <<>> /\ \A n \in 1..N : wire[n] = wire[n - 1] \o Sent(ms[n])
  BY <1>1, <1>3 DEF Wires
<1> DEFINE S == {n \in 0..N : \E rest : Left(rest, ms, n) /\ rest[0] = wire[n] /\ rest[n] = <<>>}
<1>5. <<>> \in SomeBytes
  BY EmptySeq DEF SomeBytes
<1>6. 0 \in S
  <2> DEFINE none == [k \in 0..0 |-> <<>>]
  <2>1. none \in [0..0 -> SomeBytes] /\ none[0] = <<>>
    BY <1>5
  <2>2. \A k \in 1..0 : none[k - 1] = Sent(ms[k]) \o none[k]
    OBVIOUS
  <2> HIDE DEF none
  <2>3. Left(none, ms, 0) /\ none[0] = wire[0]
    BY <1>4, <2>1, <2>2 DEF Left
  <2>4. 0 \in 0..N
    BY <1>1
  <2>. QED  BY <2>1, <2>3, <2>4
<1>7. ASSUME NEW n \in 0..(N - 1), n \in S PROVE n + 1 \in S
  <2>1. PICK rest : Left(rest, ms, n) /\ rest[0] = wire[n] /\ rest[n] = <<>>
    BY <1>7
  <2>2. n + 1 \in 1..N /\ n \in Nat /\ n + 1 - 1 = n /\ n + 1 \in 0..N
    BY <1>1
  <2> DEFINE last == Sent(ms[n + 1])
             longer == [k \in 0..(n + 1) |-> IF k = n + 1 THEN <<>> ELSE rest[k] \o last]
  <2>3. last \in SomeBytes
    BY <1>1, <2>2
  <2>4. wire[n + 1] = wire[n] \o last
    <3> DEFINE m == n + 1
    <3>1. m \in 1..N /\ m - 1 = n
      BY <2>2
    <3> HIDE DEF m
    <3>2. wire[m] = wire[m - 1] \o Sent(ms[m])
      BY <1>4, <3>1
    <3>. QED  BY <3>1, <3>2, Zenon DEF m, last
  <2> HIDE DEF last
  <2>5. \A k \in 0..n : rest[k] \in SomeBytes /\ rest[k] \o last \in SomeBytes
    BY <2>1, <2>3, ConcatProperties DEF SomeBytes, Left
  <2>6. longer \in [0..(n + 1) -> SomeBytes]
    BY <1>5, <2>5
  <2>7. longer[n + 1] = <<>> /\ \A k \in 0..n : longer[k] = rest[k] \o last
    BY <2>2
  <2> HIDE DEF longer
  <2>8. longer[0] = wire[n + 1]
    <3>1. 0 \in 0..n
      BY <2>2
    <3>. QED  BY <2>1, <2>4, <2>7, <3>1, Zenon
  <2>9. ASSUME NEW k \in 1..(n + 1) PROVE longer[k - 1] = Sent(ms[k]) \o longer[k]
    <3>1. k - 1 \in 0..n
      BY <2>2
    <3>2. longer[k - 1] = rest[k - 1] \o last
      BY <2>7, <3>1
    <3>3. CASE k = n + 1
      <4>1. rest[k - 1] = <<>> /\ longer[k] = <<>> /\ Sent(ms[k]) = last
        BY <2>1, <2>2, <2>7, <3>3 DEF last
      <4>2. last \o <<>> = last /\ <<>> \o last = last
        BY <2>3, ConcatEmptySeq DEF SomeBytes
      <4>. QED  BY <3>2, <4>1, <4>2, Zenon
    <3>4. CASE k \in 1..n
      <4> DEFINE sent == Sent(ms[k])
                 after == rest[k]
      <4>1. k \in 0..n /\ k \in 1..N
        BY <1>1, <2>2, <3>4
      <4>2. sent \in Seq(Byte) /\ after \in Seq(Byte) /\ last \in Seq(Byte)
        BY <1>1, <2>3, <2>5, <4>1 DEF SomeBytes
      <4>3. rest[k - 1] = sent \o after /\ longer[k] = after \o last
        BY <2>1, <2>7, <3>4, <4>1 DEF Left
      <4> HIDE DEF sent, after
      <4>4. (sent \o after) \o last = sent \o (after \o last)
        BY <4>2, ConcatAssociative
      <4>5. longer[k - 1] = sent \o longer[k]
        BY <3>2, <4>3, <4>4, Zenon
      <4>. QED  BY <4>5 DEF sent
    <3>5. k = n + 1 \/ k \in 1..n
      BY <2>2
    <3>. QED  BY <3>3, <3>4, <3>5
  <2>10. Left(longer, ms, n + 1)
    BY <2>6, <2>9 DEF Left
  <2>. QED  BY <2>2, <2>7, <2>8, <2>10
<1>8. 0..N \subseteq S
  <2> HIDE DEF S
  <2>. QED  BY <1>1, <1>6, <1>7, InductionFrom
<1>9. PICK rest : Left(rest, ms, N) /\ rest[0] = wire[N] /\ rest[N] = <<>>
  BY <1>1, <1>8
<1>. QED  BY <1>2, <1>9 DEF Rests, N

(* A datagram of messages holds bytes.                                     *)
LEMMA WireType ==
  ASSUME NEW ms \in Seq(Messages)
  PROVE  Wire(ms) \in SomeBytes
<1>1. PICK rest : Rests(rest, ms) /\ rest[0] = Wire(ms)
  BY WireIs
<1>2. 0 \in 0..Len(ms)
  BY LenProperties
<1>. QED  BY <1>1, <1>2 DEF Rests, Left
-----------------------------------------------------------------------------
(* The types are kept: a frame's bytes are written within the payload.     *)

(* The types at first.                                                     *)
LEMMA TypeInit == Init => TypeInv
<1> SUFFICES ASSUME Init PROVE TypeInv
  OBVIOUS
<1>1. 0 \in Byte /\ MaxNoise \in Nat /\ SIGNATURE_BLOCK_LEN \in Nat
  BY MarkerAssumption, BufferAssumption DEF Byte
<1>2. rxmsg \in Received
  <2>1. Blank \in [1..MAX_PAYLOAD_LEN -> Byte] /\ <<0, 0, 0>> \in Byte \X Byte \X Byte
    BY <1>1 DEF Blank
  <2>2. <<>> \in Seq(Byte)
    BY EmptySeq
  <2>. QED  BY <1>1, <2>1, <2>2 DEF Init, Received
<1>3. buf \in Seq(Byte) /\ frame \in Seq(Byte) /\ delivered \in Seq(Received) /\ intact \in Seq(Messages)
  BY EmptySeq DEF Init
<1>4. /\ parse_state = "IDLE" /\ in_mavlink1 \in BOOLEAN /\ packet_idx \in Byte
      /\ reader \in {"main", "download"} /\ clean \in BOOLEAN
  BY <1>1 DEF Init
<1>5. signature_wait \in 0..SIGNATURE_BLOCK_LEN /\ noise \in 0..MaxNoise
  BY <1>1 DEF Init
<1> HIDE DEF Init
<1>. QED  BY <1>2, <1>3, <1>4, <1>5 DEF TypeInv, TypeOK, States, HeaderStates

(* The socket cuts a datagram to a sequence of bytes.                      *)
LEMMA CutIs ==
  ASSUME NEW bytes \in SomeBytes, NEW r
  PROVE  Cut(bytes, r) \in Seq(Byte)
<1>1. Len(bytes) \in Nat /\ BufferOf(r) \in Nat
  BY BufferAssumption, LenProperties DEF BufferOf, SomeBytes
<1> DEFINE n == IF Len(bytes) > BufferOf(r) THEN BufferOf(r) ELSE Len(bytes)
<1>2. n \in 0..Len(bytes)
  BY <1>1
<1> HIDE DEF n
<1>3. SubSeq(bytes, 1, n) \in Seq(Byte)
  BY <1>2, Beginning DEF SomeBytes
<1>. QED  BY <1>3 DEF Cut, n

(* A datagram comes.                                                       *)
LEMMA TypeReceive ==
  ASSUME TypeInv, NEW r \in {"main", "download"}, recvfrom(r)
  PROVE  TypeInv'
<1>1. buf' \in Seq(Byte) /\ intact' \in Seq(Messages) /\ clean' \in BOOLEAN /\ noise' \in 0..MaxNoise
  <2>1. MaxNoise \in Nat /\ noise \in 0..MaxNoise /\ MaxFrames \in Nat /\ parse_state \in States
    BY BufferAssumption DEF TypeInv, TypeOK
  <2>2. ASSUME Broken PROVE intact' \in Seq(Messages) /\ clean' \in BOOLEAN /\ noise' \in 0..MaxNoise
    <3>1. intact' = <<>> /\ clean' = FALSE /\ <<>> \in Seq(Messages)
      BY <2>2, EmptySeq DEF Broken
    <3>2. noise' \in 0..MaxNoise
      BY <2>1, <2>2 DEF Broken
    <3>. QED  BY <3>1, <3>2
  <2>3. ASSUME NEW n \in 1..MaxFrames, NEW ms \in [1..n -> Messages]
        PROVE  /\ ms \in Seq(Messages)
               /\ Whole(ms, r) => intact' \in Seq(Messages) /\ clean' \in BOOLEAN /\ noise' \in 0..MaxNoise
               /\ Cut(Wire(ms), r) \in Seq(Byte)
    <3>1. n \in Nat /\ 1 \in 1..n
      BY <2>1
    <3>2. ms \in Seq(Messages)
      BY <3>1, SeqDef
    <3>3. Wire(ms) \in SomeBytes
      BY <3>2, WireType
    <3>4. Cut(Wire(ms), r) \in Seq(Byte)
      BY <3>3, CutIs
    <3>5. <<ms[1]>> \in Seq(Messages)
      BY <3>1
    <3>. QED  BY <2>1, <3>2, <3>4, <3>5 DEF Whole
  <2>4. \A bytes \in Noise : Cut(bytes, r) \in Seq(Byte)
    BY DatagramsAssumption, CutIs
  <2>. QED  BY <2>2, <2>3, <2>4 DEF recvfrom
<1>2. delivered' \in Seq(Received)
  BY EmptySeq DEF recvfrom, Receives
<1>. QED  BY <1>1, <1>2 DEF recvfrom, Receives, TypeInv, TypeOK, status

(* What every step of the parser leaves alone, and the byte it takes.      *)
LEMMA Taken ==
  ASSUME TypeInv, buf # <<>>
  PROVE  /\ c \in Byte /\ Tail(buf) \in Seq(Byte) /\ Append(frame, c) \in Seq(Byte)
         /\ <<c>> \in Seq(Byte) /\ buf = <<c>> \o Tail(buf)
<1>1. buf \in Seq(Byte) /\ frame \in Seq(Byte)
  BY DEF TypeInv, TypeOK
<1>2. c \in Byte /\ Tail(buf) \in Seq(Byte) /\ buf = <<c>> \o Tail(buf)
  BY <1>1, TheByte DEF c
<1>. QED  BY <1>1, <1>2, AppendProperties

(* One byte is parsed: one step per case of the parser.                    *)
LEMMA TypeStep ==
  ASSUME TypeInv, mavlink_parse_char
  PROVE  TypeInv'
<1>1. /\ parse_state \in States /\ in_mavlink1 \in BOOLEAN
      /\ packet_idx \in Byte /\ (parse_state = "GOT_MSGID3" => packet_idx < rxmsg.len)
      /\ signature_wait \in 0..SIGNATURE_BLOCK_LEN
      /\ (parse_state = "SIGNATURE_WAIT" => signature_wait > 0)
      /\ rxmsg \in Received /\ delivered \in Seq(Received)
      /\ (parse_state \in HeaderStates \ {"GOT_STX"} => packet_idx = 0)
  BY DEF TypeInv, TypeOK
<1>2. /\ MAX_PAYLOAD_LEN \in Nat \ {0} /\ SIGNATURE_BLOCK_LEN \in Nat \ {0} /\ 0 \in Byte
      /\ rxmsg.len \in Byte /\ STX \in Byte /\ STX_MAVLINK1 \in Byte
  BY <1>1, MarkerAssumption DEF Byte, Received
<1>3. /\ buf # <<>> /\ UNCHANGED datagram
  BY DEF mavlink_parse_char, Skip, Start, Length, IncompatFlags, UnknownFlags, HeaderByte,
         PayloadByte, FirstCrc, GoodCrc, BadCrc, Signature, TakesHeader, Takes, Incomplete, Parses
<1>4. /\ c \in Byte /\ Tail(buf) \in Seq(Byte) /\ Append(frame, c) \in Seq(Byte) /\ <<c>> \in Seq(Byte)
  BY <1>3, Taken
<1> DEFINE Kept ==
      /\ rxmsg' \in Received /\ delivered' \in Seq(Received)
      /\ buf' \in Seq(Byte) /\ frame' \in Seq(Byte)
      Control ==
      /\ parse_state' \in States /\ in_mavlink1' \in BOOLEAN
      /\ packet_idx' \in Byte /\ (parse_state' = "GOT_MSGID3" => packet_idx' < rxmsg'.len)
      /\ signature_wait' \in 0..SIGNATURE_BLOCK_LEN
      /\ (parse_state' = "SIGNATURE_WAIT" => signature_wait' > 0)
      /\ (parse_state' \in HeaderStates \ {"GOT_STX"} => packet_idx' = 0)
<1>5. SUFFICES Kept /\ Control
  BY <1>3 DEF TypeInv, TypeOK, datagram
<1>6. frame \in Seq(Byte) /\ buf \in Seq(Byte)
  BY DEF TypeInv, TypeOK
<1>7. ASSUME Skip PROVE Kept /\ Control
  BY <1>1, <1>4, <1>6, <1>7 DEF Skip, Incomplete, Parses, status
<1>8. ASSUME Start PROVE Kept /\ Control
  <2>1. rxmsg' \in Received
    <3> DEFINE a == [rxmsg EXCEPT !.len = 0]
               b == [a EXCEPT !.magic = c]
    <3>1. a \in Received
      BY <1>1, <1>2, UpdatesAre
    <3> HIDE DEF a
    <3>2. b \in Received
      BY <1>4, <3>1, UpdatesAre
    <3> HIDE DEF b
    <3>3. [b EXCEPT !.checksum = <<>>] \in Received
      BY <3>2, UpdatesAre, <1>4
    <3>4. rxmsg' = [b EXCEPT !.checksum = <<>>]
      BY <1>1, <1>8 DEF Start, Marker, a, b, Received
    <3>. QED  BY <3>3, <3>4
  <2>. QED  BY <1>1, <1>4, <1>8, <2>1 DEF Start, Incomplete, Parses, States, HeaderStates
<1> DEFINE Given(rx) == [rx EXCEPT !.checksum = Append(@, c)]
<1>9. \A rx \in Received : Given(rx) \in Received /\ Given(rx).len = rx.len
  <2>1. \A rx \in Received : Given(rx) \in Received
    BY <1>4, UpdatesAre
  <2>. QED  BY <2>1 DEF Received
<1>10. ASSUME NEW from, NEW rx \in Received, NEW to \in States, Takes(from, rx, to)
       PROVE  /\ Kept /\ rxmsg'.len = rx.len
              /\ parse_state = from /\ parse_state' = to
              /\ UNCHANGED <<signature_wait, in_mavlink1>>
  <2>1. rxmsg' = Given(rx) /\ Given(rx) \in Received /\ Given(rx).len = rx.len
    BY <1>9, <1>10 DEF Takes
  <2> HIDE DEF Given
  <2>. QED  BY <1>1, <1>4, <1>10, <2>1 DEF Takes, Incomplete, Parses
<1> HIDE DEF Given
<1>11. ASSUME Length PROVE Kept /\ Control
  <2> DEFINE one == [rxmsg EXCEPT !.len = c, !.incompat_flags = 0, !.compat_flags = 0]
             two == [rxmsg EXCEPT !.len = c]
  <2>1. one \in Received /\ two \in Received
    <3>1. two \in Received
      BY <1>1, <1>4, UpdatesAre
    <3>. QED  BY <1>1, <1>2, <1>4, <3>1 DEF Received
  <2>2. \/ Takes("GOT_STX", one, "GOT_COMPAT_FLAGS")
        \/ Takes("GOT_STX", two, "GOT_LENGTH")
    BY <1>11 DEF Length
  <2> HIDE DEF one, two
  <2>3. /\ Kept /\ parse_state' \in {"GOT_COMPAT_FLAGS", "GOT_LENGTH"}
        /\ UNCHANGED <<signature_wait, in_mavlink1>> /\ packet_idx' = 0
    <3>1. packet_idx' = 0
      BY <1>11 DEF Length
    <3>2. "GOT_COMPAT_FLAGS" \in States /\ "GOT_LENGTH" \in States
      BY DEF States
    <3> HIDE DEF Kept
    <3>. QED  BY <1>10, <2>1, <2>2, <3>1, <3>2
  <2> HIDE DEF Kept
  <2>. QED  BY <1>1, <1>2, <2>3 DEF States, HeaderStates
<1>12. ASSUME NEW from \in HeaderStates \ {"GOT_STX"}, NEW rx \in Received, rx.len = rxmsg.len,
              NEW to, \/ to \in HeaderStates \ {"GOT_STX"}
                      \/ to = AfterHeader,
              TakesHeader(from, rx, to)
       PROVE  Kept /\ Control
  <2>1. to \in States
    BY <1>12 DEF AfterHeader, HeaderStates, States
  <2>2. /\ Kept /\ rxmsg'.len = rx.len /\ parse_state = from /\ parse_state' = to
        /\ UNCHANGED <<signature_wait, in_mavlink1, packet_idx>>
    <3> HIDE DEF Kept
    <3>. QED  BY <1>10, <1>12, <2>1 DEF TakesHeader
  <2>3. packet_idx = 0
    BY <1>1, <1>12, <2>2
  <2>4. to = "GOT_MSGID3" => rxmsg.len > 0
    BY <1>12 DEF AfterHeader, HeaderStates
  <2>5. to # "SIGNATURE_WAIT"
    BY <1>12 DEF AfterHeader, HeaderStates
  <2> HIDE DEF Kept
  <2>. QED  BY <1>1, <1>2, <1>12, <2>1, <2>2, <2>3, <2>4, <2>5
<1>13. ASSUME IncompatFlags PROVE Kept /\ Control
  <2> DEFINE rx == [rxmsg EXCEPT !.incompat_flags = c]
  <2>1. rx \in Received /\ rx.len = rxmsg.len
    BY <1>1, <1>4, UpdatesAre DEF Received
  <2>2. TakesHeader("GOT_LENGTH", rx, "GOT_INCOMPAT_FLAGS")
    BY <1>13 DEF IncompatFlags
  <2> HIDE DEF rx, Kept, Control
  <2>. QED  BY <1>12, <2>1, <2>2 DEF HeaderStates
<1>14. ASSUME UnknownFlags PROVE Kept /\ Control
  <2>1. [rxmsg EXCEPT !.incompat_flags = c] \in Received
    BY <1>1, <1>4, UpdatesAre
  <2>. QED  BY <1>1, <1>4, <1>6, <1>14, <2>1 DEF UnknownFlags, Incomplete, Parses, States, HeaderStates
<1>15. ASSUME HeaderByte PROVE Kept /\ Control
  <2> DEFINE compat == [rxmsg EXCEPT !.compat_flags = c]
             number == [rxmsg EXCEPT !.seq = c]
             system == [rxmsg EXCEPT !.sysid = c]
             component == [rxmsg EXCEPT !.compid = c]
             id1 == [rxmsg EXCEPT !.msgid = <<c, 0, 0>>]
             id2 == [rxmsg EXCEPT !.msgid[2] = c]
             id3 == [rxmsg EXCEPT !.msgid[3] = c]
  <2>1. \A rx \in {compat, number, system, component, id1, id2, id3} :
          rx \in Received /\ rx.len = rxmsg.len
    <3>1. /\ compat \in Received /\ number \in Received /\ system \in Received
          /\ component \in Received
      BY <1>1, <1>4, UpdatesAre
    <3>2. id1 \in Received /\ id2 \in Received /\ id3 \in Received
      BY <1>1, <1>4, UpdatesAre
    <3>3. /\ compat.len = rxmsg.len /\ number.len = rxmsg.len /\ system.len = rxmsg.len
          /\ component.len = rxmsg.len
          /\ id1.len = rxmsg.len /\ id2.len = rxmsg.len /\ id3.len = rxmsg.len
      BY <1>1 DEF Received
    <3> HIDE DEF compat, number, system, component, id1, id2, id3
    <3>. QED  BY <3>1, <3>2, <3>3
  <2>2. \/ TakesHeader("GOT_INCOMPAT_FLAGS", compat, "GOT_COMPAT_FLAGS")
        \/ TakesHeader("GOT_COMPAT_FLAGS", number, "GOT_SEQ")
        \/ TakesHeader("GOT_SEQ", system, "GOT_SYSID")
        \/ TakesHeader("GOT_SYSID", component, "GOT_COMPID")
        \/ TakesHeader("GOT_COMPID", id1, IF in_mavlink1 THEN AfterHeader ELSE "GOT_MSGID1")
        \/ TakesHeader("GOT_MSGID1", id2, "GOT_MSGID2")
        \/ TakesHeader("GOT_MSGID2", id3, AfterHeader)
    BY <1>15 DEF HeaderByte
  <2> HIDE DEF compat, number, system, component, id1, id2, id3, Kept, Control
  <2>3. \E from \in HeaderStates \ {"GOT_STX"},
            rx \in {compat, number, system, component, id1, id2, id3},
            to \in (HeaderStates \ {"GOT_STX"}) \union {AfterHeader} : TakesHeader(from, rx, to)
    <3>1. {"GOT_COMPAT_FLAGS", "GOT_SEQ", "GOT_SYSID", "GOT_COMPID", "GOT_MSGID1", "GOT_MSGID2"}
            \subseteq HeaderStates \ {"GOT_STX"}
      BY DEF HeaderStates
    <3>2. "GOT_INCOMPAT_FLAGS" \in HeaderStates \ {"GOT_STX"}
      BY DEF HeaderStates
    <3>3. in_mavlink1 \in BOOLEAN
      BY <1>1
    <3>. QED  BY <2>2, <3>1, <3>2, <3>3
  <2>. QED  BY <1>12, <2>1, <2>3
<1>16. ASSUME PayloadByte PROVE Kept /\ Control
  <2> DEFINE rx == [rxmsg EXCEPT !.payload[packet_idx + 1] = c]
             to == IF packet_idx + 1 = rxmsg.len THEN "GOT_PAYLOAD" ELSE "GOT_MSGID3"
  <2>1. Takes("GOT_MSGID3", rx, to) /\ packet_idx' = packet_idx + 1
    BY <1>16 DEF PayloadByte
  <2>2. packet_idx < rxmsg.len /\ packet_idx + 1 \in 1..MAX_PAYLOAD_LEN
    <3>1. parse_state = "GOT_MSGID3"
      BY <2>1 DEF Takes, Incomplete, Parses
    <3>. QED  BY <1>1, <1>2, <3>1 DEF Byte
  <2>3. rx \in Received
    BY <1>1, <1>4, <2>2, UpdatesAre
  <2>4. rx.len = rxmsg.len
    BY <1>1 DEF Received
  <2>5. to \in States /\ to \notin HeaderStates /\ to # "SIGNATURE_WAIT"
    BY DEF States, HeaderStates
  <2>6. to = "GOT_MSGID3" => packet_idx + 1 < rxmsg.len
    BY <1>1, <1>2, <2>2 DEF Byte
  <2> HIDE DEF rx, to
  <2>7. /\ Kept /\ rxmsg'.len = rxmsg.len /\ parse_state' = to
        /\ UNCHANGED <<signature_wait, in_mavlink1>>
    <3> HIDE DEF Kept
    <3>. QED  BY <1>10, <2>1, <2>3, <2>4, <2>5
  <2> HIDE DEF Kept
  <2>8. packet_idx' \in Byte
    BY <1>1, <2>1, <2>2 DEF Byte
  <2>. QED  BY <1>1, <2>1, <2>5, <2>6, <2>7, <2>8
<1>17. ASSUME FirstCrc PROVE Kept /\ Control
  <2> DEFINE covered == Append(rxmsg.checksum, crc_extra(rxmsg.msgid))
             filled  == ZeroFilled(rxmsg, packet_idx)
             rx      == [rxmsg EXCEPT !.checksum = covered, !.payload = filled]
  <2>1. covered \in Seq(Byte)
    <3>1. rxmsg.checksum \in Seq(Byte) /\ crc_extra(rxmsg.msgid) \in Byte
      BY <1>1, CrcExtraIs DEF Received
    <3>. QED  BY <3>1, AppendProperties
  <2>2. filled \in [1..MAX_PAYLOAD_LEN -> Byte]
    <3>1. rxmsg.payload \in [1..MAX_PAYLOAD_LEN -> Byte]
      BY <1>1 DEF Received
    <3>. QED  BY <1>2, <3>1 DEF ZeroFilled
  <2>3. rxmsg' = rx /\ parse_state' \in {"GOT_CRC1", "GOT_BAD_CRC1"}
    BY <1>17 DEF FirstCrc, AfterFirstCrc
  <2> HIDE DEF covered, filled
  <2>4. rx \in Received
    BY <1>1, <2>1, <2>2 DEF Received
  <2> HIDE DEF rx
  <2>. QED  BY <1>1, <1>4, <1>17, <2>3, <2>4 DEF FirstCrc, Incomplete, Parses, States, HeaderStates
<1>18. Rest \in Seq(Byte) /\ Append(delivered, rxmsg) \in Seq(Received)
  <2>1. <<>> \in Seq(Byte)
    BY EmptySeq
  <2>. QED  BY <1>1, <1>4, <2>1, AppendProperties DEF Rest
<1>19. ASSUME GoodCrc PROVE Kept /\ Control
  <2>1. /\ frame' = Append(frame, c) /\ UNCHANGED <<packet_idx, in_mavlink1, rxmsg>>
        /\ \/ /\ parse_state' = "SIGNATURE_WAIT" /\ signature_wait' = SIGNATURE_BLOCK_LEN
              /\ buf' = Tail(buf) /\ UNCHANGED delivered
           \/ Delivers /\ UNCHANGED signature_wait
    BY <1>19 DEF GoodCrc
  <2>2. Kept
    BY <1>1, <1>4, <1>18, <2>1 DEF Delivers
  <2>3. parse_state' \in {"IDLE", "SIGNATURE_WAIT"} /\ signature_wait' \in 0..SIGNATURE_BLOCK_LEN
    BY <1>1, <1>2, <2>1 DEF Delivers
  <2>4. parse_state' = "SIGNATURE_WAIT" => signature_wait' > 0
    BY <1>2, <2>1 DEF Delivers
  <2> HIDE DEF Kept
  <2>. QED  BY <1>1, <2>1, <2>2, <2>3, <2>4 DEF States, HeaderStates
<1>20. ASSUME Signature PROVE Kept /\ Control
  <2>1. parse_state = "SIGNATURE_WAIT" /\ signature_wait' = signature_wait - 1
    BY <1>20 DEF Signature, Parses
  <2>2. /\ frame' = Append(frame, c) /\ UNCHANGED <<packet_idx, in_mavlink1, rxmsg>>
        /\ \/ Delivers
           \/ /\ signature_wait' # 0
              /\ buf' = Tail(buf) /\ UNCHANGED <<delivered, parse_state>>
    BY <1>20 DEF Signature
  <2>3. signature_wait' \in 0..SIGNATURE_BLOCK_LEN
    BY <1>1, <1>2, <2>1
  <2>4. parse_state' \in {"IDLE", "SIGNATURE_WAIT"} /\ (parse_state' = "SIGNATURE_WAIT" => signature_wait' # 0)
    BY <2>1, <2>2 DEF Delivers
  <2>5. Kept
    BY <1>1, <1>4, <1>18, <2>2 DEF Delivers
  <2> HIDE DEF Kept
  <2>. QED  BY <1>1, <1>2, <2>2, <2>3, <2>4, <2>5 DEF States, HeaderStates
<1>21. ASSUME BadCrc PROVE Kept /\ Control
  <2>1. /\ buf' = Tail(buf) /\ UNCHANGED <<delivered, packet_idx, in_mavlink1>>
        /\ parse_state' \in {"GOT_STX", "IDLE"}
        /\ signature_wait' \in {signature_wait, SIGNATURE_BLOCK_LEN}
    BY <1>21 DEF BadCrc, Incomplete, Parses, AfterBadCrc
  <2>2. rxmsg' \in Received /\ frame' \in Seq(Byte)
    <3>1. \/ UNCHANGED <<rxmsg, frame>>
          \/ frame' = <<c>> /\ rxmsg' = [rxmsg EXCEPT !.len = 0, !.checksum = <<>>]
      BY <1>21 DEF BadCrc
    <3> DEFINE a == [rxmsg EXCEPT !.len = 0]
    <3>2. a \in Received
      BY <1>1, <1>2, UpdatesAre
    <3>3. [rxmsg EXCEPT !.len = 0, !.checksum = <<>>] = [a EXCEPT !.checksum = <<>>]
      BY <1>1 DEF Received
    <3> HIDE DEF a
    <3>4. [a EXCEPT !.checksum = <<>>] \in Received
      BY <1>4, <3>2, UpdatesAre
    <3>. QED  BY <1>1, <1>4, <1>6, <3>1, <3>3, <3>4
  <2>. QED  BY <1>1, <1>2, <1>4, <2>1, <2>2 DEF States, HeaderStates
<1> HIDE DEF Kept, Control
<1>. QED  BY <1>7, <1>8, <1>11, <1>13, <1>14, <1>15, <1>16, <1>17, <1>19, <1>20, <1>21 DEF mavlink_parse_char

(* The types hold in every state.                                          *)
LEMMA TypeInvariant == Spec => []TypeInv
<1>1. TypeInv /\ [Next]_vars => TypeInv'
  <2> SUFFICES ASSUME TypeInv, [Next]_vars PROVE TypeInv'
    OBVIOUS
  <2>1. CASE UNCHANGED vars
    BY <2>1 DEF TypeInv, TypeOK, vars, status, datagram
  <2>. QED  BY <2>1, TypeReceive, TypeStep DEF Next
<1>. QED  BY TypeInit, <1>1, PTL DEF Spec

(* Every variable keeps its type: whatever bytes arrive, the parser writes *)
(* within the payload and counts a signature down to zero and no further.  *)
THEOREM TypeCorrect == Spec => []TypeOK
<1>1. TypeInv => TypeOK
  BY DEF TypeInv
<1>. QED  BY <1>1, TypeInvariant, PTL
-----------------------------------------------------------------------------
(* Sequences.                                                              *)

(* Appending to the second of two sequences.                               *)
LEMMA AppendToConcat ==
  ASSUME NEW S, NEW s \in Seq(S), NEW t \in Seq(S), NEW x \in S
  PROVE  Append(s \o t, x) = s \o Append(t, x)
<1>1. /\ <<x>> \in Seq(S) /\ s \o t \in Seq(S)
  BY ConcatProperties
<1>2. Append(s \o t, x) = (s \o t) \o <<x>> /\ Append(t, x) = t \o <<x>>
  BY <1>1, AppendIsConcat
<1>3. (s \o t) \o <<x>> = s \o (t \o <<x>>)
  BY <1>1, ConcatAssociative
<1>. QED  BY <1>2, <1>3

(* Appending twice.                                                        *)
LEMMA AppendTwo ==
  ASSUME NEW S, NEW s \in Seq(S), NEW x \in S, NEW y \in S
  PROVE  Append(Append(s, x), y) = s \o <<x, y>>
<1> DEFINE t == Append(Append(s, x), y)
           u == s \o <<x, y>>
<1>1. <<x, y>> \in Seq(S) /\ Append(s, x) \in Seq(S) /\ Len(s) \in Nat
  BY AppendProperties, LenProperties
<1>2. /\ t \in Seq(S) /\ Len(t) = Len(s) + 2 /\ t[Len(s) + 1] = x /\ t[Len(s) + 2] = y
      /\ \A k \in 1..Len(s) : t[k] = s[k]
  BY <1>1, AppendProperties
<1>3. /\ u \in Seq(S) /\ Len(u) = Len(s) + 2 /\ u[Len(s) + 1] = x /\ u[Len(s) + 2] = y
      /\ \A k \in 1..Len(s) : u[k] = s[k]
  BY <1>1, ConcatProperties
<1> HIDE DEF t, u
<1>4. \A k \in 1..Len(t) : k \in 1..Len(s) \/ k = Len(s) + 1 \/ k = Len(s) + 2
  BY <1>1, <1>2
<1>5. \A k \in 1..Len(t) : t[k] = u[k]
  BY <1>2, <1>3, <1>4
<1>6. t = u
  BY <1>2, <1>3, <1>5, SeqEqual
<1>. QED  BY <1>6 DEF t, u

(* A sequence with an element put before it.                               *)
LEMMA AfterFirst ==
  ASSUME NEW S, NEW s \in Seq(S), NEW x \in S
  PROVE  /\ <<x>> \o s \in Seq(S) /\ <<x>> \o s # <<>> /\ (<<x>> \o s)[1] = x
         /\ Tail(<<x>> \o s) = s /\ Len(<<x>> \o s) = Len(s) + 1
         /\ \A k \in 1..Len(s) : (<<x>> \o s)[k + 1] = s[k]
<1> DEFINE t == <<x>> \o s
<1>1. <<x>> \in Seq(S) /\ Len(<<x>>) = 1 /\ Len(s) \in Nat
  BY LenProperties
<1>2. /\ t \in Seq(S) /\ Len(t) = Len(s) + 1 /\ t[1] = x
      /\ \A k \in 1..Len(s) : t[k + 1] = s[k]
  BY <1>1, ConcatProperties
<1> HIDE DEF t
<1>3. t # <<>> /\ 2 \in 1..(Len(t) + 1)
  BY <1>1, <1>2, EmptySeq
<1>4. /\ Tail(t) \in Seq(S) /\ Len(Tail(t)) = Len(s)
      /\ \A k \in 1..Len(s) : Tail(t)[k] = t[k + 1]
  BY <1>1, <1>2, <1>3, HeadTailProperties
<1>5. Tail(t) = s
  BY <1>2, <1>4, SeqEqual
<1>. QED  BY <1>2, <1>3, <1>5 DEF t
-----------------------------------------------------------------------------
(* What the parser holds of a frame, and what it has seen of it.           *)

HeaderOf(rx)     == <<rx.len>> \o Header(rx)
PayloadOf(rx, n) == SubSeq(rx.payload, 1, n)
BodyOf(rx)       == HeaderOf(rx) \o PayloadOf(rx, rx.len)
Covered(rx)      == BodyOf(rx) \o <<DeclaredExtra(rx.msgid)>>
FrameOf(x, rx)   == (<<x>> \o BodyOf(rx)) \o Crc(Covered(rx))

(* The first n bytes of a header, in frames of version 1 and 2.            *)
Reads1(s, rx, n) ==
  /\ Len(s) = n
  /\ n >= 1 => s[1] = rx.len
  /\ n >= 2 => s[2] = rx.seq
  /\ n >= 3 => s[3] = rx.sysid
  /\ n >= 4 => s[4] = rx.compid
  /\ n >= 5 => s[5] = rx.msgid[1]
Reads2(s, rx, n) ==
  /\ Len(s) = n
  /\ n >= 1 => s[1] = rx.len
  /\ n >= 2 => s[2] = rx.incompat_flags
  /\ n >= 3 => s[3] = rx.compat_flags
  /\ n >= 4 => s[4] = rx.seq
  /\ n >= 5 => s[5] = rx.sysid
  /\ n >= 6 => s[6] = rx.compid
  /\ n >= 7 => s[7] = rx.msgid[1]
  /\ n >= 8 => s[8] = rx.msgid[2]
  /\ n >= 9 => s[9] = rx.msgid[3]

FieldsAreBytes(rx) ==
  /\ rx.len \in Byte /\ rx.seq \in Byte /\ rx.sysid \in Byte /\ rx.compid \in Byte
  /\ rx.incompat_flags \in Byte /\ rx.compat_flags \in Byte
  /\ rx.msgid \in Byte \X Byte \X Byte

(* The bytes of a header are its fields in order.                          *)
LEMMA HeaderIs ==
  ASSUME NEW rx, FieldsAreBytes(rx)
  PROVE  /\ HeaderOf(rx) \in Seq(Byte)
         /\ IF rx.magic = STX_MAVLINK1 THEN Reads1(HeaderOf(rx), rx, 5)
                                       ELSE Reads2(HeaderOf(rx), rx, 9)
<1>1. /\ rx.len \in Byte /\ rx.seq \in Byte /\ rx.sysid \in Byte /\ rx.compid \in Byte
      /\ rx.incompat_flags \in Byte /\ rx.compat_flags \in Byte
      /\ rx.msgid[1] \in Byte /\ rx.msgid[2] \in Byte /\ rx.msgid[3] \in Byte
  BY DEF FieldsAreBytes
<1>2. rx.msgid \in Seq(Byte) /\ Len(rx.msgid) = 3
  <2> DEFINE id == rx.msgid
  <2>1. id \in [1..3 -> Byte]
    BY DEF FieldsAreBytes
  <2> HIDE DEF id
  <2>2. id \in Seq(Byte)
    BY <2>1, SeqDef
  <2>3. Len(id) \in Nat /\ 1..Len(id) = 1..3
    BY <2>1, <2>2, LenProperties
  <2>4. Len(id) = 3
    <3>1. \A n \in Nat : 1..n = 1..3 => n \in 1..n \/ n = 0
      OBVIOUS
    <3>2. \A n \in Nat : 3 \in 1..n /\ n \in 1..3 => n = 3
      OBVIOUS
    <3>3. 3 \in 1..3 /\ 0 \notin 1..3
      OBVIOUS
    <3>4. Len(id) # 0 /\ Len(id) \in Nat
      <4>1. 1 \in 1..Len(id)
        BY <2>3
      <4>. QED  BY <2>3, <4>1
    <3>5. 3 \in 1..Len(id) /\ Len(id) \in 1..3
      BY <2>3, <3>1, <3>3, <3>4, Zenon
    <3>. QED  BY <2>3, <3>2, <3>5
  <2>. QED  BY <2>2, <2>4 DEF id
<1> DEFINE l == rx.len
<1> HIDE DEF l
<1>3. l \in Byte /\ l = rx.len /\ HeaderOf(rx) = <<l>> \o Header(rx)
  BY <1>1 DEF l, HeaderOf
<1>4. CASE rx.magic = STX_MAVLINK1
  <2> DEFINE h == <<rx.seq, rx.sysid, rx.compid, rx.msgid[1]>>
  <2>1. h \in Seq(Byte) /\ Len(h) = 4 /\ h[1] = rx.seq /\ h[2] = rx.sysid /\ h[3] = rx.compid /\ h[4] = rx.msgid[1]
    BY <1>1
  <2>2. HeaderOf(rx) = <<l>> \o h
    BY <1>4, <1>3, Zenon DEF Header
  <2> HIDE DEF h
  <2> DEFINE s == <<l>> \o h
  <2>3. s \in Seq(Byte) /\ s[1] = l /\ Len(s) = 5 /\ \A k \in 1..4 : s[k + 1] = h[k]
    <3>. l \in Byte /\ h \in Seq(Byte)
      BY <1>3, <2>1
    <3>1. <<l>> \o h \in Seq(Byte) /\ (<<l>> \o h)[1] = l /\ Len(<<l>> \o h) = Len(h) + 1
          /\ \A k \in 1..Len(h) : (<<l>> \o h)[k + 1] = h[k]
      BY AfterFirst
    <3> HIDE DEF s
    <3>2. s = <<l>> \o h
      BY DEF s
    <3>. QED  BY <3>1, <3>2, <2>1
  <2> HIDE DEF s
  <2>4. s[2] = h[1] /\ s[3] = h[2] /\ s[4] = h[3] /\ s[5] = h[4]
    BY <2>3
  <2>. QED  BY <1>4, <1>3, <2>1, <2>2, <2>3, <2>4 DEF Reads1, s
<1>5. CASE rx.magic # STX_MAVLINK1
  <2> DEFINE f == <<rx.incompat_flags, rx.compat_flags, rx.seq, rx.sysid, rx.compid>>
  <2>1. /\ f \in Seq(Byte) /\ Len(f) = 5 /\ f[1] = rx.incompat_flags /\ f[2] = rx.compat_flags
        /\ f[3] = rx.seq /\ f[4] = rx.sysid /\ f[5] = rx.compid
    BY <1>1
  <2>2. HeaderOf(rx) = <<l>> \o (f \o rx.msgid)
    BY <1>5, <1>3, Zenon DEF Header
  <2> HIDE DEF f
  <2> DEFINE h == f \o rx.msgid
             s == <<l>> \o h
  <2>3. /\ h \in Seq(Byte) /\ Len(h) = 8 /\ \A k \in 1..5 : h[k] = f[k]
        /\ h[6] = rx.msgid[1] /\ h[7] = rx.msgid[2] /\ h[8] = rx.msgid[3]
    <3> DEFINE id == rx.msgid
    <3> HIDE DEF id
    <3>1. id \in Seq(Byte) /\ Len(id) = 3
      BY <1>2 DEF id
    <3>2. /\ f \o id \in Seq(Byte) /\ Len(f \o id) = Len(f) + Len(id)
          /\ \A k \in 1..(Len(f) + Len(id)) :
               (f \o id)[k] = IF k <= Len(f) THEN f[k] ELSE id[k - Len(f)]
      BY <2>1, <3>1, ConcatProperties
    <3> DEFINE t == f \o id
    <3> HIDE DEF t
    <3>3. t \in Seq(Byte) /\ Len(t) = 8 /\ \A k \in 1..8 : t[k] = IF k <= 5 THEN f[k] ELSE id[k - 5]
      BY <2>1, <3>1, <3>2 DEF t
    <3>4. /\ \A k \in 1..5 : t[k] = f[k]
          /\ t[6] = id[1] /\ t[7] = id[2] /\ t[8] = id[3]
      BY <3>3
    <3>. QED  BY <3>3, <3>4 DEF t, id
  <2> HIDE DEF h
  <2>4. s \in Seq(Byte) /\ s[1] = l /\ Len(s) = 9 /\ \A k \in 1..8 : s[k + 1] = h[k]
    <3>. l \in Byte /\ h \in Seq(Byte)
      BY <1>3, <2>3
    <3>1. <<l>> \o h \in Seq(Byte) /\ (<<l>> \o h)[1] = l /\ Len(<<l>> \o h) = Len(h) + 1
          /\ \A k \in 1..Len(h) : (<<l>> \o h)[k + 1] = h[k]
      BY AfterFirst
    <3> HIDE DEF s
    <3>2. s = <<l>> \o h
      BY DEF s
    <3>. QED  BY <3>1, <3>2, <2>3
  <2> HIDE DEF s
  <2>5. /\ s[2] = h[1] /\ s[3] = h[2] /\ s[4] = h[3] /\ s[5] = h[4] /\ s[6] = h[5]
        /\ s[7] = h[6] /\ s[8] = h[7] /\ s[9] = h[8]
    BY <2>4
  <2>6. Reads2(s, rx, 9)
    BY <1>3, <2>1, <2>3, <2>4, <2>5 DEF Reads2
  <2>. QED  BY <1>5, <2>2, <2>4, <2>6 DEF h, s
<1>. QED  BY <1>4, <1>5

(* One more byte of a header of version 1.                                 *)
LEMMA ReadsNext1 ==
  ASSUME NEW rx, NEW s \in Seq(Byte), NEW b \in Byte, NEW n \in 0..4, Reads1(s, rx, n),
         n = 0 => rx.len = b, n = 1 => rx.seq = b, n = 2 => rx.sysid = b, n = 3 => rx.compid = b,
         n = 4 => rx.msgid[1] = b
  PROVE  Reads1(Append(s, b), rx, n + 1)
<1> DEFINE t == Append(s, b)
<1>1. Len(s) = n
  BY DEF Reads1
<1>2. Len(t) = n + 1 /\ t[n + 1] = b /\ \A k \in 1..n : t[k] = s[k]
  BY <1>1, AppendProperties
<1> HIDE DEF t
<1>. QED  BY <1>2 DEF Reads1, t

(* One more byte of a header of version 2.                                 *)
LEMMA ReadsNext2 ==
  ASSUME NEW rx, NEW s \in Seq(Byte), NEW b \in Byte, NEW n \in 0..8, Reads2(s, rx, n),
         n = 0 => rx.len = b, n = 1 => rx.incompat_flags = b, n = 2 => rx.compat_flags = b,
         n = 3 => rx.seq = b, n = 4 => rx.sysid = b, n = 5 => rx.compid = b,
         n = 6 => rx.msgid[1] = b, n = 7 => rx.msgid[2] = b, n = 8 => rx.msgid[3] = b
  PROVE  Reads2(Append(s, b), rx, n + 1)
<1> DEFINE t == Append(s, b)
<1>1. Len(s) = n
  BY DEF Reads2
<1>2. Len(t) = n + 1 /\ t[n + 1] = b /\ \A k \in 1..n : t[k] = s[k]
  BY <1>1, AppendProperties
<1> HIDE DEF t
<1>. QED  BY <1>2 DEF Reads2, t

(* A header that has been read whole.                                      *)
LEMMA ReadsAll ==
  ASSUME NEW rx, FieldsAreBytes(rx), NEW s \in Seq(Byte),
         IF rx.magic = STX_MAVLINK1 THEN Reads1(s, rx, 5) ELSE Reads2(s, rx, 9)
  PROVE  s = HeaderOf(rx)
<1> DEFINE h == HeaderOf(rx)
<1>1. h \in Seq(Byte) /\ IF rx.magic = STX_MAVLINK1 THEN Reads1(h, rx, 5) ELSE Reads2(h, rx, 9)
  BY HeaderIs
<1> HIDE DEF h
<1>2. CASE rx.magic = STX_MAVLINK1
  <2>1. Len(s) = 5 /\ Len(h) = 5
    BY <1>1, <1>2 DEF Reads1
  <2>2. /\ s[1] = h[1] /\ s[2] = h[2] /\ s[3] = h[3] /\ s[4] = h[4] /\ s[5] = h[5]
    BY <1>1, <1>2 DEF Reads1
  <2>3. \A k \in 1..5 : s[k] = h[k]
    BY <2>2
  <2>. QED  BY <1>1, <2>1, <2>3, SeqEqual DEF h
<1>3. CASE rx.magic # STX_MAVLINK1
  <2>1. Len(s) = 9 /\ Len(h) = 9
    BY <1>1, <1>3 DEF Reads2
  <2>2. /\ s[1] = h[1] /\ s[2] = h[2] /\ s[3] = h[3] /\ s[4] = h[4] /\ s[5] = h[5]
        /\ s[6] = h[6] /\ s[7] = h[7] /\ s[8] = h[8] /\ s[9] = h[9]
    BY <1>1, <1>3 DEF Reads2
  <2>3. \A k \in 1..9 : s[k] = h[k]
    BY <2>2
  <2>. QED  BY <1>1, <2>1, <2>3, SeqEqual DEF h
<1>. QED  BY <1>2, <1>3
-----------------------------------------------------------------------------
(* The invariant: what the parser holds is what it has seen since the last *)
(* marker.                                                                 *)

VersionInv ==
  parse_state # "IDLE" =>
    /\ frame # <<>> /\ frame[1] \in {STX, STX_MAVLINK1}
    /\ in_mavlink1 <=> rxmsg.magic = STX_MAVLINK1
    /\ in_mavlink1 /\ parse_state # "GOT_STX" => rxmsg.incompat_flags = 0
    /\ in_mavlink1 /\ parse_state \notin HeaderStates => rxmsg.msgid[2] = 0 /\ rxmsg.msgid[3] = 0

(* How many bytes of the header have been read, in frames of version 1     *)
(* and 2.                                                                  *)
Place1 == [GOT_STX |-> 0, GOT_COMPAT_FLAGS |-> 1, GOT_SEQ |-> 2, GOT_SYSID |-> 3, GOT_COMPID |-> 4]
Place2 == [GOT_STX |-> 0, GOT_LENGTH |-> 1, GOT_INCOMPAT_FLAGS |-> 2, GOT_COMPAT_FLAGS |-> 3,
           GOT_SEQ |-> 4, GOT_SYSID |-> 5, GOT_COMPID |-> 6, GOT_MSGID1 |-> 7, GOT_MSGID2 |-> 8]

HeaderInv ==
  parse_state \in HeaderStates =>
    /\ frame = <<frame[1]>> \o rxmsg.checksum
    /\ IF in_mavlink1
       THEN parse_state \in DOMAIN Place1 /\ Reads1(rxmsg.checksum, rxmsg, Place1[parse_state])
       ELSE Reads2(rxmsg.checksum, rxmsg, Place2[parse_state])

PayloadInv ==
  parse_state \in {"GOT_MSGID3", "GOT_PAYLOAD"} =>
    /\ frame = <<frame[1]>> \o rxmsg.checksum
    /\ rxmsg.checksum = HeaderOf(rxmsg) \o PayloadOf(rxmsg, packet_idx)
    /\ parse_state = "GOT_PAYLOAD" => packet_idx = rxmsg.len

(* The zeros that were not sent are there.                                 *)
Filled(rx) == \A e \in Declared(rx.msgid) : \A k \in (rx.len + 1)..Entries[e].max_msg_len : rx.payload[k] = 0

CrcInv ==
  parse_state = "GOT_CRC1" =>
    /\ rxmsg.checksum = Covered(rxmsg) /\ Filled(rxmsg) /\ CrcLow(Covered(rxmsg)) \in Byte
    /\ frame = Append(<<frame[1]>> \o BodyOf(rxmsg), CrcLow(Covered(rxmsg)))

SignatureInv ==
  parse_state = "SIGNATURE_WAIT" =>
    /\ Filled(rxmsg) /\ rxmsg.incompat_flags = IFLAG_SIGNED /\ Crc(Covered(rxmsg)) \in Seq(Byte)
    /\ \E signature \in Seq(Byte) :
         /\ frame = FrameOf(frame[1], rxmsg) \o signature
         /\ Len(signature) = SIGNATURE_BLOCK_LEN - signature_wait

FrameInv == VersionInv /\ HeaderInv /\ PayloadInv /\ CrcInv /\ SignatureInv

(* The byte extends the frame and what the checksum covers of it.          *)
LEMMA TakesIs ==
  ASSUME TypeInv, NEW from, NEW to, NEW rx \in Received, Takes(from, rx, to),
         rx.checksum = rxmsg.checksum, frame # <<>>, frame = <<frame[1]>> \o rxmsg.checksum
  PROVE  /\ frame' # <<>> /\ frame'[1] = frame[1]
         /\ frame' = <<frame'[1]>> \o rxmsg'.checksum
         /\ c \in Byte /\ rxmsg.checksum \in Seq(Byte)
         /\ rxmsg' = [rx EXCEPT !.checksum = Append(rxmsg.checksum, c)]
         /\ rxmsg'.checksum = Append(rxmsg.checksum, c)
         /\ parse_state = from /\ parse_state' = to /\ in_mavlink1' = in_mavlink1
<1>1. /\ buf # <<>> /\ parse_state = from /\ parse_state' = to /\ in_mavlink1' = in_mavlink1
      /\ frame' = Append(frame, c) /\ rxmsg' = [rx EXCEPT !.checksum = Append(@, c)]
  BY DEF Takes, Incomplete, Parses
<1>2. c \in Byte /\ rxmsg.checksum \in Seq(Byte) /\ frame \in Seq(Byte)
  BY <1>1, Taken DEF TypeInv, TypeOK, Received
<1>3. /\ rxmsg' = [rx EXCEPT !.checksum = Append(rxmsg.checksum, c)]
      /\ rxmsg'.checksum = Append(rxmsg.checksum, c)
  BY <1>1 DEF Received
<1> DEFINE s == rxmsg.checksum
           x == frame[1]
<1>4. x \in Byte
  <2>1. Len(frame) \in Nat \ {0}
    BY <1>2, EmptySeq
  <2>2. 1 \in 1..Len(frame)
    BY <2>1
  <2>. QED  BY <1>2, <2>2, ElementOfSeq
<1>5. frame = <<x>> \o s /\ s \in Seq(Byte)
  BY <1>2
<1> HIDE DEF s, x
<1>6. Append(s, c) \in Seq(Byte)
  BY <1>2, <1>5, AppendProperties
<1>7. <<x>> \in Seq(Byte)
  BY <1>4
<1>8. frame' = <<x>> \o Append(s, c)
  <2>1. Append(<<x>> \o s, c) = <<x>> \o Append(s, c)
    BY <1>2, <1>5, <1>7, AppendToConcat
  <2>. QED  BY <1>1, <1>5, <2>1
<1>9. frame' # <<>> /\ frame'[1] = x
  <2>. x \in Byte /\ Append(s, c) \in Seq(Byte)
    BY <1>4, <1>6
  <2>1. <<x>> \o Append(s, c) # <<>> /\ (<<x>> \o Append(s, c))[1] = x
    BY AfterFirst
  <2>. QED  BY <1>8, <2>1
<1>. QED  BY <1>1, <1>2, <1>3, <1>8, <1>9 DEF s, x

(* The next byte of the header is in its place in the message.             *)
Extends1(rx, n) ==
  /\ n \in 0..4 /\ Reads1(rxmsg.checksum, rx, n) /\ rx.incompat_flags = 0
  /\ n = 0 => rx.len = c
  /\ n = 1 => rx.seq = c
  /\ n = 2 => rx.sysid = c
  /\ n = 3 => rx.compid = c
  /\ n = 4 => rx.msgid[1] = c
Extends2(rx, n) ==
  /\ n \in 0..8 /\ Reads2(rxmsg.checksum, rx, n)
  /\ n = 0 => rx.len = c
  /\ n = 1 => rx.incompat_flags = c
  /\ n = 2 => rx.compat_flags = c
  /\ n = 3 => rx.seq = c
  /\ n = 4 => rx.sysid = c
  /\ n = 5 => rx.compid = c
  /\ n = 6 => rx.msgid[1] = c
  /\ n = 7 => rx.msgid[2] = c
  /\ n = 8 => rx.msgid[3] = c

HeaderTakes(from, rx, to, n1, n2) ==
  /\ Takes(from, rx, to) /\ rx.checksum = rxmsg.checksum /\ rx.magic = rxmsg.magic
  /\ IF in_mavlink1 THEN Extends1(rx, n1) ELSE Extends2(rx, n2)

(* A byte of the header extends what has been read of it.                  *)
LEMMA HeaderReads ==
  ASSUME TypeInv, FrameInv, NEW from \in HeaderStates, NEW to, NEW rx \in Received,
         NEW n1, NEW n2, HeaderTakes(from, rx, to, n1, n2)
  PROVE  /\ parse_state' = to /\ in_mavlink1' = in_mavlink1 /\ in_mavlink1 \in BOOLEAN
         /\ frame' # <<>> /\ frame'[1] \in {STX, STX_MAVLINK1}
         /\ frame' = <<frame'[1]>> \o rxmsg'.checksum
         /\ in_mavlink1' <=> rxmsg'.magic = STX_MAVLINK1
         /\ in_mavlink1' => rxmsg'.incompat_flags = 0 /\ Reads1(rxmsg'.checksum, rxmsg', n1 + 1)
         /\ ~in_mavlink1' => Reads2(rxmsg'.checksum, rxmsg', n2 + 1)
         /\ rxmsg'.len = rx.len /\ rxmsg'.msgid = rx.msgid /\ rxmsg'.payload = rx.payload
<1>1. parse_state = from /\ in_mavlink1 \in BOOLEAN /\ Takes(from, rx, to) /\ rx.checksum = rxmsg.checksum /\ rx.magic = rxmsg.magic
  BY DEF HeaderTakes, Takes, Incomplete, Parses, TypeInv, TypeOK
<1>2. /\ frame # <<>> /\ frame[1] \in {STX, STX_MAVLINK1} /\ frame = <<frame[1]>> \o rxmsg.checksum
      /\ in_mavlink1 <=> rxmsg.magic = STX_MAVLINK1
  BY <1>1 DEF FrameInv, VersionInv, HeaderInv, HeaderStates
<1> DEFINE s == rxmsg.checksum
           t == Append(s, c)
<1>3. /\ frame' # <<>> /\ frame'[1] = frame[1]
      /\ frame' = <<frame'[1]>> \o rxmsg'.checksum
      /\ c \in Byte /\ s \in Seq(Byte)
      /\ rxmsg' = [rx EXCEPT !.checksum = t] /\ rxmsg'.checksum = t
      /\ parse_state' = to /\ in_mavlink1' = in_mavlink1
  BY <1>1, <1>2, TakesIs
<1> HIDE DEF s, t
<1>4. ASSUME in_mavlink1 PROVE Reads1(t, rx, n1 + 1)
  <2>. c \in Byte /\ s \in Seq(Byte) /\ Extends1(rx, n1)
    BY <1>3, <1>4 DEF HeaderTakes
  <2>1. n1 \in 0..4 /\ Reads1(s, rx, n1)
    BY DEF s, Extends1
  <2>. QED  BY <2>1, ReadsNext1 DEF t, Extends1
<1>5. ASSUME ~in_mavlink1 PROVE Reads2(t, rx, n2 + 1)
  <2>. c \in Byte /\ s \in Seq(Byte) /\ Extends2(rx, n2)
    BY <1>3, <1>5 DEF HeaderTakes
  <2>1. n2 \in 0..8 /\ Reads2(s, rx, n2)
    BY DEF s, Extends2
  <2>. QED  BY <2>1, ReadsNext2 DEF t, Extends2
<1>6. /\ rxmsg'.magic = rx.magic /\ rxmsg'.len = rx.len /\ rxmsg'.incompat_flags = rx.incompat_flags
      /\ rxmsg'.compat_flags = rx.compat_flags /\ rxmsg'.seq = rx.seq /\ rxmsg'.sysid = rx.sysid
      /\ rxmsg'.compid = rx.compid /\ rxmsg'.msgid = rx.msgid /\ rxmsg'.payload = rx.payload
  BY <1>3 DEF Received
<1>7. in_mavlink1 => Reads1(t, rxmsg', n1 + 1)
  BY <1>4, <1>6 DEF Reads1
<1>8. ~in_mavlink1 => Reads2(t, rxmsg', n2 + 1)
  BY <1>5, <1>6 DEF Reads2
<1>9. in_mavlink1 => rxmsg'.incompat_flags = 0
  BY <1>6 DEF HeaderTakes, Extends1
<1>. QED  BY <1>1, <1>2, <1>3, <1>6, <1>7, <1>8, <1>9

(* A byte of the header that is not the last.                              *)
LEMMA HeaderGoesOn ==
  ASSUME TypeInv, FrameInv, NEW from \in HeaderStates, NEW to \in HeaderStates \ {"GOT_STX"},
         NEW rx \in Received, NEW n1, NEW n2, HeaderTakes(from, rx, to, n1, n2),
         in_mavlink1 => to \in DOMAIN Place1 /\ Place1[to] = n1 + 1,
         ~in_mavlink1 => Place2[to] = n2 + 1
  PROVE  FrameInv'
<1>1. /\ parse_state' = to /\ in_mavlink1' = in_mavlink1 /\ in_mavlink1 \in BOOLEAN
      /\ frame' # <<>> /\ frame'[1] \in {STX, STX_MAVLINK1}
      /\ frame' = <<frame'[1]>> \o rxmsg'.checksum
      /\ in_mavlink1' <=> rxmsg'.magic = STX_MAVLINK1
      /\ in_mavlink1' => rxmsg'.incompat_flags = 0 /\ Reads1(rxmsg'.checksum, rxmsg', n1 + 1)
      /\ ~in_mavlink1' => Reads2(rxmsg'.checksum, rxmsg', n2 + 1)
  BY HeaderReads
<1>2. HeaderInv'
  BY <1>1 DEF HeaderInv
<1>3. VersionInv'
  BY <1>1 DEF VersionInv
<1>. QED  BY <1>1, <1>2, <1>3 DEF FrameInv, PayloadInv, CrcInv, SignatureInv, HeaderStates

(* The bytes of the header but the last preserve the invariant.            *)
LEMMA HeaderStep ==
  ASSUME TypeInv, FrameInv, Length \/ IncompatFlags \/ HeaderByte, parse_state' \in HeaderStates
  PROVE  FrameInv'
<1>1. /\ rxmsg \in Received /\ in_mavlink1 \in BOOLEAN /\ 0 \in Byte
  BY MarkerAssumption DEF TypeInv, TypeOK, Byte
<1>2. c \in Byte
  <2>1. buf # <<>>
    BY DEF Length, IncompatFlags, HeaderByte, TakesHeader, Takes, Incomplete, Parses
  <2>. QED  BY <2>1, Taken
<1>3. ASSUME NEW from \in HeaderStates, NEW rx, NEW to, Takes(from, rx, to)
      PROVE  /\ parse_state = from /\ parse_state' = to
             /\ in_mavlink1 /\ from # "GOT_STX" => rxmsg.incompat_flags = 0
             /\ in_mavlink1 => from \in DOMAIN Place1 /\ Reads1(rxmsg.checksum, rxmsg, Place1[from])
             /\ ~in_mavlink1 => Reads2(rxmsg.checksum, rxmsg, Place2[from])
  <2>1. parse_state = from /\ parse_state' = to /\ from # "IDLE"
    BY <1>3 DEF Takes, Incomplete, Parses, HeaderStates
  <2>. QED  BY <2>1 DEF FrameInv, VersionInv, HeaderInv
<1>4. /\ DOMAIN Place1 = {"GOT_STX", "GOT_COMPAT_FLAGS", "GOT_SEQ", "GOT_SYSID", "GOT_COMPID"}
      /\ Place1["GOT_STX"] = 0 /\ Place1["GOT_COMPAT_FLAGS"] = 1 /\ Place1["GOT_SEQ"] = 2
      /\ Place1["GOT_SYSID"] = 3 /\ Place1["GOT_COMPID"] = 4
      /\ Place2["GOT_STX"] = 0 /\ Place2["GOT_LENGTH"] = 1 /\ Place2["GOT_INCOMPAT_FLAGS"] = 2
      /\ Place2["GOT_COMPAT_FLAGS"] = 3 /\ Place2["GOT_SEQ"] = 4 /\ Place2["GOT_SYSID"] = 5
      /\ Place2["GOT_COMPID"] = 6 /\ Place2["GOT_MSGID1"] = 7 /\ Place2["GOT_MSGID2"] = 8
  <2>1. DOMAIN Place1 = {"GOT_STX", "GOT_COMPAT_FLAGS", "GOT_SEQ", "GOT_SYSID", "GOT_COMPID"}
    BY DEF Place1
  <2>2. /\ Place1["GOT_STX"] = 0 /\ Place1["GOT_COMPAT_FLAGS"] = 1 /\ Place1["GOT_SEQ"] = 2
        /\ Place1["GOT_SYSID"] = 3 /\ Place1["GOT_COMPID"] = 4
    BY DEF Place1
  <2>3. /\ Place2["GOT_STX"] = 0 /\ Place2["GOT_LENGTH"] = 1 /\ Place2["GOT_INCOMPAT_FLAGS"] = 2
        /\ Place2["GOT_COMPAT_FLAGS"] = 3 /\ Place2["GOT_SEQ"] = 4 /\ Place2["GOT_SYSID"] = 5
        /\ Place2["GOT_COMPID"] = 6 /\ Place2["GOT_MSGID1"] = 7 /\ Place2["GOT_MSGID2"] = 8
    BY DEF Place2
  <2>. QED  BY <2>1, <2>2, <2>3
<1>5. ASSUME Takes("GOT_STX", [rxmsg EXCEPT !.len = c, !.incompat_flags = 0, !.compat_flags = 0], "GOT_COMPAT_FLAGS"), in_mavlink1
      PROVE  FrameInv'
  <2> DEFINE rx == [rxmsg EXCEPT !.len = c, !.incompat_flags = 0, !.compat_flags = 0]
  <2>1. rx \in Received /\ rx.checksum = rxmsg.checksum /\ rx.magic = rxmsg.magic
    BY <1>1, <1>2 DEF Received
  <2>2. "GOT_STX" \in HeaderStates /\ "GOT_COMPAT_FLAGS" \in HeaderStates \ {"GOT_STX"}
    BY DEF HeaderStates
  <2>3. in_mavlink1 => Extends1(rx, 0) /\ "GOT_COMPAT_FLAGS" \in DOMAIN Place1 /\ Place1["GOT_COMPAT_FLAGS"] = 0 + 1
    <3>1. in_mavlink1 => Reads1(rxmsg.checksum, rxmsg, 0) /\ rx.incompat_flags = 0
      BY <1>1, <1>3, <1>4, <1>5, <2>2 DEF Received
    <3>. QED  BY <1>1, <1>2, <1>4, <3>1 DEF Extends1, Reads1, Received
  <2>4. in_mavlink1
    BY <1>5
  <2>5. Takes("GOT_STX", rx, "GOT_COMPAT_FLAGS")
    BY <1>5
  <2> HIDE DEF rx
  <2>6. HeaderTakes("GOT_STX", rx, "GOT_COMPAT_FLAGS", 0, 0)
    BY <2>1, <2>3, <2>4, <2>5 DEF HeaderTakes
  <2>. QED  BY <2>1, <2>2, <2>3, <2>4, <2>6, HeaderGoesOn
<1>6. ASSUME Takes("GOT_STX", [rxmsg EXCEPT !.len = c], "GOT_LENGTH"), ~in_mavlink1
      PROVE  FrameInv'
  <2> DEFINE rx == [rxmsg EXCEPT !.len = c]
  <2>1. rx \in Received /\ rx.checksum = rxmsg.checksum /\ rx.magic = rxmsg.magic
    <3>1. rx \in Received
      BY <1>1, <1>2, UpdatesAre
    <3>. QED  BY <1>1, <3>1 DEF Received
  <2>2. "GOT_STX" \in HeaderStates /\ "GOT_LENGTH" \in HeaderStates \ {"GOT_STX"}
    BY DEF HeaderStates
  <2>3. ~in_mavlink1
    BY <1>6
  <2>4. ~in_mavlink1 => Extends2(rx, 0) /\ Place2["GOT_LENGTH"] = 0 + 1
    <3>1. ~in_mavlink1 => Reads2(rxmsg.checksum, rxmsg, 0)
      BY <1>3, <1>4, <1>6, <2>2
    <3>. QED  BY <1>1, <1>2, <1>4, <3>1 DEF Extends2, Reads2, Received
  <2>5. Takes("GOT_STX", rx, "GOT_LENGTH")
    BY <1>6
  <2> HIDE DEF rx
  <2>6. HeaderTakes("GOT_STX", rx, "GOT_LENGTH", 0, 0)
    BY <2>1, <2>3, <2>4, <2>5 DEF HeaderTakes
  <2>. QED  BY <2>1, <2>2, <2>3, <2>4, <2>6, HeaderGoesOn
<1>7. ASSUME Takes("GOT_LENGTH", [rxmsg EXCEPT !.incompat_flags = c], "GOT_INCOMPAT_FLAGS")
      PROVE  FrameInv'
  <2> DEFINE rx == [rxmsg EXCEPT !.incompat_flags = c]
  <2>1. rx \in Received /\ rx.checksum = rxmsg.checksum /\ rx.magic = rxmsg.magic
    <3>1. rx \in Received
      BY <1>1, <1>2, UpdatesAre
    <3>. QED  BY <1>1, <3>1 DEF Received
  <2>2. "GOT_LENGTH" \in HeaderStates /\ "GOT_INCOMPAT_FLAGS" \in HeaderStates \ {"GOT_STX"}
    BY DEF HeaderStates
  <2>3. ~in_mavlink1
    BY <1>3, <1>4, <1>7, <2>2
  <2>4. ~in_mavlink1 => Extends2(rx, 1) /\ Place2["GOT_INCOMPAT_FLAGS"] = 1 + 1
    <3>1. ~in_mavlink1 => Reads2(rxmsg.checksum, rxmsg, 1)
      BY <1>3, <1>4, <1>7, <2>2
    <3>. QED  BY <1>1, <1>2, <1>4, <3>1 DEF Extends2, Reads2, Received
  <2>5. Takes("GOT_LENGTH", rx, "GOT_INCOMPAT_FLAGS")
    BY <1>7
  <2> HIDE DEF rx
  <2>6. HeaderTakes("GOT_LENGTH", rx, "GOT_INCOMPAT_FLAGS", 0, 1)
    BY <2>1, <2>3, <2>4, <2>5 DEF HeaderTakes
  <2>. QED  BY <2>1, <2>2, <2>3, <2>4, <2>6, HeaderGoesOn
<1>8. ASSUME Takes("GOT_INCOMPAT_FLAGS", [rxmsg EXCEPT !.compat_flags = c], "GOT_COMPAT_FLAGS")
      PROVE  FrameInv'
  <2> DEFINE rx == [rxmsg EXCEPT !.compat_flags = c]
  <2>1. rx \in Received /\ rx.checksum = rxmsg.checksum /\ rx.magic = rxmsg.magic
    <3>1. rx \in Received
      BY <1>1, <1>2, UpdatesAre
    <3>. QED  BY <1>1, <3>1 DEF Received
  <2>2. "GOT_INCOMPAT_FLAGS" \in HeaderStates /\ "GOT_COMPAT_FLAGS" \in HeaderStates \ {"GOT_STX"}
    BY DEF HeaderStates
  <2>3. ~in_mavlink1
    BY <1>3, <1>4, <1>8, <2>2
  <2>4. ~in_mavlink1 => Extends2(rx, 2) /\ Place2["GOT_COMPAT_FLAGS"] = 2 + 1
    <3>1. ~in_mavlink1 => Reads2(rxmsg.checksum, rxmsg, 2)
      BY <1>3, <1>4, <1>8, <2>2
    <3>. QED  BY <1>1, <1>2, <1>4, <3>1 DEF Extends2, Reads2, Received
  <2>5. Takes("GOT_INCOMPAT_FLAGS", rx, "GOT_COMPAT_FLAGS")
    BY <1>8
  <2> HIDE DEF rx
  <2>6. HeaderTakes("GOT_INCOMPAT_FLAGS", rx, "GOT_COMPAT_FLAGS", 0, 2)
    BY <2>1, <2>3, <2>4, <2>5 DEF HeaderTakes
  <2>. QED  BY <2>1, <2>2, <2>3, <2>4, <2>6, HeaderGoesOn
<1>9. ASSUME Takes("GOT_COMPAT_FLAGS", [rxmsg EXCEPT !.seq = c], "GOT_SEQ")
      PROVE  FrameInv'
  <2> DEFINE rx == [rxmsg EXCEPT !.seq = c]
  <2>1. rx \in Received /\ rx.checksum = rxmsg.checksum /\ rx.magic = rxmsg.magic
    <3>1. rx \in Received
      BY <1>1, <1>2, UpdatesAre
    <3>. QED  BY <1>1, <3>1 DEF Received
  <2>2. "GOT_COMPAT_FLAGS" \in HeaderStates /\ "GOT_SEQ" \in HeaderStates \ {"GOT_STX"}
    BY DEF HeaderStates
  <2>3. in_mavlink1 => Extends1(rx, 1) /\ "GOT_SEQ" \in DOMAIN Place1 /\ Place1["GOT_SEQ"] = 1 + 1
    <3>1. in_mavlink1 => Reads1(rxmsg.checksum, rxmsg, 1) /\ rx.incompat_flags = 0
      BY <1>1, <1>3, <1>4, <1>9, <2>2 DEF Received
    <3>. QED  BY <1>1, <1>2, <1>4, <3>1 DEF Extends1, Reads1, Received
  <2>4. ~in_mavlink1 => Extends2(rx, 3) /\ Place2["GOT_SEQ"] = 3 + 1
    <3>1. ~in_mavlink1 => Reads2(rxmsg.checksum, rxmsg, 3)
      BY <1>3, <1>4, <1>9, <2>2
    <3>. QED  BY <1>1, <1>2, <1>4, <3>1 DEF Extends2, Reads2, Received
  <2>5. Takes("GOT_COMPAT_FLAGS", rx, "GOT_SEQ")
    BY <1>9
  <2> HIDE DEF rx
  <2>6. HeaderTakes("GOT_COMPAT_FLAGS", rx, "GOT_SEQ", 1, 3)
    BY <2>1, <2>3, <2>4, <2>5 DEF HeaderTakes
  <2>. QED  BY <2>1, <2>2, <2>3, <2>4, <2>6, HeaderGoesOn
<1>10. ASSUME Takes("GOT_SEQ", [rxmsg EXCEPT !.sysid = c], "GOT_SYSID")
      PROVE  FrameInv'
  <2> DEFINE rx == [rxmsg EXCEPT !.sysid = c]
  <2>1. rx \in Received /\ rx.checksum = rxmsg.checksum /\ rx.magic = rxmsg.magic
    <3>1. rx \in Received
      BY <1>1, <1>2, UpdatesAre
    <3>. QED  BY <1>1, <3>1 DEF Received
  <2>2. "GOT_SEQ" \in HeaderStates /\ "GOT_SYSID" \in HeaderStates \ {"GOT_STX"}
    BY DEF HeaderStates
  <2>3. in_mavlink1 => Extends1(rx, 2) /\ "GOT_SYSID" \in DOMAIN Place1 /\ Place1["GOT_SYSID"] = 2 + 1
    <3>1. in_mavlink1 => Reads1(rxmsg.checksum, rxmsg, 2) /\ rx.incompat_flags = 0
      BY <1>1, <1>3, <1>4, <1>10, <2>2 DEF Received
    <3>. QED  BY <1>1, <1>2, <1>4, <3>1 DEF Extends1, Reads1, Received
  <2>4. ~in_mavlink1 => Extends2(rx, 4) /\ Place2["GOT_SYSID"] = 4 + 1
    <3>1. ~in_mavlink1 => Reads2(rxmsg.checksum, rxmsg, 4)
      BY <1>3, <1>4, <1>10, <2>2
    <3>. QED  BY <1>1, <1>2, <1>4, <3>1 DEF Extends2, Reads2, Received
  <2>5. Takes("GOT_SEQ", rx, "GOT_SYSID")
    BY <1>10
  <2> HIDE DEF rx
  <2>6. HeaderTakes("GOT_SEQ", rx, "GOT_SYSID", 2, 4)
    BY <2>1, <2>3, <2>4, <2>5 DEF HeaderTakes
  <2>. QED  BY <2>1, <2>2, <2>3, <2>4, <2>6, HeaderGoesOn
<1>11. ASSUME Takes("GOT_SYSID", [rxmsg EXCEPT !.compid = c], "GOT_COMPID")
      PROVE  FrameInv'
  <2> DEFINE rx == [rxmsg EXCEPT !.compid = c]
  <2>1. rx \in Received /\ rx.checksum = rxmsg.checksum /\ rx.magic = rxmsg.magic
    <3>1. rx \in Received
      BY <1>1, <1>2, UpdatesAre
    <3>. QED  BY <1>1, <3>1 DEF Received
  <2>2. "GOT_SYSID" \in HeaderStates /\ "GOT_COMPID" \in HeaderStates \ {"GOT_STX"}
    BY DEF HeaderStates
  <2>3. in_mavlink1 => Extends1(rx, 3) /\ "GOT_COMPID" \in DOMAIN Place1 /\ Place1["GOT_COMPID"] = 3 + 1
    <3>1. in_mavlink1 => Reads1(rxmsg.checksum, rxmsg, 3) /\ rx.incompat_flags = 0
      BY <1>1, <1>3, <1>4, <1>11, <2>2 DEF Received
    <3>. QED  BY <1>1, <1>2, <1>4, <3>1 DEF Extends1, Reads1, Received
  <2>4. ~in_mavlink1 => Extends2(rx, 5) /\ Place2["GOT_COMPID"] = 5 + 1
    <3>1. ~in_mavlink1 => Reads2(rxmsg.checksum, rxmsg, 5)
      BY <1>3, <1>4, <1>11, <2>2
    <3>. QED  BY <1>1, <1>2, <1>4, <3>1 DEF Extends2, Reads2, Received
  <2>5. Takes("GOT_SYSID", rx, "GOT_COMPID")
    BY <1>11
  <2> HIDE DEF rx
  <2>6. HeaderTakes("GOT_SYSID", rx, "GOT_COMPID", 3, 5)
    BY <2>1, <2>3, <2>4, <2>5 DEF HeaderTakes
  <2>. QED  BY <2>1, <2>2, <2>3, <2>4, <2>6, HeaderGoesOn
<1>12. ASSUME Takes("GOT_COMPID", [rxmsg EXCEPT !.msgid = <<c, 0, 0>>], "GOT_MSGID1"), ~in_mavlink1
      PROVE  FrameInv'
  <2> DEFINE rx == [rxmsg EXCEPT !.msgid = <<c, 0, 0>>]
  <2>1. rx \in Received /\ rx.checksum = rxmsg.checksum /\ rx.magic = rxmsg.magic
    <3>1. rx \in Received
      BY <1>1, <1>2, UpdatesAre
    <3>. QED  BY <1>1, <3>1 DEF Received
  <2>2. "GOT_COMPID" \in HeaderStates /\ "GOT_MSGID1" \in HeaderStates \ {"GOT_STX"}
    BY DEF HeaderStates
  <2>3. ~in_mavlink1
    BY <1>12
  <2>4. ~in_mavlink1 => Extends2(rx, 6) /\ Place2["GOT_MSGID1"] = 6 + 1
    <3>1. ~in_mavlink1 => Reads2(rxmsg.checksum, rxmsg, 6)
      BY <1>3, <1>4, <1>12, <2>2
    <3>. QED  BY <1>1, <1>2, <1>4, <3>1 DEF Extends2, Reads2, Received
  <2>5. Takes("GOT_COMPID", rx, "GOT_MSGID1")
    BY <1>12
  <2> HIDE DEF rx
  <2>6. HeaderTakes("GOT_COMPID", rx, "GOT_MSGID1", 4, 6)
    BY <2>1, <2>3, <2>4, <2>5 DEF HeaderTakes
  <2>. QED  BY <2>1, <2>2, <2>3, <2>4, <2>6, HeaderGoesOn
<1>13. ASSUME Takes("GOT_MSGID1", [rxmsg EXCEPT !.msgid[2] = c], "GOT_MSGID2")
      PROVE  FrameInv'
  <2> DEFINE rx == [rxmsg EXCEPT !.msgid[2] = c]
  <2>1. rx \in Received /\ rx.checksum = rxmsg.checksum /\ rx.magic = rxmsg.magic
    <3>1. rx \in Received
      BY <1>1, <1>2, UpdatesAre
    <3>. QED  BY <1>1, <3>1 DEF Received
  <2>2. "GOT_MSGID1" \in HeaderStates /\ "GOT_MSGID2" \in HeaderStates \ {"GOT_STX"}
    BY DEF HeaderStates
  <2>3. ~in_mavlink1
    BY <1>3, <1>4, <1>13, <2>2
  <2>4. ~in_mavlink1 => Extends2(rx, 7) /\ Place2["GOT_MSGID2"] = 7 + 1
    <3>1. ~in_mavlink1 => Reads2(rxmsg.checksum, rxmsg, 7)
      BY <1>3, <1>4, <1>13, <2>2
    <3>. QED  BY <1>1, <1>2, <1>4, <3>1 DEF Extends2, Reads2, Received
  <2>5. Takes("GOT_MSGID1", rx, "GOT_MSGID2")
    BY <1>13
  <2> HIDE DEF rx
  <2>6. HeaderTakes("GOT_MSGID1", rx, "GOT_MSGID2", 0, 7)
    BY <2>1, <2>3, <2>4, <2>5 DEF HeaderTakes
  <2>. QED  BY <2>1, <2>2, <2>3, <2>4, <2>6, HeaderGoesOn
<1>14. AfterHeader \notin HeaderStates
  BY DEF AfterHeader, HeaderStates
<1>15. CASE Length
  BY <1>5, <1>6, <1>15 DEF Length
<1>16. CASE IncompatFlags
  BY <1>7, <1>16 DEF IncompatFlags, TakesHeader
<1>17. CASE HeaderByte
  <2>1. ASSUME NEW from, NEW rx, TakesHeader(from, rx, AfterHeader) PROVE FALSE
    BY <1>14, <2>1 DEF TakesHeader, Takes
  <2>2. ASSUME in_mavlink1,
               TakesHeader("GOT_COMPID", [rxmsg EXCEPT !.msgid = <<c, 0, 0>>],
                           IF in_mavlink1 THEN AfterHeader ELSE "GOT_MSGID1")
        PROVE  FALSE
    BY <2>1, <2>2
  <2>. QED  BY <1>1, <1>8, <1>9, <1>10, <1>11, <1>12, <1>13, <1>17, <2>1, <2>2 DEF HeaderByte, TakesHeader
<1>. QED  BY <1>15, <1>16, <1>17

(* The first n bytes of the payload array.                                 *)
LEMMA PayloadIs ==
  ASSUME NEW rx \in Received, NEW n \in 0..MAX_PAYLOAD_LEN
  PROVE  /\ PayloadOf(rx, n) \in Seq(Byte) /\ Len(PayloadOf(rx, n)) = n
         /\ \A k \in 1..n : PayloadOf(rx, n)[k] = rx.payload[k]
<1> DEFINE p == rx.payload
<1>1. p \in [1..MAX_PAYLOAD_LEN -> Byte] /\ MAX_PAYLOAD_LEN \in Nat
  BY MarkerAssumption DEF Received
<1>2. PayloadOf(rx, n) = SubSeq(p, 1, n)
  BY DEF PayloadOf
<1> HIDE DEF p
<1>3. p \in Seq(Byte)
  BY <1>1, SeqDef
<1>4. /\ n \in Int /\ 1 \in Int /\ \A k \in 1..n : p[k] \in Byte
  BY <1>1
<1>5. /\ SubSeq(p, 1, n) \in Seq(Byte) /\ Len(SubSeq(p, 1, n)) = IF 1 <= n THEN n - 1 + 1 ELSE 0
      /\ \A k \in 1..(n - 1 + 1) : SubSeq(p, 1, n)[k] = p[1 + k - 1]
  BY <1>4, SubSeqProperties
<1>6. n - 1 + 1 = n /\ (\A k \in 1..n : 1 + k - 1 = k) /\ (~(1 <= n) => n = 0)
  BY <1>4
<1> DEFINE q == SubSeq(p, 1, n)
<1> HIDE DEF q
<1>7. q \in Seq(Byte) /\ Len(q) = n /\ \A k \in 1..n : q[k] = p[k]
  BY <1>1, <1>5, <1>6 DEF q
<1>. QED  BY <1>2, <1>7 DEF q, p

(* The fields of the message under way are bytes.                          *)
LEMMA ReceivedFields ==
  ASSUME NEW rx \in Received
  PROVE  FieldsAreBytes(rx) /\ HeaderOf(rx) \in Seq(Byte) /\ rx.len \in 0..MAX_PAYLOAD_LEN
<1>1. FieldsAreBytes(rx) /\ rx.len \in 0..MAX_PAYLOAD_LEN
  BY DEF FieldsAreBytes, Received, Byte
<1>. QED  BY <1>1, HeaderIs

(* The header is complete.                                                 *)
LEMMA HeaderEnds ==
  ASSUME TypeInv, TypeInv', FrameInv, NEW from \in HeaderStates \ {"GOT_STX"}, NEW rx \in Received,
         HeaderTakes(from, rx, AfterHeader, 4, 8), rx.len = rxmsg.len,
         in_mavlink1 => rx.msgid[2] = 0 /\ rx.msgid[3] = 0,
         UNCHANGED packet_idx
  PROVE  FrameInv'
<1>1. /\ parse_state' = AfterHeader /\ in_mavlink1' = in_mavlink1 /\ in_mavlink1 \in BOOLEAN
      /\ frame' # <<>> /\ frame'[1] \in {STX, STX_MAVLINK1}
      /\ frame' = <<frame'[1]>> \o rxmsg'.checksum
      /\ in_mavlink1' <=> rxmsg'.magic = STX_MAVLINK1
      /\ in_mavlink1' => rxmsg'.incompat_flags = 0 /\ Reads1(rxmsg'.checksum, rxmsg', 4 + 1)
      /\ ~in_mavlink1' => Reads2(rxmsg'.checksum, rxmsg', 8 + 1)
      /\ rxmsg'.len = rx.len /\ rxmsg'.msgid = rx.msgid
  <2>. from \in HeaderStates
    OBVIOUS
  <2>. QED  BY HeaderReads
<1>2. packet_idx' = 0
  <2>1. parse_state = from
    BY DEF HeaderTakes, Takes, Incomplete, Parses
  <2>. QED  BY <2>1 DEF TypeInv
<1> DEFINE ry == rxmsg'
           s  == rxmsg'.checksum
<1>3. ry \in Received /\ s \in Seq(Byte) /\ ry.len = rxmsg.len
  BY <1>1 DEF TypeInv, TypeOK, Received
<1>4. AfterHeader \in {"GOT_MSGID3", "GOT_PAYLOAD"} /\ (AfterHeader = "GOT_PAYLOAD" => ry.len = 0)
  <2>1. ry.len \in Byte
    BY <1>3 DEF Received
  <2> HIDE DEF ry
  <2>. QED  BY <1>3, <2>1, MarkerAssumption DEF AfterHeader, Byte
<1>5. s = HeaderOf(ry)
  <2>1. IF ry.magic = STX_MAVLINK1 THEN Reads1(s, ry, 5) ELSE Reads2(s, ry, 9)
    BY <1>1
  <2> HIDE DEF s, ry
  <2>2. FieldsAreBytes(ry)
    BY <1>3, ReceivedFields
  <2>. QED  BY <1>3, <2>1, <2>2, ReadsAll
<1>6. s = HeaderOf(ry) \o PayloadOf(ry, 0)
  <2> HIDE DEF s, ry
  <2>1. PayloadOf(ry, 0) = <<>>
    BY SubSeqEmpty DEF PayloadOf
  <2>2. s \o <<>> = s
    BY <1>3, ConcatEmptySeq
  <2>. QED  BY <1>5, <2>1, <2>2
<1>7. PayloadInv'
  <2>1. frame' = <<frame'[1]>> \o rxmsg'.checksum /\ rxmsg'.checksum = HeaderOf(rxmsg') \o PayloadOf(rxmsg', packet_idx')
    BY <1>1, <1>2, <1>6
  <2>2. parse_state' = "GOT_PAYLOAD" => packet_idx' = rxmsg'.len
    BY <1>1, <1>2, <1>4
  <2>. QED  BY <2>1, <2>2 DEF PayloadInv
<1>8. VersionInv'
  BY <1>1, <1>4 DEF VersionInv, HeaderStates
<1>. QED  BY <1>1, <1>4, <1>7, <1>8 DEF FrameInv, HeaderInv, CrcInv, SignatureInv, HeaderStates

(* The last byte of the header preserves the invariant.                    *)
LEMMA LastHeaderByte ==
  ASSUME TypeInv, TypeInv', FrameInv, HeaderByte, parse_state' \notin HeaderStates
  PROVE  FrameInv'
<1>1. /\ rxmsg \in Received /\ in_mavlink1 \in BOOLEAN
  BY DEF TypeInv, TypeOK
<1>2. c \in Byte
  <2>1. buf # <<>>
    BY DEF HeaderByte, TakesHeader, Takes, Incomplete, Parses
  <2>. QED  BY <2>1, Taken
<1>3. \/ in_mavlink1 /\ TakesHeader("GOT_COMPID", [rxmsg EXCEPT !.msgid = <<c, 0, 0>>], AfterHeader)
      \/ TakesHeader("GOT_MSGID2", [rxmsg EXCEPT !.msgid[3] = c], AfterHeader)
  BY <1>1 DEF HeaderByte, TakesHeader, Takes, HeaderStates
<1>4. ASSUME in_mavlink1,
             TakesHeader("GOT_COMPID", [rxmsg EXCEPT !.msgid = <<c, 0, 0>>], AfterHeader)
      PROVE  FrameInv'
  <2> DEFINE rx == [rxmsg EXCEPT !.msgid = <<c, 0, 0>>]
  <2>1. rx \in Received
    BY <1>1, <1>2, UpdatesAre
  <2>2. /\ rx.checksum = rxmsg.checksum /\ rx.magic = rxmsg.magic /\ rx.len = rxmsg.len
        /\ rx.msgid[1] = c /\ rx.msgid[2] = 0 /\ rx.msgid[3] = 0
    BY <1>1 DEF Received
  <2>3. Takes("GOT_COMPID", rx, AfterHeader) /\ UNCHANGED packet_idx
    BY <1>4 DEF TakesHeader
  <2>4. parse_state = "GOT_COMPID"
    BY <2>3 DEF Takes, Incomplete, Parses
  <2>5. Reads1(rxmsg.checksum, rxmsg, 4) /\ rxmsg.incompat_flags = 0
    <3>1. Place1["GOT_COMPID"] = 4
      BY DEF Place1
    <3>. QED  BY <1>4, <2>4, <3>1 DEF FrameInv, VersionInv, HeaderInv, HeaderStates
  <2>6. Extends1(rx, 4)
    BY <1>1, <2>2, <2>5 DEF Extends1, Reads1, Received
  <2>7. "GOT_COMPID" \in HeaderStates \ {"GOT_STX"}
    BY DEF HeaderStates
  <2> HIDE DEF rx
  <2>8. HeaderTakes("GOT_COMPID", rx, AfterHeader, 4, 8)
    BY <1>4, <2>2, <2>3, <2>6 DEF HeaderTakes
  <2>. QED  BY <2>1, <2>2, <2>3, <2>7, <2>8, HeaderEnds
<1>5. ASSUME TakesHeader("GOT_MSGID2", [rxmsg EXCEPT !.msgid[3] = c], AfterHeader)
      PROVE  FrameInv'
  <2> DEFINE rx == [rxmsg EXCEPT !.msgid[3] = c]
  <2>1. rx \in Received
    BY <1>1, <1>2, UpdatesAre
  <2>2. /\ rx.checksum = rxmsg.checksum /\ rx.magic = rxmsg.magic /\ rx.len = rxmsg.len
        /\ rx.msgid[1] = rxmsg.msgid[1] /\ rx.msgid[2] = rxmsg.msgid[2] /\ rx.msgid[3] = c
    BY <1>1 DEF Received
  <2>3. Takes("GOT_MSGID2", rx, AfterHeader) /\ UNCHANGED packet_idx
    BY <1>5 DEF TakesHeader
  <2>4. parse_state = "GOT_MSGID2"
    BY <2>3 DEF Takes, Incomplete, Parses
  <2>5. ~in_mavlink1 /\ Reads2(rxmsg.checksum, rxmsg, 8)
    <3>1. Place2["GOT_MSGID2"] = 8 /\ "GOT_MSGID2" \notin DOMAIN Place1
      BY DEF Place1, Place2
    <3>. QED  BY <2>4, <3>1 DEF FrameInv, VersionInv, HeaderInv, HeaderStates
  <2>6. Extends2(rx, 8)
    BY <1>1, <2>2, <2>5 DEF Extends2, Reads2, Received
  <2>7. "GOT_MSGID2" \in HeaderStates \ {"GOT_STX"}
    BY DEF HeaderStates
  <2> HIDE DEF rx
  <2>8. HeaderTakes("GOT_MSGID2", rx, AfterHeader, 4, 8)
    BY <2>2, <2>3, <2>5, <2>6 DEF HeaderTakes
  <2>. QED  BY <2>1, <2>2, <2>3, <2>5, <2>7, <2>8, HeaderEnds
<1>. QED  BY <1>3, <1>4, <1>5

(* So does a marker that starts a frame, ...                               *)
LEMMA FrameStart ==
  ASSUME TypeInv, TypeInv', Start
  PROVE  FrameInv'
<1>1. /\ parse_state' = "GOT_STX" /\ frame' = <<c>> /\ c \in {STX, STX_MAVLINK1}
      /\ in_mavlink1' = (c = STX_MAVLINK1) /\ rxmsg' = Marker(rxmsg) /\ buf # <<>> /\ rxmsg \in Received
  BY DEF Start, Incomplete, Parses, TypeInv, TypeOK
<1>2. rxmsg'.magic = c /\ rxmsg'.checksum = <<>>
  BY <1>1 DEF Marker, Received
<1>3. c \in Byte
  BY <1>1, Taken
<1>4. frame' = <<frame'[1]>> \o rxmsg'.checksum /\ frame' # <<>> /\ frame'[1] = c
  <2>1. <<c>> \in Seq(Byte) /\ <<c>>[1] = c /\ <<c>> # <<>>
    BY <1>3
  <2>2. <<c>> \o <<>> = <<c>>
    BY <2>1, ConcatEmptySeq
  <2>. QED  BY <1>1, <1>2, <2>1, <2>2
<1>5. VersionInv'
  BY <1>1, <1>2, <1>4 DEF VersionInv, HeaderStates
<1>6. HeaderInv'
  <2>1. "GOT_STX" \in DOMAIN Place1 /\ Place1["GOT_STX"] = 0 /\ Place2["GOT_STX"] = 0
    BY DEF Place1, Place2
  <2>2. Len(<<>>) = 0
    OBVIOUS
  <2>3. Reads1(rxmsg'.checksum, rxmsg', 0) /\ Reads2(rxmsg'.checksum, rxmsg', 0)
    BY <1>2, <2>2 DEF Reads1, Reads2
  <2>. QED  BY <1>1, <1>4, <2>1, <2>3 DEF HeaderInv
<1>. QED  BY <1>1, <1>5, <1>6 DEF FrameInv, PayloadInv, CrcInv, SignatureInv

(* ... a checksum that is wrong, ...                                       *)
LEMMA FrameBadCrc ==
  ASSUME TypeInv, TypeInv', FrameInv, BadCrc
  PROVE  FrameInv'
<1>1. /\ parse_state \in {"GOT_BAD_CRC1", "GOT_CRC1"} /\ buf # <<>> /\ rxmsg \in Received
      /\ in_mavlink1' = in_mavlink1
      /\ \/ parse_state' = "IDLE"
         \/ /\ parse_state' = "GOT_STX" /\ c = STX
            /\ frame' = <<c>> /\ rxmsg' = [rxmsg EXCEPT !.len = 0, !.checksum = <<>>]
  BY DEF BadCrc, Incomplete, Parses, AfterBadCrc, TypeInv, TypeOK
<1>2. CASE parse_state' = "IDLE"
  BY <1>2 DEF FrameInv, VersionInv, HeaderInv, PayloadInv, CrcInv, SignatureInv, HeaderStates
<1>3. CASE parse_state' # "IDLE"
  <2>1. parse_state' = "GOT_STX" /\ c = STX /\ frame' = <<c>> /\ rxmsg'.magic = rxmsg.magic /\ rxmsg'.checksum = <<>>
    BY <1>1, <1>3 DEF Received
  <2>2. c \in Byte
    BY <1>1, Taken
  <2>3. frame' = <<frame'[1]>> \o rxmsg'.checksum /\ frame' # <<>> /\ frame'[1] = c
    <3>1. <<c>> \in Seq(Byte) /\ <<c>>[1] = c /\ <<c>> # <<>>
      BY <2>2
    <3>2. <<c>> \o <<>> = <<c>>
      BY <3>1, ConcatEmptySeq
    <3>. QED  BY <2>1, <3>1, <3>2
  <2>4. VersionInv'
    BY <1>1, <2>1, <2>3 DEF FrameInv, VersionInv, HeaderStates
  <2>5. HeaderInv'
    <3>1. "GOT_STX" \in DOMAIN Place1 /\ Place1["GOT_STX"] = 0 /\ Place2["GOT_STX"] = 0
      BY DEF Place1, Place2
    <3>2. Len(<<>>) = 0
      OBVIOUS
    <3>3. Reads1(rxmsg'.checksum, rxmsg', 0) /\ Reads2(rxmsg'.checksum, rxmsg', 0)
      BY <2>1, <3>2 DEF Reads1, Reads2
    <3>. QED  BY <2>1, <2>3, <3>1, <3>3 DEF HeaderInv
  <2>. QED  BY <2>1, <2>4, <2>5 DEF FrameInv, PayloadInv, CrcInv, SignatureInv
<1>. QED  BY <1>2, <1>3

(* ... a byte of the payload, ...                                          *)
LEMMA FramePayload ==
  ASSUME TypeInv, TypeInv', FrameInv, PayloadByte
  PROVE  FrameInv'
<1> DEFINE rx == [rxmsg EXCEPT !.payload[packet_idx + 1] = c]
           to == IF packet_idx + 1 = rxmsg.len THEN "GOT_PAYLOAD" ELSE "GOT_MSGID3"
           ry == rxmsg'
           s  == rxmsg.checksum
           p  == PayloadOf(rxmsg, packet_idx)
           h  == HeaderOf(rxmsg)
<1>1. Takes("GOT_MSGID3", rx, to) /\ packet_idx' = packet_idx + 1
  BY DEF PayloadByte
<1>2. /\ parse_state = "GOT_MSGID3" /\ buf # <<>> /\ rxmsg \in Received /\ ry \in Received
      /\ packet_idx \in Nat /\ packet_idx < rxmsg.len /\ rxmsg.len \in 0..MAX_PAYLOAD_LEN
      /\ MAX_PAYLOAD_LEN \in Nat
  <2>1. parse_state = "GOT_MSGID3" /\ buf # <<>>
    BY <1>1 DEF Takes, Incomplete, Parses
  <2>2. rxmsg \in Received /\ ry \in Received /\ packet_idx \in Byte /\ packet_idx < rxmsg.len
    BY <2>1 DEF TypeInv, TypeOK
  <2>3. rxmsg.len \in Byte
    BY <2>2 DEF Received
  <2>. QED  BY <2>1, <2>2, <2>3, MarkerAssumption DEF Byte
<1>3. c \in Byte
  BY <1>2, Taken
<1>4. packet_idx + 1 \in 1..MAX_PAYLOAD_LEN /\ packet_idx \in 0..MAX_PAYLOAD_LEN
  BY <1>2
<1>5. rx \in Received
  BY <1>2, <1>3, <1>4, UpdatesAre
<1>6. rx.checksum = s
  BY <1>2 DEF Received
<1>7. /\ frame # <<>> /\ frame[1] \in {STX, STX_MAVLINK1} /\ frame = <<frame[1]>> \o s
      /\ s = h \o p
      /\ in_mavlink1 <=> rxmsg.magic = STX_MAVLINK1
      /\ in_mavlink1 => rxmsg.incompat_flags = 0 /\ rxmsg.msgid[2] = 0 /\ rxmsg.msgid[3] = 0
  BY <1>2 DEF FrameInv, VersionInv, PayloadInv, HeaderStates
<1>8. to \in {"GOT_MSGID3", "GOT_PAYLOAD"} /\ (to = "GOT_PAYLOAD" => packet_idx' = rxmsg.len)
  BY <1>1
<1>9. /\ ry.magic = rxmsg.magic /\ ry.len = rxmsg.len /\ ry.incompat_flags = rxmsg.incompat_flags
      /\ ry.compat_flags = rxmsg.compat_flags /\ ry.seq = rxmsg.seq /\ ry.sysid = rxmsg.sysid
      /\ ry.compid = rxmsg.compid /\ ry.msgid = rxmsg.msgid
      /\ ry.payload = [rxmsg.payload EXCEPT ![packet_idx + 1] = c]
  <2>1. ry = [rx EXCEPT !.checksum = Append(@, c)]
    BY <1>1 DEF Takes
  <2>. QED  BY <1>2, <1>5, <2>1 DEF Received
<1> HIDE DEF rx, to
<1>10. /\ frame' # <<>> /\ frame'[1] = frame[1] /\ frame' = <<frame'[1]>> \o rxmsg'.checksum
       /\ rxmsg'.checksum = Append(s, c) /\ parse_state' = to /\ in_mavlink1' = in_mavlink1
  BY <1>1, <1>5, <1>6, <1>7, TakesIs
<1>11. HeaderOf(ry) = h
  BY <1>9 DEF HeaderOf, Header
<1>12. PayloadOf(ry, packet_idx + 1) = Append(p, c)
  <2> DEFINE q == PayloadOf(ry, packet_idx + 1)
  <2>1. /\ p \in Seq(Byte) /\ Len(p) = packet_idx
        /\ \A k \in 1..packet_idx : p[k] = rxmsg.payload[k]
    BY <1>2, <1>4, PayloadIs
  <2>2. /\ q \in Seq(Byte) /\ Len(q) = packet_idx + 1
        /\ \A k \in 1..(packet_idx + 1) : q[k] = ry.payload[k]
    <3>1. packet_idx + 1 \in 0..MAX_PAYLOAD_LEN
      BY <1>2
    <3> HIDE DEF ry
    <3>. QED  BY <1>2, <3>1, PayloadIs
  <2>3. rxmsg.payload \in [1..MAX_PAYLOAD_LEN -> Byte]
    BY <1>2 DEF Received
  <2>4. \A k \in 1..(packet_idx + 1) : ry.payload[k] = IF k = packet_idx + 1 THEN c ELSE rxmsg.payload[k]
    BY <1>2, <1>4, <1>9, <2>3
  <2> DEFINE t == Append(p, c)
  <2> HIDE DEF p, q, ry
  <2>5. t \in Seq(Byte) /\ Len(t) = packet_idx + 1 /\ t[packet_idx + 1] = c /\ \A k \in 1..packet_idx : t[k] = p[k]
    BY <1>3, <2>1, AppendProperties
  <2> HIDE DEF t
  <2>6. \A k \in 1..(packet_idx + 1) : q[k] = t[k]
    BY <1>2, <2>1, <2>2, <2>4, <2>5
  <2>7. q = t
    BY <2>2, <2>5, <2>6, SeqEqual
  <2>. QED  BY <2>7 DEF q, t
<1>13. rxmsg'.checksum = HeaderOf(ry) \o PayloadOf(ry, packet_idx')
  <2>1. h \in Seq(Byte) /\ p \in Seq(Byte)
    BY <1>2, <1>4, PayloadIs, ReceivedFields
  <2> HIDE DEF h, p, ry
  <2>2. Append(h \o p, c) = h \o Append(p, c)
    <3>1. Append(h \o p, c) = (h \o p) \o <<c>> /\ Append(p, c) = p \o <<c>> /\ <<c>> \in Seq(Byte)
      BY <1>3, <2>1, AppendIsConcat, ConcatProperties
    <3>2. (h \o p) \o <<c>> = h \o (p \o <<c>>)
      BY <2>1, <3>1, ConcatAssociative
    <3>. QED  BY <3>1, <3>2
  <2>. QED  BY <1>1, <1>7, <1>10, <1>11, <1>12, <2>2
<1>14. VersionInv'
  BY <1>7, <1>9, <1>10 DEF VersionInv
<1>15. PayloadInv'
  BY <1>8, <1>9, <1>10, <1>13 DEF PayloadInv
<1>16. parse_state' \in {"GOT_MSGID3", "GOT_PAYLOAD"}
  BY <1>8, <1>10
<1>. QED  BY <1>14, <1>15, <1>16 DEF FrameInv, HeaderInv, CrcInv, SignatureInv, HeaderStates

(* Appending to a sequence leaves its first element.                       *)
LEMMA AppendLast ==
  ASSUME NEW s \in Seq(Byte), s # <<>>, NEW b \in Byte
  PROVE  /\ Append(s, b) \in Seq(Byte) /\ Append(s, b) # <<>> /\ Append(s, b)[1] = s[1]
         /\ s[1] \in Byte
<1>1. Len(s) \in Nat \ {0}
  BY LenProperties, EmptySeq
<1>2. 1 \in 1..Len(s)
  BY <1>1
<1>3. Append(s, b) \in Seq(Byte) /\ Len(Append(s, b)) = Len(s) + 1 /\ Append(s, b)[1] = s[1]
  BY <1>2, AppendProperties
<1>4. Append(s, b) # <<>>
  BY <1>1, <1>3, EmptySeq
<1>. QED  BY <1>2, <1>3, <1>4, ElementOfSeq

(* Filling with zeros leaves what has been received.                       *)
LEMMA ZeroFilledIs ==
  ASSUME NEW rx \in Received, NEW s \in Seq(Byte)
  PROVE  LET ry == [rx EXCEPT !.checksum = s, !.payload = ZeroFilled(rx, rx.len)]
         IN  /\ BodyOf(ry) = BodyOf(rx) /\ Covered(ry) = Covered(rx) /\ Filled(ry)
             /\ ry.magic = rx.magic /\ ry.incompat_flags = rx.incompat_flags /\ ry.msgid = rx.msgid
             /\ ry.checksum = s /\ ry \in Received
<1> DEFINE z  == ZeroFilled(rx, rx.len)
           ry == [rx EXCEPT !.checksum = s, !.payload = z]
           Zeroed(k) == \E e \in mavlink_get_msg_entry(rx.msgid) : k \in (rx.len + 1)..e.max_msg_len
<1>1. /\ rx.msgid \in Byte \X Byte \X Byte /\ rx.len \in 0..MAX_PAYLOAD_LEN /\ MAX_PAYLOAD_LEN \in Nat
      /\ rx.payload \in [1..MAX_PAYLOAD_LEN -> Byte]
  BY MarkerAssumption DEF Received, Byte
<1>2. mavlink_get_msg_entry(rx.msgid) = {Entries[k] : k \in Declared(rx.msgid)}
  BY <1>1, LookupCorrect
<1>3. z = [k \in 1..MAX_PAYLOAD_LEN |-> IF Zeroed(k) THEN 0 ELSE rx.payload[k]]
  BY DEF ZeroFilled
<1>4. 0 \in Byte
  BY <1>1 DEF Byte
<1> HIDE DEF Zeroed
<1>5. z \in [1..MAX_PAYLOAD_LEN -> Byte]
  BY <1>1, <1>3, <1>4
<1>6. ASSUME NEW k \in 1..rx.len PROVE z[k] = rx.payload[k]
  <2>1. k \in 1..MAX_PAYLOAD_LEN
    BY <1>1
  <2>2. \A n : k \notin (rx.len + 1)..n
    BY <1>1
  <2>. QED  BY <1>3, <2>1, <2>2 DEF Zeroed
<1>7. ASSUME NEW e \in Declared(rx.msgid), NEW k \in (rx.len + 1)..Entries[e].max_msg_len
      PROVE  z[k] = 0
  <2>1. e \in DOMAIN Entries /\ Entries[e] \in mavlink_get_msg_entry(rx.msgid)
    BY <1>2 DEF Declared
  <2>2. Entries[e].max_msg_len \in 0..MAX_PAYLOAD_LEN
    BY <2>1, EntriesAre DEF Byte
  <2>3. k \in 1..MAX_PAYLOAD_LEN
    BY <1>1, <2>2
  <2>4. Zeroed(k)
    BY <2>1 DEF Zeroed
  <2>. QED  BY <1>3, <2>3, <2>4
<1> HIDE DEF z
<1>8. /\ ry.len = rx.len /\ ry.magic = rx.magic /\ ry.seq = rx.seq /\ ry.sysid = rx.sysid
      /\ ry.compid = rx.compid /\ ry.msgid = rx.msgid /\ ry.incompat_flags = rx.incompat_flags
      /\ ry.compat_flags = rx.compat_flags /\ ry.payload = z /\ ry.checksum = s
  BY DEF Received
<1>9. ry \in Received
  BY <1>5 DEF Received
<1> HIDE DEF ry
<1>10. HeaderOf(ry) = HeaderOf(rx)
  BY <1>8 DEF HeaderOf, Header
<1>11. PayloadOf(ry, ry.len) = PayloadOf(rx, rx.len)
  <2> DEFINE p == PayloadOf(rx, rx.len)
             q == PayloadOf(ry, rx.len)
  <2>1. p \in Seq(Byte) /\ Len(p) = rx.len /\ \A k \in 1..rx.len : p[k] = rx.payload[k]
    BY <1>1, PayloadIs
  <2>2. q \in Seq(Byte) /\ Len(q) = rx.len /\ \A k \in 1..rx.len : q[k] = ry.payload[k]
    BY <1>1, <1>9, PayloadIs
  <2> HIDE DEF p, q
  <2>3. \A k \in 1..Len(q) : q[k] = p[k]
    BY <1>6, <1>8, <2>1, <2>2
  <2>4. q = p
    BY <2>1, <2>2, <2>3, SeqEqual
  <2>. QED  BY <1>8, <2>4 DEF p, q
<1>12. BodyOf(ry) = BodyOf(rx) /\ Covered(ry) = Covered(rx)
  BY <1>8, <1>10, <1>11 DEF BodyOf, Covered
<1>13. Filled(ry)
  BY <1>7, <1>8 DEF Filled
<1>. QED  BY <1>8, <1>9, <1>12, <1>13 DEF ry, z

(* ... the first byte of the checksum, ...                                 *)
LEMMA FrameFirstCrc ==
  ASSUME TypeInv, TypeInv', FrameInv, FirstCrc
  PROVE  /\ FrameInv'
         /\ parse_state' = AfterFirstCrc(Covered(rxmsg)) /\ rxmsg'.magic = rxmsg.magic
<1> DEFINE s  == rxmsg.checksum
           x  == crc_extra(rxmsg.msgid)
           t  == Append(s, x)
           ry == [rxmsg EXCEPT !.checksum = t, !.payload = ZeroFilled(rxmsg, rxmsg.len)]
<1>1. parse_state = "GOT_PAYLOAD" /\ buf # <<>> /\ rxmsg \in Received /\ frame \in Seq(Byte)
  BY DEF FirstCrc, Incomplete, Parses, TypeInv, TypeOK
<1>2. /\ frame # <<>> /\ frame[1] \in {STX, STX_MAVLINK1} /\ frame = <<frame[1]>> \o s
      /\ s = HeaderOf(rxmsg) \o PayloadOf(rxmsg, packet_idx) /\ packet_idx = rxmsg.len
      /\ in_mavlink1 <=> rxmsg.magic = STX_MAVLINK1
      /\ in_mavlink1 => rxmsg.incompat_flags = 0 /\ rxmsg.msgid[2] = 0 /\ rxmsg.msgid[3] = 0
  BY <1>1 DEF FrameInv, VersionInv, PayloadInv, HeaderStates
<1>3. s = BodyOf(rxmsg)
  BY <1>2 DEF BodyOf
<1>4. s \in Seq(Byte) /\ rxmsg.msgid \in Byte \X Byte \X Byte
  BY <1>1 DEF Received
<1>5. x \in Byte /\ x = DeclaredExtra(rxmsg.msgid)
  BY <1>4, CrcExtraIs
<1>6. /\ rxmsg' = ry /\ parse_state' = AfterFirstCrc(t) /\ frame' = Append(frame, c)
      /\ in_mavlink1' = in_mavlink1
  BY <1>2 DEF FirstCrc
<1>7. c \in Byte
  BY <1>1, Taken
<1>8. t \in Seq(Byte) /\ t = Covered(rxmsg)
  <2> HIDE DEF s, x
  <2>1. Append(s, x) \in Seq(Byte) /\ Append(s, x) = s \o <<x>>
    BY <1>4, <1>5, AppendProperties, AppendIsConcat DEF s
  <2>. QED  BY <1>3, <1>5, <2>1 DEF Covered
<1> HIDE DEF t
<1>9. /\ BodyOf(ry) = BodyOf(rxmsg) /\ Covered(ry) = Covered(rxmsg) /\ Filled(ry)
      /\ ry.magic = rxmsg.magic /\ ry.incompat_flags = rxmsg.incompat_flags /\ ry.msgid = rxmsg.msgid
      /\ ry.checksum = t
  BY <1>1, <1>8, ZeroFilledIs
<1> HIDE DEF ry, s
<1>10. frame' # <<>> /\ frame'[1] = frame[1]
  BY <1>1, <1>2, <1>6, <1>7, AppendLast
<1>11. parse_state' \in {"GOT_CRC1", "GOT_BAD_CRC1"} /\ (parse_state' = "GOT_CRC1" => c = CrcLow(t))
  BY <1>6 DEF AfterFirstCrc
<1>12. VersionInv'
  BY <1>2, <1>6, <1>9, <1>10, <1>11 DEF VersionInv
<1>13. CrcInv'
  <2>1. rxmsg' = ry /\ frame' = Append(<<frame'[1]>> \o s, c)
    BY <1>2, <1>6, <1>10
  <2>2. rxmsg'.checksum = Covered(rxmsg') /\ Filled(rxmsg') /\ BodyOf(rxmsg') = s /\ Covered(rxmsg') = t
    BY <1>3, <1>8, <1>9, <2>1
  <2>. QED  BY <1>7, <1>11, <2>1, <2>2 DEF CrcInv
<1>14. parse_state' = AfterFirstCrc(Covered(rxmsg)) /\ rxmsg'.magic = rxmsg.magic
  BY <1>6, <1>8, <1>9
<1>. QED  BY <1>11, <1>12, <1>13, <1>14
          DEF FrameInv, HeaderInv, PayloadInv, SignatureInv, HeaderStates

(* The bytes of a whole frame.                                             *)
LEMMA FrameIs ==
  ASSUME NEW rx \in Received, NEW x \in Byte, Crc(Covered(rx)) \in Seq(Byte)
  PROVE  /\ BodyOf(rx) \in Seq(Byte)
         /\ FrameOf(x, rx) \in Seq(Byte)
         /\ FrameOf(x, rx) = <<x>> \o (BodyOf(rx) \o Crc(Covered(rx)))
         /\ BodyOf(rx) \o Crc(Covered(rx)) \in Seq(Byte)
<1> DEFINE h == HeaderOf(rx)
           p == PayloadOf(rx, rx.len)
           b == BodyOf(rx)
           k == Crc(Covered(rx))
<1>1. h \in Seq(Byte) /\ p \in Seq(Byte) /\ b = h \o p
  BY ReceivedFields, PayloadIs DEF BodyOf
<1> HIDE DEF h, p, b, k
<1>2. b \in Seq(Byte)
  BY <1>1, ConcatProperties
<1>3. k \in Seq(Byte) /\ <<x>> \in Seq(Byte)
  BY DEF k
<1>4. <<x>> \o b \in Seq(Byte) /\ b \o k \in Seq(Byte)
  BY <1>2, <1>3, ConcatProperties
<1>5. (<<x>> \o b) \o k = <<x>> \o (b \o k) /\ (<<x>> \o b) \o k \in Seq(Byte)
  BY <1>2, <1>3, <1>4, ConcatAssociative, ConcatProperties
<1>. QED  BY <1>2, <1>4, <1>5 DEF FrameOf, b, k

(* The second of two sequences, cut out of both.                           *)
LEMMA LastPart ==
  ASSUME NEW s \in Seq(Byte), NEW t \in Seq(Byte)
  PROVE  SubSeq(s \o t, Len(s \o t) - Len(t) + 1, Len(s \o t)) = t
<1> DEFINE u == s \o t
           m == Len(s) + 1
           n == Len(u)
           v == SubSeq(u, m, n)
<1>1. Len(s) \in Nat /\ Len(t) \in Nat
  BY LenProperties
<1>2. /\ u \in Seq(Byte) /\ Len(u) = Len(s) + Len(t)
      /\ \A k \in 1..Len(u) : u[k] = IF k <= Len(s) THEN s[k] ELSE t[k - Len(s)]
  BY ConcatProperties
<1> HIDE DEF u
<1>3. m \in Int /\ n \in Int /\ n - Len(t) + 1 = m /\ m..n \subseteq 1..Len(u)
  BY <1>1, <1>2
<1>4. \A k \in m..n : u[k] \in Byte
  BY <1>2, <1>3, ElementOfSeq
<1>5. /\ SubSeq(u, m, n) \in Seq(Byte)
      /\ Len(SubSeq(u, m, n)) = IF m <= n THEN n - m + 1 ELSE 0
      /\ \A k \in 1..(n - m + 1) : SubSeq(u, m, n)[k] = u[m + k - 1]
  <2> HIDE DEF m, n
  <2>. QED  BY <1>3, <1>4, SubSeqProperties
<1> HIDE DEF v
<1>6. v \in Seq(Byte) /\ Len(v) = Len(t) /\ \A k \in 1..Len(t) : v[k] = u[Len(s) + k]
  <2>1. n - m + 1 = Len(t) /\ (~(m <= n) => Len(t) = 0) /\ \A k \in 1..Len(t) : m + k - 1 = Len(s) + k
    BY <1>1, <1>2
  <2>. QED  BY <1>5, <2>1 DEF v
<1>7. \A k \in 1..Len(t) : u[Len(s) + k] = t[k]
  BY <1>1, <1>2
<1>8. v = t
  BY <1>6, <1>7, SeqEqual
<1>. QED  BY <1>3, <1>8 DEF u, v

(* Such bytes are the frame of the message, checksum included.             *)
LEMMA CompleteIs ==
  ASSUME NEW rx \in Received, NEW x \in {STX, STX_MAVLINK1}, Crc(Covered(rx)) \in Seq(Byte),
         NEW signature \in Seq(Byte), Len(signature) = SignatureLen(rx)
  PROVE  Complete(rx, FrameOf(x, rx) \o signature)
<1> DEFINE p == PayloadOf(rx, rx.len)
           b == BodyOf(rx) \o Crc(Covered(rx))
           f == FrameOf(x, rx) \o signature
           rest == b \o signature
<1>1. x \in Byte /\ rx.magic \in Byte /\ rx.len \in 0..MAX_PAYLOAD_LEN
  BY MarkerAssumption DEF Received, Byte
<1>2. /\ FrameOf(x, rx) = <<x>> \o b /\ FrameOf(rx.magic, rx) = <<rx.magic>> \o b
      /\ b \in Seq(Byte) /\ FrameOf(x, rx) \in Seq(Byte)
  BY <1>1, FrameIs
<1>3. Framed(rx, p, DeclaredExtra(rx.msgid)) = FrameOf(rx.magic, rx)
  <2>1. Len(p) = rx.len
    BY <1>1, PayloadIs
  <2>2. Body(rx, p) = BodyOf(rx)
    BY <2>1 DEF Body, BodyOf, HeaderOf
  <2> HIDE DEF p
  <2>. QED  BY <2>2 DEF Framed, FrameOf, Covered
<1> HIDE DEF b
<1>4. Tail(Framed(rx, p, DeclaredExtra(rx.msgid))) = b
  <2>. rx.magic \in Byte /\ b \in Seq(Byte)
    BY <1>1, <1>2
  <2>1. Tail(<<rx.magic>> \o b) = b
    BY AfterFirst
  <2>. QED  BY <1>2, <1>3, <2>1
<1>5. f = <<x>> \o rest /\ rest \in Seq(Byte)
  <2>1. <<x>> \in Seq(Byte)
    BY <1>1
  <2>. QED  BY <1>2, <2>1, ConcatAssociative, ConcatProperties
<1>6. f # <<>> /\ f[1] = x /\ Tail(f) = rest
  <2> HIDE DEF f, rest
  <2>. x \in Byte /\ rest \in Seq(Byte)
    BY <1>1, <1>5
  <2>1. <<x>> \o rest # <<>> /\ (<<x>> \o rest)[1] = x /\ Tail(<<x>> \o rest) = rest
    BY AfterFirst
  <2>. QED  BY <1>5, <2>1
<1>7. SubSeq(f, Len(f) - SignatureLen(rx) + 1, Len(f)) = signature
  <2> DEFINE g == FrameOf(x, rx)
  <2>1. g \in Seq(Byte)
    BY <1>2
  <2> HIDE DEF g
  <2>2. SubSeq(g \o signature, Len(g \o signature) - Len(signature) + 1, Len(g \o signature)) = signature
    BY <2>1, LastPart
  <2>. QED  BY <2>2 DEF g
<1> HIDE DEF f
<1>8. Complete(rx, f)
  BY <1>4, <1>6, <1>7 DEF Complete, PayloadOf
<1>. QED  BY <1>8 DEF f

(* ... the second one, with which the whole frame has been seen, ...       *)
LEMMA FrameGoodCrc ==
  ASSUME TypeInv, TypeInv', FrameInv, GoodCrc
  PROVE  /\ FrameInv'
         /\ frame' = FrameOf(frame[1], rxmsg) /\ Crc(Covered(rxmsg)) \in Seq(Byte)
         /\ Filled(rxmsg) /\ frame[1] \in {STX, STX_MAVLINK1} /\ rxmsg \in Received
<1> DEFINE x  == frame[1]
           b  == <<x>> \o BodyOf(rxmsg)
           lo == CrcLow(Covered(rxmsg))
           hi == CrcHigh(Covered(rxmsg))
<1>1. parse_state = "GOT_CRC1" /\ buf # <<>> /\ rxmsg \in Received /\ frame \in Seq(Byte)
  BY DEF GoodCrc, Parses, TypeInv, TypeOK
<1>2. c \in Byte
  BY <1>1, Taken
<1>3. /\ frame # <<>> /\ frame[1] \in {STX, STX_MAVLINK1}
      /\ rxmsg.checksum = Covered(rxmsg) /\ Filled(rxmsg) /\ lo \in Byte /\ frame = Append(b, lo)
      /\ in_mavlink1 <=> rxmsg.magic = STX_MAVLINK1
      /\ in_mavlink1 => rxmsg.incompat_flags = 0 /\ rxmsg.msgid[2] = 0 /\ rxmsg.msgid[3] = 0
  BY <1>1 DEF FrameInv, VersionInv, CrcInv, HeaderStates
<1>4. frame' = Append(frame, c) /\ c = hi /\ rxmsg' = rxmsg /\ in_mavlink1' = in_mavlink1
  BY <1>3 DEF GoodCrc
<1>5. Crc(Covered(rxmsg)) \in Seq(Byte) /\ Crc(Covered(rxmsg)) = <<lo, hi>> /\ hi \in Byte
  BY <1>2, <1>3, <1>4 DEF Crc
<1>6. x \in Byte
  BY <1>3, MarkerAssumption
<1>7. b \in Seq(Byte)
  <2> HIDE DEF x
  <2>1. BodyOf(rxmsg) \in Seq(Byte) /\ <<x>> \in Seq(Byte)
    <3>1. BodyOf(rxmsg) \in Seq(Byte)
      BY <1>1, <1>5, <1>6, FrameIs
    <3>. QED  BY <1>6, <3>1
  <2>. QED  BY <2>1, ConcatProperties
<1>8. frame' = FrameOf(x, rxmsg)
  <2> HIDE DEF b, lo, hi
  <2>. b \in Seq(Byte) /\ lo \in Byte /\ hi \in Byte
    BY <1>3, <1>5, <1>7
  <2>1. Append(Append(b, lo), hi) = b \o <<lo, hi>>
    BY AppendTwo
  <2>. QED  BY <1>3, <1>4, <1>5, <2>1 DEF FrameOf, b
<1>9. frame' # <<>> /\ frame'[1] = frame[1] /\ frame' \in Seq(Byte)
  BY <1>1, <1>2, <1>3, <1>4, AppendLast
<1>10. \/ /\ parse_state' = "SIGNATURE_WAIT" /\ signature_wait' = SIGNATURE_BLOCK_LEN
          /\ rxmsg.incompat_flags = IFLAG_SIGNED
       \/ parse_state' = "IDLE"
  BY DEF GoodCrc, Delivers
<1>11. VersionInv'
  BY <1>3, <1>4, <1>9, <1>10 DEF VersionInv
<1>12. SignatureInv'
  <2>1. <<>> \in Seq(Byte) /\ Len(<<>>) = 0 /\ frame' = frame' \o <<>>
    BY <1>9, EmptySeq, ConcatEmptySeq
  <2>2. SIGNATURE_BLOCK_LEN - SIGNATURE_BLOCK_LEN = 0
    BY MarkerAssumption
  <2>3. frame' = FrameOf(frame'[1], rxmsg')
    BY <1>4, <1>8, <1>9
  <2>4. CASE parse_state' = "SIGNATURE_WAIT"
    <3>1. /\ frame' = FrameOf(frame'[1], rxmsg') \o <<>>
          /\ Len(<<>>) = SIGNATURE_BLOCK_LEN - signature_wait'
      BY <1>10, <2>1, <2>2, <2>3, <2>4
    <3>2. Filled(rxmsg') /\ rxmsg'.incompat_flags = IFLAG_SIGNED /\ Crc(Covered(rxmsg')) \in Seq(Byte)
      BY <1>3, <1>4, <1>5, <1>10, <2>4
    <3>. QED  BY <2>1, <3>1, <3>2 DEF SignatureInv
  <2>. QED  BY <1>10, <2>4 DEF SignatureInv
<1>. QED  BY <1>1, <1>3, <1>5, <1>8, <1>10, <1>11, <1>12
          DEF FrameInv, HeaderInv, PayloadInv, CrcInv, HeaderStates

(* ... a byte of the signature, ...                                        *)
LEMMA FrameSignature ==
  ASSUME TypeInv, TypeInv', FrameInv, Signature
  PROVE  /\ FrameInv'
         /\ Crc(Covered(rxmsg)) \in Seq(Byte) /\ Filled(rxmsg) /\ rxmsg.incompat_flags = IFLAG_SIGNED
         /\ frame[1] \in {STX, STX_MAVLINK1} /\ rxmsg \in Received
         /\ \E signature \in Seq(Byte) : /\ frame' = FrameOf(frame[1], rxmsg) \o signature
                                         /\ Len(signature) = SIGNATURE_BLOCK_LEN - signature_wait'
<1>1. /\ parse_state = "SIGNATURE_WAIT" /\ buf # <<>> /\ rxmsg \in Received /\ frame \in Seq(Byte)
      /\ signature_wait \in 0..SIGNATURE_BLOCK_LEN
  BY DEF Signature, Parses, TypeInv, TypeOK
<1>2. c \in Byte
  BY <1>1, Taken
<1>3. /\ frame # <<>> /\ frame[1] \in {STX, STX_MAVLINK1}
      /\ in_mavlink1 <=> rxmsg.magic = STX_MAVLINK1
      /\ in_mavlink1 => rxmsg.incompat_flags = 0 /\ rxmsg.msgid[2] = 0 /\ rxmsg.msgid[3] = 0
      /\ Filled(rxmsg) /\ rxmsg.incompat_flags = IFLAG_SIGNED /\ Crc(Covered(rxmsg)) \in Seq(Byte)
  BY <1>1 DEF FrameInv, VersionInv, SignatureInv, HeaderStates
<1>4. PICK signature \in Seq(Byte) : /\ frame = FrameOf(frame[1], rxmsg) \o signature
                                     /\ Len(signature) = SIGNATURE_BLOCK_LEN - signature_wait
  BY <1>1 DEF FrameInv, SignatureInv
<1>5. /\ frame' = Append(frame, c) /\ rxmsg' = rxmsg /\ in_mavlink1' = in_mavlink1
      /\ signature_wait' = signature_wait - 1 /\ parse_state' \in {"IDLE", "SIGNATURE_WAIT"}
  BY <1>1 DEF Signature, Delivers
<1>6. frame' # <<>> /\ frame'[1] = frame[1]
  BY <1>1, <1>2, <1>3, <1>5, AppendLast
<1> DEFINE f == FrameOf(frame[1], rxmsg)
           t == Append(signature, c)
<1>7. f \in Seq(Byte)
  <2>1. frame[1] \in Byte
    BY <1>3, MarkerAssumption
  <2>. QED  BY <1>1, <1>3, <2>1, FrameIs
<1>8. frame' = f \o t /\ t \in Seq(Byte) /\ Len(t) = SIGNATURE_BLOCK_LEN - signature_wait'
  <2> DEFINE fr == frame
  <2>0. fr = f \o signature /\ frame' = Append(fr, c)
    BY <1>4, <1>5
  <2> HIDE DEF f, fr
  <2>1. Append(f \o signature, c) = (f \o signature) \o <<c>> /\ t = signature \o <<c>> /\ <<c>> \in Seq(Byte)
    BY <1>2, <1>7, AppendIsConcat, ConcatProperties
  <2>2. (f \o signature) \o <<c>> = f \o (signature \o <<c>>)
    BY <1>7, <2>1, ConcatAssociative
  <2>3. t \in Seq(Byte) /\ Len(t) = Len(signature) + 1
    BY <1>2, AppendProperties
  <2> HIDE DEF t
  <2>4. Len(signature) + 1 = SIGNATURE_BLOCK_LEN - (signature_wait - 1)
    BY <1>1, <1>4, MarkerAssumption
  <2>. QED  BY <1>5, <2>0, <2>1, <2>2, <2>3, <2>4
<1> HIDE DEF t
<1>9. VersionInv'
  BY <1>3, <1>5, <1>6 DEF VersionInv, HeaderStates
<1>10. SignatureInv'
  <2>1. frame' = FrameOf(frame'[1], rxmsg') \o t
    BY <1>5, <1>6, <1>8
  <2>2. Filled(rxmsg') /\ rxmsg'.incompat_flags = IFLAG_SIGNED /\ Crc(Covered(rxmsg')) \in Seq(Byte)
    BY <1>3, <1>5
  <2>. QED  BY <1>8, <2>1, <2>2 DEF SignatureInv
<1>11. \E sig \in Seq(Byte) : frame' = FrameOf(frame[1], rxmsg) \o sig
                              /\ Len(sig) = SIGNATURE_BLOCK_LEN - signature_wait'
  BY <1>8
<1>. QED  BY <1>1, <1>3, <1>5, <1>9, <1>10, <1>11
          DEF FrameInv, HeaderInv, PayloadInv, CrcInv, HeaderStates

(* ... and therefore every step.                                           *)
LEMMA FrameStep ==
  ASSUME TypeInv, TypeInv', FrameInv, [Next]_vars
  PROVE  FrameInv'
<1>1. ASSUME UNCHANGED <<status, rxmsg, frame>> PROVE FrameInv'
  BY <1>1 DEF FrameInv, VersionInv, HeaderInv, PayloadInv, CrcInv, SignatureInv, status
<1>2. ASSUME parse_state' = "IDLE" PROVE FrameInv'
  BY <1>2 DEF FrameInv, VersionInv, HeaderInv, PayloadInv, CrcInv, SignatureInv, HeaderStates
<1>3. CASE UNCHANGED vars
  BY <1>1, <1>3 DEF vars
<1>4. ASSUME NEW r \in {"main", "download"}, recvfrom(r) PROVE FrameInv'
  BY <1>1, <1>4 DEF recvfrom, Receives
<1>5. CASE Skip
  BY <1>1, <1>5 DEF Skip
<1>6. CASE UnknownFlags
  BY <1>2, <1>6 DEF UnknownFlags
<1>7. CASE Length \/ IncompatFlags
  <2>1. parse_state' \in HeaderStates
    BY <1>7 DEF Length, IncompatFlags, TakesHeader, Takes, HeaderStates
  <2>. QED  BY <1>7, <2>1, HeaderStep
<1>8. CASE HeaderByte
  BY <1>8, HeaderStep, LastHeaderByte
<1>9. CASE Start \/ BadCrc \/ PayloadByte \/ FirstCrc \/ GoodCrc \/ Signature
  BY <1>9, FrameStart, FrameBadCrc, FramePayload, FrameFirstCrc, FrameGoodCrc, FrameSignature
<1>. QED  BY <1>3, <1>4, <1>5, <1>6, <1>7, <1>8, <1>9 DEF Next, mavlink_parse_char

(* The frame under way is known in every state.                            *)
LEMMA FrameInvariant == Spec => []FrameInv
<1>1. Init => FrameInv
  BY DEF Init, FrameInv, VersionInv, HeaderInv, PayloadInv, CrcInv, SignatureInv, HeaderStates
<1>2. TypeInv /\ TypeInv' /\ FrameInv /\ [Next]_vars => FrameInv'
  BY FrameStep
<1>. QED  BY <1>1, <1>2, TypeInvariant, PTL DEF Spec

(* What is delivered, and with which bytes behind it.                      *)
LEMMA Delivery ==
  ASSUME TypeInv, TypeInv', FrameInv, [Next]_vars, Len(delivered') > Len(delivered)
  PROVE  /\ delivered' = Append(delivered, rxmsg) /\ rxmsg \in Received /\ Filled(rxmsg)
         /\ buf # <<>> /\ buf' = Rest /\ parse_state' = "IDLE" /\ UNCHANGED datagram
         /\ parse_state \in {"GOT_CRC1", "SIGNATURE_WAIT"} /\ frame' = Append(frame, c)
         /\ frame[1] \in {STX, STX_MAVLINK1} /\ Crc(Covered(rxmsg)) \in Seq(Byte)
         /\ \E signature \in Seq(Byte) : /\ frame' = FrameOf(frame[1], rxmsg) \o signature
                                         /\ Len(signature) = SignatureLen(rxmsg)
<1>1. delivered \in Seq(Received) /\ delivered' \in Seq(Received)
  BY DEF TypeInv, TypeOK
<1>2. Len(delivered) \in Nat /\ Len(<<>>) = 0
  BY <1>1, LenProperties
<1>3. delivered' # delivered /\ delivered' # <<>>
  BY <1>2
<1>4. ~UNCHANGED vars /\ \A r \in {"main", "download"} : ~recvfrom(r)
  BY <1>3 DEF vars, recvfrom, Receives
<1>5. mavlink_parse_char
  BY <1>4 DEF Next
<1>6. ~Skip /\ ~Start /\ ~Length /\ ~IncompatFlags /\ ~UnknownFlags /\ ~HeaderByte /\ ~PayloadByte
      /\ ~FirstCrc /\ ~BadCrc
  BY <1>3 DEF Skip, Start, Length, IncompatFlags, UnknownFlags, HeaderByte, PayloadByte, FirstCrc,
              BadCrc, TakesHeader, Takes, Incomplete
<1>7. CASE GoodCrc
  <2>1. rxmsg.incompat_flags # IFLAG_SIGNED /\ Delivers /\ parse_state = "GOT_CRC1" /\ buf # <<>>
        /\ UNCHANGED datagram /\ frame' = Append(frame, c)
    BY <1>3, <1>7 DEF GoodCrc, Parses
  <2>2. frame' = FrameOf(frame[1], rxmsg) /\ Crc(Covered(rxmsg)) \in Seq(Byte)
        /\ Filled(rxmsg) /\ frame[1] \in {STX, STX_MAVLINK1} /\ rxmsg \in Received
    BY <1>7, FrameGoodCrc
  <2>3. SignatureLen(rxmsg) = 0 /\ Len(<<>>) = 0 /\ <<>> \in Seq(Byte)
    BY <2>1, EmptySeq DEF SignatureLen
  <2>4. frame' = FrameOf(frame[1], rxmsg) \o <<>>
    <3>1. frame' \in Seq(Byte)
      BY DEF TypeInv, TypeOK
    <3>2. frame' \o <<>> = frame'
      BY <3>1, ConcatEmptySeq
    <3>. QED  BY <2>2, <3>2
  <2>5. \E signature \in Seq(Byte) : /\ frame' = FrameOf(frame[1], rxmsg) \o signature
                                     /\ Len(signature) = SignatureLen(rxmsg)
    BY <2>3, <2>4
  <2>. QED  BY <2>1, <2>2, <2>5 DEF Delivers
<1>8. CASE Signature
  <2>1. signature_wait' = 0 /\ Delivers /\ parse_state = "SIGNATURE_WAIT" /\ buf # <<>>
        /\ UNCHANGED datagram /\ frame' = Append(frame, c)
    BY <1>3, <1>8 DEF Signature, Parses
  <2>2. Crc(Covered(rxmsg)) \in Seq(Byte) /\ rxmsg.incompat_flags = IFLAG_SIGNED
        /\ Filled(rxmsg) /\ frame[1] \in {STX, STX_MAVLINK1} /\ rxmsg \in Received
        /\ \E signature \in Seq(Byte) : /\ frame' = FrameOf(frame[1], rxmsg) \o signature
                                        /\ Len(signature) = SIGNATURE_BLOCK_LEN - signature_wait'
    BY <1>8, FrameSignature
  <2>3. SignatureLen(rxmsg) = SIGNATURE_BLOCK_LEN - signature_wait'
    BY <2>1, <2>2, MarkerAssumption DEF SignatureLen
  <2>. QED  BY <2>1, <2>2, <2>3 DEF Delivers
<1>. QED  BY <1>5, <1>6, <1>7, <1>8 DEF mavlink_parse_char

(* mavlink_frame_char_buffer: a message is delivered only when the bytes   *)
(* since the last marker are its frame, whatever the bytes, the datagrams  *)
(* they come in, the two sockets' turns and the table of messages.         *)
THEOREM DeliveredIsAFrameCorrect == Spec => DeliveredIsAFrame
<1>1. TypeInv /\ TypeInv' /\ FrameInv /\ [Next]_vars =>
        (Len(delivered') > Len(delivered) => Complete(delivered'[Len(delivered')], frame'))
  <2> SUFFICES ASSUME TypeInv, TypeInv', FrameInv, [Next]_vars, Len(delivered') > Len(delivered)
               PROVE  Complete(delivered'[Len(delivered')], frame')
    OBVIOUS
  <2>1. /\ delivered' = Append(delivered, rxmsg) /\ rxmsg \in Received
        /\ frame[1] \in {STX, STX_MAVLINK1} /\ Crc(Covered(rxmsg)) \in Seq(Byte)
        /\ \E signature \in Seq(Byte) : /\ frame' = FrameOf(frame[1], rxmsg) \o signature
                                        /\ Len(signature) = SignatureLen(rxmsg)
    BY Delivery
  <2>2. Complete(rxmsg, frame')
    BY <2>1, CompleteIs
  <2>3. delivered'[Len(delivered')] = rxmsg
    <3>1. delivered \in Seq(Received)
      BY DEF TypeInv, TypeOK
    <3>. QED  BY <2>1, <3>1, AppendProperties
  <2>. QED  BY <2>2, <2>3
<1>2. TypeInv /\ TypeInv' /\ FrameInv /\ [Next]_vars =>
        [Len(delivered') > Len(delivered) => Complete(delivered'[Len(delivered')], frame')]_vars
  BY <1>1
<1>. QED  BY <1>2, TypeInvariant, FrameInvariant, PTL DEF Spec, DeliveredIsAFrame
-----------------------------------------------------------------------------
(* The parser and the sender agree.                                        *)

(* (Hypotheses by name: shown more than three sequences, the provers       *)
(* regroup them without end.)                                              *)
Bytes(s) == s \in Seq(Byte)
Three(s, t, u) == Bytes(s) /\ Bytes(t) /\ Bytes(u)
Regroups(s, t, u) == (s \o t) \o u = s \o (t \o u)
LEMMA Associative ==
  ASSUME NEW s, NEW t, NEW u, Three(s, t, u)
  PROVE  Regroups(s, t, u)
<1>. s \in Seq(Byte) /\ t \in Seq(Byte) /\ u \in Seq(Byte)
  BY DEF Three, Bytes
<1>. QED  BY ConcatAssociative DEF Regroups

(* A sequence that is split in two ways.                                   *)
TwoWays(s, t, u, v) == Three(s, t, u) /\ Bytes(v) /\ s \o t = u \o v
LEMMA Overlap ==
  ASSUME NEW s, NEW t, NEW u, NEW v, TwoWays(s, t, u, v)
  PROVE  /\ Len(s) + Len(t) = Len(u) + Len(v)
         /\ Len(s) = Len(u) => s = u /\ t = v
         /\ Len(s) < Len(u) /\ t # <<>> => t[1] = u[Len(s) + 1]
<1> DEFINE w == s \o t
<1>. s \in Seq(Byte) /\ t \in Seq(Byte) /\ u \in Seq(Byte) /\ v \in Seq(Byte) /\ s \o t = u \o v
  BY DEF TwoWays, Three, Bytes
<1>1. Len(s) \in Nat /\ Len(t) \in Nat /\ Len(u) \in Nat /\ Len(v) \in Nat
  BY LenProperties
<1>2. /\ Len(w) = Len(s) + Len(t)
      /\ \A k \in 1..(Len(s) + Len(t)) : w[k] = IF k <= Len(s) THEN s[k] ELSE t[k - Len(s)]
  BY ConcatProperties
<1>3. /\ Len(u \o v) = Len(u) + Len(v)
      /\ \A k \in 1..(Len(u) + Len(v)) : (u \o v)[k] = IF k <= Len(u) THEN u[k] ELSE v[k - Len(u)]
  BY ConcatProperties
<1>4. w = u \o v
  OBVIOUS
<1> HIDE DEF w
<1>5. /\ Len(w) = Len(u) + Len(v)
      /\ \A k \in 1..(Len(u) + Len(v)) : w[k] = IF k <= Len(u) THEN u[k] ELSE v[k - Len(u)]
  BY <1>3, <1>4
<1>6. Len(s) + Len(t) = Len(u) + Len(v)
  BY <1>2, <1>5
<1>7. ASSUME Len(s) = Len(u) PROVE s = u /\ t = v
  <2>1. Len(t) = Len(v)
    BY <1>1, <1>6, <1>7
  <2>2. ASSUME NEW k \in 1..Len(s) PROVE s[k] = u[k]
    BY <1>1, <1>2, <1>5, <1>6, <1>7
  <2>3. ASSUME NEW k \in 1..Len(t) PROVE t[k] = v[k]
    <3>1. k + Len(s) \in 1..(Len(s) + Len(t)) /\ ~(k + Len(s) <= Len(s)) /\ k + Len(s) - Len(s) = k
      BY <1>1
    <3>2. w[k + Len(s)] = t[k]
      BY <1>2, <3>1
    <3>3. w[k + Len(s)] = v[k]
      BY <1>5, <1>6, <1>7, <3>1
    <3>. QED  BY <3>2, <3>3
  <2>4. s = u
    BY <1>7, <2>2, SeqEqual
  <2>5. t = v
    BY <2>1, <2>3, SeqEqual
  <2>. QED  BY <2>4, <2>5
<1>8. ASSUME Len(s) < Len(u), t # <<>> PROVE t[1] = u[Len(s) + 1]
  <2>1. Len(t) > 0
    BY <1>1, <1>8, EmptySeq
  <2>2. /\ Len(s) + 1 \in 1..(Len(s) + Len(t)) /\ ~(Len(s) + 1 <= Len(s)) /\ Len(s) + 1 - Len(s) = 1
        /\ Len(s) + 1 <= Len(u)
    BY <1>1, <1>8, <2>1
  <2>3. w[Len(s) + 1] = t[1]
    <3> DEFINE i == Len(s) + 1
    <3>1. i \in 1..(Len(s) + Len(t)) /\ ~(i <= Len(s)) /\ i - Len(s) = 1
      BY <2>2
    <3> HIDE DEF i
    <3>2. w[i] = t[i - Len(s)]
      BY <1>2, <3>1
    <3>. QED  BY <3>1, <3>2 DEF i
  <2>4. w[Len(s) + 1] = u[Len(s) + 1]
    BY <1>5, <1>6, <2>2
  <2>. QED  BY <2>3, <2>4
<1>. QED  BY <1>6, <1>7, <1>8

(* Only zeros are trimmed.                                                 *)
LEMMA TrimmedIs ==
  ASSUME NEW payload \in Seq(Byte)
  PROVE  /\ TrimmedLen(payload) \in 0..Len(payload)
         /\ \A k \in (TrimmedLen(payload) + 1)..Len(payload) : payload[k] = 0
<1> DEFINE N == Len(payload)
           P(n) == /\ n = 1 \/ payload[n] # 0
                   /\ \A k \in (n + 1)..N : payload[k] = 0
<1>1. N \in Nat
  BY LenProperties
<1>2. CASE payload = <<>>
  BY <1>2, EmptySeq DEF TrimmedLen
<1>3. CASE payload # <<>>
  <2>1. N # 0
    BY <1>3, EmptySeq
  <2> DEFINE T == {n \in Nat : n \in 1..N /\ \A k \in (n + 1)..N : payload[k] = 0}
  <2> HIDE DEF N
  <2>2. N \in T
    BY <1>1, <2>1
  <2>3. PICK n \in T : \A i \in T : n <= i
    <3> HIDE DEF T
    <3>1. T # {}
      BY <2>2
    <3>2. T \in SUBSET Nat
      BY DEF T
    <3>. QED  BY <3>1, <3>2, LeastElement
  <2>4. n \in 1..N /\ P(n)
    <3>1. n \in 1..N /\ \A k \in (n + 1)..N : payload[k] = 0
      BY <2>3
    <3>2. ASSUME n # 1, payload[n] = 0 PROVE FALSE
      <4>1. n - 1 \in 1..N /\ n - 1 \in Nat
        BY <1>1, <3>1, <3>2
      <4>2. \A k \in ((n - 1) + 1)..N : payload[k] = 0
        BY <1>1, <3>1, <3>2
      <4>3. n - 1 \in T
        BY <4>1, <4>2
      <4>4. n <= n - 1
        BY <2>3, <4>3
      <4>. QED  BY <3>1, <4>4
    <3>. QED  BY <3>1, <3>2
  <2>5. TrimmedLen(payload) = CHOOSE i \in 1..N : P(i)
    BY <1>3 DEF TrimmedLen, N
  <2> HIDE DEF P
  <2>6. TrimmedLen(payload) \in 1..N /\ P(TrimmedLen(payload))
    BY <2>4, <2>5, Zenon
  <2>7. TrimmedLen(payload) \in 0..N /\ \A k \in (TrimmedLen(payload) + 1)..N : payload[k] = 0
    BY <1>1, <2>6 DEF P
  <2>. QED  BY <2>7 DEF N
<1>. QED  BY <1>2, <1>3

(* The parts of a frame as it is sent.                                     *)
SentPayload(m) ==
  IF m.magic = STX_MAVLINK1 THEN m.payload ELSE SubSeq(m.payload, 1, TrimmedLen(m.payload))
SentHeader(m) == <<Len(SentPayload(m))>> \o Header(m)
SentBody(m) == SentHeader(m) \o SentPayload(m)
SentCrc(m) == Crc(SentBody(m) \o <<m.crc_extra>>)
SentSignature(m) == IF m.magic = STX_MAVLINK1 THEN <<>> ELSE [k \in 1..SignatureLen(m) |-> 0]

(* The header, as the parser would hold it.                                *)
Fields(m) ==
  [magic |-> m.magic, len |-> Len(SentPayload(m)), incompat_flags |-> m.incompat_flags,
   compat_flags |-> m.compat_flags, seq |-> m.seq, sysid |-> m.sysid, compid |-> m.compid,
   msgid |-> m.msgid]

(* The fields of a message to send are bytes.                              *)
LEMMA MessageIs ==
  ASSUME NEW m \in Messages
  PROVE  /\ m.magic \in {STX, STX_MAVLINK1} /\ m.magic \in Byte
         /\ m.incompat_flags \in {0, IFLAG_SIGNED} /\ m.incompat_flags \in Byte
         /\ m.compat_flags \in Byte /\ m.seq \in Byte /\ m.sysid \in Byte /\ m.compid \in Byte
         /\ m.msgid \in Byte \X Byte \X Byte
         /\ m.crc_extra \in Byte /\ m.crc_extra = DeclaredExtra(m.msgid)
         /\ m.payload \in Seq(Byte) /\ Len(m.payload) \in 0..MAX_PAYLOAD_LEN
<1>1. /\ m \in [magic : {STX, STX_MAVLINK1}, incompat_flags : {0, IFLAG_SIGNED}, compat_flags : Byte,
                seq : Byte, sysid : Byte, compid : Byte, msgid : Byte \X Byte \X Byte,
                crc_extra : Byte, payload : SomeBytes]
      /\ m.crc_extra = DeclaredExtra(m.msgid) /\ Len(m.payload) <= MAX_PAYLOAD_LEN
  BY MessagesAssumption
<1>2. /\ m.magic \in {STX, STX_MAVLINK1} /\ m.incompat_flags \in {0, IFLAG_SIGNED}
      /\ m.compat_flags \in Byte /\ m.seq \in Byte /\ m.sysid \in Byte /\ m.compid \in Byte
      /\ m.msgid \in Byte \X Byte \X Byte /\ m.crc_extra \in Byte /\ m.payload \in Seq(Byte)
  BY <1>1 DEF SomeBytes
<1>3. Len(m.payload) \in 0..MAX_PAYLOAD_LEN
  <2>1. Len(m.payload) \in Nat
    BY <1>2, LenProperties
  <2>. QED  BY <1>1, <2>1, MarkerAssumption
<1>4. STX \in Byte /\ STX_MAVLINK1 \in Byte /\ IFLAG_SIGNED \in Byte /\ 0 \in Byte
  BY MarkerAssumption DEF Byte
<1>. QED  BY <1>1, <1>2, <1>3, <1>4

(* What is sent of a payload is a beginning of it.                         *)
LEMMA SentPayloadIs ==
  ASSUME NEW m \in Messages
  PROVE  /\ SentPayload(m) \in Seq(Byte) /\ Len(SentPayload(m)) \in 0..Len(m.payload)
         /\ Len(SentPayload(m)) \in Byte
         /\ \A k \in 1..Len(SentPayload(m)) : SentPayload(m)[k] = m.payload[k]
         /\ \A k \in (Len(SentPayload(m)) + 1)..Len(m.payload) : m.payload[k] = 0
<1> DEFINE q == m.payload
           n == TrimmedLen(q)
           p == SentPayload(m)
<1>1. q \in Seq(Byte) /\ Len(q) \in 0..MAX_PAYLOAD_LEN /\ MAX_PAYLOAD_LEN \in Nat
  BY MessageIs, MarkerAssumption
<1>2. p = IF m.magic = STX_MAVLINK1 THEN q ELSE SubSeq(q, 1, n)
  BY DEF SentPayload
<1> HIDE DEF q, n, p
<1>3. n \in 0..Len(q) /\ \A k \in (n + 1)..Len(q) : q[k] = 0
  BY <1>1, TrimmedIs DEF n
<1>4. SubSeq(q, 1, n) \in Seq(Byte) /\ Len(SubSeq(q, 1, n)) = n /\ \A k \in 1..n : SubSeq(q, 1, n)[k] = q[k]
  BY <1>1, <1>3, Beginning
<1>5. /\ p \in Seq(Byte) /\ Len(p) \in 0..Len(q)
      /\ \A k \in 1..Len(p) : p[k] = q[k]
      /\ \A k \in (Len(p) + 1)..Len(q) : q[k] = 0
  <2>1. CASE m.magic = STX_MAVLINK1
    BY <1>1, <1>2, <2>1
  <2>2. CASE m.magic # STX_MAVLINK1
    <3>1. p \in Seq(Byte) /\ Len(p) = n /\ \A k \in 1..n : p[k] = q[k]
      BY <1>2, <1>4, <2>2
    <3>. QED  BY <1>3, <3>1
  <2>. QED  BY <2>1, <2>2
<1>6. Len(p) \in Byte
  BY <1>1, <1>5 DEF Byte
<1>. QED  BY <1>5, <1>6 DEF p, q

(* The header of a message to send.                                        *)
LEMMA FieldsIs ==
  ASSUME NEW m \in Messages
  PROVE  /\ FieldsAreBytes(Fields(m)) /\ HeaderOf(Fields(m)) = SentHeader(m)
         /\ SentHeader(m) \in Seq(Byte) /\ SentBody(m) \in Seq(Byte)
<1> DEFINE l == Len(SentPayload(m))
           f == Fields(m)
<1>1. l \in Byte /\ SentPayload(m) \in Seq(Byte)
  BY SentPayloadIs
<1>2. /\ m.incompat_flags \in Byte /\ m.compat_flags \in Byte /\ m.seq \in Byte /\ m.sysid \in Byte
      /\ m.compid \in Byte /\ m.msgid \in Byte \X Byte \X Byte
  BY MessageIs
<1> HIDE DEF l
<1>3. /\ f.magic = m.magic /\ f.len = l /\ f.incompat_flags = m.incompat_flags
      /\ f.compat_flags = m.compat_flags /\ f.seq = m.seq /\ f.sysid = m.sysid /\ f.compid = m.compid
      /\ f.msgid = m.msgid
  BY DEF Fields, l
<1> HIDE DEF f
<1>4. FieldsAreBytes(f)
  BY <1>1, <1>2, <1>3 DEF FieldsAreBytes
<1>5. HeaderOf(f) = SentHeader(m)
  <2>1. Header(f) = Header(m)
    BY <1>3 DEF Header
  <2>. QED  BY <1>3, <2>1 DEF HeaderOf, SentHeader, l
<1>6. SentHeader(m) \in Seq(Byte)
  BY <1>4, <1>5, HeaderIs
<1>7. SentBody(m) \in Seq(Byte)
  BY <1>1, <1>6, ConcatProperties DEF SentBody
<1>. QED  BY <1>4, <1>5, <1>6, <1>7 DEF f

(* The checksum is two bytes, the signature as long as the flag says.      *)
LEMMA SentSplits ==
  ASSUME NEW m \in Messages
  PROVE  /\ SentCrc(m) \in Seq(Byte)
         /\ SentSignature(m) \in Seq(Byte)
         /\ Len(SentSignature(m)) = IF m.magic = STX_MAVLINK1 THEN 0 ELSE SignatureLen(m)
         /\ Sent(m) = ((<<m.magic>> \o SentBody(m)) \o SentCrc(m)) \o SentSignature(m)
<1> DEFINE b   == SentBody(m)
           t   == <<m.magic>> \o b
           lo  == CrcLow(b \o <<m.crc_extra>>)
           hi  == CrcHigh(b \o <<m.crc_extra>>)
           k   == SentCrc(m)
           sig == SentSignature(m)
           S   == Byte \cup {lo, hi}
<1>1. m.magic \in Byte /\ b \in Seq(Byte) /\ k = <<lo, hi>>
  BY MessageIs, FieldsIs DEF SentCrc, Crc
<1>2. sig \in Seq(Byte) /\ Len(sig) = IF m.magic = STX_MAVLINK1 THEN 0 ELSE SignatureLen(m)
  <2>1. CASE m.magic = STX_MAVLINK1
    BY <2>1, EmptySeq DEF SentSignature
  <2>2. CASE m.magic # STX_MAVLINK1
    <3> DEFINE n == SignatureLen(m)
    <3>1. n \in Nat /\ 0 \in Byte
      BY MarkerAssumption DEF SignatureLen, Byte
    <3>2. sig = [i \in 1..n |-> 0]
      BY <2>2 DEF SentSignature
    <3> HIDE DEF n, sig
    <3>3. sig \in [1..n -> Byte] /\ DOMAIN sig = 1..n
      BY <3>1, <3>2
    <3>4. sig \in Seq(Byte) /\ Len(sig) = n
      BY <3>1, <3>3
    <3>. QED  BY <2>2, <3>4 DEF n
  <2>. QED  BY <2>1, <2>2
<1> HIDE DEF b, lo, hi, sig, k
<1>3. <<m.magic>> \in Seq(Byte) /\ t \in Seq(Byte)
  BY <1>1, ConcatProperties
<1>4. Framed(m, SentPayload(m), m.crc_extra) = t \o k
  BY DEF Framed, Body, SentCrc, SentBody, SentHeader, b, k
<1> HIDE DEF t
<1>5. /\ t \in Seq(S) /\ sig \in Seq(S) /\ <<lo, hi>> \in Seq(S)
      /\ Len(<<lo, hi>>) = 2 /\ <<lo, hi>>[1] = lo /\ <<lo, hi>>[2] = hi
  <2>1. Byte \subseteq S /\ lo \in S /\ hi \in S
    OBVIOUS
  <2> HIDE DEF S
  <2>2. t \in Seq(S) /\ sig \in Seq(S)
    BY <1>2, <1>3, <2>1, SeqMonotonic
  <2>. QED  BY <2>1, <2>2
<1> HIDE DEF S
<1> DEFINE g == t \o k
<1>6. /\ g \in Seq(S) /\ Len(g) = Len(t) + 2 /\ g[Len(t) + 1] = lo /\ g[Len(t) + 2] = hi /\ Len(t) \in Nat
  <2>1. Len(t) \in Nat
    BY <1>3, LenProperties
  <2>2. /\ t \o k \in Seq(S) /\ Len(t \o k) = Len(t) + Len(k)
        /\ \A i \in 1..(Len(t) + Len(k)) : (t \o k)[i] = IF i <= Len(t) THEN t[i] ELSE k[i - Len(t)]
    BY <1>1, <1>5, ConcatProperties
  <2>3. Len(k) = 2 /\ k[1] = lo /\ k[2] = hi
    BY <1>1, <1>5
  <2> HIDE DEF g
  <2>4. g = t \o k
    BY DEF g
  <2>5. /\ Len(t) + 1 \in 1..(Len(t) + 2) /\ ~(Len(t) + 1 <= Len(t)) /\ Len(t) + 1 - Len(t) = 1
        /\ Len(t) + 2 \in 1..(Len(t) + 2) /\ ~(Len(t) + 2 <= Len(t)) /\ Len(t) + 2 - Len(t) = 2
    BY <2>1
  <2>. QED  BY <2>1, <2>2, <2>3, <2>4, <2>5
<1>7. Sent(m) = g \o sig
  <2>1. CASE m.magic = STX_MAVLINK1
    <3>1. Sent(m) = g /\ sig = <<>>
      BY <1>4, <2>1 DEF Sent, SentPayload, SentSignature, sig
    <3> HIDE DEF g
    <3>. QED  BY <1>6, <3>1, ConcatEmptySeq
  <2>2. CASE m.magic # STX_MAVLINK1
    BY <1>4, <2>2 DEF Sent, SentPayload, SentSignature, sig
  <2>. QED  BY <2>1, <2>2
<1> HIDE DEF g
<1>8. lo \in Byte /\ hi \in Byte
  <2>1. Sent(m) \in Seq(Byte)
    BY DatagramsAssumption DEF SomeBytes
  <2>2. /\ Len(g \o sig) = Len(g) + Len(sig) /\ Len(sig) \in Nat
        /\ \A i \in 1..(Len(g) + Len(sig)) : (g \o sig)[i] = IF i <= Len(g) THEN g[i] ELSE sig[i - Len(g)]
    <3>1. g \in Seq(S) /\ sig \in Seq(S)
      BY <1>5, <1>6
    <3>2. Len(sig) \in Nat
      BY <1>2, LenProperties
    <3>. QED  BY <3>1, <3>2, ConcatProperties
  <2> DEFINE w == Sent(m)
  <2>3. w = g \o sig /\ w \in Seq(Byte)
    BY <1>7, <2>1
  <2> HIDE DEF w
  <2>4. /\ Len(t) + 1 \in 1..Len(w) /\ Len(t) + 2 \in 1..Len(w)
        /\ w[Len(t) + 1] = lo /\ w[Len(t) + 2] = hi
    BY <1>6, <2>2, <2>3
  <2>5. w[Len(t) + 1] \in Byte /\ w[Len(t) + 2] \in Byte
    BY <2>3, <2>4, ElementOfSeq
  <2>. QED  BY <2>4, <2>5
<1>9. k \in Seq(Byte)
  BY <1>1, <1>8
<1>. QED  BY <1>2, <1>7, <1>9 DEF g, t, k, sig, b

AreBytes(a, h, p, k, g, r) == Bytes(a) /\ Bytes(h) /\ Bytes(p) /\ Bytes(k) /\ Bytes(g) /\ Bytes(r)
Built(a, h, p, k, g, r) == (((a \o (h \o p)) \o k) \o g) \o r
Peeled(a, h, p, k, g, r) == a \o (h \o (p \o ((k \o g) \o r)))

(* The parts of a frame, built up by the sender, peeled off by the parser. *)
LEMMA Regroup ==
  ASSUME NEW a, NEW h, NEW p, NEW k, NEW g, NEW r, AreBytes(a, h, p, k, g, r)
  PROVE  Built(a, h, p, k, g, r) = Peeled(a, h, p, k, g, r)
<1>0. \A s, t : Bytes(s) /\ Bytes(t) => Bytes(s \o t)
  BY ConcatProperties DEF Bytes
<1>. Bytes(a) /\ Bytes(h) /\ Bytes(p) /\ Bytes(k) /\ Bytes(g) /\ Bytes(r)
  BY DEF AreBytes
<1> DEFINE b == h \o p
           t == a \o b
           e == k \o g
           z == e \o r
<1>1. Bytes(b) /\ Bytes(e)
  BY <1>0
<1> HIDE DEF b, e
<1>2. Bytes(t) /\ Bytes(z)
  BY <1>0, <1>1
<1>3. b \o z = h \o (p \o z)
  <2> HIDE DEF z
  <2>1. (h \o p) \o z = h \o (p \o z)
    <3>. h \in Seq(Byte) /\ p \in Seq(Byte) /\ z \in Seq(Byte)
      BY <1>2 DEF Bytes
    <3>. QED  BY ConcatAssociative
  <2>. QED  BY <2>1 DEF b
<1>4. t \o z = a \o (b \o z)
  <2> HIDE DEF z
  <2>1. (a \o b) \o z = a \o (b \o z)
    <3>. a \in Seq(Byte) /\ b \in Seq(Byte) /\ z \in Seq(Byte)
      BY <1>1, <1>2 DEF Bytes
    <3>. QED  BY ConcatAssociative
  <2>. QED  BY <2>1
<1>5. (t \o e) \o r = t \o z
  <2> HIDE DEF t
  <2>1. (t \o e) \o r = t \o (e \o r)
    <3>. t \in Seq(Byte) /\ e \in Seq(Byte) /\ r \in Seq(Byte)
      BY <1>1, <1>2 DEF Bytes
    <3>. QED  BY ConcatAssociative
  <2>. QED  BY <2>1
<1>6. (t \o k) \o g = t \o e
  <2> HIDE DEF t
  <2>1. (t \o k) \o g = t \o (k \o g)
    <3>. t \in Seq(Byte) /\ k \in Seq(Byte) /\ g \in Seq(Byte)
      BY <1>2 DEF Bytes
    <3>. QED  BY ConcatAssociative
  <2>. QED  BY <2>1 DEF e
<1> HIDE DEF t, z
<1>7. ((t \o k) \o g) \o r = a \o (h \o (p \o z))
  BY <1>3, <1>4, <1>5, <1>6
<1>. QED  BY <1>7 DEF t, z, b, e, Built, Peeled

(* What follows the payload, when other frames follow.                     *)
Behind(m, r) == (SentCrc(m) \o SentSignature(m)) \o r

(* A frame and what comes behind it, as the parser meets them.             *)
LEMMA SentThen ==
  ASSUME NEW m \in Messages, NEW r \in Seq(Byte)
  PROVE  /\ Sent(m) \o r = <<m.magic>> \o (SentHeader(m) \o (SentPayload(m) \o Behind(m, r)))
         /\ Behind(m, r) \in Seq(Byte) /\ SentPayload(m) \o Behind(m, r) \in Seq(Byte)
         /\ SentHeader(m) \o (SentPayload(m) \o Behind(m, r)) \in Seq(Byte)
         /\ Len(Behind(m, r)) = 2 + Len(SentSignature(m)) + Len(r)
<1> DEFINE a == <<m.magic>>
           h == SentHeader(m)
           p == SentPayload(m)
           k == SentCrc(m)
           g == SentSignature(m)
<1>1. /\ a \in Seq(Byte) /\ h \in Seq(Byte) /\ p \in Seq(Byte) /\ k \in Seq(Byte) /\ g \in Seq(Byte)
  <2>1. m.magic \in Byte
    BY MessageIs
  <2>2. h \in Seq(Byte)
    BY FieldsIs
  <2>3. p \in Seq(Byte)
    BY SentPayloadIs
  <2>4. k \in Seq(Byte) /\ g \in Seq(Byte)
    BY SentSplits
  <2>. QED  BY <2>1, <2>2, <2>3, <2>4
<1>2. Len(k) = 2
  BY DEF SentCrc, Crc
<1>3. Sent(m) = ((a \o (h \o p)) \o k) \o g /\ Behind(m, r) = (k \o g) \o r
  BY SentSplits DEF SentBody, Behind
<1> HIDE DEF a, h, p, k, g
<1>4. /\ k \o g \in Seq(Byte) /\ Len(k \o g) = Len(k) + Len(g)
  BY <1>1, ConcatProperties
<1>5. /\ (k \o g) \o r \in Seq(Byte) /\ Len((k \o g) \o r) = Len(k \o g) + Len(r)
  BY <1>4, ConcatProperties
<1>6. p \o ((k \o g) \o r) \in Seq(Byte)
  BY <1>1, <1>5, ConcatProperties
<1>7. h \o (p \o ((k \o g) \o r)) \in Seq(Byte)
  BY <1>1, <1>6, ConcatProperties
<1>8. (((a \o (h \o p)) \o k) \o g) \o r = a \o (h \o (p \o ((k \o g) \o r)))
  <2>1. AreBytes(a, h, p, k, g, r)
    BY <1>1 DEF Bytes, AreBytes
  <2>2. Built(a, h, p, k, g, r) = Peeled(a, h, p, k, g, r)
    BY <2>1, Regroup
  <2>. QED  BY <2>2 DEF Built, Peeled
<1>9. Len((k \o g) \o r) = 2 + Len(g) + Len(r)
  BY <1>2, <1>4, <1>5
<1>. QED  BY <1>3, <1>5, <1>6, <1>7, <1>8, <1>9 DEF a, h, p, k, g

(* The header that has been read is the one that was sent.                 *)
LEMMA HeadersAgree ==
  ASSUME NEW m \in Messages, NEW r \in Seq(Byte), NEW rx \in Received, NEW t \in Seq(Byte),
         <<rx.magic>> \o (HeaderOf(rx) \o t) = Sent(m) \o r
  PROVE  /\ rx.magic = m.magic /\ HeaderOf(rx) = SentHeader(m) /\ t = SentPayload(m) \o Behind(m, r)
         /\ rx.len = Len(SentPayload(m)) /\ rx.seq = m.seq /\ rx.sysid = m.sysid /\ rx.compid = m.compid
         /\ rx.msgid[1] = m.msgid[1]
         /\ m.magic # STX_MAVLINK1 => /\ rx.incompat_flags = m.incompat_flags
                                      /\ rx.msgid[2] = m.msgid[2] /\ rx.msgid[3] = m.msgid[3]
<1> DEFINE x == rx.magic
           y == m.magic
           f == Fields(m)
           h == HeaderOf(rx)
           k == SentHeader(m)
           q == SentPayload(m) \o Behind(m, r)
<1>1. x \in Byte /\ y \in Byte /\ FieldsAreBytes(rx) /\ FieldsAreBytes(f) /\ k = HeaderOf(f)
  BY MessageIs, ReceivedFields, FieldsIs DEF Received
<1>2. h \in Seq(Byte) /\ k \in Seq(Byte) /\ q \in Seq(Byte) /\ k \o q \in Seq(Byte)
  BY ReceivedFields, FieldsIs, SentThen
<1>3. <<x>> \o (h \o t) = <<y>> \o (k \o q)
  BY SentThen
<1>4. IF x = STX_MAVLINK1 THEN Reads1(h, rx, 5) ELSE Reads2(h, rx, 9)
  BY <1>1, HeaderIs
<1>5. IF y = STX_MAVLINK1 THEN Reads1(k, f, 5) ELSE Reads2(k, f, 9)
  <2>1. f.magic = y
    BY DEF Fields
  <2> HIDE DEF f, k
  <2>. QED  BY <1>1, <2>1, HeaderIs
<1>6. /\ f.len = Len(SentPayload(m)) /\ f.incompat_flags = m.incompat_flags
      /\ f.seq = m.seq /\ f.sysid = m.sysid /\ f.compid = m.compid /\ f.msgid = m.msgid
  BY DEF Fields
<1> HIDE DEF x, y, f, h, k, q
<1>7. h \o t \in Seq(Byte)
  BY <1>2, ConcatProperties
<1>8. x = y /\ h \o t = k \o q
  <2> DEFINE u == h \o t
             v == k \o q
  <2>1. x \in Byte /\ y \in Byte /\ u \in Seq(Byte) /\ v \in Seq(Byte) /\ <<x>> \o u = <<y>> \o v
    BY <1>1, <1>2, <1>3, <1>7
  <2> HIDE DEF u, v
  <2>2. (<<x>> \o u)[1] = x /\ Tail(<<x>> \o u) = u
    BY <2>1, AfterFirst
  <2>3. (<<y>> \o v)[1] = y /\ Tail(<<y>> \o v) = v
    BY <2>1, AfterFirst
  <2>4. x = y /\ u = v
    BY <2>1, <2>2, <2>3
  <2>. QED  BY <2>4 DEF u, v
<1>9. Len(h) = Len(k)
  BY <1>4, <1>5, <1>8 DEF Reads1, Reads2
<1>10. h = k /\ t = q
  <2>1. TwoWays(h, t, k, q)
    BY <1>2, <1>8 DEF TwoWays, Three, Bytes
  <2>. QED  BY <1>9, <2>1, Overlap
<1>11. /\ rx.len = f.len /\ rx.seq = f.seq /\ rx.sysid = f.sysid /\ rx.compid = f.compid
       /\ rx.msgid[1] = f.msgid[1]
       /\ y # STX_MAVLINK1 => /\ rx.incompat_flags = f.incompat_flags
                              /\ rx.msgid[2] = f.msgid[2] /\ rx.msgid[3] = f.msgid[3]
  <2>1. CASE y = STX_MAVLINK1
    BY <1>4, <1>5, <1>8, <1>10, <2>1 DEF Reads1
  <2>2. CASE y # STX_MAVLINK1
    BY <1>4, <1>5, <1>8, <1>10, <2>2 DEF Reads2
  <2>. QED  BY <2>1, <2>2
<1>. QED  BY <1>6, <1>8, <1>10, <1>11 DEF x, y, h, k, q

(* The flags and the number that are not in frames of version 1.           *)
Version1(rx) ==
  rx.magic = STX_MAVLINK1 => rx.incompat_flags = 0 /\ rx.msgid[2] = 0 /\ rx.msgid[3] = 0

(* So is the body, and what comes after it.                                *)
LEMMA BodiesAgree ==
  ASSUME NEW m \in Messages, NEW r \in Seq(Byte), NEW rx \in Received, NEW t \in Seq(Byte), Version1(rx),
         (<<rx.magic>> \o BodyOf(rx)) \o t = Sent(m) \o r
  PROVE  /\ rx.magic = m.magic /\ rx.seq = m.seq /\ rx.sysid = m.sysid /\ rx.compid = m.compid
         /\ rx.msgid = m.msgid /\ rx.len = Len(SentPayload(m))
         /\ PayloadOf(rx, rx.len) = SentPayload(m)
         /\ Crc(Covered(rx)) = SentCrc(m) /\ SignatureLen(rx) = Len(SentSignature(m))
         /\ t = Behind(m, r)
<1> DEFINE a == <<rx.magic>>
           h == HeaderOf(rx)
           p == PayloadOf(rx, rx.len)
           q == SentPayload(m)
           z == Behind(m, r)
<1>1. a \in Seq(Byte) /\ h \in Seq(Byte) /\ p \in Seq(Byte) /\ Len(p) = rx.len
  <2>1. rx.magic \in Byte /\ rx.len \in 0..MAX_PAYLOAD_LEN
    BY DEF Received, Byte
  <2>. QED  BY <2>1, ReceivedFields, PayloadIs
<1>2. BodyOf(rx) = h \o p
  BY DEF BodyOf
<1>3. a \o (h \o (p \o t)) = Sent(m) \o r /\ p \o t \in Seq(Byte)
  <2>0. (a \o (h \o p)) \o t = Sent(m) \o r
    BY <1>2
  <2> HIDE DEF a, h, p
  <2>1. h \o p \in Seq(Byte) /\ p \o t \in Seq(Byte)
    BY <1>1, ConcatProperties
  <2>2. (a \o (h \o p)) \o t = a \o ((h \o p) \o t)
    <3> DEFINE b == h \o p
    <3>1. a \in Seq(Byte) /\ b \in Seq(Byte)
      BY <1>1, <2>1
    <3> HIDE DEF b
    <3>2. (a \o b) \o t = a \o (b \o t)
      BY <3>1, ConcatAssociative
    <3>. QED  BY <3>2 DEF b
  <2>3. (h \o p) \o t = h \o (p \o t)
    <3>1. Three(h, p, t)
      BY <1>1 DEF Three, Bytes
    <3>2. Regroups(h, p, t)
      BY <3>1, Associative
    <3>. QED  BY <3>2 DEF Regroups
  <2>. QED  BY <2>0, <2>1, <2>2, <2>3
<1>4. /\ rx.magic = m.magic /\ h = SentHeader(m) /\ p \o t = q \o z
      /\ rx.len = Len(q) /\ rx.seq = m.seq /\ rx.sysid = m.sysid /\ rx.compid = m.compid
      /\ rx.msgid[1] = m.msgid[1]
      /\ m.magic # STX_MAVLINK1 => /\ rx.incompat_flags = m.incompat_flags
                                   /\ rx.msgid[2] = m.msgid[2] /\ rx.msgid[3] = m.msgid[3]
  <2> DEFINE u == p \o t
  <2>1. u \in Seq(Byte) /\ <<rx.magic>> \o (HeaderOf(rx) \o u) = Sent(m) \o r
    BY <1>3
  <2> HIDE DEF u
  <2>2. /\ rx.magic = m.magic /\ HeaderOf(rx) = SentHeader(m) /\ u = SentPayload(m) \o Behind(m, r)
        /\ rx.len = Len(SentPayload(m)) /\ rx.seq = m.seq /\ rx.sysid = m.sysid /\ rx.compid = m.compid
        /\ rx.msgid[1] = m.msgid[1]
        /\ m.magic # STX_MAVLINK1 => /\ rx.incompat_flags = m.incompat_flags
                                     /\ rx.msgid[2] = m.msgid[2] /\ rx.msgid[3] = m.msgid[3]
    BY <2>1, HeadersAgree
  <2>. QED  BY <2>2 DEF u
<1>5. q \in Seq(Byte) /\ z \in Seq(Byte)
  BY SentPayloadIs, SentThen
<1>6. p = q /\ t = z
  <2> HIDE DEF p, q, z
  <2>1. TwoWays(p, t, q, z) /\ Len(p) = Len(q)
    BY <1>1, <1>4, <1>5 DEF TwoWays, Three, Bytes
  <2>. QED  BY <2>1, Overlap
<1>7. rx.msgid = m.msgid
  <2> DEFINE i == rx.msgid
             j == m.msgid
  <2>1. i \in Byte \X Byte \X Byte /\ j \in Byte \X Byte \X Byte
    BY MessageIs DEF Received
  <2>2. i[1] = j[1] /\ i[2] = j[2] /\ i[3] = j[3]
    BY <1>4, MessagesAssumption DEF Version1
  <2> HIDE DEF i, j
  <2>3. i \in [1..3 -> Byte] /\ j \in [1..3 -> Byte]
    BY <2>1
  <2>4. \A n \in 1..3 : i[n] = j[n]
    BY <2>2
  <2>5. i = j
    BY <2>3, <2>4
  <2>. QED  BY <2>5 DEF i, j
<1>8. Crc(Covered(rx)) = SentCrc(m)
  BY <1>2, <1>4, <1>6, <1>7, MessageIs DEF Covered, SentCrc, SentBody
<1>9. SignatureLen(rx) = Len(SentSignature(m))
  <2>1. Len(SentSignature(m)) = IF m.magic = STX_MAVLINK1 THEN 0 ELSE SignatureLen(m)
    BY SentSplits
  <2>2. IFLAG_SIGNED # 0
    BY MarkerAssumption
  <2>. QED  BY <1>4, <2>1, <2>2 DEF SignatureLen, Version1
<1>. QED  BY <1>4, <1>6, <1>7, <1>8, <1>9

(* The message is the one that was sent, zeros included.                   *)
LEMMA MessagesAgree ==
  ASSUME NEW m \in Messages, NEW rx \in Received, Filled(rx),
         rx.magic = m.magic, rx.seq = m.seq, rx.sysid = m.sysid, rx.compid = m.compid,
         rx.msgid = m.msgid, rx.len = Len(SentPayload(m)), PayloadOf(rx, rx.len) = SentPayload(m)
  PROVE  SameMessage(rx, m)
<1> DEFINE l == rx.len
           p == SentPayload(m)
<1>1. /\ p \in Seq(Byte) /\ l = Len(p) /\ l \in 0..Len(m.payload) /\ Len(m.payload) \in 0..MAX_PAYLOAD_LEN
      /\ \A k \in 1..l : p[k] = m.payload[k]
      /\ \A k \in (l + 1)..Len(m.payload) : m.payload[k] = 0
  BY SentPayloadIs, MessageIs
<1>2. \A k \in 1..l : rx.payload[k] = p[k]
  <2>1. l \in 0..MAX_PAYLOAD_LEN
    BY ReceivedFields
  <2>2. \A k \in 1..l : PayloadOf(rx, l)[k] = rx.payload[k]
    BY <2>1, PayloadIs
  <2>. QED  BY <2>2
<1>3. ASSUME NEW e \in Declared(m.msgid), NEW k \in 1..Entries[e].max_msg_len
      PROVE  rx.payload[k] = IF k <= Len(m.payload) THEN m.payload[k] ELSE 0
  <2>1. Entries[e].max_msg_len \in 0..MAX_PAYLOAD_LEN /\ MAX_PAYLOAD_LEN \in Nat
    BY EntriesAre, MarkerAssumption DEF Declared, Byte
  <2>2. \A i \in (l + 1)..Entries[e].max_msg_len : rx.payload[i] = 0
    BY DEF Filled
  <2> HIDE DEF l, p
  <2>3. CASE k <= l
    BY <1>1, <1>2, <2>1, <2>3
  <2>4. CASE ~(k <= l)
    <3>1. rx.payload[k] = 0
      BY <1>1, <2>1, <2>2, <2>4
    <3>2. k <= Len(m.payload) => m.payload[k] = 0
      BY <1>1, <2>1, <2>4
    <3>. QED  BY <3>1, <3>2
  <2>. QED  BY <2>3, <2>4
<1>. QED  BY <1>3 DEF SameMessage

(* What the parser has seen of a frame that is signed or complete.         *)
LEMMA FramesAgree ==
  ASSUME NEW m \in Messages, NEW r \in Seq(Byte), NEW rx \in Received, NEW t \in Seq(Byte),
         NEW signature \in Seq(Byte), Version1(rx), Filled(rx), Crc(Covered(rx)) \in Seq(Byte),
         (FrameOf(rx.magic, rx) \o signature) \o t = Sent(m) \o r
  PROVE  /\ Len(signature) = SignatureLen(rx) => t = r /\ SameMessage(rx, m)
         /\ Len(signature) < SignatureLen(rx) => t # <<>>
<1> DEFINE b == <<rx.magic>> \o BodyOf(rx)
           k == Crc(Covered(rx))
           g == SentSignature(m)
           u == k \o signature
           v == k \o g
           w == u \o t
<1>1. b \in Seq(Byte) /\ k \in Seq(Byte) /\ Len(k) = 2
  <2>1. rx.magic \in Byte
    BY DEF Received
  <2>2. BodyOf(rx) \in Seq(Byte)
    BY <2>1, FrameIs
  <2>3. <<rx.magic>> \in Seq(Byte)
    BY <2>1
  <2>4. b \in Seq(Byte)
    BY <2>2, <2>3, ConcatProperties
  <2>. QED  BY <2>4 DEF Crc
<1>2. ((b \o k) \o signature) \o t = Sent(m) \o r
  BY DEF FrameOf
<1> HIDE DEF b, k
<1>3. u \in Seq(Byte) /\ Len(u) = 2 + Len(signature) /\ (b \o k) \o signature = b \o u
  <2>1. u \in Seq(Byte) /\ Len(u) = Len(k) + Len(signature)
    BY <1>1, ConcatProperties
  <2>2. (b \o k) \o signature = b \o (k \o signature)
    <3>1. Three(b, k, signature)
      BY <1>1 DEF Three, Bytes
    <3>2. Regroups(b, k, signature)
      BY <3>1, Associative
    <3>. QED  BY <3>2 DEF Regroups
  <2>. QED  BY <1>1, <2>1, <2>2
<1> HIDE DEF u
<1>4. w \in Seq(Byte) /\ b \o w = Sent(m) \o r
  <2>1. w \in Seq(Byte)
    BY <1>3, ConcatProperties
  <2>2. (b \o u) \o t = b \o (u \o t)
    <3>1. Three(b, u, t)
      BY <1>1, <1>3 DEF Three, Bytes
    <3>2. Regroups(b, u, t)
      BY <3>1, Associative
    <3>. QED  BY <3>2 DEF Regroups
  <2>. QED  BY <1>2, <1>3, <2>1, <2>2
<1> HIDE DEF w
<1>5. /\ rx.magic = m.magic /\ rx.seq = m.seq /\ rx.sysid = m.sysid /\ rx.compid = m.compid
      /\ rx.msgid = m.msgid /\ rx.len = Len(SentPayload(m))
      /\ PayloadOf(rx, rx.len) = SentPayload(m)
      /\ k = SentCrc(m) /\ SignatureLen(rx) = Len(g) /\ w = Behind(m, r)
  BY <1>4, BodiesAgree DEF b, k
<1>6. SameMessage(rx, m)
  BY <1>5, MessagesAgree
<1>7. g \in Seq(Byte)
  BY SentSplits
<1> HIDE DEF g
<1>8. v \in Seq(Byte) /\ Len(v) = 2 + Len(g) /\ u \o t = v \o r
  <2>1. v \in Seq(Byte) /\ Len(v) = Len(k) + Len(g)
    BY <1>1, <1>7, ConcatProperties
  <2>. QED  BY <1>1, <1>5, <2>1 DEF Behind, w, g
<1> HIDE DEF v
<1>9. Len(signature) \in Nat /\ Len(g) \in Nat /\ Len(t) \in Nat /\ Len(r) \in Nat
  BY <1>7, LenProperties
<1>10. Len(u) + Len(t) = Len(v) + Len(r) /\ (Len(u) = Len(v) => t = r)
  <2>1. TwoWays(u, t, v, r)
    BY <1>3, <1>8 DEF TwoWays, Three, Bytes
  <2>. QED  BY <2>1, Overlap
<1>11. ASSUME Len(signature) = SignatureLen(rx) PROVE t = r
  BY <1>3, <1>5, <1>8, <1>10, <1>11
<1>12. ASSUME Len(signature) < SignatureLen(rx) PROVE t # <<>>
  <2>1. Len(t) # 0
    BY <1>3, <1>5, <1>8, <1>9, <1>10, <1>12
  <2>. QED  BY <2>1, EmptySeq
<1>. QED  BY <1>6, <1>11, <1>12
-----------------------------------------------------------------------------
(* While a clean datagram is read, the parser is where its frames begin    *)
(* when it is idle and within the next of them when it is not.             *)

Synced(rest) ==
  /\ Rests(rest, intact)
  /\ reader = "main" => rest[Len(intact)] = <<>>
  /\ reader = "download" => Len(intact) <= 1
  /\ Len(delivered) <= Len(intact)
  /\ \A k \in 1..Len(delivered) : SameMessage(delivered[k], intact[k])
  /\ parse_state = "IDLE" => buf = IF Len(delivered) = Len(intact) THEN <<>> ELSE rest[Len(delivered)]
  /\ parse_state # "IDLE" =>
       /\ Len(delivered) < Len(intact) /\ parse_state # "GOT_BAD_CRC1"
       /\ frame \o buf = rest[Len(delivered)] /\ frame[1] = rxmsg.magic

CleanInv == clean => \E rest : Synced(rest)

(* The frame being read, and what comes after it.                          *)
NextMessage == intact[Len(delivered) + 1]
LEMMA Ahead ==
  ASSUME TypeInv, NEW rest, Synced(rest), Len(delivered) < Len(intact)
  PROVE  /\ NextMessage \in Messages /\ rest[Len(delivered) + 1] \in Seq(Byte)
         /\ rest[Len(delivered)] = Sent(NextMessage) \o rest[Len(delivered) + 1]
<1> DEFINE j == Len(delivered)
           n == Len(intact)
<1>1. delivered \in Seq(Received) /\ intact \in Seq(Messages)
  BY DEF TypeInv, TypeOK
<1>2. j \in Nat /\ n \in Nat /\ j < n
  BY <1>1, LenProperties
<1>3. rest \in [0..n -> SomeBytes] /\ \A k \in 1..n : rest[k - 1] = Sent(intact[k]) \o rest[k]
  BY DEF Synced, Rests, Left
<1> HIDE DEF j, n
<1>4. j + 1 \in 1..n /\ j + 1 \in 0..n /\ (j + 1) - 1 = j
  BY <1>2
<1>5. intact[j + 1] \in Messages
  <2> DEFINE i == j + 1
  <2> HIDE DEF i
  <2>1. i \in 1..Len(intact)
    BY <1>4 DEF n, i
  <2>2. intact[i] \in Messages
    BY <1>1, <2>1, ElementOfSeq
  <2>. QED  BY <2>2 DEF i
<1>6. rest[j + 1] \in Seq(Byte) /\ rest[j] = Sent(intact[j + 1]) \o rest[j + 1]
  BY <1>3, <1>4 DEF SomeBytes
<1>. QED  BY <1>5, <1>6 DEF NextMessage, j

NextRest(rest) == rest[Len(delivered) + 1]

(* Inside a frame, the parser has a part of the next message, and the rest *)
(* is in the buffer.                                                       *)
LEMMA InFrame ==
  ASSUME TypeInv, FrameInv, NEW rest, Synced(rest), parse_state # "IDLE"
  PROVE  /\ NextMessage \in Messages /\ NextRest(rest) \in Seq(Byte)
         /\ frame \o buf = Sent(NextMessage) \o NextRest(rest)
         /\ frame \in Seq(Byte) /\ buf \in Seq(Byte) /\ rxmsg \in Received
         /\ frame # <<>> /\ frame[1] = rxmsg.magic /\ rxmsg.magic \in Byte
         /\ in_mavlink1 \in BOOLEAN /\ (in_mavlink1 <=> rxmsg.magic = STX_MAVLINK1)
         /\ parse_state \notin HeaderStates => Version1(rxmsg)
         /\ buf # <<>> => c = buf[1] /\ c \in Byte
<1>1. Len(delivered) < Len(intact) /\ frame \o buf = rest[Len(delivered)] /\ frame[1] = rxmsg.magic
  BY DEF Synced
<1>2. /\ NextMessage \in Messages /\ NextRest(rest) \in Seq(Byte)
      /\ frame \o buf = Sent(NextMessage) \o NextRest(rest)
  BY <1>1, Ahead DEF NextRest
<1>3. frame \in Seq(Byte) /\ buf \in Seq(Byte) /\ rxmsg \in Received /\ in_mavlink1 \in BOOLEAN
  BY DEF TypeInv, TypeOK
<1>4. /\ frame # <<>> /\ (in_mavlink1 <=> rxmsg.magic = STX_MAVLINK1)
      /\ parse_state \notin HeaderStates => Version1(rxmsg)
  <2>1. "GOT_STX" \in HeaderStates
    BY DEF HeaderStates
  <2>. QED  BY <2>1 DEF FrameInv, VersionInv, Version1
<1>5. rxmsg.magic \in Byte
  BY <1>3 DEF Received
<1>6. buf # <<>> => c = buf[1] /\ c \in Byte
  BY <1>3, Taken DEF c
<1>. QED  BY <1>1, <1>2, <1>3, <1>4, <1>5, <1>6

(* A header is not complete in the states in which it is read, and its     *)
(* flags are known.                                                        *)
LEMMA HeaderAhead ==
  ASSUME TypeInv, FrameInv, NEW rest, Synced(rest), parse_state \in HeaderStates
  PROVE  buf # <<>> /\ (parse_state = "GOT_LENGTH" => c \in {0, IFLAG_SIGNED})
<1> DEFINE m == NextMessage
           r == NextRest(rest)
           x == rxmsg.magic
           y == m.magic
           s == rxmsg.checksum
           h == SentHeader(m)
           z == SentPayload(m) \o Behind(m, r)
           f == Fields(m)
<1>1. parse_state # "IDLE"
  BY DEF HeaderStates
<1>2. /\ m \in Messages /\ r \in Seq(Byte) /\ frame \o buf = Sent(m) \o r /\ buf \in Seq(Byte)
      /\ rxmsg \in Received /\ frame[1] = x /\ x \in Byte
      /\ in_mavlink1 \in BOOLEAN /\ (in_mavlink1 <=> x = STX_MAVLINK1)
      /\ buf # <<>> => c = buf[1]
  BY <1>1, InFrame
<1>3. s \in Seq(Byte) /\ frame = <<x>> \o s
  BY <1>2 DEF FrameInv, HeaderInv, Received
<1>4. /\ h \in Seq(Byte) /\ z \in Seq(Byte) /\ y \in Byte /\ h \o z \in Seq(Byte)
      /\ Sent(m) \o r = <<y>> \o (h \o z)
      /\ h = HeaderOf(f) /\ FieldsAreBytes(f) /\ m.incompat_flags \in {0, IFLAG_SIGNED}
      /\ f.magic = y /\ f.incompat_flags = m.incompat_flags
  <2>1. h \in Seq(Byte) /\ h = HeaderOf(f) /\ FieldsAreBytes(f)
    BY <1>2, FieldsIs
  <2>2. z \in Seq(Byte) /\ h \o z \in Seq(Byte) /\ Sent(m) \o r = <<y>> \o (h \o z)
    BY <1>2, SentThen
  <2>3. y \in Byte /\ m.incompat_flags \in {0, IFLAG_SIGNED}
    BY <1>2, MessageIs
  <2>4. f.magic = y /\ f.incompat_flags = m.incompat_flags
    BY DEF Fields
  <2>. QED  BY <2>1, <2>2, <2>3, <2>4
<1>5. IF y = STX_MAVLINK1 THEN Reads1(h, f, 5) ELSE Reads2(h, f, 9)
  <2> HIDE DEF f, h
  <2>. QED  BY <1>4, HeaderIs
<1>6. IF in_mavlink1 THEN Len(s) < 5 ELSE Len(s) < 9
  <2>0. HeaderInv
    BY DEF FrameInv
  <2>1. CASE in_mavlink1
    <3>1. parse_state \in DOMAIN Place1 /\ Len(s) = Place1[parse_state]
      BY <2>0, <2>1 DEF HeaderInv, Reads1
    <3> HIDE DEF s
    <3>. QED  BY <2>1, <3>1 DEF Place1
  <2>2. CASE ~in_mavlink1
    <3>1. Len(s) = Place2[parse_state]
      BY <2>0, <2>2 DEF HeaderInv, Reads2
    <3> HIDE DEF s
    <3>. QED  BY <2>2, <3>1 DEF Place2, HeaderStates
  <2>. QED  BY <2>1, <2>2
<1>7. parse_state = "GOT_LENGTH" => ~in_mavlink1 /\ Len(s) = 1
  BY DEF FrameInv, HeaderInv, HeaderStates, Place1, Place2, Reads2
<1> HIDE DEF m, r, x, y, s, h, z, f
<1> DEFINE b == buf
<1>8. b \in Seq(Byte) /\ b = buf
  BY <1>2
<1> HIDE DEF b
<1>9. x = y /\ s \o b = h \o z
  <2> DEFINE u == s \o b
             v == h \o z
  <2>1. u \in Seq(Byte) /\ v \in Seq(Byte) /\ <<x>> \in Seq(Byte)
    BY <1>2, <1>3, <1>4, <1>8, ConcatProperties
  <2>2. (<<x>> \o s) \o b = <<x>> \o (s \o b)
    <3>1. Three(<<x>>, s, b)
      BY <1>3, <1>8, <2>1 DEF Three, Bytes
    <3>2. Regroups(<<x>>, s, b)
      BY <3>1, Associative
    <3>. QED  BY <3>2 DEF Regroups
  <2>3. <<x>> \o u = <<y>> \o v
    BY <1>2, <1>3, <1>4, <1>8, <2>2
  <2> HIDE DEF u, v
  <2>4. (<<x>> \o u)[1] = x /\ Tail(<<x>> \o u) = u
    BY <1>2, <2>1, AfterFirst
  <2>5. (<<y>> \o v)[1] = y /\ Tail(<<y>> \o v) = v
    BY <1>4, <2>1, AfterFirst
  <2>. QED  BY <2>3, <2>4, <2>5 DEF u, v
<1>10. Len(s) < Len(h)
  BY <1>2, <1>5, <1>6, <1>9 DEF Reads1, Reads2
<1>11. /\ Len(s) + Len(b) = Len(h) + Len(z)
       /\ b # <<>> => b[1] = h[Len(s) + 1]
  <2>1. TwoWays(s, b, h, z)
    BY <1>3, <1>4, <1>8, <1>9 DEF TwoWays, Three, Bytes
  <2>. QED  BY <1>10, <2>1, Overlap
<1>12. b # <<>>
  <2>1. Len(s) \in Nat /\ Len(b) \in Nat /\ Len(h) \in Nat /\ Len(z) \in Nat
    BY <1>3, <1>4, <1>8, LenProperties
  <2>2. Len(b) # 0
    BY <1>10, <1>11, <2>1
  <2>. QED  BY <2>2, EmptySeq
<1>13. ASSUME parse_state = "GOT_LENGTH" PROVE c \in {0, IFLAG_SIGNED}
  <2>1. c = h[2]
    <3>0. Len(s) = 1
      BY <1>7, <1>13, Zenon
    <3>1. Len(s) + 1 = 2
      BY <3>0
    <3>2. b[1] = h[2]
      BY <1>11, <1>12, <3>1
    <3>3. c = b[1]
      BY <1>2, <1>8, <1>12
    <3>. QED  BY <3>2, <3>3
  <2>2. h[2] = f.incompat_flags
    BY <1>2, <1>5, <1>7, <1>9, <1>13 DEF Reads2
  <2>. QED  BY <1>4, <2>1, <2>2
<1>. QED  BY <1>8, <1>12, <1>13

(* Nor is a payload, and it is followed by its checksum.                   *)
LEMMA PayloadAhead ==
  ASSUME TypeInv, FrameInv, NEW rest, Synced(rest), parse_state \in {"GOT_MSGID3", "GOT_PAYLOAD"}
  PROVE  buf # <<>> /\ (parse_state = "GOT_PAYLOAD" => c = CrcLow(Covered(rxmsg)))
<1> DEFINE m == NextMessage
           r == NextRest(rest)
           a == <<rxmsg.magic>>
           h == HeaderOf(rxmsg)
           p == PayloadOf(rxmsg, packet_idx)
           q == SentPayload(m)
           z == Behind(m, r)
           k == SentCrc(m)
           v == SentSignature(m) \o r
           b == buf
           t == p \o b
<1>1. parse_state # "IDLE" /\ parse_state \notin HeaderStates
  BY DEF HeaderStates
<1>2. /\ m \in Messages /\ r \in Seq(Byte) /\ frame \o b = Sent(m) \o r /\ b \in Seq(Byte)
      /\ rxmsg \in Received /\ frame[1] = rxmsg.magic /\ rxmsg.magic \in Byte
      /\ Version1(rxmsg) /\ (b # <<>> => c = b[1])
  BY <1>1, InFrame
<1>3. /\ packet_idx \in 0..MAX_PAYLOAD_LEN /\ packet_idx <= rxmsg.len
      /\ parse_state = "GOT_PAYLOAD" => packet_idx = rxmsg.len
      /\ rxmsg.len \in Nat
  <2>1. packet_idx \in Byte /\ rxmsg.len \in Byte
    BY <1>2 DEF TypeInv, TypeOK, Received
  <2>2. parse_state = "GOT_MSGID3" => packet_idx < rxmsg.len
    BY DEF TypeInv, TypeOK
  <2>3. parse_state = "GOT_PAYLOAD" => packet_idx = rxmsg.len
    BY DEF FrameInv, PayloadInv
  <2>. QED  BY <2>1, <2>2, <2>3, MarkerAssumption DEF Byte
<1>4. /\ a \in Seq(Byte) /\ h \in Seq(Byte) /\ p \in Seq(Byte) /\ Len(p) = packet_idx
  BY <1>2, <1>3, ReceivedFields, PayloadIs
<1>5. frame = a \o (h \o p)
  BY <1>2 DEF FrameInv, PayloadInv
<1>6. q \in Seq(Byte) /\ z \in Seq(Byte) /\ Len(z) >= 2
  <2>1. q \in Seq(Byte)
    BY <1>2, SentPayloadIs
  <2>2. z \in Seq(Byte) /\ Len(z) = 2 + Len(SentSignature(m)) + Len(r)
    BY <1>2, SentThen
  <2>3. Len(SentSignature(m)) \in Nat /\ Len(r) \in Nat
    BY <1>2, SentSplits, LenProperties
  <2>. QED  BY <2>1, <2>2, <2>3
<1> HIDE DEF m, r, a, h, p, q, z, b
<1>7. t \in Seq(Byte) /\ a \o (h \o t) = Sent(m) \o r
  <2>1. t \in Seq(Byte) /\ h \o p \in Seq(Byte)
    BY <1>2, <1>4, ConcatProperties
  <2>2. (a \o (h \o p)) \o b = a \o ((h \o p) \o b)
    <3>1. Three(a, h \o p, b)
      BY <1>2, <1>4, <2>1 DEF Three, Bytes
    <3>2. Regroups(a, h \o p, b)
      BY <3>1, Associative
    <3>. QED  BY <3>2 DEF Regroups
  <2>3. (h \o p) \o b = h \o (p \o b)
    <3>1. Three(h, p, b)
      BY <1>2, <1>4 DEF Three, Bytes
    <3>2. Regroups(h, p, b)
      BY <3>1, Associative
    <3>. QED  BY <3>2 DEF Regroups
  <2>. QED  BY <1>2, <1>5, <2>1, <2>2, <2>3
<1>8. t = q \o z /\ rxmsg.len = Len(q)
  <2> HIDE DEF t
  <2>1. t \in Seq(Byte) /\ <<rxmsg.magic>> \o (HeaderOf(rxmsg) \o t) = Sent(m) \o r
    BY <1>7 DEF a, h
  <2>2. m \in Messages /\ r \in Seq(Byte) /\ rxmsg \in Received
    BY <1>2
  <2>3. t = SentPayload(m) \o Behind(m, r) /\ rxmsg.len = Len(SentPayload(m))
    BY <2>1, <2>2, HeadersAgree
  <2>. QED  BY <2>3 DEF q, z
<1>9. Len(p) + Len(b) = Len(q) + Len(z) /\ (Len(p) = Len(q) => b = z)
  <2>1. TwoWays(p, b, q, z)
    BY <1>2, <1>4, <1>6, <1>8 DEF TwoWays, Three, Bytes
  <2>. QED  BY <2>1, Overlap
<1>10. b # <<>>
  <2>1. Len(p) \in Nat /\ Len(b) \in Nat /\ Len(q) \in Nat /\ Len(z) \in Nat /\ Len(p) <= Len(q)
    BY <1>2, <1>3, <1>4, <1>6, <1>8, LenProperties
  <2>2. Len(b) # 0
    BY <1>6, <1>9, <2>1
  <2>. QED  BY <2>2, EmptySeq
<1>11. ASSUME parse_state = "GOT_PAYLOAD" PROVE c = CrcLow(Covered(rxmsg))
  <2>1. b = z
    BY <1>3, <1>4, <1>8, <1>9, <1>11
  <2>2. Crc(Covered(rxmsg)) = k
    <3> DEFINE body == <<rxmsg.magic>> \o BodyOf(rxmsg)
    <3>1. body \o b = Sent(m) \o r
      BY <1>2, <1>3, <1>5, <1>11 DEF BodyOf, a, h, p
    <3>2. Crc(Covered(rxmsg)) = SentCrc(m)
      BY <1>2, <3>1, BodiesAgree
    <3>. QED  BY <3>2
  <2>3. k \in Seq(Byte) /\ SentSignature(m) \in Seq(Byte)
    BY <1>2, SentSplits
  <2>4. k = <<k[1], k[2]>> /\ k[1] = CrcLow(Covered(rxmsg)) /\ Len(k) = 2
    BY <2>2 DEF Crc
  <2> DEFINE g == SentSignature(m)
  <2> HIDE DEF k, g
  <2>5. z = (k \o g) \o r
    BY DEF z, Behind, k, g
  <2>6. z[1] = k[1]
    <3>1. k \o g \in Seq(Byte) /\ Len(k \o g) = Len(k) + Len(g) /\ Len(g) \in Nat
          /\ \A i \in 1..(Len(k) + Len(g)) : (k \o g)[i] = IF i <= Len(k) THEN k[i] ELSE g[i - Len(k)]
      BY <2>3, ConcatProperties, LenProperties DEF g
    <3> DEFINE u == k \o g
    <3>2. u \in Seq(Byte) /\ Len(u) >= 2 /\ u[1] = k[1]
      BY <2>4, <3>1
    <3> HIDE DEF u
    <3>3. /\ Len(u \o r) = Len(u) + Len(r) /\ Len(r) \in Nat /\ Len(u) \in Nat
          /\ \A i \in 1..(Len(u) + Len(r)) : (u \o r)[i] = IF i <= Len(u) THEN u[i] ELSE r[i - Len(u)]
      BY <1>2, <3>2, ConcatProperties, LenProperties
    <3>4. (u \o r)[1] = u[1]
      BY <3>2, <3>3
    <3>. QED  BY <2>5, <3>2, <3>4 DEF u
  <2>. QED  BY <1>2, <1>10, <2>1, <2>4, <2>6
<1>. QED  BY <1>10, <1>11 DEF b

(* The second byte of the checksum is the one that was sent.               *)
LEMMA CrcAhead ==
  ASSUME TypeInv, FrameInv, NEW rest, Synced(rest), parse_state = "GOT_CRC1"
  PROVE  buf # <<>> /\ c = CrcHigh(rxmsg.checksum)
<1> DEFINE m  == NextMessage
           r  == NextRest(rest)
           d  == <<rxmsg.magic>> \o BodyOf(rxmsg)
           lo == CrcLow(Covered(rxmsg))
           b  == buf
           t  == <<lo>> \o b
           k  == SentCrc(m)
           g  == SentSignature(m)
           v  == g \o r
<1>1. parse_state # "IDLE" /\ parse_state \notin HeaderStates
  BY DEF HeaderStates
<1>2. /\ m \in Messages /\ r \in Seq(Byte) /\ frame \o b = Sent(m) \o r /\ b \in Seq(Byte)
      /\ rxmsg \in Received /\ frame[1] = rxmsg.magic /\ rxmsg.magic \in Byte
      /\ Version1(rxmsg) /\ (b # <<>> => c = b[1])
  BY <1>1, InFrame
<1>3. rxmsg.checksum = Covered(rxmsg) /\ lo \in Byte /\ frame = Append(d, lo)
  BY <1>2 DEF FrameInv, CrcInv
<1>4. d \in Seq(Byte)
  <2>1. <<rxmsg.magic>> \in Seq(Byte) /\ BodyOf(rxmsg) \in Seq(Byte)
    <3>1. HeaderOf(rxmsg) \in Seq(Byte) /\ rxmsg.len \in 0..MAX_PAYLOAD_LEN
      BY <1>2, ReceivedFields
    <3>2. PayloadOf(rxmsg, rxmsg.len) \in Seq(Byte)
      BY <1>2, <3>1, PayloadIs
    <3>3. BodyOf(rxmsg) \in Seq(Byte)
      BY <3>1, <3>2, ConcatProperties DEF BodyOf
    <3>4. <<rxmsg.magic>> \in Seq(Byte)
      BY <1>2
    <3>. QED  BY <3>3, <3>4
  <2>. QED  BY <2>1, ConcatProperties
<1>5. k \in Seq(Byte) /\ g \in Seq(Byte)
  BY <1>2, SentSplits
<1> HIDE DEF m, r, d, lo, b, g
<1>6. <<lo>> \in Seq(Byte) /\ Len(<<lo>>) = 1 /\ t \in Seq(Byte) /\ v \in Seq(Byte)
  BY <1>2, <1>3, <1>5, ConcatProperties
<1>7. d \o t = Sent(m) \o r
  <2>1. Append(d, lo) = d \o <<lo>>
    BY <1>3, <1>4, AppendIsConcat
  <2>2. (d \o <<lo>>) \o b = d \o (<<lo>> \o b)
    <3>1. Three(d, <<lo>>, b)
      BY <1>2, <1>4, <1>6 DEF Three, Bytes
    <3>2. Regroups(d, <<lo>>, b)
      BY <3>1, Associative
    <3>. QED  BY <3>2 DEF Regroups
  <2>. QED  BY <1>2, <1>3, <2>1, <2>2
<1>8. t = Behind(m, r) /\ Crc(Covered(rxmsg)) = k
  <2> HIDE DEF t
  <2>. QED  BY <1>2, <1>6, <1>7, BodiesAgree DEF d
<1>9. Len(k) = 2 /\ k[2] = CrcHigh(Covered(rxmsg))
  <2> HIDE DEF k
  <2>. QED  BY <1>8 DEF Crc
<1> HIDE DEF k
<1>10. <<lo>> \o b = k \o v
  <2>1. (k \o g) \o r = k \o (g \o r)
    <3>1. Three(k, g, r)
      BY <1>2, <1>5 DEF Three, Bytes
    <3>2. Regroups(k, g, r)
      BY <3>1, Associative
    <3>. QED  BY <3>2 DEF Regroups
  <2>. QED  BY <1>8, <2>1 DEF Behind, k, g
<1> HIDE DEF v
<1>11. /\ Len(<<lo>>) + Len(b) = Len(k) + Len(v)
       /\ Len(<<lo>>) < Len(k) /\ b # <<>> => b[1] = k[Len(<<lo>>) + 1]
  <2> DEFINE l == <<lo>>
  <2>1. TwoWays(l, b, k, v)
    BY <1>2, <1>5, <1>6, <1>10 DEF TwoWays, Three, Bytes
  <2> HIDE DEF l
  <2>2. Len(l) + Len(b) = Len(k) + Len(v) /\ (Len(l) < Len(k) /\ b # <<>> => b[1] = k[Len(l) + 1])
    BY <2>1, Overlap
  <2>. QED  BY <2>2 DEF l
<1>12. b # <<>>
  <2>1. Len(b) \in Nat /\ Len(v) \in Nat
    BY <1>2, <1>6, LenProperties
  <2>2. Len(b) # 0
    BY <1>6, <1>9, <1>11, <2>1
  <2>. QED  BY <2>2, EmptySeq
<1>13. c = CrcHigh(rxmsg.checksum)
  <2>1. b[1] = k[2]
    BY <1>6, <1>9, <1>11, <1>12
  <2>2. c = b[1]
    BY <1>2, <1>12
  <2>. QED  BY <1>3, <1>9, <2>1, <2>2
<1>. QED  BY <1>12, <1>13 DEF b

(* A signature that is to come comes.                                      *)
LEMMA SignatureAhead ==
  ASSUME TypeInv, FrameInv, NEW rest, Synced(rest), parse_state = "SIGNATURE_WAIT"
  PROVE  buf # <<>>
<1> DEFINE m == NextMessage
           r == NextRest(rest)
           b == buf
<1>1. parse_state # "IDLE" /\ parse_state \notin HeaderStates
  BY DEF HeaderStates
<1>2. /\ m \in Messages /\ r \in Seq(Byte) /\ frame \o b = Sent(m) \o r /\ b \in Seq(Byte)
      /\ rxmsg \in Received /\ frame[1] = rxmsg.magic /\ Version1(rxmsg)
  BY <1>1, InFrame
<1>3. Filled(rxmsg) /\ rxmsg.incompat_flags = IFLAG_SIGNED /\ Crc(Covered(rxmsg)) \in Seq(Byte)
  BY DEF FrameInv, SignatureInv
<1>4. PICK signature \in Seq(Byte) : /\ frame = FrameOf(frame[1], rxmsg) \o signature
                                     /\ Len(signature) = SIGNATURE_BLOCK_LEN - signature_wait
  BY DEF FrameInv, SignatureInv
<1>5. Len(signature) < SignatureLen(rxmsg)
  <2>1. signature_wait \in 0..SIGNATURE_BLOCK_LEN /\ signature_wait > 0
    BY DEF TypeInv, TypeOK
  <2>. QED  BY <1>3, <1>4, <2>1, MarkerAssumption DEF SignatureLen
<1>6. (FrameOf(rxmsg.magic, rxmsg) \o signature) \o b = Sent(m) \o r
  BY <1>2, <1>4
<1> HIDE DEF m, r, b
<1>7. b # <<>>
  BY <1>2, <1>3, <1>5, <1>6, FramesAgree
<1>. QED  BY <1>7 DEF b

(* Between frames, the buffer is empty or the next frame begins with its   *)
(* marker.                                                                 *)
LEMMA NextBegins ==
  ASSUME TypeInv, NEW rest, Synced(rest), parse_state = "IDLE"
  PROVE  /\ buf = <<>> => Len(delivered) = Len(intact)
         /\ buf # <<>> => /\ Len(delivered) < Len(intact) /\ buf = rest[Len(delivered)]
                          /\ c \in {STX, STX_MAVLINK1}
<1>1. Len(delivered) \in Nat /\ Len(intact) \in Nat /\ Len(delivered) <= Len(intact)
  <2>1. delivered \in Seq(Received) /\ intact \in Seq(Messages)
    BY DEF TypeInv, TypeOK
  <2>. QED  BY <2>1, LenProperties DEF Synced
<1>2. CASE Len(delivered) = Len(intact)
  BY <1>2 DEF Synced
<1>3. CASE Len(delivered) # Len(intact)
  <2> DEFINE m == NextMessage
             r == rest[Len(delivered) + 1]
             z == SentHeader(m) \o (SentPayload(m) \o Behind(m, r))
             y == m.magic
  <2>1. Len(delivered) < Len(intact)
    BY <1>1, <1>3
  <2>2. m \in Messages /\ r \in Seq(Byte) /\ buf = Sent(m) \o r
    BY <1>3, <2>1, Ahead DEF Synced
  <2>3. buf = <<y>> \o z /\ z \in Seq(Byte) /\ y \in Byte /\ y \in {STX, STX_MAVLINK1}
    BY <2>2, SentThen, MessageIs
  <2> HIDE DEF z, y
  <2>4. <<y>> \o z # <<>> /\ (<<y>> \o z)[1] = y
    BY <2>3, AfterFirst
  <2>5. buf \in Seq(Byte)
    BY DEF TypeInv, TypeOK
  <2>6. buf # <<>> /\ c = y
    <3>1. buf # <<>> /\ buf[1] = y
      BY <2>3, <2>4
    <3>2. Head(buf) = buf[1]
      BY <2>5, <3>1
    <3>. QED  BY <3>1, <3>2 DEF c
  <2>. QED  BY <1>3, <2>1, <2>3, <2>6 DEF Synced
<1>. QED  BY <1>2, <1>3

(* The byte goes from the datagram to the frame.                           *)
LEMMA Moves ==
  ASSUME TypeInv, buf # <<>>
  PROVE  Append(frame, c) \o Tail(buf) = frame \o buf
<1> DEFINE d == frame
           b == Tail(buf)
<1>1. d \in Seq(Byte) /\ b \in Seq(Byte) /\ c \in Byte /\ <<c>> \in Seq(Byte) /\ buf = <<c>> \o b
  BY Taken DEF TypeInv, TypeOK
<1> HIDE DEF d, b
<1>2. Append(d, c) = d \o <<c>>
  BY <1>1, AppendIsConcat
<1>3. (d \o <<c>>) \o b = d \o (<<c>> \o b)
  <2>1. Three(d, <<c>>, b)
    BY <1>1 DEF Three, Bytes
  <2>2. Regroups(d, <<c>>, b)
    BY <2>1, Associative
  <2>. QED  BY <2>2 DEF Regroups
<1>. QED  BY <1>1, <1>2, <1>3 DEF d, b

(* A byte inside a frame keeps the parser in step.                         *)
LEMMA SyncedGoesOn ==
  ASSUME TypeInv, FrameInv, NEW rest, Synced(rest), parse_state # "IDLE", buf # <<>>,
         UNCHANGED <<datagram, delivered>>, frame' = Append(frame, c), buf' = Tail(buf),
         parse_state' \notin {"IDLE", "GOT_BAD_CRC1"}, rxmsg'.magic = rxmsg.magic
  PROVE  Synced(rest)'
<1>1. frame \in Seq(Byte) /\ frame # <<>> /\ c \in Byte /\ frame[1] = rxmsg.magic
  BY InFrame, Taken
<1>2. frame'[1] = frame[1]
  BY <1>1, AppendLast
<1>3. frame' \o buf' = frame \o buf
  BY Moves
<1>4. /\ Rests(rest, intact) /\ (reader = "main" => rest[Len(intact)] = <<>>)
      /\ reader = "download" => Len(intact) <= 1
      /\ Len(delivered) <= Len(intact) /\ Len(delivered) < Len(intact)
      /\ \A k \in 1..Len(delivered) : SameMessage(delivered[k], intact[k])
      /\ frame \o buf = rest[Len(delivered)]
  BY DEF Synced
<1>5. intact' = intact /\ reader' = reader /\ delivered' = delivered
  BY DEF datagram
<1>. QED  BY <1>1, <1>2, <1>3, <1>4, <1>5 DEF Synced

(* So does the marker of the next frame.                                   *)
LEMMA SyncedStarts ==
  ASSUME TypeInv, NEW rest, Synced(rest), Start
  PROVE  Synced(rest)'
<1>1. /\ parse_state = "IDLE" /\ buf # <<>> /\ UNCHANGED <<datagram, delivered>>
      /\ frame' = <<c>> /\ buf' = Tail(buf) /\ parse_state' = "GOT_STX" /\ rxmsg' = Marker(rxmsg)
      /\ rxmsg \in Received
  BY DEF Start, Incomplete, Parses, TypeInv, TypeOK
<1>2. Len(delivered) < Len(intact) /\ buf = rest[Len(delivered)]
  BY <1>1, NextBegins
<1>3. c \in Byte /\ buf = <<c>> \o Tail(buf)
  BY <1>1, Taken
<1>4. frame' \o buf' = buf
  BY <1>1, <1>3
<1>5. frame'[1] = rxmsg'.magic
  BY <1>1 DEF Marker, Received
<1>6. intact' = intact /\ reader' = reader /\ delivered' = delivered
  BY <1>1 DEF datagram
<1>7. /\ Rests(rest, intact) /\ (reader = "main" => rest[Len(intact)] = <<>>)
      /\ reader = "download" => Len(intact) <= 1
      /\ Len(delivered) <= Len(intact)
      /\ \A k \in 1..Len(delivered) : SameMessage(delivered[k], intact[k])
  BY DEF Synced
<1>. QED  BY <1>1, <1>2, <1>4, <1>5, <1>6, <1>7 DEF Synced

(* A message that is delivered is the next one, and its frame all that the *)
(* parser has taken.                                                       *)
LEMMA SyncedDelivers ==
  ASSUME TypeInv, TypeInv', FrameInv, NEW rest, Synced(rest), [Next]_vars,
         Len(delivered') > Len(delivered)
  PROVE  Synced(rest)'
<1> DEFINE m == NextMessage
           r == NextRest(rest)
           j == Len(delivered)
           n == Len(intact)
<1>1. /\ delivered' = Append(delivered, rxmsg) /\ rxmsg \in Received /\ Filled(rxmsg)
      /\ buf # <<>> /\ buf' = Rest /\ parse_state' = "IDLE" /\ UNCHANGED datagram
      /\ parse_state \in {"GOT_CRC1", "SIGNATURE_WAIT"} /\ frame' = Append(frame, c)
      /\ Crc(Covered(rxmsg)) \in Seq(Byte)
  BY Delivery
<1>2. PICK signature \in Seq(Byte) : /\ frame' = FrameOf(frame[1], rxmsg) \o signature
                                     /\ Len(signature) = SignatureLen(rxmsg)
  BY Delivery
<1>3. parse_state # "IDLE" /\ parse_state \notin HeaderStates
  BY <1>1 DEF HeaderStates
<1>4. /\ m \in Messages /\ r \in Seq(Byte) /\ frame \o buf = Sent(m) \o r
      /\ frame[1] = rxmsg.magic /\ Version1(rxmsg)
  BY <1>3, InFrame
<1>5. Tail(buf) \in Seq(Byte) /\ frame' \o Tail(buf) = frame \o buf
  <2>1. Tail(buf) \in Seq(Byte)
    BY <1>1, Taken
  <2>2. Append(frame, c) \o Tail(buf) = frame \o buf
    BY <1>1, Moves
  <2>. QED  BY <1>1, <2>1, <2>2
<1> HIDE DEF m, r
<1>6. Tail(buf) = r /\ SameMessage(rxmsg, m)
  <2> DEFINE t == Tail(buf)
  <2>1. t \in Seq(Byte) /\ (FrameOf(rxmsg.magic, rxmsg) \o signature) \o t = Sent(m) \o r
    BY <1>2, <1>4, <1>5
  <2> HIDE DEF t
  <2>2. t = r /\ SameMessage(rxmsg, m)
    BY <1>1, <1>2, <1>4, <2>1, FramesAgree
  <2>. QED  BY <2>2 DEF t
<1>7. /\ Rests(rest, intact) /\ (reader = "main" => rest[n] = <<>>)
      /\ reader = "download" => n <= 1
      /\ j < n
      /\ \A k \in 1..j : SameMessage(delivered[k], intact[k])
  BY <1>3 DEF Synced
<1>8. intact' = intact /\ reader' = reader /\ reader \in {"main", "download"}
  BY <1>1 DEF datagram, TypeInv, TypeOK
<1>9. delivered \in Seq(Received) /\ j \in Nat /\ n \in Nat
  <2>1. delivered \in Seq(Received) /\ intact \in Seq(Messages)
    BY DEF TypeInv, TypeOK
  <2>. QED  BY <2>1, LenProperties
<1>10. /\ Len(delivered') = j + 1 /\ delivered'[j + 1] = rxmsg
       /\ \A k \in 1..j : delivered'[k] = delivered[k]
  BY <1>1, <1>9, AppendProperties
<1>11. m = intact[j + 1] /\ r = rest[j + 1]
  BY DEF m, r, NextMessage, NextRest
<1> HIDE DEF j, n
<1>12. \A k \in 1..Len(delivered') : SameMessage(delivered'[k], intact[k])
  <2>1. \A k \in 1..(j + 1) : k \in 1..j \/ k = j + 1
    BY <1>9
  <2>. QED  BY <1>6, <1>7, <1>10, <1>11, <2>1
<1>13. buf' = IF reader = "main" THEN r ELSE <<>>
  BY <1>1, <1>6 DEF Rest
<1>14. buf' = IF j + 1 = n THEN <<>> ELSE rest[j + 1]
  <2>1. CASE reader = "main"
    BY <1>7, <1>11, <1>13, <2>1
  <2>2. CASE reader = "download"
    <3>1. j + 1 = n
      BY <1>7, <1>9, <2>2
    <3>. QED  BY <1>13, <2>2, <3>1
  <2>. QED  BY <1>8, <2>1, <2>2
<1>15. j + 1 <= n
  BY <1>7, <1>9
<1>16. Len(intact') = n /\ Len(delivered') = j + 1
  BY <1>8, <1>10 DEF n
<1>17. parse_state' = "IDLE"
  BY <1>1
<1>18. Rests(rest, intact') /\ (reader' = "main" => rest[Len(intact')] = <<>>)
       /\ (reader' = "download" => Len(intact') <= 1)
  BY <1>7, <1>8, <1>16
<1>. QED  BY <1>8, <1>12, <1>14, <1>15, <1>16, <1>17, <1>18 DEF Synced

(* A beginning of two sequences that holds the first one whole.            *)
LEMMA CutAfter ==
  ASSUME NEW a \in Seq(Byte), NEW b \in Seq(Byte), NEW n \in Nat, Len(a) <= n, n <= Len(a \o b)
  PROVE  \E x \in Seq(Byte) : SubSeq(a \o b, 1, n) = a \o x
<1> DEFINE w == a \o b
           i == n - Len(a)
           x == SubSeq(b, 1, i)
           u == SubSeq(w, 1, n)
           v == a \o x
<1>1. Len(a) \in Nat /\ Len(b) \in Nat
  BY LenProperties
<1>2. /\ w \in Seq(Byte) /\ Len(w) = Len(a) + Len(b)
      /\ \A k \in 1..(Len(a) + Len(b)) : w[k] = IF k <= Len(a) THEN a[k] ELSE b[k - Len(a)]
  BY ConcatProperties
<1>3. i \in 0..Len(b) /\ n \in 0..Len(w) /\ n = Len(a) + i
  BY <1>1, <1>2
<1> HIDE DEF w
<1>4. u \in Seq(Byte) /\ Len(u) = n /\ \A k \in 1..n : u[k] = w[k]
  BY <1>2, <1>3, Beginning
<1> HIDE DEF u, i
<1>5. x \in Seq(Byte) /\ Len(x) = i /\ \A k \in 1..i : x[k] = b[k]
  BY <1>3, Beginning
<1> HIDE DEF x
<1>6. /\ v \in Seq(Byte) /\ Len(v) = Len(a) + i
      /\ \A k \in 1..(Len(a) + i) : v[k] = IF k <= Len(a) THEN a[k] ELSE x[k - Len(a)]
  BY <1>5, ConcatProperties
<1> HIDE DEF v
<1>7. ASSUME NEW k \in 1..n PROVE u[k] = v[k]
  <2>1. k \in 1..(Len(a) + Len(b)) /\ k \in 1..(Len(a) + i)
    BY <1>1, <1>3
  <2>2. CASE k <= Len(a)
    BY <1>2, <1>4, <1>6, <2>1, <2>2
  <2>3. CASE ~(k <= Len(a))
    <3>1. k - Len(a) \in 1..i
      BY <1>1, <1>3, <2>3
    <3>. QED  BY <1>2, <1>4, <1>5, <1>6, <2>1, <2>3, <3>1
  <2>. QED  BY <2>2, <2>3
<1>8. u = v
  BY <1>3, <1>4, <1>6, <1>7, SeqEqual
<1>. QED  BY <1>5, <1>8 DEF u, v, w

(* A clean datagram begins where the parser is, and holds its frames.      *)
LEMMA SyncedReceives ==
  ASSUME TypeInv, TypeInv', NEW r \in {"main", "download"}, recvfrom(r), clean'
  PROVE  \E rest : Synced(rest)'
<1>1. ~Broken
  BY DEF Broken
<1>2. PICK n \in 1..MaxFrames : \E ms \in [1..n -> Messages] :
         buf' = Cut(Wire(ms), r) /\ Fits(ms, r) /\ Whole(ms, r)
  BY <1>1 DEF recvfrom
<1>3. PICK ms \in [1..n -> Messages] : buf' = Cut(Wire(ms), r) /\ Fits(ms, r) /\ Whole(ms, r)
  BY <1>2
<1>4. /\ parse_state = "IDLE" /\ parse_state' = "IDLE" /\ delivered' = <<>> /\ reader' = r
      /\ intact' = IF r = "main" THEN ms ELSE <<ms[1]>>
  BY <1>3 DEF Whole, recvfrom, Receives, status
<1>5. n \in Nat /\ n >= 1 /\ 1 \in 1..n
  BY BufferAssumption
<1>6. ms \in Seq(Messages) /\ Len(ms) = n
  <2>1. ms \in Seq(Messages)
    BY <1>5, SeqDef
  <2>2. Len(ms) = n
    BY <1>5, <2>1
  <2>. QED  BY <2>1, <2>2
<1>7. PICK rest : Rests(rest, ms) /\ rest[0] = Wire(ms) /\ rest[Len(ms)] = <<>>
  BY <1>6, WireIs
<1>8. /\ rest \in [0..n -> Seq(Byte)]
      /\ \A k \in 1..n : rest[k - 1] = Sent(ms[k]) \o rest[k]
  BY <1>6, <1>7 DEF Rests, Left, SomeBytes
<1> DEFINE w == Wire(ms)
           a == Sent(ms[1])
           b == rest[1]
           B == BufferOf(r)
<1>9. w = a \o b /\ a \in Seq(Byte) /\ b \in Seq(Byte) /\ w \in Seq(Byte)
  <2>1. 1 - 1 = 0 /\ 1 \in 0..n /\ 0 \in 0..n
    BY <1>5
  <2>2. w = a \o b /\ b \in Seq(Byte) /\ w \in Seq(Byte)
    BY <1>5, <1>7, <1>8, <2>1
  <2>3. a \in Seq(Byte)
    <3>1. ms[1] \in Messages
      BY <1>5
    <3>. QED  BY <3>1, DatagramsAssumption DEF SomeBytes
  <2>. QED  BY <2>2, <2>3
<1>10. /\ Len(w) \in Nat /\ Len(a) \in Nat /\ Len(b) \in Nat /\ B \in Nat /\ Len(w) = Len(a) + Len(b)
  <2>1. Len(w) \in Nat /\ Len(a) \in Nat /\ Len(b) \in Nat
    BY <1>9, LenProperties
  <2>2. Len(a \o b) = Len(a) + Len(b)
    BY <1>9, ConcatProperties
  <2>3. B \in Nat
    BY BufferAssumption DEF BufferOf
  <2>. QED  BY <1>9, <2>1, <2>2, <2>3
<1>11. Len(w) <= B \/ (r = "download" /\ Len(a) <= B)
  BY <1>3 DEF Fits
<1>12. buf' = SubSeq(w, 1, IF Len(w) > B THEN B ELSE Len(w))
  BY <1>3 DEF Cut
<1> HIDE DEF w, a, b, B
<1>13. CASE r = "main"
  <2>1. Len(w) <= B
    BY <1>11, <1>13
  <2>2. buf' = w
    <3>1. buf' = SubSeq(w, 1, Len(w))
      BY <1>10, <1>12, <2>1
    <3>. QED  BY <1>9, <3>1, SubSeqFull
  <2>3. Len(delivered') = 0 /\ Len(intact') = n /\ intact' = ms /\ reader' = "main"
    BY <1>4, <1>6, <1>13
  <2>4. Synced(rest)'
    <3>1. \A k \in 1..Len(delivered') : SameMessage(delivered'[k], intact'[k])
      BY <2>3
    <3>2. buf' = IF Len(delivered') = Len(intact') THEN <<>> ELSE rest[Len(delivered')]
      BY <1>5, <1>7, <2>2, <2>3 DEF w
    <3>3. Len(delivered') <= Len(intact')
      BY <1>5, <2>3
    <3>. QED  BY <1>4, <1>6, <1>7, <2>3, <3>1, <3>2, <3>3 DEF Synced
  <2>. QED  BY <2>4
<1>14. CASE r = "download"
  <2> DEFINE i == IF Len(w) > B THEN B ELSE Len(w)
  <2>1. i \in Nat /\ Len(a) <= i /\ i <= Len(w)
    BY <1>10, <1>11
  <2>2. buf' = SubSeq(w, 1, i)
    BY <1>12
  <2> HIDE DEF i
  <2>3. PICK x \in Seq(Byte) : SubSeq(a \o b, 1, i) = a \o x
    BY <1>9, <2>1, CutAfter
  <2>4. buf' = a \o x
    BY <1>9, <2>2, <2>3
  <2> DEFINE new == [k \in 0..1 |-> IF k = 0 THEN a \o x ELSE x]
  <2>5. Len(delivered') = 0 /\ intact' = <<ms[1]>> /\ Len(intact') = 1 /\ intact'[1] = ms[1]
        /\ reader' = "download"
    BY <1>4, <1>14
  <2>6. new \in [0..1 -> Seq(Byte)] /\ new[0] = a \o x /\ new[1] = x
    <3>1. a \o x \in Seq(Byte)
      BY <1>9, <2>3, ConcatProperties
    <3> DEFINE y == a \o x
    <3> HIDE DEF y
    <3>2. [k \in 0..1 |-> IF k = 0 THEN y ELSE x] \in [0..1 -> Seq(Byte)]
      BY <3>1 DEF y
    <3>. QED  BY <3>2 DEF y
  <2> HIDE DEF new
  <2>7. Rests(new, intact')
    <3>1. \A k \in 1..1 : k = 1 /\ k - 1 = 0
      OBVIOUS
    <3>2. new[0] = Sent(intact'[1]) \o new[1]
      BY <2>5, <2>6 DEF a
    <3>. QED  BY <2>5, <2>6, <3>1, <3>2 DEF Rests, Left, SomeBytes
  <2>8. Synced(new)'
    <3>1. \A k \in 1..Len(delivered') : SameMessage(delivered'[k], intact'[k])
      BY <2>5
    <3>2. buf' = IF Len(delivered') = Len(intact') THEN <<>> ELSE new[Len(delivered')]
      BY <2>4, <2>5, <2>6
    <3>3. Len(delivered') <= Len(intact') /\ Len(intact') <= 1
      BY <2>5
    <3>. QED  BY <1>4, <2>5, <2>7, <3>1, <3>2, <3>3 DEF Synced
  <2>. QED  BY <2>8
<1>. QED  BY <1>13, <1>14

(* The parser stays in step at every byte of a clean datagram: the cases   *)
(* in which it would lose the frame do not arise.                          *)
LEMMA SyncedStep ==
  ASSUME TypeInv, TypeInv', FrameInv, FrameInv', NEW rest, Synced(rest), mavlink_parse_char
  PROVE  Synced(rest)'
<1>1. rxmsg \in Received
  BY DEF TypeInv, TypeOK
<1>2. CASE Skip
  <2>1. parse_state = "IDLE" /\ buf # <<>> /\ c \notin {STX, STX_MAVLINK1}
    BY <1>2 DEF Skip, Incomplete, Parses
  <2>. QED  BY <2>1, NextBegins
<1>3. CASE Start
  BY <1>3, SyncedStarts
<1>4. CASE UnknownFlags
  <2>1. parse_state = "GOT_LENGTH" /\ c \notin {0, IFLAG_SIGNED}
    BY <1>4 DEF UnknownFlags, Incomplete, Parses
  <2>. QED  BY <2>1, HeaderAhead DEF HeaderStates
<1>5. ASSUME NEW from, NEW to, NEW rx, Takes(from, rx, to), from # "IDLE",
             to \notin {"IDLE", "GOT_BAD_CRC1"}, rx \in Received, rx.magic = rxmsg.magic
      PROVE  Synced(rest)'
  <2>1. /\ parse_state # "IDLE" /\ buf # <<>> /\ UNCHANGED <<datagram, delivered>>
        /\ frame' = Append(frame, c) /\ buf' = Tail(buf)
        /\ parse_state' \notin {"IDLE", "GOT_BAD_CRC1"}
    BY <1>5 DEF Takes, Incomplete, Parses
  <2>2. rxmsg'.magic = rxmsg.magic
    BY <1>5 DEF Takes, Received
  <2>. QED  BY <2>1, <2>2, SyncedGoesOn
<1>6. CASE Length \/ IncompatFlags \/ HeaderByte \/ PayloadByte
  <2>1. buf # <<>>
    BY <1>6 DEF Length, IncompatFlags, HeaderByte, PayloadByte, TakesHeader, Takes, Incomplete, Parses
  <2>2. c \in Byte /\ 0 \in Byte
    BY <2>1, Taken, MarkerAssumption DEF Byte
  <2>3. CASE Length
    <3>1. /\ [rxmsg EXCEPT !.len = c, !.incompat_flags = 0, !.compat_flags = 0] \in Received
          /\ [rxmsg EXCEPT !.len = c] \in Received
          /\ [rxmsg EXCEPT !.len = c, !.incompat_flags = 0, !.compat_flags = 0].magic = rxmsg.magic
          /\ [rxmsg EXCEPT !.len = c].magic = rxmsg.magic
      BY <1>1, <2>2 DEF Received
    <3>. QED  BY <1>5, <2>3, <3>1 DEF Length
  <2>4. CASE IncompatFlags
    <3>1. /\ [rxmsg EXCEPT !.incompat_flags = c] \in Received
          /\ [rxmsg EXCEPT !.incompat_flags = c].magic = rxmsg.magic
      BY <1>1, <2>2 DEF Received
    <3>. QED  BY <1>5, <2>4, <3>1 DEF IncompatFlags, TakesHeader
  <2>5. CASE HeaderByte
    <3>1. AfterHeader \in {"GOT_MSGID3", "GOT_PAYLOAD"}
      BY DEF AfterHeader
    <3>2. /\ [rxmsg EXCEPT !.compat_flags = c] \in Received
          /\ [rxmsg EXCEPT !.seq = c] \in Received
          /\ [rxmsg EXCEPT !.sysid = c] \in Received
          /\ [rxmsg EXCEPT !.compid = c] \in Received
          /\ [rxmsg EXCEPT !.msgid = <<c, 0, 0>>] \in Received
          /\ [rxmsg EXCEPT !.msgid[2] = c] \in Received
          /\ [rxmsg EXCEPT !.msgid[3] = c] \in Received
      BY <1>1, <2>2, UpdatesAre
    <3>3. /\ [rxmsg EXCEPT !.compat_flags = c].magic = rxmsg.magic
          /\ [rxmsg EXCEPT !.seq = c].magic = rxmsg.magic
          /\ [rxmsg EXCEPT !.sysid = c].magic = rxmsg.magic
          /\ [rxmsg EXCEPT !.compid = c].magic = rxmsg.magic
          /\ [rxmsg EXCEPT !.msgid = <<c, 0, 0>>].magic = rxmsg.magic
          /\ [rxmsg EXCEPT !.msgid[2] = c].magic = rxmsg.magic
          /\ [rxmsg EXCEPT !.msgid[3] = c].magic = rxmsg.magic
      BY <1>1 DEF Received
    <3>4. CASE \/ TakesHeader("GOT_INCOMPAT_FLAGS", [rxmsg EXCEPT !.compat_flags = c], "GOT_COMPAT_FLAGS")
               \/ TakesHeader("GOT_COMPAT_FLAGS", [rxmsg EXCEPT !.seq = c], "GOT_SEQ")
               \/ TakesHeader("GOT_SEQ", [rxmsg EXCEPT !.sysid = c], "GOT_SYSID")
               \/ TakesHeader("GOT_SYSID", [rxmsg EXCEPT !.compid = c], "GOT_COMPID")
      BY <1>5, <3>2, <3>3, <3>4 DEF TakesHeader
    <3>5. CASE \/ TakesHeader("GOT_COMPID", [rxmsg EXCEPT !.msgid = <<c, 0, 0>>],
                              IF in_mavlink1 THEN AfterHeader ELSE "GOT_MSGID1")
               \/ TakesHeader("GOT_MSGID1", [rxmsg EXCEPT !.msgid[2] = c], "GOT_MSGID2")
               \/ TakesHeader("GOT_MSGID2", [rxmsg EXCEPT !.msgid[3] = c], AfterHeader)
      BY <1>5, <3>1, <3>2, <3>3, <3>5 DEF TakesHeader
    <3>. QED  BY <2>5, <3>4, <3>5 DEF HeaderByte
  <2>6. CASE PayloadByte
    <3> DEFINE rx == [rxmsg EXCEPT !.payload[packet_idx + 1] = c]
    <3>1. parse_state = "GOT_MSGID3"
      BY <2>6 DEF PayloadByte, Takes, Incomplete, Parses
    <3>2. packet_idx \in Byte /\ packet_idx < rxmsg.len /\ rxmsg.len \in Byte
      BY <1>1, <3>1 DEF TypeInv, TypeOK, Received
    <3>3. packet_idx + 1 \in 1..MAX_PAYLOAD_LEN
      BY <3>2, MarkerAssumption DEF Byte
    <3>4. rx \in Received
      BY <1>1, <2>2, <3>3, UpdatesAre
    <3>5. rx.magic = rxmsg.magic
      BY <1>1 DEF Received
    <3> HIDE DEF rx
    <3>6. Takes("GOT_MSGID3", rx, IF packet_idx + 1 = rxmsg.len THEN "GOT_PAYLOAD" ELSE "GOT_MSGID3")
      BY <2>6 DEF PayloadByte, rx
    <3>. QED  BY <1>5, <3>4, <3>5, <3>6
  <2>. QED  BY <1>6, <2>3, <2>4, <2>5, <2>6
<1>7. CASE FirstCrc
  <2>1. /\ parse_state = "GOT_PAYLOAD" /\ buf # <<>> /\ UNCHANGED <<datagram, delivered>>
        /\ frame' = Append(frame, c) /\ buf' = Tail(buf)
    BY <1>7 DEF FirstCrc, Incomplete, Parses
  <2>2. c = CrcLow(Covered(rxmsg))
    BY <2>1, PayloadAhead
  <2>3. parse_state' = "GOT_CRC1" /\ rxmsg'.magic = rxmsg.magic
    BY <1>7, <2>2, FrameFirstCrc DEF AfterFirstCrc
  <2>. QED  BY <2>1, <2>3, SyncedGoesOn
<1>8. ASSUME Len(delivered') > Len(delivered) PROVE Synced(rest)'
  <2>1. [Next]_vars
    BY DEF Next
  <2>. QED  BY <1>8, <2>1, SyncedDelivers
<1>9. Delivers => Len(delivered') > Len(delivered)
  <2>1. ASSUME Delivers PROVE Len(delivered') > Len(delivered)
    <3>1. delivered \in Seq(Received) /\ delivered' = Append(delivered, rxmsg)
      BY <2>1 DEF Delivers, TypeInv, TypeOK
    <3>2. Len(delivered) \in Nat /\ Len(delivered') = Len(delivered) + 1
      BY <1>1, <3>1, AppendProperties, LenProperties
    <3>. QED  BY <3>2
  <2>. QED  BY <2>1
<1>10. CASE GoodCrc \/ Signature
  <2>1. CASE Delivers
    BY <1>8, <1>9, <2>1
  <2>2. CASE ~Delivers
    <3>1. /\ parse_state # "IDLE" /\ buf # <<>> /\ UNCHANGED <<datagram, delivered>>
          /\ frame' = Append(frame, c) /\ buf' = Tail(buf)
          /\ parse_state' \notin {"IDLE", "GOT_BAD_CRC1"} /\ rxmsg' = rxmsg
      BY <1>10, <2>2 DEF GoodCrc, Signature, Parses
    <3>. QED  BY <3>1, SyncedGoesOn
  <2>. QED  BY <2>1, <2>2
<1>11. CASE BadCrc
  <2>1. parse_state = "GOT_CRC1" /\ c # CrcHigh(rxmsg.checksum)
    BY <1>11 DEF BadCrc, Synced
  <2>. QED  BY <2>1, CrcAhead
<1>. QED  BY <1>2, <1>3, <1>4, <1>6, <1>7, <1>10, <1>11 DEF mavlink_parse_char

(* Every step keeps a clean datagram coming through.                       *)
LEMMA CleanStep ==
  ASSUME TypeInv, TypeInv', FrameInv, FrameInv', CleanInv, [Next]_vars
  PROVE  CleanInv'
<1> SUFFICES ASSUME clean' PROVE \E rest : Synced(rest)'
  BY DEF CleanInv
<1>1. ASSUME NEW r \in {"main", "download"}, recvfrom(r) PROVE \E rest : Synced(rest)'
  BY <1>1, SyncedReceives
<1>2. CASE mavlink_parse_char
  <2>1. clean' = clean
    BY <1>2 DEF mavlink_parse_char, Skip, Start, Length, IncompatFlags, UnknownFlags, HeaderByte,
                PayloadByte, FirstCrc, GoodCrc, BadCrc, Signature, TakesHeader, Takes, Incomplete,
                Parses, datagram
  <2>2. PICK rest : Synced(rest)
    BY <2>1 DEF CleanInv
  <2>3. Synced(rest)'
    BY <1>2, <2>2, SyncedStep
  <2>. QED  BY <2>3
<1>3. CASE UNCHANGED vars
  <2>1. PICK rest : Synced(rest)
    BY <1>3 DEF CleanInv, vars, datagram
  <2>2. Synced(rest)'
    BY <1>3, <2>1 DEF Synced, vars, datagram, status
  <2>. QED  BY <2>2
<1>. QED  BY <1>1, <1>2, <1>3 DEF Next

(* At first nothing has been sent.                                         *)
LEMMA CleanInit == Init => CleanInv
<1> SUFFICES ASSUME Init PROVE \E rest : Synced(rest)
  BY DEF CleanInv
<1> DEFINE rest == [k \in 0..0 |-> <<>>]
<1>1. rest \in [0..0 -> SomeBytes] /\ rest[0] = <<>>
  BY EmptySeq DEF SomeBytes
<1>2. /\ intact = <<>> /\ delivered = <<>> /\ buf = <<>> /\ parse_state = "IDLE" /\ reader = "main"
      /\ Len(<<>>) = 0
  BY DEF Init
<1> HIDE DEF rest
<1>3. Rests(rest, intact)
  BY <1>1, <1>2 DEF Rests, Left
<1>4. Synced(rest)
  BY <1>1, <1>2, <1>3 DEF Synced
<1>. QED  BY <1>4

(* mavlink_parse_char over mavlink_frame_char_buffer: of a datagram of     *)
(* whole frames that begins between frames every message is delivered, in  *)
(* order, whatever its fields and its payload, and nothing is left over,   *)
(* whichever of the two sockets it came from.                              *)
THEOREM CleanDatagramsCorrect == Spec => []CleanDatagramsComeThrough
<1>1. TypeInv /\ TypeInv' /\ FrameInv /\ FrameInv' /\ CleanInv /\ [Next]_vars => CleanInv'
  BY CleanStep
<1>2. TypeInv /\ FrameInv /\ CleanInv => CleanDatagramsComeThrough
  <2> SUFFICES ASSUME TypeInv, FrameInv, CleanInv, buf = <<>>, clean
               PROVE  /\ parse_state = "IDLE"
                      /\ Len(delivered) = Len(intact)
                      /\ \A k \in DOMAIN intact : SameMessage(delivered[k], intact[k])
    BY DEF CleanDatagramsComeThrough
  <2>1. PICK rest : Synced(rest)
    BY DEF CleanInv
  <2>2. parse_state = "IDLE"
    <3>1. (parse_state \in States /\ parse_state # "GOT_BAD_CRC1") \/ parse_state = "IDLE"
      BY <2>1 DEF Synced, TypeInv, TypeOK
    <3>2. parse_state \notin HeaderStates \cup {"GOT_MSGID3", "GOT_PAYLOAD", "GOT_CRC1", "SIGNATURE_WAIT"}
      BY <2>1, HeaderAhead, PayloadAhead, CrcAhead, SignatureAhead
    <3>. QED  BY <3>1, <3>2 DEF States, HeaderStates
  <2>3. Len(delivered) = Len(intact)
    BY <2>1, <2>2, NextBegins
  <2>4. intact \in Seq(Messages)
    BY DEF TypeInv, TypeOK
  <2>5. DOMAIN intact = 1..Len(intact)
    BY <2>4, LenProperties
  <2>. QED  BY <2>1, <2>2, <2>3, <2>5 DEF Synced
<1>. QED  BY CleanInit, <1>1, <1>2, TypeInvariant, FrameInvariant, PTL DEF Spec
=============================================================================
