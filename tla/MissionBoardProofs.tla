------------------------- MODULE MissionBoardProofs -------------------------
(***************************************************************************)
(* Machine-checked facts about MissionBoard, for any clients, any missions *)
(* and any number of downloads.  Whatever implements the board inherits    *)
(* them: the lemmas are stated for one step, and cited by instance.        *)
(***************************************************************************)
EXTENDS MissionBoard, TLAPS

Telling == [id : Int, mission : Missions \union {NoMission}]

(* A client knows at most the number on the board and, under that number,  *)
(* the mission on the board; a client that is not lost is at most one      *)
(* number behind.                                                          *)
Knows(c) ==
  \/ seen[c] = Nothing
  \/ /\ seen[c].id \in 0..number
     /\ seen[c].id = number => seen[c].mission = mission
     /\ c \notin lost => seen[c].id >= number - 1

BoardInv ==
  /\ number \in Nat /\ mission \in Missions \union {NoMission}
  /\ seen \in [Clients -> Telling]
  /\ \A c \in Clients : Knows(c)

LEMMA BoardInit == Init => BoardInv
<1>. SUFFICES ASSUME Init PROVE BoardInv
  OBVIOUS
<1>1. Nothing \in Telling
  BY DEF Nothing, Telling
<1>. QED  BY <1>1 DEF Init, BoardInv, Knows

LEMMA BoardStep == BoardInv /\ [Next]_boardVars => BoardInv'
<1>. SUFFICES ASSUME BoardInv, [Next]_boardVars PROVE BoardInv'
  OBVIOUS
<1>. USE DEF BoardInv
<1>1. CASE Publish
  <2>1. /\ number' = number + 1 /\ UNCHANGED seen /\ lost \subseteq lost'
        /\ mission' \in Missions \union {NoMission}
        /\ \A c \in Clients : Owed(c) => c \in lost'
    BY <1>1 DEF Publish, NextNumber
  <2>2. ASSUME NEW c \in Clients PROVE Knows(c)'
    BY <2>1, <2>2 DEF Owed, Knows, Nothing
  <2>. QED  BY <2>1, <2>2
<1>2. ASSUME NEW c \in Clients, Tell(c) PROVE BoardInv'
  <2>1. /\ number' = number /\ mission' = mission /\ lost' \in {lost, lost \ {c}}
        /\ seen' = [seen EXCEPT ![c] = Board]
    BY <1>2 DEF Tell
  <2>2. Board \in Telling /\ Board.id = number /\ Board.mission = mission
    BY DEF Board, Telling
  <2>3. seen' \in [Clients -> Telling]
    BY <2>1, <2>2
  <2>4. ASSUME NEW d \in Clients PROVE Knows(d)'
    <3>1. CASE d = c
      <4>1. seen'[d].id = number /\ seen'[d].mission = mission
        BY <2>1, <2>2, <3>1
      <4>. QED  BY <2>1, <4>1 DEF Knows
    <3>2. CASE d # c
      <4>1. seen'[d] = seen[d] /\ (d \notin lost' => d \notin lost)
        BY <2>1, <3>2
      <4>. QED  BY <2>1, <4>1 DEF Knows, Nothing
    <3>. QED  BY <3>1, <3>2
  <2>. QED  BY <2>1, <2>3, <2>4
<1>3. ASSUME NEW c \in Clients, Join(c) PROVE BoardInv'
  <2>1. /\ number' = number /\ mission' = mission /\ lost \ {c} \subseteq lost'
        /\ seen' = [seen EXCEPT ![c] = Nothing]
    BY <1>3 DEF Join
  <2>2. Nothing \in Telling
    BY DEF Nothing, Telling
  <2>3. ASSUME NEW d \in Clients PROVE Knows(d)'
    BY <2>1 DEF Knows, Nothing
  <2>. QED  BY <2>1, <2>2, <2>3
<1>4. CASE Lose
  BY <1>4 DEF Lose, Knows, Nothing
<1>5. CASE UNCHANGED boardVars
  BY <1>5 DEF boardVars, Knows, Nothing
<1>. QED  BY <1>1, <1>2, <1>3, <1>4, <1>5 DEF Next

(* What a client may be told next: the same number or the following one,   *)
(* and never another mission under the same number.                        *)
LEMMA NextTelling ==
  ASSUME BoardInv, [Next]_boardVars, NEW c \in Clients
  PROVE  /\ seen[c] # Nothing /\ seen'[c] # Nothing /\ c \notin lost =>
              seen'[c].id - seen[c].id \in {0, 1}
         /\ seen'[c].id = seen[c].id => seen'[c].mission = seen[c].mission
<1>. USE DEF BoardInv
<1>1. CASE seen'[c] = seen[c]
  <2>1. seen[c].id \in Int
    BY DEF Telling
  <2>. QED  BY <1>1, <2>1
<1>2. ASSUME seen' = [seen EXCEPT ![c] = Board]
      PROVE  /\ seen[c] # Nothing /\ c \notin lost => seen'[c].id - seen[c].id \in {0, 1}
             /\ seen'[c].id = seen[c].id => seen'[c].mission = seen[c].mission
  <2>1. seen'[c].id = number /\ seen'[c].mission = mission
    BY <1>2 DEF Board
  <2>2. seen[c] = Nothing => seen[c].id = -1
    BY DEF Nothing
  <2>. QED  BY <2>1, <2>2 DEF Knows
<1>3. ASSUME seen' = [seen EXCEPT ![c] = Nothing]
      PROVE  /\ seen'[c] = Nothing
             /\ seen'[c].id = seen[c].id => seen'[c].mission = seen[c].mission
  <2>1. seen'[c].id = -1 /\ seen'[c] = Nothing
    BY <1>3 DEF Nothing
  <2>2. seen[c].id = -1 => seen[c] = Nothing
    BY DEF Knows
  <2>. QED  BY <2>1, <2>2
<1>4. \/ seen'[c] = seen[c]
      \/ seen' = [seen EXCEPT ![c] = Board]
      \/ seen' = [seen EXCEPT ![c] = Nothing]
  <2>1. ASSUME NEW d \in Clients, Tell(d) \/ Join(d), d # c PROVE seen'[c] = seen[c]
    BY <2>1 DEF Tell, Join
  <2>. QED  BY <2>1 DEF Next, Publish, Tell, Join, Lose, boardVars
<1>. QED  BY <1>1, <1>2, <1>3, <1>4

(* A client is told the missions by consecutive numbers and one mission    *)
(* under each: what a page needs to recognise the answer to its request.   *)
THEOREM NumbersAreConsecutive == Spec => [][\A c \in Clients :
  /\ seen[c] # Nothing /\ seen'[c] # Nothing /\ c \notin lost =>
       seen'[c].id - seen[c].id \in {0, 1}
  /\ seen'[c].id = seen[c].id => seen'[c].mission = seen[c].mission]_boardVars
<1>1. BoardInv /\ [Next]_boardVars =>
        [\A c \in Clients :
          /\ seen[c] # Nothing /\ seen'[c] # Nothing /\ c \notin lost =>
               seen'[c].id - seen[c].id \in {0, 1}
          /\ seen'[c].id = seen[c].id => seen'[c].mission = seen[c].mission]_boardVars
  BY NextTelling
<1>. QED  BY <1>1, BoardInit, BoardStep, PTL DEF Spec
=============================================================================
