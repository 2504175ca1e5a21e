---------------------------- MODULE MissionBoard ----------------------------
(***************************************************************************)
(* What the backend promises the pages about missions, without its threads,*)
(* flags and loops.  There is one board: the mission of the last download, *)
(* under a number that counts the downloads.  The clients are told what is *)
(* on the board, one number after the other, so that a client that asks    *)
(* for a mission recognises it by the number that follows the one it knows.*)
(* A number that is replaced before a client was told it breaks the        *)
(* promise to this client, which is lost until it is told again.           *)
(*                                                                         *)
(* GcsServer implements this module, and GcsPage uses it as its backend.   *)
(***************************************************************************)
EXTENDS Integers

CONSTANTS
  Clients,    \* who is told
  Missions,   \* what a download may find
  NoMission   \* what is shown before the first download

VARIABLES
  number,     \* how many downloads there were
  mission,    \* what the last of them found
  seen,       \* what each client was told last
  lost        \* the clients that may miss a number

boardVars == <<number, mission, seen, lost>>

Nothing == [id |-> -1, mission |-> NoMission]
Board   == [id |-> number, mission |-> mission]

Init ==
  /\ number = 0 /\ mission = NoMission
  /\ seen = [c \in Clients |-> Nothing]
  /\ lost \in SUBSET Clients

(* The client knows a number, and not the one on the board. *)
Owed(c) == c \notin lost /\ seen[c] # Nothing /\ seen[c].id # number

NextNumber_OnChange(m) == IF m = mission THEN number ELSE number + 1
NextNumber(m) == number + 1

(* A failed download leaves the mission and counts all the same.  Whoever  *)
(* was not told the number before is lost.                                 *)
Publish ==
  /\ mission' \in Missions \union {mission}
  /\ number' = NextNumber(mission')
  /\ lost' \in SUBSET Clients /\ lost \subseteq lost'
  /\ \A c \in Clients : Owed(c) => c \in lost'
  /\ UNCHANGED seen

(* From then on the promise holds for the client.                          *)
Tell(c) ==
  /\ seen' = [seen EXCEPT ![c] = Board]
  /\ lost' \in {lost, lost \ {c}}
  /\ UNCHANGED <<number, mission>>

Join(c) ==
  /\ seen' = [seen EXCEPT ![c] = Nothing]
  /\ lost' \in SUBSET Clients /\ lost \ {c} \subseteq lost'
  /\ UNCHANGED <<number, mission>>

(* A client leaves, or a fault of the backend leaves some of them behind.  *)
Lose ==
  /\ lost' \in SUBSET Clients /\ lost \subseteq lost'
  /\ UNCHANGED <<number, mission, seen>>

Next == Publish \/ (\E c \in Clients : Tell(c) \/ Join(c)) \/ Lose

Spec == Init /\ [][Next]_boardVars
=============================================================================
