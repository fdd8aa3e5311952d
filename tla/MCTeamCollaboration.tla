------------------------ MODULE MCTeamCollaboration ------------------------
(* Two peers in four rooms: "peers" (the constants of the .cfg) answer     *)
(* each other and are summed up; "stops" is stopped from outside; "faults" *)
(* has a TeamJournal that fails as well; "ends" has a second user, whose   *)
(* post is refused, and the fairness under which its Run must end.         *)
EXTENDS TeamCollaboration

VARIABLE room

MCTwo == <<"a", "b">>

StopsRoom == INSTANCE TeamCollaboration WITH
  Mentioned <- {"a"}, Summary <- "none", MaxTurns <- 2, Stops <- {"failed", "cancelled"}
FaultsRoom == INSTANCE TeamCollaboration WITH
  Mentioned <- {"a"}, Summary <- "none", MaxTurns <- 2, Stops <- {"failed", "cancelled"},
  Faults <- TRUE
EndsRoom == INSTANCE TeamCollaboration WITH
  Users <- {"u", "v"}, Invalid <- {"v"}, MaxMessages <- 1, MaxTurns <- 2,
  Stops <- {"cancelled"}

roomVars == <<vars, room>>

In(which, step) == room = which /\ step /\ UNCHANGED room

RoomsInit ==
  \/ room = "peers" /\ Init
  \/ room = "stops" /\ StopsRoom!Init
  \/ room = "faults" /\ FaultsRoom!Init
  \/ room = "ends" /\ EndsRoom!Init

RoomsNext ==
  \/ In("peers", Next)
  \/ In("stops", StopsRoom!Next)
  \/ In("faults", FaultsRoom!Next)
  \/ In("ends", EndsRoom!Next)

RoomsFairness ==
  /\ WF_roomVars(In("ends", EndsRoom!MainStep))
  /\ \A a \in {"a", "b"} : /\ WF_roomVars(In("ends", EndsRoom!AgentStep(a)))
                           /\ WF_roomVars(In("ends", EndsRoom!InsideStep(a)))
  /\ \A u \in {"u", "v"} : WF_roomVars(In("ends", EndsRoom!InsideStep(u)))

RoomsSpec == RoomsInit /\ [][RoomsNext]_roomVars /\ RoomsFairness

(* RunEnds in the room that is fair.                                       *)
FairRunEnds == (room = "ends") => RunEnds
=============================================================================
