----------------------------- MODULE MCChatLink -----------------------------
(* Instances of ChatLink for TLC. *)
EXTENDS ChatLink

\* 144 MHz has the default room, 1296 MHz another, 14 MHz none.
OneBand    == {"144"}
ThreeBands == {"144", "1296", "14"}
RoomOfBand(b)   == CASE b = "144" -> 2 [] b = "1296" -> 3 [] b = "14" -> 0
RoomOfOneBand   == [b \in OneBand |-> RoomOfBand(b)]
RoomOfThreeBands == [b \in ThreeBands |-> RoomOfBand(b)]
=============================================================================
