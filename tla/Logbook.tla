------------------------------ MODULE Logbook ------------------------------
(***************************************************************************)
(* What the program promises about the QSOs an operator has entered, apart *)
(* from how it keeps them: nothing that stood in a log is ever deleted.    *)
(* A deleted QSO lies in the bin of its own contest and can only come back *)
(* to that contest's log; closing a log moves all of it, and nothing else, *)
(* into an archive that was not there before; an archive never changes.    *)
(*                                                                         *)
(* place[i] is where the i-th QSO ever entered stands (LogPlaces).         *)
(***************************************************************************)
EXTENDS LogPlaces, Sequences

CONSTANT Contests
VARIABLE place

Init == place = <<>>

\* One QSO or several (an import) join the running log of contest c.
Enter(c) ==
    LET n == Len(place') - Len(place)
    IN  /\ n > 0
        /\ place' = place \o [k \in 1..n |-> Live(c)]

Trash(i) ==
    /\ place[i].part = "live"
    /\ place' = [place EXCEPT ![i] = Bin(place[i].contest)]

Recover(i) ==
    /\ place[i].part = "bin"
    /\ place' = [place EXCEPT ![i] = FromBin(place[i])]

CloseLog(c) ==
    LET moved == {i \in DOMAIN place : place[i] = Live(c)}
    IN  \E a \in {place'[i] : i \in moved} :
          /\ a.contest = c
          /\ a.part = "archive"
          /\ \A i \in DOMAIN place : place[i] # a
          /\ place' = [i \in DOMAIN place |-> IF i \in moved THEN a ELSE place[i]]

Next ==
    \/ \E c \in Contests : Enter(c) \/ CloseLog(c)
    \/ \E i \in DOMAIN place : Trash(i) \/ Recover(i)

Spec == Init /\ [][Next]_place
=============================================================================
