------------------------------- MODULE MCDupes ------------------------------
(***************************************************************************)
(* An instance of QsoLog for the dupe rules: one station that comes under  *)
(* two callsigns, its own and with "/P" (core/CallsignPrefix               *)
(* baseCallsign), and another station.                                     *)
(***************************************************************************)
EXTENDS MCQsoLog, TLC

CONSTANTS Home, Portable, Other

TwoStations == {Home, Portable, Other}
Merged      == [x \in TwoStations |-> IF x = Portable THEN Home ELSE x]

\* A dupe key holds the base callsign only, so the two callsigns of the one
\* station can be exchanged.
Spellings == Permutations({Home, Portable})
=============================================================================
