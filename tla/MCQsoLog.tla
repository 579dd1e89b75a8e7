------------------------------ MODULE MCQsoLog ------------------------------
(* Small instances of QsoLog for TLC. *)
EXTENDS QsoLog

\* Callsigns that all belong to different stations.
EachItsOwn == [x \in Calls |-> x]

PerBand     == [dupe |-> {"callsign", "band"}, serial |-> "band"]
OncePerCall == [dupe |-> {"callsign"}, serial |-> "band"]

\* A UHF contest begins at 432 MHz.
EveryBand == [c \in Contests |-> Bands]
UhfBands  == [c \in Contests |-> IF c = "UHF" THEN Bands \ {"144"} ELSE Bands]
Lowest    == [c \in Contests |-> IF "144" \in BandsOf[c] THEN "144" ELSE "432"]

AllPerBand  == [c \in Contests |-> PerBand]

PerBandOnly == {PerBand}
TwoRuleSets == {PerBand, OncePerCall}
NoRules     == {}
=============================================================================
