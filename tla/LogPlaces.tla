----------------------------- MODULE LogPlaces -----------------------------
(***************************************************************************)
(* Where a QSO can stand.  The program has one table `qsos`; its column    *)
(* contest_id says which log a row belongs to:                             *)
(*   "C"                 the running log of contest C                      *)
(*   "C@geloescht"       the bin of C (ContestDatabase::deleteQso)         *)
(*   "C@2026-10-04[-n]"  an archived log (MainWindow::archiveActiveContest) *)
(* The text is never taken apart except to strip the bin's suffix, so a    *)
(* place is a record instead of a string.                                  *)
(***************************************************************************)
EXTENDS Naturals

Place(c, part, date, n) == [contest |-> c, part |-> part, date |-> date, n |-> n]

Live(c)          == Place(c, "live", 0, 0)
Bin(c)           == Place(c, "bin", 0, 0)
Archive(c, d, n) == Place(c, "archive", d, n)

\* contestIdFromBin(): the log a row in the bin came from.
FromBin(p) == Live(p.contest)
=============================================================================
