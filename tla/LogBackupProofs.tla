-------------------------- MODULE LogBackupProofs --------------------------
(***************************************************************************)
(* Theorems about LogBackup for every value of its constants: any ages at  *)
(* which copies are thinned, any cap, any number of writes, every subset   *)
(* of the faults, and the stick at any time in or out.                     *)
(*                                                                         *)
(* They rest on what Kept (pruneDirectory()) does to a folder whose names  *)
(* are unique.  There the list is a strict total order, and the place of a *)
(* copy in it is the number of copies listed before it.                    *)
(***************************************************************************)
EXTENDS LogBackup, FiniteSetTheorems, TLAPS

-----------------------------------------------------------------------------
(* Numbers *)

\* A set of natural numbers that is not empty has a least element.
LEMMA LeastNumber ==
    ASSUME NEW S \in SUBSET Nat, S # {}
    PROVE  \E n \in S : \A m \in S : n <= m
<1>1. PICK n \in S : \A m \in S : <<m, n>> \notin OpToRel(<, Nat)
  BY WFMin, NatLessThanWellFounded, Zenon
<1>2. \A m \in S : ~ (m < n)
  BY <1>1, Zenon DEF OpToRel
<1> QED
  BY <1>2, SMT

\* Later minutes lie in later buckets.
LEMMA BucketsAscend ==
    ASSUME NEW a \in Nat, NEW b \in Nat, a <= b
    PROVE  a \div BucketLen <= b \div BucketLen
<1> DEFINE K == BucketLen
<1> DEFINE p == a \div K
<1> DEFINE q == b \div K
<1>1. K \in Nat /\ K > 0
  BY LogBackupAssumption
<1>2. p \in Int /\ q \in Int /\ K * p <= a /\ b < K * q + K
  BY <1>1
<1>3. SUFFICES ASSUME q + 1 <= p PROVE FALSE
  BY <1>2
<1>4. K * (q + 1) <= K * p
  <2> HIDE DEF p, q, K
  <2> QED
    BY <1>1, <1>2, <1>3
<1>5. K * (q + 1) = K * q + K
  <2> HIDE DEF p, q, K
  <2> QED
    BY <1>1, <1>2
<1> QED
  <2> HIDE DEF p, q
  <2>1. K * p \in Int /\ K * q \in Int
    BY <1>1, <1>2
  <2> HIDE DEF K
  <2> QED
    BY <1>1, <1>2, <1>4, <1>5, <2>1

-----------------------------------------------------------------------------
(* The list of a folder *)

\* A folder as the program keeps it, but for the cap.
Named(F) ==
    /\ F \subseteq Copies /\ IsFiniteSet(F)
    /\ \A c, d \in F : SameName(c, d) => c = d

\* What is listed before c.
Above(F, c) == {d \in F : ListedBefore(d, c)}

\* The fields of a copy.
LEMMA CopyFields ==
    ASSUME NEW c \in Copies
    PROVE  c.minute \in Nat /\ c.n \in Nat /\ c.n >= 1 /\ c.n \in 1..MaxPerMinute /\ c.log \in Nat
BY LogBackupAssumption DEF Copies

\* The list is a strict total order (listBackups()).
LEMMA ListOrder ==
    ASSUME NEW F, Named(F), NEW c \in F, NEW d \in F
    PROVE  /\ ~ListedBefore(c, c)
           /\ c = d \/ ListedBefore(c, d) \/ ListedBefore(d, c)
           /\ \A e \in F : ListedBefore(c, d) /\ ListedBefore(d, e) => ListedBefore(c, e)
<1>1. \A e \in F : e.minute \in Nat /\ e.n \in Nat /\ e.n >= 1
  BY CopyFields DEF Named
<1>2. c = d \/ c.minute # d.minute \/ c.n # d.n
  BY DEF Named, SameName
<1> QED
  BY <1>1, <1>2 DEF ListedBefore

\* Any part of a folder is one.
LEMMA PartIsNamed ==
    ASSUME NEW F, Named(F), NEW G \in SUBSET F
    PROVE  Named(G)
BY FS_Subset DEF Named

LEMMA PlaceIsNumber ==
    ASSUME NEW F, Named(F), NEW c
    PROVE  /\ IsFiniteSet(Above(F, c))
           /\ Cardinality(Above(F, c)) \in Nat
BY FS_Subset, FS_CardinalityType DEF Named, Above

\* Who is listed before another has a smaller place.
LEMMA PlacesAscend ==
    ASSUME NEW F, Named(F), NEW c \in F, NEW d \in F, ListedBefore(c, d)
    PROVE  Cardinality(Above(F, c)) < Cardinality(Above(F, d))
<1>1. c \notin Above(F, c) /\ Above(F, c) \cup {c} \subseteq Above(F, d)
  BY ListOrder DEF Above
<1>2. Cardinality(Above(F, c) \cup {c}) = Cardinality(Above(F, c)) + 1
  BY <1>1, PlaceIsNumber, FS_AddElement
<1>3. Cardinality(Above(F, c) \cup {c}) <= Cardinality(Above(F, d))
  BY <1>1, PlaceIsNumber, FS_Subset
<1> QED
  BY <1>2, <1>3, PlaceIsNumber

\* One copy of a folder that is not empty is listed first.
LEMMA SomeIsFirst ==
    ASSUME NEW F, Named(F), F # {}
    PROVE  \E c \in F : \A d \in F \ {c} : ListedBefore(c, d)
<1> DEFINE Places == {Cardinality(Above(F, c)) : c \in F}
<1>1. PICK n \in Places : \A m \in Places : n <= m
  <2>1. Places \in SUBSET Nat /\ Places # {}
    BY PlaceIsNumber
  <2> HIDE DEF Places
  <2> QED
    BY <2>1, LeastNumber
<1>2. PICK c \in F : n = Cardinality(Above(F, c))
  OBVIOUS
<1>3. ASSUME NEW d \in F \ {c}
      PROVE  ListedBefore(c, d)
  <2>1. n <= Cardinality(Above(F, d))
    BY <1>1
  <2>2. ~ListedBefore(d, c)
    BY <1>2, <2>1, PlacesAscend, PlaceIsNumber
  <2> QED
    BY <2>2, ListOrder
<1> QED
  BY <1>3

-----------------------------------------------------------------------------
(* What thinning leaves *)

LEMMA WantedIsNamed ==
    ASSUME NEW F, Named(F)
    PROVE  Wanted(F) \subseteq F /\ Named(Wanted(F))
BY PartIsNamed DEF Wanted

LEMMA KeptIsPart ==
    ASSUME NEW F, Named(F)
    PROVE  Kept(F) \subseteq Wanted(F) /\ Kept(F) \subseteq F /\ Named(Kept(F))
<1>1. Kept(F) \subseteq Wanted(F)
  BY DEF Kept
<1> QED
  BY <1>1, WantedIsNamed, PartIsNamed

\* Places are told apart, so that no more copies stay than there are places.
LEMMA KeptWithinCap ==
    ASSUME NEW F, Named(F)
    PROVE  Cardinality(Kept(F)) <= KeepFiles
<1> DEFINE W == Wanted(F)
<1> DEFINE place == [c \in Kept(F) |-> Cardinality(Above(W, c))]
<1>1. Named(W) /\ Kept(F) \subseteq W
  BY WantedIsNamed, KeptIsPart
<1>2. KeepFiles \in Nat \ {0}
  BY LogBackupAssumption
<1>3. \A c \in Kept(F) : Cardinality(Above(W, c)) \in 0..(KeepFiles - 1)
  BY <1>1, <1>2, PlaceIsNumber DEF Kept, Above
<1>4. \A c, d \in Kept(F) : place[c] = place[d] => c = d
  <2> SUFFICES ASSUME NEW c \in Kept(F), NEW d \in Kept(F), place[c] = place[d]
               PROVE  c = d
    OBVIOUS
  <2>1. Cardinality(Above(W, c)) = Cardinality(Above(W, d))
    OBVIOUS
  <2>2. c \in W /\ d \in W /\ Cardinality(Above(W, c)) \in Nat
    BY <1>1, PlaceIsNumber
  <2> HIDE DEF W
  <2> QED
    BY <1>1, <2>1, <2>2, PlacesAscend, ListOrder
<1>5. place \in Injection(Kept(F), 0..(KeepFiles - 1))
  BY <1>3, <1>4 DEF Injection, IsInjective
<1>6. IsFiniteSet(0..(KeepFiles - 1)) /\ Cardinality(0..(KeepFiles - 1)) = KeepFiles
  BY <1>2, FS_Interval
<1>7. Cardinality(Kept(F)) <= Cardinality(0..(KeepFiles - 1))
  <2> HIDE DEF place
  <2> QED
    BY <1>5, <1>6, FS_Injection
<1> QED
  BY <1>6, <1>7

\* The copy just made stays: it is no older than any, and listed before it are
\* only others of its minute, fewer than names in a minute and so fewer than the
\* cap.
LEMMA NewestIsKept ==
    ASSUME NEW F, Named(F), NEW c \in F, \A d \in F : d.minute <= c.minute
    PROVE  c \in Kept(F)
<1> DEFINE W == Wanted(F)
<1>1. \A d \in F : d.minute \in Nat /\ d.n \in 1..MaxPerMinute
  BY CopyFields DEF Named
<1>2. KeepEvery \in Nat /\ KeepFiles \in Nat \ {0} /\ MaxPerMinute \in 1..KeepFiles
  BY LogBackupAssumption
<1>3. First(F) \in F
  BY SomeIsFirst DEF First
<1>4. c \in W
  BY <1>1, <1>2, <1>3 DEF Wanted, Recent
<1> DEFINE name == [d \in Above(W, c) |-> d.n]
<1> DEFINE others == (1..MaxPerMinute) \ {c.n}
<1>5. \A d \in Above(W, c) : d \in F /\ d.minute = c.minute /\ d.n \in others
  <2> SUFFICES ASSUME NEW d \in Above(W, c)
               PROVE  d \in F /\ d.minute = c.minute /\ d.n \in others
    OBVIOUS
  <2>1. d \in F /\ ListedBefore(d, c)
    BY WantedIsNamed DEF Above
  <2> QED
    BY <1>1, <2>1 DEF ListedBefore
<1>6. \A d, e \in Above(W, c) : name[d] = name[e] => d = e
  BY <1>5 DEF Named, SameName
<1>7. name \in Injection(Above(W, c), others)
  BY <1>5, <1>6 DEF Injection, IsInjective
<1>8. IsFiniteSet(others) /\ Cardinality(others) = MaxPerMinute - 1
  <2>1. IsFiniteSet(1..MaxPerMinute) /\ Cardinality(1..MaxPerMinute) = MaxPerMinute
    BY <1>2, FS_Interval
  <2>2. c.n \in 1..MaxPerMinute
    BY <1>1
  <2> QED
    BY <2>1, <2>2, FS_RemoveElement
<1>9. Cardinality(Above(W, c)) <= Cardinality(others)
  <2> HIDE DEF name, others, W
  <2> QED
    BY <1>7, <1>8, FS_Injection
<1>10. Cardinality(Above(W, c)) \in Nat
  BY WantedIsNamed, PlaceIsNumber
<1>11. Cardinality(Above(W, c)) < KeepFiles
  <2> HIDE DEF name, others, W
  <2> QED
    BY <1>2, <1>8, <1>9, <1>10
<1> QED
  BY <1>4, <1>11 DEF Kept, Above

\* Every bucket that had a copy has one among those wanted.
LEMMA BucketIsWanted ==
    ASSUME NEW F, Named(F), NEW c \in F
    PROVE  \E w \in Wanted(F) : Bucket(F, w) = Bucket(F, c)
<1>1. CASE Recent(F, c)
  BY <1>1 DEF Wanted
<1>2. CASE ~Recent(F, c)
  <2> DEFINE G == {d \in F : ~Recent(F, d) /\ Bucket(F, d) = Bucket(F, c)}
  <2>1. Named(G) /\ c \in G
    BY <1>2, PartIsNamed
  <2>2. PICK w \in G : \A d \in G \ {w} : ListedBefore(w, d)
    <3> HIDE DEF G
    <3> QED
      BY <2>1, SomeIsFirst
  <2>3. w \in Wanted(F)
    BY <2>2 DEF Wanted
  <2> QED
    BY <2>2, <2>3
<1> QED
  BY <1>1, <1>2

\* The cap takes from the end of the list: if a wanted copy goes, the cap is
\* reached.
LEMMA CapIsReached ==
    ASSUME NEW F, Named(F), NEW w \in Wanted(F), w \notin Kept(F)
    PROVE  /\ Cardinality(Kept(F)) = KeepFiles
           /\ \A d \in Kept(F) : ListedBefore(d, w)
<1> DEFINE W == Wanted(F)
<1> DEFINE G == W \ Kept(F)
<1>1. KeepFiles \in Nat \ {0}
  BY LogBackupAssumption
<1>2. Named(W) /\ Named(G) /\ Kept(F) \subseteq W
  BY WantedIsNamed, KeptIsPart, PartIsNamed
<1>3. \A d \in W : d \in Kept(F) <=> Cardinality(Above(W, d)) < KeepFiles
  BY DEF Kept, Above
<1>4. PICK x \in G : \A d \in G \ {x} : ListedBefore(x, d)
  <2>1. w \in G
    OBVIOUS
  <2> HIDE DEF G
  <2> QED
    BY <1>2, <2>1, SomeIsFirst
<1>5. Above(W, x) \subseteq Kept(F)
  <2> SUFFICES ASSUME NEW d \in Above(W, x), d \in G
               PROVE  FALSE
    BY DEF Above
  <2>1. d \in W /\ x \in W /\ ListedBefore(d, x)
    BY DEF Above
  <2>2. d # x /\ ListedBefore(x, d)
    BY <1>2, <1>4, <2>1, ListOrder
  <2> HIDE DEF W, G
  <2> QED
    BY <1>2, <2>1, <2>2, ListOrder
<1>6. ~(Cardinality(Above(W, x)) < KeepFiles)
  BY <1>3
<1>7. Cardinality(Above(W, x)) <= Cardinality(Kept(F))
  BY <1>2, <1>5, KeptIsPart, FS_Subset DEF Named
<1>8. Cardinality(Kept(F)) <= KeepFiles
  BY KeptWithinCap
<1>9. Cardinality(Kept(F)) = KeepFiles
  <2>1. Cardinality(Above(W, x)) \in Nat
    BY <1>2, PlaceIsNumber
  <2>2. Cardinality(Kept(F)) \in Nat
    BY KeptIsPart, FS_CardinalityType DEF Named
  <2> HIDE DEF W
  <2> QED
    BY <1>1, <1>6, <1>7, <1>8, <2>1, <2>2
<1>10. ASSUME NEW d \in Kept(F)
       PROVE  ListedBefore(d, w)
  <2>1. d \in W /\ d # w
    BY <1>2
  <2>2. Cardinality(Above(W, d)) < KeepFiles /\ ~(Cardinality(Above(W, w)) < KeepFiles)
    BY <1>2, <1>3
  <2>3. Cardinality(Above(W, d)) \in Nat /\ Cardinality(Above(W, w)) \in Nat
    BY <1>2, PlaceIsNumber
  <2>4. ~ListedBefore(w, d)
    <3>1. w \in W
      OBVIOUS
    <3>2. ~(Cardinality(Above(W, w)) < Cardinality(Above(W, d)))
      <4> HIDE DEF W
      <4> QED
        BY <1>1, <2>2, <2>3
    <3> HIDE DEF W
    <3> QED
      BY <1>2, <2>1, <3>1, <3>2, PlacesAscend
  <2>5. w \in W
    OBVIOUS
  <2> HIDE DEF W
  <2> QED
    BY <1>2, <2>1, <2>4, <2>5, ListOrder
<1> QED
  BY <1>9, <1>10

\* Thinning leaves no hole: a copy's ten minutes keep one, or the cap is
\* reached and all that stays is younger.
LEMMA NoHole ==
    ASSUME NEW F, Named(F), NEW c \in F
    PROVE  \/ \E d \in Kept(F) : d.minute \div BucketLen = c.minute \div BucketLen
           \/ Cardinality(Kept(F)) = KeepFiles /\ \A d \in Kept(F) : c.minute < d.minute
<1>1. PICK w \in Wanted(F) : w.minute \div BucketLen = c.minute \div BucketLen
  BY BucketIsWanted DEF Bucket
<1>2. CASE w \in Kept(F)
  BY <1>1, <1>2
<1>3. CASE w \notin Kept(F)
  <2>1. Cardinality(Kept(F)) = KeepFiles /\ \A d \in Kept(F) : ListedBefore(d, w)
    BY <1>3, CapIsReached
  <2>2. SUFFICES ASSUME NEW d \in Kept(F), ~(c.minute < d.minute)
                 PROVE  d.minute \div BucketLen = c.minute \div BucketLen
    BY <2>1
  <2>3. w \in F /\ d \in F
    BY WantedIsNamed, KeptIsPart
  <2>4. w.minute \in Nat /\ d.minute \in Nat /\ c.minute \in Nat
    BY <2>3, CopyFields DEF Named
  <2>5. w.minute <= d.minute /\ d.minute <= c.minute
    BY <2>1, <2>2, <2>4 DEF ListedBefore
  <2>6. /\ w.minute \div BucketLen <= d.minute \div BucketLen
        /\ d.minute \div BucketLen <= c.minute \div BucketLen
    BY <2>4, <2>5, BucketsAscend
  <2>7. \A m \in Nat : m \div BucketLen \in Int
    BY LogBackupAssumption
  <2> QED
    BY <1>1, <2>4, <2>6, <2>7
<1> QED
  BY <1>2, <1>3

-----------------------------------------------------------------------------
(* The shape of the state *)

\* A second folder is a record, and its copies, like those beside the log, are
\* finitely many.
Folders == [marked : BOOLEAN, copies : SUBSET Copies]
IsDisk(f) == f \in Folders /\ IsFiniteSet(f.copies) /\ IsFolder(f.copies)

ShapeOK == TypeOK /\ IsFiniteSet(copies) /\ IsDisk(stick) /\ IsDisk(hole)

\* What thinning makes of a folder is one.
LEMMA KeptIsFolder ==
    ASSUME NEW F, Named(F)
    PROVE  IsFolder(Kept(F)) /\ IsFiniteSet(Kept(F)) /\ Kept(F) \subseteq Copies
BY KeptIsPart, KeptWithinCap DEF Named, IsFolder

\* A copy under a free name, whatever it holds.
LEMMA AddedIsNamed ==
    ASSUME ShapeOK, NEW n \in 1..MaxPerMinute, IsFreeName(n),
           NEW c \in Copies, c.minute = clock, c.n = n
    PROVE  Named(copies \cup {c})
<1>1. copies \subseteq Copies /\ IsFiniteSet(copies) /\ \A d, e \in copies : SameName(d, e) => d = e
  BY DEF ShapeOK, TypeOK, IsFolder
<1>2. \A d \in copies : ~SameName(d, c) /\ ~SameName(c, d)
  BY DEF IsFreeName, SameName, NewCopy
<1> QED
  BY <1>1, <1>2, FS_AddElement DEF Named

\* The copy that is made has the state of the log and a name of this minute.
LEMMA NewCopyType ==
    ASSUME ShapeOK, NEW n \in 1..MaxPerMinute, NEW second \in BOOLEAN
    PROVE  /\ NewCopy(n) \in Copies /\ NewCopy(n).minute = clock /\ NewCopy(n).n = n
           /\ NewCopy(n).log = db.log
           /\ [NewCopy(n) EXCEPT !.second = second] \in Copies
           /\ [NewCopy(n) EXCEPT !.second = second].minute = clock
           /\ [NewCopy(n) EXCEPT !.second = second].n = n
           /\ [NewCopy(n) EXCEPT !.second = second].log = db.log
BY DEF ShapeOK, TypeOK, NewCopy, Copies

\* Whatever mirror() leaves behind is a folder.
LEMMA MirroredIsDisk ==
    ASSUME NEW f, IsDisk(f), NEW c \in Copies, NEW g \in Mirrored(f, c)
    PROVE  IsDisk(g)
<1> DEFINE others == {d \in f.copies : ~SameName(d, c)}
<1> DEFINE copied == IF c \in copies' THEN Kept(others \cup {c}) ELSE others
<1>1. Named(f.copies)
  BY DEF IsDisk, IsFolder, Named
<1>2. others \subseteq f.copies /\ Named(others)
  BY <1>1, PartIsNamed
<1>3. Named(others \cup {c})
  <2>1. \A d \in others : ~SameName(d, c) /\ ~SameName(c, d)
    BY DEF SameName
  <2> QED
    BY <1>2, <2>1, FS_AddElement DEF Named
<1>4. IsFolder(others)
  <2>1. Cardinality(others) <= Cardinality(f.copies) /\ Cardinality(f.copies) <= KeepFiles
    BY <1>2, FS_Subset DEF IsDisk, IsFolder
  <2>2. Cardinality(others) \in Nat /\ Cardinality(f.copies) \in Nat /\ KeepFiles \in Nat
    BY <1>1, <1>2, FS_CardinalityType, LogBackupAssumption DEF Named
  <2>3. Cardinality(others) <= KeepFiles
    <3> HIDE DEF others
    <3> QED
      BY <2>1, <2>2
  <2> QED
    BY <1>2, <2>3 DEF IsFolder, Named
<1>5. IsFolder(copied) /\ IsFiniteSet(copied) /\ copied \subseteq Copies
  <2>1. IsFiniteSet(others) /\ others \subseteq Copies
    BY <1>2 DEF Named
  <2> HIDE DEF others
  <2> QED
    BY <1>3, <1>4, <2>1, KeptIsFolder
<1>6. g = f \/ g = Folder(TRUE, copied) \/ g = Folder(TRUE, others)
  BY DEF Mirrored
<1>7. CASE g = f
  BY <1>7
<1>8. CASE g = Folder(TRUE, copied)
  <2> HIDE DEF copied
  <2> QED
    BY <1>5, <1>8 DEF Folder, Folders, IsDisk
<1>9. CASE g = Folder(TRUE, others)
  BY <1>2, <1>4, <1>9 DEF Folder, Folders, IsDisk, Named
<1> QED
  BY <1>6, <1>7, <1>8, <1>9

DisksOK == IsFolder(copies) /\ IsFiniteSet(copies) /\ IsDisk(stick) /\ IsDisk(hole)

LEMMA DisksAfter ==
    ASSUME IsFolder(copies'), IsFiniteSet(copies'), IsDisk(stick'), IsDisk(hole')
    PROVE  DisksOK'
BY DEF DisksOK, IsDisk, IsFolder, Folders

\* backupNow(), prune() and mirror().
LEMMA TakenShape ==
    ASSUME ShapeOK, TakeCopy
    PROVE  DisksOK'
<1>1. PICK n \in 1..MaxPerMinute : /\ IsFreeName(n)
                                   /\ copies' = Kept(copies \cup {NewCopy(n)})
                                   /\ Mirror(NewCopy(n), db.second)
  BY DEF TakeCopy
<1>2. NewCopy(n) \in Copies /\ Named(copies \cup {NewCopy(n)})
  BY <1>1, NewCopyType, AddedIsNamed
<1>3. IsFolder(copies)' /\ IsFiniteSet(copies')
  BY <1>1, <1>2, KeptIsFolder DEF IsFolder
<1>4. (stick' = stick \/ stick' \in Mirrored(stick, NewCopy(n)))
      /\ (hole' = hole \/ hole' \in Mirrored(hole, NewCopy(n)))
  BY <1>1 DEF Mirror
<1>5. IsDisk(stick') /\ IsDisk(hole')
  BY <1>2, <1>4, MirroredIsDisk DEF ShapeOK
<1> QED
  BY <1>3, <1>5, DisksAfter DEF IsFolder

LEMMA UnchangedShape ==
    ASSUME ShapeOK, UNCHANGED <<copies, stick, hole>>
    PROVE  DisksOK'
BY DEF ShapeOK, TypeOK, DisksOK

\* What is left to show of a step once the folders are right.
LEMMA ShapeFromDisks ==
    ASSUME DisksOK',
           clock' \in 0..MaxClock, writes' \in 0..MaxWrites, db' \in [log : 0..MaxWrites, second : BOOLEAN],
           changed' \in BOOLEAN, stickIn' \in BOOLEAN, chosen' \in Copies \cup {Nothing}
    PROVE  ShapeOK'
BY DEF DisksOK, ShapeOK, TypeOK, IsDisk, Folders

MarkedStick == [stick EXCEPT !.marked = TRUE]
StickCopy(n) == [NewCopy(n) EXCEPT !.second = TRUE]
Copied(n) ==
    /\ IsFreeName(n) /\ copies' = Kept(copies \cup {StickCopy(n)})
    /\ stick' \in Mirrored(MarkedStick, StickCopy(n))

\* What chooseBackupMirror() does, as the proofs use it.
LEMMA FirstCopyOnStick ==
    ASSUME ChooseBackupMirror
    PROVE  /\ db' = [db EXCEPT !.second = TRUE]
           /\ clock' = clock /\ writes' = writes /\ chosen' = chosen
           /\ stickIn' = stickIn /\ hole' = hole
           /\ \/ changed' = FALSE /\ \E n \in 1..MaxPerMinute : Copied(n)
              \/ changed' = changed /\ copies' = copies /\ stick' = MarkedStick
<1>1. /\ db' = [db EXCEPT !.second = TRUE]
      /\ clock' = clock /\ writes' = writes /\ chosen' = chosen
      /\ stickIn' = stickIn /\ hole' = hole
  BY DEF ChooseBackupMirror
<1>2. \/ changed' = FALSE /\ \E n \in 1..MaxPerMinute : Copied(n)
      \/ changed' = changed /\ copies' = copies /\ stick' = MarkedStick
  BY Zenon DEF ChooseBackupMirror, Copied, MarkedStick, StickCopy
<1> QED
  BY <1>1, <1>2

LEMMA ChosenFolderShape ==
    ASSUME ShapeOK, ChooseBackupMirror
    PROVE  DisksOK'
<1>1. IsDisk(MarkedStick) /\ IsDisk(hole) /\ IsFolder(copies) /\ IsFiniteSet(copies)
  BY DEF ShapeOK, TypeOK, IsDisk, Folders, MarkedStick
<1>2. hole' = hole
  BY FirstCopyOnStick
<1>3. ASSUME NEW n \in 1..MaxPerMinute, Copied(n)
      PROVE  DisksOK'
  <2>1. StickCopy(n) \in Copies /\ StickCopy(n).minute = clock /\ StickCopy(n).n = n
    BY NewCopyType DEF StickCopy
  <2>2. Named(copies \cup {StickCopy(n)})
    BY <1>3, <2>1, AddedIsNamed DEF Copied
  <2>3. IsFolder(copies') /\ IsFiniteSet(copies')
    BY <1>3, <2>2, KeptIsFolder DEF Copied
  <2>4. IsDisk(stick')
    BY <1>1, <1>3, <2>1, MirroredIsDisk DEF Copied
  <2> QED
    BY <1>1, <1>2, <2>3, <2>4, DisksAfter
<1>4. CASE copies' = copies /\ stick' = MarkedStick
  BY <1>1, <1>2, <1>4, DisksAfter
<1> QED
  BY <1>3, <1>4, FirstCopyOnStick

\* One step per action.
LEMMA ShapeStep ==
    ASSUME ShapeOK, [Next]_vars
    PROVE  ShapeOK'
<1> USE DEF Nothing
<1>1. /\ clock \in 0..MaxClock /\ writes \in 0..MaxWrites /\ db \in [log : 0..MaxWrites, second : BOOLEAN]
      /\ changed \in BOOLEAN /\ stickIn \in BOOLEAN /\ chosen \in Copies \cup {Nothing}
      /\ copies \subseteq Copies
  BY DEF ShapeOK, TypeOK, IsFolder
<1>2. CASE TimerBackup
  BY <1>1, <1>2, TakenShape, ShapeFromDisks DEF TimerBackup
<1>3. CASE BackupLogNow
  BY <1>1, <1>3, TakenShape, ShapeFromDisks DEF BackupLogNow
<1>4. CASE WriteLog
  <2>1. writes' \in 0..MaxWrites /\ db' \in [log : 0..MaxWrites, second : BOOLEAN]
    BY <1>1, <1>4, LogBackupAssumption DEF WriteLog
  <2> QED
    BY <1>1, <1>4, <2>1, UnchangedShape, ShapeFromDisks DEF WriteLog
<1>5. CASE Tick
  <2>1. clock' \in 0..MaxClock
    BY <1>1, <1>5, LogBackupAssumption DEF Tick
  <2> QED
    BY <1>1, <1>5, <2>1, UnchangedShape, ShapeFromDisks DEF Tick
<1>6. CASE Quit
  <2>1. DisksOK'
    BY <1>6, TakenShape, UnchangedShape DEF Quit
  <2> QED
    BY <1>1, <1>6, <2>1, ShapeFromDisks DEF Quit, Restarted
<1>7. CASE Crash
  BY <1>1, <1>7, UnchangedShape, ShapeFromDisks DEF Crash, Restarted
<1>8. ASSUME NEW t \in 0..MaxClock, SetClockBack(t)
      PROVE  ShapeOK'
  BY <1>1, <1>8, UnchangedShape, ShapeFromDisks DEF SetClockBack
<1>9. ASSUME NEW c \in copies, ChooseCopy(c)
      PROVE  ShapeOK'
  BY <1>1, <1>9, UnchangedShape, ShapeFromDisks DEF ChooseCopy
<1>10. CASE DeclineRestore
  BY <1>1, <1>10, UnchangedShape, ShapeFromDisks DEF DeclineRestore
<1>11. CASE PerformRestore
  <2>1. DisksOK'
    BY <1>11, TakenShape DEF PerformRestore
  <2>2. \A c \in copies' : [log |-> c.log, second |-> c.second] \in [log : 0..MaxWrites, second : BOOLEAN]
    BY <2>1 DEF DisksOK, IsFolder, Copies
  <2>3. Empty \in [log : 0..MaxWrites, second : BOOLEAN]
    BY LogBackupAssumption DEF Empty
  <2>4. db' \in [log : 0..MaxWrites, second : BOOLEAN]
    BY <1>1, <1>11, <2>2, <2>3 DEF PerformRestore
  <2> QED
    BY <1>1, <1>11, <2>1, <2>4, ShapeFromDisks DEF PerformRestore, Restarted
<1>12. CASE ChooseBackupMirror
  <2>1. DisksOK'
    BY <1>12, ChosenFolderShape
  <2>2. db' \in [log : 0..MaxWrites, second : BOOLEAN] /\ changed' \in BOOLEAN
    <3>1. db' = [db EXCEPT !.second = TRUE] /\ (changed' = FALSE \/ changed' = changed)
      BY <1>12, FirstCopyOnStick
    <3> QED
      BY <1>1, <3>1
  <2>3. clock' = clock /\ writes' = writes /\ chosen' = chosen /\ stickIn' = stickIn
    BY <1>12, FirstCopyOnStick
  <2> QED
    BY <1>1, <2>1, <2>2, <2>3, ShapeFromDisks
<1>13. CASE ClearBackupMirror
  <2>1. db' \in [log : 0..MaxWrites, second : BOOLEAN]
    BY <1>1, <1>13 DEF ClearBackupMirror
  <2> QED
    BY <1>1, <1>13, <2>1, UnchangedShape, ShapeFromDisks DEF ClearBackupMirror
<1>14. CASE MoveStick
  BY <1>1, <1>14, UnchangedShape, ShapeFromDisks DEF MoveStick
<1>15. CASE UNCHANGED vars
  BY <1>1, <1>15, UnchangedShape, ShapeFromDisks DEF vars
<1> QED
  BY <1>2, <1>3, <1>4, <1>5, <1>6, <1>7, <1>8, <1>9, <1>10, <1>11, <1>12, <1>13, <1>14, <1>15 DEF Next

LEMMA ShapeInit ==
    ASSUME Init
    PROVE  ShapeOK
<1>1. IsFiniteSet({}) /\ Cardinality({}) = 0
  BY FS_EmptySet
<1> QED
  BY <1>1, LogBackupAssumption DEF Init, ShapeOK, TypeOK, IsDisk, IsFolder, Folders, Folder, Empty

\* Every folder holds one file per name, never more than the cap, whatever
\* fails and wherever the stick is (LogBackup::backupNow, pruneDirectory).
THEOREM TypeCorrect == Spec => []TypeOK
<1>1. ShapeOK /\ [Next]_vars => ShapeOK'
  BY ShapeStep
<1>2. ShapeOK => TypeOK
  BY DEF ShapeOK
<1> QED
  BY <1>1, <1>2, ShapeInit, PTL DEF Spec

-----------------------------------------------------------------------------
(* The disk under the path of a stick that is not there *)

NothingThere(f) == f = Folder(FALSE, {})

\* A folder without the marker and without copies is never written to.
LEMMA NothingIsMirrored ==
    ASSUME NEW f, NothingThere(f), NEW c, NEW g \in Mirrored(f, c)
    PROVE  NothingThere(g)
BY DEF NothingThere, Folder, Mirrored, IsSecondFolder

LEMMA NothingThereAfterCopy ==
    ASSUME NothingThere(hole), TakeCopy
    PROVE  NothingThere(hole')
<1>1. PICK n \in 1..MaxPerMinute : Mirror(NewCopy(n), db.second)
  BY DEF TakeCopy
<1>2. hole' = hole \/ hole' \in Mirrored(hole, NewCopy(n))
  BY <1>1 DEF Mirror
<1> QED
  BY <1>2, NothingIsMirrored

LEMMA NothingThereStep ==
    ASSUME NothingThere(hole), [Next]_vars
    PROVE  NothingThere(hole')
<1>1. CASE hole' = hole
  BY <1>1
<1>2. CASE TakeCopy
  BY <1>2, NothingThereAfterCopy
<1>3. hole' = hole \/ TakeCopy
  <2>1. CASE TimerBackup \/ BackupLogNow \/ PerformRestore \/ Quit
    BY <2>1 DEF TimerBackup, BackupLogNow, PerformRestore, Quit
  <2>2. CASE WriteLog \/ Tick \/ Crash \/ DeclineRestore \/ ClearBackupMirror \/ MoveStick
    BY <2>2 DEF WriteLog, Tick, Crash, DeclineRestore, ClearBackupMirror, MoveStick
  <2>3. CASE (\E t \in 0..MaxClock : SetClockBack(t)) \/ (\E c \in copies : ChooseCopy(c))
    BY <2>3 DEF SetClockBack, ChooseCopy
  <2>4. CASE ChooseBackupMirror
    BY <2>4, FirstCopyOnStick
  <2>5. CASE UNCHANGED vars
    BY <2>5 DEF vars
  <2> QED
    BY <2>1, <2>2, <2>3, <2>4, <2>5 DEF Next
<1> QED
  BY <1>1, <1>2, <1>3

\* Whatever is copied while the stick is out, nothing lands on the disk under
\* its path (LogBackup::mirror and its marker).
THEOREM DiskStaysEmpty == Spec => []InternalDiskStaysEmpty
<1>1. Init => NothingThere(hole)
  BY DEF Init, NothingThere
<1>2. NothingThere(hole) /\ [Next]_vars => NothingThere(hole)'
  BY NothingThereStep DEF NothingThere, Folder
<1>3. NothingThere(hole) => InternalDiskStaysEmpty
  BY DEF NothingThere, Folder, InternalDiskStaysEmpty
<1> QED
  BY <1>1, <1>2, <1>3, PTL DEF Spec

-----------------------------------------------------------------------------
(* What a copy leaves in the folder *)

\* The folder after a copy of the present log: c is that copy.
MadeOf(c) ==
    /\ Named(copies \cup {c}) /\ c.minute = clock /\ c.log = db.log
    /\ copies' = Kept(copies \cup {c})

LEMMA CopyIsMade ==
    ASSUME ShapeOK, TakeCopy
    PROVE  \E c \in Copies : MadeOf(c)
<1>1. PICK n \in 1..MaxPerMinute : IsFreeName(n) /\ copies' = Kept(copies \cup {NewCopy(n)})
  BY DEF TakeCopy
<1> QED
  BY <1>1, NewCopyType, AddedIsNamed DEF MadeOf

LEMMA StickCopyIsMade ==
    ASSUME ShapeOK, NEW n \in 1..MaxPerMinute, Copied(n)
    PROVE  \E c \in Copies : MadeOf(c)
<1>1. /\ StickCopy(n) \in Copies /\ StickCopy(n).minute = clock /\ StickCopy(n).n = n
      /\ StickCopy(n).log = db.log
  BY NewCopyType DEF StickCopy
<1> QED
  BY <1>1, AddedIsNamed DEF Copied, MadeOf

\* What a step does to the folder: nothing, or one copy more and the thinning.
LEMMA FolderStep ==
    ASSUME ShapeOK, [Next]_vars
    PROVE  copies' = copies \/ \E c \in Copies : MadeOf(c)
<1>1. CASE TimerBackup \/ BackupLogNow \/ PerformRestore
  BY <1>1, CopyIsMade DEF TimerBackup, BackupLogNow, PerformRestore
<1>2. CASE Quit
  BY <1>2, CopyIsMade DEF Quit
<1>3. CASE WriteLog \/ Tick \/ Crash \/ DeclineRestore \/ ClearBackupMirror \/ MoveStick
  BY <1>3 DEF WriteLog, Tick, Crash, DeclineRestore, ClearBackupMirror, MoveStick
<1>4. CASE (\E t \in 0..MaxClock : SetClockBack(t)) \/ (\E c \in copies : ChooseCopy(c))
  BY <1>4 DEF SetClockBack, ChooseCopy
<1>5. CASE ChooseBackupMirror
  BY <1>5, FirstCopyOnStick, StickCopyIsMade
<1>6. CASE UNCHANGED vars
  BY <1>6 DEF vars
<1> QED
  BY <1>1, <1>2, <1>3, <1>4, <1>5, <1>6 DEF Next

\* Thinning the folder at every copy leaves one of every ten minutes that had
\* one, until the cap takes the oldest (LogBackup::pruneDirectory).
THEOREM HistoryHasNoGap == Spec => NoGapInHistory
<1> DEFINE Stays(c) ==
        \/ \E d \in copies' : d.minute \div BucketLen = c.minute \div BucketLen
        \/ Cardinality(copies') = KeepFiles /\ \A d \in copies' : c.minute < d.minute
<1>1. ASSUME ShapeOK, [Next]_vars
      PROVE  \A c \in copies : Stays(c)
  <2> SUFFICES ASSUME NEW c \in copies
               PROVE  Stays(c)
    OBVIOUS
  <2>1. CASE copies' = copies
    BY <2>1
  <2>2. ASSUME NEW new \in Copies, MadeOf(new)
        PROVE  Stays(c)
    BY <2>2, NoHole DEF MadeOf
  <2> QED
    BY <1>1, <2>1, <2>2, FolderStep
<1>2. ShapeOK /\ [Next]_vars => ShapeOK'
  BY ShapeStep
<1>3. ShapeOK /\ [Next]_vars => [\A c \in copies : Stays(c)]_vars
  BY <1>1
<1> QED
  BY <1>2, <1>3, ShapeInit, PTL DEF Spec, NoGapInHistory

-----------------------------------------------------------------------------
(* The log in the folder, when no clock is set back *)

\* No copy is from the future.
NoneFromAhead == \A c \in copies : c.minute <= clock

LEMMA MadeIsKept ==
    ASSUME ShapeOK, NoneFromAhead, NEW c \in Copies, MadeOf(c)
    PROVE  (\E d \in copies' : d.log = db.log) /\ \A d \in copies' : d.minute <= clock
<1> DEFINE F == copies \cup {c}
<1>1. clock \in Nat
  BY DEF ShapeOK, TypeOK
<1>2. Named(F) /\ copies' = Kept(F)
  BY DEF MadeOf
<1>3. \A d \in F : d.minute <= c.minute
  BY <1>1 DEF NoneFromAhead, MadeOf
<1>4. c \in F /\ c.log = db.log /\ c.minute = clock
  BY DEF MadeOf
<1> HIDE DEF F
<1>5. c \in Kept(F) /\ Kept(F) \subseteq F
  BY <1>2, <1>3, <1>4, NewestIsKept, KeptIsPart
<1> QED
  BY <1>2, <1>3, <1>4, <1>5

LEMMA TakenIsKept ==
    ASSUME ShapeOK, NoneFromAhead, TakeCopy
    PROVE  \E d \in copies' : d.log = db.log
BY CopyIsMade, MadeIsKept

LEMMA AheadStep ==
    ASSUME ~ClockStepsBack, ShapeOK, NoneFromAhead, [Next]_vars
    PROVE  NoneFromAhead'
<1>1. clock \in Nat /\ \A c \in copies : c.minute \in Nat
  BY DEF ShapeOK, TypeOK, IsFolder, Copies
<1>2. CASE Tick
  BY <1>1, <1>2 DEF Tick, NoneFromAhead
<1>3. clock' = clock \/ Tick
  <2>1. CASE TimerBackup \/ BackupLogNow \/ PerformRestore \/ Quit
    BY <2>1 DEF TimerBackup, BackupLogNow, PerformRestore, Quit
  <2>2. CASE WriteLog \/ Crash \/ DeclineRestore \/ ClearBackupMirror \/ MoveStick
    BY <2>2 DEF WriteLog, Crash, DeclineRestore, ClearBackupMirror, MoveStick
  <2>3. CASE (\E t \in 0..MaxClock : SetClockBack(t)) \/ (\E c \in copies : ChooseCopy(c))
    BY <2>3 DEF SetClockBack, ChooseCopy
  <2>4. CASE ChooseBackupMirror
    BY <2>4, FirstCopyOnStick
  <2>5. CASE UNCHANGED vars
    BY <2>5 DEF vars
  <2> QED
    BY <2>1, <2>2, <2>3, <2>4, <2>5 DEF Next
<1>4. CASE clock' = clock
  <2>1. \A c \in copies' : c.minute <= clock
    BY FolderStep, MadeIsKept DEF NoneFromAhead
  <2> QED
    BY <1>4, <2>1 DEF NoneFromAhead
<1> QED
  BY <1>2, <1>3, <1>4

SavedInv == ShapeOK /\ NoneFromAhead /\ UnchangedMeansSaved

\* One step per group of actions: a copy is made, the log is written or the
\* process ends, or neither the log nor the folder changes.
LEMMA SavedStep ==
    ASSUME ~ClockStepsBack, SavedInv, [Next]_vars
    PROVE  SavedInv'
<1>1. ShapeOK' /\ NoneFromAhead'
  BY ShapeStep, AheadStep DEF SavedInv
<1>2. db \in [log : 0..MaxWrites, second : BOOLEAN]
  BY DEF SavedInv, ShapeOK, TypeOK
<1>3. CASE TimerBackup \/ BackupLogNow
  <2>1. \E d \in copies' : d.log = db.log
    BY <1>3, TakenIsKept DEF SavedInv, TimerBackup, BackupLogNow
  <2>2. db' = db
    BY <1>3 DEF TimerBackup, BackupLogNow
  <2> QED
    BY <1>1, <2>1, <2>2 DEF SavedInv, UnchangedMeansSaved
<1>4. CASE WriteLog \/ Quit \/ Crash \/ PerformRestore
  <2>1. changed' = TRUE
    BY <1>4 DEF WriteLog, Quit, Crash, PerformRestore, Restarted
  <2> QED
    BY <1>1, <2>1 DEF SavedInv, UnchangedMeansSaved
<1>5. CASE db'.log = db.log /\ changed' = changed /\ copies' = copies
  BY <1>1, <1>5 DEF SavedInv, UnchangedMeansSaved
<1>6. CASE Tick \/ DeclineRestore \/ ClearBackupMirror \/ MoveStick
  BY <1>2, <1>5, <1>6 DEF Tick, DeclineRestore, ClearBackupMirror, MoveStick
<1>7. CASE (\E t \in 0..MaxClock : SetClockBack(t)) \/ (\E c \in copies : ChooseCopy(c))
  BY <1>5, <1>7 DEF SetClockBack, ChooseCopy
<1>8. CASE ChooseBackupMirror
  <2>1. db'.log = db.log
    BY <1>2, <1>8, FirstCopyOnStick
  <2>2. ASSUME NEW n \in 1..MaxPerMinute, Copied(n)
        PROVE  \E d \in copies' : d.log = db.log
    BY <2>2, StickCopyIsMade, MadeIsKept DEF SavedInv
  <2>3. CASE \E d \in copies' : d.log = db.log
    BY <1>1, <2>1, <2>3 DEF SavedInv, UnchangedMeansSaved
  <2>4. CASE changed' = changed /\ copies' = copies
    BY <1>5, <2>1, <2>4
  <2> QED
    BY <1>8, <2>2, <2>3, <2>4, FirstCopyOnStick
<1>9. CASE UNCHANGED vars
  BY <1>5, <1>9 DEF vars
<1> QED
  BY <1>3, <1>4, <1>6, <1>7, <1>8, <1>9 DEF Next

LEMMA SavedInit ==
    ASSUME Init
    PROVE  SavedInv
BY ShapeInit DEF Init, SavedInv, NoneFromAhead, UnchangedMeansSaved

\* As long as no clock is set back: when the timer has nothing to do, the log as
\* it is lies in the folder (LogBackup::backupNow and its counter of writes).
THEOREM UnchangedIsSaved ==
    ASSUME ~ClockStepsBack
    PROVE  Spec => []UnchangedMeansSaved
<1>1. SavedInv /\ [Next]_vars => SavedInv'
  BY SavedStep
<1>2. SavedInv => UnchangedMeansSaved
  BY DEF SavedInv
<1> QED
  BY <1>1, <1>2, SavedInit, PTL DEF Spec

\* As long as no clock is set back: a restore leaves the state it found in the
\* folder, so that a wrong pick can be undone (MainWindow's restoreBackup).
THEOREM ReplacedIsSaved ==
    ASSUME ~ClockStepsBack
    PROVE  Spec => ReplacedStateIsSaved
<1>1. SavedInv /\ [Next]_vars => SavedInv'
  BY SavedStep
<1>2. SavedInv /\ [Next]_vars => [PerformRestore => \E c \in copies' : c.log = db.log]_vars
  BY TakenIsKept DEF SavedInv, PerformRestore
<1> QED
  BY <1>1, <1>2, SavedInit, PTL DEF Spec, ReplacedStateIsSaved
=============================================================================
