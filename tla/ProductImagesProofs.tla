------------------------ MODULE ProductImagesProofs -------------------------
(***************************************************************************)
(* Proofs about ProductImages, for any number of products, requests and    *)
(* faults and for any batch size: rows and images name each other, an      *)
(* image keeps its file, and only a fault leaves a file behind.            *)
(***************************************************************************)
EXTENDS ProductImages, TLAPS

USE ImagesAssumption

(* Before its commit a request owns its new file.                          *)
Uncommitted(c) == req[c].at \in {"begin", "locked"}
Owns(c) == Uncommitted(c) /\ req[c].file # None

(* Where a request stands, and what it may still do to a file.             *)
RequestInv ==
  \A c \in Clients :
    /\ At(c, "idle") => req[c] = Idle
    /\ ~At(c, "idle") => req[c].product \in Products
    /\ At(c, "locked") => req[c].previous = image[req[c].product]
    /\ At(c, "clean") => /\ req[c].file # None
                         /\ req[c].file \in rows => req[c].file \in doubtful
    /\ At(c, "unlink") => req[c].previous # None /\ req[c].previous \notin rows
    /\ Owns(c) => /\ req[c].file \in disk \ (rows \cup old)
                  /\ req[c].file \notin sweep.candidates

(* No other request works on the locked product or on the new file.        *)
PairInv ==
  \A c, d \in Clients : c # d =>
    /\ At(c, "locked") /\ At(d, "locked") => req[c].product # req[d].product
    /\ Owns(c) => req[c].file # req[d].file /\ req[c].file # req[d].previous

(* What the sweep is about to remove is in no row.                         *)
SweepInv == sweep.at = "remove" => sweep.candidates \cap rows = {}

Inv ==
  TypeOK /\ RequestInv /\ PairInv /\ SweepInv /\ ImageHasFile /\ RowsAreImages

-----------------------------------------------------------------------------
LEMMA TypeInit == Init => TypeOK
BY DEF Init, TypeOK, Idle, Off, Request, Sweep

LEMMA FirstOfSubset == ASSUME NEW S PROVE FirstOf(S) \subseteq S
BY DEF FirstOf

(* A file is removed, or the removal fails and a fault is counted.         *)
LEMMA DeleteFileEither ==
  ASSUME TypeOK, NEW f, DeleteFile(f)
  PROVE  \/ disk' = disk \ {f} /\ old' = old \ {f} /\ faults' = faults
         \/ disk' = disk /\ old' = old /\ faults' \in 1..MaxFaults
BY DEF TypeOK, DeleteFile, Fault

LEMMA DeleteFileTypes ==
  ASSUME TypeOK, NEW f, DeleteFile(f)
  PROVE  disk' \subseteq Files /\ old' \subseteq disk' /\ faults' \in 0..MaxFaults
<1>1. CASE disk' = disk \ {f} /\ old' = old \ {f} /\ faults' = faults
  BY <1>1 DEF TypeOK
<1>2. CASE disk' = disk /\ old' = old /\ faults' \in 1..MaxFaults
  BY <1>2 DEF TypeOK
<1>. QED
  BY <1>1, <1>2, DeleteFileEither

LEMMA ApplyTypes ==
  ASSUME TypeOK, RequestInv, NEW c \in Clients, At(c, "locked"), Apply(c)
  PROVE  /\ image' \in [Products -> Files \cup {None}]
         /\ rows' \subseteq Files
<1>1. req[c].product \in Products /\ req[c].file \in Files \cup {None}
  BY DEF TypeOK, RequestInv, Request, At
<1>. QED
  BY <1>1 DEF TypeOK, Apply

LEMMA TypeNext == TypeOK /\ RequestInv /\ [Next]_vars => TypeOK'
<1> SUFFICES ASSUME TypeOK, RequestInv, [Next]_vars PROVE TypeOK'
  OBVIOUS
<1>1. ASSUME NEW c \in Clients, WriteImageFile(c) PROVE TypeOK'
  BY <1>1 DEF WriteImageFile, TypeOK, Request
<1>2. ASSUME NEW c \in Clients, RemoveImage(c) PROVE TypeOK'
  BY <1>2 DEF RemoveImage, TypeOK, Request
<1>3. ASSUME NEW c \in Clients, LockProduct(c) PROVE TypeOK'
  <2>1. image[req[c].product] \in Files \cup {None}
    BY <1>3 DEF LockProduct, RequestInv, TypeOK, At
  <2>2. [req[c] EXCEPT !.at = "locked", !.previous = image[req[c].product]] \in Request
    BY <2>1 DEF TypeOK, Request
  <2>3. req' \in [Clients -> Request]
    BY <1>3, <2>2 DEF LockProduct, TypeOK
  <2>. QED
    BY <1>3, <2>3 DEF LockProduct, TypeOK
<1>4. ASSUME NEW c \in Clients, Commit(c) PROVE TypeOK'
  <2>1. req' \in [Clients -> Request]
    BY <1>4 DEF Commit, End, Idle, TypeOK, Request
  <2>. QED
    BY <1>4, <2>1, ApplyTypes DEF Commit, TypeOK
<1>5. ASSUME NEW c \in Clients, Rollback(c) PROVE TypeOK'
  BY <1>5 DEF Rollback, Failed, End, Idle, TypeOK, Request
<1>6. ASSUME NEW c \in Clients, AnswerLost(c) PROVE TypeOK'
  <2>1. req' \in [Clients -> Request]
    BY <1>6 DEF AnswerLost, Failed, End, Idle, TypeOK, Request
  <2>2. doubtful' \subseteq Files
    BY <1>6 DEF AnswerLost, TypeOK, Request
  <2>. QED
    BY <1>6, <2>1, <2>2, ApplyTypes DEF AnswerLost, Fault, TypeOK
<1>7. ASSUME NEW c \in Clients, CleanNewFile(c) \/ UnlinkPrevious(c) PROVE TypeOK'
  <2>1. req' \in [Clients -> Request]
    BY <1>7 DEF CleanNewFile, UnlinkPrevious, End, Idle, TypeOK, Request
  <2>. QED
    BY <1>7, <2>1, DeleteFileTypes DEF CleanNewFile, UnlinkPrevious, TypeOK
<1>8. ASSUME NEW f \in Files, Age(f) PROVE TypeOK'
  BY <1>8 DEF Age, TypeOK
<1>9. ASSUME ListOldFiles \/ FilterInUse PROVE TypeOK'
  <2>1. FirstOf(old) \subseteq Files
    BY FirstOfSubset DEF TypeOK
  <2>2. sweep' \in Sweep
    BY <1>9, <2>1 DEF ListOldFiles, FilterInUse, Sweep, Off, OldEnough, TypeOK
  <2>. QED
    BY <1>9, <2>2 DEF ListOldFiles, FilterInUse, TypeOK
<1>10. ASSUME RemoveOrphan PROVE TypeOK'
  <2>1. sweep' \in Sweep
    BY <1>10 DEF RemoveOrphan, Sweep, Off, TypeOK
  <2>. QED
    BY <1>10, <2>1, DeleteFileTypes DEF RemoveOrphan, TypeOK
<1>11. ASSUME Crash PROVE TypeOK'
  BY <1>11 DEF Crash, Fault, Sweep, Off, Idle, Request, TypeOK
<1>. QED
  BY <1>1, <1>2, <1>3, <1>4, <1>5, <1>6, <1>7, <1>8, <1>9, <1>10, <1>11
  DEF Next, Proceed, Sweeping, vars, TypeOK

-----------------------------------------------------------------------------
(* Each action keeps the invariant, given the types.                       *)
LEMMA WriteNext ==
  ASSUME Inv, TypeOK', NEW c \in Clients, WriteImageFile(c)
  PROVE  Inv'
<1>1. RequestInv'
  <2>1. PICK p \in Products, f \in Files \ Known :
          /\ disk' = disk \cup {f} /\ doubtful' = doubtful \ {f}
          /\ req' = [req EXCEPT ![c] =
                      [at |-> "begin", product |-> p, file |-> f, previous |-> None]]
          /\ UNCHANGED <<image, rows, old, sweep>>
    BY DEF WriteImageFile
  <2>2. f \notin disk \cup rows \cup old \cup sweep.candidates
    BY DEF Known, Inv, TypeOK
  <2> SUFFICES ASSUME NEW d \in Clients
               PROVE  RequestInv!(d)'
    BY DEF RequestInv
  <2>3. CASE d = c
    BY <2>1, <2>2, <2>3 DEF Inv, TypeOK, Owns, Uncommitted, At
  <2>4. CASE d # c
    BY <2>1, <2>2, <2>4 DEF Inv, TypeOK, RequestInv, Owns, Uncommitted, At
  <2>. QED
    BY <2>3, <2>4
<1>2. PairInv'
  BY DEF Inv, TypeOK, Request, RequestInv, PairInv, RowsAreImages, Owns,
    Uncommitted, At, WriteImageFile, Known
<1>3. SweepInv'
  BY DEF Inv, TypeOK, RequestInv, SweepInv, Owns, Uncommitted, At, WriteImageFile, Known
<1>4. ImageHasFile' /\ RowsAreImages'
  BY DEF Inv, TypeOK, RequestInv, ImageHasFile, RowsAreImages, Owns,
    Uncommitted, At, WriteImageFile, Known
<1>. QED
  BY <1>1, <1>2, <1>3, <1>4 DEF Inv

LEMMA RemoveNext ==
  ASSUME Inv, TypeOK', NEW c \in Clients, RemoveImage(c)
  PROVE  Inv'
<1>1. RequestInv'
  BY DEF Inv, TypeOK, Request, RequestInv, PairInv, Owns, Uncommitted, At,
    RemoveImage, Idle
<1>2. PairInv'
  BY DEF Inv, TypeOK, Request, RequestInv, PairInv, RowsAreImages, Owns,
    Uncommitted, At, RemoveImage, Idle
<1>3. SweepInv'
  BY DEF Inv, TypeOK, RequestInv, SweepInv, Owns, Uncommitted, At, RemoveImage, Idle
<1>4. ImageHasFile' /\ RowsAreImages'
  BY DEF Inv, TypeOK, RequestInv, ImageHasFile, RowsAreImages, Owns,
    Uncommitted, At, RemoveImage, Idle
<1>. QED
  BY <1>1, <1>2, <1>3, <1>4 DEF Inv

LEMMA LockNext ==
  ASSUME Inv, TypeOK', NEW c \in Clients, LockProduct(c)
  PROVE  Inv'
<1>1. RequestInv'
  BY DEF Inv, TypeOK, Request, RequestInv, PairInv, Owns, Uncommitted, At,
    LockProduct, Held
<1>2. PairInv'
  BY DEF Inv, TypeOK, Request, RequestInv, PairInv, RowsAreImages, Owns,
    Uncommitted, At, LockProduct, Held
<1>3. SweepInv'
  BY DEF Inv, TypeOK, RequestInv, SweepInv, Owns, Uncommitted, At, LockProduct, Held
<1>4. ImageHasFile' /\ RowsAreImages'
  BY DEF Inv, TypeOK, RequestInv, ImageHasFile, RowsAreImages, Owns,
    Uncommitted, At, LockProduct, Held
<1>. QED
  BY <1>1, <1>2, <1>3, <1>4 DEF Inv

(* Apply moves the image of the locked product, and no other image.        *)
LEMMA ApplyImages ==
  ASSUME Inv, NEW c \in Clients, At(c, "locked"), Apply(c)
  PROVE  /\ RowsAreImages'
         /\ \A p \in Products : image'[p] = IF p = req[c].product THEN req[c].file ELSE image[p]
         /\ req[c].previous \notin rows'
BY DEF Inv, TypeOK, Request, RequestInv, RowsAreImages, Apply, Owns, Uncommitted, At

LEMMA CommitNext ==
  ASSUME Inv, TypeOK', NEW c \in Clients, Commit(c)
  PROVE  Inv'
<1>1. RequestInv'
  <2> SUFFICES ASSUME NEW d \in Clients
               PROVE  RequestInv!(d)'
    BY DEF RequestInv
  <2>1. CASE d = c
    BY <2>1, ApplyImages
    DEF Inv, TypeOK, Request, RequestInv, Commit, End, Idle, Owns, Uncommitted, At
  <2>2. CASE d # c
    <3>1. req'[d] = req[d] /\ UNCHANGED <<disk, old, sweep, doubtful>>
      BY <2>2 DEF Commit, End, Inv, TypeOK
    <3>2. \A f \in rows' \ rows : Owns(c) /\ f = req[c].file
      BY DEF Commit, Apply, Owns, Uncommitted, At
    <3>3. At(d, "locked") => image'[req[d].product] = image[req[d].product]
      BY <2>2, ApplyImages DEF Commit, Inv, PairInv, RequestInv, At
    <3>4. Owns(d) => req[d].file # req[c].file
      BY <2>2 DEF Inv, PairInv
    <3>. QED
      BY <2>2, <3>1, <3>2, <3>3, <3>4
      DEF Inv, RequestInv, PairInv, Owns, Uncommitted, At
  <2>. QED
    BY <2>1, <2>2
<1>2. PairInv'
  BY ApplyImages DEF Inv, TypeOK, Request, RequestInv, PairInv, RowsAreImages, Owns,
    Uncommitted, At, Commit, Apply, End, Idle
<1>3. SweepInv'
  BY ApplyImages DEF Inv, TypeOK, RequestInv, SweepInv, Owns, Uncommitted, At, Commit, Apply, End, Idle
<1>4. ImageHasFile' /\ RowsAreImages'
  BY ApplyImages DEF Inv, TypeOK, RequestInv, ImageHasFile, RowsAreImages, Owns,
    Uncommitted, At, Commit, Apply, End, Idle
<1>. QED
  BY <1>1, <1>2, <1>3, <1>4 DEF Inv

LEMMA RollbackNext ==
  ASSUME Inv, TypeOK', NEW c \in Clients, Rollback(c)
  PROVE  Inv'
<1>1. RequestInv'
  BY DEF Inv, TypeOK, Request, RequestInv, PairInv, Owns, Uncommitted, At,
    Rollback, Failed, End, Idle
<1>2. PairInv'
  BY DEF Inv, TypeOK, Request, RequestInv, PairInv, RowsAreImages, Owns,
    Uncommitted, At, Rollback, Failed, End, Idle
<1>3. SweepInv'
  BY DEF Inv, TypeOK, RequestInv, SweepInv, Owns, Uncommitted, At, Rollback, Failed, End, Idle
<1>4. ImageHasFile' /\ RowsAreImages'
  BY DEF Inv, TypeOK, RequestInv, ImageHasFile, RowsAreImages, Owns,
    Uncommitted, At, Rollback, Failed, End, Idle
<1>. QED
  BY <1>1, <1>2, <1>3, <1>4 DEF Inv

LEMMA AnswerLostNext ==
  ASSUME Inv, TypeOK', NEW c \in Clients, AnswerLost(c)
  PROVE  Inv'
<1>1. RequestInv'
  BY ApplyImages DEF Inv, TypeOK, Request, RequestInv, PairInv, Owns, Uncommitted, At,
    AnswerLost, Apply, Failed, End, Idle
<1>2. PairInv'
  BY ApplyImages DEF Inv, TypeOK, Request, RequestInv, PairInv, RowsAreImages, Owns,
    Uncommitted, At, AnswerLost, Apply, Failed, End, Idle
<1>3. SweepInv'
  BY ApplyImages DEF Inv, TypeOK, RequestInv, SweepInv, Owns, Uncommitted, At, AnswerLost, Apply, Failed, End, Idle
<1>4. ImageHasFile' /\ RowsAreImages'
  BY ApplyImages DEF Inv, TypeOK, RequestInv, ImageHasFile, RowsAreImages, Owns,
    Uncommitted, At, AnswerLost, Apply, Failed, End, Idle
<1>. QED
  BY <1>1, <1>2, <1>3, <1>4 DEF Inv

LEMMA DeleteNext ==
  ASSUME Inv, TypeOK', NEW c \in Clients, CleanNewFile(c) \/ UnlinkPrevious(c)
  PROVE  Inv'
<1>1. RequestInv'
  BY DeleteFileEither DEF Inv, TypeOK, Request, RequestInv, PairInv, Owns, Uncommitted, At,
    CleanNewFile, UnlinkPrevious, End, Idle
<1>2. PairInv'
  BY DeleteFileEither DEF Inv, TypeOK, Request, RequestInv, PairInv, RowsAreImages, Owns,
    Uncommitted, At, CleanNewFile, UnlinkPrevious, End, Idle
<1>3. SweepInv'
  BY DeleteFileEither DEF Inv, TypeOK, RequestInv, SweepInv, Owns, Uncommitted, At, CleanNewFile, UnlinkPrevious, End, Idle
<1>4. ImageHasFile' /\ RowsAreImages'
  BY DeleteFileEither DEF Inv, TypeOK, RequestInv, ImageHasFile, RowsAreImages, Owns,
    Uncommitted, At, CleanNewFile, UnlinkPrevious, End, Idle
<1>. QED
  BY <1>1, <1>2, <1>3, <1>4 DEF Inv

LEMMA SweepNext ==
  ASSUME Inv, TypeOK', Sweeping
  PROVE  Inv'
<1>1. RequestInv'
  BY DeleteFileEither, FirstOfSubset DEF Inv, TypeOK, Request, RequestInv, PairInv, Owns, Uncommitted, At,
    Sweeping, ListOldFiles, FilterInUse, RemoveOrphan, Off, OldEnough, Sweep
<1>2. PairInv'
  BY DeleteFileEither, FirstOfSubset DEF Inv, TypeOK, Request, RequestInv, PairInv, RowsAreImages, Owns,
    Uncommitted, At, Sweeping, ListOldFiles, FilterInUse, RemoveOrphan, Off, OldEnough, Sweep
<1>3. SweepInv'
  BY DeleteFileEither, FirstOfSubset DEF Inv, TypeOK, RequestInv, SweepInv, Owns, Uncommitted, At, Sweeping, ListOldFiles, FilterInUse, RemoveOrphan, Off, OldEnough, Sweep
<1>4. ImageHasFile' /\ RowsAreImages'
  <2>1. CASE ListOldFiles \/ FilterInUse
    BY <2>1 DEF Inv, ImageHasFile, RowsAreImages, ListOldFiles, FilterInUse
  <2>2. CASE RemoveOrphan
    <3>1. PICK f \in sweep.candidates : sweep.at = "remove" /\ DeleteFile(f)
      BY <2>2 DEF RemoveOrphan
    <3>2. disk \ {f} \subseteq disk' /\ f \notin rows
      BY <3>1, DeleteFileEither DEF Inv, SweepInv
    <3>. QED
      BY <2>2, <3>2 DEF Inv, TypeOK, ImageHasFile, RowsAreImages, RemoveOrphan
  <2>. QED
    BY <2>1, <2>2 DEF Sweeping
<1>. QED
  BY <1>1, <1>2, <1>3, <1>4 DEF Inv

LEMMA InvInit == Init => Inv
BY TypeInit
DEF Init, Inv, RequestInv, PairInv, SweepInv, ImageHasFile, RowsAreImages, Owns,
    Uncommitted, At, Idle, Off

LEMMA InvNext == Inv /\ [Next]_vars => Inv'
<1> SUFFICES ASSUME Inv, [Next]_vars PROVE Inv'
  OBVIOUS
<1>1. TypeOK'
  BY TypeNext DEF Inv
<1>2. ASSUME NEW f \in Files, Age(f) PROVE Inv'
  BY <1>1, <1>2
  DEF Inv, RequestInv, PairInv, SweepInv, ImageHasFile, RowsAreImages, Age,
      InRequest, Owns, Uncommitted, At
<1>3. CASE Crash
  BY <1>1, <1>3
  DEF Inv, RequestInv, PairInv, SweepInv, ImageHasFile, RowsAreImages, Crash, Idle,
      Off, Owns, Uncommitted, At
<1>4. CASE UNCHANGED vars
  BY <1>1, <1>4
  DEF Inv, RequestInv, PairInv, SweepInv, ImageHasFile, RowsAreImages, vars, Owns,
      Uncommitted, At
<1>. QED
  BY <1>1, <1>2, <1>3, <1>4, WriteNext, RemoveNext, LockNext, CommitNext,
     RollbackNext, AnswerLostNext, DeleteNext, SweepNext
  DEF Next, Proceed

LEMMA ImagesInvariance == Spec => []Inv
BY InvInit, InvNext, PTL DEF Spec

(* The tables, the directory and the requests keep their types, and no     *)
(* file is old that is not on disk.                                        *)
THEOREM ImagesTyped == Spec => []TypeOK
<1>1. Inv => TypeOK
  BY DEF Inv
<1>. QED
  BY <1>1, ImagesInvariance, PTL

(* However many requests replace and remove images while sweeps run and    *)
(* the process crashes, an image that the database shows has its file;     *)
(* only a COMMIT whose answer was lost can take it away.                   *)
THEOREM ImagesKeepTheirFiles == Spec => []ImageHasFile
<1>1. Inv => ImageHasFile
  BY DEF Inv
<1>. QED
  BY <1>1, ImagesInvariance, PTL

(* Every row of attachments is the image of exactly one product: the lock  *)
(* on the product makes the old row that a request removes the right one.  *)
THEOREM NoStrayRows == Spec => []RowsAreImages
<1>1. Inv => RowsAreImages
  BY DEF Inv
<1>. QED
  BY <1>1, ImagesInvariance, PTL

-----------------------------------------------------------------------------
(* A request that will remove the file, or give it a row.                  *)
KnownBy(f, c) ==
  \/ req[c].file = f /\ req[c].at \in {"begin", "locked", "clean"}
  \/ req[c].previous = f /\ At(c, "unlink")

LEMMA NothingLeftBehindNext ==
  ASSUME Inv, NothingLeftBehind, [Next]_vars
  PROVE  NothingLeftBehind'
<1>1. ASSUME NEW c \in Clients, WriteImageFile(c) PROVE NothingLeftBehind'
  <2> SUFFICES ASSUME faults' = 0, NEW g \in disk' \ rows'
               PROVE  \E d \in Clients : KnownBy(g, d)'
    BY DEF NothingLeftBehind, KnownBy
  <2>1. PICK p \in Products, f \in Files \ Known :
          /\ disk' = disk \cup {f}
          /\ req' = [req EXCEPT ![c] =
                      [at |-> "begin", product |-> p, file |-> f, previous |-> None]]
          /\ At(c, "idle") /\ UNCHANGED <<rows, faults>>
    BY <1>1 DEF WriteImageFile
  <2>2. CASE g = f
    BY <2>1, <2>2 DEF Inv, TypeOK, KnownBy
  <2>3. CASE g # f
    <3>1. PICK d \in Clients : KnownBy(g, d)
      BY <2>1, <2>3 DEF NothingLeftBehind, KnownBy
    <3>. QED
      BY <2>1, <3>1 DEF Inv, TypeOK, KnownBy, At
  <2>. QED
    BY <2>2, <2>3
<1>2. ASSUME NEW c \in Clients, RemoveImage(c) PROVE NothingLeftBehind'
  BY <1>2 DEF Inv, TypeOK, RequestInv, NothingLeftBehind, RemoveImage, At, Idle
<1>3. ASSUME NEW c \in Clients, LockProduct(c) PROVE NothingLeftBehind'
  BY <1>3 DEF Inv, TypeOK, Request, NothingLeftBehind, LockProduct, At
<1>4. ASSUME NEW c \in Clients, Commit(c) PROVE NothingLeftBehind'
  BY <1>4 DEF Inv, TypeOK, Request, NothingLeftBehind, Commit, Apply, End, Idle, At
<1>5. ASSUME NEW c \in Clients, Rollback(c) PROVE NothingLeftBehind'
  BY <1>5 DEF Inv, TypeOK, Request, NothingLeftBehind, Rollback, Failed, End, Idle, At
<1>6. ASSUME NEW c \in Clients, CleanNewFile(c) \/ UnlinkPrevious(c)
      PROVE  NothingLeftBehind'
  <2> SUFFICES ASSUME faults' = 0, NEW g \in disk' \ rows'
               PROVE  \E d \in Clients : KnownBy(g, d)'
    BY DEF NothingLeftBehind, KnownBy
  <2>1. PICK f : /\ f = IF At(c, "clean") THEN req[c].file ELSE req[c].previous
                 /\ disk' = disk \ {f} /\ rows' = rows /\ faults = 0
    BY <1>6, DeleteFileEither DEF Inv, CleanNewFile, UnlinkPrevious, At
  <2>2. PICK d \in Clients : KnownBy(g, d)
    BY <2>1 DEF NothingLeftBehind, KnownBy
  <2>3. d # c
    BY <1>6, <2>1, <2>2 DEF CleanNewFile, UnlinkPrevious, KnownBy, At
  <2>. QED
    BY <1>6, <2>2, <2>3
    DEF Inv, TypeOK, CleanNewFile, UnlinkPrevious, End, KnownBy, At
<1>7. ASSUME Sweeping PROVE NothingLeftBehind'
  BY <1>7, DeleteFileEither
  DEF Inv, NothingLeftBehind, Sweeping, ListOldFiles, FilterInUse, RemoveOrphan, At
<1>8. ASSUME Crash \/ \E c \in Clients : AnswerLost(c) PROVE NothingLeftBehind'
  BY <1>8 DEF Inv, TypeOK, NothingLeftBehind, Crash, AnswerLost, Fault
<1>9. CASE UNCHANGED vars \/ \E f \in Files : Age(f)
  BY <1>9 DEF NothingLeftBehind, vars, Age, At
<1>. QED
  BY <1>1, <1>2, <1>3, <1>4, <1>5, <1>6, <1>7, <1>8, <1>9 DEF Next, Proceed

(* The code paths themselves leave no file behind: without a fault, a file *)
(* that no row names belongs to a request that will remove it.             *)
THEOREM RequestsCleanUp == Spec => []NothingLeftBehind
<1>1. Init => NothingLeftBehind
  BY DEF Init, NothingLeftBehind
<1>. QED
  BY <1>1, NothingLeftBehindNext, ImagesInvariance, PTL DEF Spec
=============================================================================
