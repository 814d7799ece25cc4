--------------------------- MODULE ProductImages ----------------------------
(***************************************************************************)
(* Images of products: ProductsService, AttachmentsService and the sweep   *)
(* of AttachmentsCleanupService.  An image is a file on disk and a row of  *)
(* attachments that names it; the two cannot change together.  A file and  *)
(* its row are one id here.  A request locks the row of its product from   *)
(* its first statement to its commit.                                      *)
(*                                                                         *)
(* Faults are a crash, a file that cannot be removed and a COMMIT whose    *)
(* answer is lost.                                                         *)
(***************************************************************************)
EXTENDS Naturals, FiniteSets

CONSTANTS
  Products,
  Files,      \* storage keys, in the order in which readdir lists them
  Clients,    \* requests under way at the same time
  BatchSize,  \* ORPHAN_FILE_SWEEP_BATCH_SIZE
  MaxFaults,  \* bound: faults in a behaviour
  None

ASSUME ImagesAssumption ==
  /\ Files \subseteq Nat /\ BatchSize \in Nat \ {0} /\ MaxFaults \in Nat
  /\ None \notin Files \cup Products

VARIABLES
  image,    \* products.image_id
  rows,     \* the attachments table
  disk,     \* files in UPLOAD_DIR
  old,      \* files older than ORPHAN_FILE_MIN_AGE_MS
  req,      \* the request of each client
  sweep,    \* the sweep of AttachmentsCleanupService
  doubtful, \* files whose COMMIT was carried out and not answered
  faults

vars == <<image, rows, disk, old, req, sweep, doubtful, faults>>

-----------------------------------------------------------------------------
Request ==
  [at : {"idle", "begin", "locked", "clean", "unlink"},
   product : Products \cup {None},
   file : Files \cup {None},      \* newStorageKey; None for a removal
   previous : Files \cup {None}]  \* previousStorageKey, oldStorageKey

(* isRunning is set in every state but "off".                              *)
Sweep == [at : {"off", "filter", "remove"}, candidates : SUBSET Files]

Idle == [at |-> "idle", product |-> None, file |-> None, previous |-> None]
Off == [at |-> "off", candidates |-> {}]

At(c, step) == req[c].at = step
End(c) == req' = [req EXCEPT ![c] = Idle]

(* Mutant: the product is read without a lock.                             *)
NotLocked(p) == FALSE

Held(p) == \E c \in Clients : At(c, "locked") /\ req[c].product = p

Fault == faults < MaxFaults /\ faults' = faults + 1

(* deleteFileByStorageKey: no error for a file that is gone, and one that  *)
(* is only logged for a file that stays.                                   *)
DeleteFile(f) ==
  \/ disk' = disk \ {f} /\ old' = old \ {f} /\ UNCHANGED faults
  \/ Fault /\ UNCHANGED <<disk, old>>

-----------------------------------------------------------------------------
(* A key that nothing knows stands for a new random one.                   *)
Known ==
  disk \cup rows \cup sweep.candidates
    \cup {req[c].file : c \in Clients} \cup {req[c].previous : c \in Clients}

(* FILE-02, replaceProductImage: the file is written before the            *)
(* transaction begins.                                                     *)
WriteImageFile(c) ==
  \E p \in Products, f \in Files \ Known :
    /\ At(c, "idle")
    /\ disk' = disk \cup {f}
    /\ req' = [req EXCEPT ![c] =
                 [at |-> "begin", product |-> p, file |-> f, previous |-> None]]
    /\ doubtful' = doubtful \ {f}
    /\ UNCHANGED <<image, rows, old, sweep, faults>>

(* FILE-03, deleteProductImage.                                            *)
RemoveImage(c) ==
  \E p \in Products :
    /\ At(c, "idle")
    /\ req' = [req EXCEPT ![c] =
                 [at |-> "begin", product |-> p, file |-> None, previous |-> None]]
    /\ UNCHANGED <<image, rows, disk, old, sweep, doubtful, faults>>

(* SELECT ... FOR UPDATE of the product, and the row of its image.         *)
LockProduct(c) ==
  LET p == req[c].product
  IN /\ At(c, "begin") /\ ~Held(p)
     /\ req' = [req EXCEPT ![c].at = "locked", ![c].previous = image[p]]
     /\ UNCHANGED <<image, rows, disk, old, sweep, doubtful, faults>>

(* Mutant: a removal inserts a row as well.                                *)
ApplyAlways(c) ==
  /\ image' = [image EXCEPT ![req[c].product] = req[c].file]
  /\ rows' = (rows \ {req[c].previous}) \cup {req[c].file}

(* The new row, image_id and the old row.  A removal with nothing to       *)
(* remove changes nothing.                                                 *)
Apply(c) ==
  /\ image' = [image EXCEPT ![req[c].product] = req[c].file]
  /\ rows' = (rows \ {req[c].previous}) \cup ({req[c].file} \ {None})

Commit(c) ==
  /\ At(c, "locked")
  /\ Apply(c)
  /\ IF req[c].previous = None THEN End(c)
     ELSE req' = [req EXCEPT ![c].at = "unlink"]
  /\ UNCHANGED <<disk, old, sweep, doubtful, faults>>

(* Mutant: the new file stays after a rollback.                            *)
Forget(c) == End(c)

(* A statement fails, or the product does not exist: rolled back.          *)
Failed(c) ==
  IF req[c].file = None THEN End(c)
  ELSE req' = [req EXCEPT ![c].at = "clean"]

Rollback(c) ==
  /\ At(c, "begin") \/ At(c, "locked")
  /\ Failed(c)
  /\ UNCHANGED <<image, rows, disk, old, sweep, doubtful, faults>>

(* The COMMIT is carried out, and its answer is an error.                  *)
AnswerLost(c) ==
  /\ At(c, "locked")
  /\ Apply(c)
  /\ Failed(c)
  /\ doubtful' = doubtful \cup ({req[c].file} \ {None})
  /\ Fault
  /\ UNCHANGED <<disk, old, sweep>>

(* The catch of replaceProductImage removes the new file.                  *)
CleanNewFile(c) ==
  /\ At(c, "clean")
  /\ DeleteFile(req[c].file)
  /\ End(c)
  /\ UNCHANGED <<image, rows, sweep, doubtful>>

UnlinkPrevious(c) ==
  /\ At(c, "unlink")
  /\ DeleteFile(req[c].previous)
  /\ End(c)
  /\ UNCHANGED <<image, rows, sweep, doubtful>>

-----------------------------------------------------------------------------
(* A request is over within an hour, so that a file it works on is young.  *)
InRequest(f) == \E c \in Clients : req[c].file = f /\ req[c].at \in {"begin", "locked"}

Age(f) ==
  /\ f \in disk \ old /\ ~InRequest(f)
  /\ old' = old \cup {f}
  /\ UNCHANGED <<image, rows, disk, req, sweep, doubtful, faults>>

(* Mutant: no minimum age.                                                 *)
AnyAge == disk

(* sweepOrphanFiles, once an hour: listStorageKeysOlderThan, of which the  *)
(* first BatchSize are looked at.                                          *)
OldEnough == old

FirstOf(S) == {f \in S : Cardinality({g \in S : g < f}) < BatchSize}

ListOldFiles ==
  /\ sweep.at = "off" /\ OldEnough # {}
  /\ sweep' = [at |-> "filter", candidates |-> FirstOf(OldEnough)]
  /\ UNCHANGED <<image, rows, disk, old, req, doubtful, faults>>

(* Mutant: isRunning is not reset when every candidate is in use.          *)
StaysRunning ==
  /\ sweep.at = "filter"
  /\ sweep' = [at |-> "remove", candidates |-> sweep.candidates \ rows]
  /\ UNCHANGED <<image, rows, disk, old, req, doubtful, faults>>

FilterInUse ==
  /\ sweep.at = "filter"
  /\ sweep' = IF sweep.candidates \subseteq rows THEN Off
              ELSE [at |-> "remove", candidates |-> sweep.candidates \ rows]
  /\ UNCHANGED <<image, rows, disk, old, req, doubtful, faults>>

RemoveOrphan ==
  \E f \in sweep.candidates :
    /\ sweep.at = "remove"
    /\ DeleteFile(f)
    /\ sweep' = IF sweep.candidates = {f} THEN Off
                ELSE [sweep EXCEPT !.candidates = @ \ {f}]
    /\ UNCHANGED <<image, rows, req, doubtful>>

-----------------------------------------------------------------------------
(* The process dies: transactions are rolled back, files stay.             *)
Crash ==
  /\ Fault
  /\ req' = [c \in Clients |-> Idle]
  /\ sweep' = Off
  /\ UNCHANGED <<image, rows, disk, old, doubtful>>

Init ==
  /\ image = [p \in Products |-> None]
  /\ rows = {} /\ disk = {} /\ old = {}
  /\ req = [c \in Clients |-> Idle]
  /\ sweep = Off
  /\ doubtful = {}
  /\ faults = 0

(* What a request does once it has begun.                                  *)
Proceed(c) == LockProduct(c) \/ Commit(c) \/ CleanNewFile(c) \/ UnlinkPrevious(c)

Sweeping == ListOldFiles \/ FilterInUse \/ RemoveOrphan

Next ==
  \/ \E c \in Clients :
       WriteImageFile(c) \/ RemoveImage(c) \/ Proceed(c) \/ Rollback(c) \/ AnswerLost(c)
  \/ \E f \in Files : Age(f)
  \/ Sweeping
  \/ Crash

Spec == Init /\ [][Next]_vars

(* Requests are answered, files age, and the cron job runs every hour.     *)
Fairness ==
  /\ \A c \in Clients : WF_vars(Proceed(c) \/ Rollback(c))
  /\ \A f \in Files : WF_vars(Age(f))
  /\ WF_vars(Sweeping)

FairSpec == Spec /\ Fairness

-----------------------------------------------------------------------------
TypeOK ==
  /\ image \in [Products -> Files \cup {None}]
  /\ rows \subseteq Files
  /\ disk \subseteq Files
  /\ old \subseteq disk
  /\ req \in [Clients -> Request]
  /\ sweep \in Sweep
  /\ doubtful \subseteq Files
  /\ faults \in 0..MaxFaults

(* An image that the database shows has its file, whatever requests for    *)
(* the same product, sweeps and crashes come together; only a COMMIT whose *)
(* answer was lost can take it away.                                       *)
ImageHasFile ==
  \A p \in Products : image[p] # None => image[p] \in disk \cup doubtful

(* Every row of attachments is the image of exactly one product: a row     *)
(* that outlives its product's image would shield its file from the sweep  *)
(* for ever.                                                               *)
RowsAreImages ==
  /\ rows = {image[p] : p \in Products} \ {None}
  /\ \A p, q \in Products : image[p] = image[q] /\ p # q => image[p] = None

(* The code paths themselves leave no file behind: without a fault a file  *)
(* that no row names belongs to a request that will remove it.             *)
NothingLeftBehind ==
  faults = 0 => \A f \in disk \ rows :
    \E c \in Clients :
      \/ req[c].file = f /\ req[c].at \in {"begin", "locked", "clean"}
      \/ req[c].previous = f /\ At(c, "unlink")

(* "Scans periodically to clean up" (the comment above the class): a file  *)
(* that no row names is removed in the end, unless as many old files as a  *)
(* batch takes are listed before it and are in use or a request's to       *)
(* remove.  The batch is cut before the files in use are taken out of it,  *)
(* so that it does not come to that file while they stay.                  *)
InHand == UNION {{req[c].file, req[c].previous} : c \in Clients}

Shielded(f) ==
  Cardinality({g \in old \cap (rows \cup InHand) : g < f}) >= BatchSize

OrphansSwept ==
  \A f \in Files :
    (f \in disk \ rows) ~> (f \notin disk \/ f \in rows \/ Shielded(f))
=============================================================================
