------------------------------- MODULE Files -------------------------------
(***************************************************************************)
(* internal/modules/file, platform/blob and the worker's handler of        *)
(* file.deleted.  An upload stores the bytes first and then, in one        *)
(* transaction, the row, the reference from the record and the event; the  *)
(* bytes of a deleted file are removed by the worker.  A key has a fresh   *)
(* UUID, so a file is known by the upload that stored it.                  *)
(***************************************************************************)
EXTENDS Naturals, FiniteSets

CONSTANTS
    MaxUploads,     \* bound on uploads, all to one slot of one record
    MaxDeletions,   \* bound on delete requests
    MaxAttempts     \* of the worker, before the dead-letter topic

ASSUME FilesAssumption ==
    /\ MaxUploads \in Nat /\ MaxDeletions \in Nat
    /\ MaxAttempts \in Nat \ {0}

\* Numbered as they begin.
Uploads == 1..MaxUploads
Deletions == 1..MaxDeletions

NoFile == 0     \* what an empty slot holds

VARIABLES
    upload,         \* step of each upload
    replaced,       \* the key that Bind returned to it
    blobs,          \* the object store
    rows,           \* file_objects: "retired" is deleted without an event
    slot,           \* the key in the record, external: kept by the target
    deletion,       \* deletion[d]: a delete request between its two statements
    announced,      \* number of file.deleted events of each file
    attempts,       \* tries of the worker at a file.deleted event
    handled         \* files whose event the worker is done with

fileVars == <<upload, replaced, blobs, rows, slot, deletion, announced, attempts, handled>>

UploadSteps == {"new", "stored", "cleanup", "retire", "answered", "failed"}
NoDeletion == [step |-> "new", key |-> NoFile]

-----------------------------------------------------------------------------
(* uploadHandler.                                                          *)

\* Mutant: the error of Put is dropped.
PutBlobUnchecked(u) ==
    /\ upload[u] = "new" /\ \A w \in 1..u - 1 : upload[w] # "new"
    /\ \E rest \in {"none", "partial", "whole"} : blobs' = [blobs EXCEPT ![u] = rest]
    /\ upload' = [upload EXCEPT ![u] = "stored"]
    /\ UNCHANGED <<replaced, rows, slot, deletion, announced, attempts, handled>>

\* Put: os.Create and io.Copy can stop halfway, a reply of S3 can be lost.
\* The handler leaves behind what is there.
PutBlob(u) ==
    /\ upload[u] = "new" /\ \A w \in 1..u - 1 : upload[w] # "new"
    /\ \/ /\ blobs' = [blobs EXCEPT ![u] = "whole"]
          /\ upload' = [upload EXCEPT ![u] = "stored"]
       \/ \E rest \in {"none", "partial", "whole"} :
          /\ blobs' = [blobs EXCEPT ![u] = rest]
          /\ upload' = [upload EXCEPT ![u] = "failed"]
    /\ UNCHANGED <<replaced, rows, slot, deletion, announced, attempts, handled>>

\* CreateTx, Bind and the event commit; the reply of the commit may be lost.
CommitUpload(u) ==
    /\ upload[u] = "stored"
    /\ rows' = [rows EXCEPT ![u] = "live"]      \* version 1
    /\ slot' = u
    /\ replaced' = [replaced EXCEPT ![u] = slot]
    /\ upload' \in {[upload EXCEPT ![u] = IF slot = NoFile THEN "answered" ELSE "retire"],
                    [upload EXCEPT ![u] = "cleanup"]}
    /\ UNCHANGED <<blobs, deletion, announced, attempts, handled>>

\* Anything in the transaction fails and it is rolled back.
RejectUpload(u) ==
    /\ upload[u] = "stored"
    /\ upload' = [upload EXCEPT ![u] = "cleanup"]
    /\ UNCHANGED <<replaced, blobs, rows, slot, deletion, announced, attempts, handled>>

\* After a failed transaction the blob is removed; an error is ignored.
CleanUp(u) ==
    /\ upload[u] = "cleanup"
    /\ blobs' \in {[blobs EXCEPT ![u] = "none"], blobs}
    /\ upload' = [upload EXCEPT ![u] = "failed"]
    /\ UNCHANGED <<replaced, rows, slot, deletion, announced, attempts, handled>>

\* Mutant: the upload's own row.
RetireOwn(u) ==
    /\ upload[u] = "retire"
    /\ upload' = [upload EXCEPT ![u] = "answered"]
    /\ rows' = [rows EXCEPT ![u] = "retired"]
    /\ UNCHANGED <<replaced, blobs, slot, deletion, announced, attempts, handled>>

\* The row of the replaced file is deleted in a transaction of its own and
\* without an event; an error is ignored.
Retire(u) ==
    LET old == replaced[u] IN
    /\ upload[u] = "retire"
    /\ upload' = [upload EXCEPT ![u] = "answered"]
    /\ rows' \in {[rows EXCEPT ![old] = IF @ = "live" THEN "retired" ELSE @], rows}
    /\ UNCHANGED <<replaced, blobs, slot, deletion, announced, attempts, handled>>

\* The API process stops.
StopUpload(u) ==
    /\ upload[u] \in {"stored", "cleanup", "retire"}
    /\ upload' = [upload EXCEPT ![u] = IF @ = "retire" THEN "answered" ELSE "failed"]
    /\ UNCHANGED <<replaced, blobs, rows, slot, deletion, announced, attempts, handled>>

-----------------------------------------------------------------------------
(* deleteHandler and getHandler.                                           *)

\* Store.Get.
FoundFile(u) == rows[u] = "live"

\* The row is read before the transaction.
FindFile(d) ==
    /\ deletion[d].step = "new" /\ \A e \in 1..d - 1 : deletion[e].step # "new"
    /\ \E u \in Uploads :
        /\ FoundFile(u)
        /\ deletion' = [deletion EXCEPT ![d] = [step |-> "read", key |-> u]]
    /\ UNCHANGED <<upload, replaced, blobs, rows, slot, announced, attempts, handled>>

\* Mutant: UPDATE without deleted_at IS NULL.
DeletableAlways(u) == TRUE

\* SoftDeleteTx: WHERE key AND deleted_at IS NULL.
Deletable(u) == rows[u] = "live"

\* The row and the event, or nothing.
DeleteFile(d) ==
    LET u == deletion[d].key IN
    /\ deletion[d].step = "read"
    /\ deletion' = [deletion EXCEPT ![d] = [step |-> "done", key |-> NoFile]]
    /\ \/ /\ Deletable(u)
          /\ rows' = [rows EXCEPT ![u] = "deleted"]
          /\ announced' = [announced EXCEPT ![u] = @ + 1]
       \/ UNCHANGED <<rows, announced>>
    /\ UNCHANGED <<upload, replaced, blobs, slot, attempts, handled>>

\* blobs.Get opens what is there.
Opens(u) == blobs[u] # "none"

\* getHandler: the row, then the bytes.
Served(u) == FoundFile(u) /\ Opens(u)

-----------------------------------------------------------------------------
(* The worker.                                                             *)

Due(u) == announced[u] > 0 /\ u \notin handled

\* Mutant: the bytes are only removed while the row is there.
RemovedWithRow(u) == IF rows[u] = "live" THEN "none" ELSE blobs[u]

\* blobStore.Delete: S3 deletes what is not there, Local.Delete fails on it and
\* the handler ignores that.
Removed(u) == "none"

\* Mutant: one try too many.
TriesLeftInclusive(u) == attempts[u] <= MaxAttempts

\* Consumer: before the dead-letter topic.
TriesLeft(u) == attempts[u] < MaxAttempts

\* The handler of file.deleted inside the inbox transaction: the blob is not
\* part of it, and a transaction that fails afterwards is tried again.
HandleDeleted(u) ==
    /\ Due(u) /\ TriesLeft(u)
    /\ \/ /\ blobs' = [blobs EXCEPT ![u] = Removed(u)]
          /\ handled' = handled \cup {u}
          /\ UNCHANGED attempts
       \/ /\ blobs' \in {blobs, [blobs EXCEPT ![u] = Removed(u)]}
          /\ attempts' = [attempts EXCEPT ![u] = @ + 1]
          /\ UNCHANGED handled
    /\ UNCHANGED <<upload, replaced, rows, slot, deletion, announced>>

DeadLetter(u) == attempts[u] = MaxAttempts

-----------------------------------------------------------------------------

FileInit ==
    /\ upload = [u \in Uploads |-> "new"]
    /\ replaced = [u \in Uploads |-> NoFile]
    /\ blobs = [u \in Uploads |-> "none"]
    /\ rows = [u \in Uploads |-> "none"]
    /\ slot = NoFile
    /\ deletion = [d \in Deletions |-> NoDeletion]
    /\ announced = [u \in Uploads |-> 0]
    /\ attempts = [u \in Uploads |-> 0]
    /\ handled = {}

FileArrival == (\E u \in Uploads : PutBlob(u)) \/ \E d \in Deletions : FindFile(d)

FileStep ==
    \/ \E u \in Uploads : CommitUpload(u) \/ RejectUpload(u) \/ CleanUp(u) \/ Retire(u)
                          \/ StopUpload(u) \/ HandleDeleted(u)
    \/ \E d \in Deletions : DeleteFile(d)

-----------------------------------------------------------------------------
(* Properties.                                                             *)

\* uploadHandler: a file whose upload was answered with 201 and that nobody
\* deleted has all its bytes, and a row never points to half a file; the row
\* of an upload that failed (its commit's reply was lost) may have none.
LiveFileHasBytes ==
    \A u \in Uploads :
        /\ rows[u] = "live" /\ upload[u] \in {"answered", "retire"} => blobs[u] = "whole"
        /\ Served(u) => blobs[u] = "whole"

\* The bytes without a live row are those of an upload in progress or failed,
\* of a file whose deletion the worker has not handled or has given up, or of
\* a replaced file.
OrphansExplained ==
    \A u \in Uploads :
        blobs[u] # "none" /\ rows[u] # "live" =>
            \/ upload[u] \in {"stored", "cleanup", "failed"}
            \/ Due(u)
            \/ rows[u] = "retired" /\ \E w \in Uploads : replaced[w] = u

\* deleteHandler: however many delete requests meet, a deleted file has one
\* file.deleted event; the worker removes bytes only of a file that has one.
DeletedOnce ==
    \A u \in Uploads :
        /\ announced[u] = IF rows[u] = "deleted" THEN 1 ELSE 0
        /\ upload[u] = "answered" /\ blobs[u] = "none" => announced[u] = 1

\* The worker: the bytes of a deleted file go, unless every try fails.
DeletedBytesGo ==
    <>[](\A u \in Uploads : rows[u] = "deleted" => blobs[u] = "none" \/ DeadLetter(u))

=============================================================================
