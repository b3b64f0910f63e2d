------------------------------ MODULE Uploads ------------------------------
(***************************************************************************)
(* Uploading a statement (secure-upload.ts, pdf-document.ts and            *)
(* import-service.ts of apps/server/src/imports, import-preview-store.ts): *)
(* the PDF is received into a directory of its own, piece by piece, read,  *)
(* parsed and saved as the preview of an import, and the directory is      *)
(* removed.  Several uploads are under way at the same time, the client    *)
(* may stop sending or go away, the disk may refuse, the process may die.  *)
(*                                                                         *)
(* A file is its printed statement, what is wrong with it as a PDF, and    *)
(* its size in pieces; its fingerprint is the file itself.                 *)
(***************************************************************************)
EXTENDS PrintedStatements, FiniteSets

CONSTANTS
    Request,      \* the requests that upload something
    File,         \* File[r] is the set of files that request r may send
    MaxPieces,    \* the limit on the size of a file (20 MiB)
    MaxPages,     \* the limit on its pages (200)
    MaxFaults     \* how often the disk fails or the process dies

ASSUME UploadsAssumption ==
    /\ Null \notin Request /\ MaxPieces \in Nat \ {0} /\ MaxFaults \in Nat
    /\ \A r \in Request : \A f \in File[r] : f.pieces \in Nat

VARIABLES
    step,        \* where each request is
    file,        \* the file it sends
    received,    \* the pieces of it that are on disk
    answer,      \* what the client was told
    directory,   \* the temporary directories, by request
    batch,       \* import_batches with their rows, by the request that made them
    faults,      \* how many faults there have been
    overlapped,  \* history: uploads checked while another of the same file was
                 \* between its own check and its end
    abandoned    \* history: directories left by a fault

uploadsVars == <<step, file, received, answer, directory, batch, faults, overlapped, abandoned>>

Step == {"idle", "opening", "receiving", "interrupted", "received", "reading", "done",
         "answered"}
Live == {"previewed", "committed"}

UploadsInit ==
    /\ step = [r \in Request |-> "idle"]
    /\ file \in {f \in [Request -> UNION {File[r] : r \in Request}] :
                    \A r \in Request : f[r] \in File[r]}
    /\ received = [r \in Request |-> 0]
    /\ answer = [r \in Request |-> Null]
    /\ directory = {}
    /\ batch = [r \in Request |-> Null]
    /\ faults = 0
    /\ overlapped = {} /\ abandoned = {}

Answered(r, a) ==
    /\ step' = [step EXCEPT ![r] = "answered"]
    /\ answer' = [answer EXCEPT ![r] = a]

GoesOn(r, s) == step' = [step EXCEPT ![r] = s] /\ UNCHANGED answer

Fault == faults < MaxFaults /\ faults' = faults + 1

-----------------------------------------------------------------------------
\* receiveSecurePdf.  A request without the content type or a body is refused
\* before anything is on disk.
Refuse(r) ==
    /\ step[r] = "idle"
    /\ Answered(r, "refused")
    /\ UNCHANGED <<file, received, directory, batch, faults, overlapped, abandoned>>

MakeDirectory(r) ==
    /\ step[r] = "idle"
    /\ directory' = directory \cup {r}
    /\ GoesOn(r, "opening")
    /\ UNCHANGED <<file, received, batch, faults, overlapped, abandoned>>

Open(r) ==
    /\ step[r] = "opening"
    /\ GoesOn(r, "receiving")
    /\ UNCHANGED <<file, received, directory, batch, faults, overlapped, abandoned>>

\* Neither the chmod nor the open is in the try block.
OpenFails(r) ==
    /\ step[r] = "opening" /\ Fault
    /\ abandoned' = abandoned \cup {r}
    /\ Answered(r, "refused")
    /\ UNCHANGED <<file, received, directory, batch, overlapped>>

\* A piece arrives; one too many ends the upload.
Piece(r) ==
    /\ step[r] = "receiving" /\ received[r] < file[r].pieces
    /\ IF received[r] = MaxPieces
       THEN GoesOn(r, "interrupted") /\ UNCHANGED received
       ELSE received' = [received EXCEPT ![r] = @ + 1] /\ UNCHANGED <<step, answer>>
    /\ UNCHANGED <<file, directory, batch, faults, overlapped, abandoned>>

\* readBeforeDeadline: the client goes away, or sends nothing until the deadline.
Interrupt(r) ==
    /\ step[r] = "receiving"
    /\ GoesOn(r, "interrupted")
    /\ UNCHANGED <<file, received, directory, batch, faults, overlapped, abandoned>>

\* The write or the sync of the file fails.
WriteFails(r) ==
    /\ step[r] = "receiving" /\ Fault
    /\ GoesOn(r, "interrupted")
    /\ UNCHANGED <<file, received, directory, batch, overlapped, abandoned>>

\* The body ends; an empty one is no PDF.
Finish(r) ==
    /\ step[r] = "receiving" /\ received[r] = file[r].pieces
    /\ GoesOn(r, IF received[r] = 0 THEN "interrupted" ELSE "received")
    /\ UNCHANGED <<file, received, directory, batch, faults, overlapped, abandoned>>

FaultyGiveUp(r) ==   \* fault: leaves the directory of an upload it gives up
    /\ step[r] = "interrupted"
    /\ Answered(r, "refused")
    /\ UNCHANGED <<file, received, directory, batch, faults, overlapped, abandoned>>

\* The catch block.
GiveUp(r) ==
    /\ step[r] = "interrupted"
    /\ directory' = directory \ {r}
    /\ Answered(r, "refused")
    /\ UNCHANGED <<file, received, batch, faults, overlapped, abandoned>>

-----------------------------------------------------------------------------
\* findByFingerprint
FaultyDuplicates(f) ==   \* fault: forgets the committed ones
    {q \in Request : batch[q] # Null /\ batch[q].file = f /\ batch[q].status = "previewed"}

Duplicates(f) ==
    {q \in Request : batch[q] # Null /\ batch[q].file = f /\ batch[q].status \in Live}

\* The check of ImportPreviewService.create, before the file is read.
Check(r) ==
    /\ step[r] = "received"
    /\ IF Duplicates(file[r]) # {}
       THEN /\ step' = [step EXCEPT ![r] = "done"]
            /\ answer' = [answer EXCEPT ![r] = "duplicate"]
       ELSE GoesOn(r, "reading")
    /\ overlapped' = overlapped \cup
         IF \E q \in Request \ {r} : step[q] = "reading" /\ file[q] = file[r]
         THEN {r} ELSE {}
    /\ UNCHANGED <<file, received, directory, batch, faults, abandoned>>

\* readPositionedPdf: what is wrong with a PDF, in the order it is found out.
Reading(f) ==
    IF f.pdf # "sound" THEN Refused(f.pdf)
    ELSE IF Len(f.statement.pages) > MaxPages THEN Refused("PDF_TOO_MANY_PAGES")
    ELSE Read(Printed(f.statement), Width(f.statement))

\* The preview that is saved of a statement that could be read.
Preview(f, statement) ==
    [file |-> f, status |-> "previewed", rows |-> statement.transactions,
     mask |-> statement.mask, parsed |-> statement.parsed, reconciled |-> statement.status]

\* The file has been read.  Parsing and saving, with the audit record, follow without a pause.
SavePreview(r) ==
    /\ step[r] = "reading"
    /\ LET statement == Reading(file[r])
       IN /\ step' = [step EXCEPT ![r] = "done"]
          /\ IF statement.error # Null
             THEN answer' = [answer EXCEPT ![r] = statement.error] /\ UNCHANGED batch
             ELSE /\ answer' = [answer EXCEPT ![r] = "created"]
                  /\ batch' = [batch EXCEPT ![r] = Preview(file[r], statement)]
    /\ UNCHANGED <<file, received, directory, faults, overlapped, abandoned>>

\* The transaction rolls back.
SaveFails(r) ==
    /\ step[r] = "reading" /\ Fault
    /\ step' = [step EXCEPT ![r] = "done"]
    /\ answer' = [answer EXCEPT ![r] = "IMPORT_FAILED"]
    /\ UNCHANGED <<file, received, directory, batch, overlapped, abandoned>>

\* dispose, in the finally block.
Dispose(r) ==
    /\ step[r] = "done"
    /\ directory' = directory \ {r}
    /\ GoesOn(r, "answered")
    /\ UNCHANGED <<file, received, batch, faults, overlapped, abandoned>>

\* The directory cannot be removed, by dispose or by the catch block; what was
\* saved stays, and the client is told that it failed.
RemoveFails(r) ==
    /\ step[r] \in {"interrupted", "done"} /\ Fault
    /\ abandoned' = abandoned \cup {r}
    /\ Answered(r, "IMPORT_FAILED")
    /\ UNCHANGED <<file, received, directory, batch, overlapped>>

\* Nobody looks for the directories of an earlier process.
Crash ==
    /\ Fault
    /\ abandoned' = abandoned \cup directory
    /\ step' = [r \in Request |-> IF step[r] = "idle" THEN "idle" ELSE "answered"]
    /\ answer' = [r \in Request |-> IF step[r] \in {"idle", "answered"} THEN answer[r] ELSE Null]
    /\ UNCHANGED <<file, received, directory, batch, overlapped>>

-----------------------------------------------------------------------------
\* What module Imports does to the imports: commit and delete.
CommitPreview(r) ==
    /\ batch[r] # Null /\ batch[r].status = "previewed"
    /\ batch' = [batch EXCEPT ![r].status = "committed"]
    /\ UNCHANGED <<step, file, received, answer, directory, faults, overlapped, abandoned>>

DeleteImport(r) ==
    /\ batch[r] # Null
    /\ batch' = [batch EXCEPT ![r] = Null]
    /\ UNCHANGED <<step, file, received, answer, directory, faults, overlapped, abandoned>>

UploadsNext ==
    \/ \E r \in Request :
          \/ Refuse(r) \/ MakeDirectory(r) \/ Open(r) \/ OpenFails(r)
          \/ Piece(r) \/ Interrupt(r) \/ WriteFails(r) \/ Finish(r) \/ GiveUp(r)
          \/ Check(r) \/ SavePreview(r) \/ SaveFails(r) \/ Dispose(r) \/ RemoveFails(r)
          \/ CommitPreview(r) \/ DeleteImport(r)
    \/ Crash

UploadsSpec == UploadsInit /\ [][UploadsNext]_uploadsVars

-----------------------------------------------------------------------------
\* A preview holds the rows of its statement and no others, each with what the
\* paper says, however their lines are wrapped, whichever way the columns are
\* laid out and wherever the savings account begins; it is only called matched
\* if those rows add up to the totals the bank declares.
ReadAsPrinted ==
    \A r \in Request :
        batch[r] # Null /\ Legible(batch[r].file.statement) =>
            LET s == batch[r].file.statement
            IN /\ ToSet(batch[r].rows) = WrittenRows(s)
               /\ Len(batch[r].rows) = Cardinality(WrittenRows(s))
               /\ batch[r].reconciled = "matched"
                      <=> WrittenTotal(s, "credit") = s.inflow /\ WrittenTotal(s, "debit") = s.outflow

\* A file is imported once, unless its uploads overlapped: the check precedes
\* the reading of the file and is not repeated when the preview is saved.
OneImportPerFile ==
    \A q, r \in Request :
        /\ q # r /\ batch[q] # Null /\ batch[r] # Null
        /\ batch[q].file = batch[r].file
        => q \in overlapped \/ r \in overlapped

\* The statement is on disk only while its upload is under way, however it ends;
\* only a failing disk or the death of the process leaves it there.
TemporaryFilesGo ==
    \A r \in directory :
        step[r] \in {"opening", "receiving", "interrupted", "received", "reading", "done"}
        \/ r \in abandoned
=============================================================================
