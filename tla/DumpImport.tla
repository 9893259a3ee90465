----------------------------- MODULE DumpImport -----------------------------
(***************************************************************************)
(* Merging a dump into the index (src/src/services/database_importer,      *)
(* DumpReader, DatabaseSyncService::runImport): frame after frame, with a  *)
(* resume point on disk after each, a user who cancels, and a program that *)
(* may die between any two steps and sweeps its directory when it starts.  *)
(* A frame stands for the torrents it holds; an offset for the frames read.*)
(***************************************************************************)
EXTENDS Integers, FiniteSets

CONSTANTS
    Dumps,      \* the files that are explored: [frames, tail]; tail is what follows
                \* the last whole frame: "footer", "cut" or "corrupt"
    MaxImports,  \* bound: imports started
    MaxLost      \* bound: batches whose write fails

ASSUME ImportAssumption ==
    /\ Dumps \subseteq [frames : Nat, tail : {"footer", "cut", "corrupt"}]
    /\ MaxImports \in Nat

VARIABLES
    dump,        \* the file
    dumpOnDisk,  \* whether it still exists
    resume,      \* import-state.json: the offset it holds (-1: none or unreadable)
    worker,      \* runImport's thread: where it is, frames read, how reading ended
    op,          \* local_: the import the user runs, with its options
    imported,    \* what runImport returned, and what the user is told
    indexed,     \* frames whose torrents are in the index
    lost,        \* frames whose torrents the index did not take
    imports

importVars == <<dump, dumpOnDisk, resume, worker, op, imported, indexed, lost, imports>>

Frame == UNION {1..d.frames : d \in Dumps}
DumpReader == [at : {"none", "opening", "reading", "inserting", "saving", "ending"},
               frames : {0} \cup Frame, end : {"no", "footer", "cut", "corrupt"}]
ImportOptions == [running : BOOLEAN, resume : BOOLEAN, removeWhenDone : BOOLEAN,
                  cancelled : BOOLEAN]
NoWorker == [at |-> "none", frames |-> 0, end |-> "no"]
NoOperation == [running |-> FALSE, resume |-> FALSE, removeWhenDone |-> FALSE,
                cancelled |-> FALSE]

ImportInit ==
    /\ dump \in Dumps
    /\ dumpOnDisk = TRUE /\ resume = -1
    /\ worker = NoWorker /\ op = NoOperation /\ imported = "none"
    /\ indexed = {} /\ lost = {}
    /\ imports = 0

\* The results whose closure is queued, and what it tells the user.
Told == [cancelled |-> "toldCancelled", failed |-> "toldFailed", ok |-> "toldDone"]

\* importFromFile: refused without the file or while an operation runs.  The
\* closure of the last import is queued before its worker has ended.
ImportFromFile(again, remove) ==
    /\ dumpOnDisk /\ ~op.running /\ imports < MaxImports
    /\ imported \notin DOMAIN Told
    /\ op' = [running |-> TRUE, resume |-> again, removeWhenDone |-> remove, cancelled |-> FALSE]
    /\ worker' = [NoWorker EXCEPT !.at = "opening"]
    /\ imported' = "none"
    /\ imports' = imports + 1
    /\ UNCHANGED <<dump, dumpOnDisk, resume, indexed, lost>>

\* cancel(): the worker looks at its token before every frame; an operation
\* whose worker has returned is finished here.
CancelImport ==
    /\ op.running /\ ~op.cancelled
    /\ IF worker.at = "none" THEN op' = NoOperation ELSE op' = [op EXCEPT !.cancelled = TRUE]
    /\ UNCHANGED <<dump, dumpOnDisk, resume, worker, imported, indexed, lost, imports>>

\* loadResumeOffset: a state that names another file, or none, starts over.
LoadResumeOffset == IF op.resume /\ resume >= 0 THEN resume ELSE 0

\* open() and seekTo().
OpenReader(ok) ==
    /\ worker.at = "opening"
    /\ IF ok THEN worker' = [worker EXCEPT !.at = "reading", !.frames = LoadResumeOffset]
                  /\ UNCHANGED imported
             ELSE worker' = [worker EXCEPT !.at = "ending"] /\ imported' = "unreadable"
    /\ UNCHANGED <<dump, dumpOnDisk, resume, op, indexed, lost, imports>>

\* readBatch: the next whole frame; a corrupt frame, a missing marker and the
\* footer are all an end of the frames (atEnd_).
ReadBatch ==
    /\ worker.at = "reading" /\ ~op.cancelled
    /\ worker' = IF worker.frames < dump.frames
                 THEN [worker EXCEPT !.at = "inserting", !.frames = @ + 1]
                 ELSE [worker EXCEPT !.at = "ending", !.end = dump.tail]
    /\ UNCHANGED <<dump, dumpOnDisk, resume, op, imported, indexed, lost, imports>>

StopReading ==
    /\ worker.at = "reading" /\ op.cancelled
    /\ worker' = [worker EXCEPT !.at = "ending"]
    /\ UNCHANGED <<dump, dumpOnDisk, resume, op, imported, indexed, lost, imports>>

\* insertBatch: a lookup or a write that fails is not reported to the importer.
InsertBatch(ok) ==
    /\ worker.at = "inserting"
    /\ ok \/ Cardinality(lost) < MaxLost
    /\ worker' = [worker EXCEPT !.at = "saving"]
    /\ indexed' = IF ok THEN indexed \cup {worker.frames} ELSE indexed
    /\ lost' = IF ok \/ worker.frames \in indexed THEN lost ELSE lost \cup {worker.frames}
    /\ UNCHANGED <<dump, dumpOnDisk, resume, op, imported, imports>>

\* Plausible bug: the offset is that of the frame that is read next.
SaveAhead(ok) ==
    /\ worker.at = "saving"
    /\ resume' = IF ~ok THEN resume ELSE IF worker.frames < dump.frames
                                         THEN worker.frames + 1 ELSE worker.frames
    /\ worker' = [worker EXCEPT !.at = "reading"]
    /\ UNCHANGED <<dump, dumpOnDisk, op, imported, indexed, lost, imports>>

\* saveResumeState, after the batch; when the file cannot be opened the old
\* state stays.
SaveResumeState(ok) ==
    /\ worker.at = "saving"
    /\ resume' = IF ok THEN worker.frames ELSE resume
    /\ worker' = [worker EXCEPT !.at = "reading"]
    /\ UNCHANGED <<dump, dumpOnDisk, op, imported, indexed, lost, imports>>

\* The importer's verdict: cancelled, or ok for every end of the frames.
Verdict == CASE imported = "unreadable" -> "failed"
             [] imported # "unreadable" /\ op.cancelled -> "cancelled"
             [] OTHER -> "ok"

\* The end of runImport on its thread.
EndImport ==
    /\ worker.at = "ending"
    /\ imported' = Verdict
    /\ resume' = IF Verdict = "cancelled" THEN resume ELSE -1
    /\ worker' = [worker EXCEPT !.at = "none"]
    /\ UNCHANGED <<dump, dumpOnDisk, op, indexed, lost, imports>>

\* runImport's closure: it removes the file when it was asked to, and ends the
\* operation if that is still the current one.
ReportImport ==
    /\ worker.at = "none" /\ imported \in DOMAIN Told
    /\ imported' = Told[imported]
    /\ dumpOnDisk' = (dumpOnDisk /\ ~(imported = "ok" /\ op.removeWhenDone))
    /\ op' = NoOperation
    /\ UNCHANGED <<dump, resume, worker, indexed, lost, imports>>

\* pendingImportJson: what a start of the program can offer to resume.
PendingImport == resume >= 0 /\ dumpOnDisk

\* Plausible bug: the sweep looks at the age of a file only.
SweepByAge(old) == dumpOnDisk /\ ~old

\* sweepTransferDirectory: files that are not the pending import's may go.
Sweep(old) == dumpOnDisk /\ (PendingImport \/ ~old)

\* The program dies and starts again; `old` says whether the file has outlived
\* kStaleFileAgeSecs, `torn` whether the state was being written.
RestartImport(old, torn) ==
    /\ op.running
    /\ torn => worker.at = "saving"
    /\ worker' = NoWorker /\ op' = NoOperation /\ imported' = "none"
    /\ resume' = IF torn THEN -1 ELSE resume
    /\ dumpOnDisk' = IF torn THEN dumpOnDisk /\ ~old ELSE Sweep(old)
    /\ UNCHANGED <<dump, indexed, lost, imports>>

-----------------------------------------------------------------------------
ImportNext ==
    \/ \E a, b \in BOOLEAN : ImportFromFile(a, b) \/ RestartImport(a, b)
    \/ \E ok \in BOOLEAN : OpenReader(ok) \/ InsertBatch(ok) \/ SaveResumeState(ok)
    \/ CancelImport \/ ReadBatch \/ StopReading \/ EndImport \/ ReportImport

-----------------------------------------------------------------------------
ImportSpec == ImportInit /\ [][ImportNext]_importVars

ImportTypeOK ==
    /\ dump \in Dumps /\ dumpOnDisk \in BOOLEAN
    /\ resume \in {-1} \cup {0} \cup Frame
    /\ worker \in DumpReader /\ op \in ImportOptions
    /\ imported \in {"none", "unreadable"} \cup DOMAIN Told \cup {"toldCancelled", "toldFailed", "toldDone"}
    /\ indexed \subseteq Frame /\ lost \subseteq Frame /\ imports \in 0..MaxImports

(* Whatever the cancels and crashes, a resume repeats work and never skips  *)
(* it: what lies before the resume point is in the index, or was refused by *)
(* the database when it was written.                                        *)
ResumeNeverSkips == \A f \in Frame : f <= resume => f \in indexed \cup lost

(* An import that can still be resumed keeps its file: neither the sweep of *)
(* a start nor the end of another attempt takes it away.                    *)
ResumeKeepsFile == [][resume >= 0 /\ resume' >= 0 => (dumpOnDisk => dumpOnDisk')]_importVars
=============================================================================
