----------------------------- MODULE DumpExport -----------------------------
(***************************************************************************)
(* Writing the whole index to a dump (src/src/services/database_exporter,  *)
(* database_dump, DatabaseSyncService::runExport): one thread pulls pages  *)
(* out of the database, a second one turns them into frames of a file, a   *)
(* bounded queue hands them over, and the user may cancel at any moment.   *)
(* A torrent stands for one page; a frame holds kFrameTorrents of them.    *)
(***************************************************************************)
EXTENDS Integers, Sequences

CONSTANTS
    Indexes,         \* bounds: the sizes of the index that are explored
    kReadAhead,      \* pages the reader may be ahead
    kFrameTorrents   \* rows that fill a frame

ASSUME ExportAssumption ==
    Indexes \subseteq Nat /\ kReadAhead \in Nat \ {0} /\ kFrameTorrents \in Nat \ {0}

VARIABLES
    exportRows,  \* rows of the index
    afterId,     \* the row the last page ended with
    page,        \* the page the reader has read and not pushed (0: none)
    reader,      \* where the exporter's own thread is
    serialiser,  \* where the second thread is, and the page it took
    pageQueue,   \* PageQueue: pages, finished, closed
    writeFailed, cancelled,
    file,        \* DumpWriter: whether the file exists, its rows, pending_, its footer
    exported     \* what run() returned, and then what the user is told

exportVars == <<exportRows, afterId, page, reader, serialiser, pageQueue, writeFailed,
                cancelled, file, exported>>

PageQueue == [pages : Seq(1..exportRows), finished : BOOLEAN, closed : BOOLEAN]
DumpWriter == [exists : BOOLEAN, frames : Seq(1..exportRows), pending : Seq(1..exportRows),
               footer : {-1} \cup 0..exportRows]
Result == {"none", "ok", "cancelled", "failed", "toldOk", "toldCancelled", "toldFailed"}

ExportInit ==
    /\ exportRows \in Indexes
    /\ afterId = 0 /\ page = 0
    /\ reader = "opening" /\ serialiser = [at |-> "none", page |-> 0]
    /\ pageQueue = [pages |-> <<>>, finished |-> FALSE, closed |-> FALSE]
    /\ writeFailed = FALSE /\ cancelled = FALSE
    /\ file = [exists |-> FALSE, frames |-> <<>>, pending |-> <<>>, footer |-> -1]
    /\ exported = "none"

\* ~DumpWriter and abort(): a file without a footer is removed.
Aborted == [exists |-> FALSE, frames |-> <<>>, pending |-> <<>>, footer |-> -1]

\* open(): the magic and the header are written, or nothing is left.
Open(ok) ==
    /\ reader = "opening"
    /\ IF ok THEN /\ reader' = "reading" /\ serialiser' = [serialiser EXCEPT !.at = "popping"]
                  /\ file' = [file EXCEPT !.exists = TRUE] /\ UNCHANGED exported
             ELSE /\ reader' = "returned" /\ exported' = "failed"
                  /\ file' = Aborted /\ UNCHANGED serialiser
    /\ UNCHANGED <<exportRows, afterId, page, pageQueue, writeFailed, cancelled>>

CancelExport ==
    /\ ~cancelled /\ cancelled' = TRUE
    /\ UNCHANGED <<exportRows, afterId, page, reader, serialiser, pageQueue, writeFailed, file, exported>>

-----------------------------------------------------------------------------
(* The exporter's thread                                                    *)

\* One turn of the loop: stop, or read the page after the last row.  A query
\* that fails answers with no rows, like the end of the index.
ReadPage(answered) ==
    /\ reader = "reading"
    /\ IF cancelled \/ writeFailed \/ afterId = exportRows \/ ~answered
       THEN reader' = "finishing" /\ UNCHANGED <<afterId, page>>
       ELSE reader' = "pushing" /\ afterId' = afterId + 1 /\ page' = afterId + 1
    /\ UNCHANGED <<exportRows, serialiser, pageQueue, writeFailed, cancelled, file, exported>>

\* push(): blocks while the queue is full and open.
Push ==
    /\ reader = "pushing"
    /\ pageQueue.closed \/ Len(pageQueue.pages) < kReadAhead
    /\ page' = 0
    /\ IF pageQueue.closed
       THEN reader' = "finishing" /\ UNCHANGED pageQueue
       ELSE reader' = "reading" /\ pageQueue' = [pageQueue EXCEPT !.pages = Append(@, page)]
    /\ UNCHANGED <<exportRows, afterId, serialiser, writeFailed, cancelled, file, exported>>

Closed(q) == [q EXCEPT !.closed = TRUE, !.pages = <<>>]

\* Plausible bug: the end is announced only when nobody cancelled.
SilentFinish ==
    /\ reader = "finishing"
    /\ reader' = "joining"
    /\ pageQueue' = IF cancelled THEN pageQueue ELSE [pageQueue EXCEPT !.finished = TRUE]
    /\ UNCHANGED <<exportRows, afterId, page, serialiser, writeFailed, cancelled, file, exported>>

\* After the loop: finish(), and a hard stop when the user has cancelled.
FinishQueue ==
    /\ reader = "finishing"
    /\ reader' = "joining"
    /\ pageQueue' = LET q == [pageQueue EXCEPT !.finished = TRUE]
                  IN IF cancelled THEN Closed(q) ELSE q
    /\ UNCHANGED <<exportRows, afterId, page, serialiser, writeFailed, cancelled, file, exported>>

\* DumpWriter::finish: the pending frame, the end marker and the footer.
Finished == [file EXCEPT !.frames = @ \o file.pending, !.pending = <<>>,
                         !.footer = Len(file.frames) + Len(file.pending)]

\* The serialiser has been joined: keep the file only when it is whole.
Return(written) ==
    /\ reader = "joining" /\ serialiser.at = "done"
    /\ reader' = "returned"
    /\ CASE cancelled -> exported' = "cancelled" /\ file' = Aborted
         [] ~cancelled /\ (writeFailed \/ ~written) -> exported' = "failed" /\ file' = Aborted
         [] OTHER -> exported' = "ok" /\ file' = Finished
    /\ UNCHANGED <<exportRows, afterId, page, serialiser, pageQueue, writeFailed, cancelled>>

\* The closure of runExport on the main thread: a cancel that came after the file
\* was finished is still reported as one.
ReportExport ==
    /\ reader = "returned" /\ exported \in {"ok", "cancelled", "failed"}
    /\ exported' = CASE cancelled -> "toldCancelled"
                   [] ~cancelled /\ exported = "ok" -> "toldOk"
                   [] OTHER -> "toldFailed"
    /\ UNCHANGED <<exportRows, afterId, page, reader, serialiser, pageQueue, writeFailed, cancelled, file>>

-----------------------------------------------------------------------------
(* The serialiser thread                                                    *)

\* pop(): blocks while the queue is open, unfinished and empty.
Pop ==
    /\ serialiser.at = "popping"
    /\ pageQueue.closed \/ pageQueue.finished \/ pageQueue.pages # <<>>
    /\ IF pageQueue.pages = <<>>
       THEN serialiser' = [at |-> "done", page |-> 0] /\ UNCHANGED pageQueue
       ELSE /\ serialiser' = [at |-> "writing", page |-> Head(pageQueue.pages)]
            /\ pageQueue' = [pageQueue EXCEPT !.pages = Tail(@)]
    /\ UNCHANGED <<exportRows, afterId, page, reader, writeFailed, cancelled, file, exported>>

\* flushFrame: the frame leaves pending_ whether or not the disk takes it.
FlushFrame(pending, ok) ==
    [file EXCEPT !.pending = <<>>, !.frames = IF ok THEN @ \o pending ELSE @]

\* write(): a full frame goes to the disk; a failure stops both threads.
Write(ok) ==
    /\ serialiser.at = "writing"
    /\ LET pending == Append(file.pending, serialiser.page)
           full == Len(pending) >= kFrameTorrents
       IN /\ ~ok => full
          /\ file' = IF full THEN FlushFrame(pending, ok) ELSE [file EXCEPT !.pending = pending]
    /\ serialiser' = [at |-> IF ok THEN "popping" ELSE "done", page |-> 0]
    /\ writeFailed' = (writeFailed \/ ~ok)
    /\ pageQueue' = IF ok THEN pageQueue ELSE Closed(pageQueue)
    /\ UNCHANGED <<exportRows, afterId, page, reader, cancelled, exported>>

-----------------------------------------------------------------------------
ExportNext ==
    \/ CancelExport \/ Push \/ FinishQueue \/ ReportExport \/ Pop
    \/ \E ok \in BOOLEAN : Open(ok) \/ ReadPage(ok) \/ Write(ok) \/ Return(ok)

-----------------------------------------------------------------------------
ExportSpec == ExportInit /\ [][ExportNext]_exportVars

ExportTypeOK ==
    /\ afterId \in 0..exportRows /\ page \in 0..exportRows
    /\ reader \in {"opening", "reading", "pushing", "finishing", "joining", "returned"}
    /\ serialiser \in [at : {"none", "popping", "writing", "done"}, page : 0..exportRows]
    /\ pageQueue \in PageQueue /\ Len(pageQueue.pages) <= kReadAhead
    /\ writeFailed \in BOOLEAN /\ cancelled \in BOOLEAN
    /\ file \in DumpWriter /\ exported \in Result

(* A dump that is reported as written holds, behind its footer, every page  *)
(* the reader took, in order and once; and a run that did not succeed       *)
(* leaves no file that looks like a dump.  (A cancel between the last write *)
(* and the report is the exception: it keeps the finished file.)            *)
DumpIsWhole ==
    /\ exported \in {"ok", "toldOk"} =>
          /\ file.exists /\ file.footer = afterId /\ file.pending = <<>>
          /\ file.frames = [i \in 1..afterId |-> i]
    /\ exported \in {"cancelled", "failed", "toldFailed"} => ~file.exists
    /\ exported = "toldCancelled" => (file.exists => file.footer = afterId)

(* An export the user has not been told the end of. It ends however the two *)
(* threads, the disk and the user meet: none is left parked on the queue.   *)
ExportUnderWay == exported \notin {"toldOk", "toldCancelled", "toldFailed"}
=============================================================================
