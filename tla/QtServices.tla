------------------------------ MODULE QtServices ------------------------------
(***************************************************************************)
(* Services of the Qt program that share no state with each other: the     *)
(* database sync, the export and the import of a dump, the migrations, the *)
(* torrent repository, the supervision of Manticore, the updater, and the  *)
(* crawler.                                                                *)
(***************************************************************************)
EXTENDS DatabaseSync, DumpExport, DumpImport, Migration, TorrentRepository, Manticore, Updater,
        SpiderCrawler

ServicesSpec ==
    /\ Spec /\ ExportSpec /\ ImportSpec /\ MigrationSpec /\ RepositorySpec
    /\ ManticoreSpec /\ UpdaterSpec /\ CrawlSpec

\* What is kept stays of its kind, with the bounds each part states beside it.
DataTypeOK == /\ TypeOK /\ ExportTypeOK /\ ImportTypeOK /\ MigrationTypeOK
              /\ ManticoreTypeOK /\ UpdaterTypeOK /\ CrawlTypeOK

\* DumpExport, DumpImport: an export that is reported good wrote every row it
\* read; an import that goes on where an earlier one ended skips no frame.
DumpsRight == DumpIsWhole /\ ResumeNeverSkips

\* Migration: re-keying loses no torrent, and the clean-up removes unknown ones only.
RowsRight == RekeyedWhole /\ RemovedWasUnknown

\* Manticore, Updater, SpiderCrawler: no daemon outlives the program that started
\* it, the update script has what it installs, and the crawler's count of fetches
\* is off by what its stops left behind and no more.
ProcessesRight == NoneLeftBehind /\ UpdaterHasFiles /\ OffByTheStops

\* TorrentRepository: the counters are those of the tables whenever nobody writes,
\* and a write of one torrent leaves the others alone.
RepositoryExact == [](RepositoryTypeOK /\ CountersExact) /\ StoredUntouched

\* A resumed import keeps the file, and a binlog is dropped only when it is torn.
NoStepBack == ResumeKeepsFile /\ ResetOnlyTorn
=============================================================================
