------------------------------ MODULE MCQtData ------------------------------
(***************************************************************************)
(* Small instances of the Qt program's parts that keep or move its data, in*)
(* one module: the database sync, the export and the import of a dump, the *)
(* migrations, the torrent repository, the Manticore daemon, the updater,  *)
(* and the crawler that feeds the database.                                *)
(* `scene` is the part that is on; no two parts share a variable, so the   *)
(* run explores the sum of their state spaces and not the product.         *)
(***************************************************************************)
EXTENDS QtServices, TLC

VARIABLE scene

vars == <<scene, syncVars, exportVars, importVars, migrationVars, repositoryVars, manticoreVars,
          updaterVars, crawlVars>>

-----------------------------------------------------------------------------
(* DatabaseSync: a peer that pulls twice, or beside two generations of the  *)
(* snapshot, from a node that is disturbed; and two peers that pull at once,*)
(* with one serve allowed and with two                                      *)

Pulls(a, b) == ("a" :> a) @@ ("b" :> b)
Disturbed(n, g) == [pulls |-> Pulls(n, 0), generations |-> g, disturbed |-> TRUE, serves |-> 1]
Beside(n) == [pulls |-> Pulls(1, 1), generations |-> 1, disturbed |-> FALSE, serves |-> n]

SyncPlans == {Disturbed(2, 1), Disturbed(1, 2), Beside(1), Beside(2)}

ASSUME SyncAssumptions

(* DumpImport: a whole dump, one that was cut off, one that is corrupt      *)

SomeDumps == {[frames |-> 3, tail |-> "footer"], [frames |-> 2, tail |-> "cut"],
              [frames |-> 2, tail |-> "corrupt"]}

-----------------------------------------------------------------------------
(* Migration: a new installation, and old ones whose rows collide, are      *)
(* doubled, or have an unusable hash, one of them half-way through          *)

T(i, h, t) == [id |-> i, hash |-> h, type |-> t]
F(i, h) == [id |-> i, hash |-> h]
DerivedIds == ("a" :> 7) @@ ("b" :> 8) @@ ("c" :> 8) @@ ("d" :> 2) @@ ("e" :> 3) @@ ("z" :> 0)
Class == ("a" :> "known") @@ ("b" :> "unknown") @@ ("c" :> "known") @@ ("d" :> "known")
         @@ ("e" :> "known") @@ ("z" :> "unknown")
Never == [exists |-> FALSE, readable |-> TRUE, completed |-> {},
          inProgress |-> [id |-> "none", lastId |-> 0, counted |-> FALSE]]
Some == [Never EXCEPT !.exists = TRUE]
Halfway == [Some EXCEPT !.completed = {"cleanup"},
                        !.inProgress = [id |-> "recategorize", lastId |-> 1, counted |-> TRUE]]
SomeInstalls ==
    {[disk |-> Never, torrents |-> {}, files |-> {}],
     [disk |-> Some,
      torrents |-> {T(1, "a", "unknown"), T(2, "d", "unknown"), T(4, "a", "unknown")},
      files |-> {F(1, "a"), F(2, "d")}],
     [disk |-> Some,
      torrents |-> {T(1, "z", "unknown"), T(2, "b", "unknown"), T(3, "c", "unknown")},
      files |-> {F(1, "c"), F(2, "z")}],
     [disk |-> Halfway,
      torrents |-> {T(2, "d", "known"), T(3, "e", "unknown"), T(4, "a", "unknown")},
      files |-> {F(1, "a"), F(2, "d"), F(3, "e")}]}

SomeHashes == DOMAIN DerivedIds

-----------------------------------------------------------------------------
(* TorrentRepository: a writer of rows that share an id, alone and in       *)
(* batches, beside a writer of another row                                  *)

R(h, f, v) == [hash |-> h, files |-> f, votes |-> v]
InsertOf(r) == [kind |-> "insert", ts |-> <<r>>]
Removal(h) == [kind |-> "remove", ts |-> <<R(h, 0, 0)>>]
BatchOf(rs) == [kind |-> "batch", ts |-> rs]
SomeWork ==
    ("import" :> {InsertOf(R("a", 0, 0)), InsertOf(R("b", 1, 0)), InsertOf(R("c", 0, 0)),
                  BatchOf(<<R("c", 2, 1), R("b", 1, 1), R("a", 2, 1), R("a", 0, 2)>>),
                  BatchOf(<<R("b", 1, 0), R("z", 1, 0), R("c", 1, 0), R("a", 0, 1)>>),
                  Removal("a"), Removal("b")})
    @@ ("crawler" :> {InsertOf(R("x", 0, 1)), InsertOf(R("x", 2, 2)), Removal("x")})
Writers == DOMAIN SomeWork
SharedIds == ("a" :> 1) @@ ("b" :> 2) @@ ("c" :> 2) @@ ("x" :> 3) @@ ("z" :> 0)
RepositoryHashes == DOMAIN SharedIds

\* A torrent without a size is added, and never removed.
ASSUME Apart /\ RemovedWeigh

-----------------------------------------------------------------------------
(* The composition                                                          *)

\* A part that is not on rests in one of its initial states.
DataInit ==
    /\ scene \in {"sync", "export", "import", "migration", "repository", "manticore", "updater",
                  "crawler"}
    /\ Init /\ (scene # "sync" => plan = Beside(1))
    /\ ExportInit /\ (scene # "export" => exportRows = 0)
    /\ ImportInit /\ (scene # "import" => dump.tail = "footer")
    /\ MigrationInit /\ walkInterval = 5 /\ (scene # "migration" => ~stateFile.exists)
    /\ RepositoryInit
    /\ ManticoreInit /\ (scene # "manticore" => binlog = "none")
    /\ UpdaterInit /\ (scene # "updater" => ~window.trayOnClose)
    /\ CrawlInit

Scene(part) ==
    /\ scene = part /\ UNCHANGED scene
    /\ part # "sync" => UNCHANGED syncVars
    /\ part # "export" => UNCHANGED exportVars
    /\ part # "import" => UNCHANGED importVars
    /\ part # "migration" => UNCHANGED migrationVars
    /\ part # "repository" => UNCHANGED repositoryVars
    /\ part # "manticore" => UNCHANGED manticoreVars
    /\ part # "updater" => UNCHANGED updaterVars
    /\ part # "crawler" => UNCHANGED crawlVars

DataNext ==
    \/ Scene("sync") /\ Next
    \/ Scene("export") /\ ExportNext
    \/ Scene("import") /\ ImportNext
    \/ Scene("migration") /\ MigrationNext
    \/ Scene("repository") /\ RepositoryNext
    \/ Scene("manticore") /\ ManticoreNext
    \/ Scene("updater") /\ UpdaterNext
    \/ Scene("crawler") /\ CrawlNext

DataSpec == DataInit /\ [][DataNext]_vars

(* What goes on by itself. Sync: a deadline passes, an import and a         *)
(* transfer end. Export: neither thread stops for good. Manticore: the      *)
(* connection timer fires. Crawler: its timer fires, and librats ends the   *)
(* fetch it began first. Each part has only finitely many such steps within *)
(* its bounds, so that fairness to any of them is enough. The messages of   *)
(* the sync are apart: a server repeats its progress without end.           *)
Progress ==
    \/ Scene("sync") /\ \E p \in Puller :
          Deadline(p) \/ \E b \in BOOLEAN : ImportEnds(p, b) \/ TransferEnds(p, b)
    \/ Scene("export") /\ \/ Push \/ FinishQueue \/ Pop \/ ReportExport
                          \/ \E ok \in BOOLEAN : Open(ok) \/ ReadPage(ok) \/ Write(ok) \/ Return(ok)
    \/ Scene("manticore") /\ CheckConnection
    \/ Scene("crawler") /\ (ProcessMetadataQueue \/ \E ok \in BOOLEAN : OnResult(1, ok))

Messages(p) ==
    /\ Scene("sync")
    /\ \/ HandlePeerResponse(p) \/ HandlePeerProgress(p) \/ OnFileReceived(p)
       \/ HandlePeerCancel(p) \/ OnFileStopped(p)
       \/ \E b \in BOOLEAN : OnFileOffered(p, b)
       \/ \E u, r \in BOOLEAN : HandlePeerRequest(p, u, r)

FairSpec == DataSpec /\ WF_vars(Progress) /\ WF_vars(Messages("a")) /\ WF_vars(Messages("b"))

-----------------------------------------------------------------------------
\* A pull ends, an export ends, the death of a daemon is noticed, and a discovered
\* hash is fetched while the crawler runs.
Owing ==
    \/ scene = "sync" /\ PullUnderWay
    \/ scene = "export" /\ ExportUnderWay
    \/ scene = "manticore" /\ BelievesTheDead
    \/ scene = "crawler" /\ running /\ metadataQueue # <<>>
AllComesToItsEnd == Owing ~> ~Owing
=============================================================================
