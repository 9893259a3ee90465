-------------------------------- MODULE Batch --------------------------------
(***************************************************************************)
(* The offline commands of the native program: export, import, cleanup and *)
(* add (src/native/main.cpp), the filter policy they and the indexer apply *)
(* (src/native/domain/filter_policy.cpp) and the classification that comes *)
(* before it (content_classifier.cpp).  A command works through pages or   *)
(* lines and may be killed at any of them; a groonga command may fail, and *)
(* then reads as an empty page.                                            *)
(***************************************************************************)
EXTENDS Integers, Sequences, FiniteSets, Functions

CONSTANTS
    BatchHash,        \* naturals
    Raw,              \* per hash, the torrent as it was discovered
    Policies,         \* FilterSettings the configuration may hold
    kBatch,           \* rows of a page
    MaxCommands, MaxFaults

ASSUME BatchAssumption ==
    BatchHash \subseteq Nat /\ IsFiniteSet(BatchHash) /\ kBatch \in Nat \ {0}

VARIABLES
    batchRows,        \* the index: per hash its _id (0: no row) and whether it lists files
    policy,           \* the filters of the configuration file
    file,             \* the JSON Lines file
    cmd,              \* the command at work
    report,           \* what the last command printed at its end
    commands, faults

Seqs == INSTANCE SequencesExt

batchVars == <<batchRows, policy, file, cmd, report, commands, faults>>

-----------------------------------------------------------------------------
(* ContentClassifier                                                        *)

SizeOf(files) == Seqs!FoldSeq(LAMBDA f, sum : f.size + sum, 0, files)
\* Each file adds its size to its type, or one where no file has a size; the map's
\* order decides between equals, which it leaves to the build, here to the least name.
Weight(files, type) ==
    LET empty == SizeOf(files) = 0
    IN  Seqs!FoldSeq(LAMBDA f, sum : IF f.type # type THEN sum
                                     ELSE sum + IF empty THEN 1 ELSE f.size, 0, files)
DetectTypeFromFiles(files) ==
    LET types == {f.type : f \in Range(files)} \ {"unknown"}
        heaviest == {t \in types : /\ Weight(files, t) > 0
                                   /\ \A u \in types : Weight(files, u) <= Weight(files, t)}
    IN  IF heaviest = {} THEN "unknown" ELSE CHOOSE t \in heaviest : TRUE
\* Words of a name: the very bad ones end the scan, the others mark a category.
ApplyBadWords(c, word) ==
    IF c.type = "bad" THEN c
    ELSE IF word = "veryBad" THEN [c EXCEPT !.type = "bad"]
    ELSE IF word = "block" THEN [c EXCEPT !.category = "xxx"] ELSE c
Classify(raw) ==
    LET c == [type |-> DetectTypeFromFiles(raw.list), category |-> "unknown"]
        words == <<raw.word>> \o [i \in DOMAIN raw.list |-> raw.list[i].word]
    IN  IF c.type \in {"video", "pictures", "archive"} THEN Seqs!FoldLeft(ApplyBadWords, c, words) ELSE c
\* The torrent of a hash as every command sees it: what does not change in the index.
AsSeen(h) ==
    LET c == Classify(Raw[h])
    IN  [hash |-> h, files |-> Len(Raw[h].list), size |-> SizeOf(Raw[h].list), word |-> Raw[h].word,
         type |-> c.type, category |-> c.category, trackers |-> Raw[h].trackers]

-----------------------------------------------------------------------------
(* FilterPolicy: each check is the reason it gives, "" for none.            *)

CheckFileCount(s, t) == IF s.maxFiles > 0 /\ t.files > s.maxFiles THEN "files" ELSE ""
CheckSize(s, t) ==
    IF s.sizeMin > 0 /\ t.size < s.sizeMin THEN "small"
    ELSE IF s.sizeMax > 0 /\ t.size > s.sizeMax THEN "large" ELSE ""
CheckAdult(s, t) ==
    IF s.adultFilter /\ (t.word = "keyword" \/ t.category = "xxx") THEN "adult" ELSE ""
\* A pattern that does not compile filters nothing.
CheckNamingRegExp(s, t) ==
    IF s.namingRegExp \in {"", "invalid"} THEN ""
    ELSE IF (t.word = s.namingRegExp) = s.namingRegExpNegative THEN "name" ELSE ""
\* "application" stands for software and games.
CheckContentType(s, t) ==
    LET allowed == s.contentType
    IN  IF allowed \in {{}, {"all"}} \/ t.type \in allowed
           \/ ("application" \in allowed /\ t.type \in {"software", "games"}) THEN "" ELSE "type"
CheckTrackerPolicy(s, t) ==
    IF s.trackerAllow \cup s.trackerDeny = {} /\ ~s.trackerRequireKnown THEN ""
    ELSE IF t.trackers = {} THEN IF s.trackerRequireKnown THEN "no tracker" ELSE ""
    ELSE IF t.trackers \cap s.trackerDeny # {} THEN "denied"
    ELSE IF s.trackerAllow # {} /\ t.trackers \cap s.trackerAllow = {} THEN "not allowed" ELSE ""
\* The first reason found.
RejectionReason(s, t) ==
    LET reasons == SelectSeq(<<CheckFileCount(s, t), CheckSize(s, t), CheckAdult(s, t),
                               CheckNamingRegExp(s, t), CheckContentType(s, t),
                               CheckTrackerPolicy(s, t)>>, LAMBDA r : r # "")
    IN  IF reasons = <<>> THEN "" ELSE Head(reasons)
Accepts(s, t) == RejectionReason(s, t) = ""
IsValidNamingRegExp(s) == s.namingRegExp # "invalid"

-----------------------------------------------------------------------------
(* The index, as these commands use it                                      *)

Unstored == [id |-> 0, listed |-> FALSE]
Stored == {h \in BatchHash : batchRows[h].id > 0}
Ids == {batchRows[h].id : h \in Stored}
Later(after) == {h \in Stored : batchRows[h].id > after}
UpToAPage(n) == IF n < kBatch THEN n ELSE kBatch
\* Plausible bug: pages by offset.
PageAtOffset(after) ==
    LET n == IF Cardinality(Stored) < after THEN 0 ELSE UpToAPage(Cardinality(Stored) - after)
    IN  {page \in [1..n -> Stored] :
           \A i \in 1..n : Cardinality({h \in Stored : batchRows[h].id < batchRows[page[i]].id})
                              = after + i - 1}
\* _id > after, sorted by _id, one page of it.
PageAfterId(after) ==
    {page \in [1..UpToAPage(Cardinality(Later(after))) -> Later(after)] :
        /\ \A i, j \in DOMAIN page : i < j => batchRows[page[i]].id < batchRows[page[j]].id
        /\ \A i \in DOMAIN page, h \in Later(after) \ Range(page) :
              batchRows[page[i]].id < batchRows[h].id}
\* A known key keeps its id; a new one takes any the table has free.
PutRow(h, listed) ==
    \E id \in IF batchRows[h].id > 0 THEN {batchRows[h].id} ELSE (1..Cardinality(BatchHash)) \ Ids :
        batchRows' = [batchRows EXCEPT ![h] = [id |-> id, listed |-> listed]]

NoCommand == [kind |-> "none"]
Fault == faults < MaxFaults /\ faults' = faults + 1
Faulted == [cmd EXCEPT !.faulted = TRUE]
Reported == report' = cmd /\ cmd' = NoCommand

\* Rows the crawler brought in under the first policy.
BatchInit ==
    /\ policy \in Policies
    /\ \E known \in SUBSET {h \in BatchHash : Accepts(policy, AsSeen(h))} :
         batchRows = [h \in BatchHash |-> IF h \in known
                                THEN [id |-> Cardinality({g \in known : g <= h}),
                                      listed |-> Raw[h].list # <<>>] ELSE Unstored]
    /\ file = <<>> /\ cmd = NoCommand /\ report = NoCommand /\ commands = 0 /\ faults = 0

Begins(c) ==
    /\ cmd = NoCommand /\ commands < MaxCommands /\ commands' = commands + 1
    /\ cmd' = c /\ report' = NoCommand /\ UNCHANGED <<batchRows, policy, faults>>

-----------------------------------------------------------------------------
(* The commands                                                             *)

CmdExport(noFiles) ==
    /\ Begins([kind |-> "export", noFiles |-> noFiles, after |-> 0, total |-> 0, faulted |-> FALSE])
    /\ file' = <<>>
Line(h) == [kind |-> "torrent", hash |-> h, listed |-> batchRows[h].listed /\ ~cmd.noFiles]
ExportPage ==
    /\ cmd.kind = "export"
    /\ \E batch \in PageAfterId(cmd.after) :
       IF batch = <<>> THEN Reported /\ UNCHANGED file
       ELSE /\ file' = file \o [i \in DOMAIN batch |-> Line(batch[i])]
            /\ cmd' = [cmd EXCEPT !.after = batchRows[batch[Len(batch)]].id,
                                  !.total = @ + Len(batch)]
            /\ UNCHANGED report
    /\ UNCHANGED <<batchRows, policy, commands, faults>>

CmdImport(noFilter) ==
    /\ file # <<>> /\ UNCHANGED file
    /\ Begins([kind |-> "import", noFilter |-> noFilter, next |-> 1, faulted |-> FALSE,
              imported |-> 0, malformed |-> 0, rejected |-> 0])
Counted(field) == cmd' = [cmd EXCEPT ![field] = @ + 1, !.next = @ + 1]
ImportLine ==
    /\ cmd.kind = "import" /\ cmd.next <= Len(file)
    /\ LET line == file[cmd.next] IN
       \/ line.kind = "malformed" /\ Counted("malformed") /\ UNCHANGED <<batchRows, faults>>
       \/ /\ line.kind = "torrent" /\ ~cmd.noFilter /\ ~Accepts(policy, AsSeen(line.hash))
          /\ Counted("rejected") /\ UNCHANGED <<batchRows, faults>>
       \/ /\ line.kind = "torrent" /\ (cmd.noFilter \/ Accepts(policy, AsSeen(line.hash)))
          /\ \/ Counted("imported") /\ PutRow(line.hash, line.listed) /\ UNCHANGED faults
             \/ /\ Fault /\ UNCHANGED batchRows
                /\ cmd' = [Faulted EXCEPT !.malformed = @ + 1, !.next = @ + 1]
    /\ UNCHANGED <<policy, file, report, commands>>
ImportDone ==
    /\ cmd.kind = "import" /\ cmd.next > Len(file) /\ Reported
    /\ UNCHANGED <<batchRows, policy, file, commands, faults>>

CmdCleanup(dryRun) ==
    /\ IsValidNamingRegExp(policy) /\ UNCHANGED file
    /\ Begins([kind |-> "cleanup", dryRun |-> dryRun, after |-> 0, scanned |-> 0, matched |-> 0,
              faulted |-> FALSE])
CleanupPage ==
    /\ cmd.kind = "cleanup"
    /\ \E batch \in PageAfterId(cmd.after) :
       LET rejected == {h \in Range(batch) : ~Accepts(policy, AsSeen(h))}
       IN  IF batch = <<>> THEN Reported /\ UNCHANGED <<batchRows, faults>>
           ELSE \E kept \in SUBSET rejected :      \* whose delete failed, counted all the same
                  /\ IF kept = {} THEN UNCHANGED faults ELSE ~cmd.dryRun /\ Fault
                  /\ batchRows' = [h \in BatchHash |-> IF h \in rejected \ kept /\ ~cmd.dryRun
                                                      THEN Unstored ELSE batchRows[h]]
                  /\ cmd' = [cmd EXCEPT !.after = batchRows[batch[Len(batch)]].id,
                                        !.scanned = @ + Len(batch),
                                        !.matched = @ + Cardinality(rejected),
                                        !.faulted = @ \/ kept # {}]
                  /\ UNCHANGED report
    /\ UNCHANGED <<policy, file, commands>>

\* A page that cannot be read ends the command as the last page does.
PageFails ==
    /\ cmd.kind \in {"export", "cleanup"} /\ Fault
    /\ report' = Faulted /\ cmd' = NoCommand
    /\ UNCHANGED <<batchRows, policy, file, commands>>

\* `ratsn add`: neither classified nor filtered.
CmdAdd(h) ==
    /\ cmd = NoCommand /\ commands < MaxCommands /\ commands' = commands + 1
    /\ PutRow(h, FALSE) /\ report' = NoCommand /\ UNCHANGED <<policy, file, cmd, faults>>

\* Between commands: the user edits the configuration, or the file, or takes
\* another data directory.
EditConfig ==
    /\ cmd = NoCommand /\ policy' \in Policies \ {policy} /\ report' = NoCommand
    /\ commands < MaxCommands /\ commands' = commands + 1
    /\ UNCHANGED <<batchRows, file, cmd, faults>>
EditFile ==
    /\ cmd = NoCommand /\ report' = NoCommand
    /\ Len(file) < 2 /\ file' = Append(file, [kind |-> "malformed"])
    /\ commands < MaxCommands /\ commands' = commands + 1
    /\ UNCHANGED <<batchRows, policy, cmd, faults>>
FreshDataDir ==
    /\ cmd = NoCommand /\ report' = NoCommand
    /\ Stored # {} /\ batchRows' = [h \in BatchHash |-> Unstored]
    /\ commands < MaxCommands /\ commands' = commands + 1
    /\ UNCHANGED <<policy, file, cmd, faults>>
Killed ==
    /\ cmd # NoCommand /\ cmd' = NoCommand
    /\ UNCHANGED <<batchRows, policy, file, report, commands, faults>>

BatchNext ==
    \/ \E b \in BOOLEAN : CmdExport(b) \/ CmdImport(b) \/ CmdCleanup(b)
    \/ ExportPage \/ ImportLine \/ ImportDone \/ CleanupPage \/ PageFails
    \/ \E h \in BatchHash : CmdAdd(h)
    \/ EditConfig \/ EditFile \/ FreshDataDir \/ Killed

BatchSpec == BatchInit /\ [][BatchNext]_batchVars

-----------------------------------------------------------------------------
(* Properties                                                               *)

BatchTypeOK ==
    /\ batchRows \in [BatchHash -> [id : 0..Cardinality(BatchHash), listed : BOOLEAN]]
    /\ \A g, h \in Stored : batchRows[g].id = batchRows[h].id => g = h
    /\ cmd.kind \in {"none", "export", "import", "cleanup"}

\* An export that ends has written each row once, however its pages fell.
ExportWhole ==
    report.kind = "export" /\ ~report.faulted =>
        /\ Len(file) = Cardinality(Stored) /\ {file[i].hash : i \in DOMAIN file} = Stored
        /\ report.total = Len(file)
\* An import accounts for each line, and each torrent it did not reject is a row.
ImportWhole ==
    report.kind = "import" =>
        /\ report.imported + report.rejected + report.malformed = Len(file)
        /\ ~report.faulted =>
              \A i \in DOMAIN file :
                 /\ file[i].kind = "torrent"
                 /\ report.noFilter \/ Accepts(policy, AsSeen(file[i].hash))
                 => file[i].hash \in Stored
\* A cleanup that ends leaves no row the policy refuses, though it removes rows of
\* the table it pages through.
CleanupWhole ==
    report.kind = "cleanup" /\ ~report.faulted /\ ~report.dryRun =>
        /\ \A h \in Stored : Accepts(policy, AsSeen(h))
        /\ report.scanned - report.matched = Cardinality(Stored)
BatchWhole == ExportWhole /\ ImportWhole /\ CleanupWhole
=============================================================================
