------------------------------- MODULE Updater -------------------------------
(***************************************************************************)
(* Updating the Qt program (src/src/services/update_service, the update    *)
(* dialogs and closeEvent() of src/src/ui/mainwindow, and the updater      *)
(* script in src/resources/update): replies of the network arrive in nested*)
(* event loops of dialogs, the script waits for the program to be gone.    *)
(***************************************************************************)
EXTENDS Integers, Sequences

CONSTANTS MaxChecks, MaxDownloads  \* bounds: checks asked for, downloads begun

VARIABLES
    state,      \* state_
    info,       \* updateInfo_.isValid()
    checks,     \* replies to checkForUpdates that are in flight
    downloads,  \* replies to downloadUpdate that are in flight
    dirs,       \* the temporary directories made: what each holds
    tempDir,    \* tempDir_: an index into dirs, 0 when null
    dialogs,    \* the "Update Available" dialogs in exec(), the last on top
    prompt,     \* the "Install Update" question is open
    window,     \* [shown, trayOnClose, installing]: the main window
    program,    \* "up", "quitting", "gone", "crashed"
    updater,    \* the script: [at, dir]
    asked       \* bound: checks asked for so far; [timer, user]

updaterVars == <<state, info, checks, downloads, dirs, tempDir, dialogs, prompt, window,
                 program, updater, asked>>
ui == <<dialogs, prompt, window, program, updater, asked>>

UpdateState == {"Idle", "CheckingForUpdates", "UpdateAvailable", "Downloading", "Extracting",
                "ReadyToInstall", "Installing", "Error"}
Dir == [exists : BOOLEAN, whole : BOOLEAN, extracted : BOOLEAN, script : BOOLEAN]

UpdaterInit ==
    /\ state = "Idle" /\ info = FALSE /\ checks = 0 /\ downloads = 0
    /\ dirs = <<>> /\ tempDir = 0
    /\ dialogs = <<>> /\ prompt = FALSE
    /\ window \in [shown : {TRUE}, trayOnClose : BOOLEAN, installing : {FALSE}]
    /\ program = "up" /\ updater = [at |-> "none", dir |-> 0]
    /\ asked = [timer |-> FALSE, user |-> 0]

-----------------------------------------------------------------------------
(* The service                                                              *)

\* setError: the state, and every open dialog offers a retry.
SetError ==
    /\ state' = "Error"
    /\ dialogs' = [k \in DOMAIN dialogs |-> "retry"]

CheckForUpdates ==
    IF state \in {"CheckingForUpdates", "Downloading"}
    THEN UNCHANGED <<state, info, checks>>
    ELSE state' = "CheckingForUpdates" /\ info' = FALSE /\ checks' = checks + 1

\* The timer of the constructor fires once, whatever is open; the menu needs a
\* window without a dialog over it.
TimerChecks ==
    /\ program = "up" /\ ~asked.timer
    /\ asked' = [asked EXCEPT !.timer = TRUE]
    /\ CheckForUpdates
    /\ UNCHANGED <<downloads, dirs, tempDir, dialogs, prompt, window, program, updater>>
UserChecks ==
    /\ program = "up" /\ window.shown /\ dialogs = <<>> /\ ~prompt
    /\ asked.user < MaxChecks
    /\ asked' = [asked EXCEPT !.user = @ + 1]
    /\ CheckForUpdates
    /\ UNCHANGED <<downloads, dirs, tempDir, dialogs, prompt, window, program, updater>>

\* onCheckReplyFinished: an error, a version to skip, or one to offer.
OnCheckReplyFinished(found) ==
    /\ program = "up" /\ checks > 0
    /\ checks' = checks - 1
    /\ CASE found = "error" -> SetError /\ UNCHANGED info
         [] found = "older" -> state' = "Idle" /\ info' \in BOOLEAN /\ UNCHANGED dialogs
         [] found = "newer" -> /\ state' = "UpdateAvailable" /\ info' = TRUE
                               /\ dialogs' = Append(dialogs, "ask")
    /\ UNCHANGED <<downloads, dirs, tempDir, prompt, window, program, updater, asked>>

\* The directory of the download before goes with its QTemporaryDir.
Replaced == [k \in DOMAIN dirs |-> IF k = tempDir THEN [dirs[k] EXCEPT !.exists = FALSE] ELSE dirs[k]]

DownloadUpdate ==
    IF ~info THEN SetError /\ UNCHANGED <<downloads, dirs, tempDir>>
    ELSE IF state = "Downloading"
    THEN dialogs' = [dialogs EXCEPT ![Len(dialogs)] = "busy"]
         /\ UNCHANGED <<state, downloads, dirs, tempDir>>
    ELSE /\ dialogs' = [dialogs EXCEPT ![Len(dialogs)] = "busy"]
         /\ state' = "Downloading" /\ downloads' = downloads + 1
         /\ dirs' = Append(Replaced, [exists |-> TRUE, whole |-> FALSE, extracted |-> FALSE,
                                      script |-> FALSE])
         /\ tempDir' = Len(dirs) + 1

\* "Download && Install", and "Retry" after an error.
DownloadClicked ==
    /\ program = "up" /\ ~prompt /\ dialogs # <<>> /\ dialogs[Len(dialogs)] # "busy"
    /\ Len(dirs) < MaxDownloads
    /\ DownloadUpdate
    /\ UNCHANGED <<info, checks, prompt, window, program, updater, asked>>

\* onDownloadFinished and applyUpdate: save the archive, extract it, write the
\* script, and ask.  What write() took is not looked at: a short archive may be
\* copied like a whole one.  Without a directory the program is lost.
DownloadFails ==
    /\ program = "up" /\ downloads > 0
    /\ downloads' = downloads - 1
    /\ SetError
    /\ UNCHANGED <<info, checks, dirs, tempDir, prompt, window, program, updater, asked>>

ExtractZipFile(dir, ok) == [dir EXCEPT !.extracted = ok]
CreateUpdateScript(dir, ok) == [dir EXCEPT !.script = dir.extracted /\ ok]

ApplyUpdate(whole, failed) ==
    /\ program = "up" /\ downloads > 0
    /\ downloads' = downloads - 1
    /\ IF tempDir = 0
       THEN program' = "crashed" /\ UNCHANGED <<state, dirs, dialogs, prompt>>
       ELSE /\ dirs' = [dirs EXCEPT ![tempDir] = CreateUpdateScript(
                           ExtractZipFile([@ EXCEPT !.whole = whole], failed # "extract"),
                           failed # "script")]
            /\ IF failed # "none" THEN SetError /\ UNCHANGED prompt
               ELSE state' = "ReadyToInstall" /\ prompt' = TRUE /\ UNCHANGED dialogs
            /\ UNCHANGED program
    /\ UNCHANGED <<info, checks, tempDir, window, updater, asked>>

-----------------------------------------------------------------------------
(* The window                                                               *)

LaterClicked ==
    /\ program = "up" /\ ~prompt /\ dialogs # <<>>
    /\ dialogs' = SubSeq(dialogs, 1, Len(dialogs) - 1)
    /\ UNCHANGED <<state, info, checks, downloads, dirs, tempDir, prompt, window, program, updater, asked>>

\* closeEvent of the window when it is asked to close by the program itself.
CloseEvent(installing) ==
    IF window.trayOnClose /\ ~installing
    THEN window' = [window EXCEPT !.shown = FALSE] /\ UNCHANGED program
    ELSE window' = [window EXCEPT !.installing = installing] /\ program' = "quitting"

\* closeAllWindows() closes the windows that are visible: it asks a main window
\* hidden in the tray nothing.
CloseAllWindows ==
    IF window.shown THEN CloseEvent(TRUE)
    ELSE window' = [window EXCEPT !.installing = TRUE] /\ UNCHANGED program

\* executeUpdateScript: tempDir_ is released, the script will remove it.
\* Plausible bug: the directory still belongs to the program.
ExecuteKeepsDir(started) ==
    IF state # "ReadyToInstall" \/ ~started
    THEN SetError /\ UNCHANGED <<tempDir, updater, window, program>>
    ELSE /\ state' = "Installing" /\ dialogs' = <<>>
         /\ updater' = [at |-> "waiting", dir |-> tempDir] /\ UNCHANGED tempDir
         /\ CloseAllWindows
ExecuteUpdateScript(started) ==
    IF state # "ReadyToInstall" \/ ~started
    THEN SetError /\ UNCHANGED <<tempDir, updater, window, program>>
    ELSE /\ state' = "Installing" /\ dialogs' = <<>>
         /\ updater' = [at |-> "waiting", dir |-> tempDir] /\ tempDir' = 0
         /\ CloseAllWindows

\* onUpdateReady: "Yes".
InstallAccepted(started) ==
    /\ program = "up" /\ prompt
    /\ prompt' = FALSE
    /\ ExecuteUpdateScript(started)
    /\ UNCHANGED <<info, checks, downloads, dirs, asked>>
\* "No": the dialogs that were still open are accepted.
InstallDeclined ==
    /\ program = "up" /\ prompt
    /\ prompt' = FALSE /\ dialogs' = <<>>
    /\ UNCHANGED <<state, info, checks, downloads, dirs, tempDir, window, program, updater, asked>>

\* The user closes the window (and confirms), or brings it back from the tray.
UserCloses ==
    /\ program = "up" /\ window.shown /\ dialogs = <<>> /\ ~prompt
    /\ CloseEvent(window.installing)
    /\ UNCHANGED <<state, info, checks, downloads, dirs, tempDir, dialogs, prompt, updater, asked>>
BringToFront ==
    /\ program = "up" /\ ~window.shown
    /\ window' = [window EXCEPT !.shown = TRUE]
    /\ UNCHANGED <<state, info, checks, downloads, dirs, tempDir, dialogs, prompt, program, updater, asked>>

\* main() returns: the services are stopped, the destructors run.
ProgramExits ==
    /\ program = "quitting"
    /\ program' = "gone" /\ dirs' = Replaced /\ tempDir' = 0
    /\ UNCHANGED <<state, info, checks, downloads, dialogs, prompt, window, updater, asked>>

\* The script: nothing is touched while the program is there.
ScriptRuns ==
    /\ updater.at = "waiting" /\ program \in {"gone", "crashed"}
    /\ updater' = [updater EXCEPT !.at = IF dirs[updater.dir].exists THEN "swapped" ELSE "failed"]
    /\ UNCHANGED <<state, info, checks, downloads, dirs, tempDir, dialogs, prompt, window, program, asked>>

-----------------------------------------------------------------------------
UpdaterNext ==
    \/ TimerChecks \/ UserChecks \/ DownloadClicked \/ DownloadFails
    \/ LaterClicked \/ InstallDeclined \/ UserCloses \/ BringToFront \/ ProgramExits \/ ScriptRuns
    \/ \E found \in {"error", "older", "newer"} : OnCheckReplyFinished(found)
    \/ \E whole \in BOOLEAN, failed \in {"none", "extract", "script"} : ApplyUpdate(whole, failed)
    \/ \E started \in BOOLEAN : InstallAccepted(started)

UpdaterSpec == UpdaterInit /\ [][UpdaterNext]_updaterVars

UpdaterTypeOK ==
    /\ state \in UpdateState /\ info \in BOOLEAN /\ checks \in Nat /\ downloads \in Nat
    /\ \A k \in DOMAIN dirs : dirs[k] \in Dir
    /\ tempDir \in 0..Len(dirs) /\ prompt \in BOOLEAN
    /\ \A k \in DOMAIN dialogs : dialogs[k] \in {"ask", "busy", "retry"}
    /\ program \in {"up", "quitting", "gone", "crashed"}
    /\ updater \in [at : {"none", "waiting", "swapped", "failed"}, dir : 0..Len(dirs)]

(* The script that replaces the program finds what it is to install: the    *)
(* directory it was given is extracted, complete with its script, and no    *)
(* later download, exit or destructor takes it away.                        *)
UpdaterHasFiles ==
    updater.at # "none" =>
        LET d == dirs[updater.dir] IN d.exists /\ d.extracted /\ d.script
=============================================================================
