----------------------------- MODULE ConfigStore -----------------------------
(***************************************************************************)
(* The configuration coordinator (internal/config): one text file that the *)
(* owner, the API and any editor may change, a recovery manifest beside    *)
(* it, and the snapshot the process serves. Saving, reloading, restoring a *)
(* backup and starting all activate a text by the same steps; a crash may  *)
(* come between any two of them, and a rename whose directory is not yet   *)
(* synced may be lost with it.                                             *)
(***************************************************************************)
EXTENDS Integers, FiniteSets

CONSTANTS
  Texts,        \* configuration documents
  Attr,         \* Attr[t]: [valid, lists, static, secret] of a document
  NoSecret,
  Versions,     \* what the subscribed lists may contain when fetched
  Nothing,
  First,        \* the file the owner starts with
  Faults,       \* whether preparation steps fail
  SyncFails,    \* whether a directory sync reports an error
  Kills,        \* whether the process dies without the machine
  MaxGeneration,  \* no save and no idle refresh beyond this generation
  MaxEdits, MaxCrashes

ASSUME ConfigAssumption ==
  /\ First \in Texts /\ Attr[First].valid /\ Attr[First].secret = NoSecret
  /\ Nothing \notin Texts
  /\ {Faults, SyncFails, Kills} \subseteq BOOLEAN
  /\ {MaxGeneration, MaxEdits, MaxCrashes} \subseteq Nat

VARIABLES
  up,            \* "down", "opening" or "up"
  file, fileMay,          \* the text in the file; the texts it may hold after a crash
  manifest, manifestMay,  \* active.manifest, likewise
  artifacts,     \* subscription artifacts on disk
  secrets,       \* credential generations on disk
  active,        \* the snapshot being served
  status,        \* [saved, error]: the activation status
  build,         \* the holder of the build lock and where it is
  restore,       \* [at, text, expected]: a restore of a backup with credentials
  watcher,       \* [at, seen, due]: the file watcher
  acked,         \* the newest snapshot whose activation succeeded
  raced,         \* an editor wrote after the last revision check
  edits, crashes

disk == <<file, fileMay, manifest, manifestMay, artifacts, secrets>>
vars == <<up, disk, active, status, build, restore, watcher, acked, raced, edits, crashes>>

\* What a manifest records and a snapshot serves.
Snap(g, t, a) == [gen |-> g, text |-> t, art |-> a]
Artifact(t, v) == [lists |-> Attr[t].lists, version |-> v]
Unlocked == [at |-> "idle", op |-> "none", text |-> Nothing, expected |-> Nothing, art |-> Nothing]
NoRestore == [at |-> "none", text |-> Nothing, expected |-> Nothing]

Init ==
  /\ up = "down"
  /\ file = First /\ fileMay = {First}
  /\ manifest = Nothing /\ manifestMay = {Nothing}
  /\ artifacts = {} /\ secrets = {}
  /\ active = Nothing
  /\ status = [saved |-> Nothing, error |-> "none"]
  /\ build = Unlocked
  /\ restore = NoRestore
  /\ watcher = [at |-> "idle", seen |-> Nothing, due |-> FALSE]
  /\ acked = Nothing
  /\ raced = FALSE /\ edits = 0 /\ crashes = 0

HasSecret(t) == Attr[t].secret = NoSecret \/ Attr[t].secret \in secrets
Free == build.at = "idle" /\ up = "up"

\* The process serves: the watcher starts from the saved revision it is told.
Serve(saved) ==
  /\ up' = "up"
  /\ watcher' = [at |-> "idle", seen |-> saved, due |-> FALSE]

\* fail: the status keeps the error; a failed restore still has to discard its
\* credentials, and a start without a snapshot gives up.
Fail(error) ==
  /\ build' = Unlocked
  /\ status' = [status EXCEPT !.error = error]
  /\ restore' = IF build.op = "restore" THEN [restore EXCEPT !.at = "discard"] ELSE restore
  /\ IF build.op # "open" THEN UNCHANGED <<up, watcher>>
     ELSE IF active # Nothing THEN Serve(status.saved)
     ELSE up' = "down" /\ UNCHANGED watcher

GoTo(stage) == build' = [build EXCEPT !.at = stage]

\* The lock is taken and begin has marked the revision as pending.
Begin(op, t, expected) ==
  /\ build' = [Unlocked EXCEPT !.at = "prepare", !.op = op, !.text = t, !.expected = expected]
  /\ status' = [saved |-> expected, error |-> "none"]

-----------------------------------------------------------------------------
(* Who asks for an activation.                                             *)

\* Save of a parsed document under the revision its author read.
Save(t, expected) ==
  /\ Free /\ Attr[t].valid /\ Attr[t].secret \in {NoSecret, Attr[active.text].secret}
  /\ file = expected /\ active.gen < MaxGeneration
  /\ Begin("save", t, expected)
  /\ UNCHANGED <<up, disk, active, restore, watcher, acked, raced, edits, crashes>>

\* Another writer was faster; the error stays in the status.
SaveConflict ==
  /\ Free
  /\ status' = [status EXCEPT !.error = "conflict"]
  /\ UNCHANGED <<up, disk, active, build, restore, watcher, acked, raced, edits, crashes>>

\* A restore first makes its credentials durable in a generation of their own.
StageSecrets(t) ==
  /\ Free /\ restore.at = "none" /\ active.gen < MaxGeneration
  /\ Attr[t].valid /\ Attr[t].secret \notin secrets \cup {NoSecret}
  /\ Attr[t].static = Attr[active.text].static
  /\ secrets' = secrets \cup {Attr[t].secret}
  /\ restore' = [at |-> "staged", text |-> t, expected |-> file]
  /\ UNCHANGED <<up, file, fileMay, manifest, manifestMay, artifacts, active, status, build,
                 watcher, acked, raced, edits, crashes>>

RestoreSave ==
  /\ Free /\ restore.at = "staged"
  /\ file = restore.expected
  /\ Begin("restore", restore.text, restore.expected)
  /\ restore' = [restore EXCEPT !.at = "saving"]
  /\ UNCHANGED <<up, disk, active, watcher, acked, raced, edits, crashes>>

RestoreConflict ==
  /\ Free /\ restore.at = "staged"
  /\ file # restore.expected
  /\ restore' = [restore EXCEPT !.at = "discard"]
  /\ status' = [status EXCEPT !.error = "conflict"]
  /\ UNCHANGED <<up, disk, active, build, watcher, acked, raced, edits, crashes>>

\* The credentials of a failed restore go unless the snapshot or the file names
\* them, or the file cannot be read as a configuration.
DiscardUnreferenced ==
  LET s == Attr[restore.text].secret IN
  /\ Free /\ restore.at = "discard"
  /\ secrets' = IF Attr[active.text].secret = s \/ ~Attr[file].valid \/ Attr[file].secret = s
                THEN secrets ELSE secrets \ {s}
  /\ restore' = NoRestore
  /\ UNCHANGED <<up, file, fileMay, manifest, manifestMay, artifacts, active, status, build,
                 watcher, acked, raced, edits, crashes>>

\* A reload takes the file as it is now. The watcher's skips a text that is
\* already served; the one of a refresh does not.
ReloadSkips ==
  /\ Free /\ watcher.at = "reload" /\ ~watcher.due
  /\ active.text = file
  /\ watcher' = [watcher EXCEPT !.at = "idle"]
  /\ UNCHANGED <<up, disk, active, status, build, restore, acked, raced, edits, crashes>>

Load(op) ==
  IF Attr[file].valid
  THEN Begin(op, file, file)
  ELSE /\ status' = [saved |-> file, error |-> "invalid"]
       /\ UNCHANGED build

ReloadStarts ==
  /\ Free /\ watcher.at = "reload"
  /\ watcher.due \/ active.text # file
  /\ watcher' = [watcher EXCEPT !.at = "idle", !.due = FALSE]
  /\ Load("reload")
  /\ UNCHANGED <<up, disk, active, restore, acked, raced, edits, crashes>>

\* The refresh job of the control service reloads without the watcher.
Reload ==
  /\ Free /\ active.gen < MaxGeneration
  /\ Load("reload")
  /\ UNCHANGED <<up, disk, active, restore, watcher, acked, raced, edits, crashes>>

\* A poll of the watcher looks at a text once; the periodic refresh of the lists
\* takes the file whatever was seen of it.
Poll ==
  /\ up = "up" /\ watcher.at = "idle"
  /\ file # watcher.seen
  /\ watcher' = [at |-> IF active.text = file /\ status.error = "none" THEN "idle" ELSE "reload",
                 seen |-> file, due |-> FALSE]
  /\ UNCHANGED <<up, disk, active, status, build, restore, acked, raced, edits, crashes>>

\* Mistake: the refresh leaves out a text that the watcher has seen.
RefreshDueUnseen ==
  /\ up = "up" /\ watcher.at = "idle"
  /\ file # watcher.seen
  /\ watcher' = [at |-> "reload", seen |-> file, due |-> TRUE]
  /\ UNCHANGED <<up, disk, active, status, build, restore, acked, raced, edits, crashes>>

RefreshDue ==
  /\ up = "up" /\ watcher.at = "idle"
  /\ active.gen < MaxGeneration \/ active.text # file
  /\ watcher' = [at |-> "reload", seen |-> file, due |-> TRUE]
  /\ UNCHANGED <<up, disk, active, status, build, restore, acked, raced, edits, crashes>>

Edit(t) ==
  /\ edits < MaxEdits /\ t # file
  /\ file' = t /\ fileMay' = fileMay \cup {t}
  /\ raced' = (raced \/ build.at = "rename")
  /\ edits' = edits + 1
  /\ UNCHANGED <<up, manifest, manifestMay, artifacts, secrets, active, status, build, restore,
                 watcher, acked, crashes>>

-----------------------------------------------------------------------------
(* activate. The build lock is held throughout.                            *)

NextGeneration == IF active = Nothing THEN 1 ELSE active.gen + 1
Saving == build.op \in {"save", "restore"}

\* Listener, path or startup settings differ from the snapshot's.
NeedsRestart ==
  active # Nothing /\ build.op # "open" /\ Attr[build.text].static # Attr[active.text].static

PrepareRestart ==
  /\ build.at = "prepare" /\ NeedsRestart
  /\ Fail("restart")
  /\ UNCHANGED <<disk, active, acked, raced, edits, crashes>>

\* A save keeps the artifact of unchanged lists.
Reuses == Saving /\ active.art.lists = Attr[build.text].lists

\* A credential is missing, a list or a rule does not compile, the caller left.
PrepareFails ==
  /\ build.at = "prepare" /\ ~NeedsRestart
  /\ Faults \/ ~HasSecret(build.text) \/ (Reuses /\ active.art \notin artifacts)
  /\ Fail("failed")
  /\ UNCHANGED <<disk, active, acked, raced, edits, crashes>>

\* The lists are fetched, reused or retained; their artifact is durable before
\* a manifest names it, and the candidate manifest is staged.
Prepare(v) ==
  /\ build.at = "prepare" /\ ~NeedsRestart /\ HasSecret(build.text)
  /\ Reuses => v = active.art.version /\ active.art \in artifacts
  /\ artifacts' = artifacts \cup {Artifact(build.text, v)}
  /\ build' = [build EXCEPT !.at = IF Saving THEN "check" ELSE "reread",
                            !.art = Artifact(build.text, v)]
  /\ UNCHANGED <<up, file, fileMay, manifest, manifestMay, secrets, active, status, restore,
                 watcher, acked, raced, edits, crashes>>

\* Mistake: the revision is not checked again after the preparation.
PublishCheckNothing ==
  /\ build.at = "check"
  /\ GoTo("rename") /\ raced' = FALSE
  /\ UNCHANGED <<up, disk, active, status, restore, watcher, acked, edits, crashes>>

\* Publish: the last look at the revision, then the rename, then the sync.
PublishCheck ==
  /\ build.at = "check"
  /\ file = build.expected
  /\ GoTo("rename") /\ raced' = FALSE
  /\ UNCHANGED <<up, disk, active, status, restore, watcher, acked, edits, crashes>>

PublishFails ==
  /\ build.at = "check"
  /\ Faults \/ file # build.expected
  /\ Fail("conflict")
  /\ UNCHANGED <<disk, active, acked, raced, edits, crashes>>

PublishRename ==
  /\ build.at = "rename"
  /\ file' = build.text /\ fileMay' = fileMay \cup {build.text}
  /\ GoTo("sync")
  /\ UNCHANGED <<up, manifest, manifestMay, artifacts, secrets, active, status, restore,
                 watcher, acked, raced, edits, crashes>>

PublishSync ==
  /\ build.at = "sync"
  /\ fileMay' = {file}
  /\ build' = [build EXCEPT !.at = "reread", !.expected = build.text]
  /\ UNCHANGED <<up, file, manifest, manifestMay, artifacts, secrets, active, status, restore,
                 watcher, acked, raced, edits, crashes>>

\* The text that was read or saved is still the one in the file.
Reread ==
  /\ build.at = "reread"
  /\ file = build.expected
  /\ GoTo("commit")
  /\ UNCHANGED <<up, disk, active, status, restore, watcher, acked, raced, edits, crashes>>

RereadFails ==
  /\ build.at = "reread"
  /\ Faults \/ file # build.expected
  /\ Fail("conflict")
  /\ UNCHANGED <<disk, active, acked, raced, edits, crashes>>

\* Mistake: the other artifacts are removed with the rename, before the sync.
CommitRenameCleans ==
  LET m == Snap(IF build.op = "recover" THEN manifest.gen + 1 ELSE NextGeneration,
                build.text, build.art) IN
  /\ build.at = "commit"
  /\ manifest' = m /\ manifestMay' = manifestMay \cup {m}
  /\ artifacts' = IF Saving THEN artifacts ELSE {build.art}
  /\ GoTo("commitsync")
  /\ UNCHANGED <<up, file, fileMay, secrets, active, status, restore, watcher,
                 acked, raced, edits, crashes>>

\* commitManifest: the candidate is renamed over the active manifest.
CommitRename ==
  LET m == Snap(IF build.op = "recover" THEN manifest.gen + 1 ELSE NextGeneration,
                build.text, build.art) IN
  /\ build.at = "commit"
  /\ manifest' = m /\ manifestMay' = manifestMay \cup {m}
  /\ GoTo("commitsync")
  /\ UNCHANGED <<up, file, fileMay, artifacts, secrets, active, status, restore, watcher,
                 acked, raced, edits, crashes>>

\* A directory sync fails after its rename: the new entry is already visible.
SyncError ==
  /\ SyncFails /\ build.at \in {"sync", "commitsync"} /\ build.op # "recover"
  /\ Fail("failed")
  /\ UNCHANGED <<disk, active, acked, raced, edits, crashes>>

\* Mistake: the snapshot is served before its manifest is durable.
ActivateEarly ==
  /\ build.at = "commitsync"
  /\ active' = manifest /\ acked' = manifest
  /\ status' = [saved |-> build.text, error |-> "none"]
  /\ artifacts' = IF Saving THEN artifacts ELSE {build.art}
  /\ build' = Unlocked
  /\ restore' = IF build.op = "restore" THEN NoRestore ELSE restore
  /\ IF build.op = "recover" /\ file # build.text THEN up' = "opening" /\ UNCHANGED watcher
     ELSE IF build.op \in {"open", "recover"} THEN Serve(build.text)
     ELSE UNCHANGED <<up, watcher>>
  /\ UNCHANGED <<file, fileMay, manifest, manifestMay, secrets, raced, edits, crashes>>

\* The manifest is durable: the snapshot is served, and everything but a save
\* removes the artifacts nothing refers to.
Activate ==
  /\ build.at = "commitsync"
  /\ manifestMay' = {manifest}
  /\ active' = manifest /\ acked' = manifest
  /\ status' = [saved |-> build.text, error |-> "none"]
  /\ artifacts' = IF Saving THEN artifacts ELSE {build.art}
  /\ build' = Unlocked
  /\ restore' = IF build.op = "restore" THEN NoRestore ELSE restore
  /\ IF build.op = "recover" /\ file # build.text THEN up' = "opening" /\ UNCHANGED watcher
     ELSE IF build.op \in {"open", "recover"} THEN Serve(build.text)
     ELSE UNCHANGED <<up, watcher>>
  /\ UNCHANGED <<file, fileMay, manifest, secrets, raced, edits, crashes>>

-----------------------------------------------------------------------------
(* OpenStore, and the end of the process.                                  *)

\* What recover accepts.
Recoverable(m) ==
  /\ m # Nothing
  /\ m.art \in artifacts /\ m.art.lists = Attr[m.text].lists
  /\ HasSecret(m.text)

\* The manifest is served at once; a file that differs from it is loaded next.
Recover ==
  /\ up = "down" /\ Recoverable(manifest)
  /\ active' = manifest
  /\ status' = [saved |-> manifest.text, error |-> "none"]
  /\ artifacts' = {manifest.art}
  /\ IF file = manifest.text THEN Serve(file) ELSE up' = "opening" /\ UNCHANGED watcher
  /\ UNCHANGED <<file, fileMay, manifest, manifestMay, secrets, build, restore, acked, raced,
                 edits, crashes>>

\* This program carries other built-in lists than the one that wrote the
\* manifest: the manifest is rewritten under a new generation first.
RecoverBuiltins(v) ==
  /\ up = "down" /\ Recoverable(manifest)
  /\ v # manifest.art.version /\ manifest.gen < MaxGeneration
  /\ up' = "opening"
  /\ artifacts' = artifacts \cup {Artifact(manifest.text, v)}
  /\ build' = [at |-> "commit", op |-> "recover", text |-> manifest.text, expected |-> Nothing,
               art |-> Artifact(manifest.text, v)]
  /\ UNCHANGED <<file, fileMay, manifest, manifestMay, secrets, active, status, restore, watcher,
                 acked, raced, edits, crashes>>

\* There is nothing to recover, or it is not complete: the file decides.
RecoverFails ==
  /\ up = "down" /\ ~Recoverable(manifest)
  /\ up' = "opening"
  /\ UNCHANGED <<disk, active, status, build, restore, watcher, acked, raced, edits, crashes>>

\* The sync of a rewritten manifest fails: nothing is recovered.
RecoverSyncError ==
  /\ SyncFails /\ build.at = "commitsync" /\ build.op = "recover"
  /\ build' = Unlocked
  /\ UNCHANGED <<up, disk, active, status, restore, watcher, acked, raced, edits, crashes>>

\* OpenStore reloads a file that is not the recovered one; without either it fails.
OpenReload ==
  /\ up = "opening" /\ build.at = "idle"
  /\ Load("open")
  /\ IF Attr[file].valid THEN UNCHANGED <<up, watcher>>
     ELSE IF active # Nothing THEN Serve(file) ELSE up' = "down" /\ UNCHANGED watcher
  /\ UNCHANGED <<disk, active, restore, acked, raced, edits, crashes>>

\* The process ends; nothing in memory survives.
Dies ==
  /\ up # "down" /\ crashes < MaxCrashes
  /\ up' = "down"
  /\ active' = Nothing
  /\ status' = [saved |-> Nothing, error |-> "none"]
  /\ build' = Unlocked /\ restore' = NoRestore
  /\ watcher' = [at |-> "idle", seen |-> Nothing, due |-> FALSE]
  /\ raced' = FALSE
  /\ crashes' = crashes + 1
  /\ UNCHANGED <<artifacts, secrets, acked, edits>>

\* The machine dies with it: renames that were not synced may be undone.
PowerLoss ==
  /\ Dies
  /\ file' \in fileMay /\ manifest' \in manifestMay
  /\ fileMay' = {file'} /\ manifestMay' = {manifest'}

Kill ==
  /\ Kills /\ Dies
  /\ UNCHANGED <<file, fileMay, manifest, manifestMay>>

Activation ==
  \/ PrepareRestart \/ PrepareFails \/ (\E v \in Versions : Prepare(v))
  \/ PublishCheck \/ PublishFails \/ PublishRename \/ PublishSync
  \/ Reread \/ RereadFails \/ CommitRename \/ SyncError \/ Activate

Opening ==
  \/ Recover \/ (\E v \in Versions : RecoverBuiltins(v)) \/ RecoverFails \/ RecoverSyncError
  \/ OpenReload

Next ==
  \/ \E t \in Texts : (\E expected \in Texts : Save(t, expected)) \/ StageSecrets(t) \/ Edit(t)
  \/ SaveConflict \/ RestoreSave \/ RestoreConflict \/ DiscardUnreferenced
  \/ ReloadSkips \/ ReloadStarts \/ Reload \/ Poll \/ RefreshDue
  \/ Activation \/ Opening \/ PowerLoss \/ Kill

Spec == Init /\ [][Next]_vars

\* The process is started again after a crash, the holder of the build lock goes
\* on, and the watcher polls. Nothing is assumed of editors and callers.
Fairness ==
  /\ WF_vars(Activation) /\ WF_vars(Opening)
  /\ WF_vars(Poll) /\ SF_vars(ReloadSkips) /\ SF_vars(ReloadStarts)

FairSpec == Spec /\ Fairness

\* The lists are refreshed again and again, which also reloads the file.
RefreshingSpec == FairSpec /\ SF_vars(RefreshDue)

-----------------------------------------------------------------------------
(* Properties.                                                             *)

Arts == [lists : {Attr[t].lists : t \in Texts}, version : Versions]
Snaps == [gen : Nat \ {0}, text : Texts, art : Arts]
MaybeText == Texts \cup {Nothing}
Statuses == [saved : MaybeText, error : {"none", "invalid", "restart", "conflict", "failed"}]
Builds ==
  [at : {"idle", "prepare", "check", "rename", "sync", "reread", "commit", "commitsync"},
   op : {"none", "save", "restore", "reload", "open", "recover"},
   text : MaybeText, expected : MaybeText, art : Arts \cup {Nothing}]
Restores ==
  [at : {"none", "staged", "saving", "discard"}, text : MaybeText, expected : MaybeText]
Watchers == [at : {"idle", "reload"}, seen : MaybeText, due : BOOLEAN]

\* Nothing is neither a manifest nor an artifact.
ASSUME NothingAssumption == Nothing \notin Snaps \cup Arts

\* Types; a process that serves has a snapshot, and the visible file and manifest are
\* among those a power loss may leave.
TypeOK ==
  /\ up \in {"down", "opening", "up"} /\ (up = "up" => active # Nothing)
  /\ file \in fileMay /\ fileMay \subseteq Texts
  /\ manifest \in manifestMay /\ manifestMay \subseteq Snaps \cup {Nothing}
  /\ artifacts \subseteq Arts
  /\ secrets \subseteq {Attr[t].secret : t \in Texts}
  /\ active \in Snaps \cup {Nothing} /\ acked \in Snaps \cup {Nothing}
  /\ status \in Statuses /\ build \in Builds /\ restore \in Restores /\ watcher \in Watchers

\* Whatever manifest a crash leaves behind is complete: its lists' artifact and
\* its credentials are on disk. Cleanup and the discard of a failed restore never
\* remove what a start would need.
AlwaysRecoverable == \A m \in manifestMay : m # Nothing => Recoverable(m)

\* An activation succeeds only when every manifest a crash may leave is that one
\* or a newer one: what a caller was told is active cannot be lost.
AckedIsDurable ==
  acked # Nothing => \A m \in manifestMay :
    m # Nothing /\ (m = acked \/ m.gen > acked.gen)

\* What is being served can be recovered from the disk, whatever failed syncs, kills,
\* later saves and cleanups have done to the files since it was activated.
ServedIsComplete == active # Nothing => Recoverable(active)

\* A save replaces the text its author read. The one exception is an editor that
\* writes between the last check and the rename, which publish.go 16 names.
ReplacesWhatWasRead == [][PublishRename => file = build.expected \/ raced]_vars

\* The file's text can be served without a restart of the process.
Applies ==
  /\ Attr[file].valid /\ HasSecret(file)
  /\ active # Nothing /\ Attr[file].static = Attr[active.text].static

\* A file that stays applicable is in the end the one being served, if the lists
\* are refreshed: also after a reload that failed half way, a conflict or a crash.
Settles == <>[](up = "up" /\ Applies) => []<>(active # Nothing /\ active.text = file)

\* store_test.go 63: after an invalid edit, a correction of the file clears the
\* error (without waiting for the daily refresh, which is not assumed).
CorrectionClears == <>[](up = "up" /\ Applies) => <>[](status.error # "invalid")
==============================================================================
