-------------------------- MODULE ConfigStoreProofs --------------------------
(***************************************************************************)
(* Proofs about ConfigStore, for any documents, lists and credentials, any *)
(* number of edits and crashes, and any bound on the generations.          *)
(***************************************************************************)
EXTENDS ConfigStore, TLAPS

\* The build lock: what it is held for agrees with how far the process is, and its
\* holder has a text; so has a restore that is under way.
Locked ==
  /\ build.at = "idle" <=> build.op = "none"
  /\ build.at # "idle" => build.text \in Texts
  /\ build.op \in {"save", "restore", "reload"} => up = "up"
  /\ build.op \in {"open", "recover"} => up = "opening"
  /\ build.op = "recover" => build.at \in {"commit", "commitsync"} /\ manifest # Nothing
  /\ build.op = "restore" => restore.at = "saving"
  /\ restore.at # "none" => restore.text \in Texts /\ restore.expected \in Texts
  /\ raced \in BOOLEAN

\* From the preparation on, everything that the candidate needs stays on disk: the
\* lock keeps cleanup and the discard of credentials away.
Prepared ==
  build.at \notin {"idle", "prepare"} =>
    /\ build.art \in artifacts /\ build.art.lists = Attr[build.text].lists
    /\ HasSecret(build.text)

\* Between the rename of the manifest and its sync, the manifest is the candidate's.
Committed ==
  build.at = "commitsync" =>
    manifest # Nothing /\ manifest.text = build.text /\ manifest.art = build.art

\* The last look at the revision still counts when the file is replaced.
Unraced == build.at = "rename" => file = build.expected \/ raced

\* The inductive invariant, whatever fails.
IInv == TypeOK /\ Locked /\ Prepared /\ Committed /\ Unraced /\ ServedIsComplete

\* Without failed syncs, and with power losses as the only crashes, just one step
\* leaves two manifests to choose from; at every other time the one on disk is the
\* one being served.
Synced ==
  build.at # "commitsync" => manifestMay = {manifest} /\ (active # Nothing => manifest = active)

\* A start that has nothing to serve has found no manifest.
Opened ==
  up # "down" /\ active = Nothing /\ build.op # "recover" /\ build.at # "commitsync" =>
    manifest = Nothing

\* What is being served is what was acknowledged last, or newer.
Progress ==
  active # Nothing /\ acked # Nothing => active = acked \/ active.gen > acked.gen

\* The inductive invariant of the durability properties.
DInv == AlwaysRecoverable /\ AckedIsDurable /\ Synced /\ Opened /\ Progress

\* What the types say of the fields.
LEMMA Fields ==
  ASSUME TypeOK
  PROVE  /\ build.at \in {"idle", "prepare", "check", "rename", "sync", "reread", "commit",
                          "commitsync"}
         /\ build.op \in {"none", "save", "restore", "reload", "open", "recover"}
         /\ build.text \in MaybeText /\ build.expected \in MaybeText
         /\ restore.at \in {"none", "staged", "saving", "discard"}
         /\ restore.text \in MaybeText /\ restore.expected \in MaybeText
         /\ watcher.at \in {"idle", "reload"} /\ watcher.seen \in MaybeText
         /\ status.saved \in MaybeText
         /\ file \in Texts /\ file \in MaybeText
         /\ manifest \in Snaps \cup {Nothing}
  BY DEF TypeOK, Builds, Restores, Watchers, Statuses, MaybeText

\* What a snapshot consists of.
LEMMA SnapFields ==
  /\ \A m \in Snaps : m.gen \in Nat /\ m.gen > 0 /\ m.text \in Texts /\ m.art \in Arts
  /\ \A g \in Nat \ {0}, t \in Texts, a \in Arts :
       /\ Snap(g, t, a) \in Snaps /\ Snap(g, t, a) # Nothing
       /\ Snap(g, t, a).gen = g /\ Snap(g, t, a).text = t /\ Snap(g, t, a).art = a
  /\ \A t \in Texts, v \in Versions :
       Artifact(t, v) \in Arts /\ Artifact(t, v).lists = Attr[t].lists
  BY NothingAssumption DEF Snaps, Snap, Artifact, Arts

\* The records that the steps assign, and the ones they update, are well typed.
LEMMA Updates ==
  ASSUME TypeOK
  PROVE  /\ Unlocked \in Builds
         /\ \A s \in {"check", "rename", "sync", "reread", "commit", "commitsync"} :
              [build EXCEPT !.at = s] \in Builds
         /\ \A op \in {"save", "restore", "reload", "open"}, t, e \in MaybeText :
              [Unlocked EXCEPT !.at = "prepare", !.op = op, !.text = t, !.expected = e] \in Builds
         /\ NoRestore \in Restores
         /\ \A s \in {"saving", "discard"} : [restore EXCEPT !.at = s] \in Restores
         /\ \A t \in MaybeText, e \in {"none", "invalid", "restart", "conflict", "failed"} :
              [saved |-> t, error |-> e] \in Statuses /\ [status EXCEPT !.error = e] \in Statuses
         /\ \A t \in MaybeText : [at |-> "idle", seen |-> t, due |-> FALSE] \in Watchers
  <1>1. Nothing \in MaybeText /\ Nothing \in Arts \cup {Nothing}
    BY DEF MaybeText
  <1>2. Unlocked \in Builds
    BY <1>1 DEF Unlocked, Builds
  <1>3. ASSUME NEW s \in {"check", "rename", "sync", "reread", "commit", "commitsync"}
        PROVE  [build EXCEPT !.at = s] \in Builds
    BY DEF TypeOK, Builds
  <1>4. ASSUME NEW op \in {"save", "restore", "reload", "open"},
               NEW t \in MaybeText, NEW e \in MaybeText
        PROVE  [Unlocked EXCEPT !.at = "prepare", !.op = op, !.text = t, !.expected = e] \in Builds
    BY <1>1 DEF Unlocked, Builds
  <1>5. /\ NoRestore \in Restores
        /\ \A s \in {"saving", "discard"} : [restore EXCEPT !.at = s] \in Restores
    BY <1>1 DEF TypeOK, NoRestore, Restores
  <1>6. \A t \in MaybeText, e \in {"none", "invalid", "restart", "conflict", "failed"} :
          [saved |-> t, error |-> e] \in Statuses /\ [status EXCEPT !.error = e] \in Statuses
    BY DEF TypeOK, Statuses
  <1>7. \A t \in MaybeText : [at |-> "idle", seen |-> t, due |-> FALSE] \in Watchers
    BY DEF Watchers
  <1> QED
    BY <1>2, <1>3, <1>4, <1>5, <1>6, <1>7

\* A step of the holder of the lock changes where it is and nothing else.
LEMMA GoToFacts ==
  ASSUME TypeOK, NEW s \in {"check", "rename", "sync", "reread", "commit", "commitsync"}, GoTo(s)
  PROVE  /\ build' \in Builds /\ build'.at = s
         /\ build'.op = build.op /\ build'.text = build.text
         /\ build'.expected = build.expected /\ build'.art = build.art
  <1>1. build' = [build EXCEPT !.at = s] /\ build \in Builds
    BY DEF GoTo, TypeOK
  <1>2. build' \in Builds
    BY <1>1, Updates
  <1> QED
    BY <1>1, <1>2 DEF Builds

\* The process serves, and its watcher starts.
LEMMA ServeFacts ==
  ASSUME TypeOK, NEW saved \in MaybeText, Serve(saved)
  PROVE  up' = "up" /\ watcher' \in Watchers
  BY Updates DEF Serve

\* Whoever takes the lock prepares the text it has read.
LEMMA BeginFacts ==
  ASSUME TypeOK, NEW op \in {"save", "restore", "reload", "open"},
         NEW t \in Texts, NEW expected \in Texts, Begin(op, t, expected)
  PROVE  /\ build' \in Builds /\ status' \in Statuses
         /\ build'.at = "prepare" /\ build'.op = op /\ build'.text = t
  <1>1. t \in MaybeText /\ expected \in MaybeText
    BY DEF MaybeText
  <1>2. build' = [Unlocked EXCEPT !.at = "prepare", !.op = op, !.text = t, !.expected = expected]
    BY DEF Begin
  <1>3. build' \in Builds /\ status' \in Statuses
    BY <1>1, Updates DEF Begin
  <1> QED
    BY <1>2, <1>3 DEF Unlocked

\* A file that does not parse is reported; any other is prepared.
LEMMA LoadFacts ==
  ASSUME TypeOK, NEW op \in {"reload", "open"}, Load(op)
  PROVE  /\ build' \in Builds /\ status' \in Statuses
         /\ \/ build' = build /\ ~Attr[file].valid
            \/ Attr[file].valid /\ build'.at = "prepare" /\ build'.op = op /\ build'.text = file
  <1>1. CASE Attr[file].valid
    BY <1>1, BeginFacts, Fields DEF Load
  <1>2. CASE ~Attr[file].valid
    BY <1>2, Updates, Fields DEF Load, TypeOK
  <1> QED
    BY <1>1, <1>2

\* The manifest that is renamed into place is the candidate's, and newer than the
\* one being served or rewritten.
LEMMA Candidate ==
  ASSUME IInv, CommitRename
  PROVE  /\ manifest' \in Snaps /\ manifest' # Nothing
         /\ manifest'.text = build.text /\ manifest'.art = build.art
         /\ IF build.op = "recover" THEN manifest'.gen = manifest.gen + 1
            ELSE active # Nothing => manifest'.gen = active.gen + 1
  <1> DEFINE g == IF build.op = "recover" THEN manifest.gen + 1 ELSE NextGeneration
  <1>1. build.text \in Texts /\ build.art \in Arts
    BY DEF IInv, Locked, Prepared, TypeOK, CommitRename
  <1>2. build.op = "recover" => manifest.gen \in Nat
    BY Fields, SnapFields DEF IInv, Locked
  <1>3. NextGeneration \in Nat \ {0}
    BY SnapFields DEF IInv, TypeOK, NextGeneration
  <1>4. g \in Nat \ {0}
    BY <1>2, <1>3
  <1>5. manifest' = Snap(g, build.text, build.art)
    BY DEF CommitRename
  <1> HIDE DEF g
  <1>6. /\ manifest' \in Snaps /\ manifest' # Nothing
        /\ manifest'.text = build.text /\ manifest'.art = build.art /\ manifest'.gen = g
    BY <1>1, <1>4, <1>5, SnapFields
  <1> QED
    BY <1>6 DEF g, NextGeneration

\* The start: nothing is served, and nobody holds the lock.
LEMMA InitIInv == Init => IInv
  <1> SUFFICES ASSUME Init PROVE IInv
    OBVIOUS
  <1>1. TypeOK
    BY ConfigAssumption DEF Init, TypeOK, Unlocked, Builds, NoRestore, Restores, Statuses,
       Watchers, MaybeText
  <1>2. Locked /\ Prepared /\ Committed /\ Unraced /\ ServedIsComplete
    BY DEF Init, Locked, Prepared, Committed, Unraced, ServedIsComplete, Unlocked, NoRestore
  <1> QED
    BY <1>1, <1>2 DEF IInv

\* A save takes the lock with a document that parses.
LEMMA SaveKeeps ==
  ASSUME IInv, NEW t \in Texts, NEW expected \in Texts, Save(t, expected)
  PROVE  IInv'
  <1> USE Fields, SnapFields, ConfigAssumption, NothingAssumption
      DEF IInv, Save, Free, Begin, Unlocked, disk
  <1>1. TypeOK'
    BY Updates DEF TypeOK, MaybeText
  <1>2. Locked'
    BY DEF Locked
  <1>3. Prepared' /\ Committed' /\ Unraced'
    BY DEF Locked, Prepared, Committed, Unraced, HasSecret
  <1>4. ServedIsComplete'
    BY DEF Prepared, Committed, Locked, ServedIsComplete, Recoverable, HasSecret
  <1> QED
    BY <1>1, <1>2, <1>3, <1>4

\* A conflict only leaves its error.
LEMMA SaveConflictKeeps ==
  ASSUME IInv, SaveConflict
  PROVE  IInv'
  <1> USE Fields, SnapFields, ConfigAssumption, NothingAssumption
      DEF IInv, SaveConflict, Free, disk
  <1>1. TypeOK'
    BY Updates DEF TypeOK, MaybeText
  <1>2. Locked'
    BY DEF Locked
  <1>3. Prepared' /\ Committed' /\ Unraced'
    BY DEF Locked, Prepared, Committed, Unraced, HasSecret
  <1>4. ServedIsComplete'
    BY DEF Prepared, Committed, Locked, ServedIsComplete, Recoverable, HasSecret
  <1> QED
    BY <1>1, <1>2, <1>3, <1>4

\* Staging adds credentials and remembers the text they belong to.
LEMMA StageSecretsKeeps ==
  ASSUME IInv, NEW t \in Texts, StageSecrets(t)
  PROVE  IInv'
  <1> USE Fields, SnapFields, ConfigAssumption, NothingAssumption
      DEF IInv, StageSecrets, Free, disk
  <1>1. TypeOK'
    <2>1. restore' \in Restores
      BY DEF Restores, MaybeText
    <2>2. secrets' \subseteq {Attr[u].secret : u \in Texts}
      BY DEF TypeOK
    <2> QED
      BY <2>1, <2>2 DEF TypeOK
  <1>2. Locked'
    BY DEF Locked
  <1>3. Prepared' /\ Committed' /\ Unraced'
    BY DEF Locked, Prepared, Committed, Unraced, HasSecret
  <1>4. ServedIsComplete'
    BY DEF Prepared, Committed, Locked, ServedIsComplete, Recoverable, HasSecret
  <1> QED
    BY <1>1, <1>2, <1>3, <1>4

\* A restore takes the lock with the text it has staged.
LEMMA RestoreSaveKeeps ==
  ASSUME IInv, RestoreSave
  PROVE  IInv'
  <1> USE Fields, SnapFields, ConfigAssumption, NothingAssumption
      DEF IInv, RestoreSave, Free, Begin, Unlocked, disk
  <1>1. TypeOK'
    BY Updates DEF TypeOK, MaybeText
  <1>2. Locked'
    BY DEF Locked
  <1>3. Prepared' /\ Committed' /\ Unraced'
    BY DEF Locked, Prepared, Committed, Unraced, HasSecret
  <1>4. ServedIsComplete'
    BY DEF Prepared, Committed, Locked, ServedIsComplete, Recoverable, HasSecret
  <1> QED
    BY <1>1, <1>2, <1>3, <1>4

\* A restore that lost its race goes on to discard.
LEMMA RestoreConflictKeeps ==
  ASSUME IInv, RestoreConflict
  PROVE  IInv'
  <1> USE Fields, SnapFields, ConfigAssumption, NothingAssumption
      DEF IInv, RestoreConflict, Free, disk
  <1>1. TypeOK'
    BY Updates DEF TypeOK, MaybeText
  <1>2. Locked'
    BY DEF Locked
  <1>3. Prepared' /\ Committed' /\ Unraced'
    BY DEF Locked, Prepared, Committed, Unraced, HasSecret
  <1>4. ServedIsComplete'
    BY DEF Prepared, Committed, Locked, ServedIsComplete, Recoverable, HasSecret
  <1> QED
    BY <1>1, <1>2, <1>3, <1>4

\* The discarded credentials are not those of the snapshot.
LEMMA DiscardUnreferencedKeeps ==
  ASSUME IInv, DiscardUnreferenced
  PROVE  IInv'
  <1> USE Fields, SnapFields, ConfigAssumption, NothingAssumption
      DEF IInv, DiscardUnreferenced, Free, NoRestore, disk
  <1>1. TypeOK'
    BY Updates DEF TypeOK, MaybeText
  <1>2. Locked'
    BY DEF Locked
  <1>3. Prepared' /\ Committed' /\ Unraced'
    BY DEF Locked, Prepared, Committed, Unraced, HasSecret
  <1>4. ServedIsComplete'
    BY DEF Prepared, Committed, Locked, ServedIsComplete, Recoverable, HasSecret
  <1> QED
    BY <1>1, <1>2, <1>3, <1>4

\* A text that is already served is left alone.
LEMMA ReloadSkipsKeeps ==
  ASSUME IInv, ReloadSkips
  PROVE  IInv'
  <1> USE Fields, SnapFields, ConfigAssumption, NothingAssumption
      DEF IInv, ReloadSkips, Free, disk
  <1>1. TypeOK'
    <2>1. watcher' \in Watchers
      BY Fields DEF TypeOK, Watchers
    <2> QED
      BY <2>1 DEF TypeOK
  <1>2. Locked'
    BY DEF Locked
  <1>3. Prepared' /\ Committed' /\ Unraced'
    BY DEF Locked, Prepared, Committed, Unraced, HasSecret
  <1>4. ServedIsComplete'
    BY DEF Prepared, Committed, Locked, ServedIsComplete, Recoverable, HasSecret
  <1> QED
    BY <1>1, <1>2, <1>3, <1>4

\* A reload of the watcher takes the lock with the text in the file.
LEMMA ReloadStartsKeeps ==
  ASSUME IInv, ReloadStarts
  PROVE  IInv'
  <1> USE Fields, SnapFields, ConfigAssumption, NothingAssumption
      DEF IInv, ReloadStarts, Free, disk
  <1>1. TypeOK'
    <2>1. watcher' \in Watchers
      BY Fields DEF TypeOK, Watchers
    <2> QED
      BY <2>1, LoadFacts DEF TypeOK
  <1>2. Locked'
    BY LoadFacts DEF Locked
  <1>3. Prepared' /\ Committed' /\ Unraced'
    BY LoadFacts DEF Locked, Prepared, Committed, Unraced, HasSecret
  <1>4. ServedIsComplete'
    BY DEF Prepared, Committed, Locked, ServedIsComplete, Recoverable, HasSecret
  <1> QED
    BY <1>1, <1>2, <1>3, <1>4

\* So does one of the refresh job.
LEMMA ReloadKeeps ==
  ASSUME IInv, Reload
  PROVE  IInv'
  <1> USE Fields, SnapFields, ConfigAssumption, NothingAssumption
      DEF IInv, Reload, Free, disk
  <1>1. TypeOK'
    BY LoadFacts DEF TypeOK
  <1>2. Locked'
    BY LoadFacts DEF Locked
  <1>3. Prepared' /\ Committed' /\ Unraced'
    BY LoadFacts DEF Locked, Prepared, Committed, Unraced, HasSecret
  <1>4. ServedIsComplete'
    BY DEF Prepared, Committed, Locked, ServedIsComplete, Recoverable, HasSecret
  <1> QED
    BY <1>1, <1>2, <1>3, <1>4

\* A poll only moves the watcher.
LEMMA PollKeeps ==
  ASSUME IInv, Poll
  PROVE  IInv'
  <1> USE Fields, SnapFields, ConfigAssumption, NothingAssumption
      DEF IInv, Poll, disk
  <1>1. TypeOK'
    <2>1. watcher' \in Watchers
      BY Fields DEF TypeOK, Watchers
    <2> QED
      BY <2>1 DEF TypeOK
  <1>2. Locked'
    BY DEF Locked
  <1>3. Prepared' /\ Committed' /\ Unraced'
    BY DEF Locked, Prepared, Committed, Unraced, HasSecret
  <1>4. ServedIsComplete'
    BY DEF Prepared, Committed, Locked, ServedIsComplete, Recoverable, HasSecret
  <1> QED
    BY <1>1, <1>2, <1>3, <1>4

\* So does the periodic refresh.
LEMMA RefreshDueKeeps ==
  ASSUME IInv, RefreshDue
  PROVE  IInv'
  <1> USE Fields, SnapFields, ConfigAssumption, NothingAssumption
      DEF IInv, RefreshDue, disk
  <1>1. TypeOK'
    <2>1. watcher' \in Watchers
      BY Fields DEF TypeOK, Watchers
    <2> QED
      BY <2>1 DEF TypeOK
  <1>2. Locked'
    BY DEF Locked
  <1>3. Prepared' /\ Committed' /\ Unraced'
    BY DEF Locked, Prepared, Committed, Unraced, HasSecret
  <1>4. ServedIsComplete'
    BY DEF Prepared, Committed, Locked, ServedIsComplete, Recoverable, HasSecret
  <1> QED
    BY <1>1, <1>2, <1>3, <1>4

\* An editor that comes between the last check and the rename is noticed.
LEMMA EditKeeps ==
  ASSUME IInv, NEW t \in Texts, Edit(t)
  PROVE  IInv'
  <1> USE Fields, SnapFields, ConfigAssumption, NothingAssumption
      DEF IInv, Edit, disk
  <1>1. TypeOK'
    BY DEF TypeOK
  <1>2. Locked'
    BY DEF Locked
  <1>3. Prepared' /\ Committed' /\ Unraced'
    BY DEF Locked, Prepared, Committed, Unraced, HasSecret
  <1>4. ServedIsComplete'
    BY DEF Prepared, Committed, Locked, ServedIsComplete, Recoverable, HasSecret
  <1> QED
    BY <1>1, <1>2, <1>3, <1>4

\* After the preparation everything the candidate needs is on disk.
LEMMA PrepareKeeps ==
  ASSUME IInv, NEW v \in Versions, Prepare(v)
  PROVE  IInv'
  <1> USE Fields, SnapFields, ConfigAssumption, NothingAssumption
      DEF IInv, Prepare, Saving, disk
  <1>1. TypeOK'
    <2>1. build' \in Builds /\ Artifact(build.text, v) \in Arts
      BY DEF TypeOK, Builds, Locked
    <2> QED
      BY <2>1 DEF TypeOK
  <1>2. Locked'
    BY DEF Locked
  <1>3. Prepared' /\ Committed' /\ Unraced'
    BY DEF Locked, Prepared, Committed, Unraced, HasSecret
  <1>4. ServedIsComplete'
    BY DEF Prepared, Committed, Locked, ServedIsComplete, Recoverable, HasSecret
  <1> QED
    BY <1>1, <1>2, <1>3, <1>4

\* The last look at the revision finds the text its author read.
LEMMA PublishCheckKeeps ==
  ASSUME IInv, PublishCheck
  PROVE  IInv'
  <1> USE Fields, SnapFields, ConfigAssumption, NothingAssumption
      DEF IInv, PublishCheck, disk
  <1>1. TypeOK'
    BY GoToFacts DEF TypeOK, MaybeText
  <1>2. Locked'
    BY GoToFacts DEF Locked
  <1>3. Prepared' /\ Committed' /\ Unraced'
    BY GoToFacts DEF Locked, Prepared, Committed, Unraced, HasSecret
  <1>4. ServedIsComplete'
    BY DEF Prepared, Committed, Locked, ServedIsComplete, Recoverable, HasSecret
  <1> QED
    BY <1>1, <1>2, <1>3, <1>4

\* The new text is in the file, and the candidate is still complete.
LEMMA PublishRenameKeeps ==
  ASSUME IInv, PublishRename
  PROVE  IInv'
  <1> USE Fields, SnapFields, ConfigAssumption, NothingAssumption
      DEF IInv, PublishRename, disk
  <1>1. TypeOK'
    BY GoToFacts DEF TypeOK, MaybeText, Locked
  <1>2. Locked'
    BY GoToFacts DEF Locked
  <1>3. Prepared' /\ Committed' /\ Unraced'
    BY GoToFacts DEF Locked, Prepared, Committed, Unraced, HasSecret
  <1>4. ServedIsComplete'
    BY DEF Prepared, Committed, Locked, ServedIsComplete, Recoverable, HasSecret
  <1> QED
    BY <1>1, <1>2, <1>3, <1>4

\* The directory is synced.
LEMMA PublishSyncKeeps ==
  ASSUME IInv, PublishSync
  PROVE  IInv'
  <1> USE Fields, SnapFields, ConfigAssumption, NothingAssumption
      DEF IInv, PublishSync, disk
  <1>1. TypeOK'
    <2>1. build' \in Builds
      BY DEF TypeOK, Builds
    <2> QED
      BY <2>1 DEF TypeOK
  <1>2. Locked'
    BY DEF Locked
  <1>3. Prepared' /\ Committed' /\ Unraced'
    BY DEF Locked, Prepared, Committed, Unraced, HasSecret
  <1>4. ServedIsComplete'
    BY DEF Prepared, Committed, Locked, ServedIsComplete, Recoverable, HasSecret
  <1> QED
    BY <1>1, <1>2, <1>3, <1>4

\* The file is read once more.
LEMMA RereadKeeps ==
  ASSUME IInv, Reread
  PROVE  IInv'
  <1> USE Fields, SnapFields, ConfigAssumption, NothingAssumption
      DEF IInv, Reread, disk
  <1>1. TypeOK'
    BY GoToFacts DEF TypeOK, MaybeText
  <1>2. Locked'
    BY GoToFacts DEF Locked
  <1>3. Prepared' /\ Committed' /\ Unraced'
    BY GoToFacts DEF Locked, Prepared, Committed, Unraced, HasSecret
  <1>4. ServedIsComplete'
    BY DEF Prepared, Committed, Locked, ServedIsComplete, Recoverable, HasSecret
  <1> QED
    BY <1>1, <1>2, <1>3, <1>4

\* The manifest becomes the candidate's; what is being served stays complete.
LEMMA CommitRenameKeeps ==
  ASSUME IInv, CommitRename
  PROVE  IInv'
  <1> USE Fields, SnapFields, ConfigAssumption, NothingAssumption
      DEF IInv, CommitRename, disk
  <1>1. TypeOK'
    <2>1. /\ manifest' \in Snaps /\ manifest' # Nothing
          /\ manifest'.text = build.text /\ manifest'.art = build.art
      BY Candidate
    <2> QED
      BY <2>1, GoToFacts DEF TypeOK
  <1>2. Locked'
    <2>1. /\ manifest' \in Snaps /\ manifest' # Nothing
          /\ manifest'.text = build.text /\ manifest'.art = build.art
      BY Candidate
    <2> QED
      BY <2>1, GoToFacts DEF Locked
  <1>3. Prepared' /\ Committed' /\ Unraced'
    <2>1. /\ manifest' \in Snaps /\ manifest' # Nothing
          /\ manifest'.text = build.text /\ manifest'.art = build.art
      BY Candidate
    <2> QED
      BY <2>1, GoToFacts DEF Locked, Prepared, Committed, Unraced, HasSecret
  <1>4. ServedIsComplete'
    BY DEF ServedIsComplete, Recoverable, HasSecret
  <1> QED
    BY <1>1, <1>2, <1>3, <1>4

\* The snapshot served from here on is the candidate's; cleanup keeps its artifact.
LEMMA ActivateKeeps ==
  ASSUME IInv, Activate
  PROVE  IInv'
  <1> USE Fields, SnapFields, ConfigAssumption, NothingAssumption
      DEF IInv, Activate, Saving, Unlocked, NoRestore, disk
  <1>1. TypeOK'
    <2>1. manifest # Nothing /\ build.text \in MaybeText /\ build.art \in artifacts
      BY DEF Committed, Prepared
    <2>2. restore' \in Restores /\ status' \in Statuses /\ build' \in Builds
      BY <2>1, Updates DEF TypeOK
    <2>3. up' \in {"down", "opening", "up"} /\ watcher' \in Watchers
      <3>1. CASE build.op = "recover" /\ file # build.text
        BY <3>1 DEF TypeOK
      <3>2. CASE build.op \in {"open", "recover"} /\ ~(build.op = "recover" /\ file # build.text)
        BY <3>2, <2>1, ServeFacts
      <3>3. CASE build.op \notin {"open", "recover"}
        BY <3>3 DEF TypeOK
      <3> QED
        BY <3>1, <3>2, <3>3
    <2> QED
      BY <2>1, <2>2, <2>3 DEF TypeOK
  <1>2. Locked'
    BY DEF Locked, Serve
  <1>3. Prepared' /\ Committed' /\ Unraced'
    BY DEF Locked, Prepared, Committed, Unraced, HasSecret
  <1>4. ServedIsComplete'
    BY DEF Prepared, Committed, Locked, ServedIsComplete, Recoverable, HasSecret
  <1> QED
    BY <1>1, <1>2, <1>3, <1>4

\* What recover serves it has checked.
LEMMA RecoverKeeps ==
  ASSUME IInv, Recover
  PROVE  IInv'
  <1> USE Fields, SnapFields, ConfigAssumption, NothingAssumption
      DEF IInv, Recover, disk
  <1>1. TypeOK'
    <2>1. manifest \in Snaps /\ manifest.text \in MaybeText /\ manifest.art \in artifacts
      BY DEF Recoverable, TypeOK, MaybeText
    <2>2. status' \in Statuses
      BY <2>1, Updates
    <2>3. up' \in {"down", "opening", "up"} /\ watcher' \in Watchers
      <3>1. CASE file = manifest.text
        BY <3>1, ServeFacts
      <3>2. CASE file # manifest.text
        BY <3>2 DEF TypeOK
      <3> QED
        BY <3>1, <3>2
    <2> QED
      BY <2>1, <2>2, <2>3 DEF TypeOK
  <1>2. Locked'
    BY DEF Locked, Serve
  <1>3. Prepared' /\ Committed' /\ Unraced'
    BY DEF Locked, Prepared, Committed, Unraced, HasSecret
  <1>4. ServedIsComplete'
    BY DEF Prepared, Committed, Locked, ServedIsComplete, Recoverable, HasSecret
  <1> QED
    BY <1>1, <1>2, <1>3, <1>4

\* A manifest that is rewritten at the start is as complete as the one it replaces.
LEMMA RecoverBuiltinsKeeps ==
  ASSUME IInv, NEW v \in Versions, RecoverBuiltins(v)
  PROVE  IInv'
  <1> USE Fields, SnapFields, ConfigAssumption, NothingAssumption
      DEF IInv, RecoverBuiltins, disk
  <1>1. TypeOK'
    <2>1. manifest \in Snaps /\ Artifact(manifest.text, v) \in Arts
      BY DEF Recoverable, TypeOK
    <2>2. build' \in Builds
      BY <2>1 DEF Builds, MaybeText
    <2> QED
      BY <2>1, <2>2 DEF TypeOK
  <1>2. Locked'
    <2>1. manifest \in Snaps /\ Artifact(manifest.text, v) \in Arts
      BY DEF Recoverable, TypeOK
    <2> QED
      BY <2>1 DEF Locked, Recoverable
  <1>3. Prepared' /\ Committed' /\ Unraced'
    <2>1. manifest \in Snaps /\ Artifact(manifest.text, v) \in Arts
      BY DEF Recoverable, TypeOK
    <2> QED
      BY <2>1 DEF Prepared, Committed, Unraced, HasSecret, Recoverable
  <1>4. ServedIsComplete'
    BY DEF Prepared, Committed, Locked, ServedIsComplete, Recoverable, HasSecret
  <1> QED
    BY <1>1, <1>2, <1>3, <1>4

\* A start without a usable manifest serves nothing yet.
LEMMA RecoverFailsKeeps ==
  ASSUME IInv, RecoverFails
  PROVE  IInv'
  <1> USE Fields, SnapFields, ConfigAssumption, NothingAssumption
      DEF IInv, RecoverFails, disk
  <1>1. TypeOK'
    BY Updates DEF TypeOK, MaybeText
  <1>2. Locked'
    BY DEF Locked
  <1>3. Prepared' /\ Committed' /\ Unraced'
    BY DEF Locked, Prepared, Committed, Unraced, HasSecret
  <1>4. ServedIsComplete'
    BY DEF Prepared, Committed, Locked, ServedIsComplete, Recoverable, HasSecret
  <1> QED
    BY <1>1, <1>2, <1>3, <1>4

\* A rewrite that fails serves nothing.
LEMMA RecoverSyncErrorKeeps ==
  ASSUME IInv, RecoverSyncError
  PROVE  IInv'
  <1> USE Fields, SnapFields, ConfigAssumption, NothingAssumption
      DEF IInv, RecoverSyncError, Unlocked, disk
  <1>1. TypeOK'
    BY Updates DEF TypeOK, MaybeText
  <1>2. Locked'
    BY DEF Locked
  <1>3. Prepared' /\ Committed' /\ Unraced'
    BY DEF Locked, Prepared, Committed, Unraced, HasSecret
  <1>4. ServedIsComplete'
    BY DEF Prepared, Committed, Locked, ServedIsComplete, Recoverable, HasSecret
  <1> QED
    BY <1>1, <1>2, <1>3, <1>4

\* The start goes on with the file.
LEMMA OpenReloadKeeps ==
  ASSUME IInv, OpenReload
  PROVE  IInv'
  <1> USE Fields, SnapFields, ConfigAssumption, NothingAssumption
      DEF IInv, OpenReload, disk
  <1>1. TypeOK'
    <2>1. build' \in Builds /\ status' \in Statuses
      BY LoadFacts
    <2>2. /\ up' \in {"down", "opening", "up"} /\ watcher' \in Watchers
          /\ (up' = "up" => active # Nothing)
      <3>1. CASE Attr[file].valid
        BY <3>1 DEF TypeOK
      <3>2. CASE ~Attr[file].valid /\ active # Nothing
        BY <3>2, ServeFacts
      <3>3. CASE ~Attr[file].valid /\ active = Nothing
        BY <3>3 DEF TypeOK
      <3> QED
        BY <3>1, <3>2, <3>3
    <2> QED
      BY <2>1, <2>2 DEF TypeOK
  <1>2. Locked'
    BY LoadFacts DEF Locked, Serve
  <1>3. Prepared' /\ Committed' /\ Unraced'
    BY LoadFacts DEF Locked, Prepared, Committed, Unraced, HasSecret
  <1>4. ServedIsComplete'
    BY DEF Prepared, Committed, Locked, ServedIsComplete, Recoverable, HasSecret
  <1> QED
    BY <1>1, <1>2, <1>3, <1>4

\* Nothing in memory survives a crash, whichever of its files the disk keeps.
LEMMA DiesKeeps ==
  ASSUME IInv, file' \in fileMay', fileMay' \subseteq fileMay,
         manifest' \in manifestMay', manifestMay' \subseteq manifestMay, Dies
  PROVE  IInv'
  <1> USE Fields, SnapFields, ConfigAssumption, NothingAssumption
      DEF IInv, Dies, Unlocked, NoRestore, disk
  <1>1. TypeOK'
    BY Updates DEF TypeOK, MaybeText
  <1>2. Locked'
    BY DEF Locked
  <1>3. Prepared' /\ Committed' /\ Unraced'
    BY DEF Locked, Prepared, Committed, Unraced, HasSecret
  <1>4. ServedIsComplete'
    BY DEF Prepared, Committed, Locked, ServedIsComplete, Recoverable, HasSecret
  <1> QED
    BY <1>1, <1>2, <1>3, <1>4

\* Every error path of an activation: the lock is given back and nothing on disk or in
\* service has changed.
LEMMA FailKeeps ==
  ASSUME IInv, NEW error \in {"restart", "conflict", "failed"}, Fail(error), build.at # "idle",
         UNCHANGED <<disk, active, acked, raced>>
  PROVE  IInv'
  <1> USE Fields, SnapFields, ConfigAssumption DEF IInv, disk
  <1>0. build' = Unlocked /\ Unlocked.at = "idle" /\ Unlocked.op = "none"
    BY DEF Fail, Unlocked
  <1>1. TypeOK'
    <2>1. build' \in Builds /\ status' \in Statuses /\ restore' \in Restores
      BY Updates DEF Fail, TypeOK
    <2>2. /\ up' \in {"down", "opening", "up"} /\ watcher' \in Watchers
          /\ (up' = "up" => active # Nothing)
      <3>1. CASE build.op # "open"
        BY <3>1 DEF Fail, TypeOK
      <3>2. CASE build.op = "open" /\ active # Nothing
        BY <3>2, ServeFacts DEF Fail
      <3>3. CASE build.op = "open" /\ active = Nothing
        BY <3>3 DEF Fail, TypeOK
      <3> QED
        BY <3>1, <3>2, <3>3
    <2> QED
      BY <2>1, <2>2 DEF TypeOK
  <1>2. Locked'
    <2>1. \/ restore' = restore
          \/ build.op = "restore" /\ restore' = [restore EXCEPT !.at = "discard"]
      BY DEF Fail
    <2>2. restore'.at # "none" => restore'.text \in Texts /\ restore'.expected \in Texts
      <3>1. build.op = "restore" => restore.at # "none"
        BY DEF Locked
      <3> QED
        BY <2>1, <3>1 DEF Locked, TypeOK, Restores
    <2> QED
      BY <1>0, <2>2 DEF Locked
  <1>3. Prepared' /\ Committed' /\ Unraced'
    BY <1>0 DEF Prepared, Committed, Unraced
  <1>4. ServedIsComplete'
    BY DEF ServedIsComplete, Recoverable, HasSecret
  <1> QED
    BY <1>1, <1>2, <1>3, <1>4

\* Every step keeps the inductive invariant.
LEMMA NextIInv ==
  ASSUME IInv, [Next]_vars
  PROVE  IInv'
  <1>1. CASE PrepareRestart \/ PrepareFails
    BY <1>1, FailKeeps DEF PrepareRestart, PrepareFails
  <1>2. CASE PublishFails \/ RereadFails
    BY <1>2, FailKeeps DEF PublishFails, RereadFails
  <1>3. CASE SyncError
    BY <1>3, FailKeeps DEF SyncError
  <1>4. CASE PowerLoss
    BY <1>4, DiesKeeps DEF PowerLoss, IInv, TypeOK
  <1>5. CASE Kill
    BY <1>5, DiesKeeps DEF Kill, IInv, TypeOK
  <1>6. CASE Activation
    BY <1>1, <1>2, <1>3, <1>6, PrepareKeeps, PublishCheckKeeps, PublishRenameKeeps,
       PublishSyncKeeps,
       RereadKeeps, CommitRenameKeeps, ActivateKeeps DEF Activation
  <1>7. CASE Opening
    BY <1>7, RecoverKeeps, RecoverBuiltinsKeeps, RecoverFailsKeeps, RecoverSyncErrorKeeps,
       OpenReloadKeeps DEF Opening
  <1>8. CASE \E t \in Texts :
               (\E expected \in Texts : Save(t, expected)) \/ StageSecrets(t) \/ Edit(t)
    BY <1>8, SaveKeeps, StageSecretsKeeps, EditKeeps
  <1>9. CASE UNCHANGED vars
    BY <1>9 DEF vars, disk, IInv, TypeOK, Locked, Prepared, Committed, Unraced, ServedIsComplete,
       Recoverable, HasSecret
  <1> QED
    BY <1>4, <1>5, <1>6, <1>7, <1>8, <1>9, SaveConflictKeeps, RestoreSaveKeeps,
       RestoreConflictKeeps,
       DiscardUnreferencedKeeps, ReloadSkipsKeeps, ReloadStartsKeeps, ReloadKeeps, PollKeeps,
       RefreshDueKeeps DEF Next

\* The inductive invariant holds throughout.
THEOREM Invariance == Spec => []IInv
  BY InitIInv, NextIInv, PTL DEF Spec

\* Types are kept; in particular a process that serves has a snapshot.
THEOREM TypeCorrect == Spec => []TypeOK
  BY Invariance, PTL DEF IInv

\* What the process serves can be recovered from the disk: its artifact and its
\* credentials are never removed, whatever syncs fail, however often the process or the
\* machine dies, and whichever saves, restores and cleanups run in between.
THEOREM ServedCanBeRecovered == Spec => []ServedIsComplete
  BY Invariance, PTL DEF IInv

\* A save replaces the text its author read, except for an editor that writes in the one
\* window between the last check and the rename.
THEOREM SaveReplacesWhatWasRead == Spec => ReplacesWhatWasRead
  <1>1. IInv /\ [Next]_vars => [PublishRename => file = build.expected \/ raced]_vars
    BY DEF IInv, Unraced, PublishRename
  <1> QED
    BY <1>1, Invariance, PTL DEF Spec, ReplacesWhatWasRead

-----------------------------------------------------------------------------
(* Durability, when no directory sync fails and the process dies only      *)
(* with the machine. With either of the two the properties are false: that *)
(* is what run config_cleanup shows.                                       *)

\* Steps that leave the manifests and the snapshot alone, and remove nothing.
LEMMA QuietKeeps ==
  ASSUME DInv, UNCHANGED <<manifest, manifestMay, active, acked>>,
         artifacts \subseteq artifacts', secrets \subseteq secrets',
         build'.at = "commitsync" <=> build.at = "commitsync",
         build'.op = "recover" <=> build.op = "recover",
         up' = "down" \/ up # "down"
  PROVE  DInv'
  <1>1. AlwaysRecoverable'
    BY DEF DInv, AlwaysRecoverable, Recoverable, HasSecret
  <1>2. AckedIsDurable' /\ Synced' /\ Opened' /\ Progress'
    BY DEF DInv, AckedIsDurable, Synced, Opened, Progress
  <1> QED
    BY <1>1, <1>2 DEF DInv

\* Requests, the watcher and editors.
LEMMA RequestsKeepDurable ==
  ASSUME IInv, DInv,
         \/ \E t \in Texts :
              (\E expected \in Texts : Save(t, expected)) \/ StageSecrets(t) \/ Edit(t)
         \/ SaveConflict \/ RestoreSave \/ RestoreConflict
         \/ ReloadSkips \/ ReloadStarts \/ Reload \/ Poll \/ RefreshDue
  PROVE  DInv'
  <1>1. CASE \E t, expected \in Texts : Save(t, expected)
    <2>1. PICK t, expected \in Texts : Save(t, expected)
      BY <1>1
    <2>2. build'.at = "prepare" /\ build'.op = "save" /\ build.at = "idle" /\ build.op = "none"
      BY <2>1, BeginFacts DEF Save, Free, IInv, Locked
    <2> QED
      BY <2>1, <2>2, QuietKeeps DEF Save, disk
  <1>2. CASE RestoreSave
    <2>1. build'.at = "prepare" /\ build'.op = "restore" /\ build.at = "idle" /\ build.op = "none"
      BY <1>2, BeginFacts DEF RestoreSave, Free, IInv, Locked
    <2> QED
      BY <1>2, <2>1, QuietKeeps DEF RestoreSave, disk
  <1>3. CASE ReloadStarts \/ Reload
    <2>1. Load("reload") /\ build.at = "idle" /\ build.op = "none"
      BY <1>3 DEF ReloadStarts, Reload, Free, IInv, Locked
    <2>2. build' = build \/ (build'.at = "prepare" /\ build'.op = "reload")
      BY <2>1, LoadFacts DEF IInv
    <2> QED
      BY <1>3, <2>1, <2>2, QuietKeeps DEF ReloadStarts, Reload, disk
  <1>4. CASE \E t \in Texts : StageSecrets(t) \/ Edit(t)
    BY <1>4, QuietKeeps DEF StageSecrets, Edit
  <1>5. CASE SaveConflict \/ RestoreConflict \/ ReloadSkips \/ Poll \/ RefreshDue
    BY <1>5, QuietKeeps DEF SaveConflict, RestoreConflict, ReloadSkips, Poll, RefreshDue, disk
  <1> QED
    BY <1>1, <1>2, <1>3, <1>4, <1>5

\* The discarded credentials are not those of the snapshot, which is the only manifest.
LEMMA DiscardKeepsDurable ==
  ASSUME IInv, DInv, DiscardUnreferenced
  PROVE  DInv'
  <1>1. build.at = "idle" /\ active # Nothing /\ manifestMay = {active}
    BY DEF DiscardUnreferenced, Free, IInv, TypeOK, DInv, Synced
  <1>2. Recoverable(active)'
    BY <1>1 DEF DiscardUnreferenced, IInv, ServedIsComplete, Recoverable, HasSecret
  <1>3. AlwaysRecoverable'
    BY <1>1, <1>2 DEF DiscardUnreferenced, AlwaysRecoverable, Recoverable, HasSecret
  <1>4. AckedIsDurable' /\ Synced' /\ Opened' /\ Progress'
    BY DEF DInv, DiscardUnreferenced, AckedIsDurable, Synced, Opened, Progress
  <1> QED
    BY <1>3, <1>4 DEF DInv

\* The steps of an activation up to the manifest, and all its error paths.
LEMMA PreparationKeepsDurable ==
  ASSUME IInv, DInv, ~SyncFails,
         \/ PrepareRestart \/ PrepareFails \/ (\E v \in Versions : Prepare(v))
         \/ PublishCheck \/ PublishFails \/ PublishRename \/ PublishSync
         \/ Reread \/ RereadFails \/ SyncError
  PROVE  DInv'
  <1>1. CASE PrepareRestart \/ PrepareFails \/ PublishFails \/ RereadFails
    <2>1. build' = Unlocked /\ build.at \in {"prepare", "check", "reread"}
      BY <1>1 DEF PrepareRestart, PrepareFails, PublishFails, RereadFails, Fail
    <2>2. build'.at = "idle" /\ build'.op = "none" /\ build.op # "recover"
      BY <2>1 DEF Unlocked, IInv, Locked
    <2>3. up' = "down" \/ up # "down"
      <3>1. up # "down"
        BY <2>1, Fields DEF IInv, Locked
      <3> QED
        BY <3>1
    <2> QED
      BY <1>1, <2>1, <2>2, <2>3, QuietKeeps
         DEF PrepareRestart, PrepareFails, PublishFails, RereadFails, disk
  <1>2. CASE \E v \in Versions : Prepare(v)
    <2>1. /\ build'.at \in {"check", "reread"} /\ build'.op = build.op
          /\ build.at = "prepare"
      BY <1>2 DEF Prepare, IInv, TypeOK, Builds
    <2> QED
      BY <1>2, <2>1, QuietKeeps DEF Prepare
  <1>3. CASE PublishCheck \/ PublishRename \/ Reread
    <2>1. /\ build'.at \in {"rename", "sync", "commit"} /\ build'.op = build.op
          /\ build.at # "commitsync"
      BY <1>3, GoToFacts DEF PublishCheck, PublishRename, Reread, IInv
    <2> QED
      BY <1>3, <2>1, QuietKeeps DEF PublishCheck, PublishRename, Reread, disk
  <1>4. CASE PublishSync
    <2>1. build'.at = "reread" /\ build'.op = build.op /\ build.at = "sync"
      BY <1>4 DEF PublishSync, IInv, TypeOK, Builds
    <2> QED
      BY <1>4, <2>1, QuietKeeps DEF PublishSync
  <1>5. CASE SyncError
    BY <1>5 DEF SyncError
  <1> QED
    BY <1>1, <1>2, <1>3, <1>4, <1>5

\* The rename of the manifest: from here to the sync a crash may leave the old one or
\* the new one. Both are complete, and the new one is newer than what was acknowledged.
LEMMA CommitRenameKeepsDurable ==
  ASSUME IInv, DInv, CommitRename
  PROVE  DInv'
  <1>0. /\ manifestMay = {manifest} /\ manifestMay' = {manifest, manifest'}
        /\ UNCHANGED <<artifacts, secrets, active, acked, up>> /\ build'.at = "commitsync"
    BY GoToFacts DEF IInv, DInv, Synced, CommitRename
  <1>1. Recoverable(manifest)'
    BY <1>0, Candidate DEF IInv, Prepared, CommitRename, Recoverable, HasSecret
  <1>2. AlwaysRecoverable'
    BY <1>0, <1>1 DEF DInv, AlwaysRecoverable, Recoverable, HasSecret
  <1>3. AckedIsDurable'
    <2> SUFFICES ASSUME acked # Nothing
                 PROVE  manifest' # Nothing /\ manifest'.gen > acked.gen
      BY <1>0 DEF DInv, AckedIsDurable
    <2>1. acked \in Snaps /\ acked.gen \in Nat
      BY SnapFields DEF IInv, TypeOK
    <2>2. /\ manifest \in Snaps /\ manifest # Nothing
          /\ manifest.gen \in Nat /\ manifest.gen >= acked.gen
      BY <1>0, <2>1, Fields, SnapFields DEF DInv, AckedIsDurable, IInv
    <2>3. CASE build.op = "recover"
      BY <2>1, <2>2, <2>3, Candidate
    <2>4. CASE build.op # "recover"
      <3>1. active # Nothing
        BY <2>2, <2>4, Fields DEF DInv, Opened, IInv, Locked, CommitRename
      <3>2. active = manifest
        BY <3>1 DEF DInv, Synced, CommitRename
      <3> QED
        BY <2>1, <2>2, <2>4, <3>1, <3>2, Candidate
    <2> QED
      BY <2>3, <2>4
  <1>4. Synced' /\ Opened' /\ Progress'
    BY <1>0 DEF DInv, Synced, Opened, Progress
  <1> QED
    BY <1>2, <1>3, <1>4 DEF DInv

\* The sync leaves one manifest, which is served and acknowledged; cleanup keeps its
\* artifact.
LEMMA ActivateKeepsDurable ==
  ASSUME IInv, DInv, Activate
  PROVE  DInv'
  <1>0. /\ manifestMay' = {manifest} /\ manifest' = manifest /\ active' = manifest
        /\ acked' = manifest /\ secrets' = secrets
        /\ manifest # Nothing /\ manifest \in manifestMay
    BY DEF Activate, IInv, Committed, TypeOK
  <1>1. manifest.art \in artifacts'
    BY DEF Activate, IInv, Committed, Prepared, Saving
  <1>2. AlwaysRecoverable'
    BY <1>0, <1>1 DEF DInv, AlwaysRecoverable, Recoverable, HasSecret
  <1>3. AckedIsDurable' /\ Synced' /\ Opened' /\ Progress'
    BY <1>0 DEF AckedIsDurable, Synced, Opened, Progress
  <1> QED
    BY <1>2, <1>3 DEF DInv

\* A start recovers the one manifest there is, or knows that there is none.
LEMMA OpeningKeepsDurable ==
  ASSUME IInv, DInv, ~SyncFails, Opening
  PROVE  DInv'
  <1>1. CASE Recover
    <2>0. /\ manifestMay = {manifest} /\ manifest # Nothing
          /\ UNCHANGED <<manifest, manifestMay, acked, secrets, build>>
          /\ active' = manifest /\ artifacts' = {manifest.art}
      BY <1>1, Fields DEF IInv, Locked, DInv, Synced, Recover, Recoverable
    <2>1. AlwaysRecoverable'
      BY <2>0 DEF DInv, AlwaysRecoverable, Recoverable, HasSecret
    <2>2. AckedIsDurable' /\ Synced' /\ Opened' /\ Progress'
      BY <2>0 DEF DInv, AckedIsDurable, Synced, Opened, Progress
    <2> QED
      BY <2>1, <2>2 DEF DInv
  <1>2. CASE \E v \in Versions : RecoverBuiltins(v)
    <2>0. /\ UNCHANGED <<manifest, manifestMay, active, acked, secrets>>
          /\ artifacts \subseteq artifacts'
          /\ build'.at = "commit" /\ build'.op = "recover" /\ build.at # "commitsync"
      BY <1>2, Fields DEF RecoverBuiltins, IInv, Locked
    <2>1. AlwaysRecoverable'
      BY <2>0 DEF DInv, AlwaysRecoverable, Recoverable, HasSecret
    <2>2. AckedIsDurable' /\ Synced' /\ Opened' /\ Progress'
      BY <2>0 DEF DInv, AckedIsDurable, Synced, Opened, Progress
    <2> QED
      BY <2>1, <2>2 DEF DInv
  <1>3. CASE RecoverFails
    <2>0. manifest = Nothing /\ UNCHANGED <<disk, active, acked, build>>
      BY <1>3 DEF RecoverFails, IInv, TypeOK, DInv, AlwaysRecoverable
    <2>1. AlwaysRecoverable'
      BY <2>0 DEF disk, DInv, AlwaysRecoverable, Recoverable, HasSecret
    <2>2. AckedIsDurable' /\ Synced' /\ Opened' /\ Progress'
      BY <2>0 DEF disk, DInv, AckedIsDurable, Synced, Opened, Progress
    <2> QED
      BY <2>1, <2>2 DEF DInv
  <1>4. CASE RecoverSyncError
    BY <1>4 DEF RecoverSyncError
  <1>5. CASE OpenReload
    <2>1. build' = build \/ (build'.at = "prepare" /\ build'.op = "open")
      BY <1>5, LoadFacts DEF OpenReload, IInv
    <2>2. build.at = "idle" /\ build.op = "none" /\ up # "down"
      BY <1>5 DEF OpenReload, IInv, Locked
    <2> QED
      BY <1>5, <2>1, <2>2, QuietKeeps DEF OpenReload, disk
  <1> QED
    BY <1>1, <1>2, <1>3, <1>4, <1>5 DEF Opening

\* A power loss chooses among the manifests, all of which are complete and recent.
LEMMA PowerLossKeepsDurable ==
  ASSUME IInv, DInv, PowerLoss
  PROVE  DInv'
  <1>0. /\ manifest' \in manifestMay /\ manifestMay' = {manifest'}
        /\ UNCHANGED <<artifacts, secrets, acked>> /\ active' = Nothing /\ up' = "down"
    BY DEF PowerLoss, Dies
  <1>1. AlwaysRecoverable'
    BY <1>0 DEF DInv, AlwaysRecoverable, Recoverable, HasSecret
  <1>2. AckedIsDurable' /\ Synced' /\ Opened' /\ Progress'
    BY <1>0 DEF DInv, AckedIsDurable, Synced, Opened, Progress
  <1> QED
    BY <1>1, <1>2 DEF DInv

\* Without failed syncs and kills, every step keeps what durability rests on.
LEMMA NextDInv ==
  ASSUME ~SyncFails, ~Kills, IInv, DInv, [Next]_vars
  PROVE  DInv'
  <1>1. CASE Kill
    BY <1>1 DEF Kill
  <1>2. CASE Activation
    BY <1>2, PreparationKeepsDurable, CommitRenameKeepsDurable, ActivateKeepsDurable DEF Activation
  <1>3. CASE UNCHANGED vars
    BY <1>3, QuietKeeps DEF vars, disk
  <1>4. CASE Opening
    BY <1>4, OpeningKeepsDurable
  <1> QED
    BY <1>1, <1>2, <1>3, <1>4, RequestsKeepDurable, DiscardKeepsDurable,
       PowerLossKeepsDurable DEF Next

\* The durability invariant holds throughout.
LEMMA Durability ==
  ASSUME ~SyncFails, ~Kills
  PROVE  Spec => []DInv
  <1>1. Init => DInv
    BY DEF Init, DInv, AlwaysRecoverable, AckedIsDurable, Synced, Opened, Progress, Unlocked
  <1>2. IInv /\ DInv /\ [Next]_vars => DInv'
    BY NextDInv
  <1> QED
    BY <1>1, <1>2, Invariance, PTL DEF Spec

\* A power loss at any moment leaves a manifest from which a start recovers, or none,
\* as long as no directory sync fails and the process dies only with the machine.
THEOREM RecoversAfterPowerLoss ==
  ASSUME ~SyncFails, ~Kills
  PROVE  Spec => []AlwaysRecoverable
  BY Durability, PTL DEF DInv

\* Under the same conditions what a caller was told is active is never lost, and never
\* replaced by something older.
THEOREM AcknowledgedIsDurable ==
  ASSUME ~SyncFails, ~Kills
  PROVE  Spec => []AckedIsDurable
  BY Durability, PTL DEF DInv
==============================================================================
