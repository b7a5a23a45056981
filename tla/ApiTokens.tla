------------------------------ MODULE ApiTokens ------------------------------
(***************************************************************************)
(* The store of the API tokens (admin/token.go, token_http.go): a token is *)
(* created or revoked by replacing the token file, and in memory only      *)
(* after that. The rename is the commit point and the sync of the          *)
(* directory after it is best effort.                                      *)
(***************************************************************************)
EXTENDS Naturals, FiniteSets

CONSTANTS
  Tokens,      \* secrets, each created at most once
  MaxTokens,   \* tokens in the store
  MaxCrashes,  \* bound: process crashes and power losses
  Missing      \* no token file

VARIABLES
  items,     \* what Authenticate accepts
  file,      \* the token file
  survivors, \* the contents a power loss may leave
  op,        \* the mutation under way
  crashes,
  created,   \* history: tokens ever created
  granted,   \* history: creations reported, and not asked to be revoked since
  revoked,   \* history: revocations reported
  unsynced,  \* history: tokens of mutations since the directory was last synced, for a sync that failed
  excused    \* history: tokens of such mutations that a power loss followed

vars == <<items, file, survivors, op, crashes, created, granted, revoked, unsynced, excused>>
history == <<created, granted, revoked, unsynced, excused>>

Idle == [pc |-> "idle"]

Init ==
  /\ items = {} /\ file = Missing /\ survivors = {Missing} /\ op = [pc |-> "closed"] /\ crashes = 0
  /\ created = {} /\ granted = {} /\ revoked = {} /\ unsynced = {} /\ excused = {}

\* What may survive once the directory is synced.
Synced(content) == {content}

\* A start reads the file, or creates an empty one.
OpenTokenStore ==
  /\ op.pc = "closed"
  /\ op' = Idle
  /\ items' = IF file = Missing THEN {} ELSE file
  /\ file' = items'
  /\ \/ survivors' = IF file = Missing THEN Synced({}) ELSE survivors
     \/ file = Missing /\ survivors' = survivors \cup {{}}
  /\ UNCHANGED <<crashes, history>>

Create(t) ==
  /\ op = Idle /\ t \notin created /\ Cardinality(items) < MaxTokens
  /\ op' = [pc |-> "create", token |-> t, content |-> items \cup {t}]
  /\ created' = created \cup {t}
  /\ UNCHANGED <<items, file, survivors, crashes, granted, revoked, unsynced, excused>>

Revoke(t) ==
  /\ op = Idle /\ t \in items
  /\ op' = [pc |-> "revoke", token |-> t, content |-> items \ {t}]
  /\ granted' = granted \ {t}
  /\ UNCHANGED <<items, file, survivors, crashes, created, revoked, unsynced, excused>>

\* The temporary file could not be written, synced or renamed: nothing has changed.
Fail ==
  /\ op.pc \in {"create", "revoke"}
  /\ op' = Idle
  /\ UNCHANGED <<items, file, survivors, crashes, history>>

\* The temporary file is complete and synced when it takes the name.
Rename ==
  /\ op.pc \in {"create", "revoke"}
  /\ file' = op.content /\ survivors' = survivors \cup {op.content}
  /\ op' = [pc |-> "renamed", token |-> op.token, creates |-> op.pc = "create"]
  /\ UNCHANGED <<items, crashes, history>>

\* The directory sync, whose failure is not reported, and then the answer.
Publish(synced) ==
  /\ op.pc = "renamed"
  /\ survivors' = IF synced THEN Synced(file) ELSE survivors
  /\ unsynced' = IF synced THEN {} ELSE unsynced \cup {op.token}
  /\ items' = file
  /\ granted' = IF op.creates THEN granted \cup {op.token} ELSE granted
  /\ revoked' = IF op.creates THEN revoked ELSE revoked \cup {op.token}
  /\ op' = Idle
  /\ UNCHANGED <<file, crashes, created, excused>>

Crash ==
  /\ op.pc # "closed" /\ crashes < MaxCrashes
  /\ op' = [pc |-> "closed"] /\ items' = {} /\ crashes' = crashes + 1
  /\ UNCHANGED <<file, survivors, history>>

PowerLoss ==
  /\ crashes < MaxCrashes
  /\ op' = [pc |-> "closed"] /\ items' = {} /\ crashes' = crashes + 1
  /\ file' \in survivors
  /\ survivors' = {file'}
  /\ excused' = excused \cup unsynced
  /\ unsynced' = {}
  /\ UNCHANGED <<created, granted, revoked>>

Next ==
  \/ OpenTokenStore \/ Fail \/ Rename \/ Crash \/ PowerLoss
  \/ \E t \in Tokens : Create(t) \/ Revoke(t)
  \/ \E synced \in BOOLEAN : Publish(synced)

Spec == Init /\ [][Next]_vars

\* Whoever was told that a token is created or revoked can rely on it: the
\* token authenticates, or never does again, also after crashes and power
\* losses between any two steps of later mutations. The one exception is a
\* power loss after a directory sync that failed, which persist ignores.
TokensCurrent ==
  op.pc # "closed" => /\ (granted \ excused) \subseteq items
                      /\ (revoked \cap items) \subseteq excused
==============================================================================
