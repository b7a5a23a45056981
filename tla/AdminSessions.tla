---------------------------- MODULE AdminSessions ----------------------------
(***************************************************************************)
(* The sessions of the administration server (admin/auth.go): a login      *)
(* verifies a password outside the lock, while another request or a        *)
(* restore changes the credential in the configuration store               *)
(* (control/password.go), and the changer and the watcher (app/managed.go) *)
(* install what the store serves.                                          *)
(***************************************************************************)
EXTENDS Naturals, Sequences, FiniteSets, Functions

CONSTANTS
  Logins, Changes,   \* concurrent requests
  Hashes,            \* password hashes; a restore may bring an old one back
  MaxAttempts,       \* login attempts in a window
  MaxSessions,
  SessionTTL,        \* in units of the window
  MaxVersions,       \* bound: credentials published by the store
  MaxTime,           \* bound: clock
  MaxIds,            \* bound: sessions opened
  None               \* no hash

VARIABLES
  stored,    \* hashes the store has published, the active one last
  hash,      \* the installed one
  sessions,  \* id -> expiry
  window, attempts,
  clock,
  login,     \* per login: step, the hash it read, its time, the password sent
  change,    \* per change: step, the version it published
  opened,    \* history: the hash each session was verified against
  installed  \* history: the last version a completed change reported

vars == <<stored, hash, sessions, window, attempts, clock, login, change, opened, installed>>

NoLogin == [pc |-> "idle", hash |-> None, now |-> 0]
NoChange == [pc |-> "idle", version |-> 0]

Active == stored[Len(stored)]

Init ==
  /\ \E h \in Hashes : stored = <<h>> /\ hash = h
  /\ sessions = <<>> /\ window = 0 /\ attempts = 0 /\ clock = 0
  /\ login = [l \in Logins |-> NoLogin] /\ change = [c \in Changes |-> NoChange]
  /\ opened = <<>> /\ installed = 1

Tick ==
  /\ clock < MaxTime
  /\ clock' = clock + 1
  /\ UNCHANGED <<stored, hash, sessions, window, attempts, login, change, opened, installed>>

SetLogin(l, r) == login' = [login EXCEPT ![l] = r]

\* The hash is read first, and without one the server is not available.
ReadHash(l) ==
  /\ login[l].pc = "idle" /\ hash # None
  /\ SetLogin(l, [pc |-> "read", hash |-> hash, now |-> 0])
  /\ UNCHANGED <<stored, hash, sessions, window, attempts, clock, change, opened, installed>>

\* The rate limit counts every attempt, also the right ones.
Admit(l) ==
  LET fresh == clock - window >= 1
      count == IF fresh THEN 0 ELSE attempts
  IN /\ login[l].pc = "read"
     /\ window' = IF fresh THEN clock ELSE window
     /\ IF count >= MaxAttempts
        THEN attempts' = count /\ SetLogin(l, NoLogin)
        ELSE attempts' = count + 1 /\ SetLogin(l, [login[l] EXCEPT !.pc = "admitted", !.now = clock])
     /\ UNCHANGED <<stored, hash, sessions, clock, change, opened, installed>>

\* Outside the lock: the work factor makes this the long step.
Verify(l, password) ==
  /\ login[l].pc = "admitted"
  /\ SetLogin(l, IF password = login[l].hash THEN [login[l] EXCEPT !.pc = "verified"] ELSE NoLogin)
  /\ UNCHANGED <<stored, hash, sessions, window, attempts, clock, change, opened, installed>>

\* Mistake: the verified credential may have been replaced meanwhile.
UnchangedSinceBlind(l) == TRUE

UnchangedSince(l) == hash = login[l].hash

Alive(now) == {s \in DOMAIN sessions : now < sessions[s]}

Open(l) ==
  LET kept == Restrict(sessions, Alive(login[l].now))
      id == Len(opened) + 1
  IN /\ login[l].pc = "verified"
     /\ SetLogin(l, NoLogin)
     /\ \/ ~UnchangedSince(l) /\ UNCHANGED <<sessions, opened>>
        \/ UnchangedSince(l) /\ Cardinality(DOMAIN kept) >= MaxSessions /\ sessions' = kept /\ UNCHANGED opened
        \/ /\ UnchangedSince(l) /\ Cardinality(DOMAIN kept) < MaxSessions /\ id <= MaxIds
           /\ sessions' = [s \in DOMAIN kept \cup {id} |-> IF s = id THEN login[l].now + SessionTTL ELSE kept[s]]
           /\ opened' = Append(opened, login[l].hash)
     /\ UNCHANGED <<stored, hash, window, attempts, clock, change, installed>>

\* A request with a session that has expired removes it.
Session(s) ==
  /\ s \in DOMAIN sessions /\ clock >= sessions[s]
  /\ sessions' = Restrict(sessions, DOMAIN sessions \ {s})
  /\ UNCHANGED <<stored, hash, window, attempts, clock, login, change, opened, installed>>

Logout(s) ==
  /\ s \in DOMAIN sessions
  /\ sessions' = Restrict(sessions, DOMAIN sessions \ {s})
  /\ UNCHANGED <<stored, hash, window, attempts, clock, login, change, opened, installed>>

SetPasswordHash(h) ==
  /\ hash' = h
  /\ sessions' = IF h = hash THEN sessions ELSE <<>>

\* A password request publishes a new credential, or reports a conflict, and refreshes either way.
Publish(c, h) ==
  /\ change[c].pc = "idle"
  /\ \/ /\ Len(stored) < MaxVersions
        /\ stored' = Append(stored, h)
        /\ change' = [change EXCEPT ![c] = [pc |-> "saved", version |-> Len(stored) + 1]]
     \/ /\ change' = [change EXCEPT ![c] = [pc |-> "saved", version |-> 0]]
        /\ UNCHANGED stored
  /\ UNCHANGED <<hash, sessions, window, attempts, clock, login, opened, installed>>

\* Read and install under one lock; a credential that cannot be read is none.
Refresh(c) ==
  /\ change[c].pc = "saved"
  /\ \E h \in {Active, None} : SetPasswordHash(h)
  /\ change' = [change EXCEPT ![c] = NoChange]
  /\ installed' = IF change[c].version > installed THEN change[c].version ELSE installed
  /\ UNCHANGED <<stored, window, attempts, clock, login, opened>>

\* A refresh of the watcher, once a second, and of the restore job.
Watch ==
  /\ \E h \in {Active, None} : SetPasswordHash(h)
  /\ UNCHANGED <<stored, window, attempts, clock, login, change, opened, installed>>

\* The restore job and the reload of an edited file publish too.
Restore(h) ==
  /\ Len(stored) < MaxVersions
  /\ stored' = Append(stored, h)
  /\ UNCHANGED <<hash, sessions, window, attempts, clock, login, change, opened, installed>>

Next ==
  \/ Tick \/ Watch
  \/ \E l \in Logins : ReadHash(l) \/ Admit(l) \/ Open(l) \/ \E h \in Hashes : Verify(l, h)
  \/ \E s \in DOMAIN sessions : Session(s) \/ Logout(s)
  \/ \E c \in Changes : Refresh(c) \/ \E h \in Hashes : Publish(c, h)
  \/ \E h \in Hashes : Restore(h)

Spec == Init /\ [][Next]_vars

\* A session is worth what its password is: every session that is accepted
\* was opened with the password that is installed, and no password older
\* than the last completed change is installed again, however logins,
\* changes and refreshes overlap. (A password that a later version brings
\* back is not older.)
SessionsCurrent ==
  /\ \A s \in DOMAIN sessions : opened[s] = hash
  /\ hash # None => \E v \in installed..Len(stored) : stored[v] = hash
  /\ Cardinality(DOMAIN sessions) <= MaxSessions
==============================================================================
