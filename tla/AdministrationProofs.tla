------------------------ MODULE AdministrationProofs ------------------------
(***************************************************************************)
(* Proofs about Administration. AdminSessions and ApiTokens, for any       *)
(* requests, hashes and tokens: what authenticates was granted and has not *)
(* been withdrawn. HistoryPages, for pages of any size. Explanations, for  *)
(* any rules, slots and limits of a maintenance step. ClientNames, for any *)
(* configurations, advertisements and retention: what is shown was heard.  *)
(***************************************************************************)
EXTENDS Administration, FiniteSetTheorems, SequenceTheorems, TLAPS

(***************************************************************************)
(* Numbers and finite orders.                                              *)
(***************************************************************************)

\* A nonempty set of numbers has a least one.
LEMMA Least ==
  ASSUME NEW T \in SUBSET Nat, T # {}
  PROVE  Min(T) \in T /\ \A y \in T : Min(T) <= y
<1> DEFINE R == {ss \in Nat \X Nat : ss[1] < ss[2]}
<1>1. IsWellFoundedOn(R, Nat)
  BY NatLessThanWellFounded DEF OpToRel
<1>2. PICK x \in T : \A y \in T : ~ (<<y, x>> \in R)
  <2> HIDE DEF R
  <2> QED
    BY <1>1, WFMin
<1>3. ASSUME NEW y \in T PROVE x <= y
  <2>1. x \in Nat /\ y \in Nat /\ <<y, x>> \in Nat \X Nat
    OBVIOUS
  <2>2. ~(y < x)
    BY <1>2, <2>1
  <2> QED
    BY <2>1, <2>2
<1> QED
  BY <1>3 DEF Min

\* A nonempty bounded set of numbers has a greatest one.
LEMMA Greatest ==
  ASSUME NEW n \in Nat, NEW T \in SUBSET (0 .. n), T # {}
  PROVE  Max(T) \in T /\ \A y \in T : Max(T) >= y
<1> DEFINE U == {n - x : x \in T}
<1>1. U \in SUBSET Nat /\ U # {}
  <2>1. \A x \in T : x \in 0 .. n /\ n - x \in Nat
    OBVIOUS
  <2> QED
    BY <2>1
<1>2. Min(U) \in U /\ \A y \in U : Min(U) <= y
  BY <1>1, Least
<1>3. PICK x \in T : Min(U) = n - x
  BY <1>2
<1>4. \A y \in T : x >= y
  <2>1. ASSUME NEW y \in T PROVE x >= y
    <3>1. n - y \in U
      OBVIOUS
    <3>2. n - x <= n - y
      BY <3>1, <1>2, <1>3
    <3>3. x \in 0 .. n /\ y \in 0 .. n
      OBVIOUS
    <3> QED
      BY <3>2, <3>3
  <2> QED
    BY <2>1
<1> QED
  BY <1>4 DEF Max

\* A finite order without cycles has a first element.
LEMMA FirstOf ==
  ASSUME NEW S, IsFiniteSet(S), S # {}, NEW R,
         \A x \in S : <<x, x>> \notin R,
         \A x, y, z \in S : <<x, y>> \in R /\ <<y, z>> \in R => <<x, z>> \in R
  PROVE  \E x \in S : \A y \in S : <<y, x>> \notin R
<1> DEFINE Preceding(x) == {y \in S : <<y, x>> \in R}
           T == {Cardinality(Preceding(x)) : x \in S}
<1>1. \A x \in S : IsFiniteSet(Preceding(x)) /\ Cardinality(Preceding(x)) \in Nat
  BY FS_Subset, FS_CardinalityType
<1>2. PICK x \in S : \A y \in S : Cardinality(Preceding(x)) <= Cardinality(Preceding(y))
  <2> HIDE DEF Preceding
  <2>1. T \in SUBSET Nat /\ T # {}
    BY <1>1
  <2>2. PICK m \in T : \A n \in T : m <= n
    <3> DEFINE L == {ss \in Nat \X Nat : ss[1] < ss[2]}
    <3>1. IsWellFoundedOn(L, Nat)
      BY NatLessThanWellFounded DEF OpToRel
    <3>2. PICK m \in T : \A n \in T : ~ (<<n, m>> \in L)
      <4> HIDE DEF L, T
      <4> QED
        BY <2>1, <3>1, WFMin
    <3>3. ASSUME NEW n \in T PROVE m <= n
      <4>1. m \in Nat /\ n \in Nat /\ <<n, m>> \in Nat \X Nat
        BY <2>1
      <4>2. ~(n < m)
        BY <3>2, <4>1
      <4> QED
        BY <4>1, <4>2
    <3> QED
      BY <3>3
  <2>3. PICK x \in S : m = Cardinality(Preceding(x))
    BY <2>2
  <2>4. \A y \in S : Cardinality(Preceding(y)) \in T
    OBVIOUS
  <2> HIDE DEF T
  <2> QED
    BY <2>2, <2>3, <2>4
<1>3. SUFFICES ASSUME NEW y \in S, <<y, x>> \in R PROVE FALSE
  OBVIOUS
<1>4. Preceding(y) \subseteq Preceding(x) \ {y}
  <2>1. ASSUME NEW z \in Preceding(y) PROVE z \in Preceding(x) \ {y}
    <3>1. z \in S /\ <<z, y>> \in R
      BY <2>1
    <3>2. <<z, x>> \in R /\ z # y
      BY <1>3, <3>1
    <3> QED
      BY <3>1, <3>2
  <2> QED
    BY <2>1
<1>5. y \in Preceding(x)
  BY <1>3
<1> HIDE DEF Preceding
<1>6. IsFiniteSet(Preceding(x) \ {y}) /\ Cardinality(Preceding(x) \ {y}) = Cardinality(Preceding(x)) - 1
  BY <1>1, <1>5, FS_RemoveElement
<1>7. Cardinality(Preceding(y)) <= Cardinality(Preceding(x) \ {y})
  BY <1>4, <1>6, FS_Subset
<1> QED
  BY <1>1, <1>2, <1>6, <1>7

(***************************************************************************)
(* The sessions of the administrator.                                      *)
(***************************************************************************)

\* Cardinality is the same in AdminSessions.
LEMMA AsCardinality == \A S : AS!Cardinality(S) = Cardinality(S)
  BY DEF AS!Cardinality, Cardinality

\* What is known about a login.
Attempts == [pc : {"idle", "read", "admitted", "verified"}, hash : Hashes \cup {NoHash}, now : Nat]

\* The steps of a login, and of a change, that have read a hash or published a version.
AsType ==
  /\ stored \in Seq(Hashes) /\ stored # <<>> /\ opened \in Seq(Hashes \cup {NoHash})
  /\ installed \in 1 .. Len(stored)
  /\ change \in [Changes -> [pc : {"idle", "saved"}, version : Nat]]
  /\ \A c \in Changes : change[c].version <= Len(stored)
  /\ time \in Nat /\ login \in [Logins -> Attempts]

\* A session was opened with the installed hash; the hash is one of those published since the last completed change.
AsBound ==
  /\ DOMAIN sessions \subseteq 1 .. Len(opened)
  /\ \A s \in DOMAIN sessions : opened[s] = hash
  /\ hash \in Hashes \cup {NoHash}
  /\ hash # NoHash => \E v \in installed .. Len(stored) : stored[v] = hash
  /\ IsFiniteSet(DOMAIN sessions) /\ Cardinality(DOMAIN sessions) <= MaxSessions

\* The inductive invariant of AdminSessions.
AsInv == AsType /\ AsBound

\* At first there is no session.
LEMMA AsInit == AS!Init => AsInv
<1> SUFFICES ASSUME AS!Init PROVE AsInv
  OBVIOUS
<1>1. PICK h \in Hashes : stored = <<h>> /\ hash = h
  BY DEF AS!Init
<1>2. /\ stored \in Seq(Hashes) /\ stored # <<>> /\ Len(stored) = 1 /\ stored[1] = hash
      /\ hash \in Hashes /\ installed = 1 /\ opened \in Seq(Hashes \cup {NoHash})
  BY <1>1 DEF AS!Init
<1>3. DOMAIN sessions = {}
  BY DEF AS!Init
<1>4. IsFiniteSet(DOMAIN sessions) /\ Cardinality(DOMAIN sessions) <= MaxSessions
  BY <1>3, FS_EmptySet, SessionsAssumption
<1>5. change \in [Changes -> [pc : {"idle", "saved"}, version : Nat]] /\ \A c \in Changes : change[c].version <= Len(stored)
  BY <1>2 DEF AS!Init, AS!NoChange
<1>6. time \in Nat /\ login \in [Logins -> Attempts]
  BY DEF AS!Init, AS!NoLogin, Attempts
<1> QED
  BY <1>2, <1>3, <1>4, <1>5, <1>6 DEF AsInv, AsType, AsBound

\* Only the clock, the window, or one login moves.
LEMMA AsMove ==
  ASSUME AsInv, NEW l \in Logins, NEW r \in Attempts, AS!SetLogin(l, r),
         UNCHANGED <<time, stored, hash, sessions, change, opened, installed>>
  PROVE  AsInv'
<1>1. login' \in [Logins -> Attempts]
  BY DEF AsInv, AsType, AS!SetLogin
<1> QED
  BY <1>1 DEF AsInv, AsType, AsBound

\* Time passes, or the window of attempts changes.
LEMMA AsStill ==
  ASSUME AsInv, time' \in Nat, UNCHANGED <<stored, hash, sessions, login, change, opened, installed>>
  PROVE  AsInv'
  BY DEF AsInv, AsType, AsBound

\* A login reads the hash, is admitted, and verifies the password.
LEMMA AsLogin ==
  ASSUME AsInv, NEW l \in Logins, AS!ReadHash(l) \/ AS!Admit(l) \/ \E h \in Hashes : AS!Verify(l, h)
  PROVE  AsInv'
<1>0. login[l] \in Attempts /\ hash \in Hashes \cup {NoHash} /\ AS!NoLogin \in Attempts /\ time \in Nat
  BY DEF AsInv, AsType, AsBound, AS!NoLogin, Attempts
<1>1. PICK r \in Attempts : AS!SetLogin(l, r)
  <2>1. CASE AS!ReadHash(l)
    <3> DEFINE r == [pc |-> "read", hash |-> hash, now |-> 0]
    <3>1. r \in Attempts /\ AS!SetLogin(l, r)
      BY <2>1, <1>0 DEF AS!ReadHash, Attempts
    <3> QED
      BY <3>1
  <2>2. CASE AS!Admit(l)
    <3> DEFINE r == [login[l] EXCEPT !.pc = "admitted", !.now = time]
    <3>1. r \in Attempts
      BY <1>0 DEF Attempts
    <3>2. AS!SetLogin(l, AS!NoLogin) \/ AS!SetLogin(l, r)
      BY <2>2 DEF AS!Admit
    <3> QED
      BY <3>1, <3>2, <1>0
  <2>3. CASE \E h \in Hashes : AS!Verify(l, h)
    <3> DEFINE r == [login[l] EXCEPT !.pc = "verified"]
    <3>1. r \in Attempts
      BY <1>0 DEF Attempts
    <3>2. AS!SetLogin(l, AS!NoLogin) \/ AS!SetLogin(l, r)
      BY <2>3 DEF AS!Verify
    <3> QED
      BY <3>1, <3>2, <1>0
  <2> QED
    BY <2>1, <2>2, <2>3
<1>2. UNCHANGED <<time, stored, hash, sessions, change, opened, installed>>
  BY DEF AS!ReadHash, AS!Admit, AS!Verify
<1> QED
  BY <1>1, <1>2, AsMove

\* Sessions that are left when some are removed.
LEMMA AsFewer ==
  ASSUME AsInv, NEW S \in SUBSET DOMAIN sessions
  PROVE  /\ DOMAIN AS!Restrict(sessions, S) = S
         /\ IsFiniteSet(S) /\ Cardinality(S) \in Nat /\ Cardinality(S) <= MaxSessions
<1>1. IsFiniteSet(DOMAIN sessions) /\ Cardinality(DOMAIN sessions) <= MaxSessions
  BY DEF AsInv, AsBound
<1>2. IsFiniteSet(S) /\ Cardinality(S) <= Cardinality(DOMAIN sessions)
  BY <1>1, FS_Subset
<1>3. Cardinality(S) \in Nat /\ Cardinality(DOMAIN sessions) \in Nat
  BY <1>1, <1>2, FS_CardinalityType
<1>4. DOMAIN AS!Restrict(sessions, S) = S
  BY DEF AS!Restrict
<1> QED
  BY <1>1, <1>2, <1>3, <1>4, SessionsAssumption

\* A session is opened if the hash is still the one that was verified.
LEMMA AsOpen == ASSUME AsInv, NEW l \in Logins, AS!Open(l) PROVE AsInv'
<1> DEFINE S == AS!Alive(login[l].now)
           kept == AS!Restrict(sessions, S)
           id == Len(opened) + 1
<1>1. S \subseteq DOMAIN sessions
  BY DEF AS!Alive
<1>2. DOMAIN kept = S /\ IsFiniteSet(S) /\ Cardinality(S) \in Nat /\ Cardinality(S) <= MaxSessions
  BY <1>1, AsFewer
<1>3. login' \in [Logins -> Attempts]
  BY DEF AS!Open, AsInv, AsType, AS!SetLogin, AS!NoLogin, Attempts
<1>4. UNCHANGED <<time, stored, hash, change, installed>>
  BY DEF AS!Open
<1>5. CASE UNCHANGED <<sessions, opened>>
  BY <1>3, <1>4, <1>5 DEF AsInv, AsType, AsBound
<1>6. CASE sessions' = kept /\ UNCHANGED opened
  <2>1. DOMAIN sessions' = S
    BY <1>2, <1>6
  <2> HIDE DEF S
  <2> QED
    BY <1>1, <1>2, <1>3, <1>4, <1>6, <2>1 DEF AsInv, AsType, AsBound
<1>7. CASE /\ AS!UnchangedSince(l) /\ Cardinality(DOMAIN kept) < MaxSessions
           /\ sessions' = [s \in DOMAIN kept \cup {id} |-> IF s = id THEN login[l].now + SessionTTL ELSE kept[s]]
           /\ opened' = Append(opened, login[l].hash)
  <2>1. opened \in Seq(Hashes \cup {NoHash}) /\ Len(opened) \in Nat /\ DOMAIN sessions \subseteq 1 .. Len(opened)
    BY DEF AsInv, AsType, AsBound
  <2>2. hash = login[l].hash /\ hash \in Hashes \cup {NoHash}
    BY <1>7 DEF AS!UnchangedSince, AsInv, AsBound
  <2>3. /\ opened' \in Seq(Hashes \cup {NoHash}) /\ Len(opened') = Len(opened) + 1 /\ opened'[id] = hash
        /\ \A s \in 1 .. Len(opened) : opened'[s] = opened[s]
    BY <1>7, <2>1, <2>2
  <2>4. DOMAIN sessions' = S \cup {id}
    BY <1>2, <1>7
  <2>5. id \notin S
    BY <1>1, <2>1
  <2> HIDE DEF S
  <2>6. IsFiniteSet(S \cup {id}) /\ Cardinality(S \cup {id}) = Cardinality(S) + 1
    BY <1>2, <2>5, FS_AddElement
  <2>7. Cardinality(DOMAIN sessions') <= MaxSessions
    BY <1>2, <1>7, <2>4, <2>6, SessionsAssumption
  <2>8. DOMAIN sessions' \subseteq 1 .. Len(opened')
    BY <1>1, <2>1, <2>3, <2>4
  <2>9. \A s \in DOMAIN sessions' : opened'[s] = hash
    <3> SUFFICES ASSUME NEW s \in DOMAIN sessions' PROVE opened'[s] = hash
      OBVIOUS
    <3>1. CASE s = id
      BY <3>1, <2>3
    <3>2. CASE s \in S
      BY <3>2, <1>1, <2>1, <2>3 DEF AsInv, AsBound
    <3> QED
      BY <3>1, <3>2, <2>4
  <2>10. AsBound'
    BY <1>4, <2>2, <2>4, <2>6, <2>7, <2>8, <2>9 DEF AsBound, AsInv
  <2> QED
    BY <1>3, <1>4, <2>3, <2>10 DEF AsInv, AsType
<1> QED
  BY <1>5, <1>6, <1>7, AsCardinality DEF AS!Open

\* Sessions expire or log out.
LEMMA AsEnd == ASSUME AsInv, NEW s \in DOMAIN sessions, AS!Session(s) \/ AS!Logout(s) PROVE AsInv'
<1> DEFINE S == DOMAIN sessions \ {s}
<1>1. sessions' = AS!Restrict(sessions, S) /\ UNCHANGED <<time, stored, hash, login, change, opened, installed>>
  BY DEF AS!Session, AS!Logout
<1>2. DOMAIN sessions' = S /\ IsFiniteSet(S) /\ Cardinality(S) \in Nat /\ Cardinality(S) <= MaxSessions
  BY <1>1, AsFewer
<1> QED
  BY <1>1, <1>2 DEF AsInv, AsType, AsBound

\* A version is published.
LEMMA AsStored ==
  ASSUME AsInv, NEW h \in Hashes, stored' = Append(stored, h), UNCHANGED <<time, hash, sessions, login, opened, installed>>,
         change' \in [Changes -> [pc : {"idle", "saved"}, version : Nat]],
         \A c \in Changes : change'[c].version <= Len(stored) + 1
  PROVE  AsInv'
<1>1. stored \in Seq(Hashes) /\ Len(stored) \in Nat /\ installed \in 1 .. Len(stored)
  BY DEF AsInv, AsType
<1>2. /\ stored' \in Seq(Hashes) /\ stored' # <<>> /\ Len(stored') = Len(stored) + 1
      /\ \A v \in 1 .. Len(stored) : stored'[v] = stored[v]
  BY <1>1
<1>3. AsType'
  BY <1>1, <1>2 DEF AsInv, AsType
<1>4. hash # NoHash => \E v \in installed .. Len(stored') : stored'[v] = hash
  <2> SUFFICES ASSUME hash # NoHash PROVE \E v \in installed .. Len(stored') : stored'[v] = hash
    OBVIOUS
  <2>1. PICK v \in installed .. Len(stored) : stored[v] = hash
    BY DEF AsInv, AsBound
  <2> QED
    BY <2>1, <1>1, <1>2
<1>5. AsBound'
  BY <1>4 DEF AsInv, AsBound
<1> QED
  BY <1>3, <1>5 DEF AsInv

\* A password request publishes a version.
LEMMA AsPublish == ASSUME AsInv, NEW c \in Changes, NEW h \in Hashes, AS!Publish(c, h) PROVE AsInv'
<1>0. /\ change \in [Changes -> [pc : {"idle", "saved"}, version : Nat]] /\ Len(stored) \in Nat
      /\ \A d \in Changes : change[d].version <= Len(stored)
  BY DEF AsInv, AsType
<1>1. CASE stored' = Append(stored, h) /\ change' = [change EXCEPT ![c] = [pc |-> "saved", version |-> Len(stored) + 1]]
  <2>1. /\ change' \in [Changes -> [pc : {"idle", "saved"}, version : Nat]]
        /\ \A d \in Changes : change'[d].version <= Len(stored) + 1
    BY <1>0, <1>1
  <2> QED
    BY <1>1, <2>1, AsStored DEF AS!Publish
<1>2. CASE UNCHANGED stored /\ change' = [change EXCEPT ![c] = [pc |-> "saved", version |-> 0]]
  <2>1. /\ change' \in [Changes -> [pc : {"idle", "saved"}, version : Nat]]
        /\ \A d \in Changes : change'[d].version <= Len(stored)
    BY <1>0, <1>2
  <2> QED
    BY <1>2, <2>1 DEF AS!Publish, AsInv, AsType, AsBound
<1> QED
  BY <1>1, <1>2 DEF AS!Publish

\* A hash is installed, and ends the sessions of another.
LEMMA AsInstall ==
  ASSUME AsInv, NEW h \in {AS!Active, NoHash}, AS!SetPasswordHash(h), UNCHANGED <<time, stored, login, opened>>,
         installed' \in 1 .. Len(stored),
         change' \in [Changes -> [pc : {"idle", "saved"}, version : Nat]],
         \A c \in Changes : change'[c].version <= Len(stored)
  PROVE  AsInv'
<1>1. stored \in Seq(Hashes) /\ Len(stored) \in Nat \ {0} /\ AS!Active \in Hashes
  BY DEF AsInv, AsType, AS!Active
<1>2. hash' = h /\ sessions' = IF h = hash THEN sessions ELSE <<>>
  BY DEF AS!SetPasswordHash
<1>3. hash' # NoHash => \E v \in installed' .. Len(stored) : stored[v] = hash'
  BY <1>1, <1>2 DEF AS!Active
<1>4. hash' \in Hashes \cup {NoHash}
  BY <1>1, <1>2
<1>5. AsBound'
  <2>1. CASE h = hash
    BY <2>1, <1>2, <1>3, <1>4 DEF AsInv, AsBound
  <2>2. CASE h # hash
    <3>1. DOMAIN sessions' = {}
      BY <2>2, <1>2
    <3>2. IsFiniteSet(DOMAIN sessions') /\ Cardinality(DOMAIN sessions') <= MaxSessions
      BY <3>1, FS_EmptySet, SessionsAssumption
    <3> QED
      BY <1>3, <1>4, <3>1, <3>2 DEF AsBound
  <2> QED
    BY <2>1, <2>2
<1>6. AsType'
  BY DEF AsInv, AsType
<1> QED
  BY <1>5, <1>6 DEF AsInv

\* A password request installs what is active.
LEMMA AsRefresh == ASSUME AsInv, NEW c \in Changes, AS!Refresh(c) PROVE AsInv'
<1>0. /\ change \in [Changes -> [pc : {"idle", "saved"}, version : Nat]] /\ Len(stored) \in Nat
      /\ (\A d \in Changes : change[d].version <= Len(stored)) /\ installed \in 1 .. Len(stored)
  BY DEF AsInv, AsType
<1>1. PICK h \in {AS!Active, NoHash} : AS!SetPasswordHash(h)
  BY DEF AS!Refresh
<1>2. /\ change' \in [Changes -> [pc : {"idle", "saved"}, version : Nat]]
      /\ \A d \in Changes : change'[d].version <= Len(stored)
  BY <1>0 DEF AS!Refresh, AS!NoChange
<1>3. installed' \in 1 .. Len(stored)
  BY <1>0 DEF AS!Refresh
<1> QED
  BY <1>1, <1>2, <1>3, AsInstall DEF AS!Refresh

\* The watcher installs what is active.
LEMMA AsWatch == ASSUME AsInv, AS!Watch PROVE AsInv'
<1>1. PICK h \in {AS!Active, NoHash} : AS!SetPasswordHash(h)
  BY DEF AS!Watch
<1>2. /\ change' \in [Changes -> [pc : {"idle", "saved"}, version : Nat]] /\ installed' \in 1 .. Len(stored)
      /\ \A d \in Changes : change'[d].version <= Len(stored)
  BY DEF AS!Watch, AsInv, AsType
<1> QED
  BY <1>1, <1>2, AsInstall DEF AS!Watch

\* A restore publishes a version.
LEMMA AsRestore == ASSUME AsInv, NEW h \in Hashes, AS!Restore(h) PROVE AsInv'
<1>1. /\ change' \in [Changes -> [pc : {"idle", "saved"}, version : Nat]] /\ Len(stored) \in Nat
      /\ \A d \in Changes : change'[d].version <= Len(stored) /\ change'[d].version \in Nat
  BY DEF AS!Restore, AsInv, AsType
<1>2. \A d \in Changes : change'[d].version <= Len(stored) + 1
  BY <1>1
<1> QED
  BY <1>1, <1>2, AsStored DEF AS!Restore

\* Every step keeps the invariant.
LEMMA AsNext == AsInv /\ [AS!Next]_AS!vars => AsInv'
<1> SUFFICES ASSUME AsInv, [AS!Next]_AS!vars PROVE AsInv'
  OBVIOUS
<1>1. CASE AS!Tick
  BY <1>1, AsStill DEF AS!Tick, AsInv, AsType
<1>2. CASE AS!Watch
  BY <1>2, AsWatch
<1>3. CASE \E l \in Logins : AS!ReadHash(l) \/ AS!Admit(l) \/ AS!Open(l) \/ \E h \in Hashes : AS!Verify(l, h)
  BY <1>3, AsLogin, AsOpen
<1>4. CASE \E s \in DOMAIN sessions : AS!Session(s) \/ AS!Logout(s)
  BY <1>4, AsEnd
<1>5. CASE \E c \in Changes : AS!Refresh(c) \/ \E h \in Hashes : AS!Publish(c, h)
  BY <1>5, AsRefresh, AsPublish
<1>6. CASE \E h \in Hashes : AS!Restore(h)
  BY <1>6, AsRestore
<1>7. CASE UNCHANGED AS!vars
  BY <1>7, AsStill DEF AS!vars, AsInv, AsType
<1> QED
  BY <1>1, <1>2, <1>3, <1>4, <1>5, <1>6, <1>7 DEF AS!Next

\* A session was opened with a hash that is still the installed one, and there
\* are no more than the limit (AdminSessions: admin/auth.go).
THEOREM SessionsHold == AS!Spec => []AS!SessionsCurrent
<1>1. AsInv => AS!SessionsCurrent
  BY AsCardinality DEF AsInv, AsBound, AS!SessionsCurrent
<1> QED
  BY AsInit, AsNext, <1>1, PTL DEF AS!Spec

(***************************************************************************)
(* The tokens of programs.                                                 *)
(***************************************************************************)

\* The tokens that a start reads from a file.
Content(c) == IF c = NoFile THEN {} ELSE c

\* What the file may hold.
Contents == {NoFile} \cup (SUBSET created)

\* The types: what is granted, revoked or in the file was created.
AtType ==
  /\ items \in SUBSET created /\ tokenFile \in Contents /\ survivors \in SUBSET Contents
  /\ created \in SUBSET Tokens /\ granted \in SUBSET created /\ revoked \in SUBSET created

\* What the step of the mutation says of the file and of the history.
OpSound ==
  \/ op = [pc |-> "closed"]
  \/ op = AT!Idle /\ items = tokenFile
  \/ /\ op.pc = "create" /\ items = tokenFile /\ op.token \in created \ (granted \cup revoked) /\ op.content = items \cup {op.token}
  \/ /\ op.pc = "revoke" /\ items = tokenFile /\ op.token \in created \ granted /\ op.content = items \ {op.token}
  \/ /\ op.pc = "renamed" /\ tokenFile \in SUBSET created /\ op.token \in created
     /\ op.creates = TRUE /\ tokenFile = items \cup {op.token} /\ op.token \notin granted \cup revoked
  \/ /\ op.pc = "renamed" /\ tokenFile \in SUBSET created /\ op.token \in created
     /\ op.creates = FALSE /\ tokenFile = items \ {op.token} /\ op.token \notin granted /\ revoked \cap items \subseteq excused

\* What was reported is in the file, and in all that may survive but for what is not synced.
Reported ==
  /\ granted \ excused \subseteq Content(tokenFile)
  /\ revoked \cap Content(tokenFile) \subseteq excused
  /\ tokenFile \in survivors
  /\ \A c \in survivors : /\ granted \ (excused \cup unsynced) \subseteq Content(c)
                          /\ revoked \cap Content(c) \subseteq excused \cup unsynced

\* The inductive invariant of ApiTokens.
AtInv == AtType /\ OpSound /\ Reported

\* At first there is no token.
LEMMA AtInit == AT!Init => AtInv
  BY DEF AT!Init, AtInv, AtType, OpSound, Reported, Content, Contents

\* A file with tokens is not a missing one.
LEMMA AtContent == ASSUME AtType, NEW c \in SUBSET created PROVE Content(c) = c
  BY TokensAssumption DEF Content, AtType

\* A start reads the file.
LEMMA AtOpenStore == ASSUME AtInv, AT!OpenTokenStore PROVE AtInv'
<1> USE DEF AtInv
<1>1. items' = Content(tokenFile) /\ tokenFile' = Content(tokenFile) /\ op' = AT!Idle /\ UNCHANGED <<created, granted, revoked, unsynced, excused>>
  BY DEF AT!OpenTokenStore, Content, AT!history
<1>2. Content(tokenFile) \in SUBSET created /\ Content(Content(tokenFile)) = Content(tokenFile)
  BY TokensAssumption DEF AtType, Contents, Content
<1>3. survivors' \in {survivors, {{}}, survivors \cup {{}}} /\ (survivors' # survivors => tokenFile = NoFile)
      /\ (tokenFile = NoFile => {} \in survivors')
  BY DEF AT!OpenTokenStore, AT!Synced
<1>4. Content({}) = {}
  BY DEF Content
<1>5. AtType'
  BY <1>1, <1>2, <1>3 DEF AtType, Contents
<1>6. OpSound'
  BY <1>1 DEF OpSound
<1>7. Reported'
  <2>1. tokenFile' \in survivors'
    BY <1>1, <1>3 DEF Reported, Content
  <2>2. ASSUME NEW c \in survivors'
        PROVE  /\ granted \ (excused \cup unsynced) \subseteq Content(c)
               /\ revoked \cap Content(c) \subseteq excused \cup unsynced
    <3>1. CASE c \in survivors
      BY <3>1 DEF Reported
    <3>2. CASE c = {} /\ tokenFile = NoFile
      BY <3>2, <1>4 DEF Reported, Content
    <3> QED
      BY <3>1, <3>2, <1>3
  <2>3. granted \ excused \subseteq Content(tokenFile') /\ revoked \cap Content(tokenFile') \subseteq excused
    BY <1>1, <1>2 DEF Reported
  <2> QED
    BY <1>1, <2>1, <2>2, <2>3 DEF Reported, Content
<1> QED
  BY <1>5, <1>6, <1>7

\* A token is being created.
LEMMA AtCreate == ASSUME AtInv, NEW t \in Tokens, AT!Create(t) PROVE AtInv'
<1> USE DEF AtInv
<1>1. /\ op = AT!Idle /\ t \notin created /\ created' = created \cup {t}
      /\ op' = [pc |-> "create", token |-> t, content |-> items \cup {t}]
      /\ UNCHANGED <<items, tokenFile, survivors, losses, granted, revoked, unsynced, excused>>
  BY DEF AT!Create
<1>2. items = tokenFile
  BY <1>1 DEF OpSound, AT!Idle
<1>3. AtType' /\ Reported'
  BY <1>1 DEF AtType, Reported, Content, Contents
<1>4. OpSound'
  BY <1>1, <1>2 DEF OpSound, AtType
<1> QED
  BY <1>3, <1>4

\* A token is being revoked.
LEMMA AtRevoke == ASSUME AtInv, NEW t \in Tokens, AT!Revoke(t) PROVE AtInv'
<1> USE DEF AtInv
<1>1. /\ op = AT!Idle /\ t \in items /\ granted' = granted \ {t}
      /\ op' = [pc |-> "revoke", token |-> t, content |-> items \ {t}]
      /\ UNCHANGED <<items, tokenFile, survivors, losses, created, revoked, unsynced, excused>>
  BY DEF AT!Revoke
<1>2. items = tokenFile
  BY <1>1 DEF OpSound, AT!Idle
<1>3. AtType' /\ Reported'
  BY <1>1 DEF AtType, Contents, Reported, Content
<1>4. t \in created
  BY <1>1 DEF AtType
<1>5. OpSound'
  BY <1>1, <1>2, <1>4 DEF OpSound, AtType
<1> QED
  BY <1>3, <1>5

\* A mutation fails before the rename.
LEMMA AtFail == ASSUME AtInv, AT!Fail PROVE AtInv'
<1> USE DEF AtInv
<1>1. items = tokenFile /\ op' = AT!Idle /\ UNCHANGED <<items, tokenFile, survivors, created, granted, revoked, unsynced, excused>>
  BY DEF AT!Fail, OpSound, AT!Idle, AT!history
<1> QED
  BY <1>1 DEF AtType, Contents, Reported, Content, OpSound

\* The new file takes the place of the old one.
LEMMA AtRename == ASSUME AtInv, AT!Rename PROVE AtInv'
<1> USE DEF AtInv
<1>1. /\ tokenFile' = op.content /\ survivors' = survivors \cup {op.content}
      /\ op' = [pc |-> "renamed", token |-> op.token, creates |-> op.pc = "create"]
      /\ UNCHANGED <<items, created, granted, revoked, unsynced, excused>>
  BY DEF AT!Rename, AT!history
<1>2. items = tokenFile /\ op.token \in created /\ Content(tokenFile) = items /\ items \in SUBSET created
  BY AtContent DEF AT!Rename, OpSound, AT!Idle, AtType
<1>3. CASE op.pc = "create"
  <2>1. op.token \notin granted \cup revoked /\ op.content = items \cup {op.token} /\ op.content \in SUBSET created
    BY <1>2, <1>3 DEF OpSound, AT!Idle, AtType
  <2>2. Content(op.content) = items \cup {op.token}
    BY <2>1, AtContent
  <2>3. AtType'
    BY <1>1, <2>1 DEF AtType, Contents
  <2>4. Reported'
    BY <1>1, <1>2, <2>1, <2>2 DEF Reported, Content
  <2>5. OpSound'
    BY <1>1, <1>2, <1>3, <2>1 DEF OpSound
  <2> QED
    BY <2>3, <2>4, <2>5
<1>4. CASE op.pc = "revoke"
  <2>1. op.token \notin granted /\ op.content = items \ {op.token} /\ op.content \in SUBSET created
    BY <1>2, <1>4 DEF OpSound, AT!Idle, AtType
  <2>2. Content(op.content) = items \ {op.token}
    BY <2>1, AtContent
  <2>3. AtType'
    BY <1>1, <2>1 DEF AtType, Contents
  <2>4. Reported'
    BY <1>1, <1>2, <2>1, <2>2 DEF Reported, Content
  <2>5. OpSound'
    BY <1>1, <1>2, <1>4, <2>1 DEF OpSound, Reported
  <2> QED
    BY <2>3, <2>4, <2>5
<1> QED
  BY <1>3, <1>4 DEF AT!Rename

\* The mutation is reported, synced or not.
LEMMA AtPublish == ASSUME AtInv, NEW synced \in BOOLEAN, AT!Publish(synced) PROVE AtInv'
<1> USE DEF AtInv
<1>1. /\ op.pc = "renamed" /\ items' = tokenFile /\ op' = AT!Idle /\ UNCHANGED <<tokenFile, created, excused>>
      /\ survivors' = IF synced THEN {tokenFile} ELSE survivors
      /\ unsynced' = IF synced THEN {} ELSE unsynced \cup {op.token}
      /\ granted' = IF op.creates THEN granted \cup {op.token} ELSE granted
      /\ revoked' = IF op.creates THEN revoked ELSE revoked \cup {op.token}
  BY DEF AT!Publish, AT!Synced
<1>2. tokenFile \in SUBSET created /\ op.token \in created /\ Content(tokenFile) = tokenFile
  BY <1>1, AtContent DEF OpSound, AT!Idle
<1>3. AtType'
  BY <1>1, <1>2 DEF AtType, Contents
<1>4. OpSound'
  BY <1>1 DEF OpSound
<1>5. /\ granted' \ excused \subseteq Content(tokenFile) /\ revoked' \cap Content(tokenFile) \subseteq excused
      /\ granted' \subseteq granted \cup {op.token} /\ revoked' \subseteq revoked \cup {op.token}
  <2>1. CASE op.creates = TRUE /\ tokenFile = items \cup {op.token} /\ op.token \notin granted \cup revoked
    BY <2>1, <1>1, <1>2 DEF Reported
  <2>2. CASE op.creates = FALSE /\ tokenFile = items \ {op.token} /\ op.token \notin granted
    BY <2>2, <1>1, <1>2 DEF Reported
  <2>3. op # AT!Idle /\ op # [pc |-> "closed"]
    BY <1>1 DEF AT!Idle
  <2> QED
    BY <1>1, <2>1, <2>2, <2>3 DEF OpSound
<1>6. Reported'
  <2>1. CASE synced
    <3>1. survivors' = {tokenFile} /\ unsynced' = {} /\ tokenFile' = tokenFile /\ excused' = excused
      BY <1>1, <2>1
    <3> QED
      BY <3>1, <1>5 DEF Reported, Content
  <2>2. CASE ~synced
    <3>1. survivors' = survivors /\ unsynced' = unsynced \cup {op.token} /\ tokenFile' = tokenFile /\ excused' = excused
      BY <1>1, <2>2
    <3>2. ASSUME NEW c \in survivors
          PROVE  /\ granted' \ (excused \cup unsynced') \subseteq Content(c)
                 /\ revoked' \cap Content(c) \subseteq excused \cup unsynced'
      BY <3>1, <1>5 DEF Reported
    <3>3. \A c : Content(c)' = Content(c)
      BY DEF Content
    <3> QED
      BY <3>1, <3>2, <3>3, <1>5 DEF Reported
  <2> QED
    BY <2>1, <2>2
<1> QED
  BY <1>3, <1>4, <1>6

\* The process ends, or the power.
LEMMA AtLoss == ASSUME AtInv, AT!Crash \/ AT!PowerLoss PROVE AtInv'
<1> USE DEF AtInv
<1>1. items' = {} /\ op' = [pc |-> "closed"] /\ UNCHANGED <<created, granted, revoked>>
  BY DEF AT!Crash, AT!PowerLoss, AT!history
<1>2. OpSound'
  BY <1>1 DEF OpSound
<1>3. CASE AT!Crash
  BY <1>1, <1>2, <1>3 DEF AT!Crash, AT!history, AtType, Contents, Reported, Content
<1>4. CASE AT!PowerLoss
  <2>1. /\ tokenFile' \in survivors /\ survivors' = {tokenFile'} /\ excused' = excused \cup unsynced /\ unsynced' = {}
    BY <1>4 DEF AT!PowerLoss
  <2>2. AtType'
    BY <1>1, <2>1 DEF AtType, Contents
  <2>3. Reported'
    BY <1>1, <2>1 DEF Reported, Content
  <2> QED
    BY <1>2, <2>2, <2>3
<1> QED
  BY <1>3, <1>4

\* Every step keeps the invariant.
LEMMA AtNext == AtInv /\ [AT!Next]_AT!vars => AtInv'
<1> SUFFICES ASSUME AtInv, [AT!Next]_AT!vars PROVE AtInv'
  OBVIOUS
<1>1. CASE UNCHANGED AT!vars
  BY <1>1 DEF AT!vars, AtInv, AtType, Contents, OpSound, Reported, Content
<1> QED
  BY <1>1, AtOpenStore, AtFail, AtRename, AtLoss, AtCreate, AtRevoke, AtPublish DEF AT!Next

\* The invariant says what TokensCurrent asks.
LEMMA AtCurrent == AtInv => AT!TokensCurrent
<1> SUFFICES ASSUME AtInv, op.pc # "closed" PROVE (granted \ excused) \subseteq items /\ (revoked \cap items) \subseteq excused
  BY DEF AT!TokensCurrent
<1> USE DEF AtInv
<1>1. CASE items = tokenFile
  BY <1>1, AtContent DEF AtType, Reported
<1>2. CASE op.pc = "renamed"
  BY <1>2, AtContent DEF OpSound, AT!Idle, Reported
<1> QED
  BY <1>1, <1>2 DEF OpSound, AT!Idle

\* A token that was reported as created authenticates, and one that was
\* reported as revoked does not, but for what a power loss undid (ApiTokens:
\* admin/token.go).
THEOREM TokensHold == AT!Spec => []AT!TokensCurrent
  BY AtInit, AtNext, AtCurrent, PTL DEF AT!Spec

\* What authenticates was granted, and has not been withdrawn (admin/auth.go,
\* admin/token.go).
THEOREM CredentialsHold == AS!Spec /\ AT!Spec => []CredentialsCurrent
<1>1. AS!SessionsCurrent /\ AT!TokensCurrent => CredentialsCurrent
  BY DEF CredentialsCurrent
<1> QED
  BY <1>1, SessionsHold, TokensHold, PTL

(***************************************************************************)
(* The pages of the history.                                               *)
(***************************************************************************)

\* Cardinality is the same in HistoryPages.
LEMMA HpCardinality == \A S : PG!Cardinality(S) = Cardinality(S)
  BY DEF PG!Cardinality, Cardinality

\* Max is the same in HistoryPages.
LEMMA HpMax == \A S : PG!Max(S) = Max(S)
  BY DEF PG!Max, Max

PageRow == [id : Nat, ts : Nat]

\* The rows that are there: each has its own id.
Identified ==
  /\ table \in SUBSET PageRow /\ IsFiniteSet(table) /\ ids \in Nat /\ hiddenBelow \in Nat
  /\ \A r \in table : r.id <= ids
  /\ \A r, s \in table : r.id = s.id => r = s

\* Between two pages: below the ceiling there is nothing new, and what is still to come lies behind the last row.
Underway ==
  \/ place = PG!NoCursor /\ shownRows = {} /\ firstRows = {}
  \/ place = PG!Done /\ \A r \in firstRows : r \in shownRows \/ r.ts < hiddenBelow
  \/ /\ place = [kind |-> "at", ceiling |-> place.ceiling, last |-> place.last]
     /\ place.ceiling \in Nat /\ place.ceiling <= ids
     /\ \A r \in table : r.id <= place.ceiling /\ r.ts >= hiddenBelow => r \in firstRows
     /\ \A r \in firstRows : \/ r \in shownRows \/ r.ts < hiddenBelow
                             \/ r \in table /\ r.id <= place.ceiling /\ PG!Older(r, place.last)

\* The inductive invariant of HistoryPages.
HpInv == Identified /\ firstRows \in SUBSET PageRow /\ shownRows \subseteq firstRows /\ Underway

\* At first there is no row, and no page.
LEMMA HpInit == PG!Init => HpInv
  BY FS_EmptySet DEF PG!Init, HpInv, Identified, Underway

\* A row is inserted above the ceiling.
LEMMA HpInsert == ASSUME HpInv, NEW ts \in 0 .. MaxCutoff, PG!Insert(ts) PROVE HpInv'
<1> DEFINE n == [id |-> ids + 1, ts |-> ts]
<1>1. /\ ids' = ids + 1 /\ table' = table \cup {n} /\ UNCHANGED <<hiddenBelow, place, shownRows, firstRows>>
  BY DEF PG!Insert
<1>2. ids \in Nat /\ table \in SUBSET PageRow /\ IsFiniteSet(table) /\ n \in PageRow /\ n.id = ids + 1
  BY DEF HpInv, Identified, PageRow
<1> HIDE DEF n
<1>3. Identified'
  <2>1. IsFiniteSet(table')
    BY <1>1, <1>2, FS_AddElement
  <2>2. \A r \in table : r.id \in Nat /\ r.id <= ids
    BY <1>2 DEF HpInv, Identified, PageRow
  <2>3. \A r \in table' : r.id <= ids'
    BY <1>1, <1>2, <2>2
  <2>4. \A r, s \in table' : r.id = s.id => r = s
    BY <1>1, <1>2, <2>2 DEF HpInv, Identified
  <2> QED
    BY <1>1, <1>2, <2>1, <2>3, <2>4 DEF HpInv, Identified
<1>4. Underway'
  <2>1. CASE place \in {PG!NoCursor, PG!Done}
    BY <1>1, <2>1 DEF HpInv, Underway, PG!NoCursor, PG!Done
  <2>2. CASE place \notin {PG!NoCursor, PG!Done}
    <3>1. place.ceiling \in Nat /\ place.ceiling <= ids
      BY <2>2 DEF HpInv, Underway
    <3>2. ~(n.id <= place.ceiling)
      BY <3>1, <1>2
    <3> QED
      BY <1>1, <1>2, <2>2, <3>1, <3>2 DEF HpInv, Underway
  <2> QED
    BY <2>1, <2>2
<1> QED
  BY <1>1, <1>3, <1>4 DEF HpInv

\* The cutoff moves, and rows go.
LEMMA HpExpire == ASSUME HpInv, PG!Expire PROVE HpInv'
<1>1. /\ hiddenBelow \in Nat /\ hiddenBelow' = hiddenBelow + 1 /\ UNCHANGED <<ids, place, shownRows, firstRows>>
      /\ table' \subseteq table /\ \A r \in table : r.ts >= hiddenBelow' => r \in table'
  BY DEF PG!Expire, HpInv, Identified
<1>2. \A r \in table \cup firstRows : r.ts \in Nat /\ (r.ts >= hiddenBelow' => r.ts >= hiddenBelow) /\ (r.ts < hiddenBelow => r.ts < hiddenBelow')
                                       /\ (r.ts >= hiddenBelow' \/ r.ts < hiddenBelow')
  BY <1>1 DEF HpInv, Identified, PageRow
<1>3. Identified'
  <2>1. IsFiniteSet(table')
    BY <1>1, FS_Subset DEF HpInv, Identified
  <2> QED
    BY <1>1, <2>1 DEF HpInv, Identified
<1>4. Underway'
  <2>1. CASE place = PG!NoCursor
    BY <1>1, <2>1 DEF HpInv, Underway, PG!NoCursor, PG!Done
  <2>2. CASE place = PG!Done
    BY <1>1, <1>2, <2>2 DEF HpInv, Underway, PG!NoCursor, PG!Done
  <2>3. CASE place \notin {PG!NoCursor, PG!Done}
    <3>1. \A r \in table' : r.id <= place.ceiling /\ r.ts >= hiddenBelow' => r \in firstRows
      BY <1>1, <1>2, <2>3 DEF HpInv, Underway
    <3>2. \A r \in firstRows : \/ r \in shownRows \/ r.ts < hiddenBelow'
                               \/ r \in table' /\ r.id <= place.ceiling /\ PG!Older(r, place.last)
      BY <1>1, <1>2, <2>3 DEF HpInv, Underway
    <3> QED
      BY <1>1, <2>3, <3>1, <3>2 DEF HpInv, Underway
  <2> QED
    BY <2>1, <2>2, <2>3
<1> QED
  BY <1>1, <1>3, <1>4 DEF HpInv

\* Newest first is an order of the rows.
LEMMA HpOrder ==
  ASSUME HpInv
  PROVE  /\ \A r \in table : ~PG!Older(r, r)
         /\ \A r, s, t \in table : PG!Older(r, s) /\ PG!Older(s, t) => PG!Older(r, t)
         /\ \A r, s \in table : r = s \/ PG!Older(r, s) \/ PG!Older(s, r)
<1>1. \A r \in table : r.id \in Nat /\ r.ts \in Nat
  BY DEF HpInv, Identified, PageRow
<1>2. \A r, s \in table : r.id = s.id => r = s
  BY DEF HpInv, Identified
<1> QED
  BY <1>1, <1>2 DEF PG!Older

\* A page of rows: the last of them is one of them, and what is left out lies behind it.
LEMMA HpPage ==
  ASSUME HpInv, NEW M \in SUBSET table, Cardinality(M) > PageLimit
  PROVE  LET page == PG!Newest(M, PageLimit)
             last == CHOOSE r \in page : \A s \in page : ~PG!Older(s, r)
         IN page \subseteq M /\ last \in page /\ \A r \in M \ page : PG!Older(r, last)
<1> DEFINE newer(r) == {s \in M : PG!Older(r, s)}
           page == PG!Newest(M, PageLimit)
           last == CHOOSE r \in page : \A s \in page : ~PG!Older(s, r)
<1>1. IsFiniteSet(M) /\ page \subseteq M /\ PageLimit \in Nat \ {0}
  BY FS_Subset, PagesAssumption DEF HpInv, Identified, PG!Newest
<1>2. M # {}
  BY <1>1, FS_EmptySet
<1>3. \A r \in M : IsFiniteSet(newer(r)) /\ Cardinality(newer(r)) \in Nat
  BY <1>1, FS_Subset, FS_CardinalityType
<1>4. page # {}
  <2> DEFINE R == {p \in M \X M : PG!Older(p[2], p[1])}
  <2>0. \A x, y \in M : <<x, y>> \in R <=> PG!Older(y, x)
    OBVIOUS
  <2> HIDE DEF R
  <2>1. PICK r \in M : \A s \in M : <<s, r>> \notin R
    BY <1>1, <1>2, <2>0, HpOrder, FirstOf
  <2>2. newer(r) = {}
    BY <2>0, <2>1
  <2>3. Cardinality(newer(r)) < PageLimit
    BY <1>1, <2>2, FS_EmptySet
  <2> QED
    BY <2>3, HpCardinality DEF PG!Newest
<1>5. last \in page
  <2> DEFINE R == {p \in M \X M : PG!Older(p[1], p[2])}
  <2>0. \A x, y \in M : <<x, y>> \in R <=> PG!Older(x, y)
    OBVIOUS
  <2>1. IsFiniteSet(page)
    BY <1>1, FS_Subset
  <2> HIDE DEF R, page
  <2>2. \E r \in page : \A s \in page : <<s, r>> \notin R
    BY <1>1, <1>4, <2>0, <2>1, HpOrder, FirstOf
  <2>3. \E r \in page : \A s \in page : ~PG!Older(s, r)
    BY <1>1, <2>0, <2>2
  <2> QED
    BY <2>3
<1>6. ASSUME NEW r \in M \ page, NEW l \in page PROVE PG!Older(r, l)
  <2>1. ~(Cardinality(newer(r)) < PageLimit) /\ Cardinality(newer(l)) < PageLimit
    BY <1>6, HpCardinality DEF PG!Newest
  <2>2. SUFFICES ASSUME PG!Older(l, r) PROVE FALSE
    BY <1>1, <1>6, HpOrder
  <2>3. newer(r) \subseteq newer(l)
    BY <1>1, <2>2, HpOrder
  <2>4. Cardinality(newer(r)) <= Cardinality(newer(l))
    <3> HIDE DEF newer
    <3> QED
      BY <1>1, <1>3, <2>3, FS_Subset
  <2> HIDE DEF newer
  <2> QED
    BY <1>1, <1>3, <2>1, <2>4
<1> HIDE DEF page, last
<1>7. page \subseteq M /\ last \in page /\ \A r \in M \ page : PG!Older(r, last)
  BY <1>1, <1>5, <1>6
<1> QED
  BY <1>7 DEF page, last

\* The whole page, when nothing is left for another.
LEMMA HpLast ==
  ASSUME HpInv, NEW M \in SUBSET table, ~(Cardinality(M) > PageLimit)
  PROVE  PG!Newest(M, PageLimit) = M
<1>1. IsFiniteSet(M) /\ Cardinality(M) \in Nat /\ PageLimit \in Nat
  BY FS_Subset, FS_CardinalityType, PagesAssumption DEF HpInv, Identified
<1>2. ASSUME NEW r \in M PROVE Cardinality({s \in M : PG!Older(r, s)}) < PageLimit
  <2>1. {s \in M : PG!Older(r, s)} \subseteq M \ {r}
    BY HpOrder
  <2>2. IsFiniteSet(M \ {r}) /\ Cardinality(M \ {r}) = Cardinality(M) - 1
    BY <1>1, <1>2, FS_RemoveElement
  <2> DEFINE N == {s \in M : PG!Older(r, s)}
  <2> HIDE DEF N
  <2>3. Cardinality(N) <= Cardinality(M \ {r}) /\ Cardinality(N) \in Nat
    BY <2>1, <2>2, FS_Subset, FS_CardinalityType DEF N
  <2>4. Cardinality(N) < PageLimit
    BY <1>1, <2>2, <2>3
  <2> QED
    BY <2>4 DEF N
<1> QED
  BY <1>2, HpCardinality DEF PG!Newest

\* The ceiling of the first page is above every row.
LEMMA HpCeiling ==
  ASSUME HpInv, place = PG!NoCursor
  PROVE  PG!Ceiling \in 0 .. ids /\ \A r \in table : r.id <= PG!Ceiling
<1> DEFINE T == {0} \cup {r.id : r \in table}
           R == {p \in T \X T : p[1] > p[2]}
<1>1. ids \in Nat /\ \A i \in T : i \in 0 .. ids
  BY DEF HpInv, Identified, PageRow
<1>2. IsFiniteSet(T)
  <2>1. IsFiniteSet(0 .. ids)
    BY <1>1, FS_Interval
  <2> QED
    BY <1>1, <2>1, FS_Subset
<1>3. T # {}
  OBVIOUS
<1>4. \A x, y \in T : <<x, y>> \in R <=> x > y
  OBVIOUS
<1>5. PICK x \in T : \A y \in T : <<y, x>> \notin R
  <2>1. /\ \A y \in T : <<y, y>> \notin R
        /\ \A y, z, w \in T : <<y, z>> \in R /\ <<z, w>> \in R => <<y, w>> \in R
    <3>1. \A y \in T : y \in Int
      BY <1>1
    <3> HIDE DEF R, T
    <3> QED
      BY <1>4, <3>1
  <2> HIDE DEF R, T
  <2> QED
    BY <1>2, <1>3, <2>1, FirstOf
<1>6. \A y \in T : x >= y
  <2>1. \A y \in T : y \in Int
    BY <1>1
  <2> HIDE DEF R, T
  <2>2. ASSUME NEW y \in T PROVE x >= y
    <3>1. ~(y > x)
      BY <1>4, <1>5
    <3> QED
      BY <2>1, <3>1
  <2> QED
    BY <2>2
<1>7. PG!Ceiling = Max(T)
  BY HpMax DEF PG!Ceiling
<1>8. \A r \in table : r.id \in T
  OBVIOUS
<1> HIDE DEF T
<1>9. Max(T) \in T /\ \A y \in T : Max(T) >= y
  BY <1>6 DEF Max
<1> QED
  BY <1>1, <1>7, <1>8, <1>9

\* The next page: M are the rows it is taken from, and C is its ceiling.
LEMMA HpPages == ASSUME HpInv, PG!Page PROVE HpInv'
<1> DEFINE M == PG!Matching
           C == PG!Ceiling
           page == PG!Newest(M, PageLimit)
           last == CHOOSE r \in page : \A s \in page : ~PG!Older(s, r)
<1>1. /\ place # PG!Done /\ shownRows' = shownRows \cup page /\ firstRows' = (IF place = PG!NoCursor THEN PG!Visible ELSE firstRows)
      /\ place' = (IF Cardinality(M) > PageLimit THEN [kind |-> "at", ceiling |-> C, last |-> last] ELSE PG!Done)
      /\ UNCHANGED <<table, ids, hiddenBelow>>
  BY HpCardinality DEF PG!Page
<1>2. M \in SUBSET table /\ page \subseteq M
  BY DEF PG!Matching, PG!Visible, PG!Newest
<1>3. \A r \in table : r \in PageRow /\ r.ts \in Nat /\ (r.ts < hiddenBelow <=> ~(r.ts >= hiddenBelow))
  BY DEF HpInv, Identified, PageRow
<1>4. /\ C \in Nat /\ C <= ids /\ shownRows \subseteq firstRows' /\ firstRows' \in SUBSET PageRow
      /\ \A r \in table : r.id <= C /\ r.ts >= hiddenBelow => r \in firstRows'
      /\ \A r \in firstRows' : r \in shownRows \/ r.ts < hiddenBelow \/ r \in M
      /\ M \subseteq firstRows' /\ ids \in Nat
  <2>1. CASE place = PG!NoCursor
    <3>1. shownRows = {} /\ ids \in Nat /\ firstRows' = PG!Visible
      BY <1>1, <2>1 DEF HpInv, Underway, Identified, PG!NoCursor, PG!Done
    <3>2. M = PG!Visible
      BY <2>1, HpCeiling DEF PG!Matching, PG!Visible
    <3>3. C \in 0 .. ids
      BY <2>1, HpCeiling
    <3> HIDE DEF C, M
    <3> QED
      BY <1>3, <3>1, <3>2, <3>3 DEF PG!Visible
  <2>2. CASE place # PG!NoCursor
    <3>1. /\ C = place.ceiling /\ C \in Nat /\ C <= ids /\ ids \in Nat /\ firstRows' = firstRows
          /\ \A r \in table : r.id <= C /\ r.ts >= hiddenBelow => r \in firstRows
          /\ \A r \in firstRows : \/ r \in shownRows \/ r.ts < hiddenBelow
                                  \/ r \in table /\ r.id <= C /\ PG!Older(r, place.last)
      BY <1>1, <2>2 DEF HpInv, Underway, Identified, PG!Ceiling
    <3>2. M = {r \in table : r.ts >= hiddenBelow /\ r.id <= C /\ PG!Older(r, place.last)}
      BY <2>2 DEF PG!Matching, PG!Visible
    <3>3. \A r \in firstRows : r \in shownRows \/ r.ts < hiddenBelow \/ r \in M
      BY <1>3, <3>1, <3>2
    <3>4. shownRows \subseteq firstRows /\ firstRows \in SUBSET PageRow
      BY DEF HpInv
    <3> HIDE DEF C, M
    <3> QED
      BY <3>1, <3>2, <3>3, <3>4
  <2> QED
    BY <2>1, <2>2
<1>5. Underway'
  <2>1. CASE Cardinality(M) > PageLimit
    <3>1. page \subseteq M /\ last \in page /\ \A r \in M \ page : PG!Older(r, last)
      BY <1>2, <2>1, HpPage
    <3>2. \A r \in M : r.id <= C
      BY DEF PG!Matching
    <3> HIDE DEF M, C, page, last
    <3>3. place' = [kind |-> "at", ceiling |-> C, last |-> last]
      BY <1>1, <2>1
    <3>4. place'.ceiling = C /\ place'.last = last
      BY <3>3
    <3>5. \A r \in firstRows' : \/ r \in shownRows' \/ r.ts < hiddenBelow'
                                \/ r \in table' /\ r.id <= C /\ PG!Older(r, last)
      BY <1>1, <1>2, <1>4, <3>1, <3>2
    <3> QED
      BY <1>1, <1>4, <3>3, <3>4, <3>5 DEF Underway
  <2>2. CASE ~(Cardinality(M) > PageLimit)
    <3>1. page = M
      BY <1>2, <2>2, HpLast
    <3> HIDE DEF M, C, page, last
    <3> QED
      BY <1>1, <1>4, <2>2, <3>1 DEF Underway
  <2> QED
    BY <2>1, <2>2
<1>6. shownRows' \subseteq firstRows'
  <2> HIDE DEF M, C, page, last
  <2> QED
    BY <1>1, <1>2, <1>4
<1> QED
  BY <1>1, <1>4, <1>5, <1>6 DEF HpInv, Identified

\* Every step keeps the invariant.
LEMMA HpNext == HpInv /\ [PG!Next]_PG!vars => HpInv'
<1> SUFFICES ASSUME HpInv, [PG!Next]_PG!vars PROVE HpInv'
  OBVIOUS
<1>1. CASE UNCHANGED PG!vars
  BY <1>1 DEF PG!vars, HpInv, Identified, Underway
<1> QED
  BY <1>1, HpInsert, HpExpire, HpPages DEF PG!Next

\* The invariant says what PagesExact asks.
LEMMA HpExact == HpInv => PG!PagesExact
  BY DEF HpInv, Underway, PG!PagesExact, PG!NoCursor, PG!Done

\* The pages show what was there for the first one and leave out only what
\* expired in between (HistoryPages: storage/query.go).
THEOREM PagesHold == PG!Spec => []PagesExact
<1>1. PG!PagesExact => PagesExact
  BY DEF PagesExact
<1> QED
  BY <1>1, HpInit, HpNext, HpExact, PTL DEF PG!Spec

(***************************************************************************)
(* The explanations of the events.                                         *)
(***************************************************************************)

\* Min is the same in Explanations.
LEMMA ExMin == \A S : EX!Min(S) = Min(S)
  BY DEF EX!Min, Min

\* Max is the same in Explanations.
LEMMA ExMax == \A S : EX!Max(S) = Max(S)
  BY DEF EX!Max, Max

\* What is known about an event.
ExEvent == [id : Nat, rule : Rules]

\* The events: each has its own number.
Numbered ==
  /\ events \in Seq(ExEvent) /\ written \in Nat /\ expired \in 0 .. Len(events)
  /\ \A i \in DOMAIN events : events[i].id <= written
  /\ \A i, j \in DOMAIN events : events[i].id = events[j].id => i = j

\* A table of rules: numbered rows, up to some last one, each with the text of its rule.
RuleTable(R) ==
  /\ \E n \in Nat : DOMAIN R \subseteq 1 .. n
  /\ \A i \in DOMAIN R : R[i].text = R[i].rule

\* A sweep from c to e, which goes back to v, comes by a row.
Covers(c, e, v, i) == (c # EX!None /\ e # EX!None) => (c < i /\ i <= e) \/ (v # EX!None /\ i > v)

\* The inductive invariant of Explanations: what no event refers to is ahead of the sweep, or behind the place it goes back to.
ExInv ==
  /\ Numbered /\ waiting \in Seq(Rules) /\ RuleTable(rows)
  /\ cursor \in Nat \cup {EX!None} /\ end \in Nat \cup {EX!None} /\ revisit \in Nat \cup {EX!None}
  /\ \A i \in EX!Orphans(rows, events) : Covers(cursor, end, revisit, i)

\* What is known about the events.
LEMMA ExIds ==
  ASSUME Numbered
  PROVE  /\ events \in Seq(ExEvent) /\ Len(events) \in Nat /\ DOMAIN events = 1 .. Len(events)
         /\ written \in Nat /\ expired \in 0 .. Len(events)
         /\ \A i \in DOMAIN events : events[i] \in ExEvent /\ events[i].id \in Nat /\ events[i].rule \in Rules /\ events[i].id <= written
<1>1. /\ events \in Seq(ExEvent) /\ Len(events) \in Nat /\ DOMAIN events = 1 .. Len(events)
      /\ written \in Nat /\ expired \in 0 .. Len(events)
      /\ \A i \in DOMAIN events : events[i] \in ExEvent /\ events[i].id <= written
  BY DEF Numbered
<1>2. \A e \in ExEvent : e.id \in Nat /\ e.rule \in Rules
  BY DEF ExEvent
<1> QED
  BY <1>1, <1>2

\* At first there is nothing.
LEMMA ExInit == EX!Init => ExInv
<1> SUFFICES ASSUME EX!Init PROVE ExInv
  OBVIOUS
<1>1. DOMAIN rows = {} /\ DOMAIN events = {} /\ Len(events) = 0 /\ events \in Seq(ExEvent) /\ waiting \in Seq(Rules)
  BY DEF EX!Init
<1>2. RuleTable(rows)
  <2>1. DOMAIN rows \subseteq 1 .. 0
    BY <1>1
  <2> QED
    BY <1>1, <2>1 DEF RuleTable
<1> QED
  BY <1>1, <1>2 DEF EX!Init, ExInv, Numbered, EX!Orphans

\* Steps that leave the rules, the events and the sweep alone.
LEMMA ExQuiet ==
  ASSUME ExInv, waiting' \in Seq(Rules), written' \in Nat, written' >= written, expired' \in 0 .. Len(events),
         UNCHANGED <<rows, events, cursor, end, revisit>>
  PROVE  ExInv'
<1>1. Numbered'
  <2>1. \A i \in DOMAIN events : events[i].id \in Nat /\ written \in Nat
    BY ExIds DEF ExInv
  <2> QED
    BY <2>1 DEF ExInv, Numbered
<1> QED
  BY <1>1 DEF ExInv, RuleTable, EX!Orphans, Covers, EX!Referred

\* A worker leaves a note, or none.
LEMMA ExObserve == ASSUME ExInv, NEW r \in Rules, EX!Observe(r) PROVE ExInv'
<1>1. waiting' \in Seq(Rules) /\ UNCHANGED <<rows, events, cursor, end, revisit, written, expired>>
  BY DEF EX!Observe, ExInv
<1> QED
  BY <1>1, ExQuiet DEF ExInv, Numbered

\* A batch is lost.
LEMMA ExLose == ASSUME ExInv, EX!Lose PROVE ExInv'
<1>1. waiting' \in Seq(Rules) /\ written' = written + 1 /\ UNCHANGED <<rows, events, cursor, end, revisit, expired>>
  BY DEF EX!Lose, ExInv
<1> QED
  BY <1>1, ExQuiet DEF ExInv, Numbered

\* An event expires.
LEMMA ExExpire == ASSUME ExInv, EX!Expire PROVE ExInv'
<1>1. expired' \in 0 .. Len(events) /\ UNCHANGED <<rows, events, cursor, end, revisit, waiting, written>>
  BY DEF EX!Expire, ExInv, Numbered
<1> QED
  BY <1>1, ExQuiet DEF ExInv, Numbered

\* A step of maintenance fails.
LEMMA ExFails == ASSUME ExInv, EX!RetainFails PROVE ExInv'
  BY ExQuiet DEF EX!RetainFails, ExInv, Numbered

\* The last row of a table.
LEMMA ExLastRow ==
  ASSUME NEW R, RuleTable(R)
  PROVE  EX!MaxRow(R) \in Nat /\ \A i \in DOMAIN R : i \in Nat \ {0} /\ i <= EX!MaxRow(R)
<1>1. PICK n \in Nat : DOMAIN R \subseteq 1 .. n
  BY DEF RuleTable
<1> DEFINE T == {0} \cup DOMAIN R
<1>2. T \in SUBSET (0 .. n) /\ T # {}
  BY <1>1
<1>3. EX!MaxRow(R) = EX!Max(T)
  BY DEF EX!MaxRow
<1>4. DOMAIN R \subseteq T
  OBVIOUS
<1> HIDE DEF T
<1>5. EX!Max(T) \in T /\ \A y \in T : EX!Max(T) >= y
  BY <1>2, Greatest, ExMax
<1>6. EX!Max(T) \in 0 .. n
  BY <1>2, <1>5
<1>7. ASSUME NEW i \in DOMAIN R PROVE i \in Nat \ {0} /\ i <= EX!Max(T)
  <2>1. i \in 1 .. n /\ i \in T
    BY <1>1, <1>4
  <2>2. EX!Max(T) >= i
    BY <1>5, <2>1
  <2> QED
    BY <1>6, <2>1, <2>2
<1> QED
  BY <1>3, <1>6, <1>7

\* What writing an event does to the rules and the events.
LEMMA ExWritten ==
  ASSUME ExInv, NEW late \in BOOLEAN, EX!Write(late)
  PROVE  /\ RuleTable(rows') /\ DOMAIN rows \subseteq DOMAIN rows' /\ (\A i \in DOMAIN rows : rows'[i] = rows[i])
         /\ \A i \in DOMAIN rows' \ DOMAIN rows : i \in Nat /\ revisit' = EX!NoteForSweep(i)
         /\ DOMAIN rows' = DOMAIN rows => revisit' = revisit
         /\ \A i, j \in DOMAIN rows' \ DOMAIN rows : i = j
         /\ events' \in Seq(ExEvent) /\ written' = written + 1
         /\ Len(events') \in {Len(events), Len(events) + 1}
         /\ \A i \in DOMAIN events : i \in DOMAIN events' /\ events'[i] = events[i]
         /\ \A i \in DOMAIN events' \ DOMAIN events : i = Len(events) + 1 /\ events'[i].id = written + 1
<1> DEFINE r == Head(waiting)
           v == EX!Enrich(r)
           i == EX!MaxRow(rows) + 1
           adds == v # {} /\ EX!RuleRows(rows, r) = {}
           x == CHOOSE y \in v : TRUE
<1>1. /\ waiting # <<>> /\ written' = written + 1
      /\ rows' = IF adds THEN [k \in DOMAIN rows \cup {i} |-> IF k = i THEN x ELSE rows[k]] ELSE rows
      /\ revisit' = IF adds THEN EX!NoteForSweep(i) ELSE revisit
      /\ events' = IF late THEN events ELSE Append(events, [id |-> written + 1, rule |-> r])
  BY DEF EX!Write
<1>2. r \in Rules /\ events \in Seq(ExEvent) /\ written \in Nat /\ Len(events) \in Nat
  BY <1>1 DEF ExInv, Numbered
<1>3. i \in Nat \ {0} /\ i \notin DOMAIN rows
  BY ExLastRow DEF ExInv
<1>4. ASSUME adds PROVE x.text = x.rule
  BY <1>4 DEF EX!Enrich
<1>5. /\ events' \in Seq(ExEvent)
      /\ Len(events') \in {Len(events), Len(events) + 1}
      /\ \A k \in DOMAIN events : k \in DOMAIN events' /\ events'[k] = events[k]
      /\ \A k \in DOMAIN events' \ DOMAIN events : k = Len(events) + 1 /\ events'[k].id = written + 1
  <2> DEFINE e == [id |-> written + 1, rule |-> r]
  <2>1. e \in ExEvent /\ e.id = written + 1
    BY <1>2 DEF ExEvent
  <2>2. events' = events \/ events' = Append(events, e)
    BY <1>1
  <2> HIDE DEF e
  <2>3. CASE events' = events
    BY <1>2, <2>3
  <2>4. CASE events' = Append(events, e)
    <3>1. events' \in Seq(ExEvent) /\ Len(events') = Len(events) + 1
      BY <1>2, <2>1, <2>4
    <3>2. DOMAIN events = 1 .. Len(events) /\ DOMAIN events' = 1 .. Len(events) + 1
      BY <1>2, <3>1
    <3>3. (\A k \in 1 .. Len(events) : events'[k] = events[k]) /\ events'[Len(events) + 1] = e
      BY <1>2, <2>4
    <3> QED
      BY <1>2, <2>1, <3>1, <3>2, <3>3
  <2> QED
    BY <2>2, <2>3, <2>4
<1>6. /\ DOMAIN rows \subseteq DOMAIN rows' /\ \A k \in DOMAIN rows : rows'[k] = rows[k]
      /\ \A k \in DOMAIN rows' \ DOMAIN rows : k = i /\ adds /\ rows'[k] = x
      /\ DOMAIN rows' = DOMAIN rows => ~adds
      /\ DOMAIN rows' \subseteq DOMAIN rows \cup {i}
  <2> HIDE DEF i, x, adds
  <2> QED
    BY <1>1, <1>3
<1>7. RuleTable(rows')
  <2>1. PICK n \in Nat : DOMAIN rows \subseteq 1 .. n
    BY DEF ExInv, RuleTable
  <2> DEFINE m == IF n > i THEN n ELSE i
  <2>2. m \in Nat /\ DOMAIN rows' \subseteq 1 .. m
    <3> HIDE DEF i
    <3> QED
      BY <1>3, <1>6, <2>1
  <2>3. \A k \in DOMAIN rows' : rows'[k].text = rows'[k].rule
    <3> HIDE DEF i, x, adds
    <3> QED
      BY <1>4, <1>6 DEF ExInv, RuleTable
  <2> HIDE DEF m
  <2> QED
    BY <2>2, <2>3 DEF RuleTable
<1> HIDE DEF i, x, adds
<1> QED
  BY <1>1, <1>2, <1>3, <1>5, <1>6, <1>7

\* An event is written, and its rule with it.
LEMMA ExWrite == ASSUME ExInv, NEW late \in BOOLEAN, EX!Write(late) PROVE ExInv'
<1>1. UNCHANGED <<expired, cursor, end>> /\ waiting' \in Seq(Rules)
  BY DEF EX!Write, ExInv
<1>2. Numbered'
  <2>1. events \in Seq(ExEvent) /\ Len(events) \in Nat /\ DOMAIN events = 1 .. Len(events)
        /\ written \in Nat /\ expired \in 0 .. Len(events)
    BY ExIds DEF ExInv
  <2>2. \A i \in DOMAIN events : events[i].id \in Nat /\ events[i].id <= written
    BY ExIds DEF ExInv
  <2>3. ASSUME NEW i \in DOMAIN events' PROVE events'[i].id <= written'
    <3>1. written' = written + 1
      BY ExWritten
    <3>2. CASE i \in DOMAIN events
      <4>1. events'[i] = events[i]
        BY <3>2, ExWritten
      <4> QED
        BY <2>1, <2>2, <3>1, <3>2, <4>1
    <3>3. CASE i \notin DOMAIN events
      <4>1. events'[i].id = written + 1
        BY <2>3, <3>3, ExWritten
      <4> QED
        BY <2>1, <3>1, <4>1
    <3> QED
      BY <3>2, <3>3
  <2>4. ASSUME NEW i \in DOMAIN events', NEW j \in DOMAIN events', events'[i].id = events'[j].id PROVE i = j
    <3>1. CASE i \in DOMAIN events /\ j \in DOMAIN events
      BY <2>4, <3>1, ExWritten DEF ExInv, Numbered
    <3>2. CASE i \in DOMAIN events /\ j \notin DOMAIN events
      <4>1. events[i].id = written + 1
        BY <2>4, <3>2, ExWritten
      <4> QED
        BY <2>1, <2>2, <3>2, <4>1
    <3>3. CASE i \notin DOMAIN events /\ j \in DOMAIN events
      <4>1. events[j].id = written + 1
        BY <2>4, <3>3, ExWritten
      <4> QED
        BY <2>1, <2>2, <3>3, <4>1
    <3>4. CASE i \notin DOMAIN events /\ j \notin DOMAIN events
      BY <3>4, ExWritten
    <3> QED
      BY <3>1, <3>2, <3>3, <3>4
  <2>5. expired' \in 0 .. Len(events') /\ written' \in Nat /\ events' \in Seq(ExEvent)
    <3>1. Len(events') \in {Len(events), Len(events) + 1} /\ written' = written + 1 /\ events' \in Seq(ExEvent)
      BY ExWritten
    <3> QED
      BY <1>1, <2>1, <3>1
  <2> QED
    BY <2>3, <2>4, <2>5 DEF Numbered
<1>3. revisit' \in Nat \cup {EX!None} /\ (revisit # EX!None => revisit' # EX!None /\ revisit' <= revisit)
      /\ \A i \in DOMAIN rows' \ DOMAIN rows : Covers(cursor, end, revisit', i)
  <2>1. CASE DOMAIN rows' = DOMAIN rows
    BY <2>1, ExWritten DEF ExInv, EX!None
  <2>2. CASE DOMAIN rows' # DOMAIN rows
    <3>1. PICK i : i \in DOMAIN rows' \ DOMAIN rows
      BY <2>2, ExWritten
    <3>2. i \in Nat \ {0} /\ revisit' = EX!NoteForSweep(i) /\ \A j \in DOMAIN rows' \ DOMAIN rows : j = i
      BY <3>1, ExWritten, ExLastRow
    <3>3. CASE cursor # EX!None /\ end # EX!None /\ (i <= cursor \/ i > end)
      <4>1. CASE revisit = EX!None
        BY <3>2, <3>3, <4>1 DEF EX!NoteForSweep, Covers, EX!None
      <4>2. CASE revisit # EX!None
        <5> DEFINE T == {revisit, i - 1}
        <5>1. T \in SUBSET Nat /\ T # {} /\ revisit \in T /\ i - 1 \in T
          BY <3>2, <4>2 DEF ExInv
        <5>2. revisit' = EX!Min(T)
          BY <3>2, <3>3, <4>2 DEF EX!NoteForSweep
        <5> HIDE DEF T
        <5>3. EX!Min(T) \in T /\ EX!Min(T) <= revisit /\ EX!Min(T) <= i - 1
          BY <5>1, Least, ExMin
        <5>4. revisit' \in Nat /\ revisit' <= revisit /\ revisit' < i
          <6>1. EX!Min(T) \in Nat
            BY <5>1, <5>3
          <6> QED
            BY <5>2, <5>3, <6>1, <3>2
        <5> QED
          BY <3>2, <5>4 DEF Covers, EX!None
      <4> QED
        BY <4>1, <4>2
    <3>4. CASE ~(cursor # EX!None /\ end # EX!None /\ (i <= cursor \/ i > end))
      <4>1. revisit' = revisit
        BY <3>2, <3>4 DEF EX!NoteForSweep
      <4>2. Covers(cursor, end, revisit, i)
        BY <3>2, <3>4 DEF Covers, ExInv, EX!None
      <4> QED
        BY <3>2, <4>1, <4>2 DEF ExInv, EX!None
    <3> QED
      BY <3>3, <3>4
  <2> QED
    BY <2>1, <2>2
<1>4. ASSUME NEW i \in EX!Orphans(rows', events') PROVE Covers(cursor, end, revisit', i)
  <2>1. CASE i \in DOMAIN rows
    <3>1. i \in EX!Orphans(rows, events)
      <4>1. rows'[i].rule \notin EX!Referred(events') /\ rows'[i] = rows[i]
        BY <2>1, <1>4, ExWritten DEF EX!Orphans
      <4>2. EX!Referred(events) \subseteq EX!Referred(events')
        BY ExWritten DEF EX!Referred
      <4> QED
        BY <2>1, <4>1, <4>2 DEF EX!Orphans
    <3>2. Covers(cursor, end, revisit, i) /\ i \in Nat
      BY <2>1, <3>1, ExLastRow DEF ExInv
    <3> QED
      BY <1>3, <3>2 DEF Covers, ExInv, EX!None
  <2>2. CASE i \notin DOMAIN rows
    BY <1>3, <1>4, <2>2 DEF EX!Orphans
  <2> QED
    BY <2>1, <2>2
<1> QED
  BY <1>1, <1>2, <1>3, <1>4, ExWritten DEF ExInv

\* What expireDetails leaves has no row without an event that had none before.
LEMMA ExDetails ==
  ASSUME ExInv, NEW n \in 0 .. Len(events)
  PROVE  LET gone == SubSeq(events, 1, n)
             E == SubSeq(events, n + 1, Len(events))
             R == EX!ExpireDetails(rows, gone, E)
         IN /\ RuleTable(R) /\ DOMAIN R \subseteq DOMAIN rows /\ (\A i \in DOMAIN R : R[i] = rows[i])
            /\ EX!Orphans(R, E) \subseteq EX!Orphans(rows, events)
            /\ \A i \in DOMAIN rows : rows[i].rule \in EX!Referred(E) => i \in DOMAIN R
<1> DEFINE gone == SubSeq(events, 1, n)
           E == SubSeq(events, n + 1, Len(events))
           S == {i \in EX!Orphans(rows, E) : rows[i].rule \in EX!Referred(gone)}
           R == EX!ExpireDetails(rows, gone, E)
<1>1. R = [i \in DOMAIN rows \ S |-> rows[i]]
  BY DEF EX!ExpireDetails, EX!Without
<1>2. DOMAIN R = DOMAIN rows \ S /\ \A i \in DOMAIN R : R[i] = rows[i]
  BY <1>1
<1>3. RuleTable(R)
  BY <1>2 DEF ExInv, RuleTable
<1>4. \A i \in DOMAIN rows : rows[i].rule \in EX!Referred(E) => i \in DOMAIN R
  BY <1>2 DEF EX!Orphans
<1>5. EX!Referred(events) \subseteq EX!Referred(gone) \cup EX!Referred(E)
  <2>0. Len(events) \in Nat /\ events \in Seq(ExEvent) /\ DOMAIN events = 1 .. Len(events)
    BY ExIds DEF ExInv
  <2>1. ASSUME NEW k \in DOMAIN events PROVE events[k].rule \in EX!Referred(gone) \cup EX!Referred(E)
    <3>1. CASE k <= n
      <4>1. k \in DOMAIN gone /\ gone[k] = events[k]
        BY <2>0, <2>1, <3>1
      <4> QED
        BY <4>1 DEF EX!Referred
    <3>2. CASE ~(k <= n)
      <4>1. k - n \in DOMAIN E /\ E[k - n] = events[k]
        BY <2>0, <2>1, <3>2
      <4> HIDE DEF E
      <4> QED
        BY <4>1 DEF EX!Referred
    <3> QED
      BY <3>1, <3>2
  <2> QED
    BY <2>1 DEF EX!Referred
<1> HIDE DEF R, E, gone
<1>6. ASSUME NEW i \in EX!Orphans(R, E) PROVE i \in EX!Orphans(rows, events)
  <2>1. i \in DOMAIN R /\ R[i].rule \notin EX!Referred(E)
    BY DEF EX!Orphans
  <2>2. i \in DOMAIN rows \ S /\ R[i] = rows[i] /\ rows[i].rule \notin EX!Referred(E)
    BY <1>2, <2>1
  <2>3. rows[i].rule \notin EX!Referred(gone)
    BY <2>2 DEF EX!Orphans
  <2> QED
    BY <1>5, <2>2, <2>3 DEF EX!Orphans
<1>7. /\ RuleTable(R) /\ DOMAIN R \subseteq DOMAIN rows /\ (\A i \in DOMAIN R : R[i] = rows[i])
      /\ EX!Orphans(R, E) \subseteq EX!Orphans(rows, events)
      /\ \A i \in DOMAIN rows : rows[i].rule \in EX!Referred(E) => i \in DOMAIN R
  BY <1>2, <1>3, <1>4, <1>6
<1> QED
  BY <1>7 DEF R, E, gone

\* A step of the sweep: what is left without an event is still before it; it keeps what an event refers to.
LEMMA ExSweep ==
  ASSUME ExInv, NEW R, NEW E, RuleTable(R), \A i \in EX!Orphans(R, E) : Covers(cursor, end, revisit, i)
  PROVE  LET W == EX!Sweep(R, E) IN
         /\ RuleTable(W.rows) /\ DOMAIN W.rows \subseteq DOMAIN R /\ (\A i \in DOMAIN W.rows : W.rows[i] = R[i])
         /\ \A i \in DOMAIN R : R[i].rule \in EX!Referred(E) => i \in DOMAIN W.rows
         /\ W.cursor \in Nat /\ W.end \in Nat /\ W.revisit \in Nat \cup {EX!None} /\ W.more = (W.cursor < W.end)
         /\ \A i \in EX!Orphans(W.rows, E) : Covers(W.cursor, W.end, W.revisit, i)
         /\ ~W.more => EX!Orphans(W.rows, E) = {}
<1> DEFINE fresh  == cursor = EX!None \/ end = EX!None
           c      == IF fresh THEN 0 ELSE cursor
           e      == IF fresh THEN EX!MaxRow(R) ELSE end
           seen   == EX!Lowest({i \in DOMAIN R : c < i /\ i <= e}, SweepLimit)
           next   == IF c >= e THEN c ELSE IF seen = {} THEN e ELSE EX!Max(seen)
           O      == EX!Orphans(R, E)
           kept   == EX!Without(R, {i \in O : c < i /\ i <= next})
           again  == next >= e /\ revisit # EX!None
           e2     == IF again THEN EX!MaxRow(kept) ELSE e
           c2     == IF again THEN EX!Min({next, revisit, e2}) ELSE next
           v2     == IF again THEN EX!None ELSE revisit
           W      == EX!Sweep(R, E)
<1>1. W = [rows |-> kept, cursor |-> c2, end |-> e2, revisit |-> v2, more |-> c2 < e2]
  BY DEF EX!Sweep
<1>2. cursor \in Nat \cup {EX!None} /\ end \in Nat \cup {EX!None} /\ revisit \in Nat \cup {EX!None} /\ EX!None = -1
  BY DEF ExInv, EX!None
<1>3. c \in Nat /\ e \in Nat /\ EX!MaxRow(R) \in Nat /\ \A i \in DOMAIN R : i \in Nat \ {0} /\ i <= EX!MaxRow(R)
  BY <1>2, ExLastRow
<1>4. \A i \in O : i \in DOMAIN R /\ R[i].rule \notin EX!Referred(E) /\ i \in Nat /\ ((c < i /\ i <= e) \/ (revisit # EX!None /\ i > revisit))
  BY <1>2, <1>3 DEF EX!Orphans, Covers
<1> HIDE DEF fresh, c, e, O
<1>5. next \in Nat /\ (c < e => c <= next /\ next <= e) /\ (c >= e => next = c)
  <2>1. CASE c >= e
    BY <2>1, <1>3
  <2>2. CASE c < e /\ seen = {}
    BY <2>2, <1>3
  <2>3. CASE c < e /\ seen # {}
    <3>1. \A i \in seen : i \in 0 .. e /\ c < i
      BY <1>3 DEF EX!Lowest
    <3>2. next = EX!Max(seen)
      BY <2>3, <1>3
    <3> HIDE DEF seen, next
    <3>3. EX!Max(seen) \in seen
      BY <1>3, <2>3, <3>1, Greatest, ExMax
    <3> QED
      BY <1>3, <2>3, <3>1, <3>2, <3>3
  <2> QED
    BY <1>3, <2>1, <2>2, <2>3
<1> HIDE DEF next, seen
<1>6. DOMAIN kept = DOMAIN R \ {i \in O : c < i /\ i <= next} /\ \A i \in DOMAIN kept : kept[i] = R[i]
  BY DEF EX!Without
<1> HIDE DEF kept
<1>7. RuleTable(kept)
  BY <1>6 DEF RuleTable
<1>8. ASSUME NEW i \in EX!Orphans(kept, E) PROVE i \in O /\ i \in DOMAIN kept /\ ~(c < i /\ i <= next)
  BY <1>6 DEF EX!Orphans, O
<1>9. EX!MaxRow(kept) \in Nat /\ \A i \in DOMAIN kept : i <= EX!MaxRow(kept)
  BY <1>7, ExLastRow
<1>10. e2 \in Nat /\ c2 \in Nat /\ v2 \in Nat \cup {EX!None} /\ (again => c2 <= revisit /\ e2 = EX!MaxRow(kept))
  <2>1. CASE again
    <3> DEFINE T == {next, revisit, e2}
    <3>1. T \in SUBSET Nat /\ T # {} /\ revisit \in T
      BY <1>2, <1>5, <1>9, <2>1
    <3>2. c2 = EX!Min(T) /\ e2 = EX!MaxRow(kept)
      BY <2>1
    <3> HIDE DEF T
    <3>3. EX!Min(T) \in T /\ EX!Min(T) <= revisit
      BY <3>1, Least, ExMin
    <3>4. EX!Min(T) \in Nat
      BY <3>1, <3>3
    <3> QED
      BY <1>9, <2>1, <3>2, <3>3, <3>4
  <2>2. CASE ~again
    BY <1>2, <1>3, <1>5, <2>2
  <2> QED
    BY <2>1, <2>2
<1>11. ASSUME NEW i \in EX!Orphans(kept, E)
       PROVE  (c2 < i /\ i <= e2) \/ (v2 # EX!None /\ i > v2)
  <2>1. i \in Nat /\ ~(c < i /\ i <= next) /\ i <= EX!MaxRow(kept) /\ ((c < i /\ i <= e) \/ (revisit # EX!None /\ i > revisit))
    BY <1>4, <1>8, <1>9
  <2>2. CASE again
    <3>1. next >= e /\ i > revisit /\ c2 <= revisit /\ e2 = EX!MaxRow(kept)
      BY <1>2, <1>3, <1>5, <1>10, <2>1, <2>2
    <3> HIDE DEF c2, e2
    <3> QED
      BY <1>2, <1>9, <1>10, <2>1, <2>2, <3>1
  <2>3. CASE ~again
    BY <1>3, <1>5, <2>1, <2>3
  <2> QED
    BY <2>2, <2>3
<1>12. ~(c2 < e2) => (v2 = EX!None /\ \A i \in EX!Orphans(kept, E) : i \in Nat)
  <2>1. \A i \in EX!Orphans(kept, E) : i \in Nat
    BY <1>4, <1>8
  <2>2. ASSUME ~(c2 < e2) PROVE v2 = EX!None
    <3>1. CASE again
      BY <3>1
    <3>2. CASE ~again
      BY <1>3, <1>5, <2>2, <3>2
    <3> QED
      BY <3>1, <3>2
  <2> QED
    BY <2>1, <2>2
<1> HIDE DEF c2, e2, v2, again, W
<1>13. ~(c2 < e2) => EX!Orphans(kept, E) = {}
  <2> SUFFICES ASSUME ~(c2 < e2), NEW i \in EX!Orphans(kept, E) PROVE FALSE
    OBVIOUS
  <2> QED
    BY <1>10, <1>11, <1>12
<1>14. W.rows = kept /\ W.cursor = c2 /\ W.end = e2 /\ W.revisit = v2 /\ W.more = (c2 < e2)
  BY <1>1
<1>15. \A i \in DOMAIN R : R[i].rule \in EX!Referred(E) => i \in DOMAIN kept
  BY <1>4, <1>6
<1>16. \A i \in EX!Orphans(kept, E) : Covers(c2, e2, v2, i)
  BY <1>11 DEF Covers
<1>17. /\ RuleTable(W.rows) /\ DOMAIN W.rows \subseteq DOMAIN R /\ (\A i \in DOMAIN W.rows : W.rows[i] = R[i])
       /\ \A i \in DOMAIN R : R[i].rule \in EX!Referred(E) => i \in DOMAIN W.rows
       /\ W.cursor \in Nat /\ W.end \in Nat /\ W.revisit \in Nat \cup {EX!None} /\ W.more = (W.cursor < W.end)
       /\ \A i \in EX!Orphans(W.rows, E) : Covers(W.cursor, W.end, W.revisit, i)
       /\ ~W.more => EX!Orphans(W.rows, E) = {}
  BY <1>6, <1>7, <1>10, <1>13, <1>14, <1>15, <1>16
<1> QED
  BY <1>17 DEF W

\* What a step of maintenance does to the rules and the events.
LEMMA ExRetained ==
  ASSUME ExInv, EX!Retain
  PROVE  \E n \in 0 .. expired :
         /\ events' = SubSeq(events, n + 1, Len(events)) /\ expired' = expired - n
         /\ RuleTable(rows') /\ DOMAIN rows' \subseteq DOMAIN rows /\ (\A i \in DOMAIN rows' : rows'[i] = rows[i])
         /\ \A i \in DOMAIN rows : rows[i].rule \in EX!Referred(events') => i \in DOMAIN rows'
         /\ cursor' \in Nat \cup {EX!None} /\ end' \in Nat \cup {EX!None} /\ revisit' \in Nat \cup {EX!None}
         /\ \A i \in EX!Orphans(rows', events') : Covers(cursor', end', revisit', i)
         /\ ~pending' => EX!Orphans(rows', events') = {}
<1> DEFINE n    == EX!Min({expired, ExpireLimit})
           gone == SubSeq(events, 1, n)
           E    == SubSeq(events, n + 1, Len(events))
           R    == EX!ExpireDetails(rows, gone, E)
           S    == EX!Sweep(R, E)
           more == expired > n \/ S.more
<1>1. /\ events' = E /\ expired' = expired - n /\ rows' = S.rows /\ pending' = more
      /\ cursor' = IF more THEN S.cursor ELSE EX!None
      /\ end' = IF more THEN S.end ELSE EX!None
      /\ revisit' = IF more THEN S.revisit ELSE EX!None
  BY DEF EX!Retain
<1>2. expired \in 0 .. Len(events) /\ Len(events) \in Nat
  BY ExIds DEF ExInv
<1>3. n \in 0 .. expired
  <2> DEFINE T == {expired, ExpireLimit}
  <2>1. T \in SUBSET Nat /\ T # {} /\ expired \in T
    BY <1>2, HistoryAssumption
  <2> HIDE DEF T
  <2>2. EX!Min(T) \in T /\ EX!Min(T) <= expired
    BY <2>1, Least, ExMin
  <2>3. n = EX!Min(T)
    BY DEF T
  <2>4. EX!Min(T) \in Nat
    BY <2>1, <2>2
  <2> HIDE DEF n
  <2> QED
    BY <1>2, <2>2, <2>3, <2>4
<1> HIDE DEF n
<1>4. n \in 0 .. Len(events)
  BY <1>2, <1>3
<1>5. /\ RuleTable(R) /\ DOMAIN R \subseteq DOMAIN rows /\ (\A i \in DOMAIN R : R[i] = rows[i])
      /\ EX!Orphans(R, E) \subseteq EX!Orphans(rows, events)
      /\ \A i \in DOMAIN rows : rows[i].rule \in EX!Referred(E) => i \in DOMAIN R
  BY <1>4, ExDetails
<1> HIDE DEF R, E
<1>6. \A i \in EX!Orphans(R, E) : Covers(cursor, end, revisit, i)
  BY <1>5 DEF ExInv
<1>7. /\ RuleTable(S.rows) /\ DOMAIN S.rows \subseteq DOMAIN R /\ (\A i \in DOMAIN S.rows : S.rows[i] = R[i])
      /\ \A i \in DOMAIN R : R[i].rule \in EX!Referred(E) => i \in DOMAIN S.rows
      /\ S.cursor \in Nat /\ S.end \in Nat /\ S.revisit \in Nat \cup {EX!None} /\ S.more = (S.cursor < S.end)
      /\ \A i \in EX!Orphans(S.rows, E) : Covers(S.cursor, S.end, S.revisit, i)
      /\ ~S.more => EX!Orphans(S.rows, E) = {}
  BY <1>5, <1>6, ExSweep
<1> HIDE DEF S
<1>8. ~pending' => EX!Orphans(rows', events') = {}
  BY <1>1, <1>7
<1>9. \A i \in EX!Orphans(rows', events') : Covers(cursor', end', revisit', i)
  <2>1. CASE more
    BY <1>1, <1>7, <2>1
  <2>2. CASE ~more
    BY <1>1, <1>8, <2>2
  <2> QED
    BY <2>1, <2>2
<1>10. /\ RuleTable(rows') /\ DOMAIN rows' \subseteq DOMAIN rows /\ (\A i \in DOMAIN rows' : rows'[i] = rows[i])
       /\ \A i \in DOMAIN rows : rows[i].rule \in EX!Referred(events') => i \in DOMAIN rows'
  BY <1>1, <1>5, <1>7
<1>11. cursor' \in Nat \cup {EX!None} /\ end' \in Nat \cup {EX!None} /\ revisit' \in Nat \cup {EX!None}
  BY <1>1, <1>7
<1>12. events' = SubSeq(events, n + 1, Len(events)) /\ expired' = expired - n
  BY <1>1 DEF E
<1> HIDE DEF more
<1> QED
  BY <1>3, <1>8, <1>9, <1>10, <1>11, <1>12

\* The events that are left keep their numbers.
LEMMA ExLeft ==
  ASSUME ExInv, NEW n \in 0 .. expired, events' = SubSeq(events, n + 1, Len(events))
  PROVE  /\ events' \in Seq(ExEvent) /\ Len(events') = Len(events) - n
         /\ \A i \in DOMAIN events' : i + n \in DOMAIN events /\ events'[i] = events[i + n]
<1>1. events \in Seq(ExEvent) /\ Len(events) \in Nat /\ expired \in 0 .. Len(events) /\ DOMAIN events = 1 .. Len(events)
  BY ExIds DEF ExInv
<1>2. n \in Nat /\ n <= Len(events)
  BY <1>1
<1>3. events' \in Seq(ExEvent) /\ Len(events') = Len(events) - n
  <2>1. n + 1 \in Int /\ Len(events) \in Int /\ \A i \in n + 1 .. Len(events) : events[i] \in ExEvent
    BY <1>1, <1>2
  <2> DEFINE E == SubSeq(events, n + 1, Len(events))
  <2>2. E \in Seq(ExEvent) /\ Len(E) = IF n + 1 <= Len(events) THEN Len(events) - (n + 1) + 1 ELSE 0
    BY <2>1, SubSeqProperties
  <2>3. events' = E
    OBVIOUS
  <2> HIDE DEF E
  <2>4. \A l, m \in Nat : m <= l => (IF m + 1 <= l THEN l - (m + 1) + 1 ELSE 0) = l - m
    OBVIOUS
  <2>5. Len(E) = Len(events) - n
    <3> DEFINE l == Len(events)
    <3>1. l \in Nat /\ n \in Nat /\ n <= l /\ Len(E) = IF n + 1 <= l THEN l - (n + 1) + 1 ELSE 0
      BY <1>1, <1>2, <2>2
    <3> HIDE DEF l
    <3>2. Len(E) = l - n
      BY <2>4, <3>1
    <3> QED
      BY <3>2 DEF l
  <2> QED
    BY <2>2, <2>3, <2>5
<1>4. DOMAIN events' = 1 .. Len(events) - n
  BY <1>3
<1>5. ASSUME NEW i \in 1 .. Len(events) - n PROVE i + n \in 1 .. Len(events) /\ events'[i] = events[i + n]
  BY <1>1, <1>2
<1> QED
  BY <1>1, <1>3, <1>4, <1>5

\* A step of maintenance.
LEMMA ExRetain == ASSUME ExInv, EX!Retain PROVE ExInv'
<1>1. PICK n \in 0 .. expired :
         /\ events' = SubSeq(events, n + 1, Len(events)) /\ expired' = expired - n
         /\ RuleTable(rows')
         /\ cursor' \in Nat \cup {EX!None} /\ end' \in Nat \cup {EX!None} /\ revisit' \in Nat \cup {EX!None}
         /\ \A i \in EX!Orphans(rows', events') : Covers(cursor', end', revisit', i)
  BY ExRetained
<1>2. UNCHANGED <<waiting, written>>
  BY DEF EX!Retain
<1>3. Numbered'
  <2>1. /\ events' \in Seq(ExEvent) /\ Len(events') = Len(events) - n
        /\ \A i \in DOMAIN events' : i + n \in DOMAIN events /\ events'[i] = events[i + n]
    BY <1>1, ExLeft
  <2>2. written \in Nat /\ Len(events) \in Nat /\ expired \in 0 .. Len(events) /\ n \in Nat
    BY ExIds DEF ExInv
  <2>3. \A i \in DOMAIN events' : events'[i].id <= written
    BY <2>1 DEF ExInv, Numbered
  <2>4. ASSUME NEW i \in DOMAIN events', NEW j \in DOMAIN events', events'[i].id = events'[j].id PROVE i = j
    <3>1. i + n = j + n
      BY <2>1, <2>4 DEF ExInv, Numbered
    <3>2. i \in Int /\ j \in Int
      <4>1. DOMAIN events' = 1 .. Len(events')
        BY <2>1
      <4> QED
        BY <4>1
    <3> QED
      BY <2>2, <3>1, <3>2
  <2>5. expired' \in 0 .. Len(events')
    BY <1>1, <2>1, <2>2
  <2> QED
    BY <1>2, <2>1, <2>2, <2>3, <2>4, <2>5 DEF Numbered
<1> QED
  BY <1>1, <1>2, <1>3 DEF ExInv

\* Every step keeps the invariant.
LEMMA ExNext == ExInv /\ [EX!Next]_EX!vars => ExInv'
<1> SUFFICES ASSUME ExInv, [EX!Next]_EX!vars PROVE ExInv'
  OBVIOUS
<1>1. CASE UNCHANGED EX!vars
  BY <1>1, ExQuiet DEF EX!vars, ExInv, Numbered
<1>2. ASSUME NEW r \in Rules, EX!Observe(r) PROVE ExInv'
  BY <1>2, ExObserve
<1>3. ASSUME NEW late \in BOOLEAN, EX!Write(late) PROVE ExInv'
  BY <1>3, ExWrite
<1> QED
  BY <1>1, <1>2, <1>3, ExLose, ExExpire, ExRetain, ExFails DEF EX!Next

\* A rule whose row stays keeps its text, and that is the rule itself.
LEMMA ExTexts ==
  ASSUME NEW R, NEW Q, NEW r, RuleTable(Q), \A i \in DOMAIN R : R[i].rule = r => i \in DOMAIN Q /\ Q[i] = R[i]
  PROVE  EX!Texts(R, r) \subseteq EX!Texts(Q, r) /\ EX!Texts(Q, r) \subseteq {r}
<1>1. EX!Texts(R, r) \subseteq EX!Texts(Q, r)
  BY DEF EX!Texts, EX!RuleRows
<1>2. EX!Texts(Q, r) \subseteq {r}
  BY DEF EX!Texts, EX!RuleRows, RuleTable
<1> QED
  BY <1>1, <1>2

\* Steps that leave the rules and the events alone.
LEMMA ExSame ==
  ASSUME ExInv, UNCHANGED <<rows, events>>, NEW i \in DOMAIN events, NEW j \in DOMAIN events', events[i].id = events'[j].id
  PROVE  LET r == events[i].rule IN EX!Texts(rows, r) \subseteq EX!Texts(rows', r) /\ EX!Texts(rows', r) \subseteq {r}
  BY ExTexts DEF ExInv, RuleTable

\* No step takes the explanation of an event that stays.
LEMMA ExStays ==
  ASSUME ExInv, EX!Next, NEW i \in DOMAIN events, NEW j \in DOMAIN events', events[i].id = events'[j].id
  PROVE  LET r == events[i].rule IN EX!Texts(rows, r) \subseteq EX!Texts(rows', r) /\ EX!Texts(rows', r) \subseteq {r}
<1>1. CASE UNCHANGED <<rows, events>>
  BY <1>1, ExSame
<1>2. ASSUME NEW late \in BOOLEAN, EX!Write(late)
      PROVE  LET r == events[i].rule IN EX!Texts(rows, r) \subseteq EX!Texts(rows', r) /\ EX!Texts(rows', r) \subseteq {r}
  <2>1. RuleTable(rows') /\ DOMAIN rows \subseteq DOMAIN rows' /\ \A k \in DOMAIN rows : rows'[k] = rows[k]
    BY <1>2, ExWritten
  <2> QED
    BY <2>1, ExTexts
<1>3. ASSUME EX!Retain
      PROVE  LET r == events[i].rule IN EX!Texts(rows, r) \subseteq EX!Texts(rows', r) /\ EX!Texts(rows', r) \subseteq {r}
  <2>1. PICK n \in 0 .. expired :
         /\ events' = SubSeq(events, n + 1, Len(events))
         /\ RuleTable(rows') /\ DOMAIN rows' \subseteq DOMAIN rows /\ (\A k \in DOMAIN rows' : rows'[k] = rows[k])
         /\ \A k \in DOMAIN rows : rows[k].rule \in EX!Referred(events') => k \in DOMAIN rows'
    BY <1>3, ExRetained
  <2>2. j + n \in DOMAIN events /\ events'[j] = events[j + n]
    BY <2>1, ExLeft
  <2>3. j + n = i
    BY <2>2 DEF ExInv, Numbered
  <2>4. events'[j].rule = events[i].rule
    BY <2>2, <2>3
  <2>5. events[i].rule \in EX!Referred(events')
    BY <2>4 DEF EX!Referred
  <2> QED
    BY <2>1, <2>5, ExTexts
<1>4. \/ UNCHANGED <<rows, events>>
      \/ \E late \in BOOLEAN : EX!Write(late)
      \/ EX!Retain
  BY DEF EX!Next, EX!Observe, EX!Lose, EX!Expire, EX!RetainFails
<1> QED
  BY <1>1, <1>2, <1>3, <1>4

\* The invariant holds.
LEMMA ExInvariance == EX!Spec => []ExInv
  BY ExInit, ExNext, PTL DEF EX!Spec

\* Maintenance that reports no backlog has left no rule without an event
\* (Explanations: storage/retention.go).
THEOREM SweepComplete == EX!Spec => SweepLeavesNothing
<1>1. ExInv /\ [EX!Next]_EX!vars => [EX!Retain /\ ~pending' => EX!Orphans(rows', events') = {}]_EX!vars
  <2> SUFFICES ASSUME ExInv, EX!Retain, ~pending' PROVE EX!Orphans(rows', events') = {}
    OBVIOUS
  <2> QED
    BY ExRetained
<1> QED
  BY <1>1, ExInvariance, PTL DEF EX!Spec, SweepLeavesNothing, EX!SweepLeavesNothing

\* An event is only ever explained by its own rule, and an explanation stays as
\* long as the event (Explanations: observability, storage/writer.go and
\* retention.go).
THEOREM ExplanationsStay == EX!Spec => ExplanationStays
<1>1. ExInv /\ [EX!Next]_EX!vars =>
       [\A i \in DOMAIN events, j \in DOMAIN events' : events[i].id = events'[j].id =>
          LET r == events[i].rule IN
          EX!Texts(rows, r) \subseteq EX!Texts(rows', r) /\ EX!Texts(rows', r) \subseteq {r}]_EX!vars
  <2> SUFFICES ASSUME ExInv, EX!Next, NEW i \in DOMAIN events, NEW j \in DOMAIN events', events[i].id = events'[j].id
               PROVE  LET r == events[i].rule IN EX!Texts(rows, r) \subseteq EX!Texts(rows', r) /\ EX!Texts(rows', r) \subseteq {r}
    OBVIOUS
  <2> QED
    BY ExStays
<1> QED
  BY <1>1, ExInvariance, PTL DEF EX!Spec, ExplanationStays, EX!ExplanationStays

(***************************************************************************)
(* The names of the clients.                                               *)
(***************************************************************************)

\* Cardinality is the same in ClientNames.
LEMMA NmCardinality == \A S : CN!Cardinality(S) = Cardinality(S)
  BY DEF CN!Cardinality, Cardinality

\* Max is the same in ClientNames.
LEMMA NmMax == \A S : CN!Max(S) = Max(S)
  BY DEF CN!Max, Max

\* All fields of a name are there.
Whole(n) ==
  n = [name |-> n.name, kind |-> n.kind, updated |-> n.updated, expires |-> n.expires, host |-> n.host,
       detail |-> n.detail, evidence |-> n.evidence, fresh |-> n.fresh, scope |-> n.scope]

\* A live advertisement was heard, for no shorter than it is live.
Evident(e, s, a, t, H) ==
  /\ e.rank \in Nat /\ e.expires \in Nat
  /\ t < e.expires => \E x \in H : x[1] = s /\ x[2] = a /\ x[3].label = e.label /\ x[3].host = e.host /\ x[4] >= e.expires

\* What is known about a multicast name and its evidence.
Supported(n, s, a, t, H) ==
  /\ Whole(n) /\ n.kind = "multicast" /\ n.scope = s /\ n.updated \in Nat /\ n.updated <= t
  /\ IsFiniteSet(n.evidence) /\ (\E e \in n.evidence : e.expires = n.expires)
  /\ \A e \in n.evidence : Evident(e, s, a, t, H)

\* Its name was heard after it was confirmed.
Confirmed(n, s, a, t, H) ==
  t < n.updated + Retention =>
    \E x \in H : x[1] = s /\ x[2] = a /\ n.name \in {x[3].label, x[3].host} /\ x[4] >= n.updated

\* What is known about what is remembered of an address.
Kept(m, s, a, t, H) == m = CN!Unknown \/ (Supported(m, s, a, t, H) /\ Confirmed(m, s, a, t, H))

\* What a multicast name may take the place of.
Replaceable(n) == n.name = "" \/ n.kind = "resolved"

\* The name was heard less than the retention ago.
Current(n, s, a, t, H) ==
  \E x \in H : x[1] = s /\ x[2] = a /\ n.name \in {x[3].label, x[3].host} /\ t < x[4] + Retention

\* What is known about a name that the worker found.
Resolved(n, s, t) == Whole(n) /\ n.kind \in {"resolved", "unknown"} /\ n.scope = s /\ n.updated \in Nat /\ n.updated <= t

\* The multicast names, for the views V.
NamesSound(F, V, t, H) ==
  /\ DOMAIN F \subseteq Addresses
  /\ \A a \in DOMAIN F : /\ F[a] = [view |-> F[a].view, name |-> F[a].name] /\ F[a].view \in 1 .. Len(V)
                         /\ Supported(F[a].name, V[F[a].view].scope, a, t, H)
                         /\ Confirmed(F[a].name, V[F[a].view].scope, a, t, H)

\* The cache of the worker, for the views V.
FoundSound(F, V, t) ==
  /\ DOMAIN F \subseteq Addresses
  /\ \A a \in DOMAIN F : F[a].view \in 1 .. Len(V) /\ Resolved(F[a].name, V[F[a].view].scope, t)

\* A row of the database.
RowSound(r, s, t, H) ==
  /\ r[1] \in Addresses /\ r[2].kind \in {"resolved", "multicast"} /\ r[2].updated \in Nat /\ r[2].updated <= t
  /\ r[2].kind = "multicast" => Supported(r[2], s, r[1], t, H) /\ Confirmed(r[2], s, r[1], t, H)
  /\ r[2].kind = "resolved" => Resolved(r[2], s, t)

\* What the multicast loop for the view l holds.
RecordsSound(R, V, l, t, H) ==
  /\ R = [a \in Addresses |-> R[a]]
  /\ \A a \in Addresses :
       /\ IsFiniteSet(R[a])
       /\ \A e \in R[a] : /\ l # 0 /\ Evident(e, V[l].scope, a, t, H)
                          /\ e.learned \in Nat /\ e.learned <= t /\ e.expires <= t + Life

\* The job under way, which is newer than all that is known.
WorkSound(w, V, F, t, ready, known) ==
  w # CN!NoWork =>
    /\ w.job \in (1 .. Len(V)) \X Addresses /\ Resolved(w.name, V[w.job[1]].scope, t)
    /\ \A a \in DOMAIN F : F[a].name.updated <= w.name.updated
    /\ ~ready => \A r \in known : r[2].updated <= w.name.updated

\* The times of what was heard.
HeardSound(H, t) == \A x \in H : x[4] \in Nat /\ x[4] <= t + Life

\* The types, and the times of what was heard.
NmType ==
  /\ plan \in Plans /\ clock \in Nat /\ view \in 1 .. Len(CN!Views) /\ loop \in 0 .. Len(CN!Views) /\ boots \in Nat
  /\ pendingNames \subseteq (1 .. Len(CN!Views)) \X Addresses
  /\ HeardSound(heard, clock)

\* The inductive invariant of ClientNames.
NmInv ==
  /\ NmType /\ RecordsSound(records, CN!Views, loop, clock, heard) /\ WorkSound(work, CN!Views, cache, clock, restored, saved.rows)
  /\ FoundSound(cache, CN!Views, clock) /\ NamesSound(mdnsNames, CN!Views, clock, heard)
  /\ \A r \in saved.rows : RowSound(r, saved.scope, clock, heard)

\* What was heard is heard later too, until the retention is over.
Later(H, I, t) ==
  \A x \in H : t < x[4] + Retention => \E y \in I : y[1] = x[1] /\ y[2] = x[2] /\ y[3] = x[3] /\ y[4] >= x[4]

\* The durations, and the addresses.
LEMMA NmBounds == Retention \in Nat /\ Life \in Nat /\ NameLimit \in Nat /\ IsFiniteSet(Addresses)
  BY NamesAssumption

\* What is known stays known as time passes and more is heard.
LEMMA NmEvident ==
  ASSUME NEW t \in Nat, NEW then \in Nat, t <= then, NEW H, NEW I, HeardSound(H, t), HeardSound(I, then), Later(H, I, then),
         NEW e, NEW s, NEW a, Evident(e, s, a, t, H)
  PROVE  Evident(e, s, a, then, I)
<1>1. SUFFICES ASSUME then < e.expires
               PROVE  \E y \in I : y[1] = s /\ y[2] = a /\ y[3].label = e.label /\ y[3].host = e.host /\ y[4] >= e.expires
  BY DEF Evident
<1>2. e.expires \in Nat /\ t < e.expires
  BY <1>1 DEF Evident
<1>3. PICK x \in H : x[1] = s /\ x[2] = a /\ x[3].label = e.label /\ x[3].host = e.host /\ x[4] >= e.expires
  BY <1>2 DEF Evident
<1>4. x[4] \in Nat /\ then < x[4] + Retention
  <2>1. x[4] \in Nat
    BY DEF HeardSound
  <2> QED
    BY <1>1, <1>2, <1>3, <2>1, NmBounds
<1>5. PICK y \in I : y[1] = x[1] /\ y[2] = x[2] /\ y[3] = x[3] /\ y[4] >= x[4]
  BY <1>4 DEF Later
<1>6. y[4] \in Nat
  BY DEF HeardSound
<1> QED
  BY <1>2, <1>3, <1>4, <1>5, <1>6

\* The same for names and what was found.
LEMMA NmKeeps ==
  ASSUME NEW t \in Nat, NEW then \in Nat, t <= then, NEW H, NEW I, HeardSound(H, t), HeardSound(I, then), Later(H, I, then)
  PROVE  /\ \A n, s, a : Supported(n, s, a, t, H) => Supported(n, s, a, then, I)
         /\ \A n, s, a : n.updated \in Nat /\ Confirmed(n, s, a, t, H) => Confirmed(n, s, a, then, I)
         /\ \A n, s : Resolved(n, s, t) => Resolved(n, s, then)
<1>1. ASSUME NEW n, NEW s, NEW a, Supported(n, s, a, t, H) PROVE Supported(n, s, a, then, I)
  <2>1. \A e \in n.evidence : Evident(e, s, a, then, I)
    BY <1>1, NmEvident DEF Supported
  <2> QED
    BY <1>1, <2>1 DEF Supported
<1>2. ASSUME NEW n, NEW s, NEW a, n.updated \in Nat, Confirmed(n, s, a, t, H) PROVE Confirmed(n, s, a, then, I)
  <2>1. SUFFICES ASSUME then < n.updated + Retention
                 PROVE  \E y \in I : y[1] = s /\ y[2] = a /\ n.name \in {y[3].label, y[3].host} /\ y[4] >= n.updated
    BY DEF Confirmed
  <2>2. PICK x \in H : x[1] = s /\ x[2] = a /\ n.name \in {x[3].label, x[3].host} /\ x[4] >= n.updated
    <3>1. t < n.updated + Retention
      BY <1>2, <2>1, NmBounds
    <3> QED
      BY <1>2, <3>1 DEF Confirmed
  <2>3. x[4] \in Nat /\ then < x[4] + Retention
    <3>1. x[4] \in Nat
      BY <2>2 DEF HeardSound
    <3> QED
      BY <1>2, <2>1, <2>2, <3>1, NmBounds
  <2>4. PICK y \in I : y[1] = x[1] /\ y[2] = x[2] /\ y[3] = x[3] /\ y[4] >= x[4]
    BY <2>3 DEF Later
  <2>5. y[4] \in Nat
    BY DEF HeardSound
  <2> QED
    BY <1>2, <2>2, <2>3, <2>4, <2>5
<1>3. ASSUME NEW n, NEW s, Resolved(n, s, t) PROVE Resolved(n, s, then)
  BY <1>3 DEF Resolved
<1> QED
  BY <1>1, <1>2, <1>3

\* The caches and the rows are sound later too.
LEMMA NmLater ==
  ASSUME NEW t \in Nat, NEW then \in Nat, t <= then, NEW H, NEW I, HeardSound(H, t), HeardSound(I, then), Later(H, I, then), NEW V
  PROVE  /\ \A F : NamesSound(F, V, t, H) => NamesSound(F, V, then, I)
         /\ \A F : FoundSound(F, V, t) => FoundSound(F, V, then)
         /\ \A r, s : RowSound(r, s, t, H) => RowSound(r, s, then, I)
         /\ \A w, F, ready, known : WorkSound(w, V, F, t, ready, known) => WorkSound(w, V, F, then, ready, known)
<1>0. /\ \A n, s, a : Supported(n, s, a, t, H) => Supported(n, s, a, then, I)
      /\ \A n, s, a : n.updated \in Nat /\ Confirmed(n, s, a, t, H) => Confirmed(n, s, a, then, I)
      /\ \A n, s : Resolved(n, s, t) => Resolved(n, s, then)
  BY NmKeeps
<1>1. ASSUME NEW F, NamesSound(F, V, t, H) PROVE NamesSound(F, V, then, I)
  <2>1. \A a \in DOMAIN F : F[a].name.updated \in Nat
    BY <1>1 DEF NamesSound, Supported
  <2> QED
    BY <1>0, <1>1, <2>1 DEF NamesSound
<1>2. ASSUME NEW F, FoundSound(F, V, t) PROVE FoundSound(F, V, then)
  BY <1>0, <1>2 DEF FoundSound
<1>3. ASSUME NEW r, NEW s, RowSound(r, s, t, H) PROVE RowSound(r, s, then, I)
  BY <1>0, <1>3 DEF RowSound
<1>4. ASSUME NEW w, NEW F, NEW ready, NEW known, WorkSound(w, V, F, t, ready, known) PROVE WorkSound(w, V, F, then, ready, known)
  BY <1>0, <1>4 DEF WorkSound
<1> QED
  BY <1>1, <1>2, <1>3, <1>4

\* Choosing again from the live evidence gives a name that was heard.
LEMMA NmEnriched ==
  ASSUME NEW t \in Nat, NEW H, HeardSound(H, t), NEW n, NEW s, NEW a, Supported(n, s, a, t, H), t < n.expires
  PROVE  LET m == CN!Enriched(n, t) IN
         /\ Supported(m, s, a, t, H) /\ Confirmed(m, s, a, t, H)
         /\ m.expires = n.expires /\ m.updated = n.updated
         /\ \E x \in H : x[1] = s /\ x[2] = a /\ m.name \in {x[3].label, x[3].host} /\ t < x[4]
<1> DEFINE m == CN!Enriched(n, t)
           E == {e \in n.evidence : t < e.expires}
           hosts == {e.host : e \in E}
           host == IF n.host \in hosts THEN n.host ELSE CHOOSE h \in hosts : TRUE
           R == {p \in E \X E : p[1].rank > p[2].rank}
           best == CHOOSE e \in E : \A f \in E : e.rank >= f.rank
           details == {e.detail : e \in E} \ {""}
           chosen == IF best.rank > HostRank THEN best.label ELSE host
           detail == IF details = {} THEN "" ELSE CHOOSE d \in details : TRUE
<1>1. PICK e0 \in n.evidence : e0.expires = n.expires
  BY DEF Supported
<1>2. e0 \in E /\ E # {} /\ IsFiniteSet(E) /\ \A e \in E : e.rank \in Nat /\ Evident(e, s, a, t, H)
  <2>1. e0 \in E
    BY <1>1
  <2>2. IsFiniteSet(E)
    BY FS_Subset DEF Supported
  <2> QED
    BY <2>1, <2>2 DEF Supported, Evident
<1>3. best \in E
  <2>1. \E e \in E : \A f \in E : <<f, e>> \notin R
    <3>1. \A e \in E : <<e, e>> \notin R
      <4>1. ASSUME NEW e \in E PROVE <<e, e>> \notin R
        <5>1. e.rank \in Nat
          BY <1>2
        <5> QED
          BY <5>1
      <4> QED
        BY <4>1
    <3>2. \A e, f, g \in E : <<e, f>> \in R /\ <<f, g>> \in R => <<e, g>> \in R
      <4>1. ASSUME NEW e \in E, NEW f \in E, NEW g \in E, <<e, f>> \in R, <<f, g>> \in R PROVE <<e, g>> \in R
        <5>1. e.rank \in Nat /\ f.rank \in Nat /\ g.rank \in Nat /\ e.rank > f.rank /\ f.rank > g.rank
          BY <1>2, <4>1
        <5>2. e.rank > g.rank
          BY <5>1
        <5> QED
          BY <5>2
      <4> QED
        BY <4>1
    <3> HIDE DEF R, E
    <3> QED
      BY <1>2, <3>1, <3>2, FirstOf
  <2>2. PICK e \in E : \A f \in E : <<f, e>> \notin R
    BY <2>1
  <2>3. \A f \in E : e.rank >= f.rank
    <3>1. ASSUME NEW f \in E PROVE e.rank >= f.rank
      <4>1. ~(f.rank > e.rank) /\ f.rank \in Nat /\ e.rank \in Nat
        BY <1>2, <2>2
      <4> QED
        BY <4>1
    <3> QED
      BY <3>1
  <2> QED
    BY <2>3
<1>4. host \in hosts
  <2>1. e0.host \in hosts
    BY <1>2
  <2> QED
    BY <2>1
<1>5. PICK e \in E : chosen \in {e.label, e.host}
  <2>1. CASE best.rank > HostRank
    BY <1>3, <2>1
  <2>2. CASE ~(best.rank > HostRank)
    BY <1>4, <2>2
  <2> QED
    BY <2>1, <2>2
<1>6. m = [n EXCEPT !.evidence = E, !.host = host, !.fresh = TRUE, !.name = chosen, !.detail = detail]
  BY DEF CN!Enriched
<1> HIDE DEF m, E, host, chosen, detail
<1>7. /\ m.evidence = E /\ m.name = chosen /\ m.kind = n.kind /\ m.scope = n.scope /\ m.updated = n.updated /\ m.expires = n.expires
      /\ Whole(m)
  BY <1>6 DEF Supported, Whole
<1>8. e \in n.evidence /\ t < e.expires /\ e.expires \in Nat
  BY <1>5 DEF E, Supported, Evident
<1>9. PICK x \in H : x[1] = s /\ x[2] = a /\ x[3].label = e.label /\ x[3].host = e.host /\ x[4] >= e.expires
  BY <1>8 DEF Supported, Evident
<1>10. m.name \in {x[3].label, x[3].host} /\ x[4] \in Nat /\ t < x[4] /\ n.updated \in Nat /\ n.updated <= t /\ x[4] >= m.updated
  BY <1>5, <1>7, <1>8, <1>9 DEF HeardSound, Supported
<1>11. Supported(m, s, a, t, H)
  BY <1>1, <1>2, <1>7 DEF Supported
<1>12. Confirmed(m, s, a, t, H)
  BY <1>9, <1>10 DEF Confirmed
<1> QED
  BY <1>7, <1>9, <1>10, <1>11, <1>12 DEF m

\* What the loop knows from the live advertisements of an address was heard.
LEMMA NmLive ==
  ASSUME NmInv, NEW a \in Addresses, CN!Live(a) # CN!Unknown
  PROVE  /\ Supported(CN!Live(a), CN!Views[loop].scope, a, clock, heard)
         /\ Confirmed(CN!Live(a), CN!Views[loop].scope, a, clock, heard)
<1> DEFINE E == {e \in records[a] : clock < e.expires}
           S == {e.learned : e \in E}
           X == {e.expires : e \in E}
           n == [CN!Unknown EXCEPT !.kind = "multicast", !.scope = CN!Views[loop].scope, !.evidence = E,
                                   !.updated = CN!Max(S), !.expires = CN!Max(X)]
<1>1. E # {} /\ CN!Live(a) = CN!Enriched(n, clock)
  BY DEF CN!Live
<1>2. IsFiniteSet(E) /\ clock \in Nat /\ Life \in Nat /\ HeardSound(heard, clock)
  BY FS_Subset, NmBounds DEF NmInv, NmType, RecordsSound
<1>3. \A e \in E : /\ Evident(e, CN!Views[loop].scope, a, clock, heard) /\ e.learned \in 0 .. clock
                   /\ e.expires \in 0 .. clock + Life /\ clock < e.expires
  <2> SUFFICES ASSUME NEW e \in E
               PROVE  /\ Evident(e, CN!Views[loop].scope, a, clock, heard) /\ e.learned \in 0 .. clock
                      /\ e.expires \in 0 .. clock + Life /\ clock < e.expires
    OBVIOUS
  <2>1. e \in records[a] /\ clock < e.expires
    OBVIOUS
  <2>2. Evident(e, CN!Views[loop].scope, a, clock, heard) /\ e.learned \in Nat /\ e.learned <= clock /\ e.expires <= clock + Life
    BY <2>1 DEF NmInv, RecordsSound
  <2>3. e.expires \in Nat
    BY <2>2 DEF Evident
  <2> QED
    BY <1>2, <2>1, <2>2, <2>3
<1>4. CN!Max(S) \in S
  <2>1. S \in SUBSET (0 .. clock) /\ S # {}
    BY <1>1, <1>3
  <2> HIDE DEF S
  <2> QED
    BY <1>2, <2>1, Greatest, NmMax
<1>5. CN!Max(X) \in X
  <2>1. X \in SUBSET (0 .. clock + Life) /\ X # {}
    BY <1>1, <1>3
  <2>2. clock + Life \in Nat
    BY <1>2
  <2> HIDE DEF X
  <2> QED
    BY <2>1, <2>2, Greatest, NmMax
<1>6. PICK e \in E : e.expires = CN!Max(X)
  BY <1>5
<1>7. CN!Max(S) \in Nat /\ CN!Max(S) <= clock /\ clock < CN!Max(X)
  BY <1>2, <1>3, <1>4, <1>6
<1> HIDE DEF E, S, X
<1>8. /\ n.kind = "multicast" /\ n.scope = CN!Views[loop].scope /\ n.evidence = E /\ n.updated = CN!Max(S) /\ n.expires = CN!Max(X) /\ Whole(n)
  <2>1. Whole(CN!Unknown)
    BY DEF CN!Unknown, Whole
  <2> DEFINE scope == CN!Views[loop].scope
             updated == CN!Max(S)
             expires == CN!Max(X)
  <2>2. n = [CN!Unknown EXCEPT !.kind = "multicast", !.scope = scope, !.evidence = E, !.updated = updated, !.expires = expires]
    OBVIOUS
  <2> SUFFICES n.kind = "multicast" /\ n.scope = scope /\ n.evidence = E /\ n.updated = updated /\ n.expires = expires /\ Whole(n)
    OBVIOUS
  <2> HIDE DEF n, scope, updated, expires
  <2>3. n.kind = "multicast" /\ n.scope = scope /\ n.evidence = E /\ n.updated = updated /\ n.expires = expires
    BY <2>1, <2>2 DEF Whole
  <2>4. n.name = CN!Unknown.name /\ n.host = CN!Unknown.host /\ n.detail = CN!Unknown.detail /\ n.fresh = CN!Unknown.fresh
    BY <2>1, <2>2 DEF Whole
  <2>5. n = [name |-> CN!Unknown.name, kind |-> "multicast", updated |-> updated, expires |-> expires, host |-> CN!Unknown.host,
             detail |-> CN!Unknown.detail, evidence |-> E, fresh |-> CN!Unknown.fresh, scope |-> scope]
    BY <2>1, <2>2 DEF Whole
  <2> QED
    BY <2>3, <2>4, <2>5 DEF Whole
<1>9. Supported(n, CN!Views[loop].scope, a, clock, heard)
  BY <1>2, <1>3, <1>6, <1>7, <1>8 DEF Supported
<1> HIDE DEF n
<1> QED
  BY <1>1, <1>2, <1>7, <1>8, <1>9, NmEnriched

\* A remembered name is kept as it is, but for its freshness.
LEMMA NmPrefer ==
  ASSUME NEW t \in Nat, NEW H, NEW p, NEW l, NEW s, NEW a, Supported(p, s, a, t, H), Confirmed(p, s, a, t, H), CN!Prefer(p, l, t) # l
  PROVE  /\ Supported(CN!Prefer(p, l, t), s, a, t, H) /\ Confirmed(CN!Prefer(p, l, t), s, a, t, H)
         /\ t < p.updated + Retention /\ CN!Prefer(p, l, t).updated = p.updated
<1> DEFINE q == CN!Prefer(p, l, t)
<1>1. q = [p EXCEPT !.fresh = FALSE] /\ CN!Retain(p, t)
  BY DEF CN!Prefer
<1> HIDE DEF q
<1>2. /\ q.kind = p.kind /\ q.scope = p.scope /\ q.evidence = p.evidence /\ q.updated = p.updated /\ q.expires = p.expires
      /\ q.name = p.name /\ Whole(q)
  BY <1>1 DEF Supported, Whole
<1>3. Supported(q, s, a, t, H)
  BY <1>2 DEF Supported
<1>4. Confirmed(q, s, a, t, H)
  BY <1>2 DEF Confirmed
<1> QED
  BY <1>1, <1>2, <1>3, <1>4 DEF q, CN!Retain

\* What is read from a remembered name was heard less than the retention ago.
LEMMA NmMerge ==
  ASSUME NEW t \in Nat, NEW H, HeardSound(H, t), NEW m, NEW s, NEW a, NEW primary,
         Kept(m, s, a, t, H), NEW n, n = CN!Merge(primary, m, t), n # primary
  PROVE  /\ Replaceable(primary)
         /\ n.kind = "multicast" => n.scope = s /\ Current(n, s, a, t, H)
         /\ n.kind # "multicast" => n.kind = "unknown"
<1> DEFINE live == IF m.evidence # {} THEN CN!Enriched(m, t) ELSE m
           shown == IF t < live.expires THEN live ELSE CN!Unknown
           best == CN!Prefer(m, shown, t)
<1>1. n = best /\ Replaceable(primary)
  BY DEF CN!Merge, Replaceable
<1>2. CASE m = CN!Unknown
  <2>1. m.evidence = {} /\ m.expires = 0 /\ m.name = "" /\ m.kind = "unknown"
    BY <1>2 DEF CN!Unknown
  <2>2. shown = m
    BY <1>2, <2>1
  <2>3. best = m
    BY <2>1, <2>2 DEF CN!Prefer, CN!Retain
  <2> QED
    BY <1>1, <2>1, <2>3
<1>3. CASE Supported(m, s, a, t, H) /\ Confirmed(m, s, a, t, H)
  <2>1. m.evidence # {} /\ m.expires \in Nat
    BY <1>3 DEF Supported, Evident
  <2>2. live = CN!Enriched(m, t)
    BY <2>1
  <2>3. CASE best # shown
    <3>1. Supported(best, s, a, t, H) /\ Confirmed(best, s, a, t, H) /\ t < m.updated + Retention /\ best.updated = m.updated
      BY <1>3, <2>3, NmPrefer
    <3>2. PICK x \in H : x[1] = s /\ x[2] = a /\ best.name \in {x[3].label, x[3].host} /\ x[4] >= best.updated
      BY <3>1 DEF Confirmed
    <3>3. x[4] \in Nat /\ m.updated \in Nat
      BY <1>3, <3>2 DEF HeardSound, Supported
    <3>4. t < x[4] + Retention
      BY <3>1, <3>2, <3>3, NmBounds
    <3>5. best.kind = "multicast" /\ best.scope = s
      BY <3>1 DEF Supported
    <3> HIDE DEF best
    <3> QED
      BY <1>1, <3>2, <3>4, <3>5 DEF Current
  <2>4. CASE best = shown /\ t < m.expires
    <3>1. /\ Supported(live, s, a, t, H) /\ live.expires = m.expires
          /\ \E x \in H : x[1] = s /\ x[2] = a /\ live.name \in {x[3].label, x[3].host} /\ t < x[4]
      BY <1>3, <2>2, <2>4, NmEnriched
    <3>2. best = live
      BY <2>4, <3>1
    <3>3. PICK x \in H : x[1] = s /\ x[2] = a /\ live.name \in {x[3].label, x[3].host} /\ t < x[4]
      BY <3>1
    <3>4. x[4] \in Nat
      BY <3>3 DEF HeardSound
    <3>5. t < x[4] + Retention
      BY <3>3, <3>4, NmBounds
    <3>6. best.kind = "multicast" /\ best.scope = s
      BY <3>1, <3>2 DEF Supported
    <3> HIDE DEF best, live
    <3> QED
      BY <1>1, <3>2, <3>3, <3>5, <3>6 DEF Current
  <2>5. CASE best = shown /\ ~(t < m.expires)
    <3>1. live = CN!Unknown
      BY <2>2, <2>5 DEF CN!Enriched
    <3>2. shown = CN!Unknown /\ CN!Unknown.kind = "unknown"
      BY <3>1 DEF CN!Unknown
    <3> QED
      BY <1>1, <2>5, <3>2
  <2> QED
    BY <2>3, <2>4, <2>5
<1> QED
  BY <1>2, <1>3 DEF Kept

\* The name, kind and scope of a configured name.
LEMMA NmConfigured ==
  ASSUME NEW c, NEW name, NEW kind
  PROVE  /\ CN!Configured(c, name, kind).name = name /\ CN!Configured(c, name, kind).kind = kind
         /\ CN!Configured(c, name, kind).scope = c.scope /\ CN!Configured(c, name, kind).fresh
<1> DEFINE n == CN!Configured(c, name, kind)
           scope == c.scope
<1>1. Whole(CN!Unknown)
  BY DEF CN!Unknown, Whole
<1>2. n = [CN!Unknown EXCEPT !.name = name, !.kind = kind, !.fresh = TRUE, !.scope = scope]
  BY DEF CN!Configured
<1> SUFFICES n.name = name /\ n.kind = kind /\ n.scope = scope /\ n.fresh
  OBVIOUS
<1> HIDE DEF n, scope
<1> QED
  BY <1>1, <1>2 DEF Whole

\* What Lookup finds was configured, or found with the settings in force.
LEMMA NmLookup ==
  ASSUME NmInv, NEW a, a \notin DOMAIN CN!Views[view].overrides
  PROVE  /\ CN!Lookup(a).kind \in {"local", "resolved", "unknown"}
         /\ CN!Lookup(a).kind = "resolved" => CN!Lookup(a).scope = CN!Views[view].scope
<1>1. CASE a \in DOMAIN CN!Views[view].local
  <2>1. CN!Lookup(a) = CN!Configured(CN!Views[view], CN!Views[view].local[a], "local")
    BY <1>1 DEF CN!Lookup
  <2> QED
    BY <2>1, NmConfigured
<1>2. CASE a \notin DOMAIN CN!Views[view].local /\ a \in DOMAIN cache /\ CN!Compatible(cache[a].view, view)
  <2> DEFINE fresh == clock < cache[a].name.expires
             n == cache[a].name
             m == [n EXCEPT !.fresh = fresh]
  <2>1. CN!Lookup(a) = m
    BY <1>2 DEF CN!Lookup
  <2>2. Whole(n) /\ n.kind \in {"resolved", "unknown"} /\ n.scope = CN!Views[cache[a].view].scope
    BY <1>2 DEF NmInv, FoundSound, Resolved
  <2>3. CN!Views[cache[a].view].scope = CN!Views[view].scope
    BY <1>2 DEF CN!Compatible
  <2>4. m.kind = n.kind /\ m.scope = n.scope
    <3> HIDE DEF n, fresh
    <3> QED
      BY <2>2 DEF Whole
  <2> HIDE DEF m, n
  <2> QED
    BY <2>1, <2>2, <2>3, <2>4
<1>3. CASE a \notin DOMAIN CN!Views[view].local /\ ~(a \in DOMAIN cache /\ CN!Compatible(cache[a].view, view))
  <2>1. CN!Lookup(a) = CN!Unknown
    BY <1>3 DEF CN!Lookup
  <2>2. CN!Unknown.kind = "unknown"
    BY DEF CN!Unknown
  <2> QED
    BY <2>1, <2>2
<1> QED
  BY <1>1, <1>2, <1>3

\* What is remembered of an address is nothing, or was heard in the scope of the current view.
LEMMA NmRemembered ==
  ASSUME NmInv, NEW a
  PROVE  Kept(CN!Remembered(a), CN!Views[view].scope, a, clock, heard)
<1>1. ASSUME a \in DOMAIN mdnsNames, CN!Compatible(mdnsNames[a].view, view)
      PROVE  /\ Supported(mdnsNames[a].name, CN!Views[view].scope, a, clock, heard)
             /\ Confirmed(mdnsNames[a].name, CN!Views[view].scope, a, clock, heard)
  BY <1>1 DEF NmInv, NamesSound, CN!Compatible
<1> QED
  BY <1>1 DEF CN!Remembered, Kept

\* The invariant says what ShownIsKnown asks.
LEMMA NmShown == NmInv => CN!ShownIsKnown
<1> SUFFICES ASSUME NmInv, NEW a \in Addresses
             PROVE  LET c == CN!Views[view]
                        n == CN!Get(a)
                    IN /\ a \in DOMAIN c.overrides => n.name = c.overrides[a]
                       /\ n.kind \in {"resolved", "multicast"} => n.scope = c.scope
                       /\ n.kind = "multicast" => Current(n, c.scope, a, clock, heard)
  BY DEF CN!ShownIsKnown, Current
<1> DEFINE c == CN!Views[view]
           n == CN!Lookup(a)
           leased == n.kind \notin {"override", "local"} /\ CN!Lease(a).name # ""
           given == CN!Configured(c, CN!Lease(a).name, "lease")
           primary == IF leased /\ ~CN!Lease(a).generic THEN given ELSE n
           merged == CN!Merge(primary, CN!Remembered(a), clock)
<1>1. CN!Get(a) = IF merged.name = "" /\ leased THEN given ELSE merged
  BY DEF CN!Get
<1>2. clock \in Nat /\ HeardSound(heard, clock) /\ plan \in Plans /\ view \in 1 .. Len(CN!Views)
  BY DEF NmInv, NmType
<1>3. merged # primary =>
        /\ Replaceable(primary)
        /\ merged.kind = "multicast" => merged.scope = c.scope /\ Current(merged, c.scope, a, clock, heard)
        /\ merged.kind # "multicast" => merged.kind = "unknown"
  <2> DEFINE m == CN!Remembered(a)
             s == c.scope
  <2>1. Kept(m, s, a, clock, heard)
    BY NmRemembered
  <2> HIDE DEF m, s, primary
  <2> HIDE DEF merged
  <2>2. ASSUME merged # primary
        PROVE  /\ Replaceable(primary)
               /\ merged.kind = "multicast" => merged.scope = s /\ Current(merged, s, a, clock, heard)
               /\ merged.kind # "multicast" => merged.kind = "unknown"
    <3>1. merged = CN!Merge(primary, m, clock)
      BY DEF merged, m
    <3> QED
      BY <1>2, <2>1, <2>2, <3>1, NmMerge
  <2> QED
    BY <2>2 DEF m, s
<1>4. given.kind = "lease"
  BY NmConfigured
<1>5. CASE a \in DOMAIN c.overrides
  <2>1. n = CN!Configured(c, c.overrides[a], "override")
    BY <1>5 DEF CN!Lookup
  <2>2. n.name = c.overrides[a] /\ n.kind = "override"
    BY <2>1, NmConfigured
  <2>3. c.overrides[a] # ""
    BY <1>2, <1>5, NamesAssumption DEF CN!Views
  <2>4. primary = n
    BY <2>2
  <2>5. merged = n
    BY <1>3, <2>2, <2>3, <2>4 DEF Replaceable
  <2>6. CN!Get(a) = n
    BY <1>1, <2>2, <2>3, <2>5
  <2> HIDE DEF n
  <2> QED
    BY <2>2, <2>6
<1>6. CASE a \notin DOMAIN c.overrides
  <2>1. n.kind \in {"local", "resolved", "unknown"} /\ (n.kind = "resolved" => n.scope = c.scope)
    BY <1>6, NmLookup
  <2>2. primary.kind \in {"lease", "local", "resolved", "unknown"} /\ (primary.kind = "resolved" => primary.scope = c.scope)
    <3> HIDE DEF given, n, leased
    <3> QED
      BY <1>4, <2>1
  <2>3. CN!Get(a) \in {given, primary, merged}
    BY <1>1
  <2> HIDE DEF given, primary, merged
  <2> QED
    BY <1>3, <1>4, <1>6, <2>2, <2>3
<1> QED
  BY <1>5, <1>6

\* A finite set has subsets of every smaller size.
LEMMA NmSubset ==
  ASSUME NEW S, IsFiniteSet(S), NEW k \in Nat, k <= Cardinality(S)
  PROVE  \E T \in SUBSET S : Cardinality(T) = k
<1> DEFINE n == Cardinality(S)
<1>1. n \in Nat /\ ExistsBijection(1 .. n, S)
  BY FS_CardinalityType
<1>2. PICK f \in Bijection(1 .. n, S) : TRUE
  BY <1>1 DEF ExistsBijection
<1> HIDE DEF n
<1> DEFINE T == {f[i] : i \in 1 .. k}
           g == [i \in 1 .. k |-> f[i]]
<1>3. /\ \A i \in 1 .. n : f[i] \in S
      /\ \A i, j \in 1 .. n : f[i] = f[j] => i = j
  BY <1>2 DEF Bijection, Injection, IsInjective, Surjection
<1>4. 1 .. k \subseteq 1 .. n
  BY <1>1 DEF n
<1>5. T \in SUBSET S
  BY <1>3, <1>4
<1>6. g \in Bijection(1 .. k, T)
  <2>1. g \in [1 .. k -> T]
    OBVIOUS
  <2>2. \A i, j \in 1 .. k : g[i] = g[j] => i = j
    BY <1>3, <1>4
  <2>3. \A t \in T : \E i \in 1 .. k : g[i] = t
    OBVIOUS
  <2> HIDE DEF g, T
  <2> QED
    BY <2>1, <2>2, <2>3 DEF Bijection, Injection, IsInjective, Surjection
<1>7. IsFiniteSet(1 .. k) /\ Cardinality(1 .. k) = k
  BY FS_Interval
<1>8. Cardinality(T) = k
  <2> HIDE DEF g, T
  <2>1. ExistsBijection(1 .. k, T)
    BY <1>6 DEF ExistsBijection
  <2> QED
    BY <1>7, <2>1, FS_Bijection
<1> QED
  BY <1>5, <1>8

\* The entry of a cache that was recovered from a row, over what the cache F had.
Recovered(e, F, a, kind, known) ==
  \E r \in known : r[1] = a /\ r[2].kind = kind /\ CN!Newer(F, a, r[2]) /\ e = [view |-> view, name |-> r[2]]

\* A recovery keeps what is known, or takes a newer row.
LEMMA NmRehydrated ==
  ASSUME NEW F, DOMAIN F \subseteq Addresses, NEW kind, NEW known, \A r \in known : r[1] \in Addresses,
         NEW G, G = CN!Rehydrated(F, kind, known)
  PROVE  /\ DOMAIN F \subseteq DOMAIN G /\ DOMAIN G \subseteq Addresses
         /\ \A a \in DOMAIN G : (a \in DOMAIN F /\ G[a] = F[a]) \/ Recovered(G[a], F, a, kind, known)
<1> DEFINE R == {r \in known : /\ r[2].kind = kind /\ CN!Persistable(r[2], clock)
                               /\ kind = "multicast" => CN!Views[view].mdns
                               /\ CN!Newer(F, r[1], r[2])}
           new == {r[1] : r \in R} \ DOMAIN F
           room == IF Cardinality(DOMAIN F) < NameLimit THEN NameLimit - Cardinality(DOMAIN F) ELSE 0
           added == IF Cardinality(new) <= room THEN new ELSE CHOOSE S \in SUBSET new : Cardinality(S) = room
<1>1. G = [a \in DOMAIN F \cup added |->
             IF \E r \in R : r[1] = a THEN [view |-> view, name |-> (CHOOSE r \in R : r[1] = a)[2]] ELSE F[a]]
  BY NmCardinality DEF CN!Rehydrated
<1>2. new \subseteq Addresses /\ \A a \in new : \E r \in R : r[1] = a
  OBVIOUS
<1>3. added \subseteq new
  <2>1. IsFiniteSet(new) /\ IsFiniteSet(DOMAIN F)
    <3> HIDE DEF new
    <3> QED
      BY <1>2, NmBounds, FS_Subset
  <2>2. Cardinality(new) \in Nat /\ room \in Nat
    <3>1. Cardinality(DOMAIN F) \in Nat
      BY <2>1, FS_CardinalityType
    <3> HIDE DEF new
    <3> QED
      BY <2>1, <3>1, NmBounds, FS_CardinalityType
  <2> HIDE DEF new, room
  <2>3. CASE ~(Cardinality(new) <= room)
    <3>1. \E S \in SUBSET new : Cardinality(S) = room
      BY <2>1, <2>2, <2>3, NmSubset
    <3> QED
      BY <2>3, <3>1
  <2>4. CASE Cardinality(new) <= room
    BY <2>4
  <2> QED
    BY <2>3, <2>4
<1> HIDE DEF added, new
<1>4. DOMAIN G = DOMAIN F \cup added
  BY <1>1
<1>5. ASSUME NEW a \in DOMAIN G, ~(a \in DOMAIN F /\ G[a] = F[a]) PROVE Recovered(G[a], F, a, kind, known)
  <2>1. \E r \in R : r[1] = a
    <3> HIDE DEF R
    <3>1. CASE a \in DOMAIN F
      BY <1>1, <1>4, <1>5, <3>1
    <3>2. CASE a \notin DOMAIN F
      BY <1>2, <1>3, <1>4, <1>5, <3>2
    <3> QED
      BY <3>1, <3>2
  <2> DEFINE r == CHOOSE k \in R : k[1] = a
  <2>2. r \in R /\ r[1] = a
    <3> HIDE DEF R
    <3> QED
      BY <2>1
  <2>3. G[a] = [view |-> view, name |-> r[2]]
    <3> HIDE DEF R
    <3> QED
      BY <1>1, <1>4, <2>1
  <2>4. r \in known /\ r[2].kind = kind /\ CN!Newer(F, a, r[2])
    BY <2>2
  <2> HIDE DEF r
  <2> QED
    BY <2>2, <2>3, <2>4 DEF Recovered
<1> QED
  BY <1>2, <1>3, <1>4, <1>5

\* The caches are sound after a recovery.
LEMMA NmFoundAgain ==
  ASSUME NmType, NEW F, FoundSound(F, CN!Views, clock), NEW known, \A r \in known : RowSound(r, CN!Views[view].scope, clock, heard),
         NEW G, G = CN!Rehydrated(F, "resolved", known)
  PROVE  FoundSound(G, CN!Views, clock)
<1>1. DOMAIN F \subseteq Addresses /\ \A r \in known : r[1] \in Addresses
  BY DEF FoundSound, RowSound
<1>2. /\ DOMAIN G \subseteq Addresses
      /\ \A a \in DOMAIN G : (a \in DOMAIN F /\ G[a] = F[a]) \/ Recovered(G[a], F, a, "resolved", known)
  BY <1>1, NmRehydrated
<1>3. ASSUME NEW a \in DOMAIN G PROVE G[a].view \in 1 .. Len(CN!Views) /\ Resolved(G[a].name, CN!Views[G[a].view].scope, clock)
  <2>1. CASE a \in DOMAIN F /\ G[a] = F[a]
    BY <2>1 DEF FoundSound
  <2>2. CASE Recovered(G[a], F, a, "resolved", known)
    <3>1. PICK r \in known : r[2].kind = "resolved" /\ G[a] = [view |-> view, name |-> r[2]]
      BY <2>2 DEF Recovered
    <3>2. Resolved(r[2], CN!Views[view].scope, clock) /\ view \in 1 .. Len(CN!Views)
      BY <3>1 DEF RowSound, NmType
    <3>3. G[a].view = view /\ G[a].name = r[2]
      BY <3>1
    <3> QED
      BY <3>2, <3>3
  <2> QED
    BY <1>2, <2>1, <2>2
<1> QED
  BY <1>2, <1>3 DEF FoundSound

\* The same for multicast names.
LEMMA NmNamesAgain ==
  ASSUME NmType, NEW F, NamesSound(F, CN!Views, clock, heard), NEW known, \A r \in known : RowSound(r, CN!Views[view].scope, clock, heard),
         NEW G, G = CN!Rehydrated(F, "multicast", known)
  PROVE  NamesSound(G, CN!Views, clock, heard)
<1>1. DOMAIN F \subseteq Addresses /\ \A r \in known : r[1] \in Addresses
  BY DEF NamesSound, RowSound
<1>2. /\ DOMAIN G \subseteq Addresses
      /\ \A a \in DOMAIN G : (a \in DOMAIN F /\ G[a] = F[a]) \/ Recovered(G[a], F, a, "multicast", known)
  BY <1>1, NmRehydrated
<1>3. ASSUME NEW a \in DOMAIN G
      PROVE  /\ G[a] = [view |-> G[a].view, name |-> G[a].name] /\ G[a].view \in 1 .. Len(CN!Views)
             /\ Supported(G[a].name, CN!Views[G[a].view].scope, a, clock, heard)
             /\ Confirmed(G[a].name, CN!Views[G[a].view].scope, a, clock, heard)
  <2>1. CASE a \in DOMAIN F /\ G[a] = F[a]
    BY <2>1 DEF NamesSound
  <2>2. CASE Recovered(G[a], F, a, "multicast", known)
    <3>1. PICK r \in known : r[1] = a /\ r[2].kind = "multicast" /\ G[a] = [view |-> view, name |-> r[2]]
      BY <2>2 DEF Recovered
    <3>2. /\ Supported(r[2], CN!Views[view].scope, a, clock, heard) /\ Confirmed(r[2], CN!Views[view].scope, a, clock, heard)
          /\ view \in 1 .. Len(CN!Views)
      BY <3>1 DEF RowSound, NmType
    <3>3. G[a].view = view /\ G[a].name = r[2]
      BY <3>1
    <3> QED
      BY <3>1, <3>2, <3>3
  <2> QED
    BY <1>2, <2>1, <2>2
<1> QED
  BY <1>2, <1>3 DEF NamesSound

\* The empty cache.
LEMMA NmNothing == DOMAIN <<>> = {}
  OBVIOUS

\* At first nothing is known.
LEMMA NmInit == CN!Init => NmInv
<1> SUFFICES ASSUME CN!Init PROVE NmInv
  OBVIOUS
<1>1. plan \in Plans /\ Len(CN!Views) \in Nat \ {0}
  BY NamesAssumption DEF CN!Init, CN!Views
<1>2. NmType
  <2> DEFINE n == Len(CN!Views)
  <2>1. 1 \in 1 .. n /\ 0 \in 0 .. n
    <3> HIDE DEF n
    <3> QED
      BY <1>1 DEF n
  <2>2. clock = 0 /\ boots = 0 /\ view = 1 /\ loop = 0 /\ pendingNames = {} /\ heard = {}
    BY DEF CN!Init
  <2>3. HeardSound(heard, clock)
    BY <2>2 DEF HeardSound
  <2> HIDE DEF n
  <2> QED
    BY <1>1, <2>1, <2>2, <2>3 DEF NmType, n
<1>3. RecordsSound(records, CN!Views, loop, clock, heard)
  BY FS_EmptySet DEF CN!Init, RecordsSound
<1>4. WorkSound(work, CN!Views, cache, clock, restored, saved.rows)
  BY DEF CN!Init, WorkSound
<1>5. FoundSound(cache, CN!Views, clock) /\ NamesSound(mdnsNames, CN!Views, clock, heard)
  BY NmNothing DEF CN!Init, FoundSound, NamesSound
<1>6. \A r \in saved.rows : RowSound(r, saved.scope, clock, heard)
  BY DEF CN!Init
<1> QED
  BY <1>2, <1>3, <1>4, <1>5, <1>6 DEF NmInv

\* Addresses are queued.
LEMMA NmObserve == ASSUME NmInv, NEW a \in Addresses, CN!Observe(a) PROVE NmInv'
<1>1. CN!Views' = CN!Views
  BY DEF CN!Observe, CN!Views
<1>2. NmType'
  BY <1>1 DEF CN!Observe, NmInv, NmType
<1> QED
  BY <1>1, <1>2 DEF CN!Observe, NmInv

\* The worker takes a job; what it finds is newer than all that is known.
LEMMA NmTake == ASSUME NmInv, NEW j \in pendingNames, CN!Take(j) PROVE NmInv'
<1>1. CN!Views' = CN!Views
  BY DEF CN!Take, CN!Views
<1>2. NmType'
  BY <1>1 DEF CN!Take, NmInv, NmType
<1>3. clock \in Nat /\ clock <= clock
  BY DEF NmInv, NmType
<1>4. WorkSound(work', CN!Views, cache, clock, restored, saved.rows)
  <2>1. CASE work' = work
    BY <2>1 DEF NmInv
  <2>2. CASE \E n \in CN!Found(j[1]) : work' = [job |-> j, name |-> n]
    <3>1. PICK n \in CN!Found(j[1]) : work' = [job |-> j, name |-> n]
      BY <2>2
    <3> DEFINE kind == IF CN!Views[j[1]].resolves THEN "resolved" ELSE "unknown"
               expiry(x) == clock + IF x = "" THEN Life ELSE NameLife
               scope == CN!Views[j[1]].scope
               result(x) == [CN!Unknown EXCEPT !.name = x, !.kind = kind, !.updated = clock, !.expires = expiry(x), !.scope = scope]
               X == {""} \cup (IF CN!Views[j[1]].resolves THEN Answers ELSE {})
    <3>2. PICK x \in X : n = result(x)
      <4>1. CN!Found(j[1]) = {result(x) : x \in X}
        BY DEF CN!Found
      <4> HIDE DEF X, result
      <4> QED
        BY <4>1
    <3> DEFINE expires == expiry(x)
    <3>3. Whole(CN!Unknown)
      BY DEF CN!Unknown, Whole
    <3>4. n.kind = kind /\ n.scope = scope /\ n.updated = clock /\ n.expires = expires /\ n.name = x
      <4> HIDE DEF kind, scope, expires
      <4> QED
        BY <3>2, <3>3 DEF Whole, kind, expires, scope
    <3>5. Whole(n)
      <4>1. n = [CN!Unknown EXCEPT !.name = x, !.kind = kind, !.updated = clock, !.expires = expires, !.scope = scope]
        BY <3>2
      <4> HIDE DEF kind, scope, expires
      <4>2. n = [name |-> x, kind |-> kind, updated |-> clock, expires |-> expires, host |-> CN!Unknown.host,
                 detail |-> CN!Unknown.detail, evidence |-> CN!Unknown.evidence, fresh |-> CN!Unknown.fresh, scope |-> scope]
        BY <3>3, <4>1 DEF Whole
      <4> QED
        BY <4>2 DEF Whole
    <3>6. Resolved(n, CN!Views[j[1]].scope, clock)
      <4>1. kind \in {"resolved", "unknown"}
        OBVIOUS
      <4> HIDE DEF kind
      <4> QED
        BY <1>3, <3>4, <3>5, <4>1 DEF Resolved
    <3>7. \A a \in DOMAIN cache : cache[a].name.updated <= n.updated
      BY <3>4 DEF NmInv, FoundSound, Resolved
    <3>8. \A r \in saved.rows : r[2].updated <= n.updated
      BY <3>4 DEF NmInv, RowSound
    <3>9. j \in (1 .. Len(CN!Views)) \X Addresses
      BY DEF NmInv, NmType
    <3>10. work'.job = j /\ work'.name = n
      BY <3>1
    <3> QED
      BY <3>6, <3>7, <3>8, <3>9, <3>10 DEF WorkSound
  <2> QED
    BY <2>1, <2>2 DEF CN!Take
<1> QED
  BY <1>1, <1>2, <1>4 DEF CN!Take, NmInv

\* The worker puts what it found into the cache.
LEMMA NmStore == ASSUME NmInv, CN!Store PROVE NmInv'
<1> DEFINE j == work.job
<1>1. CN!Views' = CN!Views
  BY DEF CN!Store, CN!Views
<1>2. NmType'
  BY <1>1 DEF CN!Store, NmInv, NmType
<1>3. WorkSound(work', CN!Views, cache', clock, restored, saved.rows)
  BY DEF CN!Store, WorkSound
<1>4. PICK E : cache' = IF j[1] = view THEN CN!Put(CN!Drop(cache, E), j[2], [view |-> j[1], name |-> work.name]) ELSE CN!Drop(cache, E)
  BY DEF CN!Store
<1>5. /\ j[1] \in 1 .. Len(CN!Views) /\ j[2] \in Addresses /\ Resolved(work.name, CN!Views[j[1]].scope, clock)
  BY DEF CN!Store, NmInv, WorkSound
<1>6. FoundSound(CN!Drop(cache, E), CN!Views, clock)
  BY DEF NmInv, FoundSound, CN!Drop
<1>7. FoundSound(cache', CN!Views, clock)
  <2>1. CASE j[1] = view
    <3> DEFINE F == CN!Drop(cache, E)
               e == [view |-> j[1], name |-> work.name]
    <3>1. cache' = [x \in DOMAIN F \cup {j[2]} |-> IF x = j[2] THEN e ELSE F[x]]
      BY <1>4, <2>1 DEF CN!Put
    <3>2. e.view = j[1] /\ e.name = work.name
      OBVIOUS
    <3> HIDE DEF F, e, j
    <3> QED
      BY <1>5, <1>6, <3>1, <3>2 DEF FoundSound, F
  <2>2. CASE j[1] # view
    BY <1>4, <1>6, <2>2
  <2> QED
    BY <2>1, <2>2
<1> QED
  BY <1>1, <1>2, <1>3, <1>7 DEF CN!Store, NmInv

\* The loop takes up the current view; the names of its scope stay.
LEMMA NmSwitch == ASSUME NmInv, CN!Switch PROVE NmInv'
<1>1. CN!Views' = CN!Views
  BY DEF CN!Switch, CN!Views
<1>2. NmType'
  BY <1>1 DEF CN!Switch, NmInv, NmType
<1>3. RecordsSound(records', CN!Views, loop', clock, heard)
  BY FS_EmptySet DEF CN!Switch, RecordsSound
<1>4. NamesSound(mdnsNames', CN!Views, clock, heard)
  <2>1. /\ DOMAIN mdnsNames' \subseteq DOMAIN mdnsNames
        /\ \A a \in DOMAIN mdnsNames' : CN!Compatible(mdnsNames[a].view, view) /\ mdnsNames'[a] = [mdnsNames[a] EXCEPT !.view = view]
    BY DEF CN!Switch
  <2>2. ASSUME NEW a \in DOMAIN mdnsNames'
        PROVE  /\ mdnsNames'[a] = [view |-> view, name |-> mdnsNames[a].name]
               /\ Supported(mdnsNames[a].name, CN!Views[view].scope, a, clock, heard)
               /\ Confirmed(mdnsNames[a].name, CN!Views[view].scope, a, clock, heard)
    <3>1. /\ mdnsNames[a] = [view |-> mdnsNames[a].view, name |-> mdnsNames[a].name]
          /\ Supported(mdnsNames[a].name, CN!Views[mdnsNames[a].view].scope, a, clock, heard)
          /\ Confirmed(mdnsNames[a].name, CN!Views[mdnsNames[a].view].scope, a, clock, heard)
      BY <2>1 DEF NmInv, NamesSound
    <3>2. CN!Views[mdnsNames[a].view].scope = CN!Views[view].scope
      BY <2>1 DEF CN!Compatible
    <3>3. mdnsNames'[a] = [view |-> view, name |-> mdnsNames[a].name]
      BY <2>1, <3>1
    <3> QED
      BY <3>1, <3>2, <3>3
  <2>3. ASSUME NEW a \in DOMAIN mdnsNames' PROVE mdnsNames'[a].view = view /\ mdnsNames'[a].name = mdnsNames[a].name
    BY <2>2
  <2>4. DOMAIN mdnsNames \subseteq Addresses /\ view \in 1 .. Len(CN!Views)
    BY DEF NmInv, NmType, NamesSound
  <2> QED
    BY <2>1, <2>2, <2>3, <2>4 DEF NamesSound
<1> QED
  BY <1>1, <1>2, <1>3, <1>4 DEF CN!Switch, NmInv

\* An advertisement is ingested.
LEMMA NmIngest == ASSUME NmInv, NEW a \in Addresses, NEW d \in CN!Adverts, CN!Ingest(a, d) PROVE NmInv'
<1> DEFINE e == [host |-> d.host, label |-> d.label, rank |-> d.rank, detail |-> d.detail,
                 learned |-> clock, expires |-> clock + Life]
           s == CN!Views[loop].scope
           x == <<s, a, d, clock + Life>>
<1>1. /\ CN!Views' = CN!Views /\ clock' = clock /\ clock \in Nat /\ clock <= clock /\ loop' = loop
      /\ HeardSound(heard, clock) /\ loop # 0 /\ clock + Life \in Nat
  BY NmBounds DEF CN!Ingest, CN!Listening, CN!Views, NmInv, NmType
<1>2. heard' = {y \in heard : y[1] # s \/ y[2] # a \/ y[3] # d} \cup {x}
  BY DEF CN!Ingest
<1>3. x \in heard' /\ x[1] = s /\ x[2] = a /\ x[3] = d /\ x[4] = clock + Life
  BY <1>2
<1>4. HeardSound(heard', clock)
  <2>1. ASSUME NEW y \in heard' PROVE y[4] \in Nat /\ y[4] <= clock + Life
    <3> HIDE DEF x
    <3>1. y \in heard \/ y = x
      BY <1>2
    <3> QED
      BY <1>1, <1>3, <3>1 DEF HeardSound
  <2> QED
    BY <2>1 DEF HeardSound
<1>5. Later(heard, heard', clock)
  <2>1. ASSUME NEW y \in heard PROVE \E z \in heard' : z[1] = y[1] /\ z[2] = y[2] /\ z[3] = y[3] /\ z[4] >= y[4]
    <3> HIDE DEF x, s
    <3>1. y[4] \in Nat /\ y[4] <= clock + Life
      BY <1>1 DEF HeardSound
    <3>2. CASE y[1] = s /\ y[2] = a /\ y[3] = d
      BY <1>1, <1>3, <3>1, <3>2
    <3>3. CASE ~(y[1] = s /\ y[2] = a /\ y[3] = d)
      <4>1. y \in heard'
        BY <1>2, <3>3
      <4>2. y[4] >= y[4]
        BY <3>1
      <4> QED
        BY <4>1, <4>2
    <3> QED
      BY <3>2, <3>3
  <2> QED
    BY <2>1 DEF Later
<1>6. NmType'
  <2>1. plan' = plan /\ view' = view /\ pendingNames' = pendingNames /\ boots' = boots
    BY DEF CN!Ingest
  <2> QED
    BY <1>1, <1>4, <2>1 DEF NmInv, NmType
<1>7. \A b \in Addresses : \A r \in records[b] : Evident(r, s, b, clock, heard')
  BY <1>1, <1>4, <1>5, NmEvident DEF NmInv, RecordsSound
<1>8. Evident(e, s, a, clock, heard')
  <2>1. d.rank \in Nat
    <3>1. plan \in Plans /\ d \in plan.adverts
      BY DEF NmInv, NmType, CN!Adverts
    <3> QED
      BY <3>1, NamesAssumption
  <2>2. e.rank = d.rank /\ e.expires = clock + Life /\ e.label = d.label /\ e.host = d.host
    OBVIOUS
  <2>3. clock + Life >= clock + Life
    BY <1>1
  <2> HIDE DEF e, x, s
  <2> QED
    BY <1>1, <1>3, <2>1, <2>2, <2>3 DEF Evident
<1>9. RecordsSound(records', CN!Views, loop, clock, heard')
  <2> DEFINE S == {r \in records[a] : clock < r.expires /\ ~(r.label = d.label /\ r.host = d.host)} \cup {e}
  <2>1. records' = [records EXCEPT ![a] = S]
    BY DEF CN!Ingest
  <2>2. records = [b \in Addresses |-> records[b]]
    BY DEF NmInv, RecordsSound
  <2>3. IsFiniteSet(S)
    <3>1. IsFiniteSet({r \in records[a] : clock < r.expires /\ ~(r.label = d.label /\ r.host = d.host)})
      BY FS_Subset DEF NmInv, RecordsSound
    <3> HIDE DEF e
    <3> QED
      BY <3>1, FS_AddElement
  <2>4. \A r \in S : r \in records[a] \/ r = e
    OBVIOUS
  <2>5. e.learned = clock /\ e.expires = clock + Life /\ clock + Life <= clock + Life
    BY <1>1
  <2> HIDE DEF S, e, s
  <2>6. /\ records' = [b \in Addresses |-> records'[b]]
        /\ \A b \in Addresses : records'[b] = IF b = a THEN S ELSE records[b]
    BY <2>1, <2>2
  <2>7. ASSUME NEW b \in Addresses
        PROVE  /\ IsFiniteSet(records'[b])
               /\ \A r \in records'[b] : /\ loop # 0 /\ Evident(r, s, b, clock, heard')
                                         /\ r.learned \in Nat /\ r.learned <= clock /\ r.expires <= clock + Life
    <3>1. \A r \in records[b] : r.learned \in Nat /\ r.learned <= clock /\ r.expires <= clock + Life
      BY DEF NmInv, RecordsSound
    <3>2. IsFiniteSet(records[b])
      BY DEF NmInv, RecordsSound
    <3>3. CASE b = a
      BY <1>1, <1>7, <1>8, <2>3, <2>4, <2>5, <2>6, <3>1, <3>3
    <3>4. CASE b # a
      BY <1>1, <1>7, <2>6, <3>1, <3>2, <3>4
    <3> QED
      BY <3>3, <3>4
  <2> QED
    BY <2>6, <2>7 DEF RecordsSound, s
<1>10. /\ WorkSound(work', CN!Views, cache', clock, restored', saved'.rows)
       /\ FoundSound(cache', CN!Views, clock)
  BY DEF CN!Ingest, NmInv
<1>11. NamesSound(mdnsNames', CN!Views, clock, heard')
  <2>1. mdnsNames' = mdnsNames /\ NamesSound(mdnsNames, CN!Views, clock, heard)
    BY DEF CN!Ingest, NmInv
  <2> QED
    BY <1>1, <1>4, <1>5, <2>1, NmLater
<1>12. \A r \in saved'.rows : RowSound(r, saved'.scope, clock, heard')
  <2>1. saved' = saved /\ \A r \in saved.rows : RowSound(r, saved.scope, clock, heard)
    BY DEF CN!Ingest, NmInv
  <2> QED
    BY <1>1, <1>4, <1>5, <2>1, NmLater
<1> QED
  BY <1>1, <1>6, <1>9, <1>10, <1>11, <1>12 DEF NmInv

\* The names of the addresses that were asked about are published.
LEMMA NmPublishNames == ASSUME NmInv, NEW observed \in SUBSET Addresses, CN!PublishNames(observed) PROVE NmInv'
<1> DEFINE live(a) == IF a \in observed THEN CN!Live(a) ELSE CN!Unknown
           old(a) == a \in DOMAIN mdnsNames /\ CN!Compatible(mdnsNames[a].view, loop)
           new(a) == IF old(a) THEN CN!Prefer(mdnsNames[a].name, live(a), clock) ELSE live(a)
<1>1. CN!Views' = CN!Views
  BY DEF CN!PublishNames, CN!Views
<1>2. NmType'
  BY <1>1 DEF CN!PublishNames, NmInv, NmType
<1>3. NamesSound(mdnsNames', CN!Views, clock, heard)
  <2>1. mdnsNames' = [a \in {x \in Addresses : new(x).name # ""} |-> [view |-> loop, name |-> new(a)]]
    BY DEF CN!PublishNames
  <2>2. loop \in 1 .. Len(CN!Views) /\ clock \in Nat
    BY DEF CN!PublishNames, NmInv, NmType
  <2>3. ASSUME NEW a \in Addresses, new(a).name # ""
        PROVE  Supported(new(a), CN!Views[loop].scope, a, clock, heard) /\ Confirmed(new(a), CN!Views[loop].scope, a, clock, heard)
    <3>1. \/ live(a) = CN!Unknown
          \/ /\ Supported(live(a), CN!Views[loop].scope, a, clock, heard)
             /\ Confirmed(live(a), CN!Views[loop].scope, a, clock, heard)
      BY NmLive
    <3>2. CN!Unknown.name = ""
      BY DEF CN!Unknown
    <3>3. CASE new(a) = live(a)
      BY <2>3, <3>1, <3>2, <3>3
    <3>4. CASE new(a) # live(a)
      <4> DEFINE p == mdnsNames[a].name
                 l == live(a)
                 s == CN!Views[loop].scope
      <4>1. old(a) /\ new(a) = CN!Prefer(p, l, clock)
        BY <3>4
      <4>2. Supported(p, s, a, clock, heard) /\ Confirmed(p, s, a, clock, heard)
        BY <4>1 DEF NmInv, NamesSound, CN!Compatible
      <4>3. CN!Prefer(p, l, clock) # l
        BY <3>4, <4>1
      <4> HIDE DEF p, l, s
      <4>4. Supported(CN!Prefer(p, l, clock), s, a, clock, heard) /\ Confirmed(CN!Prefer(p, l, clock), s, a, clock, heard)
        BY <2>2, <4>2, <4>3, NmPrefer
      <4> HIDE DEF new
      <4> QED
        BY <4>1, <4>4 DEF s
    <3> QED
      BY <3>3, <3>4
  <2> HIDE DEF new
  <2>4. DOMAIN mdnsNames' \subseteq Addresses
    BY <2>1
  <2>5. ASSUME NEW a \in DOMAIN mdnsNames'
        PROVE  /\ mdnsNames'[a] = [view |-> loop, name |-> new(a)]
               /\ Supported(new(a), CN!Views[loop].scope, a, clock, heard) /\ Confirmed(new(a), CN!Views[loop].scope, a, clock, heard)
    BY <2>1, <2>3
  <2>6. ASSUME NEW a \in DOMAIN mdnsNames' PROVE mdnsNames'[a].view = loop /\ mdnsNames'[a].name = new(a)
    BY <2>5
  <2> QED
    BY <2>2, <2>4, <2>5, <2>6 DEF NamesSound
<1> QED
  BY <1>1, <1>2, <1>3 DEF CN!PublishNames, NmInv

\* The rows of the database for a scope, as they are read.
LEMMA NmRows ==
  ASSUME NmInv, NEW known, known = IF saved.scope = CN!Views[view].scope THEN saved.rows ELSE {}
  PROVE  known \subseteq saved.rows /\ \A r \in known : RowSound(r, CN!Views[view].scope, clock, heard)
  BY DEF NmInv

\* A snapshot of sound caches is sound.
LEMMA NmSnapshot ==
  ASSUME NmType, NEW F, FoundSound(F, CN!Views, clock), NEW G, NamesSound(G, CN!Views, clock, heard), NEW s, s = CN!Snapshot(F, G)
  PROVE  \A r \in s.rows : RowSound(r, s.scope, clock, heard)
<1> DEFINE scope == CN!Views[view].scope
           rowsOf(f) == {<<a, f[a].name>> : a \in {x \in DOMAIN f : CN!Compatible(f[x].view, view) /\ CN!Persistable(f[x].name, clock)}}
<1>1. s.scope = scope /\ s.rows = UNION {rowsOf(f) : f \in {F, G}}
  BY DEF CN!Snapshot
<1>2. ASSUME NEW r \in rowsOf(F) PROVE RowSound(r, scope, clock, heard)
  <2>1. PICK a \in DOMAIN F : CN!Compatible(F[a].view, view) /\ CN!Persistable(F[a].name, clock) /\ r = <<a, F[a].name>>
    OBVIOUS
  <2>2. Resolved(F[a].name, scope, clock) /\ a \in Addresses
    BY <2>1 DEF FoundSound, CN!Compatible
  <2>3. F[a].name.kind = "resolved"
    BY <2>1, <2>2 DEF CN!Persistable, Resolved
  <2>4. F[a].name.updated \in Nat /\ F[a].name.updated <= clock
    BY <2>2 DEF Resolved
  <2>5. r[1] = a /\ r[2] = F[a].name
    BY <2>1
  <2> HIDE DEF scope
  <2> QED
    BY <2>2, <2>3, <2>4, <2>5 DEF RowSound
<1>3. ASSUME NEW r \in rowsOf(G) PROVE RowSound(r, scope, clock, heard)
  <2>1. PICK a \in DOMAIN G : CN!Compatible(G[a].view, view) /\ r = <<a, G[a].name>>
    OBVIOUS
  <2>2. Supported(G[a].name, scope, a, clock, heard) /\ Confirmed(G[a].name, scope, a, clock, heard) /\ a \in Addresses
    BY <2>1 DEF NamesSound, CN!Compatible
  <2>3. G[a].name.kind = "multicast" /\ G[a].name.updated \in Nat /\ G[a].name.updated <= clock
    BY <2>2 DEF Supported
  <2>4. r[1] = a /\ r[2] = G[a].name
    BY <2>1
  <2> HIDE DEF scope
  <2> QED
    BY <2>2, <2>3, <2>4 DEF RowSound
<1> HIDE DEF rowsOf
<1> QED
  BY <1>1, <1>2, <1>3

\* The caches are saved, after what the database had is read.
LEMMA NmSave == ASSUME NmInv, CN!Save PROVE NmInv'
<1> DEFINE known == IF saved.scope = CN!Views[view].scope THEN saved.rows ELSE {}
<1>1. CN!Views' = CN!Views
  BY DEF CN!Save, CN!Views
<1>2. NmType' /\ NmType
  BY <1>1 DEF CN!Save, NmInv, NmType
<1>3. known \subseteq saved.rows /\ \A r \in known : RowSound(r, CN!Views[view].scope, clock, heard)
  BY NmRows
<1>4. CASE restored
  <2>1. cache' = cache /\ mdnsNames' = mdnsNames
    BY <1>4 DEF CN!Save
  <2>2. FoundSound(cache', CN!Views, clock) /\ NamesSound(mdnsNames', CN!Views, clock, heard)
    BY <2>1 DEF NmInv
  <2>3. WorkSound(work', CN!Views, cache', clock, restored', saved'.rows)
    BY <2>1 DEF CN!Save, NmInv, WorkSound
  <2>4. \A r \in saved'.rows : RowSound(r, saved'.scope, clock, heard)
    <3>1. saved' \in {CN!Snapshot(cache', mdnsNames'), saved}
      BY DEF CN!Save
    <3>2. CASE saved' = saved
      BY <3>2 DEF NmInv
    <3>3. CASE saved' = CN!Snapshot(cache', mdnsNames')
      BY <1>2, <2>2, <3>3, NmSnapshot
    <3> QED
      BY <3>1, <3>2, <3>3
  <2> QED
    BY <1>1, <1>2, <2>2, <2>3, <2>4 DEF CN!Save, NmInv
<1>5. CASE ~restored
  <2>1. cache' = CN!Rehydrated(cache, "resolved", known) /\ mdnsNames' = CN!Rehydrated(mdnsNames, "multicast", known)
    BY <1>5 DEF CN!Save, CN!Restore
  <2> HIDE DEF known
  <2>2. FoundSound(cache', CN!Views, clock) /\ NamesSound(mdnsNames', CN!Views, clock, heard)
    BY <1>2, <1>3, <2>1, NmFoundAgain, NmNamesAgain DEF NmInv
  <2>3. WorkSound(work', CN!Views, cache', clock, restored', saved'.rows)
    <3> SUFFICES ASSUME work # CN!NoWork, NEW a \in DOMAIN cache' PROVE cache'[a].name.updated <= work.name.updated
      BY DEF CN!Save, NmInv, WorkSound
    <3>1. DOMAIN cache \subseteq Addresses /\ \A r \in known : r[1] \in Addresses
      BY <1>3 DEF NmInv, FoundSound, RowSound
    <3>2. (a \in DOMAIN cache /\ cache'[a] = cache[a]) \/ Recovered(cache'[a], cache, a, "resolved", known)
      BY <2>1, <3>1, NmRehydrated
    <3>3. CASE a \in DOMAIN cache /\ cache'[a] = cache[a]
      BY <3>3 DEF NmInv, WorkSound
    <3>4. CASE Recovered(cache'[a], cache, a, "resolved", known)
      <4>1. PICK r \in known : cache'[a] = [view |-> view, name |-> r[2]]
        BY <3>4 DEF Recovered
      <4>2. r[2].updated <= work.name.updated
        BY <1>3, <1>5 DEF NmInv, WorkSound
      <4>3. cache'[a].name = r[2]
        BY <4>1
      <4> QED
        BY <4>2, <4>3
    <3> QED
      BY <3>2, <3>3, <3>4
  <2>4. \A r \in saved'.rows : RowSound(r, saved'.scope, clock, heard)
    <3>1. saved' \in {CN!Snapshot(cache', mdnsNames'), saved}
      BY DEF CN!Save
    <3>2. CASE saved' = saved
      BY <3>2 DEF NmInv
    <3>3. CASE saved' = CN!Snapshot(cache', mdnsNames')
      BY <1>2, <2>2, <3>3, NmSnapshot
    <3> QED
      BY <3>1, <3>2, <3>3
  <2> QED
    BY <1>1, <1>2, <2>2, <2>3, <2>4 DEF CN!Save, NmInv
<1> QED
  BY <1>4, <1>5

\* The process starts again.
LEMMA NmRestart == ASSUME NmInv, CN!Restart PROVE NmInv'
<1> DEFINE known == IF saved.scope = CN!Views[view].scope THEN saved.rows ELSE {}
<1>1. CN!Views' = CN!Views
  BY DEF CN!Restart, CN!Views
<1>2. NmType
  BY DEF NmInv
<1>3. NmType'
  BY <1>1 DEF CN!Restart, NmInv, NmType
<1>4. known \subseteq saved.rows /\ \A r \in known : RowSound(r, CN!Views[view].scope, clock, heard)
  BY NmRows
<1>5. FoundSound(<<>>, CN!Views, clock) /\ NamesSound(<<>>, CN!Views, clock, heard)
  BY NmNothing DEF FoundSound, NamesSound
<1>6. \/ cache' = <<>> /\ mdnsNames' = <<>>
      \/ cache' = CN!Rehydrated(<<>>, "resolved", known) /\ mdnsNames' = CN!Rehydrated(<<>>, "multicast", known)
  BY DEF CN!Restart, CN!Restore
<1> HIDE DEF known
<1>7. FoundSound(cache', CN!Views, clock) /\ NamesSound(mdnsNames', CN!Views, clock, heard)
  BY <1>2, <1>4, <1>5, <1>6, NmFoundAgain, NmNamesAgain
<1>8. RecordsSound(records', CN!Views, loop', clock, heard)
  BY FS_EmptySet DEF CN!Restart, RecordsSound
<1>9. WorkSound(work', CN!Views, cache', clock, restored', saved'.rows)
  BY DEF CN!Restart, WorkSound
<1> QED
  BY <1>1, <1>3, <1>7, <1>8, <1>9 DEF CN!Restart, NmInv

\* The next view is published.
LEMMA NmPublish == ASSUME NmInv, CN!Publish PROVE NmInv'
<1>1. CN!Views' = CN!Views
  BY DEF CN!Publish, CN!Views
<1>2. NmType'
  <2> DEFINE n == Len(CN!Views)
  <2>1. n \in Nat /\ view \in 1 .. n /\ view < n /\ view' = view + 1
    BY NamesAssumption DEF CN!Publish, NmInv, NmType, CN!Views
  <2>2. view' \in 1 .. n
    <3> HIDE DEF n
    <3> QED
      BY <2>1
  <2> QED
    BY <1>1, <2>2 DEF CN!Publish, NmInv, NmType
<1> QED
  BY <1>1, <1>2 DEF CN!Publish, NmInv

\* Time passes.
LEMMA NmTick == ASSUME NmInv, CN!Tick PROVE NmInv'
<1>1. /\ CN!Views' = CN!Views /\ clock' = clock + 1 /\ clock \in Nat /\ clock' \in Nat /\ clock <= clock' /\ HeardSound(heard, clock)
      /\ loop' = loop
  BY DEF CN!Tick, CN!Views, NmInv, NmType
<1>2. heard' = {x \in heard : clock' < x[4] + Retention}
  BY DEF CN!Tick
<1>3. HeardSound(heard', clock') /\ Later(heard, heard', clock')
  <2>1. ASSUME NEW x \in heard PROVE x[4] \in Nat /\ x[4] <= clock' + Life /\ x[4] >= x[4]
    BY <1>1, NmBounds DEF HeardSound
  <2> QED
    BY <1>2, <2>1 DEF HeardSound, Later
<1>4. NmType'
  BY <1>1, <1>3 DEF CN!Tick, NmInv, NmType
<1>5. RecordsSound(records', CN!Views, loop, clock', heard')
  <2>1. records' = [a \in Addresses |-> {e \in records[a] : clock + 1 < e.expires}]
    BY DEF CN!Tick
  <2>2. ASSUME NEW a \in Addresses
        PROVE  /\ IsFiniteSet(records'[a])
               /\ \A e \in records'[a] : /\ loop # 0 /\ Evident(e, CN!Views[loop].scope, a, clock', heard')
                                         /\ e.learned \in Nat /\ e.learned <= clock' /\ e.expires <= clock' + Life
    <3>1. records'[a] \in SUBSET records[a]
      BY <2>1
    <3>2. IsFiniteSet(records'[a])
      BY <3>1, FS_Subset DEF NmInv, RecordsSound
    <3>3. ASSUME NEW e \in records'[a]
          PROVE  /\ loop # 0 /\ Evident(e, CN!Views[loop].scope, a, clock', heard')
                 /\ e.learned \in Nat /\ e.learned <= clock' /\ e.expires <= clock' + Life
      <4>1. /\ loop # 0 /\ Evident(e, CN!Views[loop].scope, a, clock, heard)
            /\ e.learned \in Nat /\ e.learned <= clock /\ e.expires <= clock + Life
        BY <3>1 DEF NmInv, RecordsSound
      <4>2. Evident(e, CN!Views[loop].scope, a, clock', heard')
        BY <1>1, <1>3, <4>1, NmEvident
      <4>3. e.expires \in Nat
        BY <4>1 DEF Evident
      <4> QED
        BY <1>1, <4>1, <4>2, <4>3, NmBounds
    <3> QED
      BY <3>2, <3>3
  <2>3. records' = [a \in Addresses |-> records'[a]]
    BY <2>1
  <2> QED
    BY <2>2, <2>3 DEF RecordsSound
<1>6. /\ NamesSound(mdnsNames, CN!Views, clock', heard') /\ FoundSound(cache, CN!Views, clock')
      /\ WorkSound(work, CN!Views, cache, clock', restored, saved.rows)
      /\ \A r \in saved.rows : RowSound(r, saved.scope, clock', heard')
  <2>1. /\ NamesSound(mdnsNames, CN!Views, clock, heard) /\ FoundSound(cache, CN!Views, clock)
        /\ WorkSound(work, CN!Views, cache, clock, restored, saved.rows)
        /\ \A r \in saved.rows : RowSound(r, saved.scope, clock, heard)
    BY DEF NmInv
  <2> QED
    BY <1>1, <1>3, <2>1, NmLater
<1>7. mdnsNames' = mdnsNames /\ cache' = cache /\ work' = work /\ restored' = restored /\ saved' = saved
  BY DEF CN!Tick
<1> QED
  BY <1>1, <1>4, <1>5, <1>6, <1>7 DEF NmInv

\* Every step keeps the invariant.
LEMMA NmNext == NmInv /\ [CN!Next]_CN!vars => NmInv'
<1> SUFFICES ASSUME NmInv, [CN!Next]_CN!vars PROVE NmInv'
  OBVIOUS
<1>1. CASE UNCHANGED CN!vars
  <2>1. CN!Views' = CN!Views
    BY <1>1 DEF CN!vars, CN!Views
  <2>2. NmType'
    BY <1>1, <2>1 DEF CN!vars, NmInv, NmType
  <2> QED
    BY <1>1, <2>1, <2>2 DEF CN!vars, NmInv
<1> QED
  BY <1>1, NmObserve, NmTake, NmIngest, NmPublishNames, NmStore, NmSwitch, NmSave, NmRestart, NmPublish, NmTick DEF CN!Next

\* The invariant holds.
LEMMA NmInvariance == CN!Spec => []NmInv
  BY NmInit, NmNext, PTL DEF CN!Spec

\* No step takes a newer name out of the cache for an older one of the same scope.
LEMMA NmNewer ==
  ASSUME NmInv, CN!Next, NEW a \in DOMAIN cache \cap DOMAIN cache', boots' = boots, CN!Compatible(cache[a].view, cache'[a].view)
  PROVE  cache'[a].name.updated >= cache[a].name.updated
<1>1. cache[a].name.updated \in Nat /\ cache[a].view \in 1 .. Len(CN!Views)
  BY DEF NmInv, FoundSound, Resolved
<1>2. CASE cache'[a] = cache[a]
  <2>1. cache'[a].name.updated = cache[a].name.updated
    BY <1>2
  <2> QED
    BY <1>1, <2>1
<1>3. CASE CN!Store
  <2> DEFINE j == work.job
  <2>1. PICK E : cache' = IF j[1] = view THEN CN!Put(CN!Drop(cache, E), j[2], [view |-> j[1], name |-> work.name]) ELSE CN!Drop(cache, E)
    BY <1>3 DEF CN!Store
  <2>2. CN!Drop(cache, E) = [x \in DOMAIN cache \ E |-> cache[x]]
    BY DEF CN!Drop
  <2>3. CASE j[1] = view /\ a = j[2]
    <3> DEFINE F == CN!Drop(cache, E)
               e == [view |-> j[1], name |-> work.name]
    <3>1. cache' = [x \in DOMAIN F \cup {j[2]} |-> IF x = j[2] THEN e ELSE F[x]]
      BY <2>1, <2>3 DEF CN!Put
    <3>2. e.name = work.name
      OBVIOUS
    <3> HIDE DEF F, e, j
    <3>3. cache'[a] = e
      BY <2>3, <3>1
    <3>4. work.name.updated \in Nat /\ cache[a].name.updated <= work.name.updated
      BY <1>3 DEF CN!Store, NmInv, WorkSound, Resolved
    <3> QED
      BY <1>1, <3>2, <3>3, <3>4
  <2>4. CASE ~(j[1] = view /\ a = j[2])
    <3> HIDE DEF j
    <3>1. cache'[a] = cache[a]
      BY <2>1, <2>2, <2>4 DEF CN!Put
    <3> QED
      BY <1>2, <3>1
  <2> QED
    BY <2>3, <2>4
<1>4. CASE CN!Save
  <2> DEFINE known == IF saved.scope = CN!Views[view].scope THEN saved.rows ELSE {}
  <2>1. cache' = cache \/ cache' = CN!Rehydrated(cache, "resolved", known)
    BY <1>4 DEF CN!Save, CN!Restore
  <2>2. known \subseteq saved.rows /\ \A r \in known : RowSound(r, CN!Views[view].scope, clock, heard)
    BY NmRows
  <2> HIDE DEF known
  <2>3. DOMAIN cache \subseteq Addresses /\ \A r \in known : r[1] \in Addresses
    BY <2>2 DEF NmInv, FoundSound, RowSound
  <2>4. cache'[a] = cache[a] \/ Recovered(cache'[a], cache, a, "resolved", known)
    BY <2>1, <2>3, NmRehydrated
  <2>5. CASE Recovered(cache'[a], cache, a, "resolved", known)
    <3>1. PICK r \in known : CN!Newer(cache, a, r[2]) /\ cache'[a] = [view |-> view, name |-> r[2]]
      BY <2>5 DEF Recovered
    <3>2. cache'[a].view = view /\ cache'[a].name = r[2]
      BY <3>1
    <3>3. r[2].updated > cache[a].name.updated /\ r[2].updated \in Nat
      BY <2>2, <3>1, <3>2 DEF CN!Newer, RowSound
    <3> QED
      BY <1>1, <3>2, <3>3
  <2> QED
    BY <1>2, <2>4, <2>5
<1>5. CASE CN!Restart
  <2>1. boots' = boots + 1 /\ boots \in Nat
    BY <1>5 DEF CN!Restart, NmInv, NmType
  <2> QED
    BY <2>1
<1>6. CASE ~(CN!Store \/ CN!Save \/ CN!Restart)
  <2>1. cache' = cache
    BY <1>6 DEF CN!Next, CN!Observe, CN!Take, CN!Ingest, CN!PublishNames, CN!Switch, CN!Publish, CN!Tick
  <2> QED
    BY <1>2, <2>1
<1> QED
  BY <1>3, <1>4, <1>5, <1>6

\* A device is shown under the name its owner gave it, or under one that was
\* discovered with the settings in force and, when it was advertised, not too
\* long ago (ClientNames: clients/names.go, mdns.go, enrichment.go).
THEOREM NamesHold == CN!Spec => []ShownIsKnown
<1>1. CN!ShownIsKnown => ShownIsKnown
  BY DEF ShownIsKnown
<1> QED
  BY <1>1, NmInvariance, NmShown, PTL

\* Within a scope what is known about an address never gets older (ClientNames:
\* clients/persistence.go, names.go).
THEOREM NamesNeverOlder == CN!Spec => NeverOlder
<1>1. NmInv /\ [CN!Next]_CN!vars =>
       [\A a \in DOMAIN cache \cap DOMAIN cache' :
          boots' = boots /\ CN!Compatible(cache[a].view, cache'[a].view) => cache'[a].name.updated >= cache[a].name.updated]_CN!vars
  <2> SUFFICES ASSUME NmInv, CN!Next, NEW a \in DOMAIN cache \cap DOMAIN cache', boots' = boots,
                      CN!Compatible(cache[a].view, cache'[a].view)
               PROVE  cache'[a].name.updated >= cache[a].name.updated
    OBVIOUS
  <2> QED
    BY NmNewer
<1> QED
  BY <1>1, NmInvariance, PTL DEF CN!Spec, NeverOlder, CN!NeverOlder
=============================================================================
