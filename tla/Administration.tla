--------------------------- MODULE Administration ---------------------------
(***************************************************************************)
(* What the administration shows and who may see it: the history of the    *)
(* queries (History), why they were blocked (Explanations), the pages a    *)
(* client of the API reads (HistoryPages), the names of the clients        *)
(* (ClientNames), and the credentials of the administrator (AdminSessions) *)
(* and of programs (ApiTokens). They share no state that their properties  *)
(* look at.                                                                *)
(***************************************************************************)
EXTENDS History

(***************************** what is shown *******************************)

CONSTANTS Rules, NoRule, Slot, QueueLimit, SweepLimit, MaxObserved

VARIABLES notes, waiting, rows, events, expired, written, cursor, end, revisit, pending
explanations == <<notes, waiting, rows, events, expired, written, cursor, end, revisit, pending>>

EX == INSTANCE Explanations WITH MaxEvents <- MaxObserved

CONSTANTS PageLimit, MaxCutoff, MaxRows

\* A query without a limit gets the default one, and one below 1 is refused
\* (storage/query.go).
ASSUME PagesAssumption == PageLimit \in Nat \ {0}

VARIABLES shownRows, firstRows, table, ids, hiddenBelow, place
pages == <<shownRows, firstRows, table, ids, hiddenBelow, place>>

PG == INSTANCE HistoryPages WITH
        Limit <- PageLimit, MaxTime <- MaxCutoff, rows <- table, inserted <- ids,
        cutoff <- hiddenBelow, cursor <- place, shown <- shownRows, first <- firstRows

CONSTANTS Plans, Addresses, Answers, HostRank, Life, NameLife, Retention, NameLimit, NameTime, NameBoots

\* There is a configuration from the start, and the name in an override is not
\* empty (clients/names.go).
ASSUME NamesAssumption ==
  /\ Retention \in Nat /\ Life \in Nat /\ NameLimit \in Nat /\ IsFiniteSet(Addresses)
  /\ \A p \in Plans :
       /\ Len(p.views) \in Nat \ {0}
       /\ \A v \in 1 .. Len(p.views) : \A a \in DOMAIN p.views[v].overrides : p.views[v].overrides[a] # ""
       /\ \A d \in p.adverts : d.rank \in Nat

VARIABLES plan, clock, view, pendingNames, work, cache, mdnsNames, loop, records, restored, saved, heard, boots
names == <<plan, clock, view, pendingNames, work, cache, mdnsNames, loop, records, restored, saved, heard, boots>>

CN == INSTANCE ClientNames WITH Limit <- NameLimit, MaxTime <- NameTime, MaxBoots <- NameBoots, pending <- pendingNames

(******************************* who may see it ****************************)

CONSTANTS Logins, Changes, Hashes, NoHash, MaxAttempts, MaxSessions, SessionTTL, MaxVersions, MaxWindows, MaxIds

ASSUME SessionsAssumption == MaxSessions \in Nat

VARIABLES stored, hash, sessions, window, attempts, time, login, change, opened, installed
credentials == <<stored, hash, sessions, window, attempts, time, login, change, opened, installed>>

AS == INSTANCE AdminSessions WITH MaxTime <- MaxWindows, None <- NoHash, clock <- time

CONSTANTS Tokens, NoFile, MaxTokens, MaxCrashes

\* A missing file is not an empty one.
ASSUME TokensAssumption == \A c \in SUBSET Tokens : c # NoFile

VARIABLES items, tokenFile, survivors, op, losses, created, granted, revoked, unsynced, excused
tokens == <<items, tokenFile, survivors, op, losses, created, granted, revoked, unsynced, excused>>

AT == INSTANCE ApiTokens WITH Missing <- NoFile, file <- tokenFile, crashes <- losses

\* See HistoryPages.
PagesExact == PG!PagesExact

\* See Explanations.
ExplanationStays == EX!ExplanationStays

\* See Explanations.
SweepLeavesNothing == EX!SweepLeavesNothing

\* See ClientNames.
ShownIsKnown == CN!ShownIsKnown

\* See ClientNames.
NeverOlder == CN!NeverOlder

\* See AdminSessions and ApiTokens: what authenticates was granted, and has
\* not been withdrawn.
CredentialsCurrent == AS!SessionsCurrent /\ AT!TokensCurrent
=============================================================================
