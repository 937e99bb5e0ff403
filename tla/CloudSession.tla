----------------------------- MODULE CloudSession -----------------------------
(***************************************************************************)
(* The signed-in session of cloud sync: CloudSyncController of             *)
(* src/main/sync/cloud-sync-controller.ts over the stored session of       *)
(* src/main/backend/session-store.ts.                                      *)
(*                                                                         *)
(* A call runs to its next await.  The Settings page disables its buttons  *)
(* for one visit only, so a sign-in of each account and some sign-outs may *)
(* be out together, with a sync.  A sync is Sync's subject: here it ends   *)
(* well, refused for its token or with another error.  Signing up is a     *)
(* sign-in of a new account.  What the status shows besides who is signed  *)
(* in (the last error, the last time) is left out.                         *)
(***************************************************************************)
EXTENDS Naturals, FiniteSets

CONSTANTS Accounts,
          MaxTokens,   \* bound on the sign-ins
          MaxLogouts,  \* bound on the sign-outs that are out together
          MaxTroubles, \* bound on failures, expiries, restarts and local changes
          None

ASSUME SessionAssumption ==
  /\ MaxTokens \in Nat /\ MaxLogouts \in Nat \ {0} /\ MaxTroubles \in Nat

Tokens == Accounts \X (1..MaxTokens)
AccountOf(t) == t[1]

ASSUME NoneAssumption == None \notin Tokens

VARIABLES keychain,   \* whether this machine can encrypt a session
          session,    \* the session in memory
          file,       \* the stored session
          syncing,
          syncOut,    \* the session the sync that is out was begun with
          logins,     \* accounts whose sign-in is out
          logouts,    \* sign-outs that are out
          backedUp,   \* accounts with a firstSyncBackup key
          unsynced,   \* a local change is newer than the last sync, or than the one that is out
          live,       \* the tokens the backend accepts
          issued,     \* sign-ins the backend has answered
          troubles

calls == <<logins, logouts>>
vars == <<keychain, session, file, syncing, syncOut, calls, backedUp, unsynced, live, issued, troubles>>

TypeOK ==
  /\ keychain \in BOOLEAN
  /\ session \in Tokens \cup {None} /\ file \in Tokens \cup {None}
  /\ syncing \in BOOLEAN /\ syncOut \in Tokens \cup {None}
  /\ syncing <=> syncOut # None
  /\ logins \subseteq Accounts /\ logouts \in 0..MaxLogouts
  /\ backedUp \subseteq Accounts /\ unsynced \in {"none", "before", "during"}
  /\ live \subseteq Tokens /\ issued \in 0..MaxTokens /\ troubles \in 0..MaxTroubles

Init ==
  /\ keychain \in BOOLEAN
  /\ session = None /\ file = None
  /\ syncing = FALSE /\ syncOut = None
  /\ logins = {} /\ logouts = 0
  /\ backedUp = {} /\ unsynced = "before"
  /\ live = {} /\ issued = 0 /\ troubles = 0

-----------------------------------------------------------------------------

\* login() asks the backend; the page offers it while nobody is signed in.
login(a) ==
  /\ session = None /\ a \notin logins /\ issued + Cardinality(logins) < MaxTokens
  /\ logins' = logins \cup {a}
  /\ UNCHANGED <<session, file, syncing, syncOut, logouts, backedUp, unsynced, live, issued>>

\* The answer: the session is taken, then stored.  Without a keychain storing it fails and so
\* does the login, with the session in memory.
loggedIn(a) ==
  /\ a \in logins /\ logins' = logins \ {a}
  /\ issued' = issued + 1
  /\ LET t == <<a, issued + 1>>
     IN  /\ session' = t /\ live' = live \cup {t}
         /\ file' = IF keychain THEN t ELSE file
  /\ UNCHANGED <<syncing, syncOut, logouts, backedUp, unsynced>>

loginFails(a) ==
  /\ a \in logins /\ logins' = logins \ {a}
  /\ UNCHANGED <<session, file, syncing, syncOut, logouts, backedUp, unsynced, live, issued>>

\* Mutant: only the session in memory goes.
SignedOut_InMemory == session' = None /\ UNCHANGED file

SignedOut == session' = None /\ file' = None

\* logout(): the backend is told first, when there is a session.
logout ==
  /\ session # None /\ logouts < MaxLogouts
  /\ logouts' = logouts + 1
  /\ UNCHANGED <<session, file, syncing, syncOut, logins, backedUp, unsynced, live, issued>>

\* Its answer or its failure: whoever is signed in now is signed out.
loggedOut ==
  /\ logouts > 0 /\ logouts' = logouts - 1
  /\ SignedOut
  /\ UNCHANGED <<syncing, syncOut, logins, backedUp, unsynced, live, issued>>

\* The backend ends a session: it expires, is ended elsewhere, or a logout reached it.
expire(t) ==
  /\ t \in live /\ live' = live \ {t}
  /\ UNCHANGED <<session, file, syncing, syncOut, calls, backedUp, unsynced, issued>>

\* Mutant: one copy for the device, whichever account signs in.
NeedsBackup_PerDevice(a) == backedUp = {}

NeedsBackup(a) == a \notin backedUp

\* syncNow(), by the button, after a change or every ten minutes: one at a time, and never
\* before the copy that an account's first sync needs.
syncNow ==
  /\ session # None /\ ~syncing
  /\ syncing' = TRUE /\ syncOut' = session
  /\ backedUp' = IF NeedsBackup(AccountOf(session)) THEN backedUp \cup {AccountOf(session)}
                 ELSE backedUp
  /\ UNCHANGED <<session, file, calls, unsynced, live, issued>>

\* The copy fails: no sync.
backupFails ==
  /\ session # None /\ ~syncing /\ NeedsBackup(AccountOf(session))
  /\ UNCHANGED <<session, file, syncing, syncOut, calls, backedUp, unsynced, live, issued>>

\* Mutant: only a sync that ends well lets the next one start.
Syncing_AfterError(ok) == ~ok

\* finally
Syncing(ok) == FALSE

synced ==
  /\ syncOut \in live
  /\ syncing' = Syncing(TRUE) /\ syncOut' = None
  /\ unsynced' = IF unsynced = "during" THEN "before" ELSE "none"
  /\ UNCHANGED <<session, file, calls, backedUp, live, issued>>

\* Unreachable, or any other error.
syncFails ==
  /\ syncOut # None
  /\ syncing' = Syncing(FALSE) /\ syncOut' = None
  /\ unsynced' = IF unsynced = "during" THEN "before" ELSE unsynced
  /\ UNCHANGED <<session, file, calls, backedUp, live, issued>>

\* Mutant: the refusal is an error like any other.
InvalidSession_Ignored == UNCHANGED <<session, file>>

\* "invalid or expired session": whoever is signed in now is signed out.
InvalidSession == SignedOut

refused ==
  /\ syncOut # None /\ syncOut \notin live
  /\ InvalidSession
  /\ syncing' = Syncing(FALSE) /\ syncOut' = None
  /\ unsynced' = IF unsynced = "during" THEN "before" ELSE unsynced
  /\ UNCHANGED <<calls, backedUp, live, issued>>

localChange ==
  /\ unsynced' = IF syncOut = None THEN "before" ELSE "during"
  /\ UNCHANGED <<session, file, syncing, syncOut, calls, backedUp, live, issued>>

\* The app ends at any point and starts again with what is stored.
restart ==
  /\ session' = file
  /\ syncing' = FALSE /\ syncOut' = None
  /\ logins' = {} /\ logouts' = 0
  /\ unsynced' = IF unsynced = "none" THEN "none" ELSE "before"
  /\ UNCHANGED <<file, backedUp, live, issued>>

-----------------------------------------------------------------------------

Trouble ==
  \/ \E a \in Accounts : loginFails(a)
  \/ \E t \in live : expire(t)
  \/ backupFails \/ syncFails \/ localChange \/ restart

SyncEnds == synced \/ refused

Next ==
  \/ ((\E a \in Accounts : login(a) \/ loggedIn(a)) \/ logout \/ loggedOut
      \/ syncNow \/ SyncEnds) /\ UNCHANGED <<keychain, troubles>>
  \/ Trouble /\ troubles < MaxTroubles /\ troubles' = troubles + 1 /\ UNCHANGED keychain

Spec == Init /\ [][Next]_vars

\* A sync is tried every ten minutes, and every call ends.
Fairness ==
  /\ WF_vars((syncNow \/ SyncEnds) /\ UNCHANGED <<keychain, troubles>>)
  /\ WF_vars(loggedOut /\ UNCHANGED <<keychain, troubles>>)

FairSpec == Spec /\ Fairness

-----------------------------------------------------------------------------

\* What is stored is never a session that was signed out or refused while another, or none, is
\* in use: a restart goes on with the session that was in use or with none, however sign-ins,
\* sign-outs and syncs overlapped.  (login, logout, syncNow)
StoredIsInUse == file # None => file = session

\* No sync runs with an account this device has no copy from before its first sync with,
\* whichever accounts sign in and out and whichever copies fail.  (syncNow)
FirstSyncIsBackedUp == syncOut # None => AccountOf(syncOut) \in backedUp

\* A token the backend no longer accepts is not kept as if it could still sync.  (syncNow)
\* The converse is not so: the refusal of a sync begun under an earlier session clears the one
\* that a login has made meanwhile.
DeadTokenIsNoticed == []<>(session = None \/ session \in live)

\* A local change is synced while somebody stays signed in, also one made while a sync is out
\* and one whose sync fails.  (createBackgroundSync, startPeriodicSync)
ChangesAreSynced == []<>(unsynced = "none" \/ session = None)
=============================================================================
