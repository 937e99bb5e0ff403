-------------------------- MODULE CloudSessionProofs --------------------------
(***************************************************************************)
(* That what is stored is the session in use, and that no account syncs    *)
(* before its copy, for every set of accounts and every number of          *)
(* sign-ins, sign-outs and troubles.                                       *)
(***************************************************************************)
EXTENDS CloudSession, TLAPS, FiniteSetTheorems

\* Room is left for the answer of every sign-in that is out.
RoomForAnswers ==
  /\ IsFiniteSet(logins)
  /\ issued + Cardinality(logins) <= MaxTokens

\* A machine that cannot encrypt a session never stored one.
NothingInTheClear == ~keychain => file = None

IInv == TypeOK /\ RoomForAnswers /\ NothingInTheClear /\ StoredIsInUse /\ FirstSyncIsBackedUp

-----------------------------------------------------------------------------

LEMMA NoLogin == IsFiniteSet({}) /\ Cardinality({}) = 0
BY FS_EmptySet

LEMMA InitIInv == Init => IInv
<1> SUFFICES ASSUME Init
             PROVE  IInv
  OBVIOUS
<1>1. RoomForAnswers
  <2>1. logins = {} /\ issued = 0
    BY DEF Init
  <2>2. IsFiniteSet(logins) /\ Cardinality(logins) = 0
    BY <2>1, NoLogin, Zenon
  <2> QED
    BY <2>1, <2>2, SessionAssumption DEF RoomForAnswers
<1>2. TypeOK
  <2>1. 0 \in 0..MaxTokens /\ 0 \in 0..MaxLogouts /\ 0 \in 0..MaxTroubles
    BY SessionAssumption
  <2>2. logins \subseteq Accounts /\ backedUp \subseteq Accounts /\ live \subseteq Tokens
    BY DEF Init
  <2>3. syncing \in BOOLEAN /\ (syncing <=> syncOut # None)
    BY DEF Init
  <2> QED
    BY <2>1, <2>2, <2>3 DEF Init, TypeOK
<1> QED
  BY <1>1, <1>2 DEF Init, IInv, NothingInTheClear, StoredIsInUse, FirstSyncIsBackedUp

\* The sign-ins that are out, one more and one fewer.
LEMMA OneMoreLogin ==
  ASSUME RoomForAnswers, NEW a \in Accounts, a \notin logins
  PROVE  /\ IsFiniteSet(logins \cup {a})
         /\ Cardinality(logins \cup {a}) = Cardinality(logins) + 1
BY FS_AddElement DEF RoomForAnswers

LEMMA OneFewerLogin ==
  ASSUME RoomForAnswers, NEW a \in logins
  PROVE  /\ IsFiniteSet(logins \ {a})
         /\ Cardinality(logins) \in Nat
         /\ Cardinality(logins \ {a}) \in Nat
         /\ Cardinality(logins) = Cardinality(logins \ {a}) + 1
<1>1. /\ IsFiniteSet(logins \ {a}) /\ Cardinality(logins \ {a}) = Cardinality(logins) - 1
  BY FS_RemoveElement DEF RoomForAnswers
<1>2. Cardinality(logins) \in Nat /\ Cardinality(logins \ {a}) \in Nat
  BY <1>1, FS_CardinalityType DEF RoomForAnswers
<1> QED
  BY <1>1, <1>2

LEMMA LoginKeeps ==
  ASSUME IInv, NEW a \in Accounts, login(a), UNCHANGED <<keychain, troubles>>
  PROVE  IInv'
<1>1. RoomForAnswers'
  <2>1. IsFiniteSet(logins)
    BY DEF IInv, RoomForAnswers
  <2>2. Cardinality(logins) \in Nat
    BY <2>1, FS_CardinalityType
  <2>3. /\ IsFiniteSet(logins \cup {a})
        /\ Cardinality(logins \cup {a}) = Cardinality(logins) + 1
    BY OneMoreLogin DEF IInv, login
  <2> QED
    BY <2>2, <2>3, SessionAssumption DEF IInv, RoomForAnswers, TypeOK, login
<1>2. TypeOK'
  BY DEF IInv, TypeOK, login
<1> QED
  BY <1>1, <1>2 DEF IInv, NothingInTheClear, StoredIsInUse, FirstSyncIsBackedUp, login

\* The answer of a sign-in finds room, and its token is stored where it can be.
LEMMA LoggedInKeeps ==
  ASSUME IInv, NEW a \in Accounts, loggedIn(a), UNCHANGED <<keychain, troubles>>
  PROVE  IInv'
<1>1. RoomForAnswers' /\ issued + 1 \in 1..MaxTokens
  <2>1. a \in logins /\ logins' = logins \ {a} /\ issued' = issued + 1
    BY DEF loggedIn
  <2> QED
    BY <2>1, OneFewerLogin, SessionAssumption DEF IInv, RoomForAnswers, TypeOK
<1>2. <<a, issued + 1>> \in Tokens
  BY <1>1 DEF Tokens
<1>3. TypeOK'
  <2>1. session' \in Tokens \cup {None} /\ file' \in Tokens \cup {None} /\ live' \subseteq Tokens
    BY <1>2 DEF IInv, TypeOK, loggedIn
  <2>2. logins' \subseteq Accounts /\ issued' \in 0..MaxTokens
    BY <1>1, SessionAssumption DEF IInv, TypeOK, loggedIn
  <2> QED
    BY <2>1, <2>2 DEF IInv, TypeOK, loggedIn
<1>4. NothingInTheClear' /\ StoredIsInUse'
  BY DEF IInv, NothingInTheClear, StoredIsInUse, loggedIn
<1>5. FirstSyncIsBackedUp'
  BY DEF IInv, FirstSyncIsBackedUp, loggedIn
<1> QED
  BY <1>1, <1>3, <1>4, <1>5 DEF IInv

LEMMA LoginFailsKeeps ==
  ASSUME IInv, NEW a \in Accounts, loginFails(a), UNCHANGED keychain, troubles' \in 0..MaxTroubles
  PROVE  IInv'
<1>1. RoomForAnswers'
  BY OneFewerLogin, SessionAssumption DEF IInv, RoomForAnswers, TypeOK, loginFails
<1>2. TypeOK'
  BY DEF IInv, TypeOK, loginFails
<1> QED
  BY <1>1, <1>2 DEF IInv, NothingInTheClear, StoredIsInUse, FirstSyncIsBackedUp, loginFails

LEMMA RestartKeeps ==
  ASSUME IInv, restart, UNCHANGED keychain, troubles' \in 0..MaxTroubles
  PROVE  IInv'
<1>1. RoomForAnswers'
  BY NoLogin, SessionAssumption DEF IInv, RoomForAnswers, TypeOK, restart
<1>2. TypeOK'
  <2>1. unsynced' \in {"none", "before", "during"}
    BY DEF restart
  <2>2. logouts' \in 0..MaxLogouts
    BY SessionAssumption DEF restart
  <2> QED
    BY <2>1, <2>2 DEF IInv, TypeOK, restart
<1> QED
  BY <1>1, <1>2 DEF IInv, NothingInTheClear, StoredIsInUse, FirstSyncIsBackedUp, restart

\* The calls that are answered to nobody's sign-in: the sign-outs and the syncs.
LEMMA CallsKeep ==
  ASSUME IInv, logout \/ loggedOut \/ syncNow \/ SyncEnds, UNCHANGED <<keychain, troubles>>
  PROVE  IInv'
<1>1. CASE logout
  BY <1>1, SessionAssumption
     DEF IInv, TypeOK, RoomForAnswers, NothingInTheClear, StoredIsInUse, FirstSyncIsBackedUp, logout
<1>2. CASE loggedOut
  BY <1>2, SessionAssumption
     DEF IInv, TypeOK, RoomForAnswers, NothingInTheClear, StoredIsInUse, FirstSyncIsBackedUp,
         loggedOut, SignedOut
<1>3. CASE syncNow
  <2>1. session \in Tokens /\ AccountOf(session) \in Accounts
    BY <1>3 DEF IInv, TypeOK, syncNow, Tokens, AccountOf
  <2>2. TypeOK' /\ FirstSyncIsBackedUp'
    BY <1>3, <2>1, NoneAssumption
       DEF IInv, TypeOK, FirstSyncIsBackedUp, syncNow, NeedsBackup, calls
  <2> QED
    BY <1>3, <2>2 DEF IInv, RoomForAnswers, NothingInTheClear, StoredIsInUse, syncNow, calls
<1>4. CASE synced
  BY <1>4 DEF IInv, TypeOK, RoomForAnswers, NothingInTheClear, StoredIsInUse, FirstSyncIsBackedUp,
              synced, Syncing, calls
<1>5. CASE refused
  BY <1>5 DEF IInv, TypeOK, RoomForAnswers, NothingInTheClear, StoredIsInUse, FirstSyncIsBackedUp,
              refused, InvalidSession, SignedOut, Syncing, calls
<1> QED
  BY <1>1, <1>2, <1>3, <1>4, <1>5 DEF SyncEnds

LEMMA TroubleKeeps ==
  ASSUME IInv, Trouble, UNCHANGED keychain, troubles' \in 0..MaxTroubles
  PROVE  IInv'
<1>1. CASE \E a \in Accounts : loginFails(a)
  BY <1>1, LoginFailsKeeps
<1>2. CASE \E t \in live : expire(t)
  BY <1>2 DEF IInv, TypeOK, RoomForAnswers, NothingInTheClear, StoredIsInUse, FirstSyncIsBackedUp,
              expire, calls
<1>3. CASE backupFails
  BY <1>3 DEF IInv, TypeOK, RoomForAnswers, NothingInTheClear, StoredIsInUse, FirstSyncIsBackedUp,
              backupFails, calls
<1>4. CASE syncFails
  BY <1>4 DEF IInv, TypeOK, RoomForAnswers, NothingInTheClear, StoredIsInUse, FirstSyncIsBackedUp,
              syncFails, Syncing, calls
<1>5. CASE localChange
  BY <1>5 DEF IInv, TypeOK, RoomForAnswers, NothingInTheClear, StoredIsInUse, FirstSyncIsBackedUp,
              localChange, calls
<1>6. CASE restart
  BY <1>6, RestartKeeps
<1> QED
  BY <1>1, <1>2, <1>3, <1>4, <1>5, <1>6 DEF Trouble

LEMMA NextIInv == IInv /\ [Next]_vars => IInv'
<1> SUFFICES ASSUME IInv, [Next]_vars
             PROVE  IInv'
  OBVIOUS
<1>1. CASE UNCHANGED vars
  BY <1>1 DEF IInv, TypeOK, RoomForAnswers, NothingInTheClear, StoredIsInUse, FirstSyncIsBackedUp,
              vars, calls
<1>2. CASE Trouble /\ troubles < MaxTroubles /\ troubles' = troubles + 1 /\ UNCHANGED keychain
  <2>1. troubles' \in 0..MaxTroubles
    BY <1>2, SessionAssumption DEF IInv, TypeOK
  <2> QED
    BY <1>2, <2>1, TroubleKeeps
<1>3. CASE ((\E a \in Accounts : login(a) \/ loggedIn(a)) \/ logout \/ loggedOut
            \/ syncNow \/ SyncEnds) /\ UNCHANGED <<keychain, troubles>>
  BY <1>3, LoginKeeps, LoggedInKeeps, CallsKeep
<1> QED
  BY <1>1, <1>2, <1>3 DEF Next

\* The inductive invariant holds in every state of every run of the session.
THEOREM SessionInvariant == Spec => []IInv
BY InitIInv, NextIInv, PTL DEF Spec

\* The session's variables keep their types; in particular the answers of overlapping
\* sign-ins always find a token left.
THEOREM SessionTyped == Spec => []TypeOK
BY SessionInvariant, PTL DEF IInv

\* What login, logout and a refused sync leave in the store is the session in use or nothing.
THEOREM StoredSession == Spec => []StoredIsInUse
BY SessionInvariant, PTL DEF IInv

\* No sync of any account is out before syncNow made that account's copy.
THEOREM BackedUpBeforeSync == Spec => []FirstSyncIsBackedUp
BY SessionInvariant, PTL DEF IInv
=============================================================================
