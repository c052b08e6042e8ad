----------------------------- MODULE LoginProofs -----------------------------
(***************************************************************************)
(* What is stored of an account and what logins do to it, for any keys,    *)
(* app passwords, login processes and restarts: proofs about Login, and    *)
(* about Credentials inside it.                                            *)
(***************************************************************************)
EXTENDS Login, TLAPS

\* A sealed row is also the copy in memory, so that a Connect that saves it has
\* nothing older to save.
SealedIsInMemory == Store!Sealed(row) => meta = row

\* A Connect is under way only for a login, and what it could seal a row in the
\* clear with is the very password of that row: no login has replaced it in this
\* run, since that would have sealed it.
UnsealedIsInUse ==
    /\ client # None => meta # None
    /\ \A c \in Processes \cup {Startup} : connecting[c] # None => meta # None
    /\ meta # None /\ ~ Store!Sealed(meta) =>
          /\ client = meta.password
          /\ \A c \in Processes \cup {Startup} :
                connecting[c] # None => connecting[c].password = meta.password

\* The store's part of the invariant.
StoreInv ==
    /\ Store!TypeOK
    /\ NewestLoginIsKept
    /\ ConnectedIsSealed
    /\ SealedIsInMemory
    /\ UnsealedIsInUse

\* What finish stores was verified, so it is a password.
VerifiedIsPassword ==
    \A p \in Processes : at[p] \in {"verified", "stored"} => given[p] \in Passwords

ProcessInv ==
    /\ at \in [Processes -> Stages]
    /\ opened \in SUBSET Processes
    /\ given \in [Processes -> Passwords \cup {None, Wrong}]
    /\ ended \in SUBSET opened /\ tooLate \in SUBSET ended
    /\ VerifiedIsPassword
    /\ CancelIsObeyed

LoginInv == StoreInv /\ ProcessInv

-----------------------------------------------------------------------------
(* The store *)

\* What the assumptions say of rows, of Connects and of the bridge's states.
LEMMA StoreConstants ==
    /\ NoKey \notin Keys
    /\ None \notin Passwords /\ Unreadable \notin Passwords /\ None # Unreadable
    /\ None \notin [under : Keys \cup {NoKey}, password : Passwords]
    /\ None \notin [password : Passwords, answer : Store!Answers]
    /\ None \notin {"connected", "badCredentials", "unknownError"}
    /\ MaxRestarts \in Nat
BY StoreAssumption DEF Store!CredentialsAssumption, Store!States

LEMMA InitStore == Store!Init => StoreInv
<1> SUFFICES ASSUME Store!Init PROVE StoreInv
  OBVIOUS
<1> USE StoreConstants DEF Store!Init, Store!Stored, Store!Read, Store!Sealed
<1>1. Store!TypeOK
  <2>1. row \in {None} \cup [under : Keys \cup {NoKey}, password : Passwords]
    OBVIOUS
  <2>2. client \in Passwords \cup {None, Unreadable}
    BY <2>1
  <2>3. live \in SUBSET Passwords /\ key \in Keys \cup {NoKey} /\ run \in 0..MaxRestarts
    OBVIOUS
  <2>4. QED BY <2>1, <2>2, <2>3 DEF Store!TypeOK, Store!Rows
<1>2. NewestLoginIsKept /\ ConnectedIsSealed
  BY DEF NewestLoginIsKept, Store!NewestLoginIsKept, ConnectedIsSealed, Store!ConnectedIsSealed
<1>3. SealedIsInMemory /\ UnsealedIsInUse
  BY DEF SealedIsInMemory, UnsealedIsInUse
<1>4. QED BY <1>1, <1>2, <1>3 DEF StoreInv

LEMMA StoreUntouched ==
    ASSUME StoreInv, UNCHANGED store
    PROVE  StoreInv'
<1> USE DEF StoreInv, store
<1>1. Store!TypeOK'
  BY DEF Store!TypeOK
<1>2. NewestLoginIsKept' /\ ConnectedIsSealed'
  BY DEF NewestLoginIsKept, Store!NewestLoginIsKept, ConnectedIsSealed, Store!ConnectedIsSealed
<1>3. SealedIsInMemory' /\ UnsealedIsInUse'
  BY DEF SealedIsInMemory, UnsealedIsInUse
<1>4. QED BY <1>1, <1>2, <1>3

\* Nextcloud's own changes, and a state that is sent without a Connect.
LEMMA AroundPreserves ==
    ASSUME StoreInv,
           UNCHANGED <<key, row, meta, client, connecting, run, newest, unsaved>>,
           live' \in SUBSET Passwords, spent' \in SUBSET Passwords,
           reported' \in {reported, "badCredentials", "unknownError"}
    PROVE  StoreInv'
<1> USE DEF StoreInv
<1>1. Store!TypeOK'
  BY DEF Store!TypeOK, Store!States
<1>2. NewestLoginIsKept' /\ ConnectedIsSealed'
  BY DEF NewestLoginIsKept, Store!NewestLoginIsKept, ConnectedIsSealed, Store!ConnectedIsSealed
<1>3. SealedIsInMemory' /\ UnsealedIsInUse'
  BY DEF SealedIsInMemory, UnsealedIsInUse
<1>4. QED BY <1>1, <1>2, <1>3

\* The row of a new login is sealed, in the database and in memory.
LEMMA NewLoginPreserves ==
    ASSUME StoreInv, NEW w \in Passwords, Store!NewLogin(w)
    PROVE  /\ StoreInv'
           /\ Store!Sealed(row)' /\ row' = newest'
<1> USE StoreConstants DEF StoreInv, Store!NewLogin, Store!Storable, Store!nextcloud
<1>1. /\ row' = [under |-> key, password |-> w] /\ meta' = row' /\ newest' = row'
      /\ row' \in Store!Rows /\ row' # None /\ row'.under # NoKey /\ row'.password = w
  BY DEF Store!Stored, Store!Rows, Store!TypeOK
<1>2. Store!TypeOK'
  BY <1>1 DEF Store!TypeOK
<1>3. NewestLoginIsKept' /\ ConnectedIsSealed'
  BY <1>1 DEF NewestLoginIsKept, Store!NewestLoginIsKept, ConnectedIsSealed,
     Store!ConnectedIsSealed, Store!Sealed
<1>4. SealedIsInMemory' /\ UnsealedIsInUse'
  BY <1>1 DEF SealedIsInMemory, UnsealedIsInUse, Store!Sealed
<1>5. QED BY <1>1, <1>2, <1>3, <1>4 DEF Store!Sealed

LEMMA ConnectPreserves ==
    ASSUME StoreInv, NEW c \in Processes \cup {Startup}, Store!Connect(c)
    PROVE  StoreInv'
<1> USE StoreConstants DEF StoreInv
<1>1. CASE UNCHANGED connecting
  BY <1>1, AroundPreserves DEF Store!Connect, Store!nextcloud, Store!TypeOK
<1>2. CASE connecting' = [connecting EXCEPT ![c] = Store!Asking(client, "awaited")]
           /\ client # Unreadable /\ UNCHANGED reported
  <2> DEFINE call == [password |-> client, answer |-> "awaited"]
  <2>1. /\ UNCHANGED <<live, spent, key, row, meta, client, reported, run, newest, unsaved>>
        /\ client # None
        /\ connecting' = [connecting EXCEPT ![c] = call]
    BY <1>2 DEF Store!Connect, Store!nextcloud, Store!Asking
  <2>2. client \in Passwords /\ meta # None
    BY <1>2, <2>1 DEF Store!TypeOK, UnsealedIsInUse
  <2>3. call \in [password : Passwords, answer : Store!Answers] /\ call.password = client
    BY <2>2 DEF Store!Answers
  <2> HIDE DEF call
  <2>4. Store!TypeOK'
    BY <2>1, <2>3 DEF Store!TypeOK
  <2>5. NewestLoginIsKept' /\ ConnectedIsSealed' /\ SealedIsInMemory'
    BY <2>1 DEF NewestLoginIsKept, Store!NewestLoginIsKept, ConnectedIsSealed,
       Store!ConnectedIsSealed, SealedIsInMemory
  <2>6. UnsealedIsInUse'
    BY <2>1, <2>2, <2>3 DEF UnsealedIsInUse, Store!TypeOK
  <2>7. QED BY <2>4, <2>5, <2>6
<1>3. QED BY <1>1, <1>2 DEF Store!Connect

LEMMA VerifyPreserves ==
    ASSUME StoreInv, NEW c \in Processes \cup {Startup}, Store!Verify(c)
    PROVE  StoreInv'
<1> USE StoreConstants DEF StoreInv
<1>1. PICK verdict \in Store!Answers : connecting' = [connecting EXCEPT ![c].answer = verdict]
  BY DEF Store!Verify, Store!Verdicts, Store!Answers
<1>2. UNCHANGED <<live, spent, key, row, meta, client, reported, run, newest, unsaved>>
  BY DEF Store!Verify, Store!nextcloud
<1>3. connecting[c] \in [password : Passwords, answer : Store!Answers] /\ connecting[c] # None
  BY DEF Store!TypeOK, Store!Verify
<1> DEFINE call == [connecting[c] EXCEPT !.answer = verdict]
<1>4. /\ connecting' = [connecting EXCEPT ![c] = call]
      /\ call \in [password : Passwords, answer : Store!Answers]
      /\ call.password = connecting[c].password
  BY <1>1, <1>3
<1> HIDE DEF call
<1>5. Store!TypeOK'
  BY <1>2, <1>4 DEF Store!TypeOK
<1>6. NewestLoginIsKept' /\ ConnectedIsSealed' /\ SealedIsInMemory'
  BY <1>2 DEF NewestLoginIsKept, Store!NewestLoginIsKept, ConnectedIsSealed,
     Store!ConnectedIsSealed, SealedIsInMemory
<1>7. UnsealedIsInUse'
  BY <1>2, <1>3, <1>4 DEF UnsealedIsInUse, Store!TypeOK
<1>8. QED BY <1>5, <1>6, <1>7

\* What reencryptCredential makes of the copy in memory: it is sealed already and
\* stays, or it is sealed with the password it has, or there is no key.
LEMMA ResealedKeepsThePassword ==
    ASSUME StoreInv, NEW c \in Processes \cup {Startup}, connecting[c] # None
    PROVE  LET resealed == Store!Resealed(meta, connecting[c].password)
           IN  /\ resealed \in Store!Rows /\ resealed # None
               /\ resealed.password = meta.password
               /\ Store!Sealed(meta) => resealed = meta
               /\ Store!Sealed(resealed) \/ (key = NoKey /\ resealed = meta)
<1> USE StoreConstants DEF StoreInv, Store!Resealed, Store!NeedsSealing, Store!Stored
<1>1. meta \in Store!Rows /\ meta # None /\ key \in Keys \cup {NoKey}
      /\ connecting[c].password \in Passwords
  BY DEF Store!TypeOK, UnsealedIsInUse
<1>2. CASE Store!Sealed(meta)
  BY <1>1, <1>2
<1>3. CASE ~ Store!Sealed(meta) /\ key = NoKey
  BY <1>1, <1>3
<1>4. CASE ~ Store!Sealed(meta) /\ key # NoKey
  <2>1. connecting[c].password = meta.password
    BY <1>1, <1>4 DEF UnsealedIsInUse
  <2>2. [under |-> key, password |-> meta.password] \in Store!Rows \ {None}
    BY <1>1, <2>1 DEF Store!Rows
  <2>3. QED BY <1>1, <1>4, <2>1, <2>2 DEF Store!Sealed
<1>5. QED BY <1>2, <1>3, <1>4

LEMMA FinishPreserves ==
    ASSUME StoreInv, NEW c \in Processes \cup {Startup}, Store!Finish(c)
    PROVE  /\ StoreInv'
           /\ Store!Sealed(row) => row' = row
<1> USE StoreConstants DEF StoreInv
<1> DEFINE answer == connecting[c].answer
           resealed == Store!Resealed(meta, connecting[c].password)
<1>1. /\ connecting[c] # None
      /\ reported' = Store!Reported(answer)
      /\ connecting' = [connecting EXCEPT ![c] = None]
      /\ UNCHANGED <<live, spent, key, client, run, newest>>
      /\ \/ /\ meta' = resealed
            /\ \/ row' = resealed /\ unsaved' = unsaved
               \/ row' = row /\ unsaved' = TRUE
         \/ answer # "ok" /\ UNCHANGED <<meta, row, unsaved>>
  BY DEF Store!Finish, Store!Saved, Store!nextcloud
<1>2. /\ resealed \in Store!Rows /\ resealed # None
      /\ resealed.password = meta.password
      /\ Store!Sealed(meta) => resealed = meta
      /\ Store!Sealed(resealed) \/ (key = NoKey /\ resealed = meta)
  BY <1>1, ResealedKeepsThePassword
<1>3. meta # None
  BY <1>1 DEF UnsealedIsInUse
<1>4. reported' \in Store!States /\ (reported' = "connected" => answer = "ok")
  BY <1>1 DEF Store!Reported, Store!States
<1> HIDE DEF answer, resealed
<1>5. Store!TypeOK'
  BY <1>1, <1>2, <1>4 DEF Store!TypeOK
<1>6. NewestLoginIsKept'
  BY <1>1, <1>2, <1>3 DEF NewestLoginIsKept, Store!NewestLoginIsKept
<1>7. ConnectedIsSealed'
  BY <1>1, <1>2, <1>4 DEF ConnectedIsSealed, Store!ConnectedIsSealed, Store!TypeOK
<1>8. SealedIsInMemory' /\ (Store!Sealed(row) => row' = row)
  BY <1>1, <1>2 DEF SealedIsInMemory, Store!Sealed
<1>9. UnsealedIsInUse'
  BY <1>1, <1>2, <1>3 DEF UnsealedIsInUse, Store!Sealed, Store!TypeOK
<1>10. QED BY <1>5, <1>6, <1>7, <1>8, <1>9

LEMMA LogoutPreserves ==
    ASSUME StoreInv, Store!Logout
    PROVE  StoreInv'
<1> USE StoreConstants DEF StoreInv
<1>1. /\ row' = None /\ meta' = None /\ client' = None /\ newest' = None /\ reported' = None
      /\ connecting' = [c \in Processes \cup {Startup} |-> None]
      /\ UNCHANGED <<key, run, unsaved>>
  BY DEF Store!Logout
<1>2. live' \in SUBSET Passwords /\ spent' \in SUBSET Passwords
  BY DEF Store!Logout, Store!nextcloud, Store!TypeOK
<1>3. Store!TypeOK'
  BY <1>1, <1>2 DEF Store!TypeOK, Store!Rows
<1>4. NewestLoginIsKept' /\ ConnectedIsSealed'
  BY <1>1 DEF NewestLoginIsKept, Store!NewestLoginIsKept, ConnectedIsSealed, Store!ConnectedIsSealed
<1>5. SealedIsInMemory' /\ UnsealedIsInUse'
  BY <1>1 DEF SealedIsInMemory, UnsealedIsInUse
<1>6. QED BY <1>3, <1>4, <1>5

\* The row is read back with the key of the new run, whichever that is.
LEMMA RestartPreserves ==
    ASSUME StoreInv, NEW k \in Keys \cup {NoKey}, Store!Restart(k)
    PROVE  StoreInv'
<1> USE StoreConstants DEF StoreInv, Store!Restart, Store!nextcloud
<1>1. /\ row \in Store!Rows
      /\ row # None /\ ~ Store!Sealed(row) => client' = row.password
      /\ client' \in Passwords => row # None /\ client' = row.password
      /\ client' # None => row # None
      /\ client' \in Passwords \cup {None, Unreadable}
  BY DEF Store!Read, Store!Sealed, Store!TypeOK, Store!Rows
<1>2. run' \in 0..MaxRestarts
  BY DEF Store!TypeOK
<1>3. Store!TypeOK'
  BY <1>1, <1>2 DEF Store!TypeOK
<1>4. NewestLoginIsKept' /\ ConnectedIsSealed'
  BY <1>1 DEF NewestLoginIsKept, Store!NewestLoginIsKept, ConnectedIsSealed, Store!ConnectedIsSealed
<1>5. SealedIsInMemory' /\ UnsealedIsInUse'
  BY <1>1 DEF SealedIsInMemory, UnsealedIsInUse
<1>6. QED BY <1>3, <1>4, <1>5

-----------------------------------------------------------------------------
(* The processes *)

LEMMA InitProcesses == Init => ProcessInv
BY DEF Init, ProcessInv, VerifiedIsPassword, CancelIsObeyed, Stages

\* Any process step that keeps the store's types sets at most the stage and the
\* password of its own process, and these two are what the invariant limits.
LEMMA StagePreserves ==
    ASSUME ProcessInv, NEW p \in Processes, NEW stage \in Stages,
           NEW w \in Passwords \cup {None, Wrong},
           at' = [at EXCEPT ![p] = stage],
           given' = [given EXCEPT ![p] = w],
           opened' \in {opened, opened \cup {p}},
           UNCHANGED <<ended, tooLate>>,
           stage \in {"verified", "stored"} => w \in Passwords /\ p \notin tooLate
    PROVE  ProcessInv'
<1> USE DEF ProcessInv
<1>1. VerifiedIsPassword'
  BY DEF VerifiedIsPassword
<1>2. CancelIsObeyed'
  BY DEF CancelIsObeyed
<1>3. QED BY <1>1, <1>2

LEMMA IsOverPreserves ==
    ASSUME ProcessInv, NEW p \in Processes, IsOver(p)
    PROVE  ProcessInv'
<1> USE DEF ProcessInv, IsOver, Goes
<1>1. VerifiedIsPassword'
  BY DEF VerifiedIsPassword, Stages
<1>2. CancelIsObeyed'
  BY DEF CancelIsObeyed, Stages
<1>3. ended' \in SUBSET opened' /\ tooLate' \in SUBSET ended' /\ opened' \in SUBSET Processes
  OBVIOUS
<1>4. QED BY <1>1, <1>2, <1>3 DEF Stages

LEMMA ProcessesUntouched == ProcessInv /\ UNCHANGED processes => ProcessInv'
BY DEF ProcessInv, processes, VerifiedIsPassword, CancelIsObeyed

LEMMA ContextEndsPreserves ==
    ASSUME ProcessInv, NEW p \in Processes, ContextEnds(p)
    PROVE  ProcessInv'
<1> USE DEF ProcessInv, ContextEnds
<1>1. ended' \in SUBSET opened' /\ tooLate' \in SUBSET ended'
  OBVIOUS
<1>2. VerifiedIsPassword'
  BY DEF VerifiedIsPassword
<1>3. CancelIsObeyed'
  BY DEF CancelIsObeyed
<1>4. QED BY <1>1, <1>2, <1>3

-----------------------------------------------------------------------------
(* The steps of both *)

\* What SealedIsKept says of one step.
SealedStays ==
    Store!Sealed(row) => row' \in {row, None} \/ (row' = newest' /\ Store!Sealed(row'))

LEMMA ProcessStepPreserves ==
    ASSUME LoginInv, NEW p \in Processes, ProcessStep(p)
    PROVE  LoginInv' /\ SealedStays
<1> USE DEF LoginInv, SealedStays
<1>1. /\ given[p] \in Passwords \cup {None, Wrong} /\ at[p] \in Stages
      /\ [at EXCEPT ![p] = at[p]] = at /\ [given EXCEPT ![p] = given[p]] = given
      /\ live \in SUBSET Passwords /\ spent \in SUBSET Passwords
  BY DEF ProcessInv, StoreInv, Store!TypeOK
<1>2. ASSUME UNCHANGED store, ProcessInv'
      PROVE  LoginInv' /\ SealedStays
  BY <1>2, StoreUntouched DEF store
<1>3. ASSUME UNCHANGED <<store, ended, tooLate>>, NEW stage \in Stages, Goes(p, stage),
             NEW w \in Passwords \cup {None, Wrong}, given' = [given EXCEPT ![p] = w],
             opened' \in {opened, opened \cup {p}},
             stage \in {"verified", "stored"} => w \in Passwords /\ p \notin tooLate
      PROVE  LoginInv' /\ SealedStays
  BY <1>2, <1>3, StagePreserves DEF Goes
<1>4. CASE SubmitServer(p)
  BY <1>1, <1>3, <1>4 DEF SubmitServer, Stages
<1>5. CASE \E w \in live \cup spent \cup {Wrong} : SubmitCredentials(p, w)
  <2>1. PICK w \in live \cup spent \cup {Wrong} : SubmitCredentials(p, w)
    BY <1>5
  <2>2. w \in Passwords \cup {None, Wrong} /\ "collected" \in Stages
    BY <1>1 DEF Stages, InWait
  <2>3. QED BY <1>3, <2>1, <2>2 DEF SubmitCredentials
<1>6. CASE \E w \in Passwords : Approve(p, w)
  <2>1. PICK w \in Passwords : Approve(p, w)
    BY <1>6
  <2>2. StoreInv' /\ SealedStays
    BY <2>1, <1>1, AroundPreserves DEF Approve, Store!Grant
  <2>3. at[p] \notin {"verified", "stored"}
    BY <2>1, StoreConstants DEF Approve, ProcessInv, VerifiedIsPassword
  <2>4. ProcessInv'
    BY <2>1, <2>3, <1>1, StagePreserves DEF Approve
  <2>5. QED BY <2>2, <2>4
<1>7. CASE Wait(p)
  BY <1>1, <1>3, <1>7 DEF Wait, Stages, InWait
<1>8. CASE PollApproved(p)
  BY <1>1, <1>3, <1>8 DEF PollApproved, Stages, InWait
<1>9. CASE PollFailed(p) \/ GiveUp(p) \/ Reject(p) \/ StoreFails(p)
  BY <1>2, <1>9, IsOverPreserves DEF PollFailed, GiveUp, Reject, StoreFails
<1>10. CASE ContextEnds(p)
  BY <1>2, <1>10, ContextEndsPreserves DEF ContextEnds
<1>11. CASE Verify(p)
  BY <1>1, <1>3, <1>11 DEF Verify, Answered, Stages, InWait, ProcessInv
<1>12. CASE StoreLogin(p)
  <2>1. given[p] \in Passwords /\ p \notin tooLate
    BY <1>12 DEF StoreLogin, ProcessInv, VerifiedIsPassword, CancelIsObeyed
  <2>2. StoreInv' /\ SealedStays
    BY <1>12, <2>1, NewLoginPreserves DEF StoreLogin, Store!Sealed
  <2>3. ProcessInv'
    BY <1>1, <1>12, <2>1, StagePreserves DEF StoreLogin, Goes, Stages, InWait
  <2>4. QED BY <2>2, <2>3
<1>13. CASE ConnectLogin(p)
  <2>1. ProcessInv'
    BY <1>13, IsOverPreserves DEF ConnectLogin
  <2>2. CASE Store!Connect(p)
    BY <2>1, <2>2, ConnectPreserves DEF Store!Connect
  <2>3. CASE /\ reported' = IF client = None THEN reported ELSE "unknownError"
             /\ UNCHANGED <<live, spent, key, row, meta, client, connecting, run, newest, unsaved>>
    BY <1>1, <2>1, <2>3, AroundPreserves
  <2>4. QED BY <1>13, <2>2, <2>3 DEF ConnectLogin
<1>14. QED
  BY <1>4, <1>5, <1>6, <1>7, <1>8, <1>9, <1>10, <1>11, <1>12, <1>13 DEF ProcessStep

LEMMA NextPreserves ==
    ASSUME LoginInv, [Next]_vars
    PROVE  LoginInv' /\ SealedStays
<1> USE DEF LoginInv, SealedStays
<1>1. live \in SUBSET Passwords /\ spent \in SUBSET Passwords
  BY DEF StoreInv, Store!TypeOK
<1>2. CASE \E p \in Processes : ProcessStep(p)
  BY <1>2, ProcessStepPreserves
<1>3. CASE ConnectLoaded
  BY <1>3, ConnectPreserves, ProcessesUntouched DEF ConnectLoaded, Store!Connect
<1>4. CASE \E c \in Processes \cup {Startup} : ConnectGoesOn(c)
  <2>1. PICK c \in Processes \cup {Startup} : ConnectGoesOn(c)
    BY <1>4
  <2>2. CASE Store!Verify(c)
    BY <2>1, <2>2, VerifyPreserves, ProcessesUntouched DEF ConnectGoesOn, Store!Verify
  <2>3. CASE Store!Finish(c)
    BY <2>1, <2>3, FinishPreserves, ProcessesUntouched DEF ConnectGoesOn
  <2>4. QED BY <2>1, <2>2, <2>3 DEF ConnectGoesOn
<1>5. CASE Logout
  BY <1>5, LogoutPreserves, ProcessesUntouched DEF Logout, Store!Logout
<1>6. CASE \E w \in Passwords : GrantByHand(w) \/ RevokeByHand(w)
  <2>1. PICK w \in Passwords : GrantByHand(w) \/ RevokeByHand(w)
    BY <1>6
  <2>2. /\ UNCHANGED <<key, row, meta, client, connecting, reported, run, newest, unsaved>>
        /\ live' \in SUBSET Passwords /\ spent' \in SUBSET Passwords
        /\ UNCHANGED processes
    BY <1>1, <2>1 DEF GrantByHand, RevokeByHand, Store!Grant, Store!Revoke
  <2>3. QED BY <2>2, AroundPreserves, ProcessesUntouched
<1>7. CASE \E k \in Keys \cup {NoKey} : Restart(k)
  <2>1. PICK k \in Keys \cup {NoKey} : Restart(k)
    BY <1>7
  <2>2. ProcessInv'
    BY <2>1 DEF Restart, ProcessInv, VerifiedIsPassword, CancelIsObeyed, Stages
  <2>3. QED BY <2>1, <2>2, RestartPreserves DEF Restart, Store!Restart
<1>8. CASE UNCHANGED vars
  BY <1>8, StoreUntouched, ProcessesUntouched DEF vars, store, processes
<1>9. QED BY <1>2, <1>3, <1>4, <1>5, <1>6, <1>7, <1>8 DEF Next

-----------------------------------------------------------------------------
(* What the theorems say of the code is in Login and Credentials *)

\* For any keys, passwords, processes and restarts, the invariant above holds of
\* every behaviour of Login.
THEOREM LoginInvariant == Spec => []LoginInv
<1>1. Init => LoginInv
  BY InitStore, InitProcesses DEF Init, LoginInv
<1>2. LoginInv /\ [Next]_vars => LoginInv'
  BY NextPreserves
<1>3. QED BY <1>1, <1>2, PTL DEF Spec

\* Every variable of Login and of Credentials has its type.
THEOREM TypeCorrect == Spec => []TypeOK
<1>1. LoginInv => TypeOK
  BY DEF LoginInv, StoreInv, ProcessInv, TypeOK
<1>2. QED BY <1>1, LoginInvariant, PTL

\* finish, Connect and LoadUserLogin, in any order: the row, its copy in memory
\* and the client hold the password of the login that was stored last.
THEOREM NewestLoginWins == Spec => []NewestLoginIsKept
<1>1. LoginInv => NewestLoginIsKept
  BY DEF LoginInv, StoreInv
<1>2. QED BY <1>1, LoginInvariant, PTL

\* reencryptCredential: once its login has connected, with a key configured and
\* the row written, no password is left in the clear in the database.
THEOREM ConnectSeals == Spec => []ConnectedIsSealed
<1>1. LoginInv => ConnectedIsSealed
  BY DEF LoginInv, StoreInv
<1>2. QED BY <1>1, LoginInvariant, PTL

\* Wait and finish: a process whose context ended before its password was
\* verified stores no login.
THEOREM CancelledStoresNothing == Spec => []CancelIsObeyed
<1>1. LoginInv => CancelIsObeyed
  BY DEF LoginInv, ProcessInv
<1>2. QED BY <1>1, LoginInvariant, PTL

\* decryptCredential and reencryptCredential: whatever key a run has, a sealed row
\* is only replaced by a login, sealed itself, or deleted.
THEOREM SealedRowIsKept == Spec => SealedIsKept
<1>1. LoginInv /\ [Next]_vars => [SealedStays]_store
  BY NextPreserves
<1>2. SealedIsKept <=> [][SealedStays]_store
  BY PTL DEF SealedIsKept, Store!SealedIsKept, Store!vars, store, SealedStays
<1>3. QED BY <1>1, <1>2, LoginInvariant, PTL DEF Spec
=============================================================================
