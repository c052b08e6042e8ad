-------------------------------- MODULE Login --------------------------------
(***************************************************************************)
(* Logging in: src/pkg/connector/login.go and src/pkg/nctalk/login.go.     *)
(* A process is a run of `login` at a time, for one account, by either     *)
(* flow: an app password typed in, or an approval in the browser that the  *)
(* bridge polls for.  Both end in finish, which verifies the               *)
(* password, stores the login (Credentials) and connects it.  Wait and all *)
(* that follows it runs under a context that the timeout or Cancel ends;   *)
(* requests made under it then fail.                                       *)
(*                                                                         *)
(* bridgev2 drives the processes.  What is assumed of it: one that         *)
(* returned an error is not continued.                                     *)
(***************************************************************************)
EXTENDS Integers, FiniteSets

CONSTANTS Keys, NoKey, None, Unreadable, MaxRestarts,
          Wrong,          \* a password Nextcloud never gave out
          Processes,      \* logins that may go on side by side
          Startup,        \* the goroutine that connects the login it loaded
          MaxPasswords    \* bound on the app passwords of one behaviour

ASSUME LoginAssumption ==
    /\ Startup \notin Processes
    /\ Wrong \notin (1..MaxPasswords) \cup {None}
    /\ MaxPasswords \in Nat

Passwords == 1..MaxPasswords

VARIABLES live, spent, key, row, meta, client, connecting, reported, run,
          newest, unsaved

Store == INSTANCE Credentials WITH Connects <- Processes \cup {Startup}

ASSUME StoreAssumption == Store!CredentialsAssumption

VARIABLES
    at,       \* how far each process is
    opened,   \* processes with a page in Nextcloud to be approved
    given,    \* the password a process' page was approved with, or was typed
    ended,    \* processes whose context has ended
    tooLate   \* history: those whose context ended before all was verified

store == <<live, spent, key, row, meta, client, connecting, reported, run, newest, unsaved>>
vars == <<live, spent, key, row, meta, client, connecting, reported, run,
          newest, unsaved, at, opened, given, ended, tooLate>>
processes == <<at, opened, given, ended, tooLate>>

\* Nextcloud gives the passwords out in their order.
Unused == Passwords \ (live \cup spent)
Fresh(w) == w \in Unused /\ \A v \in Unused : w <= v

InWait == {"waiting", "collected", "verified", "stored"}
Stages == {"idle", "prompt", "display"} \cup InWait

Init ==
    /\ Store!Init
    /\ live \in {{}, {1}}
    /\ at = [p \in Processes |-> "idle"]
    /\ opened = {}
    /\ given = [p \in Processes |-> None]
    /\ ended = {}
    /\ tooLate = {}

Goes(p, stage) == at' = [at EXCEPT ![p] = stage]

\* The process is over, with a login or an error.  Its page is forgotten: an
\* approval that comes now makes a password nobody asks for.
IsOver(p) ==
    /\ Goes(p, "idle")
    /\ opened' = opened \ {p}
    /\ given' = [given EXCEPT ![p] = None]
    /\ ended' = ended \ {p}
    /\ tooLate' = tooLate \ {p}

-----------------------------------------------------------------------------
(* Start and SubmitUserInput *)

\* The server URL passes validateServerURL, ServerAllowed and checkServerAddress,
\* or the process is over.  Then the credentials are asked for, or the handshake
\* is started, which fails also when it names another origin.
SubmitServer(p) ==
    /\ at[p] = "idle" /\ connecting[p] = None
    /\ \/ Goes(p, "prompt") /\ UNCHANGED opened
       \/ Goes(p, "display") /\ opened' = opened \cup {p}
    /\ UNCHANGED <<store, given, ended, tooLate>>

\* A right, a revoked or a wrong password is typed; finish follows at once.
SubmitCredentials(p, w) ==
    /\ at[p] = "prompt"
    /\ given' = [given EXCEPT ![p] = w]
    /\ Goes(p, "collected")
    /\ UNCHANGED <<store, opened, ended, tooLate>>

-----------------------------------------------------------------------------
(* Wait *)

\* The context gets its timeout, and Cancel the function it calls; a Cancel
\* before that does nothing.
Wait(p) ==
    /\ at[p] = "display"
    /\ Goes(p, "waiting")
    /\ UNCHANGED <<store, opened, given, ended, tooLate>>

\* The user approves, which makes an app password.
Approve(p, w) ==
    /\ p \in opened /\ given[p] = None
    /\ Fresh(w) /\ Store!Grant(w)
    /\ given' = [given EXCEPT ![p] = w]
    /\ UNCHANGED <<at, opened, ended, tooLate>>

\* The poll that finds the page approved.  Before that Nextcloud answers 404,
\* and the next tick polls again.
PollApproved(p) ==
    /\ at[p] = "waiting"
    /\ p \notin ended
    /\ given[p] # None
    /\ Goes(p, "collected")
    /\ UNCHANGED <<store, opened, given, ended, tooLate>>

\* Anything but a 404 ends Wait, also when the password was in the answer that
\* got lost.
PollFailed(p) == at[p] = "waiting" /\ IsOver(p) /\ UNCHANGED store

\* What ends a Wait that nobody approves; the faulty variant polls on after its
\* context has ended.
NeverGivesUp(p) == FALSE
GivesUp(p) == p \in ended

GiveUp(p) == at[p] = "waiting" /\ GivesUp(p) /\ IsOver(p) /\ UNCHANGED store

\* The timeout passes, or the user cancels; the context of the other flow is not
\* the login's own.
ContextEnds(p) ==
    /\ p \in opened \ ended
    /\ at[p] \in InWait
    /\ ended' = ended \cup {p}
    /\ tooLate' = IF at[p] \in {"waiting", "collected"} THEN tooLate \cup {p} ELSE tooLate
    /\ UNCHANGED <<store, at, opened, given>>

-----------------------------------------------------------------------------
(* finish *)

\* A request under a context that has ended is not answered.  The faulty variant
\* makes it under a context of its own.
AnsweredAnyway(p) == TRUE
Answered(p) == p \notin ended

\* VerifyCredentials accepts a working password.
Verify(p) ==
    /\ at[p] = "collected"
    /\ Answered(p) /\ given[p] \in live
    /\ Goes(p, "verified")
    /\ UNCHANGED <<store, opened, given, ended, tooLate>>

\* It rejects the password, Nextcloud cannot be reached, or Talk is too old.
Reject(p) == at[p] = "collected" /\ IsOver(p) /\ UNCHANGED store

StoreLogin(p) ==
    /\ at[p] = "verified"
    /\ Store!NewLogin(given[p])
    /\ Goes(p, "stored")
    /\ UNCHANGED <<opened, given, ended, tooLate>>

\* newLoginMetadata has no key, or NewLogin fails, perhaps for the ended context.
StoreFails(p) == at[p] = "verified" /\ IsOver(p) /\ UNCHANGED store

\* The login is connected.  Under a context that has ended its request fails at
\* once; the login is complete all the same.
ConnectLogin(p) ==
    /\ at[p] = "stored"
    /\ \/ p \notin ended /\ Store!Connect(p)
       \/ /\ p \in ended \/ client = None
          /\ reported' = IF client = None THEN reported ELSE "unknownError"
          /\ UNCHANGED <<live, spent, key, row, meta, client, connecting, run, newest, unsaved>>
    /\ IsOver(p)

-----------------------------------------------------------------------------
(* around the processes *)

\* Connect of the login that was loaded, at start-up.
ConnectLoaded == Store!Connect(Startup) /\ UNCHANGED processes
ConnectGoesOn(c) == (Store!Verify(c) \/ Store!Finish(c)) /\ UNCHANGED processes

Logout == Store!Logout /\ UNCHANGED processes

\* In the security settings of the account.
GrantByHand(w) == Fresh(w) /\ Store!Grant(w) /\ UNCHANGED processes
RevokeByHand(w) == Store!Revoke(w) /\ UNCHANGED processes

\* The processes are only in memory.
Restart(k) ==
    /\ Store!Restart(k)
    /\ at' = [p \in Processes |-> "idle"]
    /\ opened' = {}
    /\ given' = [p \in Processes |-> None]
    /\ ended' = {}
    /\ tooLate' = {}

ProcessStep(p) ==
    \/ SubmitServer(p)
    \/ \E w \in live \cup spent \cup {Wrong} : SubmitCredentials(p, w)
    \/ \E w \in Passwords : Approve(p, w)
    \/ Wait(p) \/ PollApproved(p) \/ PollFailed(p) \/ GiveUp(p) \/ ContextEnds(p)
    \/ Verify(p) \/ Reject(p) \/ StoreLogin(p) \/ StoreFails(p) \/ ConnectLogin(p)

Next ==
    \/ \E p \in Processes : ProcessStep(p)
    \/ ConnectLoaded
    \/ \E c \in Processes \cup {Startup} : ConnectGoesOn(c)
    \/ Logout
    \/ \E w \in Passwords : GrantByHand(w) \/ RevokeByHand(w)
    \/ \E k \in Keys \cup {NoKey} : Restart(k)

Spec == Init /\ [][Next]_vars

\* The timeout passes, the goroutines go on, and no request takes for ever.
\* Nobody need approve, and no poll need fail.
Fairness ==
    /\ \A p \in Processes :
          /\ WF_vars(ContextEnds(p))
          /\ WF_vars(GiveUp(p))
          /\ WF_vars(Verify(p) \/ Reject(p) \/ StoreLogin(p) \/ StoreFails(p) \/ ConnectLogin(p))
    /\ \A c \in Processes \cup {Startup} : WF_vars(ConnectGoesOn(c))

FairSpec == Spec /\ Fairness

-----------------------------------------------------------------------------
\* Every variable has its type.
TypeOK ==
    /\ Store!TypeOK
    /\ at \in [Processes -> Stages]
    /\ opened \in SUBSET Processes
    /\ given \in [Processes -> Passwords \cup {None, Wrong}]
    /\ ended \in SUBSET opened /\ tooLate \in SUBSET ended

\* login.go:241 "creates or updates the UserLogin": with several logins of one
\* account, Connects of clients they replaced, restarts and changed keys, the
\* bridge holds the password of the login that was stored last.
NewestLoginIsKept == Store!NewestLoginIsKept

\* README.md:180, from Credentials: a sealed row is left as it is until a login
\* is stored or deleted.
SealedIsKept == Store!SealedIsKept

\* README.md:181, from Credentials: a login in the clear is sealed when it
\* connects.
ConnectedIsSealed == Store!ConnectedIsSealed

\* login_test.go:406 "TestCancelStopsAnInFlightWait": a process whose context
\* ended before its password was verified stores no login, even if the approval
\* had been collected by then.
CancelIsObeyed == \A p \in tooLate : at[p] \notin {"verified", "stored"}

\* login_test.go:329 "TestWaitTimesOutWaitingForApproval": a Wait ends though
\* nobody approves, and so does the Connect of its login.
WaitEnds ==
    \A p \in Processes : at[p] = "waiting" ~> at[p] = "idle" /\ connecting[p] = None
=============================================================================
