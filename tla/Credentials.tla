----------------------------- MODULE Credentials -----------------------------
(***************************************************************************)
(* What the bridge keeps of a login and what it makes of it: the sealed    *)
(* app password (credentials.go), LoadUserLogin (connector.go) and         *)
(* Connect, reencryptCredential and LogoutRemote (client.go).  One         *)
(* Nextcloud account is modelled.  Its row outlives restarts, between      *)
(* which the key may be changed, lost or brought back; in memory there is  *)
(* a copy of the row and the client, which holds the readable password.    *)
(* Connect reads the answer of a request that was made earlier, possibly   *)
(* by a client that a new login has replaced meanwhile.                    *)
(*                                                                         *)
(* bridgev2 keeps the rows.  What is assumed of it: a login stored under   *)
(* an ID it knows replaces metadata and client of the login it has; once a *)
(* login is deleted, a Connect still under way changes nothing any more.   *)
(***************************************************************************)
EXTENDS Integers

CONSTANTS
    Keys, NoKey,    \* values of network.credential_key; none is configured
    Passwords,      \* app passwords Nextcloud may give out for the account
    Connects,       \* goroutines that may be in Connect
    None,           \* in place of a row, a password, a client or a Connect
    Unreadable,     \* in place of a password that did not decrypt
    MaxRestarts     \* bound on the restarts of one behaviour

\* How far a Connect's request is, and the bridge states that are sent.
Answers == {"awaited", "ok", "noBots", "unauthorized", "failed"}
States == {"connected", "badCredentials", "unknownError"}

\* What the constants must satisfy; Login, which gives them values, assumes it.
CredentialsAssumption ==
    /\ NoKey \notin Keys
    /\ None \notin Passwords \cup {Unreadable} /\ Unreadable \notin Passwords
    /\ None \notin [under : Keys \cup {NoKey}, password : Passwords]
    /\ None \notin [password : Passwords, answer : Answers]
    /\ None \notin States
    /\ MaxRestarts \in Nat

VARIABLES
    live,        \* Nextcloud: the app passwords that work
    spent,       \* Nextcloud: those that were given out and revoked
    key,         \* network.credential_key of this run
    row,         \* the database: UserLoginMetadata.AppPassword
    meta,        \* the same field in memory
    client,      \* the password of the login's client
    connecting,  \* per Connect: the password it asked with, and the answer
    reported,    \* the bridge state sent last
    run,         \* which run of the bridge this is
    newest,      \* history: the row the newest login was stored as
    unsaved      \* history: whether writing a row failed in this run

nextcloud == <<live, spent>>
vars == <<live, spent, key, row, meta, client, connecting, reported, run, newest, unsaved>>

\* A stored credential: the key it is sealed under, or NoKey in the clear.
Stored(k, p) == [under |-> k, password |-> p]
Sealed(r) == r # None /\ r.under # NoKey

\* decryptCredential.  What is in the clear is returned as it is.
Read(r, k) ==
    IF r = None THEN None
    ELSE IF Sealed(r) /\ r.under # k THEN Unreadable ELSE r.password

Asking(p, answer) == [password |-> p, answer |-> answer]

\* The bridge is new, or was upgraded from a version that kept the password of
\* its one login in the clear.
Init ==
    /\ live \in SUBSET Passwords /\ spent = {}
    /\ key \in Keys \cup {NoKey}
    /\ row \in {None} \cup {Stored(NoKey, p) : p \in live}
    /\ meta = row
    /\ client = Read(row, key)
    /\ connecting = [c \in Connects |-> None]
    /\ reported = None
    /\ run = 0
    /\ newest = row
    /\ unsaved = FALSE

-----------------------------------------------------------------------------
(* finish: newLoginMetadata and NewLogin, with the LoadUserLogin in it *)

\* newLoginMetadata refuses to store a password it has no key for.  The faulty
\* variant stores it in the clear.
StorableAnyway(k) == TRUE
Storable(k) == k # NoKey

NewLogin(p) ==
    /\ Storable(key)
    /\ row' = Stored(key, p)
    /\ meta' = row'
    /\ client' = p
    /\ newest' = row'
    /\ UNCHANGED <<nextcloud, key, connecting, reported, run, unsaved>>

-----------------------------------------------------------------------------
(* Connect *)

\* A credential that could not be read is reported, and Connect ends there.
\* Otherwise VerifyCredentials asks Nextcloud.
Connect(c) ==
    /\ connecting[c] = None
    /\ client # None
    /\ \/ /\ client = Unreadable
          /\ reported' = "badCredentials"
          /\ UNCHANGED connecting
       \/ /\ client # Unreadable
          /\ connecting' = [connecting EXCEPT ![c] = Asking(client, "awaited")]
          /\ UNCHANGED reported
    /\ UNCHANGED <<nextcloud, key, row, meta, client, run, newest, unsaved>>

\* Nextcloud answers: the capabilities, which may lack bots, or 401; or no
\* answer comes.
Verdicts(p) == {"failed"} \cup (IF p \in live THEN {"ok", "noBots"} ELSE {"unauthorized"})

Verify(c) ==
    /\ connecting[c] # None
    /\ connecting[c].answer = "awaited"
    /\ \E verdict \in Verdicts(connecting[c].password) :
          connecting' = [connecting EXCEPT ![c].answer = verdict]
    /\ UNCHANGED <<nextcloud, key, row, meta, client, reported, run, newest, unsaved>>

Reported(answer) ==
    CASE answer = "ok" -> "connected"
      [] answer = "unauthorized" -> "badCredentials"
      [] OTHER -> "unknownError"

\* reencryptCredential: a row in the clear is sealed with the password of the
\* client that connected, if there is a key.  The faulty variant does not look
\* whether the row is sealed already.
NeedsSealingAlways(r) == TRUE
NeedsSealing(r) == ~ Sealed(r)
Resealed(r, p) == IF NeedsSealing(r) /\ key # NoKey THEN Stored(key, p) ELSE r

\* What Save writes.  The faulty variant saves what was there before.
SavedUnsealed(p) == row
Saved(p) == Resealed(meta, p)

\* An error ends Connect; an accepted password has the login resealed and saved
\* first, and the save may fail, which is only logged.
Finish(c) ==
    LET call == connecting[c]
    IN  /\ call # None /\ call.answer # "awaited"
        /\ reported' = Reported(call.answer)
        /\ connecting' = [connecting EXCEPT ![c] = None]
        /\ \/ /\ call.answer \in {"ok", "noBots"}
              /\ meta' = Resealed(meta, call.password)
              /\ \/ row' = Saved(call.password) /\ UNCHANGED unsaved
                 \/ row' = row /\ unsaved' = TRUE
           \/ /\ call.answer \notin {"ok", "noBots"}
              /\ UNCHANGED <<meta, row, unsaved>>
        /\ UNCHANGED <<nextcloud, key, client, run, newest>>

-----------------------------------------------------------------------------
(* LogoutRemote and what bridgev2 does after it *)

\* The app password is revoked, unless the request fails or the credential could
\* not be read: then it is made with an empty password, which revokes nothing.
Logout ==
    /\ client # None
    /\ \/ /\ client # Unreadable
          /\ live' = live \ {client}
          /\ spent' = spent \cup {client}
       \/ UNCHANGED nextcloud
    /\ row' = None
    /\ meta' = None
    /\ client' = None
    /\ connecting' = [c \in Connects |-> None]
    /\ reported' = None
    /\ newest' = None
    /\ UNCHANGED <<key, run, unsaved>>

-----------------------------------------------------------------------------
(* the world around *)

\* The account's owner revokes an app password, or has one made.
Revoke(p) ==
    /\ p \in live
    /\ live' = live \ {p}
    /\ spent' = spent \cup {p}
    /\ UNCHANGED <<key, row, meta, client, connecting, reported, run, newest, unsaved>>

Grant(p) ==
    /\ p \notin live \cup spent
    /\ live' = live \cup {p}
    /\ UNCHANGED <<spent, key, row, meta, client, connecting, reported, run, newest, unsaved>>

\* The process stops and starts again, perhaps with another key: the row is read
\* back (LoadUserLogin), and an unreadable one is carried, not dropped.
Restart(k) ==
    /\ run < MaxRestarts
    /\ run' = run + 1
    /\ key' = k
    /\ meta' = row
    /\ client' = Read(row, k)
    /\ connecting' = [c \in Connects |-> None]
    /\ reported' = None
    /\ unsaved' = FALSE
    /\ UNCHANGED <<nextcloud, row, newest>>

Next ==
    \/ \E p \in Passwords : Grant(p) \/ Revoke(p)
    \/ \E p \in live : NewLogin(p)
    \/ \E c \in Connects : Connect(c) \/ Verify(c) \/ Finish(c)
    \/ Logout
    \/ \E k \in Keys \cup {NoKey} : Restart(k)

Spec == Init /\ [][Next]_vars

-----------------------------------------------------------------------------
Rows == {None} \cup [under : Keys \cup {NoKey}, password : Passwords]

\* Every variable has its type.
TypeOK ==
    /\ live \in SUBSET Passwords /\ spent \in SUBSET Passwords
    /\ key \in Keys \cup {NoKey}
    /\ row \in Rows /\ meta \in Rows /\ newest \in Rows
    /\ client \in Passwords \cup {None, Unreadable}
    /\ connecting \in [Connects -> {None} \cup
          [password : Passwords, answer : Answers]]
    /\ reported \in {None} \cup States
    /\ run \in 0..MaxRestarts
    /\ unsaved \in BOOLEAN

\* The row, its copy in memory and a client that could read it hold the password
\* of the newest login, whatever Connects of clients that this login replaced
\* are still to save: none of them brings an older password back.
NewestLoginIsKept ==
    /\ \A r \in {row, meta} \ {None} : newest # None /\ r.password = newest.password
    /\ client \in Passwords => newest # None /\ client = newest.password

\* README.md:180: losing the key costs the login, not the row.  A sealed row
\* stays as it is under any key, so that it can be read again when its own key is
\* back; only a new login takes its place, and never in the clear.
SealedIsKept ==
    [][Sealed(row) => row' \in {row, None} \/ (row' = newest' /\ Sealed(row'))]_vars

\* README.md:181: a password stored in the clear is sealed the first time its
\* login connects, with a key configured and the row written.
ConnectedIsSealed ==
    reported = "connected" /\ key # NoKey /\ ~ unsaved => row = None \/ Sealed(row)
=============================================================================
