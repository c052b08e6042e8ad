------------------------------ MODULE Sessions ------------------------------
(***************************************************************************)
(* One login between Connect and Disconnect (src/pkg/connector/client.go), *)
(* its periodic resync (sync.go), and how the bridge bot gets into the     *)
(* conversations (botsetup.go): a pass tries it once where there is no     *)
(* portal; a portal does it when its information is refreshed, and keeps   *)
(* the outcome.  Talk announces a bot that was not there before with a     *)
(* webhook, and that makes the portal.                                     *)
(* What a login remembers in memory belongs to its client object, and      *)
(* logging in again makes a new one (login.go, connector.go) without       *)
(* stopping the old one: the old one's loop goes on beside the new one's.  *)
(* bridgev2 lets one Connect of a client run at a time, calls Disconnect   *)
(* of the client in use whenever it likes, handles one event of a portal at*)
(* a time, and makes and saves the room after the connector has given its  *)
(* information; what is not in its database or in Talk is lost when the    *)
(* process stops.                                                          *)
(* Left out are conversations that can never host a bot, whether this      *)
(* login is the one that resyncs a portal (LoginRouter), a sync_interval   *)
(* below zero, which turns the resync off, the states Connect reports,     *)
(* deleted portals, and rooms that bridgev2 fails to make.                 *)
(***************************************************************************)
EXTENDS Integers, Sequences, FiniteSets

CONSTANTS
    Convs,        \* the conversations of this login
    Private,      \* those that are neither group nor public
    Flaky,        \* whether requests may fail
    Toggled,      \* whether auto_enable_bot may differ from run to run
    MaxClients,   \* bound on client objects in a run: logging in again makes one
    MaxConnects,  \* bound on Connects
    MaxHands,     \* bound on what people do to the bot by hand
    MaxCrashes    \* bound on restarts

ASSUME SessionsAssumption ==
    /\ Private \subseteq Convs
    /\ Flaky \in BOOLEAN /\ Toggled \in BOOLEAN
    /\ {MaxClients, MaxConnects, MaxHands, MaxCrashes} \subseteq Nat /\ MaxClients > 0

VARIABLES
    auto,       \* auto_enable_bot in this run
    readable,   \* whether the client in use could decrypt its app password
    client,     \* the client in use
    connect,    \* client -> whether its Connect is under way
    loops,      \* the resync loops started in this run
    stopper,    \* client -> syncCancel: the loop it cancels, 0 if nil
    tried,      \* client -> botEnableTried
    usable,     \* Talk: whether the bot is installed so that moderators may enable it
    moderated,  \* Talk: conversations this user moderates
    bot,        \* Talk: conversations the bot is in
    joins,      \* webhooks under way that announce the bot
    queued,     \* portals with a resync in their event loop
    info,       \* how far a portal has come with its information
    portal,     \* bridgev2: conversations with a room
    meta,       \* BotEnabled or BotEnableFailed of a portal, as it is in memory
    connects, hands, crashes,  \* bounds
    wanted,     \* history, by client: whether Connect was called after the last Disconnect
    overtaken,  \* history, by client: whether that Disconnect came during a Connect
    asked,      \* history, by client: how often its passes have tried each
    spoiled     \* history: conversations without a room where the way to it broke off

talkVars == <<usable, moderated>>
botVars == <<bot, joins, spoiled>>
passVars == <<tried, asked>>
runVars == <<auto, crashes>>
connVars == <<readable, client, connect, connects, wanted, overtaken>>
roomVars == <<queued, info, portal, meta>>
vars == <<talkVars, botVars, hands, passVars, loops, stopper, runVars, connVars, roomVars>>

Clients == 1..MaxClients
NotYet(v) == [c \in Clients |-> v]

Init ==
    /\ auto \in BOOLEAN /\ readable \in BOOLEAN /\ client = 1
    /\ usable \in BOOLEAN /\ moderated \in SUBSET Convs
    /\ connect = NotYet(FALSE) /\ loops = <<>> /\ stopper = NotYet(0)
    /\ tried = NotYet({}) /\ asked = NotYet([k \in Convs |-> 0])
    /\ bot = {} /\ joins = {} /\ queued = {} /\ portal = {}
    /\ info = [k \in Convs |-> "none"] /\ meta = [k \in Convs |-> "new"]
    /\ connects = 0 /\ hands = 0 /\ crashes = 0
    /\ wanted = NotYet(FALSE) /\ overtaken = NotYet(FALSE)
    /\ spoiled = {}

\* Attempts to enable the bot in a conversation, by passes, from the moment they
\* have found it without a room, and by its portal.
AttemptsOn(k) ==
    {<<"pass", i>> : i \in {i \in DOMAIN loops : loops[i].on = {k}}}
        \cup {<<"portal", k>> : j \in {j \in {k} : info[j] \in {"finding", "enabling"}}}

-----------------------------------------------------------------------------
(* Talk and its people *)

\* A bot that is already there is not announced.
TurnOn(k) ==
    /\ bot' = bot \cup {k}
    /\ joins' = IF k \in bot THEN joins ELSE joins \cup {k}
    /\ UNCHANGED spoiled

ByHand(k) ==
    /\ hands < MaxHands /\ usable /\ k \notin bot
    /\ TurnOn(k)
    /\ hands' = hands + 1
    /\ UNCHANGED <<talkVars, passVars, loops, stopper, runVars, connVars, roomVars>>

RemoveByHand(k) ==
    /\ hands < MaxHands /\ k \in bot
    /\ bot' = bot \ {k}
    /\ hands' = hands + 1
    /\ UNCHANGED <<talkVars, joins, spoiled, passVars, loops, stopper, runVars, connVars, roomVars>>

TalkChanges ==
    /\ hands < MaxHands
    /\ hands' = hands + 1
    /\ \/ ~ usable /\ usable' = TRUE /\ UNCHANGED moderated
       \/ /\ \E k \in Convs : moderated' \in {moderated \ {k}, moderated \cup {k}}
          /\ UNCHANGED usable
    /\ UNCHANGED <<botVars, passVars, loops, stopper, runVars, connVars, roomVars>>

-----------------------------------------------------------------------------
(* Connect and Disconnect *)

\* bridgev2 calls Connect of the client in use.
Connect ==
    /\ ~ connect[client] /\ connects < MaxConnects
    /\ connects' = connects + 1
    /\ connect' = [connect EXCEPT ![client] = readable]
    /\ wanted' = [wanted EXCEPT ![client] = TRUE]
    /\ overtaken' = [overtaken EXCEPT ![client] = FALSE]
    /\ UNCHANGED <<talkVars, botVars, hands, passVars, loops, stopper, runVars, readable,
                   client, roomVars>>

\* The user logs in again: LoadUserLogin makes a new client, which can read the
\* password just stored, and its Connect is called.  The old one is left as it is.
LogInAgain ==
    /\ client < MaxClients /\ connects < MaxConnects
    /\ connects' = connects + 1
    /\ client' = client + 1 /\ readable' = TRUE
    /\ connect' = [connect EXCEPT ![client + 1] = TRUE]
    /\ wanted' = [wanted EXCEPT ![client + 1] = TRUE]
    /\ UNCHANGED <<talkVars, botVars, hands, passVars, loops, stopper, runVars, overtaken,
                   roomVars>>

\* VerifyCredentials fails, or finds a Talk without bots.
Rejected(c) ==
    /\ connect[c]
    /\ connect' = [connect EXCEPT ![c] = FALSE]
    /\ UNCHANGED <<talkVars, botVars, hands, passVars, loops, stopper, runVars, readable,
                   client, connects, wanted, overtaken, roomVars>>

\* Calling a client's cancel function; the faulty variant leaves the call out.
NotCancelled(c) == loops
Cancelled(c) ==
    [i \in DOMAIN loops |-> IF i = stopper[c] THEN [loops[i] EXCEPT !.live = FALSE] ELSE loops[i]]

NewLoop(c) == [by |-> c, at |-> "passing", live |-> TRUE, rest |-> {}, mod |-> {}, on |-> {}]

\* The credentials are verified, the router is warmed, and startPeriodicSync.
Warmed(c) ==
    /\ connect[c]
    /\ connect' = [connect EXCEPT ![c] = FALSE]
    /\ loops' = Append(Cancelled(c), NewLoop(c))
    /\ stopper' = [stopper EXCEPT ![c] = Len(loops) + 1]
    /\ UNCHANGED <<talkVars, botVars, hands, passVars, runVars, readable, client,
                   connects, wanted, overtaken, roomVars>>

\* stopPeriodicSync of the client in use.
Disconnect ==
    /\ wanted[client]
    /\ loops' = Cancelled(client) /\ stopper' = [stopper EXCEPT ![client] = 0]
    /\ wanted' = [wanted EXCEPT ![client] = FALSE]
    /\ overtaken' = [overtaken EXCEPT ![client] = connect[client]]
    /\ UNCHANGED <<talkVars, botVars, hands, passVars, runVars, readable, client, connect,
                   connects, roomVars>>

-----------------------------------------------------------------------------
(* runPeriodicSync: one loop.  Requests of a cancelled loop fail. *)

MayFail(i) == Flaky \/ ~ loops[i].live
Loop(i, next) == loops' = [loops EXCEPT ![i] = next]
WorldUnchanged == UNCHANGED <<talkVars, hands, runVars, connVars, stopper>>

\* A loop with nothing at hand and no conversation left of its list is between two
\* passes; the first begins at once, the others with a tick.  A list that cannot be
\* read ends the pass; the faulty variant ends the loop.
EndsLoop == "ended"
EndsPass == "passing"

ListRead(i) ==
    /\ loops[i].at = "passing" /\ loops[i].rest = {} /\ loops[i].live
    /\ Loop(i, [loops[i] EXCEPT !.rest = Convs, !.mod = moderated])
    /\ UNCHANGED <<botVars, passVars, roomVars>> /\ WorldUnchanged

ListFails(i) ==
    /\ loops[i].at = "passing" /\ loops[i].rest = {} /\ MayFail(i)
    /\ Loop(i, [loops[i] EXCEPT !.at = EndsPass])
    /\ UNCHANGED <<botVars, passVars, roomVars>> /\ WorldUnchanged

\* A cancelled loop gives up what is left of its list.  The select may still pick a
\* tick that is due before the cancellation, and the list then fails.
EndLoop(i) ==
    /\ loops[i].at = "passing" /\ ~ loops[i].live
    /\ Loop(i, [loops[i] EXCEPT !.at = "ended", !.rest = {}, !.mod = {}])
    /\ UNCHANGED <<botVars, passVars, roomVars>> /\ WorldUnchanged

ShouldTry(i, k) == auto /\ k \notin Private /\ k \in loops[i].mod

GoesOn(i) == Loop(i, [loops[i] EXCEPT !.at = "passing", !.on = {}])

\* One conversation of a pass, looked up: with a room it is resynced, if this login
\* is to.
Consider(i, k) ==
    /\ loops[i].at = "passing" /\ loops[i].live /\ k \in loops[i].rest
    /\ \/ /\ k \in portal
          /\ queued' \in {queued, queued \cup {k}}
          /\ Loop(i, [loops[i] EXCEPT !.rest = @ \ {k}, !.mod = @ \ {k}])
       \/ /\ k \notin portal /\ ~ ShouldTry(i, k)
          /\ Loop(i, [loops[i] EXCEPT !.rest = @ \ {k}, !.mod = @ \ {k}])
          /\ UNCHANGED queued
       \/ /\ k \notin portal /\ ShouldTry(i, k)
          /\ Loop(i, [loops[i] EXCEPT !.rest = @ \ {k}, !.mod = @ \ {k},
                                     !.at = "trying", !.on = {k}])
          /\ UNCHANGED queued
    /\ UNCHANGED <<botVars, passVars, info, portal, meta>> /\ WorldUnchanged

\* autoEnableBot looks and marks under its lock, with nothing held since the portal
\* was looked up; the faulty variant forgets to mark.
NotMarked(c, k) == tried
Marked(c, k) == [tried EXCEPT ![c] = @ \cup {k}]

Mark(i) ==
    LET c == loops[i].by
    IN  /\ loops[i].at = "trying"
        /\ \/ loops[i].on \subseteq tried[c] /\ GoesOn(i) /\ UNCHANGED passVars
           \/ \E k \in loops[i].on \ tried[c] :
                 /\ tried' = Marked(c, k)
                 /\ asked' = [asked EXCEPT ![c][k] = @ + 1]
                 /\ Loop(i, [loops[i] EXCEPT !.at = "finding"])
        /\ UNCHANGED <<botVars, roomVars>> /\ WorldUnchanged

-----------------------------------------------------------------------------
(* enableBridgeBot, from a pass *)

Find(i) ==
    /\ loops[i].at = "finding"
    /\ \/ /\ usable /\ loops[i].live
          /\ Loop(i, [loops[i] EXCEPT !.at = "enabling"])
          /\ UNCHANGED botVars
       \/ /\ ~ usable \/ MayFail(i)
          /\ GoesOn(i)
          /\ spoiled' = spoiled \cup (loops[i].on \ portal)
          /\ UNCHANGED <<bot, joins>>
    /\ UNCHANGED <<passVars, roomVars>> /\ WorldUnchanged

\* Whether Talk's answer arrives makes no difference.
Enable(i) ==
    /\ loops[i].at = "enabling"
    /\ \/ \E k \in loops[i].on \cap moderated : TurnOn(k)
       \/ /\ loops[i].on \cap moderated = {} \/ MayFail(i)
          /\ spoiled' = spoiled \cup (loops[i].on \ portal)
          /\ UNCHANGED <<bot, joins>>
    /\ GoesOn(i)
    /\ UNCHANGED <<passVars, roomVars>> /\ WorldUnchanged

LoopStep(i) ==
    \/ ListRead(i) \/ ListFails(i) \/ \E k \in Convs : Consider(i, k)
    \/ Mark(i) \/ EndLoop(i) \/ Find(i) \/ Enable(i)

-----------------------------------------------------------------------------
(* the portals *)

\* handleBotJoin, and a first message, have the portal made.
Join(k) ==
    /\ k \in joins
    /\ joins' = joins \ {k} /\ queued' = queued \cup {k}
    /\ UNCHANGED <<bot, spoiled, passVars, loops, info, portal, meta>> /\ WorldUnchanged

Message(k) ==
    /\ k \in bot \ portal
    /\ queued' = queued \cup {k}
    /\ UNCHANGED <<botVars, passVars, loops, info, portal, meta>> /\ WorldUnchanged

\* ensureBotEnabled keeps the outcome with the portal; bridgev2 saves it, and makes
\* the room if there is none, when that is done.  The faulty variant does not look
\* at the outcome there is.
ShouldEnsureAlways(k) == auto
ShouldEnsure(k) == auto /\ meta[k] = "new"

Settle(k, outcome) ==
    /\ meta' = [meta EXCEPT ![k] = outcome]
    /\ info' = [info EXCEPT ![k] = "settling"]
    /\ UNCHANGED portal

MakeRoom(k) ==
    /\ info[k] \in {"settling", "making"}
    /\ portal' = portal \cup {k}
    /\ info' = [info EXCEPT ![k] = "none"]
    /\ spoiled' = spoiled \ {k}
    /\ UNCHANGED <<bot, joins, passVars, loops, queued, meta>> /\ WorldUnchanged

\* GetChatInfo, and the beginning of its ExtraUpdates.
Read(k) ==
    /\ k \in queued /\ info[k] = "none"
    /\ queued' = queued \ {k}
    /\ \/ /\ readable /\ ShouldEnsure(k) /\ k \in moderated
          /\ info' = [info EXCEPT ![k] = "finding"]
          /\ UNCHANGED <<portal, meta, spoiled>>
       \/ /\ readable /\ ShouldEnsure(k) /\ k \notin moderated
          /\ Settle(k, "failed")
          /\ UNCHANGED spoiled
       \/ /\ readable /\ ~ ShouldEnsure(k)
          /\ info' = [info EXCEPT ![k] = IF k \in portal THEN @ ELSE "making"]
          /\ UNCHANGED <<portal, meta, spoiled>>
       \/ /\ Flaky \/ ~ readable
          /\ spoiled' = spoiled \cup ({k} \ portal)
          /\ UNCHANGED <<portal, meta, info>>
    /\ UNCHANGED <<bot, joins, passVars, loops>> /\ WorldUnchanged

FindForPortal(k) ==
    /\ info[k] = "finding"
    /\ \/ /\ usable
          /\ info' = [info EXCEPT ![k] = "enabling"]
          /\ UNCHANGED <<portal, meta>>
       \/ (~ usable \/ Flaky) /\ Settle(k, "failed")
    /\ UNCHANGED <<botVars, passVars, loops, queued>> /\ WorldUnchanged

EnableForPortal(k) ==
    /\ info[k] = "enabling"
    /\ \/ k \in moderated /\ TurnOn(k) /\ Settle(k, "enabled")
       \/ k \in moderated /\ Flaky /\ TurnOn(k) /\ Settle(k, "failed")
       \/ (k \notin moderated \/ Flaky) /\ UNCHANGED botVars /\ Settle(k, "failed")
    /\ UNCHANGED <<passVars, loops, queued>> /\ WorldUnchanged

PortalStep(k) == Read(k) \/ FindForPortal(k) \/ EnableForPortal(k) \/ MakeRoom(k)

-----------------------------------------------------------------------------
\* What was asked of Talk when the process stops may still be done, and an outcome
\* that was not settled may be lost.
Underway ==
    UNION {loops[i].on : i \in {i \in DOMAIN loops : loops[i].at = "enabling"}}
        \cup {k \in Convs : info[k] = "enabling"}
Unsaved == {k \in Convs : info[k] = "settling"}

Crash ==
    /\ crashes < MaxCrashes
    /\ crashes' = crashes + 1
    /\ auto' \in IF Toggled THEN BOOLEAN ELSE {auto}
    /\ \E done \in SUBSET (Underway \cap moderated) : bot' = bot \cup done
    /\ \E lost \in SUBSET Unsaved :
          meta' = [k \in Convs |-> IF k \in lost THEN "new" ELSE meta[k]]
    /\ spoiled' = bot' \ portal
    /\ readable' \in BOOLEAN /\ client' = 1
    /\ connect' = NotYet(FALSE) /\ wanted' = NotYet(FALSE) /\ overtaken' = NotYet(FALSE)
    /\ loops' = <<>> /\ stopper' = NotYet(0)
    /\ tried' = NotYet({}) /\ asked' = NotYet([k \in Convs |-> 0])
    /\ joins' = {} /\ queued' = {} /\ info' = [k \in Convs |-> "none"]
    /\ UNCHANGED <<talkVars, hands, connects, portal>>

Next ==
    \/ \E k \in Convs : ByHand(k) \/ RemoveByHand(k) \/ Join(k) \/ Message(k) \/ PortalStep(k)
    \/ TalkChanges
    \/ Connect \/ LogInAgain \/ Disconnect
    \/ \E c \in Clients : Rejected(c) \/ Warmed(c)
    \/ \E i \in DOMAIN loops : LoopStep(i)
    \/ Crash

Spec == Init /\ [][Next]_vars

\* Loops, workers and portals go on, ticks come, and the client in use reads a list
\* in the end.
Fairness ==
    /\ \A i \in 1..MaxConnects :
          /\ WF_vars(i \in DOMAIN loops /\ LoopStep(i))
          /\ SF_vars(i \in DOMAIN loops /\ loops[i].by = client /\ ListRead(i))
    /\ \A k \in Convs : WF_vars(Join(k)) /\ WF_vars(PortalStep(k))

FairSpec == Spec /\ Fairness

-----------------------------------------------------------------------------
\* Every variable has its type.
TypeOK ==
    /\ {auto, readable, usable} \subseteq BOOLEAN
    /\ client \in Clients
    /\ connect \in [Clients -> BOOLEAN]
    /\ wanted \in [Clients -> BOOLEAN] /\ overtaken \in [Clients -> BOOLEAN]
    /\ loops \in Seq([by : Clients, live : BOOLEAN, rest : SUBSET Convs, mod : SUBSET Convs,
                      at : {"passing", "trying", "finding", "enabling", "ended"},
                      on : SUBSET Convs])
    /\ \A i \in DOMAIN loops :
          Cardinality(loops[i].on) =
              IF loops[i].at \in {"trying", "finding", "enabling"} THEN 1 ELSE 0
    /\ \A c \in Clients :
          stopper[c] # 0 => stopper[c] \in DOMAIN loops /\ loops[stopper[c]].live
    /\ tried \in [Clients -> SUBSET Convs]
    /\ asked \in [Clients -> [Convs -> Nat]]
    /\ \A S \in {moderated, bot, joins, queued, portal, spoiled} : S \subseteq Convs
    /\ info \in [Convs -> {"none", "finding", "enabling", "settling", "making"}]
    /\ meta \in [Convs -> {"new", "enabled", "failed"}]
    /\ connects \in 0..MaxConnects /\ hands \in 0..MaxHands /\ crashes \in 0..MaxCrashes

\* sync.go:58-61, as far as it goes: however often a client connects and
\* disconnects, at most one of its loops is meant to go on, and none after a
\* Disconnect, unless that came while Connect was still asking Nextcloud.  Of a
\* client that a new login has replaced, one loop may be left.
LoopsEnd ==
    /\ \A i, j \in DOMAIN loops :
          loops[i].live /\ loops[j].live /\ loops[i].by = loops[j].by => i = j
    /\ \A i \in DOMAIN loops :
          LET c == loops[i].by
          IN  loops[i].live => i = stopper[c] /\ (wanted[c] \/ overtaken[c])

\* botsetup.go:84-95: the passes of one client try a conversation once, although a
\* loop that was stopped may still be at work beside its successor, and both may
\* have found the conversation without a room.
TriedOnce == \A c \in Clients : \A k \in Convs : asked[c][k] <= 1

\* dbmeta.go:46-52: once the outcome of enabling the bot is saved with a portal
\* that has its room, it stays, and neither the portal nor a pass takes that
\* conversation up again, whatever people do to the bot and however often the
\* bridge restarts.  What a pass took up before, it may still try.
OutcomeIsFinal ==
    [][\A k \in portal : meta[k] # "new" /\ info[k] # "settling" =>
          meta'[k] = meta[k] /\ AttemptsOn(k)' \subseteq AttemptsOn(k)]_vars

\* README.md:133, 187: a group conversation that the user moderates gets a portal
\* in the end, while the client in use makes its passes and unless an attempt of
\* this run has failed or was cut short, or a restart lost the announcement.
Watched(k) ==
    /\ auto /\ k \in moderated \ spoiled
    /\ \E i \in DOMAIN loops : loops[i].live /\ loops[i].by = client
WantedIsBridged == \A k \in Convs \ Private : <>[]Watched(k) => <>(k \in portal)
=============================================================================
