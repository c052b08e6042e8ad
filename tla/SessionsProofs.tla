---------------------------- MODULE SessionsProofs ----------------------------
(***************************************************************************)
(* A client's loops end with it, its passes try a conversation once, and  *)
(* the outcome saved with a portal is final, for any conversations, any    *)
(* number of clients, Connects, interventions and restarts: proofs about   *)
(* Sessions.                                                               *)
(***************************************************************************)
EXTENDS Sessions, FiniteSetTheorems, TLAPS

LoopStates == {"passing", "trying", "finding", "enabling", "ended"}
LoopRecords == [by : Clients, live : BOOLEAN, rest : SUBSET Convs, mod : SUBSET Convs,
                at : LoopStates, on : SUBSET Convs]
Attempting == {"trying", "finding", "enabling"}

\* A loop is at work on one conversation while it enables the bot there, and on
\* none otherwise.
OnOne(loop) ==
    /\ loop.at \in Attempting => \E k \in Convs : loop.on = {k}
    /\ loop.at \notin Attempting => loop.on = {}

LoopTypes ==
    /\ loops \in Seq(LoopRecords)
    /\ \A i \in DOMAIN loops : OnOne(loops[i])

\* What a client's syncCancel names is a loop of that client, and not cancelled.
StopperIsOwn ==
    /\ stopper \in [Clients -> Nat]
    /\ \A c \in Clients : stopper[c] # 0 =>
          stopper[c] \in DOMAIN loops /\ loops[stopper[c]].live /\ loops[stopper[c]].by = c

ConnTypes ==
    /\ {auto, readable, usable} \subseteq BOOLEAN
    /\ client \in Clients
    /\ connect \in [Clients -> BOOLEAN]
    /\ wanted \in [Clients -> BOOLEAN] /\ overtaken \in [Clients -> BOOLEAN]
    /\ connects \in 0..MaxConnects /\ hands \in 0..MaxHands /\ crashes \in 0..MaxCrashes

ConvTypes ==
    /\ moderated \subseteq Convs /\ bot \subseteq Convs
    /\ joins \subseteq Convs /\ queued \subseteq Convs /\ portal \subseteq Convs
    /\ spoiled \subseteq Convs
    /\ info \in [Convs -> {"none", "finding", "enabling", "settling", "making"}]
    /\ meta \in [Convs -> {"new", "enabled", "failed"}]

\* A Connect under way was called after the last Disconnect or overtaken by it, so
\* that the loop it is going to start is accounted for.
ConnectIsWanted == \A c \in Clients : connect[c] => wanted[c] \/ overtaken[c]

\* The only loop of a client that is not cancelled is the one its Disconnect would
\* cancel.
OnlyStopperLives ==
    \A i \in DOMAIN loops :
        LET c == loops[i].by
        IN  loops[i].live => i = stopper[c] /\ (wanted[c] \/ overtaken[c])

\* A client's botEnableTried has exactly what its passes have tried, once.
TriedWereAsked ==
    /\ tried \in [Clients -> SUBSET Convs]
    /\ asked \in [Clients -> [Convs -> Nat]]
    /\ \A c \in Clients : \A k \in Convs : asked[c][k] = IF k \in tried[c] THEN 1 ELSE 0

\* A portal with an outcome is not enabling the bot.
OutcomesAreKept == \A k \in Convs : meta[k] # "new" => info[k] \notin {"finding", "enabling"}

LoopInv == LoopTypes /\ StopperIsOwn /\ ConnTypes /\ ConnectIsWanted /\ OnlyStopperLives
ConvInv == ConvTypes /\ OutcomesAreKept
SessionsInv == LoopInv /\ TriedWereAsked /\ ConvInv

\* What a step may do to a conversation with a room: no pass takes it up.  And to
\* one with a saved outcome: the outcome stays, and the portal does nothing more.
NoNewPass ==
    \A k \in portal : \A i \in DOMAIN loops' :
        loops'[i].on = {k} => i \in DOMAIN loops /\ loops[i].on = {k}
OutcomesStay ==
    \A k \in Convs : meta[k] # "new" /\ info[k] # "settling" =>
        meta'[k] = meta[k] /\ info'[k] \notin {"finding", "enabling"}

-----------------------------------------------------------------------------
(* Loops *)

LEMMA Bounds ==
    /\ MaxConnects \in Nat /\ MaxHands \in Nat /\ MaxCrashes \in Nat
    /\ MaxClients \in Nat /\ 1 \in Clients
    /\ Flaky \in BOOLEAN /\ Toggled \in BOOLEAN
BY SessionsAssumption DEF Clients

LEMMA Parts ==
    ASSUME NEW loop \in LoopRecords
    PROVE  /\ loop.at \in LoopStates /\ loop.live \in BOOLEAN /\ loop.rest \subseteq Convs
           /\ loop.mod \subseteq Convs /\ loop.on \subseteq Convs /\ loop.by \in Clients
BY DEF LoopRecords

LEMMA LoopsUntouched ==
    ASSUME LoopInv, ConvTypes, UNCHANGED <<loops, stopper, connect, wanted, overtaken>>, ConnTypes'
    PROVE  LoopInv' /\ NoNewPass
BY DEF LoopInv, LoopTypes, StopperIsOwn, ConnectIsWanted, OnlyStopperLives, NoNewPass

\* A loop that goes on is neither cancelled nor brought back by that.
LEMMA LoopChanges ==
    ASSUME LoopInv, NEW i \in DOMAIN loops, NEW next \in LoopRecords, Loop(i, next),
           next.live = loops[i].live, next.by = loops[i].by, OnOne(next), WorldUnchanged,
           \A k \in portal : next.on = {k} => loops[i].on = {k}
    PROVE  LoopInv' /\ NoNewPass
<1> USE DEF LoopInv
<1>1. /\ loops \in Seq(LoopRecords) /\ loops' \in Seq(LoopRecords)
      /\ DOMAIN loops' = DOMAIN loops /\ loops'[i] = next
      /\ \A j \in DOMAIN loops : j # i => loops'[j] = loops[j]
  BY DEF LoopTypes, Loop
<1>2. \A j \in DOMAIN loops : loops'[j].live = loops[j].live /\ loops'[j].by = loops[j].by
  BY <1>1
<1>3. UNCHANGED <<stopper, client, connect, connects, wanted, overtaken, auto, readable, crashes,
                  hands, usable>>
  BY DEF WorldUnchanged, connVars, runVars, talkVars
<1>4. LoopTypes'
  <2>1. \A j \in DOMAIN loops' : OnOne(loops'[j])
    BY <1>1 DEF LoopTypes
  <2>2. QED BY <1>1, <2>1 DEF LoopTypes, OnOne
<1>5. StopperIsOwn'
  BY <1>1, <1>2, <1>3 DEF StopperIsOwn
<1>6. ConnTypes'
  BY <1>3 DEF ConnTypes
<1>7. ConnectIsWanted' /\ OnlyStopperLives'
  BY <1>1, <1>2, <1>3 DEF ConnectIsWanted, OnlyStopperLives
<1>8. NoNewPass
  BY <1>1 DEF NoNewPass
<1>9. QED BY <1>4, <1>5, <1>6, <1>7, <1>8

\* Cancelling leaves no loop of that client alive, and touches no other client's.
LEMMA CancelledAreDead ==
    ASSUME LoopInv, NEW c \in Clients
    PROVE  /\ Cancelled(c) \in Seq(LoopRecords) /\ DOMAIN Cancelled(c) = DOMAIN loops
           /\ Len(Cancelled(c)) = Len(loops)
           /\ \A i \in DOMAIN loops :
                 /\ loops[i].by = c => Cancelled(c)[i].live = FALSE
                 /\ loops[i].by # c => Cancelled(c)[i] = loops[i]
                 /\ Cancelled(c)[i].on = loops[i].on /\ Cancelled(c)[i].by = loops[i].by
                 /\ OnOne(Cancelled(c)[i])
<1> USE DEF LoopInv
<1>1. loops \in Seq(LoopRecords) /\ Len(loops) \in Nat /\ DOMAIN loops = 1..Len(loops)
  BY DEF LoopTypes
<1>2. \A i \in DOMAIN loops :
         /\ Cancelled(c)[i] \in LoopRecords
         /\ loops[i].by = c => Cancelled(c)[i].live = FALSE
         /\ loops[i].by # c => Cancelled(c)[i] = loops[i]
         /\ Cancelled(c)[i].on = loops[i].on /\ Cancelled(c)[i].at = loops[i].at
         /\ Cancelled(c)[i].by = loops[i].by
  <2>1. TAKE i \in DOMAIN loops
  <2>2. loops[i] \in LoopRecords
    BY <1>1
  <2>3. CASE i = stopper[c]
    <3>1. loops[i].by = c
      BY <2>3, <1>1 DEF StopperIsOwn
    <3>2. QED BY <2>2, <2>3, <3>1 DEF Cancelled, LoopRecords
  <2>4. CASE i # stopper[c]
    <3>1. loops[i].by = c => loops[i].live = FALSE
      BY <2>2, <2>4 DEF OnlyStopperLives, LoopRecords
    <3>2. Cancelled(c)[i] = loops[i]
      BY <2>4 DEF Cancelled
    <3>3. QED BY <2>2, <3>1, <3>2
  <2>5. QED BY <2>3, <2>4
<1>3. Cancelled(c) \in [1..Len(loops) -> LoopRecords]
  BY <1>1, <1>2 DEF Cancelled
<1> DEFINE can == Cancelled(c)
<1>4. can \in Seq(LoopRecords) /\ Len(can) = Len(loops) /\ DOMAIN can = DOMAIN loops
  <2>1. can \in [1..Len(loops) -> LoopRecords]
    BY <1>3
  <2> HIDE DEF can
  <2>2. QED BY <1>1, <2>1
<1>5. QED BY <1>2, <1>4 DEF LoopTypes, OnOne

LEMMA WarmedPreserves ==
    ASSUME LoopInv, NEW c \in Clients, Warmed(c)
    PROVE  LoopInv' /\ NoNewPass
<1> USE DEF LoopInv
<1>1. /\ NewLoop(c) \in LoopRecords /\ NewLoop(c).live /\ OnOne(NewLoop(c))
      /\ NewLoop(c).on = {} /\ NewLoop(c).by = c
  BY DEF NewLoop, LoopRecords, LoopStates, OnOne, Attempting
<1>2. /\ loops' = Append(Cancelled(c), NewLoop(c))
      /\ stopper' = [stopper EXCEPT ![c] = Len(loops) + 1]
      /\ connect[c] /\ connect' = [connect EXCEPT ![c] = FALSE]
      /\ UNCHANGED <<client, connects, wanted, overtaken, auto, readable, crashes, hands, usable>>
  BY DEF Warmed, runVars, talkVars
<1> DEFINE can == Cancelled(c)
           new == NewLoop(c)
           N == Len(loops)
<1>3. /\ loops' \in Seq(LoopRecords) /\ N \in Nat
      /\ DOMAIN loops = 1..N /\ DOMAIN loops' = 1..(N + 1)
      /\ loops'[N + 1] = new
      /\ \A i \in DOMAIN loops : loops'[i] = can[i]
  <2>1. /\ can \in Seq(LoopRecords) /\ DOMAIN can = DOMAIN loops
        /\ Len(can) = Len(loops) /\ loops \in Seq(LoopRecords)
        /\ new \in LoopRecords /\ loops' = Append(can, new)
    BY <1>1, <1>2, CancelledAreDead DEF LoopTypes
  <2> HIDE DEF LoopInv, can, new
  <2>2. QED BY <2>1
<1>4. \A i \in DOMAIN loops' : i \in DOMAIN loops \/ i = N + 1
  BY <1>3
<1>5. \A i \in DOMAIN loops :
         /\ OnOne(loops'[i]) /\ loops'[i].on = loops[i].on /\ loops'[i].by = loops[i].by
         /\ loops[i].by = c => loops'[i].live = FALSE
         /\ loops[i].by # c => loops'[i] = loops[i]
  <2>1. \A i \in DOMAIN loops :
           /\ OnOne(can[i]) /\ can[i].on = loops[i].on /\ can[i].by = loops[i].by
           /\ loops[i].by = c => can[i].live = FALSE
           /\ loops[i].by # c => can[i] = loops[i]
    BY CancelledAreDead
  <2> HIDE DEF can
  <2>2. QED BY <1>3, <2>1 DEF OnOne
<1>6. OnOne(loops'[N + 1]) /\ loops'[N + 1].live /\ loops'[N + 1].by = c /\ loops'[N + 1].on = {}
  BY <1>1, <1>3
<1> HIDE DEF can, new
<1>7. LoopTypes'
  <2>1. \A i \in DOMAIN loops' : OnOne(loops'[i])
    BY <1>4, <1>5, <1>6
  <2>2. QED BY <1>3, <2>1 DEF LoopTypes, OnOne
<1>8. StopperIsOwn'
  <2>1. stopper \in [Clients -> Nat]
    BY DEF StopperIsOwn
  <2>2. stopper' \in [Clients -> Nat]
    BY <1>2, <1>3, <2>1
  <2>3. ASSUME NEW d \in Clients, stopper'[d] # 0
        PROVE  /\ stopper'[d] \in DOMAIN loops' /\ loops'[stopper'[d]].live
               /\ loops'[stopper'[d]].by = d
    <3>1. CASE d = c
      BY <1>2, <1>3, <1>6, <2>1, <3>1
    <3>2. CASE d # c
      <4>1. stopper'[d] = stopper[d]
        BY <1>2, <2>1, <3>2
      <4>2. stopper[d] \in DOMAIN loops /\ loops[stopper[d]].live /\ loops[stopper[d]].by = d
        BY <2>3, <4>1 DEF StopperIsOwn
      <4>3. loops'[stopper[d]] = loops[stopper[d]] /\ stopper[d] \in DOMAIN loops'
        BY <1>3, <1>5, <3>2, <4>2
      <4>4. QED BY <4>1, <4>2, <4>3
    <3>3. QED BY <3>1, <3>2
  <2>4. QED BY <2>2, <2>3 DEF StopperIsOwn
<1>9. ConnTypes' /\ ConnectIsWanted'
  BY <1>2 DEF ConnTypes, ConnectIsWanted
<1>10. OnlyStopperLives'
  <2> SUFFICES ASSUME NEW i \in DOMAIN loops', loops'[i].live
               PROVE  /\ i = stopper'[loops'[i].by]
                      /\ wanted'[loops'[i].by] \/ overtaken'[loops'[i].by]
    BY DEF OnlyStopperLives
  <2>1. CASE i = N + 1
    BY <1>2, <1>6, <2>1 DEF ConnectIsWanted, StopperIsOwn
  <2>2. CASE i \in DOMAIN loops
    <3>1. loops[i].by # c /\ loops'[i] = loops[i] /\ loops[i].by \in Clients
      BY <1>5, <2>2, Parts DEF LoopTypes
    <3>2. i = stopper[loops[i].by] /\ (wanted[loops[i].by] \/ overtaken[loops[i].by])
      BY <2>2, <3>1 DEF OnlyStopperLives
    <3>3. QED BY <1>2, <3>1, <3>2 DEF StopperIsOwn
  <2>3. QED BY <1>4, <2>1, <2>2
<1>11. NoNewPass
  <2> SUFFICES ASSUME NEW k \in portal, NEW i \in DOMAIN loops', loops'[i].on = {k}
               PROVE  i \in DOMAIN loops /\ loops[i].on = {k}
    BY DEF NoNewPass
  <2>1. i # N + 1
    BY <1>6
  <2>2. QED BY <1>4, <1>5, <2>1
<1>12. QED BY <1>7, <1>8, <1>9, <1>10, <1>11

LEMMA DisconnectPreserves ==
    ASSUME LoopInv, Disconnect
    PROVE  LoopInv' /\ NoNewPass
<1> USE DEF LoopInv
<1>1. /\ loops' = Cancelled(client) /\ stopper' = [stopper EXCEPT ![client] = 0]
      /\ wanted' = [wanted EXCEPT ![client] = FALSE]
      /\ overtaken' = [overtaken EXCEPT ![client] = connect[client]]
      /\ UNCHANGED <<client, connect, connects, auto, readable, crashes, hands, usable>>
      /\ client \in Clients
  BY DEF Disconnect, runVars, talkVars, ConnTypes
<1>2. /\ loops' \in Seq(LoopRecords) /\ DOMAIN loops' = DOMAIN loops
      /\ \A i \in DOMAIN loops :
            /\ OnOne(loops'[i]) /\ loops'[i].on = loops[i].on /\ loops'[i].by = loops[i].by
            /\ loops[i].by = client => loops'[i].live = FALSE
            /\ loops[i].by # client => loops'[i] = loops[i]
  BY <1>1, CancelledAreDead
<1>3. LoopTypes' /\ NoNewPass
  BY <1>2 DEF LoopTypes, NoNewPass, OnOne
<1>4. StopperIsOwn'
  BY <1>1, <1>2 DEF StopperIsOwn
<1>5. OnlyStopperLives'
  <2> SUFFICES ASSUME NEW i \in DOMAIN loops', loops'[i].live
               PROVE  /\ i = stopper'[loops'[i].by]
                      /\ wanted'[loops'[i].by] \/ overtaken'[loops'[i].by]
    BY DEF OnlyStopperLives
  <2>1. i \in DOMAIN loops /\ loops[i].by # client /\ loops'[i] = loops[i]
    BY <1>2
  <2>2. loops[i].by \in Clients
    BY <2>1, Parts DEF LoopTypes
  <2>3. i = stopper[loops[i].by] /\ (wanted[loops[i].by] \/ overtaken[loops[i].by])
    BY <2>1 DEF OnlyStopperLives
  <2>4. QED BY <1>1, <2>1, <2>2, <2>3 DEF StopperIsOwn, ConnTypes
<1>6. ConnTypes' /\ ConnectIsWanted'
  BY <1>1 DEF ConnTypes, ConnectIsWanted
<1>7. QED BY <1>3, <1>4, <1>5, <1>6

-----------------------------------------------------------------------------
(* Conversations *)

Kept == ConvInv' /\ OutcomesStay
AllKept == SessionsInv' /\ NoNewPass /\ OutcomesStay

LEMMA ConvsUntouched ==
    ASSUME ConvInv, UNCHANGED <<portal, meta, info>>,
           moderated' \subseteq Convs, bot' \subseteq Convs, joins' \subseteq Convs,
           queued' \subseteq Convs, spoiled' \subseteq Convs
    PROVE  Kept
BY DEF ConvInv, ConvTypes, OutcomesAreKept, Kept, OutcomesStay

\* ensureBotEnabled is only at work where there is no outcome.
LEMMA SettlePreserves ==
    ASSUME ConvInv, NEW k \in Convs, NEW outcome \in {"enabled", "failed"},
           Settle(k, outcome), meta[k] = "new", UNCHANGED moderated,
           bot' \subseteq Convs, joins' \subseteq Convs, queued' \subseteq Convs,
           spoiled' \subseteq Convs
    PROVE  Kept
<1> USE DEF ConvInv, Settle
<1>1. ConvTypes'
  BY DEF ConvTypes
<1>2. OutcomesAreKept' /\ OutcomesStay
  BY DEF ConvTypes, OutcomesAreKept, OutcomesStay
<1>3. QED BY <1>1, <1>2 DEF Kept

\* The portal goes on to the next request, or to what bridgev2 does after them.
LEMMA AttemptPreserves ==
    ASSUME ConvInv, NEW k \in Convs,
           NEW step \in {"none", "finding", "enabling", "making"},
           info' = [info EXCEPT ![k] = step],
           step \in {"finding", "enabling"} => meta[k] = "new",
           UNCHANGED <<moderated, meta>>, portal' \subseteq Convs,
           bot' \subseteq Convs, joins' \subseteq Convs, queued' \subseteq Convs,
           spoiled' \subseteq Convs
    PROVE  Kept
<1> USE DEF ConvInv
<1>1. ConvTypes'
  BY DEF ConvTypes
<1>2. OutcomesAreKept' /\ OutcomesStay
  BY DEF ConvTypes, OutcomesAreKept, OutcomesStay
<1>3. QED BY <1>1, <1>2 DEF Kept

LEMMA TurnOnTypes ==
    ASSUME ConvInv, NEW k \in Convs, TurnOn(k)
    PROVE  bot' \subseteq Convs /\ joins' \subseteq Convs /\ spoiled' \subseteq Convs
BY DEF TurnOn, ConvInv, ConvTypes

-----------------------------------------------------------------------------
(* People, Talk, Connect and Disconnect *)

LEMMA AroundPreserves ==
    ASSUME SessionsInv,
           (\E k \in Convs : ByHand(k) \/ RemoveByHand(k)) \/ TalkChanges
    PROVE  AllKept
<1> USE DEF SessionsInv
<1>1. /\ hands < MaxHands /\ hands' = hands + 1 /\ usable' \in BOOLEAN
      /\ moderated' \subseteq Convs /\ bot' \subseteq Convs /\ joins' \subseteq Convs
      /\ spoiled' = spoiled
      /\ UNCHANGED <<tried, asked, loops, stopper, auto, readable, crashes, client, connect,
                     connects, wanted, overtaken, queued, info, portal, meta>>
  <2>1. /\ moderated \subseteq Convs /\ bot \subseteq Convs /\ joins \subseteq Convs
        /\ usable \in BOOLEAN
    BY DEF ConvInv, ConvTypes, LoopInv, ConnTypes
  <2>2. CASE \E k \in Convs : ByHand(k)
    BY <2>1, <2>2 DEF ByHand, TurnOn, talkVars, passVars, runVars, connVars, roomVars
  <2>3. CASE \E k \in Convs : RemoveByHand(k)
    BY <2>1, <2>3 DEF RemoveByHand, talkVars, passVars, runVars, connVars, roomVars
  <2>4. CASE TalkChanges
    BY <2>1, <2>4 DEF TalkChanges, botVars, passVars, runVars, connVars, roomVars
  <2>5. QED BY <2>2, <2>3, <2>4
<1>2. ConnTypes'
  BY <1>1, Bounds DEF LoopInv, ConnTypes
<1>3. LoopInv' /\ NoNewPass
  BY <1>1, <1>2, LoopsUntouched DEF ConvInv
<1>4. Kept
  BY <1>1, ConvsUntouched DEF ConvInv, ConvTypes
<1>5. QED BY <1>1, <1>3, <1>4 DEF Kept, AllKept, TriedWereAsked

LEMMA ConnectionPreserves ==
    ASSUME SessionsInv,
           \/ Connect \/ LogInAgain \/ Disconnect
           \/ \E c \in Clients : Rejected(c) \/ Warmed(c)
    PROVE  AllKept
<1> USE DEF SessionsInv
<1>1. UNCHANGED <<tried, asked, portal, meta, info, moderated, bot, joins, queued, spoiled>>
  BY DEF Connect, LogInAgain, Rejected, Warmed, Disconnect, talkVars, botVars, passVars, roomVars
<1>2. Kept
  BY <1>1, ConvsUntouched DEF ConvInv, ConvTypes
<1>3. TriedWereAsked'
  BY <1>1 DEF TriedWereAsked
<1>4. ASSUME UNCHANGED <<loops, stopper>>, ConnTypes',
             ConnectIsWanted',
             \A c \in Clients : wanted[c] \/ overtaken[c] => wanted'[c] \/ overtaken'[c]
      PROVE  AllKept
  <2>1. LoopTypes' /\ StopperIsOwn' /\ NoNewPass
    BY <1>4 DEF LoopInv, LoopTypes, StopperIsOwn, NoNewPass
  <2>2. \A i \in DOMAIN loops : loops[i].by \in Clients
    BY Parts DEF LoopInv, LoopTypes
  <2>3. OnlyStopperLives'
    BY <1>4, <2>2 DEF LoopInv, OnlyStopperLives
  <2>4. QED BY <1>2, <1>3, <1>4, <2>1, <2>3 DEF LoopInv, Kept, AllKept
<1>5. CASE Connect
  <2>1. /\ UNCHANGED <<loops, stopper, client, auto, readable, crashes, hands, usable>>
        /\ wanted' = [wanted EXCEPT ![client] = TRUE]
        /\ overtaken' = [overtaken EXCEPT ![client] = FALSE] /\ connects < MaxConnects
        /\ connects' = connects + 1 /\ connect' = [connect EXCEPT ![client] = readable]
    BY <1>5 DEF Connect, talkVars, runVars
  <2>2. ConnTypes'
    <3>1. connects' \in 0..MaxConnects
      BY <2>1, Bounds DEF LoopInv, ConnTypes
    <3>2. QED BY <2>1, <3>1 DEF LoopInv, ConnTypes
  <2>3. /\ ConnectIsWanted'
        /\ \A c \in Clients : wanted[c] \/ overtaken[c] => wanted'[c] \/ overtaken'[c]
    BY <2>1 DEF LoopInv, ConnTypes, ConnectIsWanted
  <2>4. QED BY <1>4, <2>1, <2>2, <2>3
<1>6. CASE LogInAgain
  <2>1. /\ UNCHANGED <<loops, stopper, overtaken, auto, crashes, hands, usable>>
        /\ wanted' = [wanted EXCEPT ![client + 1] = TRUE] /\ client < MaxClients
        /\ connects < MaxConnects /\ client' = client + 1 /\ readable' = TRUE
        /\ connects' = connects + 1 /\ connect' = [connect EXCEPT ![client + 1] = TRUE]
    BY <1>6 DEF LogInAgain, talkVars, runVars
  <2>2. client + 1 \in Clients
    BY <2>1, Bounds DEF LoopInv, ConnTypes, Clients
  <2>3. ConnTypes'
    <3>1. connects' \in 0..MaxConnects
      BY <2>1, Bounds DEF LoopInv, ConnTypes
    <3>2. QED BY <2>1, <2>2, <3>1 DEF LoopInv, ConnTypes
  <2>4. /\ ConnectIsWanted'
        /\ \A c \in Clients : wanted[c] \/ overtaken[c] => wanted'[c] \/ overtaken'[c]
    BY <2>1, <2>2 DEF LoopInv, ConnTypes, ConnectIsWanted
  <2>5. QED BY <1>4, <2>1, <2>3, <2>4
<1>7. CASE \E c \in Clients : Rejected(c)
  <2>1. PICK c \in Clients : Rejected(c)
    BY <1>7
  <2>2. /\ UNCHANGED <<loops, stopper, client, auto, readable, crashes, hands, usable, connects,
                       wanted, overtaken>>
        /\ connect' = [connect EXCEPT ![c] = FALSE]
    BY <2>1 DEF Rejected, talkVars, runVars
  <2>3. ConnTypes'
    BY <2>2 DEF LoopInv, ConnTypes
  <2>4. ConnectIsWanted'
    BY <2>2 DEF LoopInv, ConnTypes, ConnectIsWanted
  <2>5. QED BY <1>4, <2>2, <2>3, <2>4
<1>8. CASE \E c \in Clients : Warmed(c)
  BY <1>2, <1>3, <1>8, WarmedPreserves DEF Kept, AllKept
<1>9. CASE Disconnect
  BY <1>2, <1>3, <1>9, DisconnectPreserves DEF Kept, AllKept
<1>10. QED BY <1>5, <1>6, <1>7, <1>8, <1>9

-----------------------------------------------------------------------------
(* One loop *)

LEMMA LoopStepPreserves ==
    ASSUME SessionsInv, NEW i \in DOMAIN loops, LoopStep(i)
    PROVE  AllKept
<1> DEFINE l == loops[i]
<1>1. /\ l \in LoopRecords /\ OnOne(l) /\ moderated \subseteq Convs
      /\ LoopInv /\ ConvInv /\ TriedWereAsked
  BY DEF SessionsInv, LoopInv, LoopTypes, ConvInv, ConvTypes
<1>2. /\ l.live \in BOOLEAN /\ l.at \in LoopStates /\ l.rest \subseteq Convs
      /\ l.mod \subseteq Convs /\ l.on \subseteq Convs /\ l.by \in Clients
  BY <1>1, Parts
<1>3. WorldUnchanged => UNCHANGED moderated
  BY DEF WorldUnchanged, talkVars
<1>4. UNCHANGED <<botVars, roomVars>> /\ WorldUnchanged => Kept
  BY <1>1, <1>3, ConvsUntouched DEF botVars, roomVars, ConvInv, ConvTypes
\* A step that takes up no conversation with a room.
<1>5. ASSUME NEW next \in LoopRecords, Loop(i, next), next.live = l.live, next.by = l.by,
             OnOne(next), \A k \in portal : next.on = {k} => l.on = {k},
             WorldUnchanged, Kept, TriedWereAsked'
      PROVE  AllKept
  <2>1. LoopInv' /\ NoNewPass
    BY <1>1, <1>5, LoopChanges
  <2>2. QED BY <1>5, <2>1 DEF Kept, AllKept, SessionsInv
<1>6. UNCHANGED passVars => TriedWereAsked'
  BY <1>1 DEF TriedWereAsked, passVars
<1>7. CASE ListRead(i)
  <2> DEFINE next == [l EXCEPT !.rest = Convs, !.mod = moderated]
  <2>1. /\ next \in LoopRecords /\ next.live = l.live /\ next.by = l.by /\ OnOne(next)
        /\ next.on = l.on
    BY <1>1 DEF LoopRecords, LoopStates, OnOne
  <2>2. Loop(i, next) /\ WorldUnchanged /\ Kept /\ TriedWereAsked'
    BY <1>4, <1>6, <1>7 DEF ListRead
  <2> HIDE DEF next, l
  <2>3. QED BY <1>5, <2>1, <2>2
<1>8. CASE ListFails(i)
  <2> DEFINE next == [l EXCEPT !.at = "passing"]
  <2>1. /\ next \in LoopRecords /\ next.live = l.live /\ next.by = l.by /\ OnOne(next)
        /\ next.on = l.on
    BY <1>1, <1>8 DEF LoopRecords, LoopStates, OnOne, ListFails
  <2>2. Loop(i, next) /\ WorldUnchanged /\ Kept /\ TriedWereAsked'
    BY <1>4, <1>6, <1>8 DEF ListFails, EndsPass
  <2> HIDE DEF next, l
  <2>3. QED BY <1>5, <2>1, <2>2
<1>9. CASE \E k \in Convs : Consider(i, k)
  <2>1. PICK k \in Convs : Consider(i, k)
    BY <1>9
  <2>2. /\ l.at = "passing" /\ WorldUnchanged /\ UNCHANGED <<botVars, info, portal, meta>>
        /\ TriedWereAsked' /\ queued' \in {queued, queued \cup {k}}
    BY <1>6, <2>1 DEF Consider
  <2>3. Kept
    BY <1>1, <1>3, <2>2, ConvsUntouched DEF botVars, ConvInv, ConvTypes
  <2>4. CASE k \in portal \/ ~ ShouldTry(i, k)
    <3> DEFINE next == [l EXCEPT !.rest = @ \ {k}, !.mod = @ \ {k}]
    <3>1. /\ next \in LoopRecords /\ next.live = l.live /\ next.by = l.by /\ OnOne(next)
          /\ next.on = l.on
      BY <1>1, <2>2 DEF LoopRecords, LoopStates, OnOne
    <3>2. Loop(i, next)
      BY <2>1, <2>4 DEF Consider
    <3> HIDE DEF next, l
    <3>3. QED BY <1>5, <2>2, <2>3, <3>1, <3>2
  <2>5. CASE k \notin portal /\ ShouldTry(i, k)
    <3> DEFINE next == [l EXCEPT !.rest = @ \ {k}, !.mod = @ \ {k}, !.at = "trying", !.on = {k}]
    <3>1. /\ next \in LoopRecords /\ next.live = l.live /\ next.by = l.by /\ OnOne(next)
          /\ next.on = {k}
      BY <1>1, <2>2 DEF LoopRecords, LoopStates, OnOne, Attempting
    <3>2. Loop(i, next)
      BY <2>1, <2>5 DEF Consider
    <3> HIDE DEF next, l
    <3>3. \A j \in portal : next.on = {j} => l.on = {j}
      BY <2>5, <3>1
    <3>4. QED BY <1>5, <2>2, <2>3, <3>1, <3>2, <3>3
  <2>6. QED BY <2>4, <2>5
<1>10. CASE EndLoop(i)
  <2> DEFINE next == [l EXCEPT !.at = "ended", !.rest = {}, !.mod = {}]
  <2>1. /\ next \in LoopRecords /\ next.live = l.live /\ next.by = l.by /\ OnOne(next)
        /\ next.on = l.on
    BY <1>1, <1>10 DEF LoopRecords, LoopStates, OnOne, Attempting, EndLoop
  <2>2. Loop(i, next) /\ WorldUnchanged /\ Kept /\ TriedWereAsked'
    BY <1>4, <1>6, <1>10 DEF EndLoop
  <2> HIDE DEF next, l
  <2>3. QED BY <1>5, <2>1, <2>2
<1>11. ASSUME GoesOn(i), WorldUnchanged, Kept, TriedWereAsked'
       PROVE  AllKept
  <2> DEFINE next == [l EXCEPT !.at = "passing", !.on = {}]
  <2>1. /\ next \in LoopRecords /\ next.live = l.live /\ next.by = l.by /\ OnOne(next)
        /\ next.on = {}
    BY <1>1 DEF LoopRecords, LoopStates, OnOne, Attempting
  <2>2. Loop(i, next)
    BY <1>11 DEF GoesOn
  <2> HIDE DEF next, l
  <2>3. \A k \in portal : next.on = {k} => l.on = {k}
    BY <2>1
  <2>4. QED BY <1>5, <1>11, <2>1, <2>2, <2>3
<1>12. ASSUME NEW s \in {"finding", "enabling"}, l.at \in Attempting,
              Loop(i, [l EXCEPT !.at = s]), WorldUnchanged, Kept, TriedWereAsked'
       PROVE  AllKept
  <2> DEFINE next == [l EXCEPT !.at = s]
  <2>1. /\ next \in LoopRecords /\ next.live = l.live /\ next.by = l.by /\ OnOne(next)
        /\ next.on = l.on
    BY <1>1, <1>12 DEF LoopRecords, LoopStates, OnOne, Attempting
  <2>2. Loop(i, next)
    BY <1>12
  <2> HIDE DEF next, l
  <2>3. QED BY <1>5, <1>12, <2>1, <2>2
<1>13. CASE Mark(i)
  <2>1. l.at = "trying" /\ WorldUnchanged /\ Kept
    BY <1>4, <1>13 DEF Mark
  <2>2. CASE GoesOn(i) /\ UNCHANGED passVars
    BY <1>6, <1>11, <2>1, <2>2
  <2>3. CASE \E k \in l.on \ tried[l.by] :
                /\ tried' = Marked(l.by, k)
                /\ asked' = [asked EXCEPT ![l.by][k] = @ + 1]
                /\ Loop(i, [l EXCEPT !.at = "finding"])
    <3>1. PICK k \in l.on \ tried[l.by] :
                /\ tried' = [tried EXCEPT ![l.by] = @ \cup {k}]
                /\ asked' = [asked EXCEPT ![l.by][k] = @ + 1]
                /\ Loop(i, [l EXCEPT !.at = "finding"])
      BY <2>3 DEF Marked
    <3>2. TriedWereAsked'
      <4> DEFINE c == l.by
      <4>1. c \in Clients /\ k \in Convs /\ k \notin tried[c] /\ asked[c][k] = 0
        BY <1>1, <1>2, <3>1 DEF TriedWereAsked
      <4>2. tried' = [tried EXCEPT ![c] = @ \cup {k}] /\ asked' = [asked EXCEPT ![c][k] = @ + 1]
        BY <3>1
      <4> HIDE DEF c
      <4>3. tried' \in [Clients -> SUBSET Convs] /\ asked' \in [Clients -> [Convs -> Nat]]
        BY <1>1, <4>1, <4>2 DEF TriedWereAsked
      <4>4. ASSUME NEW d \in Clients, NEW j \in Convs
            PROVE  asked'[d][j] = IF j \in tried'[d] THEN 1 ELSE 0
        <5>1. asked[d][j] = IF j \in tried[d] THEN 1 ELSE 0
          BY <1>1 DEF TriedWereAsked
        <5>2. CASE d = c /\ j = k
          BY <1>1, <4>1, <4>2, <5>2 DEF TriedWereAsked
        <5>3. CASE d # c \/ j # k
          <6>1. asked'[d][j] = asked[d][j] /\ (j \in tried'[d] <=> j \in tried[d])
            BY <1>1, <4>1, <4>2, <5>3 DEF TriedWereAsked
          <6>2. QED BY <5>1, <6>1
        <5>4. QED BY <5>2, <5>3
      <4>5. QED BY <4>3, <4>4 DEF TriedWereAsked
    <3>3. QED BY <1>12, <2>1, <3>1, <3>2 DEF Attempting
  <2>4. QED BY <1>13, <2>2, <2>3 DEF Mark
<1>14. CASE Find(i)
  <2>1. l.at = "finding" /\ WorldUnchanged /\ TriedWereAsked' /\ UNCHANGED roomVars
    BY <1>6, <1>14 DEF Find
  <2>2. CASE Loop(i, [l EXCEPT !.at = "enabling"]) /\ UNCHANGED botVars
    BY <1>4, <1>12, <2>1, <2>2 DEF Attempting
  <2>3. CASE GoesOn(i) /\ spoiled' = spoiled \cup (l.on \ portal) /\ UNCHANGED <<bot, joins>>
    <3>1. Kept
      BY <1>1, <1>2, <1>3, <2>1, <2>3, ConvsUntouched DEF roomVars, ConvInv, ConvTypes
    <3>2. QED BY <1>11, <2>1, <2>3, <3>1
  <2>4. QED BY <1>14, <2>2, <2>3 DEF Find
<1>15. CASE Enable(i)
  <2>1. bot' \subseteq Convs /\ joins' \subseteq Convs /\ spoiled' \subseteq Convs
    <3>1. CASE \E k \in l.on \cap moderated : TurnOn(k)
      BY <1>1, <1>2, <3>1, TurnOnTypes
    <3>2. CASE spoiled' = spoiled \cup (l.on \ portal) /\ UNCHANGED <<bot, joins>>
      BY <1>1, <1>2, <3>2 DEF ConvInv, ConvTypes
    <3>3. QED BY <1>15, <3>1, <3>2 DEF Enable
  <2>2. GoesOn(i) /\ WorldUnchanged /\ TriedWereAsked' /\ UNCHANGED roomVars
    BY <1>6, <1>15 DEF Enable
  <2>3. Kept
    BY <1>1, <1>3, <2>1, <2>2, ConvsUntouched DEF roomVars, ConvInv, ConvTypes
  <2>4. QED BY <1>11, <2>2, <2>3
<1>16. QED BY <1>7, <1>8, <1>9, <1>10, <1>13, <1>14, <1>15 DEF LoopStep

-----------------------------------------------------------------------------
(* The portals *)

LEMMA PortalEventPreserves ==
    ASSUME SessionsInv, NEW k \in Convs, Join(k) \/ Message(k) \/ PortalStep(k)
    PROVE  AllKept
<1>1. LoopInv /\ ConvInv
  BY DEF SessionsInv
<1>2. UNCHANGED <<loops, tried, asked>> /\ WorldUnchanged
  BY DEF Join, Message, PortalStep, Read, FindForPortal, EnableForPortal, MakeRoom, passVars
<1>3. /\ UNCHANGED <<stopper, client, connect, connects, wanted, overtaken, auto, readable,
                     crashes, hands, usable, moderated>>
      /\ TriedWereAsked'
  BY <1>2 DEF WorldUnchanged, talkVars, runVars, connVars, SessionsInv, TriedWereAsked
<1>4. LoopInv' /\ NoNewPass
  <2>1. ConnTypes'
    BY <1>1, <1>3 DEF LoopInv, ConnTypes
  <2>2. QED BY <1>1, <1>2, <1>3, <2>1, LoopsUntouched DEF ConvInv
<1>5. ASSUME Kept PROVE AllKept
  BY <1>3, <1>4, <1>5 DEF Kept, AllKept, SessionsInv
<1>6. /\ moderated \subseteq Convs /\ bot \subseteq Convs /\ joins \subseteq Convs
      /\ queued \subseteq Convs /\ spoiled \subseteq Convs
      /\ meta[k] \in {"new", "enabled", "failed"}
      /\ portal \subseteq Convs
      /\ info[k] \in {"finding", "enabling"} => meta[k] = "new"
  BY <1>1 DEF ConvInv, ConvTypes, OutcomesAreKept
<1>7. CASE Join(k)
  BY <1>1, <1>2, <1>3, <1>5, <1>6, <1>7, ConvsUntouched DEF Join
<1>8. CASE Message(k)
  BY <1>1, <1>2, <1>3, <1>5, <1>6, <1>8, ConvsUntouched DEF Message, botVars
<1>9. CASE Read(k)
  <2>1. queued' \subseteq Convs /\ UNCHANGED <<bot, joins>>
    BY <1>6, <1>9 DEF Read
  <2>2. CASE /\ ShouldEnsure(k) /\ info' = [info EXCEPT ![k] = "finding"]
             /\ UNCHANGED <<portal, meta, spoiled>>
    BY <1>1, <1>3, <1>5, <1>6, <2>1, <2>2, AttemptPreserves DEF ShouldEnsure
  <2>3. CASE ShouldEnsure(k) /\ Settle(k, "failed") /\ UNCHANGED spoiled
    BY <1>1, <1>3, <1>5, <1>6, <2>1, <2>3, SettlePreserves DEF ShouldEnsure
  <2>4. CASE /\ info[k] = "none"
             /\ info' = [info EXCEPT ![k] = IF k \in portal THEN @ ELSE "making"]
             /\ UNCHANGED <<portal, meta, spoiled>>
    <3>1. PICK step \in {"none", "making"} : info' = [info EXCEPT ![k] = step]
      BY <2>4
    <3>2. QED BY <1>1, <1>3, <1>5, <1>6, <2>1, <2>4, <3>1, AttemptPreserves
  <2>5. CASE spoiled' = spoiled \cup ({k} \ portal) /\ UNCHANGED <<portal, meta, info>>
    BY <1>1, <1>3, <1>5, <1>6, <2>1, <2>5, ConvsUntouched
  <2>6. QED BY <1>9, <2>2, <2>3, <2>4, <2>5 DEF Read
<1>10. ASSUME NEW outcome \in {"enabled", "failed"}, Settle(k, outcome),
              info[k] \in {"finding", "enabling"},
              bot' \subseteq Convs, joins' \subseteq Convs, spoiled' \subseteq Convs,
              queued' = queued
       PROVE  AllKept
  <2>1. Kept
    BY <1>1, <1>3, <1>6, <1>10, SettlePreserves
  <2>2. QED BY <1>5, <2>1
<1>11. CASE FindForPortal(k)
  <2>1. info[k] = "finding" /\ UNCHANGED <<bot, joins, spoiled, queued>>
    BY <1>11 DEF FindForPortal, botVars
  <2>2. CASE info' = [info EXCEPT ![k] = "enabling"] /\ UNCHANGED <<portal, meta>>
    BY <1>1, <1>3, <1>5, <1>6, <2>1, <2>2, AttemptPreserves
  <2>3. CASE Settle(k, "failed")
    BY <1>6, <1>10, <2>1, <2>3
  <2>4. QED BY <1>11, <2>2, <2>3 DEF FindForPortal
<1>12. CASE EnableForPortal(k)
  <2>1. info[k] = "enabling" /\ queued' = queued
    BY <1>12 DEF EnableForPortal
  <2>2. bot' \subseteq Convs /\ joins' \subseteq Convs /\ spoiled' \subseteq Convs
    <3>1. TurnOn(k) \/ UNCHANGED botVars
      BY <1>12 DEF EnableForPortal
    <3>2. QED BY <1>1, <1>6, <3>1, TurnOnTypes DEF botVars
  <2>3. Settle(k, "enabled") \/ Settle(k, "failed")
    BY <1>12 DEF EnableForPortal
  <2>4. QED BY <1>10, <2>1, <2>2, <2>3
<1>13. CASE MakeRoom(k)
  <2>1. /\ info' = [info EXCEPT ![k] = "none"] /\ portal' = portal \cup {k}
        /\ spoiled' = spoiled \ {k} /\ UNCHANGED <<bot, joins, queued, meta>>
    BY <1>13 DEF MakeRoom
  <2>2. QED BY <1>1, <1>3, <1>5, <1>6, <2>1, AttemptPreserves
<1>14. QED BY <1>7, <1>8, <1>9, <1>11, <1>12, <1>13 DEF PortalStep

-----------------------------------------------------------------------------
(* The beginning of a run, and all steps *)

\* Nothing is connected, tried or under way.
NewRun ==
    /\ client = 1 /\ connect = NotYet(FALSE) /\ loops = <<>> /\ stopper = NotYet(0)
    /\ wanted = NotYet(FALSE) /\ overtaken = NotYet(FALSE)
    /\ tried = NotYet({}) /\ asked = NotYet([k \in Convs |-> 0])
    /\ info = [k \in Convs |-> "none"]

LEMMA NewRunIsOrderly ==
    NewRun => LoopTypes /\ StopperIsOwn /\ ConnectIsWanted /\ OnlyStopperLives /\ TriedWereAsked
<1> SUFFICES ASSUME NewRun
             PROVE  LoopTypes /\ StopperIsOwn /\ ConnectIsWanted /\ OnlyStopperLives
                    /\ TriedWereAsked
  OBVIOUS
<1>1. LoopTypes /\ OnlyStopperLives
  BY DEF NewRun, LoopTypes, OnlyStopperLives
<1>2. StopperIsOwn /\ ConnectIsWanted
  BY DEF NewRun, NotYet, StopperIsOwn, ConnectIsWanted
<1>3. TriedWereAsked
  BY DEF NewRun, NotYet, TriedWereAsked
<1>4. QED BY <1>1, <1>2, <1>3

LEMMA InitInv == Init => SessionsInv
<1> SUFFICES ASSUME Init PROVE SessionsInv
  OBVIOUS
<1>1. LoopTypes /\ StopperIsOwn /\ ConnectIsWanted /\ OnlyStopperLives /\ TriedWereAsked
  BY NewRunIsOrderly DEF Init, NewRun
<1>2. ConnTypes
  <2>1. 0 \in 0..MaxConnects /\ 0 \in 0..MaxHands /\ 0 \in 0..MaxCrashes /\ 1 \in Clients
    BY Bounds
  <2>2. QED BY <2>1 DEF Init, NotYet, ConnTypes
<1>3. ConvTypes /\ OutcomesAreKept
  BY DEF Init, ConvTypes, OutcomesAreKept
<1>4. QED BY <1>1, <1>2, <1>3 DEF SessionsInv, LoopInv, ConvInv

LEMMA CrashPreserves ==
    ASSUME SessionsInv, Crash
    PROVE  AllKept
<1>1. /\ NewRun' /\ joins' = {} /\ queued' = {}
      /\ auto' \in BOOLEAN /\ readable' \in BOOLEAN
      /\ crashes < MaxCrashes /\ crashes' = crashes + 1
      /\ UNCHANGED <<usable, moderated, hands, connects, portal>>
      /\ bot' \subseteq bot \cup moderated /\ spoiled' \subseteq bot'
  BY DEF Crash, NewRun, NotYet, Clients, talkVars, SessionsInv, LoopInv, ConnTypes
<1>2. PICK lost \in SUBSET Unsaved :
          meta' = [k \in Convs |-> IF k \in lost THEN "new" ELSE meta[k]]
  BY DEF Crash
<1>3. /\ LoopTypes' /\ StopperIsOwn' /\ ConnectIsWanted' /\ OnlyStopperLives'
      /\ TriedWereAsked'
  <2>1. (NewRun => LoopTypes /\ StopperIsOwn /\ ConnectIsWanted /\ OnlyStopperLives
                   /\ TriedWereAsked)'
    BY NewRunIsOrderly, PTL
  <2>2. QED BY <1>1, <2>1
<1>4. ConnTypes'
  <2>1. /\ crashes' \in 0..MaxCrashes /\ connects' \in 0..MaxConnects
        /\ hands' \in 0..MaxHands /\ usable' \in BOOLEAN
    BY <1>1, Bounds DEF SessionsInv, LoopInv, ConnTypes
  <2>2. QED BY <1>1, <2>1, Bounds DEF ConnTypes, NewRun, NotYet, Clients
<1>5. ConvTypes' /\ OutcomesAreKept' /\ OutcomesStay
  BY <1>1, <1>2 DEF SessionsInv, ConvInv, ConvTypes, OutcomesAreKept, OutcomesStay, NewRun, Unsaved
<1>6. NoNewPass
  BY <1>1 DEF NewRun, NoNewPass
<1>7. QED BY <1>3, <1>4, <1>5, <1>6 DEF AllKept, SessionsInv, LoopInv, ConvInv

LEMMA NextPreserves ==
    ASSUME SessionsInv, [Next]_vars
    PROVE  AllKept
<1>1. CASE Next
  BY <1>1, AroundPreserves, ConnectionPreserves, LoopStepPreserves, PortalEventPreserves,
     CrashPreserves DEF Next
<1>2. CASE UNCHANGED vars
  <2>1. /\ UNCHANGED <<loops, stopper, client, connect, connects, wanted, overtaken, auto,
                       readable, crashes, hands, usable>>
        /\ UNCHANGED <<tried, asked, portal, meta, info, moderated, bot, joins, queued, spoiled>>
    BY <1>2 DEF vars, talkVars, botVars, passVars, runVars, connVars, roomVars
  <2>2. Kept
    BY <2>1, ConvsUntouched DEF SessionsInv, ConvInv, ConvTypes
  <2>3. ConnTypes'
    BY <2>1 DEF SessionsInv, LoopInv, ConnTypes
  <2>4. LoopInv' /\ NoNewPass
    BY <2>1, <2>3, LoopsUntouched DEF SessionsInv, ConvInv
  <2>5. TriedWereAsked'
    BY <2>1 DEF SessionsInv, TriedWereAsked
  <2>6. QED BY <2>2, <2>4, <2>5 DEF Kept, AllKept, SessionsInv
<1>3. QED BY <1>1, <1>2

-----------------------------------------------------------------------------
(* The theorems *)

\* For any conversations, clients, Connects and restarts, the invariant above holds
\* of every behaviour of Sessions.
THEOREM SessionsInvariant == Spec => []SessionsInv
<1>1. Init => SessionsInv
  BY InitInv
<1>2. SessionsInv /\ [Next]_vars => SessionsInv'
  BY NextPreserves DEF AllKept
<1>3. QED BY <1>1, <1>2, PTL DEF Spec

\* Every variable has its type, a loop is at work on one conversation at most, and
\* what a syncCancel names has not been cancelled.
THEOREM TypeCorrect == Spec => []TypeOK
<1>1. SessionsInv => TypeOK
  <2> SUFFICES ASSUME SessionsInv PROVE TypeOK
    OBVIOUS
  <2>1. \A i \in DOMAIN loops :
           Cardinality(loops[i].on) =
               IF loops[i].at \in {"trying", "finding", "enabling"} THEN 1 ELSE 0
    <3>1. TAKE i \in DOMAIN loops
    <3>2. OnOne(loops[i])
      BY DEF SessionsInv, LoopInv, LoopTypes
    <3>3. QED BY <3>2, FS_EmptySet, FS_Singleton DEF OnOne, Attempting
  <2>2. loops \in Seq([by : Clients, live : BOOLEAN, rest : SUBSET Convs, mod : SUBSET Convs,
                       at : {"passing", "trying", "finding", "enabling", "ended"},
                       on : SUBSET Convs])
    BY DEF SessionsInv, LoopInv, LoopTypes, LoopRecords, LoopStates
  <2>3. \A c \in Clients :
           stopper[c] # 0 => stopper[c] \in DOMAIN loops /\ loops[stopper[c]].live
    BY DEF SessionsInv, LoopInv, StopperIsOwn
  <2>4. tried \in [Clients -> SUBSET Convs] /\ asked \in [Clients -> [Convs -> Nat]]
    BY DEF SessionsInv, TriedWereAsked
  <2>5. QED
    BY <2>1, <2>2, <2>3, <2>4 DEF TypeOK, SessionsInv, LoopInv, ConnTypes, ConvInv, ConvTypes
<1>2. QED BY <1>1, SessionsInvariant, PTL

\* startPeriodicSync and stopPeriodicSync, with any number of Connects and
\* Disconnects of any clients: one loop of a client at most is meant to go on, and
\* none after a Disconnect that did not overtake a Connect.
THEOREM LoopsEndWithTheirSession == Spec => []LoopsEnd
<1>1. SessionsInv => LoopsEnd
  BY DEF SessionsInv, LoopInv, OnlyStopperLives, LoopsEnd
<1>2. QED BY <1>1, SessionsInvariant, PTL

\* autoEnableBot, however many loops are still at work and whenever they looked the
\* conversation up: one client's passes try it at most once.
THEOREM PassesTryOnce == Spec => []TriedOnce
<1>1. SessionsInv => TriedOnce
  BY DEF SessionsInv, TriedWereAsked, TriedOnce
<1>2. QED BY <1>1, SessionsInvariant, PTL

\* ensureBotEnabled: the outcome saved with a portal that has its room is never
\* changed, and neither the portal nor a pass takes the conversation up again.
THEOREM OutcomesAreFinal == Spec => OutcomeIsFinal
<1> DEFINE Final == \A k \in portal : meta[k] # "new" /\ info[k] # "settling" =>
                       meta'[k] = meta[k] /\ AttemptsOn(k)' \subseteq AttemptsOn(k)
<1>1. SessionsInv /\ [Next]_vars => [Final]_vars
  <2> SUFFICES ASSUME SessionsInv, [Next]_vars, NEW k \in portal,
                      meta[k] # "new", info[k] # "settling"
               PROVE  meta'[k] = meta[k] /\ AttemptsOn(k)' \subseteq AttemptsOn(k)
    BY DEF Final
  <2>1. k \in Convs /\ NoNewPass /\ OutcomesStay
    BY NextPreserves DEF AllKept, SessionsInv, ConvInv, ConvTypes
  <2>2. meta'[k] = meta[k] /\ info'[k] \notin {"finding", "enabling"}
    BY <2>1 DEF OutcomesStay
  <2>3. \A i \in DOMAIN loops' : loops'[i].on = {k} => i \in DOMAIN loops /\ loops[i].on = {k}
    BY <2>1 DEF NoNewPass
  <2>4. AttemptsOn(k)' \subseteq AttemptsOn(k)
    BY <2>2, <2>3 DEF AttemptsOn
  <2>5. QED BY <2>2, <2>4
<1>2. OutcomeIsFinal <=> [][Final]_vars
  BY PTL DEF OutcomeIsFinal
<1>3. QED BY <1>1, <1>2, SessionsInvariant, PTL DEF Spec
=============================================================================
