---------------------------- MODULE LoginRouter ----------------------------
(***************************************************************************)
(* Which login owns a conversation: src/pkg/connector/router.go, with the  *)
(* three places that drive it, processEvent and handleBotJoin/Leave        *)
(* (webhook.go) and Connect (client.go).  One conversation of one          *)
(* Nextcloud server is modelled; the router keeps nothing that relates two *)
(* of them.  Resolve holds the lock only to read and to write: the         *)
(* question to Nextcloud goes out between the two, so the answer, an       *)
(* Invalidate and a Warm may fall in any order.  The routing key holds the *)
(* hostname as whoever asks spells it; here everybody spells it the same.  *)
(* Nothing tells the router of a logout: InvalidateLogin has no caller in  *)
(* the program, so it is no action here, and a login that was removed      *)
(* stays where the tables, a stack or a list have it.                      *)
(***************************************************************************)
EXTENDS Integers

CONSTANTS
    Logins,       \* the logins on this server, by their ID, which orders them
    Unreadable,   \* those whose stored credential does not decrypt
    Workers,      \* webhook workers and resync passes that resolve a route
    MaxUpheavals  \* bound on the joins, leaves, logins and logouts of one behaviour

ASSUME RouterAssumption ==
    /\ Logins \subseteq Nat
    /\ Unreadable \subseteq Logins
    /\ MaxUpheavals \in Nat

VARIABLES
    member,     \* Nextcloud: the logins that participate now
    loaded,     \* the bridge: the logins it has cached, with a client
    gone,       \* the bridge: those that were logged out
    primary,    \* router.primary, for this conversation
    absent,     \* router.notParticipant, for this conversation
    resolving,  \* what each worker is doing
    listed,     \* per login: what its conversation list said, while Warm runs
    wasMember, wasAbsent,  \* history: logins ever in, and ever out
    warmed,     \* history: logins warmed since the last Invalidate
    upheavals,  \* history: joins, leaves, logins and logouts so far
    failed      \* history: whether a request ever failed for want of an answer

routes == <<primary, absent>>
history == <<wasMember, wasAbsent, warmed, upheavals, failed>>
vars == <<member, loaded, gone, primary, absent, resolving, listed,
          wasMember, wasAbsent, warmed, upheavals, failed>>

None == -1
Lowest(S) == CHOOSE l \in S : \A k \in S : l <= k

\* A worker between two events; the fields hold what Resolve has on its stack.
AtRest == [at |-> "idle", left |-> {}, login |-> None, answer |-> ""]
Probing(left) == [AtRest EXCEPT !.at = "probing", !.left = left]
Routed == [AtRest EXCEPT !.at = "routed"]

Init ==
    /\ member \in SUBSET Logins
    /\ loaded \in SUBSET Logins
    /\ gone = {}
    /\ primary = None
    /\ absent = {}
    /\ resolving = [w \in Workers |-> AtRest]
    /\ listed = [l \in Logins |-> "none"]
    /\ wasMember = member
    /\ wasAbsent = Logins \ member
    /\ warmed = {}
    /\ upheavals = 0
    /\ failed = FALSE

-----------------------------------------------------------------------------
(* Resolve *)

\* A cached owner is returned at once; otherwise every login on the server is
\* a candidate.
Lookup(w) ==
    /\ resolving[w] = AtRest
    /\ resolving' = [resolving EXCEPT ![w] =
                        IF primary # None THEN Routed ELSE Probing(loaded)]
    /\ UNCHANGED <<member, loaded, gone, routes, listed, history>>

\* The candidates are tried from the lowest ID up; one known not to participate
\* is passed over without a request.  The faulty variant starts at the other end.
Highest(S) == CHOOSE l \in S : \A k \in S : l >= k
NextCandidate(S) == Lowest(S)

Skip(w) ==
    LET r == resolving[w]
    IN  /\ r.at = "probing" /\ r.left # {}
        /\ NextCandidate(r.left) \in absent
        /\ resolving' = [resolving EXCEPT ![w].left = @ \ {NextCandidate(r.left)}]
        /\ UNCHANGED <<member, loaded, gone, routes, listed, history>>

\* GetConversation as that login: 404 for a conversation the user is not in, any
\* other failure says nothing.  A login that could not decrypt its credential
\* asks with an empty password, which Nextcloud refuses, and so may one whose
\* password was revoked with its logout.
AnswersFor(l) ==
    IF l \in Unreadable THEN {"failed"}
    ELSE {IF l \in member THEN "found" ELSE "notFound", "failed"}

Ask(w) ==
    LET r == resolving[w]
        l == NextCandidate(r.left)
    IN  /\ r.at = "probing" /\ r.left # {}
        /\ l \notin absent
        /\ \E answer \in AnswersFor(l) :
              resolving' = [resolving EXCEPT ![w] =
                 [at |-> "answered", left |-> r.left \ {l},
                  login |-> l, answer |-> answer]]
        /\ UNCHANGED <<member, loaded, gone, routes, listed, history>>

\* What the answer does to the routing tables, under the lock.  The faulty
\* variant remembers a login that could not be asked as a non-participant.
CountsAsAbsentOnAnyError(answer) == answer # "found"
CountsAsAbsent(answer) == answer = "notFound"

\* The write is unconditional: it does not look at what is cached by now.
Found(w) ==
    LET r == resolving[w]
    IN  /\ r.at = "answered" /\ r.answer = "found"
        /\ primary' = r.login
        /\ resolving' = [resolving EXCEPT ![w] = Routed]
        /\ UNCHANGED <<member, loaded, gone, absent, listed, history>>

NotFound(w) ==
    LET r == resolving[w]
    IN  /\ r.at = "answered" /\ CountsAsAbsent(r.answer)
        /\ absent' = absent \cup {r.login}
        /\ resolving' = [resolving EXCEPT ![w] = Probing(r.left)]
        /\ UNCHANGED <<member, loaded, gone, primary, listed, history>>

Failed(w) ==
    LET r == resolving[w]
    IN  /\ r.at = "answered" /\ r.answer = "failed" /\ ~ CountsAsAbsent(r.answer)
        /\ resolving' = [resolving EXCEPT ![w] = Probing(r.left)]
        /\ failed' = TRUE
        /\ UNCHANGED <<member, loaded, gone, routes, listed, wasMember, wasAbsent, warmed, upheavals>>

\* No candidate participates: a nil login, and the event is ignored.
NoRoute(w) ==
    /\ resolving[w].at = "probing" /\ resolving[w].left = {}
    /\ resolving' = [resolving EXCEPT ![w] = AtRest]
    /\ UNCHANGED <<member, loaded, gone, routes, listed, history>>

ResolveStep(w) == Skip(w) \/ Ask(w) \/ Found(w) \/ NotFound(w) \/ Failed(w) \/ NoRoute(w)

-----------------------------------------------------------------------------
(* what the resolved event goes on to do *)

\* An ordinary event is handed to the login's client and leaves the router be.
\* Which kind the event is matters only here, so it is chosen here.
Dispatch(w) ==
    /\ resolving[w] = Routed
    /\ resolving' = [resolving EXCEPT ![w] = AtRest]
    /\ UNCHANGED <<member, loaded, gone, routes, listed, history>>

\* handleBotJoin and handleBotLeave.  An answer still on its way is written all
\* the same.
Forgotten == None

Invalidate(w) ==
    /\ resolving[w] = Routed
    /\ primary' = Forgotten
    /\ absent' = {}
    /\ resolving' = [resolving EXCEPT ![w] = AtRest]
    /\ warmed' = {}
    /\ UNCHANGED <<member, loaded, gone, listed, wasMember, wasAbsent, upheavals, failed>>

-----------------------------------------------------------------------------
(* Warm, from Connect *)

\* ListConversations answers; Connect returns before this for a login that
\* cannot read its credential.
List(l) ==
    /\ l \in loaded \ Unreadable
    /\ listed[l] = "none"
    /\ listed' = [listed EXCEPT ![l] = IF l \in member THEN "in" ELSE "out"]
    /\ UNCHANGED <<member, loaded, gone, routes, resolving, history>>

\* A cached owner gives way to a login with a lower ID, and to no other.  The
\* faulty variant has the comparison the wrong way round.
DisplacesLower(l, owner) == owner = None \/ owner < l
Displaces(l, owner) == owner = None \/ ~ (owner <= l)

\* The list is put into the cache under the lock.
WarmUp(l) ==
    /\ listed[l] # "none"
    /\ primary' = IF listed[l] = "in" /\ Displaces(l, primary) THEN l ELSE primary
    /\ listed' = [listed EXCEPT ![l] = "none"]
    /\ warmed' = warmed \cup {l}
    /\ UNCHANGED <<member, loaded, gone, absent, resolving, wasMember, wasAbsent, upheavals, failed>>

-----------------------------------------------------------------------------
(* the world around *)

Upheaval == upheavals < MaxUpheavals /\ upheavals' = upheavals + 1

Join(l) ==
    /\ Upheaval
    /\ l \notin member
    /\ member' = member \cup {l}
    /\ wasMember' = wasMember \cup {l}
    /\ UNCHANGED <<loaded, gone, routes, resolving, listed, wasAbsent, warmed, failed>>

Leave(l) ==
    /\ Upheaval
    /\ l \in member
    /\ member' = member \ {l}
    /\ wasAbsent' = wasAbsent \cup {l}
    /\ UNCHANGED <<loaded, gone, routes, resolving, listed, wasMember, warmed, failed>>

\* A user logs in.  Whoever does so again after a logout is not modelled.
Load(l) ==
    /\ Upheaval
    /\ l \notin loaded \cup gone
    /\ loaded' = loaded \cup {l}
    /\ UNCHANGED <<member, gone, routes, resolving, listed, wasMember, wasAbsent, warmed, failed>>

\* A user logs out: the login is no candidate from now on, but it keeps its
\* client, so that Lookup takes it for an owner like any other.
Unload(l) ==
    /\ Upheaval
    /\ l \in loaded
    /\ loaded' = loaded \ {l}
    /\ gone' = gone \cup {l}
    /\ UNCHANGED <<member, routes, resolving, listed, wasMember, wasAbsent, warmed, failed>>

Next ==
    \/ \E w \in Workers : Lookup(w) \/ ResolveStep(w) \/ Dispatch(w) \/ Invalidate(w)
    \/ \E l \in Logins : List(l) \/ WarmUp(l)
    \/ \E l \in Logins : Join(l) \/ Leave(l) \/ Load(l) \/ Unload(l)

Spec == Init /\ [][Next]_vars

\* Workers are goroutines that run to the end of what they do; the conversation
\* is a busy one, so messages keep arriving; and Nextcloud does not fail every
\* time it is asked.  Bot changes, Warm and membership changes may never happen.
AnswerComes(w) == Ask(w) /\ resolving'[w].answer # "failed"

Fairness ==
    \A w \in Workers :
        /\ WF_vars(Lookup(w))
        /\ WF_vars(ResolveStep(w) \/ Dispatch(w) \/ Invalidate(w))
        /\ SF_vars(AnswerComes(w))

FairSpec == Spec /\ Fairness

-----------------------------------------------------------------------------
Usable == (member \cap loaded) \ Unreadable
Steadfast == Usable \ wasAbsent

\* Nothing has changed and no request has failed so far.
Calm == upheavals = 0 /\ ~ failed

\* Every variable has its type.
TypeOK ==
    /\ member \in SUBSET Logins
    /\ loaded \in SUBSET Logins
    /\ gone \in SUBSET (Logins \ loaded)
    /\ primary \in Logins \cup {None}
    /\ absent \in SUBSET Logins
    /\ resolving \in [Workers ->
          [at : {"idle", "probing", "answered", "routed"},
           left : SUBSET Logins, login : Logins \cup {None},
           answer : {"", "found", "notFound", "failed"}]]
    /\ listed \in [Logins -> {"none", "in", "out"}]
    /\ wasMember \in SUBSET Logins
    /\ wasAbsent \in SUBSET Logins
    /\ warmed \in SUBSET Logins
    /\ upheavals \in 0..MaxUpheavals
    /\ failed \in BOOLEAN

\* An owner took part in the conversation at some time, and a login passed over
\* as a non-participant was outside it at some time: nothing the router
\* believes was made up, whatever joins, leaves, logs in or fails meanwhile.
BeliefsWereTrue ==
    /\ primary # None => primary \in wasMember
    /\ absent \subseteq wasAbsent

\* router_test.go:98-99 "the lowest login ID wins", while all is calm: once the
\* lowest usable login has been warmed, no probe and no other login's Warm
\* makes a different login the owner, in any interleaving, until Invalidate.
LowestOwnsOnceWarmed ==
    Calm /\ Usable # {} /\ Lowest(Usable) \in warmed
        => primary = Lowest(Usable)

\* While all is calm, ownership only ever moves to a lower login ID, or is
\* forgotten by Invalidate: workers and any number of Warms cannot make it go
\* back and forth.
OwnershipMovesDown ==
    [][Calm /\ primary # None /\ primary' # None => primary' <= primary]_vars

\* router_test.go:165-166 "or the conversation would stay dark until restart":
\* a conversation with a participant who has been one all along gets an owner if
\* messages keep coming, however often asking fails on the way.
ParticipantIsFound == Steadfast # {} ~> primary # None \/ Steadfast = {}
=============================================================================
