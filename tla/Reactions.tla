------------------------------ MODULE Reactions ------------------------------
(***************************************************************************)
(* The reactions on one message, changed from both sides                   *)
(* (src/pkg/connector/reactions.go and webhook.go, nctalk/reactions.go).   *)
(* A Like or Undo webhook does not say who reacted: it only makes a worker *)
(* read the whole list and queue it in the portal's event loop, where it   *)
(* replaces what the room shows.  Reactions made in Matrix go through the  *)
(* same loop, and come back as webhooks too.                               *)
(* A reaction is <<user, emoji>>, the emoji byte for byte as Talk holds it;*)
(* qualifying what clients display is left out.                            *)
(* bridgev2 runs the loop serially, keeps a row per reaction that it sends *)
(* or that HandleMatrixReaction accepts, sends no reaction that has a row, *)
(* removes what a complete list lacks, and drops a list for a message that *)
(* has no row.                                                             *)
(***************************************************************************)
EXTENDS Integers, Sequences, FiniteSets

CONSTANTS
    Users,        \* actors that react in Talk
    Ghostable,    \* those the bridge shows: isGhostableActor
    Linked,       \* those who react from Matrix, with their own account
    Emoji,
    Workers,
    MaxChanges,   \* bound on changes of what Talk holds
    Lossy         \* whether webhooks, requests and answers may get lost

ASSUME ReactionsAssumption ==
    /\ Linked \subseteq Ghostable /\ Ghostable \subseteq Users
    /\ MaxChanges \in Nat
    /\ Lossy \in BOOLEAN

VARIABLES
    talk,         \* Talk: the reactions on the message
    webhooks,     \* how many Likes and Undos are under way
    worker,       \* per worker, the list it has read
    queue,        \* the portal's event loop: lists to be applied
    bridged,      \* whether the message has a row yet
    rows,         \* bridgev2: the reactions that have a row
    shown,        \* Matrix: the reactions of the room
    own,          \* history: rows whose event a Matrix user sent
    madeAt,       \* history: lists read when a reaction that stands was made in Matrix
    changes,      \* history: number of changes, bounded
    reads,        \* history: number of lists read
    lastApplied,  \* history: which of them was applied last
    lost,         \* history: whether a signal was lost after the newest read
    soiled        \* history: reactions for which a request from Matrix failed

vars == <<talk, webhooks, worker, queue, bridged, rows, shown,
          own, madeAt, changes, reads, lastApplied, lost, soiled>>
talkVars == <<talk, webhooks, changes>>
roomVars == <<bridged, rows, shown, own, soiled, lastApplied>>
Never == -1

Reaction == Users \X Emoji
List == [number : Nat, list : SUBSET Reaction]
Idle == [at |-> "idle"]
Asking == [at |-> "asking"]
Holding(l) == [at |-> "holding", list |-> l]

Init ==
    /\ talk = {} /\ webhooks = 0 /\ changes = 0
    /\ worker = [w \in Workers |-> Idle]
    /\ queue = <<>>
    /\ bridged \in BOOLEAN
    /\ rows = {} /\ shown = {} /\ own = {} /\ soiled = {}
    /\ madeAt = [r \in Reaction |-> Never]
    /\ reads = 0 /\ lastApplied = 0
    /\ lost = FALSE

-----------------------------------------------------------------------------
(* Talk *)

\* Talk adds or removes a reaction and sends a webhook; adding what is there or
\* removing what is not changes nothing.
Becomes(reactions) ==
    /\ talk' = reactions
    /\ webhooks' = IF reactions = talk THEN webhooks ELSE webhooks + 1
    /\ changes' = IF reactions = talk THEN changes ELSE changes + 1

TalkChanges(r) ==
    /\ changes < MaxChanges
    /\ Becomes(IF r \in talk THEN talk \ {r} ELSE talk \cup {r})
    /\ madeAt' = [madeAt EXCEPT ![r] = Never]
    /\ UNCHANGED <<worker, queue, reads, lost, roomVars>>

LoseWebhook ==
    /\ Lossy /\ webhooks > 0
    /\ webhooks' = webhooks - 1
    /\ lost' = TRUE
    /\ UNCHANGED <<madeAt, talk, changes, worker, queue, reads, roomVars>>

-----------------------------------------------------------------------------
(* handleReaction, handleUndo: syncReactions *)

Take(w) ==
    /\ webhooks > 0 /\ worker[w] = Idle
    /\ webhooks' = webhooks - 1
    /\ worker' = [worker EXCEPT ![w] = Asking]
    /\ UNCHANGED <<madeAt, talk, changes, queue, reads, lost, roomVars>>

\* The answer to ListReactions.
Read(w) ==
    /\ worker[w] = Asking
    /\ reads' = reads + 1
    /\ worker' = [worker EXCEPT ![w] = Holding([number |-> reads + 1, list |-> talk])]
    /\ lost' = FALSE
    /\ UNCHANGED <<madeAt, talkVars, queue, roomVars>>

ReadFails(w) ==
    /\ Lossy /\ worker[w] = Asking
    /\ worker' = [worker EXCEPT ![w] = Idle]
    /\ lost' = TRUE
    /\ UNCHANGED <<madeAt, talkVars, queue, reads, roomVars>>

\* Only users the bridge shows are in what is queued.  The faulty variant
\* drops also those who may have reacted from Matrix.
WithoutOwn(list) == {r \in list : r[1] \in Ghostable \ Linked}
Bridgeable(list) == {r \in list : r[1] \in Ghostable}

Queue(w) ==
    /\ worker[w].at = "holding"
    /\ queue' = Append(queue, [worker[w].list EXCEPT !.list = Bridgeable(@)])
    /\ worker' = [worker EXCEPT ![w] = Idle]
    /\ UNCHANGED <<madeAt, talkVars, reads, lost, roomVars>>

-----------------------------------------------------------------------------
(* the portal's event loop: a list from Talk *)

\* The list is complete for each user it names, and names every user.  The
\* faulty variants send an incomplete one.
SomeReactions == FALSE
HasAllReactions == TRUE
SomeUsers == FALSE
HasAllUsers == TRUE

Named(list) == {r[1] : r \in list}
Gone(list) ==
    {r \in rows \ list : IF r[1] \in Named(list) THEN HasAllReactions ELSE HasAllUsers}

Apply ==
    LET next == Head(queue)
        gone == Gone(next.list)
    IN  /\ queue # <<>>
        /\ queue' = Tail(queue)
        /\ \/ ~ bridged /\ UNCHANGED roomVars
           \/ /\ bridged
              /\ rows' = (rows \ gone) \cup next.list
              /\ shown' = (shown \ gone) \cup (next.list \ rows)
              /\ own' = own \ gone
              /\ lastApplied' = next.number
              /\ UNCHANGED <<bridged, soiled>>
        /\ UNCHANGED <<madeAt, talkVars, worker, reads, lost>>

\* The message itself is bridged, or has been backfilled.
BridgeMessage ==
    /\ ~ bridged
    /\ bridged' = TRUE
    /\ UNCHANGED <<madeAt, talkVars, worker, queue, reads, lost, rows, shown, own, soiled, lastApplied>>

-----------------------------------------------------------------------------
(* the portal's event loop: reactions from Matrix *)

\* HandleMatrixReaction: the row is bridgev2's, once Talk has accepted.
MatrixReact(r) ==
    /\ bridged /\ changes < MaxChanges
    /\ r[1] \in Linked /\ r \notin rows \cup shown
    /\ shown' = shown \cup {r}
    /\ \/ /\ Becomes(talk \cup {r})
          /\ rows' = rows \cup {r} /\ own' = own \cup {r}
          /\ madeAt' = [madeAt EXCEPT ![r] = reads]
          /\ UNCHANGED soiled
       \/ /\ Lossy
          /\ \/ Becomes(talk \cup {r})
             \/ UNCHANGED talkVars
          /\ soiled' = soiled \cup {r}
          /\ UNCHANGED <<rows, own, madeAt>>
    /\ UNCHANGED <<worker, queue, reads, lost, bridged, lastApplied>>

\* HandleMatrixReactionRemove: a 404 says that Talk no longer has the reaction,
\* which is as good.  The faulty variant reports it as a failure.
OnlyIfThere(r) == r \in talk
Removes(r) == TRUE

MatrixRemove(r) ==
    /\ bridged /\ changes < MaxChanges
    /\ r[1] \in Linked /\ r \in rows \cap shown
    /\ shown' = shown \ {r}
    /\ madeAt' = [madeAt EXCEPT ![r] = Never]
    /\ \/ /\ Becomes(talk \ {r})
          /\ rows' = IF Removes(r) THEN rows \ {r} ELSE rows
          /\ own' = IF Removes(r) THEN own \ {r} ELSE own
          /\ UNCHANGED soiled
       \/ /\ Lossy
          /\ \/ Becomes(talk \ {r})
             \/ UNCHANGED talkVars
          /\ soiled' = soiled \cup {r}
          /\ UNCHANGED <<rows, own>>
    /\ UNCHANGED <<worker, queue, reads, lost, bridged, lastApplied>>

Next ==
    \/ \E r \in Reaction : TalkChanges(r) \/ MatrixReact(r) \/ MatrixRemove(r)
    \/ LoseWebhook
    \/ \E w \in Workers : Take(w) \/ Read(w) \/ ReadFails(w) \/ Queue(w)
    \/ Apply
    \/ BridgeMessage

Spec == Init /\ [][Next]_vars

-----------------------------------------------------------------------------
\* Every variable has its type; only reactions the bridge shows have rows.
TypeOK ==
    /\ talk \subseteq Reaction
    /\ webhooks \in Nat /\ changes \in 0..MaxChanges
    /\ DOMAIN worker = Workers
    /\ \A w \in Workers : \/ worker[w] \in {Idle, Asking}
                          \/ worker[w].list \in List /\ worker[w] = Holding(worker[w].list)
    /\ queue \in Seq(List)
    /\ \A i \in DOMAIN queue : queue[i].list \subseteq Ghostable \X Emoji
    /\ bridged \in BOOLEAN
    /\ rows \subseteq Ghostable \X Emoji /\ shown \subseteq Ghostable \X Emoji
    /\ own \subseteq rows /\ soiled \subseteq Reaction
    /\ madeAt \in [Reaction -> Nat \cup {Never}]
    /\ reads \in Nat /\ lastApplied \in 0..reads
    /\ lost \in BOOLEAN

AtRest ==
    /\ webhooks = 0 /\ queue = <<>>
    /\ \A w \in Workers : worker[w] = Idle

\* webhook.go:415-418: whatever went wrong before, once all is quiet and the list
\* read last is also the one applied last, the rows are what Talk holds.  Lists
\* out of order, lost webhooks, failed reads and a missing message are made good
\* by the next list that gets through.
NewestListWins == AtRest /\ ~ lost /\ lastApplied = reads =>
    rows = talk \cap (Ghostable \X Emoji)

\* The room shows exactly the reactions that have a row, whatever order lists and
\* Matrix reactions come in, except where Talk's answer to Matrix was a failure
\* or got lost.  Otherwise a reaction could not be given again.
ShownAsRecorded == shown \ soiled = rows \ soiled

\* A reaction made in Matrix keeps the event its user sent, as far as lists go
\* that were read after it was made: an echo never redacts and re-sends it.
EchoLeavesOwnAlone ==
    [][\A r \in own \ own' :
          madeAt'[r] = Never \/ (queue # <<>> /\ Head(queue).number <= madeAt[r])]_vars
=============================================================================
