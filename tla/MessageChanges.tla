--------------------------- MODULE MessageChanges ---------------------------
(***************************************************************************)
(* One text message on its way through the bridge: it is posted, edited and*)
(* deleted on either side, and every change comes back from Talk as a bot  *)
(* webhook, also those the bridge made itself (src/pkg/connector/          *)
(* changes.go, modify.go, webhook.go and client.go).  Talk numbers every   *)
(* change with the ID of its system message; those IDs stand for the texts *)
(* here, so text n is what change n made of the message.                   *)
(* Webhooks may come in any order and reading a change may fail; orderly   *)
(* says that neither has happened.  The answer to a request of the bridge  *)
(* may be lost after Talk has done what was asked.                         *)
(* Between the workers and Matrix lies the event loop of the portal, which *)
(* is bridgev2's: it takes one event at a time, in the order they were     *)
(* queued, and it runs the Matrix-side handlers too.                       *)
(***************************************************************************)
EXTENDS Integers, Sequences

CONSTANTS
    MaxChanges,  \* bound on the changes of the message, its creation included
    Second,      \* the second Talk's clock shows at each change
    Workers,     \* goroutines draining the webhook queue (webhookWorkers)
    InOrder,     \* whether webhooks arrive in the order Talk sent them
    Naming,      \* whether Talk answers an edit with its system message
    Lossy        \* whether answers and reads may fail

ASSUME ChangesAssumption ==
    /\ MaxChanges \in Nat \ {0}
    /\ Second \in [1..MaxChanges -> Nat \ {0}]
    /\ \A m, n \in 1..MaxChanges : m <= n => Second[m] <= Second[n]
    /\ InOrder \in BOOLEAN
    /\ Naming \subseteq BOOLEAN
    /\ Lossy \in BOOLEAN

VARIABLES
    namesEdit, \* Talk: whether this server names the system message of an edit
    changes,  \* Talk: what was done to the message, in order
    sent,     \* webhooks that have not arrived
    working,  \* worker -> the webhook it processes, and the text it read for it
    portal,   \* the portal's queue of remote events
    row,      \* bridgev2's row of the message, NoRow if it has none
    text,     \* what the Matrix event of that row shows
    own,      \* history: the last edit or deletion from Matrix that Talk confirmed
    carried,  \* history: the text of the last edit carried over from Talk
    orderly   \* history: whether changes were queued in Talk's order, without gaps

talk == <<namesEdit, changes>>
matrix == <<row, text>>
history == <<own, carried, orderly>>
vars == <<namesEdit, changes, sent, working, portal, row, text, own, carried, orderly>>

Idle == [id |-> 0, read |-> 0]
NoRow == [exists |-> FALSE, echoID |-> 0, echoTS |-> 0]
NewRow == [NoRow EXCEPT !.exists = TRUE]

Init ==
    /\ namesEdit \in Naming
    /\ changes = <<>>
    /\ sent = {}
    /\ working = [w \in Workers |-> Idle]
    /\ portal = <<>>
    /\ row = NoRow
    /\ text = 0
    /\ own = 0
    /\ carried = 0
    /\ orderly = TRUE

-----------------------------------------------------------------------------
(* Talk *)

Latest == Len(changes)
Exists == Latest > 0 /\ changes[Latest] # "delete"

\* lastEditTimestamp of the message as change n left it; 0 if it was not edited.
EditedAt(n) == IF changes[n] = "edit" THEN Second[n] ELSE 0

\* The message is changed, and a webhook goes out.
Change(kind) ==
    /\ Latest < MaxChanges
    /\ IF kind = "create" THEN Latest = 0 ELSE Exists
    /\ changes' = Append(changes, kind)
    /\ sent' = sent \cup {Latest + 1}
    /\ UNCHANGED <<namesEdit, working, portal>>

\* A Talk user does it.
TalkChanges(kind) ==
    /\ Change(kind)
    /\ UNCHANGED <<matrix, history>>

-----------------------------------------------------------------------------
(* A webhook worker *)

\* One arrives, passes WebhookIngress and is taken by a worker.
Take(w) ==
    /\ working[w] = Idle
    /\ \E n \in sent :
          /\ InOrder => \A m \in sent : n <= m
          /\ working' = [working EXCEPT ![w] = [Idle EXCEPT !.id = n]]
          /\ sent' = sent \ {n}
    /\ UNCHANGED <<talk, portal, matrix, history>>

\* The text comes from the payload of a new message; a change is read back
\* through the chat API, which answers with the message as it stands by then.
TextFor(n) == IF changes[n] = "create" THEN n ELSE Latest

Read(w) ==
    LET n == working[w].id
    IN  /\ n # 0 /\ working[w].read = 0
        /\ working' = [working EXCEPT ![w].read = TextFor(n)]
        /\ UNCHANGED <<talk, sent, portal, matrix, history>>

\* GetMessage failed: the worker logs it and goes on, nothing tries again.
ReadFails(w) ==
    /\ Lossy
    /\ working[w].id # 0 /\ working[w].read = 0
    /\ changes[working[w].id] # "create"
    /\ working' = [working EXCEPT ![w] = Idle]
    /\ orderly' = FALSE
    /\ UNCHANGED <<talk, sent, portal, matrix, own, carried>>

\* QueueRemoteEvent.  It is in order if every webhook still on its way is of a
\* later change.
Underway == sent \cup ({working[w].id : w \in Workers} \ {0})

Queue(w) ==
    /\ working[w].read # 0
    /\ portal' = Append(portal, working[w])
    /\ working' = [working EXCEPT ![w] = Idle]
    /\ orderly' = (orderly /\ \A n \in Underway : working[w].id <= n)
    /\ UNCHANGED <<talk, sent, matrix, own, carried>>

-----------------------------------------------------------------------------
(* The portal's event loop, remote events *)

\* isEditEcho.  The faulty variants let the edit itself through, or drop every
\* edit once one has been made from Matrix.
IsEchoStrictly(evt) == row.echoID > 0 /\ evt.id < row.echoID
IsEchoForGood(evt) == row.echoID > 0 \/ row.echoTS > 0
IsEditEcho(evt) ==
    IF row.echoID > 0 THEN evt.id <= row.echoID
    ELSE row.echoTS > 0 /\ EditedAt(evt.read) > 0 /\ EditedAt(evt.read) <= row.echoTS

Arrives(kind) ==
    /\ portal # <<>>
    /\ changes[Head(portal).id] = kind
    /\ portal' = Tail(portal)
    /\ UNCHANGED <<talk, sent, working, own, orderly>>

\* A message that has a row is not bridged again.
BridgeCreate ==
    /\ Arrives("create")
    /\ UNCHANGED carried
    /\ \/ row.exists /\ UNCHANGED <<row, text>>
       \/ ~ row.exists /\ row' = NewRow /\ text' = Head(portal).read

\* convertTalkEdit: without a row there is nothing to edit.
BridgeEdit ==
    /\ Arrives("edit")
    /\ \/ ~ row.exists /\ UNCHANGED <<text, carried>>
       \/ row.exists /\ IsEditEcho(Head(portal)) /\ UNCHANGED <<text, carried>>
       \/ /\ row.exists /\ ~ IsEditEcho(Head(portal))
          /\ text' = Head(portal).read
          /\ carried' = Head(portal).read
    /\ UNCHANGED row

\* A removal redacts the Matrix event and drops the row, if there is one.
BridgeRemove ==
    /\ Arrives("delete")
    /\ row' = NoRow /\ text' = 0
    /\ UNCHANGED carried

-----------------------------------------------------------------------------
(* The portal's event loop, from Matrix *)

\* HandleMatrixMessage: Talk's ID becomes the row, unless the answer is lost: the
\* user's Matrix event then has none, and the webhook shows the message again.
MatrixSend ==
    /\ Change("create")
    /\ \/ row' = NewRow /\ text' = 1
       \/ Lossy /\ UNCHANGED <<row, text>>
    /\ UNCHANGED history

\* recordEditEcho, saved with the row by bridgev2.  The faulty variant saves
\* nothing.
WithoutEcho(n) == row
WithEcho(n) ==
    [row EXCEPT !.echoID = IF namesEdit THEN n ELSE @, !.echoTS = Second[n]]

\* HandleMatrixEdit: the Matrix event shows the new text at once.
MatrixEdit ==
    LET n == Latest + 1
    IN  /\ row.exists
        /\ Change("edit")
        /\ text' = n
        /\ \/ row' = WithEcho(n) /\ own' = n
           \/ Lossy /\ UNCHANGED <<row, own>>
        /\ UNCHANGED <<carried, orderly>>

\* HandleMatrixMessageRemove: the Matrix event is redacted already; bridgev2
\* drops the row when Talk has agreed.
MatrixDelete ==
    /\ row.exists
    /\ Change("delete")
    /\ \/ row' = NoRow /\ text' = 0 /\ own' = Latest + 1
       \/ Lossy /\ UNCHANGED <<row, text, own>>
    /\ UNCHANGED <<carried, orderly>>

Next ==
    \/ \E kind \in {"create", "edit", "delete"} : TalkChanges(kind)
    \/ \E w \in Workers : Take(w) \/ Read(w) \/ ReadFails(w) \/ Queue(w)
    \/ BridgeCreate \/ BridgeEdit \/ BridgeRemove
    \/ MatrixSend \/ MatrixEdit \/ MatrixDelete

Spec == Init /\ [][Next]_vars

-----------------------------------------------------------------------------
Ids == 1..MaxChanges
Drained == Underway = {} /\ portal = <<>>
Consistent == (row.exists <=> Exists) /\ (Exists => text = Latest)

\* Every variable has its type; the echo kept with a row is the ID of an edit.
TypeOK ==
    /\ namesEdit \in BOOLEAN
    /\ changes \in Seq({"create", "edit", "delete"}) /\ Latest <= MaxChanges
    /\ sent \subseteq 1..Latest
    /\ working \in [Workers -> [id : 0..MaxChanges, read : 0..MaxChanges]]
    /\ portal \in Seq([id : Ids, read : Ids])
    /\ row \in [exists : BOOLEAN, echoID : 0..MaxChanges,
                echoTS : {0} \cup {Second[n] : n \in Ids}]
    /\ row.echoID # 0 => row.echoID <= Latest /\ changes[row.echoID] = "edit"
    /\ text \in 0..Latest
    /\ own \in 0..Latest
    /\ carried \in 0..Latest
    /\ orderly \in BOOLEAN

\* Once every webhook has been worked off, in order, Matrix has the message
\* exactly if Talk has it, and with the text Talk has: edits and deletions from
\* both sides, echoes that come late and lost answers leave that row right.  The
\* event of a send whose answer was lost has no row and is not meant.
DrainedIsConsistent == Drained /\ orderly => Consistent

\* What a Matrix user has edited never goes back to an older text while Talk has
\* the message, whatever is still on its way and in whatever order it arrives.
OwnEditNeverUndone == Exists /\ row.exists => text >= own

\* changes.go:179-184: an edit made from Matrix is not carried back into Matrix
\* as a second edit, neither from its own webhook nor because the webhook of an
\* older edit is answered with the text it wrote, while Talk has the message.
EchoIsNotBridged == Exists /\ own # 0 => carried # own

-----------------------------------------------------------------------------
\* webhook.go:47-48 "Ordering does not depend on this": with several workers the
\* message still ends as it is in Talk.
WorkersKeepOrder == Drained => Consistent
=============================================================================
