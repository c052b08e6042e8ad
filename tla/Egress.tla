------------------------------- MODULE Egress -------------------------------
(***************************************************************************)
(* What becomes of messages written in Matrix by one user                  *)
(* (src/pkg/connector/client.go and media.go, nctalk/files.go, chat.go):   *)
(* a text is posted, and posted again without its relation if Talk refuses *)
(* that; a file is put under a free name into the user's Nextcloud files,  *)
(* shared, and the message the share made looked up by its reference; for  *)
(* someone without an account the bot relays.  Each step is a request that *)
(* can fail, or be done and have its answer lost.                          *)
(* All files want one name; the n-th candidate for it is n.                *)
(* bridgev2 handles one thing at a time per room, Matrix message or echo,  *)
(* and bridges an echo unless the message's ID has a row.  What the user   *)
(* is told, bridge states, and captions are left out.                      *)
(***************************************************************************)
EXTENDS Integers, Sequences, FiniteSets

CONSTANTS
    Rooms,
    Events,        \* messages written in Matrix
    Room,          \* where each is written
    MayBe,         \* and what it may be
    Others,        \* files that the user's other clients create
    RelayUnlinked, \* relay_unlinked_users
    MaxAttempts,   \* of FreeFilePath
    Lookback,      \* referenceLookback
    MaxOthers,     \* bound on what others write
    Nobody, Someone

\* A reply is also what is written in a thread.
Kinds == {"text", "reply", "file", "relayed", "relayed file"}

ASSUME EgressAssumption ==
    /\ Room \in [Events -> Rooms] /\ MayBe \in [Events -> SUBSET Kinds]
    /\ RelayUnlinked \in BOOLEAN
    /\ MaxAttempts \in Nat \ {0} /\ {Lookback, MaxOthers} \subseteq Nat
    /\ Events \cap Others = {}
    /\ {Nobody, Someone} \cap (Events \cup Others) = {}

VARIABLES
    kind,      \* what each event is
    at,        \* how far each event has come
    name,      \* the name tried or taken for its file
    files,     \* Nextcloud: what is stored under each name
    chat,      \* Talk: the messages of each room, by who wrote them
    webhooks,  \* Talk: messages whose webhook is under way
    row,       \* bridgev2: the ID of an event's row
    bridged,   \* Matrix: messages of Talk that the room shows because of a webhook
    begun,     \* history: what was stored when an event's turn came
    clashes,   \* history: <<e, f>> if the file of e has overwritten f
    lost       \* history: events for which an answer was lost or the lookup failed

vars == <<kind, at, name, files, chat, webhooks, row, bridged, begun, clashes, lost>>
rest == <<begun, clashes, kind>>

Names == 1..MaxAttempts
NoRow == -1
ByReference == 0    \* makeRelayedMessageID: no ID of Talk's

Stored == {files[n] : n \in Names} \ {Nobody}

Init ==
    /\ kind \in [Events -> Kinds] /\ \A e \in Events : kind[e] \in MayBe[e]
    /\ at = [e \in Events |-> "waiting"]
    /\ name = [e \in Events |-> 1]
    /\ files \in [Names -> {Nobody} \cup Others]
    /\ \A m, n \in Names : files[m] = files[n] => m = n \/ files[m] = Nobody
    /\ chat = [r \in Rooms |-> <<>>]
    /\ webhooks = {}
    /\ row = [e \in Events |-> NoRow]
    /\ bridged = {}
    /\ begun = [e \in Events |-> {}]
    /\ clashes = {}
    /\ lost = {}

Ended(e) == at[e] \in {"sent", "failed"}
Busy(r) == \E e \in Events : Room[e] = r /\ at[e] # "waiting" /\ ~ Ended(e)

Goes(e, to) == at' = [at EXCEPT ![e] = to]
Posted(e) == chat' = [chat EXCEPT ![Room[e]] = Append(@, e)]
NextID(e) == Len(chat[Room[e]]) + 1
\* Talk tells the bot of every message but the bot's own.
Announced(e) == webhooks' = webhooks \cup {<<Room[e], NextID(e)>>}

-----------------------------------------------------------------------------
(* Talk, and the user's other clients *)

ByOthers == UNION {{<<r, i>> : i \in {j \in DOMAIN chat[r] : chat[r][j] = Someone}} : r \in Rooms}

OtherPosts(r) ==
    /\ Cardinality(ByOthers) < MaxOthers
    /\ chat' = [chat EXCEPT ![r] = Append(@, Someone)]
    /\ webhooks' = webhooks \cup {<<r, Len(chat[r]) + 1>>}
    /\ UNCHANGED <<at, name, files, row, bridged, lost, rest>>

OtherStores(f, n) ==
    /\ f \notin Stored /\ files[n] = Nobody
    /\ \A c \in clashes : c[2] # f
    /\ files' = [files EXCEPT ![n] = f]
    /\ UNCHANGED <<at, name, chat, webhooks, row, bridged, lost, rest>>

-----------------------------------------------------------------------------
(* HandleMatrixMessage *)

\* The room's turn comes to the event; some are refused at once.
FirstStep(e) ==
    CASE kind[e] \in {"text", "reply"} -> "sending"
      [] kind[e] = "file" -> "preparing"
      [] kind[e] = "relayed" /\ RelayUnlinked -> "relaying"
      [] OTHER -> "failed"

Start(e) ==
    /\ at[e] = "waiting" /\ ~ Busy(Room[e])
    /\ Goes(e, FirstStep(e))
    /\ begun' = [begun EXCEPT ![e] = Stored]
    /\ UNCHANGED <<kind, name, files, chat, webhooks, row, bridged, clashes, lost>>

\* A text that Talk has accepted: its row has the ID from the answer.
Accepted(e) ==
    /\ Posted(e) /\ Announced(e)
    /\ row' = [row EXCEPT ![e] = NextID(e)]
    /\ Goes(e, "sent")
    /\ UNCHANGED lost

\* Accepted, but the answer never came.
AcceptedUnheard(e) ==
    /\ Posted(e) /\ Announced(e)
    /\ lost' = lost \cup {e}
    /\ Goes(e, "failed")
    /\ UNCHANGED row

NotAccepted(e, to) ==
    /\ Goes(e, to)
    /\ UNCHANGED <<chat, webhooks, row, lost>>

\* sendToTalk: a relation that Talk does not accept is dropped, once.  The
\* faulty variant tries again whatever the error was.
RetryAlways(refused) == TRUE
Retry(refused) == refused

AfterError(e, refused) ==
    IF kind[e] = "reply" /\ Retry(refused) THEN "resending" ELSE "failed"

Send(e) ==
    /\ at[e] = "sending"
    /\ \/ Accepted(e)
       \/ /\ Posted(e) /\ Announced(e) /\ UNCHANGED row
          /\ lost' = lost \cup {e}
          /\ Goes(e, AfterError(e, FALSE))
       \/ \E refused \in BOOLEAN : NotAccepted(e, AfterError(e, refused))
    /\ UNCHANGED <<name, files, bridged, rest>>

Resend(e) ==
    /\ at[e] = "resending"
    /\ Accepted(e) \/ AcceptedUnheard(e) \/ NotAccepted(e, "failed")
    /\ UNCHANGED <<name, files, bridged, rest>>

\* relayMatrixMessage: the bot is not told the ID, and hears no echo.
Relay(e) ==
    /\ at[e] = "relaying"
    /\ \/ /\ Posted(e) /\ Goes(e, "sent")
          /\ row' = [row EXCEPT ![e] = ByReference]
          /\ UNCHANGED <<webhooks, lost>>
       \/ /\ Posted(e) /\ Goes(e, "failed")
          /\ lost' = lost \cup {e}
          /\ UNCHANGED <<webhooks, row>>
       \/ NotAccepted(e, "failed")
    /\ UNCHANGED <<name, files, bridged, rest>>

-----------------------------------------------------------------------------
(* handleMatrixMedia *)

\* The file is read from Matrix and the folder made.
Prepare(e) ==
    /\ at[e] = "preparing"
    /\ Goes(e, "probing") \/ Goes(e, "failed")
    /\ UNCHANGED <<name, files, chat, webhooks, row, bridged, lost, rest>>

\* FreeFilePath, one candidate.
OutOfNames(n) == n = MaxAttempts

\* FileExists: only a 404 means that the name is free.  The faulty variant takes
\* an error for one.
FreeUnlessSeen(taken, error) == error \/ ~ taken
Free(taken, error) == ~ error /\ ~ taken

Probe(e) ==
    /\ at[e] = "probing"
    /\ \E error \in BOOLEAN :
          LET taken == files[name[e]] # Nobody
          IN  \/ Free(taken, error) /\ Goes(e, "uploading") /\ UNCHANGED name
              \/ /\ ~ Free(taken, error)
                 /\ error \/ OutOfNames(name[e])
                 /\ Goes(e, "failed") /\ UNCHANGED name
              \/ /\ ~ Free(taken, error)
                 /\ ~ error /\ ~ OutOfNames(name[e])
                 /\ name' = [name EXCEPT ![e] = @ + 1]
                 /\ UNCHANGED at
    /\ UNCHANGED <<files, chat, webhooks, row, bridged, lost, rest>>

\* UploadFile overwrites.
Upload(e) ==
    /\ at[e] = "uploading"
    /\ \/ /\ files' = [files EXCEPT ![name[e]] = e]
          /\ clashes' = clashes \cup {<<e, f>> : f \in {files[name[e]]} \ {Nobody}}
          /\ Goes(e, "sharing") \/ Goes(e, "failed")
       \/ Goes(e, "failed") /\ UNCHANGED <<files, clashes>>
    /\ UNCHANGED <<kind, name, chat, webhooks, row, bridged, begun, lost>>

Share(e) ==
    /\ at[e] = "sharing"
    /\ \/ Posted(e) /\ Announced(e) /\ Goes(e, "looking") /\ UNCHANGED <<row, lost>>
       \/ AcceptedUnheard(e)
       \/ NotAccepted(e, "failed")
    /\ UNCHANGED <<name, files, bridged, rest>>

\* FindMessageByReference, among the newest messages.  The faulty variant takes
\* the newest one.
Recent(r) == {i \in DOMAIN chat[r] : i > Len(chat[r]) - Lookback}
TheNewest(e) == {Len(chat[Room[e]])}
Found(e) == {i \in Recent(Room[e]) : chat[Room[e]][i] = e}

LookUp(e) ==
    /\ at[e] = "looking"
    /\ Goes(e, "sent")
    /\ \/ \E i \in Found(e) : row' = [row EXCEPT ![e] = i] /\ UNCHANGED lost
       \/ /\ Found(e) = {}
          /\ row' = [row EXCEPT ![e] = ByReference] /\ UNCHANGED lost
       \/ /\ row' = [row EXCEPT ![e] = ByReference]
          /\ lost' = lost \cup {e}
    /\ UNCHANGED <<name, files, chat, webhooks, bridged, rest>>

-----------------------------------------------------------------------------
(* the echo *)

Recognised(m) == \E e \in Events : Room[e] = m[1] /\ row[e] = m[2]

Echo(m) ==
    /\ m \in webhooks /\ ~ Busy(m[1])
    /\ webhooks' = webhooks \ {m}
    /\ bridged' = IF Recognised(m) THEN bridged ELSE bridged \cup {m}
    /\ UNCHANGED <<at, name, files, chat, row, lost, rest>>

Handle(e) ==
    \/ Send(e) \/ Resend(e) \/ Relay(e)
    \/ Prepare(e) \/ Probe(e) \/ Upload(e) \/ Share(e) \/ LookUp(e)

Next ==
    \/ \E r \in Rooms : OtherPosts(r)
    \/ \E f \in Others, n \in Names : OtherStores(f, n)
    \/ \E e \in Events : Start(e) \/ Handle(e)
    \/ \E m \in webhooks : Echo(m)

Spec == Init /\ [][Next]_vars

-----------------------------------------------------------------------------
\* Every variable has its type; no name beyond the last candidate is tried.
TypeOK ==
    /\ kind \in [Events -> Kinds]
    /\ at \in [Events -> {"waiting", "sending", "resending", "relaying", "preparing",
                         "probing", "uploading", "sharing", "looking", "sent", "failed"}]
    /\ name \in [Events -> Names]
    /\ files \in [Names -> {Nobody} \cup Events \cup Others]
    /\ chat \in [Rooms -> Seq(Events \cup {Someone})]
    /\ \A m \in webhooks \cup bridged : m[1] \in Rooms /\ m[2] \in DOMAIN chat[m[1]]
    /\ row \in [Events -> Nat \cup {NoRow}]
    /\ begun \in [Events -> SUBSET (Events \cup Others)]
    /\ clashes \subseteq Events \X (Events \cup Others)
    /\ lost \subseteq Events

MessagesOf(e) == {i \in DOMAIN chat[Room[e]] : chat[Room[e]][i] = e}

\* What was written once in Matrix is in Talk once if it counts as sent, and not
\* at all if it failed, unless an answer was lost; no retry posts a second time.
PostedAsReported ==
    \A e \in Events :
        /\ Cardinality(MessagesOf(e)) <= 1
        /\ at[e] = "sent" => MessagesOf(e) # {}
        /\ at[e] = "failed" /\ e \notin lost => MessagesOf(e) = {}

\* README.md:222, client.go:509-511: once its webhook is handled, a message that
\* others wrote is in the room, and one that came from there is not shown again,
\* unless an answer was lost or too much was written before the lookup.
ShownOnce ==
    \A r \in Rooms : \A i \in DOMAIN chat[r] :
        LET w == chat[r][i]
        IN  /\ w = Someone => <<r, i>> \in webhooks \cup bridged
            /\ w # Someone /\ <<r, i>> \in bridged =>
                  w \in lost \/ (kind[w] = "file" /\ Len(chat[r]) - i >= Lookback)

\* media.go:236-237: a file that was there when a message's turn came is not
\* overwritten by it, whatever probes fail and whoever else stores files; only
\* one stored while the message was being handled can be.
OldFilesSurvive == \A c \in clashes : c[2] \notin begun[c[1]]
=============================================================================
