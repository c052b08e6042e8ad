----------------------------- MODULE EgressProofs -----------------------------
(***************************************************************************)
(* A message from Matrix is in Talk as often as was reported, is shown     *)
(* once, and its file overwrites nothing that was there before, for any    *)
(* rooms, messages, files and bounds: proofs about Egress.                 *)
(***************************************************************************)
EXTENDS Egress, FiniteSetTheorems, TLAPS

Unposted ==
    {"waiting", "sending", "resending", "relaying", "preparing", "probing", "uploading", "sharing"}
AtStages == Unposted \cup {"looking", "sent", "failed"}

EventTypes ==
    /\ kind \in [Events -> Kinds]
    /\ at \in [Events -> AtStages]
    /\ row \in [Events -> Nat \cup {NoRow}]
    /\ lost \subseteq Events

\* Each handler only leads to stages of its own.
StageFitsKind ==
    \A e \in Events :
        /\ at[e] \in {"sending", "resending"} => kind[e] \in {"text", "reply"}
        /\ at[e] = "relaying" => kind[e] = "relayed"
        /\ at[e] \in {"preparing", "probing", "uploading", "sharing", "looking"} => kind[e] = "file"

EventInv == EventTypes /\ StageFitsKind

-----------------------------------------------------------------------------
(* Files *)

FileTypes ==
    /\ name \in [Events -> Names]
    /\ files \in [Names -> {Nobody} \cup Events \cup Others]
    /\ begun \in [Events -> SUBSET (Events \cup Others)]
    /\ clashes \subseteq Events \X (Events \cup Others)

\* A file that has been stored is there, or was overwritten.
WasStored(f) == f \in Stored \/ \E c \in clashes : c[2] = f

\* A message's file is stored, and overwrites another, by its upload and by
\* nothing else.
AfterUpload == {"sharing", "looking", "sent", "failed"}
StoredByUpload ==
    /\ \A e \in Events : WasStored(e) => at[e] \in AfterUpload
    /\ \A c \in clashes : at[c[1]] \in AfterUpload

BegunWereStored == \A e \in Events : \A f \in begun[e] : WasStored(f)

\* The name was free when it was probed: what is there now came later.
ProbedWasFree ==
    \A e \in Events : at[e] = "uploading" => files[name[e]] \notin begun[e]

FileInv == FileTypes /\ StoredByUpload /\ BegunWereStored /\ ProbedWasFree /\ OldFilesSurvive

-----------------------------------------------------------------------------
(* Messages *)

Single(S) == \E x \in S : S = {x}

MessageTypes ==
    /\ chat \in [Rooms -> Seq(Events \cup {Someone})]
    /\ \A m \in webhooks \cup bridged :
          m \in Rooms \X Nat /\ m[2] \in DOMAIN chat[m[1]]
    /\ \A r \in Rooms : \A i \in DOMAIN chat[r] : chat[r][i] # Someone => Room[chat[r][i]] = r

\* A message is posted by the last request that is made for it, and only when the
\* answer is lost does nobody know.
PostedOnce ==
    \A e \in Events :
        /\ at[e] \in Unposted => MessagesOf(e) = {}
        /\ at[e] \in {"looking", "sent"} => Single(MessagesOf(e))
        /\ at[e] = "failed" => MessagesOf(e) = {} \/ (Single(MessagesOf(e)) /\ e \in lost)

\* A row that has an ID of Talk's has the one of its own message.
RowIsOwn ==
    \A e \in Events : row[e] \in Nat \ {ByReference} =>
        row[e] \in DOMAIN chat[Room[e]] /\ chat[Room[e]][row[e]] = e

\* What is sent has that ID, or its message has none, or could not be found.
SentHasRow ==
    \A e \in Events : at[e] = "sent" =>
        \/ row[e] \in Nat \ {ByReference}
        \/ kind[e] = "relayed" \/ e \in lost
        \/ kind[e] = "file" /\ \A i \in MessagesOf(e) : Len(chat[Room[e]]) - i >= Lookback

\* The bot's own messages are not announced to it.
RelayedIsNotHeard ==
    \A m \in webhooks \cup bridged :
        LET w == chat[m[1]][m[2]] IN w # Someone => kind[w] # "relayed"

MessageInv ==
    MessageTypes /\ PostedOnce /\ RowIsOwn /\ SentHasRow /\ RelayedIsNotHeard /\ ShownOnce

EgressInv == EventInv /\ FileInv /\ MessageInv

-----------------------------------------------------------------------------
(* An event goes on *)

LEMMA Sizes ==
    /\ MaxAttempts \in Nat \ {0} /\ Lookback \in Nat
    /\ Room \in [Events -> Rooms]
    /\ Events \cap Others = {}
    /\ Nobody \notin Events /\ Nobody \notin Others /\ Someone \notin Events
BY EgressAssumption

LEMMA EventGoes ==
    ASSUME EventInv, NEW e \in Events, NEW to \in AtStages, Goes(e, to), kind' = kind,
           row' \in [Events -> Nat \cup {NoRow}], lost' \subseteq Events,
           to \in {"sending", "resending"} => kind[e] \in {"text", "reply"},
           to = "relaying" => kind[e] = "relayed",
           to \in {"preparing", "probing", "uploading", "sharing", "looking"} => kind[e] = "file"
    PROVE  EventInv'
BY DEF EventInv, EventTypes, StageFitsKind, Goes

\* What has been stored stays so.
LEMMA StoredStays ==
    ASSUME UNCHANGED files, UNCHANGED clashes, NEW f
    PROVE  WasStored(f)' <=> WasStored(f)
BY DEF WasStored, Stored

\* Nobody's files change; an upload begins only at a free name.
LEMMA FilesUntouched ==
    ASSUME FileInv, UNCHANGED <<files, clashes, begun>>, name' \in [Events -> Names],
           \A e \in Events :
              /\ at[e] \in AfterUpload => at'[e] \in AfterUpload
              /\ at'[e] = "uploading" =>
                    \/ at[e] = "uploading" /\ name'[e] = name[e]
                    \/ files[name'[e]] = Nobody
    PROVE  FileInv'
<1> USE DEF FileInv
<1>1. FileTypes'
  BY DEF FileTypes
<1>2. StoredByUpload'
  BY StoredStays DEF StoredByUpload, FileTypes
<1>3. BegunWereStored' /\ OldFilesSurvive'
  BY StoredStays DEF BegunWereStored, OldFilesSurvive
<1>4. ProbedWasFree'
  <2>1. \A e \in Events : Nobody \notin begun[e]
    BY Sizes DEF FileTypes
  <2>2. QED BY <2>1 DEF ProbedWasFree
<1>5. QED BY <1>1, <1>2, <1>3, <1>4

\* The turn of an event comes: what is stored by then was stored.
LEMMA StartFiles ==
    ASSUME FileInv, EventTypes, NEW e \in Events, Start(e)
    PROVE  FileInv'
<1> USE DEF FileInv, Start
<1>1. /\ UNCHANGED <<files, clashes, name>> /\ begun' = [begun EXCEPT ![e] = Stored]
      /\ at[e] = "waiting" /\ at' = [at EXCEPT ![e] = FirstStep(e)]
  BY DEF Goes
<1>2. Stored \subseteq Events \cup Others
  BY DEF Stored, FileTypes
<1>3. FileTypes'
  BY <1>1, <1>2 DEF FileTypes
<1>4. StoredByUpload'
  BY <1>1, StoredStays DEF StoredByUpload, AfterUpload, FileTypes, EventTypes
<1>5. BegunWereStored'
  <2> SUFFICES ASSUME NEW d \in Events, NEW f \in begun'[d] PROVE WasStored(f)
    BY <1>1, StoredStays DEF BegunWereStored
  <2>1. CASE d = e
    BY <1>1, <2>1 DEF WasStored, FileTypes
  <2>2. CASE d # e
    BY <1>1, <2>2 DEF BegunWereStored, FileTypes
  <2>3. QED BY <2>1, <2>2
<1>6. ProbedWasFree'
  BY <1>1 DEF ProbedWasFree, FirstStep, EventTypes, FileTypes
<1>7. OldFilesSurvive'
  <2> SUFFICES ASSUME NEW c \in clashes PROVE c[2] \notin begun'[c[1]]
    BY <1>1 DEF OldFilesSurvive
  <2>1. c[1] \in Events /\ c[2] \notin begun[c[1]]
    BY DEF FileTypes, OldFilesSurvive
  <2>2. c[1] # e
    BY <1>1 DEF StoredByUpload, AfterUpload
  <2>3. QED BY <1>1, <2>1, <2>2 DEF FileTypes
<1>8. QED BY <1>3, <1>4, <1>5, <1>6, <1>7

LEMMA OtherStoresFiles ==
    ASSUME FileInv, NEW f \in Others, NEW n \in Names, OtherStores(f, n)
    PROVE  FileInv'
<1> USE DEF FileInv, OtherStores
<1>1. /\ ~ WasStored(f) /\ files[n] = Nobody /\ f \notin Events /\ f # Nobody
      /\ files' = [files EXCEPT ![n] = f]
      /\ UNCHANGED <<clashes, begun, name, at>>
  BY Sizes DEF WasStored, rest
<1>2. FileTypes'
  BY <1>1 DEF FileTypes
<1>3. \A g : WasStored(g)' <=> g = f \/ WasStored(g)
  BY <1>1 DEF WasStored, Stored, FileTypes
<1>4. StoredByUpload' /\ BegunWereStored' /\ OldFilesSurvive'
  BY <1>1, <1>3 DEF StoredByUpload, BegunWereStored, OldFilesSurvive
<1>5. ProbedWasFree'
  BY <1>1 DEF ProbedWasFree, BegunWereStored, FileTypes
<1>6. QED BY <1>2, <1>4, <1>5

LEMMA UploadFiles ==
    ASSUME FileInv, EventTypes, NEW e \in Events, Upload(e)
    PROVE  FileInv'
<1> USE DEF FileInv
<1>1. /\ at[e] = "uploading" /\ ~ WasStored(e) /\ \A c \in clashes : c[1] # e
      /\ UNCHANGED <<begun, name>>
      /\ at' \in {[at EXCEPT ![e] = "sharing"], [at EXCEPT ![e] = "failed"]}
  BY DEF Upload, Goes, StoredByUpload, AfterUpload
<1>2. /\ \A d \in Events : d # e => at'[d] = at[d]
      /\ at'[e] \in AfterUpload
  BY <1>1 DEF EventTypes, AfterUpload
<1>3. CASE UNCHANGED <<files, clashes>>
  <2>1. \A d \in Events : /\ at[d] \in AfterUpload => at'[d] \in AfterUpload
                          /\ at'[d] = "uploading" => at[d] = "uploading" /\ name'[d] = name[d]
    BY <1>1, <1>2 DEF AfterUpload
  <2>2. name' \in [Events -> Names]
    BY <1>1 DEF FileTypes
  <2>3. QED BY <1>1, <1>3, <2>1, <2>2, FilesUntouched
<1>4. CASE /\ files' = [files EXCEPT ![name[e]] = e]
           /\ clashes' = clashes \cup {<<e, f>> : f \in {files[name[e]]} \ {Nobody}}
  <2> DEFINE old == files[name[e]]
  <2>1. /\ name[e] \in Names /\ files' = [files EXCEPT ![name[e]] = e]
        /\ old \in {Nobody} \cup Events \cup Others /\ e # Nobody
    BY <1>4, Sizes DEF FileTypes
  <2>2. /\ old = Nobody => clashes' = clashes
        /\ old # Nobody => clashes' = clashes \cup {<<e, old>>}
    BY <1>4
  <2>3. \A f \in Events \cup Others : WasStored(f)' <=> f = e \/ WasStored(f)
    <3>1. TAKE f \in Events \cup Others
    <3>2. f # Nobody
      BY Sizes
    <3>3. ASSUME WasStored(f) PROVE WasStored(f)'
      <4>1. CASE \E c \in clashes : c[2] = f
        BY <2>2, <4>1 DEF WasStored
      <4>2. CASE \E n \in Names : files[n] = f
        <5>1. PICK n \in Names : files[n] = f
          BY <4>2
        <5>2. CASE n = name[e]
          <6>1. old = f /\ <<e, old>> \in clashes'
            BY <2>2, <3>2, <5>1, <5>2
          <6>2. <<e, old>>[2] = f
            BY <6>1
          <6> HIDE DEF old
          <6>3. QED BY <6>1, <6>2 DEF WasStored
        <5>3. CASE n # name[e]
          BY <2>1, <3>2, <5>1, <5>3 DEF WasStored, Stored, FileTypes
        <5>4. QED BY <5>2, <5>3
      <4>3. QED BY <3>3, <4>1, <4>2 DEF WasStored, Stored
    <3>4. WasStored(e)'
      BY <2>1 DEF WasStored, Stored, FileTypes
    <3>5. ASSUME WasStored(f)', f # e PROVE WasStored(f)
      <4>1. CASE \E c \in clashes' : c[2] = f
        <5>1. PICK c \in clashes' : c[2] = f
          BY <4>1
        <5>2. CASE c \in clashes
          BY <5>1, <5>2 DEF WasStored
        <5>3. CASE c = <<e, old>>
          BY <2>1, <3>2, <5>1, <5>3 DEF WasStored, Stored
        <5>4. QED BY <2>2, <5>1, <5>2, <5>3
      <4>2. CASE \E n \in Names : files'[n] = f
        BY <2>1, <3>2, <3>5, <4>2 DEF WasStored, Stored, FileTypes
      <4>3. QED BY <3>5, <4>1, <4>2 DEF WasStored, Stored
    <3>6. QED BY <3>3, <3>4, <3>5
  <2>4. FileTypes'
    BY <1>1, <2>1, <2>2 DEF FileTypes
  <2>5. StoredByUpload'
    <3>1. \A d \in Events : WasStored(d)' => at'[d] \in AfterUpload
      BY <1>2, <2>3 DEF StoredByUpload
    <3>2. \A c \in clashes' : at'[c[1]] \in AfterUpload
      BY <1>2, <2>2 DEF StoredByUpload, FileTypes
    <3>3. QED BY <3>1, <3>2 DEF StoredByUpload
  <2>6. BegunWereStored'
    BY <1>1, <2>3 DEF BegunWereStored, FileTypes
  <2>7. ProbedWasFree'
    <3> SUFFICES ASSUME NEW d \in Events, at'[d] = "uploading"
                 PROVE  files'[name[d]] \notin begun[d]
      BY <1>1 DEF ProbedWasFree
    <3>1. d # e /\ at[d] = "uploading"
      BY <1>2 DEF AfterUpload
    <3>2. e \notin begun[d] /\ files[name[d]] \notin begun[d] /\ name[d] \in Names
      BY <1>1, <3>1 DEF BegunWereStored, ProbedWasFree, FileTypes
    <3>3. QED BY <2>1, <3>2 DEF FileTypes
  <2>8. OldFilesSurvive'
    BY <1>1, <2>2 DEF OldFilesSurvive, ProbedWasFree
  <2>9. QED BY <2>4, <2>5, <2>6, <2>7, <2>8
<1>5. QED BY <1>3, <1>4 DEF Upload

-----------------------------------------------------------------------------
(* Messages *)

\* A message is added at the end of a room, and nothing else moves.
LEMMA ChatGrows ==
    ASSUME MessageTypes, NEW r \in Rooms, NEW x \in Events \cup {Someone},
           chat' = [chat EXCEPT ![r] = Append(@, x)]
    PROVE  /\ chat' \in [Rooms -> Seq(Events \cup {Someone})]
           /\ Len(chat[r]) \in Nat /\ Len(chat'[r]) = Len(chat[r]) + 1
           /\ DOMAIN chat[r] = 1..Len(chat[r]) /\ DOMAIN chat'[r] = 1..(Len(chat[r]) + 1)
           /\ chat'[r][Len(chat[r]) + 1] = x
           /\ \A i \in DOMAIN chat[r] : chat'[r][i] = chat[r][i]
           /\ \A s \in Rooms : s # r => chat'[s] = chat[s]
<1>1. chat[r] \in Seq(Events \cup {Someone})
  BY DEF MessageTypes
<1>2. chat'[r] = Append(chat[r], x) /\ \A s \in Rooms : s # r => chat'[s] = chat[s]
  BY DEF MessageTypes
<1>3. chat' \in [Rooms -> Seq(Events \cup {Someone})]
  BY <1>1 DEF MessageTypes
<1>4. QED BY <1>1, <1>2, <1>3

LEMMA MessagesGrow ==
    ASSUME MessageTypes, NEW r \in Rooms, NEW x \in Events \cup {Someone},
           chat' = [chat EXCEPT ![r] = Append(@, x)], NEW e \in Events
    PROVE  /\ e # x => MessagesOf(e)' = MessagesOf(e)
           /\ e = x /\ Room[e] = r /\ MessagesOf(e) = {} =>
                 MessagesOf(e)' = {Len(chat[r]) + 1}
           /\ Len(chat[Room[e]]) \in Nat /\ Len(chat[Room[e]])' >= Len(chat[Room[e]])
           /\ DOMAIN chat[Room[e]] = 1..Len(chat[Room[e]])
<1>1. Room[e] \in Rooms /\ e # Someone
  BY Sizes
<1>2. chat[Room[e]] \in Seq(Events \cup {Someone})
  BY <1>1 DEF MessageTypes
<1>3. CASE Room[e] # r
  <2>1. chat'[Room[e]] = chat[Room[e]]
    BY <1>1, <1>3, ChatGrows
  <2>2. e # x => MessagesOf(e)' = MessagesOf(e)
    BY <2>1 DEF MessagesOf
  <2>3. QED BY <1>2, <1>3, <2>1, <2>2
<1>4. CASE Room[e] = r
  <2> DEFINE n == Len(chat[r])
  <2>1. /\ n \in Nat /\ Len(chat'[r]) = n + 1
        /\ DOMAIN chat[r] = 1..n /\ DOMAIN chat'[r] = 1..(n + 1)
        /\ chat'[r][n + 1] = x
        /\ \A i \in 1..n : chat'[r][i] = chat[r][i]
    BY ChatGrows
  <2> HIDE DEF n
  <2>2. MessagesOf(e)' = {i \in 1..(n + 1) : chat'[r][i] = e}
    BY <1>4, <2>1 DEF MessagesOf
  <2>3. MessagesOf(e) = {i \in 1..n : chat[r][i] = e}
    BY <1>4, <2>1 DEF MessagesOf
  <2>4. e # x => MessagesOf(e)' = MessagesOf(e)
    BY <2>1, <2>2, <2>3
  <2>5. e = x /\ MessagesOf(e) = {} => MessagesOf(e)' = {n + 1}
    BY <2>1, <2>2, <2>3
  <2>6. QED BY <1>4, <2>1, <2>4, <2>5 DEF n
<1>5. QED BY <1>3, <1>4

\* A message of the room grows older; the webhooks of it are of what it was.
LEMMA OthersMessages ==
    ASSUME MessageInv, EventTypes, NEW r \in Rooms, NEW x \in Events \cup {Someone},
           x # Someone => Room[x] = r,
           chat' = [chat EXCEPT ![r] = Append(@, x)], kind' = kind, bridged' = bridged,
           webhooks' \in {webhooks, webhooks \cup {<<r, Len(chat[r]) + 1>>}},
           x = Someone => <<r, Len(chat[r]) + 1>> \in webhooks',
           x # Someone /\ kind[x] = "relayed" => webhooks' = webhooks,
           lost \subseteq lost'
    PROVE  MessageTypes' /\ RelayedIsNotHeard' /\ ShownOnce'
<1> DEFINE n == Len(chat[r]) + 1
<1>1. /\ chat' \in [Rooms -> Seq(Events \cup {Someone})]
      /\ n \in Nat \ {0} /\ DOMAIN chat[r] = 1..(n - 1) /\ DOMAIN chat'[r] = 1..n
      /\ n \notin DOMAIN chat[r]
      /\ chat'[r][n] = x
      /\ \A i \in DOMAIN chat[r] : chat'[r][i] = chat[r][i]
      /\ \A s \in Rooms : s # r => chat'[s] = chat[s]
      /\ Len(chat'[r]) = Len(chat[r]) + 1 /\ Len(chat[r]) \in Nat
  <2>1. MessageTypes
    BY DEF MessageInv
  <2>2. /\ chat' \in [Rooms -> Seq(Events \cup {Someone})]
        /\ Len(chat[r]) \in Nat /\ Len(chat'[r]) = Len(chat[r]) + 1
        /\ DOMAIN chat[r] = 1..Len(chat[r]) /\ DOMAIN chat'[r] = 1..n
        /\ chat'[r][n] = x
        /\ \A i \in DOMAIN chat[r] : chat'[r][i] = chat[r][i]
        /\ \A s \in Rooms : s # r => chat'[s] = chat[s]
    BY <2>1, ChatGrows
  <2>3. n \in Nat \ {0} /\ n - 1 = Len(chat[r]) /\ n \notin 1..Len(chat[r])
    BY <2>2
  <2> HIDE DEF n
  <2>4. QED BY <2>2, <2>3
<1>2. /\ webhooks' \in {webhooks, webhooks \cup {<<r, n>>}}
      /\ x = Someone => <<r, n>> \in webhooks'
      /\ x # Someone /\ kind[x] = "relayed" => webhooks' = webhooks
  OBVIOUS
<1> HIDE DEF n
<1>3. \A s \in Rooms : \A i \in DOMAIN chat[s] : i \in DOMAIN chat'[s] /\ chat'[s][i] = chat[s][i]
  BY <1>1
<1>4. \A m \in webhooks' \cup bridged' :
         /\ m \in Rooms \X Nat /\ m[2] \in DOMAIN chat'[m[1]]
         /\ m = <<r, n>> \/ (m \in webhooks \cup bridged /\ m[2] \in DOMAIN chat[m[1]])
  <2>1. TAKE m \in webhooks' \cup bridged'
  <2>2. CASE m \in webhooks \cup bridged
    BY <1>3, <2>2 DEF MessageInv, MessageTypes
  <2>3. CASE m = <<r, n>>
    BY <1>1, <2>3
  <2>4. QED BY <1>2, <2>2, <2>3
<1>5. \A s \in Rooms : \A i \in DOMAIN chat'[s] : i \in DOMAIN chat[s] \/ (s = r /\ i = n)
  BY <1>1
<1>6. MessageTypes'
  <2>1. ASSUME NEW s \in Rooms, NEW i \in DOMAIN chat'[s], chat'[s][i] # Someone
        PROVE  Room[chat'[s][i]] = s
    BY <1>1, <1>3, <1>5, <2>1 DEF MessageInv, MessageTypes
  <2>2. QED BY <1>1, <1>4, <2>1 DEF MessageTypes
<1>7. RelayedIsNotHeard'
  <2> SUFFICES ASSUME NEW m \in webhooks' \cup bridged', chat'[m[1]][m[2]] # Someone
               PROVE  kind[chat'[m[1]][m[2]]] # "relayed"
    BY DEF RelayedIsNotHeard
  <2>1. CASE m \in webhooks \cup bridged /\ m[2] \in DOMAIN chat[m[1]]
    BY <1>3, <1>4, <2>1 DEF MessageInv, RelayedIsNotHeard
  <2>2. CASE m = <<r, n>> /\ m \notin webhooks \cup bridged
    BY <1>1, <1>2, <2>2
  <2>3. CASE m = <<r, n>> /\ m \in webhooks \cup bridged
    BY <1>1, <2>3 DEF MessageInv, MessageTypes
  <2>4. QED BY <1>4, <2>1, <2>2, <2>3
<1>8. ShownOnce'
  <2> SUFFICES ASSUME NEW s \in Rooms, NEW i \in DOMAIN chat'[s]
               PROVE  /\ chat'[s][i] = Someone => <<s, i>> \in webhooks' \cup bridged
                      /\ chat'[s][i] # Someone /\ <<s, i>> \in bridged =>
                            \/ chat'[s][i] \in lost'
                            \/ (kind[chat'[s][i]] = "file" /\ Len(chat'[s]) - i >= Lookback)
    BY DEF ShownOnce
  <2>1. CASE i \in DOMAIN chat[s]
    <3>1. chat'[s][i] = chat[s][i] /\ i \in Nat /\ Len(chat[s]) \in Nat
          /\ Len(chat'[s]) \in Nat /\ Len(chat'[s]) >= Len(chat[s])
      <4>1. chat[s] \in Seq(Events \cup {Someone})
        BY DEF MessageInv, MessageTypes
      <4>2. QED BY <1>1, <1>3, <2>1, <4>1
    <3>2. /\ chat[s][i] = Someone => <<s, i>> \in webhooks \cup bridged
          /\ chat[s][i] # Someone /\ <<s, i>> \in bridged =>
                \/ chat[s][i] \in lost
                \/ (kind[chat[s][i]] = "file" /\ Len(chat[s]) - i >= Lookback)
      BY <2>1 DEF MessageInv, ShownOnce
    <3>3. Len(chat[s]) - i >= Lookback => Len(chat'[s]) - i >= Lookback
      BY <3>1, Sizes
    <3>4. QED BY <1>2, <3>1, <3>2, <3>3
  <2>2. CASE s = r /\ i = n
    <3>1. <<r, n>> \notin bridged
      BY <1>1 DEF MessageInv, MessageTypes
    <3>2. QED BY <1>1, <1>2, <2>2, <3>1
  <2>3. QED BY <1>5, <2>1, <2>2
<1>9. QED BY <1>6, <1>7, <1>8

\* Someone else's message.
LEMMA OtherPostsMessages ==
    ASSUME MessageInv, EventTypes, NEW r \in Rooms, OtherPosts(r)
    PROVE  MessageInv'
<1> USE DEF MessageInv
<1>1. /\ chat' = [chat EXCEPT ![r] = Append(@, Someone)]
      /\ webhooks' = webhooks \cup {<<r, Len(chat[r]) + 1>>}
      /\ UNCHANGED <<kind, at, row, bridged, lost>>
  BY DEF OtherPosts, rest
<1>2. <<r, Len(chat[r]) + 1>> \in webhooks'
  BY <1>1
<1>3. MessageTypes' /\ RelayedIsNotHeard' /\ ShownOnce'
  <2> HIDE DEF MessageInv
  <2>1. QED BY <1>1, <1>2, OthersMessages
<1>4. \A e \in Events : /\ MessagesOf(e)' = MessagesOf(e)
                        /\ Len(chat[Room[e]]) \in Nat /\ Len(chat[Room[e]])' >= Len(chat[Room[e]])
                        /\ DOMAIN chat[Room[e]] = 1..Len(chat[Room[e]])
  BY <1>1, Sizes, MessagesGrow
<1>5. PostedOnce'
  BY <1>1, <1>4 DEF PostedOnce, Single
<1>6. RowIsOwn'
  <2> SUFFICES ASSUME NEW e \in Events, row[e] \in Nat \ {ByReference}
               PROVE  row[e] \in DOMAIN chat'[Room[e]] /\ chat'[Room[e]][row[e]] = e
    BY <1>1 DEF RowIsOwn
  <2>1. row[e] \in MessagesOf(e)
    BY DEF RowIsOwn, MessagesOf
  <2>2. row[e] \in MessagesOf(e)'
    BY <1>4, <2>1
  <2>3. QED BY <2>2, <1>1 DEF MessagesOf
<1>7. SentHasRow'
  <2> SUFFICES ASSUME NEW e \in Events, at[e] = "sent"
               PROVE  \/ row[e] \in Nat \ {ByReference}
                      \/ kind[e] = "relayed" \/ e \in lost
                      \/ /\ kind[e] = "file"
                         /\ \A i \in MessagesOf(e)' : Len(chat[Room[e]])' - i >= Lookback
    BY <1>1 DEF SentHasRow
  <2>1. CASE kind[e] = "file" /\ \A i \in MessagesOf(e) : Len(chat[Room[e]]) - i >= Lookback
    <3>1. \A i \in MessagesOf(e) : i \in Nat
      BY <1>4 DEF MessagesOf
    <3>2. Len(chat[Room[e]])' \in Nat
      <4>1. Room[e] \in Rooms /\ chat' \in [Rooms -> Seq(Events \cup {Someone})]
        BY <1>3, Sizes DEF MessageTypes
      <4>2. QED BY <4>1
    <3>3. QED BY <1>4, <2>1, <3>1, <3>2, Sizes
  <2>2. QED BY <2>1 DEF SentHasRow
<1>8. QED BY <1>3, <1>5, <1>6, <1>7

\* The request that posts an event's message.
LEMMA PostMessages ==
    ASSUME MessageInv, EventTypes, NEW e \in Events, Posted(e), at[e] \in Unposted,
           NEW to \in {"looking", "sent", "failed"}, Goes(e, to),
           kind' = kind, bridged' = bridged,
           Announced(e) \/ (webhooks' = webhooks /\ kind[e] = "relayed"),
           kind[e] = "relayed" => webhooks' = webhooks,
           \/ row' = row /\ to # "sent"
           \/ row' = [row EXCEPT ![e] = NextID(e)]
           \/ row' = [row EXCEPT ![e] = ByReference] /\ kind[e] = "relayed",
           lost' \in {lost, lost \cup {e}}, to = "failed" => e \in lost'
    PROVE  MessageInv'
<1> DEFINE r == Room[e]
           n == Len(chat[r]) + 1
<1>1. /\ r \in Rooms /\ e # Someone /\ chat' = [chat EXCEPT ![r] = Append(@, e)]
      /\ MessageTypes
  BY Sizes DEF Posted, MessageInv
<1>2. /\ n \in Nat \ {0} /\ n \in DOMAIN chat'[r] /\ chat'[r][n] = e
      /\ \A i \in DOMAIN chat[r] : i \in DOMAIN chat'[r] /\ chat'[r][i] = chat[r][i]
      /\ \A s \in Rooms : s # r => chat'[s] = chat[s]
  <2>1. /\ chat'[r][n] = e /\ Len(chat[r]) \in Nat /\ DOMAIN chat[r] = 1..Len(chat[r])
        /\ DOMAIN chat'[r] = 1..n
        /\ \A i \in DOMAIN chat[r] : chat'[r][i] = chat[r][i]
        /\ \A s \in Rooms : s # r => chat'[s] = chat[s]
    <3> HIDE DEF r
    <3>1. QED BY <1>1, ChatGrows
  <2>2. n \in Nat \ {0} /\ n \in 1..n /\ \A i \in 1..Len(chat[r]) : i \in 1..n
    BY <2>1
  <2> HIDE DEF n
  <2>3. QED BY <2>1, <2>2
<1>3. webhooks' \in {webhooks, webhooks \cup {<<r, n>>}}
  BY DEF Announced, NextID
<1>4. MessageTypes' /\ RelayedIsNotHeard' /\ ShownOnce'
  <2>1. lost \subseteq lost'
    OBVIOUS
  <2>2. QED BY <1>1, <1>3, <2>1, OthersMessages
<1>5. MessagesOf(e) = {}
  BY DEF MessageInv, PostedOnce
<1>6. MessagesOf(e)' = {n}
  BY <1>1, <1>5, MessagesGrow
<1>7. \A d \in Events : d # e =>
         /\ MessagesOf(d)' = MessagesOf(d)
         /\ Len(chat[Room[d]]) \in Nat /\ Len(chat[Room[d]])' >= Len(chat[Room[d]])
         /\ DOMAIN chat[Room[d]] = 1..Len(chat[Room[d]])
  BY <1>1, MessagesGrow
<1>8. /\ at'[e] = to /\ \A d \in Events : d # e => at'[d] = at[d] /\ row'[d] = row[d]
      /\ \A d \in Events : d # e => (d \in lost' <=> d \in lost)
      /\ row'[e] \in {row[e], n, ByReference}
      /\ to = "sent" => row'[e] = n \/ kind[e] = "relayed"
  BY DEF Goes, EventTypes, NextID
<1> HIDE DEF r, n
<1>9. PostedOnce'
  <2> SUFFICES ASSUME NEW d \in Events
               PROVE  /\ at'[d] \in Unposted => MessagesOf(d)' = {}
                      /\ at'[d] \in {"looking", "sent"} => Single(MessagesOf(d)')
                      /\ at'[d] = "failed" => MessagesOf(d)' = {}
                                              \/ (Single(MessagesOf(d)') /\ d \in lost')
    BY DEF PostedOnce, Single
  <2>1. CASE d = e
    BY <1>6, <1>8, <2>1 DEF Single, Unposted
  <2>2. CASE d # e
    BY <1>7, <1>8, <2>2 DEF MessageInv, PostedOnce
  <2>3. QED BY <2>1, <2>2
<1>10. RowIsOwn'
  <2> SUFFICES ASSUME NEW d \in Events, row'[d] \in Nat \ {ByReference}
               PROVE  row'[d] \in DOMAIN chat'[Room[d]] /\ chat'[Room[d]][row'[d]] = d
    BY DEF RowIsOwn
  <2>1. CASE d = e /\ row'[d] = n
    BY <1>2, <2>1 DEF r
  <2>2. CASE row'[d] = row[d]
    <3>1. row[d] \in MessagesOf(d)
      BY <2>2 DEF MessageInv, RowIsOwn, MessagesOf
    <3>2. d # e
      BY <1>5, <3>1
    <3>3. row[d] \in MessagesOf(d)'
      BY <1>7, <3>1, <3>2
    <3>4. QED BY <2>2, <3>3 DEF MessagesOf
  <2>3. QED BY <1>8, <2>1, <2>2
<1>11. SentHasRow'
  <2> SUFFICES ASSUME NEW d \in Events, at'[d] = "sent"
               PROVE  \/ row'[d] \in Nat \ {ByReference}
                      \/ kind[d] = "relayed" \/ d \in lost'
                      \/ /\ kind[d] = "file"
                         /\ \A i \in MessagesOf(d)' : Len(chat[Room[d]])' - i >= Lookback
    BY DEF SentHasRow
  <2>1. CASE d = e
    BY <1>2, <1>8, <2>1 DEF ByReference
  <2>2. CASE d # e /\ kind[d] = "file"
             /\ \A i \in MessagesOf(d) : Len(chat[Room[d]]) - i >= Lookback
    <3>1. \A i \in MessagesOf(d) : i \in Nat
      BY <1>7, <2>2 DEF MessagesOf
    <3>2. Len(chat[Room[d]])' \in Nat
      <4>1. Room[d] \in Rooms /\ chat' \in [Rooms -> Seq(Events \cup {Someone})]
        BY <1>4, Sizes DEF MessageTypes
      <4>2. QED BY <4>1
    <3>3. QED BY <1>7, <2>2, <3>1, <3>2, Sizes
  <2>3. QED BY <1>8, <2>1, <2>2 DEF MessageInv, SentHasRow
<1>12. QED BY <1>4, <1>9, <1>10, <1>11 DEF MessageInv

LEMMA SameMessages ==
    ASSUME chat' = chat, NEW e \in Events
    PROVE  MessagesOf(e)' = MessagesOf(e)
BY DEF MessagesOf

\* An event goes on without a message: to another request, or it has failed.
LEMMA StageMessages ==
    ASSUME MessageInv, EventTypes, NEW e \in Events, at[e] \in Unposted,
           NEW to \in Unposted \cup {"failed"}, Goes(e, to),
           UNCHANGED <<kind, chat, webhooks, bridged, row, lost>>
    PROVE  MessageInv'
<1>1. MessageTypes' /\ RelayedIsNotHeard' /\ ShownOnce' /\ RowIsOwn'
  BY DEF MessageInv, MessageTypes, RelayedIsNotHeard, ShownOnce, RowIsOwn
<1>2. PostedOnce'
  <2> SUFFICES ASSUME NEW d \in Events
               PROVE  /\ at'[d] \in Unposted => MessagesOf(d)' = {}
                      /\ at'[d] \in {"looking", "sent"} => Single(MessagesOf(d)')
                      /\ at'[d] = "failed" => MessagesOf(d)' = {}
                                              \/ (Single(MessagesOf(d)') /\ d \in lost')
    BY DEF PostedOnce, Single
  <2>1. MessagesOf(d)' = MessagesOf(d)
    BY SameMessages
  <2>2. CASE d = e
    <3>1. MessagesOf(e) = {}
      BY DEF MessageInv, PostedOnce
    <3>2. at'[e] = to
      BY DEF Goes, EventTypes
    <3>3. QED BY <2>1, <2>2, <3>1, <3>2 DEF Unposted
  <2>3. CASE d # e
    <3>1. at'[d] = at[d] /\ lost' = lost
      BY <2>3 DEF Goes, EventTypes
    <3>2. QED BY <2>1, <3>1 DEF MessageInv, PostedOnce
  <2>4. QED BY <2>2, <2>3
<1>3. SentHasRow'
  BY DEF MessageInv, SentHasRow, MessagesOf, Goes, EventTypes, Unposted
<1>4. QED BY <1>1, <1>2, <1>3 DEF MessageInv

LEMMA LookUpMessages ==
    ASSUME MessageInv, EventInv, NEW e \in Events, LookUp(e)
    PROVE  MessageInv'
<1>1. /\ at[e] = "looking" /\ kind[e] = "file" /\ at' = [at EXCEPT ![e] = "sent"]
      /\ UNCHANGED <<kind, chat, webhooks, bridged>>
      /\ \/ \E i \in Found(e) : row' = [row EXCEPT ![e] = i] /\ lost' = lost
         \/ Found(e) = {} /\ row' = [row EXCEPT ![e] = ByReference] /\ lost' = lost
         \/ row' = [row EXCEPT ![e] = ByReference] /\ lost' = lost \cup {e}
  BY DEF LookUp, Goes, rest, EventInv, StageFitsKind
<1>2. /\ Room[e] \in Rooms /\ chat[Room[e]] \in Seq(Events \cup {Someone})
      /\ MessagesOf(e) \subseteq Nat \ {0} /\ Len(chat[Room[e]]) \in Nat
      /\ \A i \in MessagesOf(e) : i \in DOMAIN chat[Room[e]] /\ chat[Room[e]][i] = e
      /\ Found(e) \subseteq MessagesOf(e)
  <2>1. Room[e] \in Rooms /\ chat[Room[e]] \in Seq(Events \cup {Someone})
    BY Sizes DEF MessageInv, MessageTypes
  <2>2. DOMAIN chat[Room[e]] = 1..Len(chat[Room[e]]) /\ Len(chat[Room[e]]) \in Nat
    BY <2>1
  <2>3. QED BY <2>1, <2>2 DEF MessagesOf, Found, Recent
<1>3. \A i \in MessagesOf(e) : i \in Found(e) \/ Len(chat[Room[e]]) - i >= Lookback
  BY <1>2, Sizes DEF MessagesOf, Found, Recent
<1>4. /\ lost \subseteq lost' /\ \A d \in Events : d # e => row'[d] = row[d] /\ at'[d] = at[d]
      /\ at'[e] = "sent"
      /\ row'[e] \in MessagesOf(e) \/ row'[e] = ByReference
      /\ \/ row'[e] \in Nat \ {ByReference} \/ e \in lost'
         \/ \A i \in MessagesOf(e) : Len(chat[Room[e]]) - i >= Lookback
  <2>1. row \in [Events -> Nat \cup {NoRow}] /\ at \in [Events -> AtStages]
    BY DEF EventInv, EventTypes
  <2>2. CASE \E i \in Found(e) : row' = [row EXCEPT ![e] = i] /\ lost' = lost
    BY <1>1, <1>2, <2>1, <2>2 DEF ByReference
  <2>3. CASE Found(e) = {} /\ row' = [row EXCEPT ![e] = ByReference] /\ lost' = lost
    BY <1>1, <1>3, <2>1, <2>3
  <2>4. CASE row' = [row EXCEPT ![e] = ByReference] /\ lost' = lost \cup {e}
    BY <1>1, <2>1, <2>4
  <2>5. QED BY <1>1, <2>2, <2>3, <2>4
<1>5. MessageTypes' /\ RelayedIsNotHeard' /\ ShownOnce'
  BY <1>1, <1>4 DEF MessageInv, MessageTypes, RelayedIsNotHeard, ShownOnce
<1>6. PostedOnce'
  <2> SUFFICES ASSUME NEW d \in Events
               PROVE  /\ at'[d] \in Unposted => MessagesOf(d)' = {}
                      /\ at'[d] \in {"looking", "sent"} => Single(MessagesOf(d)')
                      /\ at'[d] = "failed" => MessagesOf(d)' = {}
                                              \/ (Single(MessagesOf(d)') /\ d \in lost')
    BY DEF PostedOnce, Single
  <2>1. MessagesOf(d)' = MessagesOf(d)
    BY <1>1, SameMessages
  <2>2. CASE d = e
    <3>1. Single(MessagesOf(e))
      BY <1>1 DEF MessageInv, PostedOnce
    <3>2. QED BY <1>4, <2>1, <2>2, <3>1 DEF Unposted
  <2>3. CASE d # e
    <3>1. at'[d] = at[d] /\ (d \in lost => d \in lost')
      BY <1>4, <2>3
    <3>2. QED BY <2>1, <3>1 DEF MessageInv, PostedOnce
  <2>4. QED BY <2>2, <2>3
<1>7. RowIsOwn'
  BY <1>1, <1>2, <1>4 DEF MessageInv, RowIsOwn
<1>8. SentHasRow'
  BY <1>1, <1>4 DEF MessageInv, SentHasRow, MessagesOf
<1>9. QED BY <1>5, <1>6, <1>7, <1>8 DEF MessageInv

\* An echo that is not recognised when its room has nothing else to do: it is of
\* someone else's message, or of one whose row could not be made.
LEMMA EchoMessages ==
    ASSUME MessageInv, EventInv, NEW m \in webhooks, Echo(m)
    PROVE  MessageInv'
<1> USE DEF MessageInv
<1>1. /\ ~ Busy(m[1]) /\ webhooks' = webhooks \ {m}
      /\ bridged' = IF Recognised(m) THEN bridged ELSE bridged \cup {m}
      /\ UNCHANGED <<kind, at, chat, row, lost>>
      /\ m \in Rooms \X Nat /\ m[2] \in DOMAIN chat[m[1]]
  BY DEF Echo, rest, MessageTypes
<1>2. MessageTypes' /\ RelayedIsNotHeard' /\ PostedOnce' /\ RowIsOwn' /\ SentHasRow'
  <2>1. MessageTypes'
    BY <1>1 DEF MessageTypes
  <2>2. RelayedIsNotHeard'
    BY <1>1 DEF RelayedIsNotHeard
  <2>3. RowIsOwn'
    BY <1>1 DEF RowIsOwn
  <2>4. PostedOnce' /\ SentHasRow'
    BY <1>1, SameMessages DEF PostedOnce, SentHasRow, Single
  <2>5. QED BY <2>1, <2>2, <2>3, <2>4
<1>3. ShownOnce'
  <2> DEFINE w == chat[m[1]][m[2]]
  <2>0. m = <<m[1], m[2]>> /\ m[1] \in Rooms /\ m[2] \in Nat /\ w \in Events \cup {Someone}
        /\ m[2] \in 1..Len(chat[m[1]]) /\ Len(chat[m[1]]) \in Nat
    <3>1. m = <<m[1], m[2]>> /\ m[1] \in Rooms /\ m[2] \in Nat
      BY <1>1
    <3>2. chat[m[1]] \in Seq(Events \cup {Someone})
      BY <3>1 DEF MessageTypes
    <3>3. QED BY <1>1, <3>1, <3>2
  <2>1. w = Someone => ~ Recognised(m)
    BY <2>0, Sizes DEF Recognised, RowIsOwn, ByReference, NoRow
  <2>2. ASSUME w # Someone, ~ Recognised(m)
        PROVE  w \in lost \/ (kind[w] = "file" /\ Len(chat[m[1]]) - m[2] >= Lookback)
    <3>1. w \in Events /\ Room[w] = m[1] /\ m[2] \in MessagesOf(w) /\ kind[w] # "relayed"
      BY <1>1, <2>0, <2>2 DEF MessageTypes, MessagesOf, RelayedIsNotHeard
    <3>2. at[w] \in AtStages
      BY <3>1 DEF EventInv, EventTypes
    <3>3. at[w] \in {"sent", "failed"}
      BY <1>1, <3>1, <3>2 DEF Busy, Ended, PostedOnce, AtStages, Unposted
    <3>4. CASE at[w] = "failed"
      BY <3>1, <3>4 DEF PostedOnce
    <3>5. CASE at[w] = "sent"
      <4>1. ASSUME row[w] \in Nat \ {ByReference} PROVE FALSE
        <5>1. row[w] \in MessagesOf(w)
          BY <3>1, <4>1 DEF RowIsOwn, MessagesOf
        <5>2. Single(MessagesOf(w))
          BY <3>1, <3>5 DEF PostedOnce
        <5>3. row[w] = m[2]
          BY <3>1, <5>1, <5>2 DEF Single
        <5>4. QED BY <2>2, <3>1, <5>3 DEF Recognised
      <4>2. QED BY <3>1, <3>5, <4>1 DEF SentHasRow
    <3>6. QED BY <3>3, <3>4, <3>5
  <2> SUFFICES ASSUME NEW r \in Rooms, NEW i \in DOMAIN chat[r]
               PROVE  /\ chat[r][i] = Someone => <<r, i>> \in webhooks' \cup bridged'
                      /\ chat[r][i] # Someone /\ <<r, i>> \in bridged' =>
                            \/ chat[r][i] \in lost
                            \/ (kind[chat[r][i]] = "file" /\ Len(chat[r]) - i >= Lookback)
    BY <1>1 DEF ShownOnce
  <2>3. CASE <<r, i>> = m
    <3>1. r = m[1] /\ i = m[2] /\ chat[r][i] = w
      BY <2>0, <2>3
    <3>2. CASE Recognised(m)
      BY <1>1, <2>1, <3>1, <3>2 DEF ShownOnce
    <3>3. CASE ~ Recognised(m)
      BY <1>1, <2>2, <2>3, <3>1, <3>3
    <3>4. QED BY <3>2, <3>3
  <2>4. CASE <<r, i>> # m
    BY <1>1, <2>4 DEF ShownOnce
  <2>5. QED BY <2>3, <2>4
<1>4. QED BY <1>2, <1>3
-----------------------------------------------------------------------------
(* The invariant *)

\* What concerns neither messages nor where they are.
LEMMA MessagesUntouched ==
    ASSUME MessageInv, UNCHANGED <<kind, at, chat, webhooks, bridged, row, lost>>
    PROVE  MessageInv'
<1>1. MessageTypes' /\ RelayedIsNotHeard' /\ ShownOnce' /\ RowIsOwn'
  BY DEF MessageInv, MessageTypes, RelayedIsNotHeard, ShownOnce, RowIsOwn
<1>2. PostedOnce' /\ SentHasRow'
  BY SameMessages DEF MessageInv, PostedOnce, SentHasRow, Single
<1>3. QED BY <1>1, <1>2 DEF MessageInv

\* What concerns neither events nor files.
LEMMA FilesAside ==
    ASSUME FileInv, UNCHANGED <<files, clashes, begun, name, at>>
    PROVE  FileInv'
<1>1. name' \in [Events -> Names]
  BY DEF FileInv, FileTypes
<1>2. QED BY <1>1, FilesUntouched

LEMMA EventsAside ==
    ASSUME EventInv, UNCHANGED <<kind, at, row, lost>>
    PROVE  EventInv'
BY DEF EventInv, EventTypes, StageFitsKind

\* An event that is not to be uploaded yet, or has been, goes on elsewhere.
LEMMA FilesGo ==
    ASSUME FileInv, EventTypes, UNCHANGED <<files, clashes, begun, name>>,
           NEW e \in Events, NEW to \in AtStages, Goes(e, to),
           at[e] \in AfterUpload => to \in AfterUpload, to # "uploading"
    PROVE  FileInv'
<1>1. name' \in [Events -> Names]
  BY DEF FileInv, FileTypes
<1>2. \A d \in Events : at'[d] = IF d = e THEN to ELSE at[d]
  BY DEF Goes, EventTypes
<1>3. \A d \in Events :
         /\ at[d] \in AfterUpload => at'[d] \in AfterUpload
         /\ at'[d] = "uploading" => at[d] = "uploading" /\ name'[d] = name[d]
  BY <1>2
<1>4. QED BY <1>1, <1>3, FilesUntouched

\* A step that posts, seen as event, as file and as message.
LEMMA PostGoes ==
    ASSUME EgressInv, NEW e \in Events, Posted(e), at[e] \in Unposted,
           NEW to \in {"looking", "sent", "failed"}, Goes(e, to),
           UNCHANGED <<kind, bridged, name, files, clashes, begun>>,
           Announced(e) \/ (webhooks' = webhooks /\ kind[e] = "relayed"),
           kind[e] = "relayed" => webhooks' = webhooks,
           to = "looking" => kind[e] = "file",
           \/ row' = row /\ to # "sent"
           \/ row' = [row EXCEPT ![e] = NextID(e)]
           \/ row' = [row EXCEPT ![e] = ByReference] /\ kind[e] = "relayed",
           lost' \in {lost, lost \cup {e}}, to = "failed" => e \in lost'
    PROVE  EgressInv'
<1>1. EventInv /\ EventTypes /\ FileInv /\ MessageInv
  BY DEF EgressInv, EventInv
<1>2. to \in AtStages
  BY DEF AtStages
<1>3. NextID(e) \in Nat
  <2>1. chat[Room[e]] \in Seq(Events \cup {Someone})
    BY <1>1, Sizes DEF MessageInv, MessageTypes
  <2>2. QED BY <2>1 DEF NextID
<1>4. row' \in [Events -> Nat \cup {NoRow}] /\ lost' \subseteq Events
  BY <1>1, <1>3 DEF EventTypes, ByReference
<1>5. EventInv'
  BY <1>1, <1>2, <1>4, EventGoes
<1>6. FileInv'
  BY <1>1, <1>2, FilesGo DEF AfterUpload
<1>7. MessageInv'
  BY <1>1, PostMessages
<1>8. QED BY <1>5, <1>6, <1>7 DEF EgressInv

LEMMA StageGoes ==
    ASSUME EgressInv, NEW e \in Events, at[e] \in Unposted,
           NEW to \in Unposted \cup {"failed"}, Goes(e, to),
           UNCHANGED <<kind, chat, webhooks, bridged, row, lost>>, FileInv',
           to \in {"sending", "resending"} => kind[e] \in {"text", "reply"},
           to = "relaying" => kind[e] = "relayed",
           to \in {"preparing", "probing", "uploading", "sharing"} => kind[e] = "file"
    PROVE  EgressInv'
<1>1. EventInv /\ EventTypes /\ MessageInv
  BY DEF EgressInv, EventInv
<1>2. to \in AtStages /\ to # "looking"
  BY DEF AtStages, Unposted
<1>3. row' \in [Events -> Nat \cup {NoRow}] /\ lost' \subseteq Events
  BY <1>1 DEF EventTypes
<1>4. EventInv'
  BY <1>1, <1>2, <1>3, EventGoes
<1>5. MessageInv'
  BY <1>1, StageMessages
<1>6. QED BY <1>4, <1>5 DEF EgressInv

LEMMA InitInv == Init => EgressInv
<1> SUFFICES ASSUME Init PROVE EgressInv
  OBVIOUS
<1> USE DEF Init
<1>1. EventInv
  <2>1. EventTypes
    BY DEF EventTypes, AtStages, Unposted
  <2>2. StageFitsKind
    BY DEF StageFitsKind
  <2>3. QED BY <2>1, <2>2 DEF EventInv
<1>2. FileInv
  <2>1. Stored \subseteq Others
    BY DEF Stored
  <2>2. FileTypes
    BY EgressAssumption DEF FileTypes, Names
  <2>3. StoredByUpload
    BY <2>1, Sizes DEF StoredByUpload, WasStored
  <2>4. BegunWereStored /\ ProbedWasFree /\ OldFilesSurvive
    BY DEF BegunWereStored, ProbedWasFree, OldFilesSurvive
  <2>5. QED BY <2>2, <2>3, <2>4 DEF FileInv
<1>3. MessageInv
  <2>1. \A r \in Rooms : chat[r] = <<>> /\ DOMAIN chat[r] = {}
    OBVIOUS
  <2>2. \A e \in Events : MessagesOf(e) = {}
    BY <2>1, Sizes DEF MessagesOf
  <2>3. MessageTypes
    BY <2>1 DEF MessageTypes
  <2>4. PostedOnce
    BY <2>2 DEF PostedOnce
  <2>5. RowIsOwn /\ SentHasRow
    BY DEF RowIsOwn, SentHasRow, NoRow
  <2>6. RelayedIsNotHeard
    BY DEF RelayedIsNotHeard
  <2>7. ShownOnce
    BY <2>1 DEF ShownOnce
  <2>8. QED BY <2>3, <2>4, <2>5, <2>6, <2>7 DEF MessageInv
<1>4. QED BY <1>1, <1>2, <1>3 DEF EgressInv

-----------------------------------------------------------------------------
(* Each request *)

LEMMA StartKeeps ==
    ASSUME EgressInv, NEW e \in Events, Start(e)
    PROVE  EgressInv'
<1>1. EventInv /\ EventTypes /\ FileInv
  BY DEF EgressInv, EventInv
<1>2. /\ at[e] \in Unposted /\ Goes(e, FirstStep(e))
      /\ UNCHANGED <<kind, chat, webhooks, bridged, row, lost>>
  BY DEF Start, Unposted
<1>3. /\ FirstStep(e) \in {"sending", "preparing", "relaying", "failed"}
      /\ FirstStep(e) = "sending" => kind[e] \in {"text", "reply"}
      /\ FirstStep(e) = "preparing" => kind[e] = "file"
      /\ FirstStep(e) = "relaying" => kind[e] = "relayed"
  BY DEF FirstStep
<1>4. FirstStep(e) \in Unposted \cup {"failed"}
  BY <1>3 DEF Unposted
<1>5. FileInv'
  BY <1>1, StartFiles
<1> DEFINE to == FirstStep(e)
<1> HIDE DEF to
<1>6. /\ to \in Unposted \cup {"failed"} /\ Goes(e, to)
      /\ to \in {"sending", "resending"} => kind[e] \in {"text", "reply"}
      /\ to = "relaying" => kind[e] = "relayed"
      /\ to \in {"preparing", "probing", "uploading", "sharing"} => kind[e] = "file"
  BY <1>2, <1>3, <1>4 DEF to
<1>7. QED BY <1>2, <1>5, <1>6, StageGoes

\* A request that has no effect.
LEMMA NotAcceptedKeeps ==
    ASSUME EgressInv, NEW e \in Events, at[e] \in Unposted, NEW to \in {"resending", "failed"},
           to = "resending" => kind[e] = "reply", NotAccepted(e, to),
           UNCHANGED <<name, files, bridged, rest>>, at[e] \notin AfterUpload \/ to = "failed"
    PROVE  EgressInv'
<1>1. EventInv /\ EventTypes /\ FileInv
  BY DEF EgressInv, EventInv
<1>2. /\ Goes(e, to) /\ UNCHANGED <<kind, chat, webhooks, bridged, row, lost>>
      /\ UNCHANGED <<files, clashes, begun, name>>
  BY DEF NotAccepted, rest
<1>3. to \in AtStages /\ to \in Unposted \cup {"failed"}
  BY DEF AtStages, Unposted
<1>4. FileInv'
  BY <1>1, <1>2, <1>3, FilesGo DEF AfterUpload
<1>5. QED BY <1>2, <1>3, <1>4, StageGoes

LEMMA AcceptedKeeps ==
    ASSUME EgressInv, NEW e \in Events, at[e] \in {"sending", "resending", "sharing"},
           Accepted(e) \/ AcceptedUnheard(e), UNCHANGED <<name, files, bridged, rest>>
    PROVE  EgressInv'
<1>1. at[e] \in Unposted /\ kind[e] # "relayed"
  BY DEF EgressInv, EventInv, StageFitsKind, Unposted
<1>2. Posted(e) /\ Announced(e) /\ UNCHANGED <<kind, bridged, name, files, clashes, begun>>
  BY DEF Accepted, AcceptedUnheard, rest
<1>3. CASE Accepted(e)
  <2>1. Goes(e, "sent") /\ row' = [row EXCEPT ![e] = NextID(e)] /\ lost' = lost
    BY <1>3 DEF Accepted
  <2>2. QED BY <1>1, <1>2, <2>1, PostGoes
<1>4. CASE AcceptedUnheard(e)
  <2>1. Goes(e, "failed") /\ row' = row /\ lost' = lost \cup {e}
    BY <1>4 DEF AcceptedUnheard
  <2>2. QED BY <1>1, <1>2, <2>1, PostGoes
<1>5. QED BY <1>3, <1>4

LEMMA SendKeeps ==
    ASSUME EgressInv, NEW e \in Events, Send(e)
    PROVE  EgressInv'
<1>1. /\ at[e] = "sending" /\ UNCHANGED <<name, files, bridged, rest>>
      /\ \/ Accepted(e) \/ AcceptedUnheard(e)
         \/ \E refused \in BOOLEAN : NotAccepted(e, AfterError(e, refused))
  BY DEF Send, AcceptedUnheard, AfterError, Retry
<1>2. CASE Accepted(e) \/ AcceptedUnheard(e)
  BY <1>1, <1>2, AcceptedKeeps
<1>3. ASSUME NEW refused \in BOOLEAN, NotAccepted(e, AfterError(e, refused))
      PROVE  EgressInv'
  <2> DEFINE to == AfterError(e, refused)
  <2>1. /\ to \in {"resending", "failed"}
        /\ to = "resending" => kind[e] = "reply"
        /\ at[e] \in Unposted /\ at[e] \notin AfterUpload
    BY <1>1 DEF AfterError, Unposted, AfterUpload
  <2> HIDE DEF to
  <2>2. NotAccepted(e, to)
    BY <1>3 DEF to
  <2>3. QED BY <1>1, <2>1, <2>2, NotAcceptedKeeps
<1>4. QED BY <1>1, <1>2, <1>3

LEMMA ResendKeeps ==
    ASSUME EgressInv, NEW e \in Events, Resend(e)
    PROVE  EgressInv'
<1>1. /\ at[e] = "resending" /\ UNCHANGED <<name, files, bridged, rest>>
      /\ Accepted(e) \/ AcceptedUnheard(e) \/ NotAccepted(e, "failed")
  BY DEF Resend
<1>2. CASE Accepted(e) \/ AcceptedUnheard(e)
  BY <1>1, <1>2, AcceptedKeeps
<1>3. CASE NotAccepted(e, "failed")
  BY <1>1, <1>3, NotAcceptedKeeps DEF Unposted
<1>4. QED BY <1>1, <1>2, <1>3

LEMMA RelayKeeps ==
    ASSUME EgressInv, NEW e \in Events, Relay(e)
    PROVE  EgressInv'
<1>1. /\ at[e] = "relaying" /\ at[e] \in Unposted /\ kind[e] = "relayed"
      /\ UNCHANGED <<name, files, bridged, rest>>
      /\ UNCHANGED <<kind, bridged, name, files, clashes, begun>>
  BY DEF Relay, rest, Unposted, EgressInv, EventInv, StageFitsKind
<1>2. CASE /\ Posted(e) /\ Goes(e, "sent")
           /\ row' = [row EXCEPT ![e] = ByReference]
           /\ UNCHANGED <<webhooks, lost>>
  BY <1>1, <1>2, PostGoes
<1>3. CASE /\ Posted(e) /\ Goes(e, "failed")
           /\ lost' = lost \cup {e}
           /\ UNCHANGED <<webhooks, row>>
  BY <1>1, <1>3, PostGoes
<1>4. CASE NotAccepted(e, "failed")
  BY <1>1, <1>4, NotAcceptedKeeps
<1>5. QED BY <1>2, <1>3, <1>4 DEF Relay

LEMMA ShareKeeps ==
    ASSUME EgressInv, NEW e \in Events, Share(e)
    PROVE  EgressInv'
<1>1. /\ at[e] = "sharing" /\ at[e] \in Unposted /\ kind[e] = "file"
      /\ UNCHANGED <<name, files, bridged, rest>>
      /\ UNCHANGED <<kind, bridged, name, files, clashes, begun>>
  BY DEF Share, rest, Unposted, EgressInv, EventInv, StageFitsKind
<1>2. CASE Posted(e) /\ Announced(e) /\ Goes(e, "looking") /\ UNCHANGED <<row, lost>>
  BY <1>1, <1>2, PostGoes
<1>3. CASE AcceptedUnheard(e)
  BY <1>1, <1>3, AcceptedKeeps
<1>4. CASE NotAccepted(e, "failed")
  BY <1>1, <1>4, NotAcceptedKeeps
<1>5. QED BY <1>2, <1>3, <1>4 DEF Share

LEMMA PrepareKeeps ==
    ASSUME EgressInv, NEW e \in Events, Prepare(e)
    PROVE  EgressInv'
<1>1. /\ at[e] = "preparing" /\ kind[e] = "file" /\ EventTypes /\ FileInv
      /\ UNCHANGED <<kind, chat, webhooks, bridged, row, lost, files, clashes, begun, name>>
  BY DEF Prepare, rest, EgressInv, EventInv, StageFitsKind
<1>2. PICK to \in {"probing", "failed"} : Goes(e, to)
  BY DEF Prepare
<1>3. to \in AtStages /\ to \in Unposted \cup {"failed"} /\ at[e] \in Unposted
  BY <1>1 DEF AtStages, Unposted
<1>4. FileInv'
  BY <1>1, <1>2, <1>3, FilesGo DEF AfterUpload
<1>5. QED BY <1>1, <1>2, <1>3, <1>4, StageGoes

\* Only a name under which nothing is stored is taken; otherwise the next one is
\* tried, while there is one.
LEMMA ProbeKeeps ==
    ASSUME EgressInv, NEW e \in Events, Probe(e)
    PROVE  EgressInv'
<1>1. /\ at[e] = "probing" /\ kind[e] = "file" /\ EventInv /\ FileInv /\ MessageInv
      /\ UNCHANGED <<kind, chat, webhooks, bridged, row, lost, files, clashes, begun>>
  BY DEF Probe, rest, EgressInv, EventInv, StageFitsKind
<1>2. \/ files[name[e]] = Nobody /\ Goes(e, "uploading") /\ UNCHANGED name
      \/ Goes(e, "failed") /\ UNCHANGED name
      \/ /\ ~ OutOfNames(name[e])
         /\ name' = [name EXCEPT ![e] = @ + 1] /\ UNCHANGED at
  BY DEF Probe, Free
<1>3. EventTypes /\ at[e] \in Unposted
  BY <1>1 DEF EventInv, Unposted
<1>4. CASE files[name[e]] = Nobody /\ Goes(e, "uploading") /\ UNCHANGED name
  <2>1. \A d \in Events :
           /\ at[d] \in AfterUpload => at'[d] \in AfterUpload
           /\ at'[d] = "uploading" => \/ at[d] = "uploading" /\ name'[d] = name[d]
                                      \/ files[name'[d]] = Nobody
    BY <1>1, <1>3, <1>4 DEF Goes, EventTypes, AfterUpload
  <2>2. name' \in [Events -> Names]
    BY <1>1, <1>4 DEF FileInv, FileTypes
  <2>3. FileInv'
    BY <1>1, <2>1, <2>2, FilesUntouched
  <2>4. QED BY <1>1, <1>3, <1>4, <2>3, StageGoes DEF Unposted
<1>5. CASE Goes(e, "failed") /\ UNCHANGED name
  <2>1. FileInv'
    BY <1>1, <1>3, <1>5, FilesGo DEF AfterUpload, AtStages
  <2>2. QED BY <1>1, <1>3, <1>5, <2>1, StageGoes
<1>6. CASE /\ ~ OutOfNames(name[e])
           /\ name' = [name EXCEPT ![e] = @ + 1] /\ UNCHANGED at
  <2>1. name' \in [Events -> Names] /\ \A d \in Events : d # e => name'[d] = name[d]
    <3>1. name \in [Events -> Names] /\ name[e] + 1 \in Names
      BY <1>1, <1>6, Sizes DEF FileInv, FileTypes, Names, OutOfNames
    <3>2. QED BY <1>6, <3>1
  <2>2. \A d \in Events :
           /\ at[d] \in AfterUpload => at'[d] \in AfterUpload
           /\ at'[d] = "uploading" => at[d] = "uploading" /\ name'[d] = name[d]
    BY <1>1, <1>6, <2>1
  <2>3. FileInv'
    BY <1>1, <2>1, <2>2, FilesUntouched
  <2>4. EventInv' /\ MessageInv'
    BY <1>1, <1>6, EventsAside, MessagesUntouched
  <2>5. QED BY <2>3, <2>4 DEF EgressInv
<1>7. QED BY <1>2, <1>4, <1>5, <1>6

LEMMA UploadKeeps ==
    ASSUME EgressInv, NEW e \in Events, Upload(e)
    PROVE  EgressInv'
<1>1. /\ at[e] \in Unposted /\ kind[e] = "file" /\ EventTypes /\ FileInv
      /\ UNCHANGED <<kind, chat, webhooks, bridged, row, lost>>
  BY DEF Upload, Unposted, EgressInv, EventInv, StageFitsKind
<1>2. PICK to \in {"sharing", "failed"} : Goes(e, to)
  BY DEF Upload
<1>3. to \in Unposted \cup {"failed"}
  BY DEF Unposted
<1>4. FileInv'
  BY <1>1, UploadFiles
<1>5. QED BY <1>1, <1>2, <1>3, <1>4, StageGoes

LEMMA LookUpKeeps ==
    ASSUME EgressInv, NEW e \in Events, LookUp(e)
    PROVE  EgressInv'
<1>1. /\ EventInv /\ EventTypes /\ FileInv /\ MessageInv
      /\ Goes(e, "sent") /\ UNCHANGED <<kind, files, clashes, begun, name>>
  BY DEF LookUp, rest, EgressInv, EventInv
<1>2. "sent" \in AtStages /\ "sent" \in AfterUpload
  BY DEF AtStages, AfterUpload
<1>3. row' \in [Events -> Nat \cup {NoRow}] /\ lost' \subseteq Events
  <2>1. Found(e) \subseteq Nat
    <3>1. chat[Room[e]] \in Seq(Events \cup {Someone})
      BY <1>1, Sizes DEF MessageInv, MessageTypes
    <3>2. QED BY <3>1 DEF Found, Recent
  <2>2. QED BY <1>1, <2>1 DEF LookUp, EventTypes, ByReference
<1>4. EventInv'
  BY <1>1, <1>2, <1>3, EventGoes
<1>5. FileInv'
  BY <1>1, <1>2, FilesGo
<1>6. MessageInv'
  BY <1>1, LookUpMessages
<1>7. QED BY <1>4, <1>5, <1>6 DEF EgressInv

LEMMA NextInv == EgressInv /\ [Next]_vars => EgressInv'
<1> SUFFICES ASSUME EgressInv, [Next]_vars PROVE EgressInv'
  OBVIOUS
<1>1. EventInv /\ EventTypes /\ FileInv /\ MessageInv
  BY DEF EgressInv, EventInv
<1>2. ASSUME NEW r \in Rooms, OtherPosts(r) PROVE EgressInv'
  <2>1. UNCHANGED <<kind, at, row, lost, files, clashes, begun, name>>
    BY <1>2 DEF OtherPosts, rest
  <2>2. MessageInv'
    BY <1>1, <1>2, OtherPostsMessages
  <2>3. QED BY <1>1, <2>1, <2>2, EventsAside, FilesAside DEF EgressInv
<1>3. ASSUME NEW f \in Others, NEW n \in Names, OtherStores(f, n) PROVE EgressInv'
  <2>1. UNCHANGED <<kind, at, row, lost, chat, webhooks, bridged>>
    BY <1>3 DEF OtherStores, rest
  <2>2. FileInv'
    BY <1>1, <1>3, OtherStoresFiles
  <2>3. QED BY <1>1, <2>1, <2>2, EventsAside, MessagesUntouched DEF EgressInv
<1>4. ASSUME NEW e \in Events, Start(e) \/ Handle(e) PROVE EgressInv'
  BY <1>4, StartKeeps, SendKeeps, ResendKeeps, RelayKeeps, PrepareKeeps, ProbeKeeps,
     UploadKeeps, ShareKeeps, LookUpKeeps DEF Handle
<1>5. ASSUME NEW m \in webhooks, Echo(m) PROVE EgressInv'
  <2>1. UNCHANGED <<kind, at, row, lost, files, clashes, begun, name>>
    BY <1>5 DEF Echo, rest
  <2>2. MessageInv'
    BY <1>1, <1>5, EchoMessages
  <2>3. QED BY <1>1, <2>1, <2>2, EventsAside, FilesAside DEF EgressInv
<1>6. CASE UNCHANGED vars
  <2>1. UNCHANGED <<kind, at, row, lost, files, clashes, begun, name, chat, webhooks, bridged>>
    BY <1>6 DEF vars
  <2>2. QED BY <1>1, <2>1, EventsAside, FilesAside, MessagesUntouched DEF EgressInv
<1>7. QED BY <1>2, <1>3, <1>4, <1>5, <1>6 DEF Next

\* What holds of egress in every state: of events, of files and of messages.
THEOREM EgressInvariant == Spec => []EgressInv
<1>1. QED BY InitInv, NextInv, PTL DEF Spec

\* Every variable of Egress keeps its type, and every ID that a webhook or the
\* room knows is one of a message in Talk.
THEOREM TypeCorrect == Spec => []TypeOK
<1>1. EgressInv => TypeOK
  BY DEF EgressInv, EventInv, EventTypes, FileInv, FileTypes, MessageInv, MessageTypes,
         TypeOK, AtStages, Unposted
<1>2. QED BY <1>1, EgressInvariant, PTL

\* client.go, sendToTalk and relayMatrixMessage; media.go, handleMatrixMedia: a
\* message is in Talk at most once, is there if it counts as sent, and is not if it
\* failed and no answer was lost.
THEOREM MessagesArePostedAsReported == Spec => []PostedAsReported
<1>1. EgressInv => PostedAsReported
  <2> SUFFICES ASSUME EgressInv, NEW e \in Events
               PROVE  /\ Cardinality(MessagesOf(e)) <= 1
                      /\ at[e] = "sent" => MessagesOf(e) # {}
                      /\ at[e] = "failed" /\ e \notin lost => MessagesOf(e) = {}
    BY DEF PostedAsReported
  <2>1. at[e] \in AtStages
    BY DEF EgressInv, EventInv, EventTypes
  <2>2. /\ at[e] \in Unposted => MessagesOf(e) = {}
        /\ at[e] \in {"looking", "sent"} => Single(MessagesOf(e))
        /\ at[e] = "failed" => MessagesOf(e) = {} \/ (Single(MessagesOf(e)) /\ e \in lost)
    BY DEF EgressInv, MessageInv, PostedOnce
  <2>3. MessagesOf(e) = {} \/ \E i : MessagesOf(e) = {i}
    BY <2>1, <2>2 DEF AtStages, Single
  <2>4. Cardinality(MessagesOf(e)) <= 1
    <3>1. CASE MessagesOf(e) = {}
      <4>1. Cardinality(MessagesOf(e)) = 0
        BY <3>1, FS_EmptySet
      <4>2. QED BY <4>1
    <3>2. CASE \E i : MessagesOf(e) = {i}
      <4>1. Cardinality(MessagesOf(e)) = 1
        BY <3>2, FS_Singleton
      <4>2. QED BY <4>1
    <3>3. QED BY <2>3, <3>1, <3>2
  <2>5. QED BY <2>2, <2>4 DEF Single
<1>2. QED BY <1>1, EgressInvariant, PTL

\* client.go:509-511: whatever was lost or came late, someone else's message is in
\* the room once its webhook is handled, and one that came from Matrix does not come
\* back unless its ID was never learned.
THEOREM MessagesAreShownOnce == Spec => []ShownOnce
<1>1. EgressInv => ShownOnce
  BY DEF EgressInv, MessageInv
<1>2. QED BY <1>1, EgressInvariant, PTL

\* files.go, FreeFilePath, and media.go, handleMatrixMedia: no file that was stored
\* when a message's turn came is overwritten by it, whatever fails and whoever else
\* stores files.
THEOREM NoOldFileIsLost == Spec => []OldFilesSurvive
<1>1. EgressInv => OldFilesSurvive
  BY DEF EgressInv, FileInv
<1>2. QED BY <1>1, EgressInvariant, PTL
=============================================================================
