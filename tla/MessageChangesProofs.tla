------------------------- MODULE MessageChangesProofs -------------------------
(***************************************************************************)
(* Matrix ends with what Talk has, and neither undoes nor repeats an edit  *)
(* made from Matrix, for any number of changes, workers and losses: proofs *)
(* about MessageChanges.                                                   *)
(***************************************************************************)
EXTENDS MessageChanges, TLAPS

Kinds == {"create", "edit", "delete"}

\* What Talk did: a creation first, a deletion last, edits between.
TalkInv ==
    /\ namesEdit \in Naming
    /\ changes \in Seq(Kinds) /\ Latest <= MaxChanges
    /\ \A n \in 1..Latest :
          /\ changes[n] = "create" <=> n = 1
          /\ changes[n] = "delete" => n = Latest

\* What was read for a change is not older than the change.
IsRead(evt) ==
    /\ evt.id \in 1..Latest /\ evt.read \in evt.id..Latest
    /\ evt.id = 1 => evt.read = 1

\* Every webhook is in one place.
WebhooksInv ==
    /\ sent \subseteq 1..Latest
    /\ working \in [Workers -> [id : 0..MaxChanges, read : 0..MaxChanges]]
    /\ \A w \in Workers :
          /\ working[w].id <= Latest /\ working[w].id \notin sent
          /\ working[w].id = 0 => working[w].read = 0
          /\ working[w].read # 0 => IsRead(working[w])
          /\ \A v \in Workers \ {w} : working[v].id = working[w].id => working[v].id = 0
    /\ portal \in Seq([id : Ids, read : Ids])
    /\ \A i \in 1..Len(portal) : IsRead(portal[i])

Rows ==
    [exists : BOOLEAN, echoID : 0..MaxChanges, echoTS : {0} \cup {Second[n] : n \in Ids}]

MatrixTypes ==
    /\ row \in Rows
    /\ text \in 0..Latest /\ own \in 0..Latest /\ carried \in 0..Latest
    /\ orderly \in BOOLEAN

\* The Matrix event of a row shows some text.
RowShows == row.exists => text # 0

\* The echo kept with a row is of an edit that Talk has, told by what this server
\* answers.
EchoOfEdit ==
    /\ row.echoID # 0 => row.echoID <= Latest /\ changes[row.echoID] = "edit"
    /\ row.echoTS # 0 => \E n \in 1..Latest : row.echoTS = Second[n]
    /\ namesEdit /\ row.echoID = 0 => row.echoTS = 0
    /\ ~ namesEdit => row.echoID = 0

\* While Talk has the message, its row knows the last edit from Matrix, so that
\* nothing older gets past it.
OwnIsKnown ==
    Exists /\ own # 0 =>
        /\ row.exists /\ text >= own /\ carried # own
        /\ IF namesEdit THEN row.echoID = own ELSE row.echoTS = Second[own]

\* Where edits are told apart by their time, each has a second of its own.
ToldApart == FALSE \in Naming => \A m, n \in Ids : m < n => Second[m] < Second[n]

\* If the newest change is the bridge's own edit, Matrix shows it.
EchoCovers == IF namesEdit THEN row.echoID = Latest ELSE row.echoTS = Second[Latest]
EchoIsNewest == ToldApart /\ Exists /\ row.exists /\ EchoCovers => text = Latest

\* The portal has worked off the first d changes, has the next ones queued, and the
\* rest is on its way.
UpTo(d) ==
    /\ \A i \in 1..Len(portal) : portal[i].id = d + i
    /\ Underway = (d + Len(portal) + 1)..Latest
    /\ d + Len(portal) <= Latest
    /\ d # 0 /\ Exists => row.exists
    /\ ToldApart /\ d = Latest => Consistent

InStep == orderly => \E d \in 0..Latest : UpTo(d)

MatrixInv == MatrixTypes /\ RowShows /\ EchoOfEdit /\ OwnIsKnown /\ EchoIsNewest

ChangesInv == TalkInv /\ WebhooksInv /\ MatrixInv /\ InStep

-----------------------------------------------------------------------------
(* Talk and the webhooks *)

LEMMA Numbers ==
    /\ MaxChanges \in Nat \ {0} /\ Naming \subseteq BOOLEAN
    /\ Second \in [1..MaxChanges -> Nat \ {0}]
    /\ \A m, n \in 1..MaxChanges : m <= n => Second[m] <= Second[n]
BY ChangesAssumption

LEMMA LatestIsNumber ==
    ASSUME TalkInv
    PROVE  /\ Latest \in 0..MaxChanges /\ DOMAIN changes = 1..Latest
           /\ \A n \in 1..Latest : changes[n] \in Kinds
           /\ Exists => Latest # 0 /\ \A n \in 1..Latest : changes[n] # "delete"
           /\ \A n \in 1..Latest : changes[n] = "delete" => n = Latest /\ ~ Exists
<1>1. Latest \in Nat /\ Latest <= MaxChanges /\ DOMAIN changes = 1..Latest
  BY DEF TalkInv, Latest
<1>2. \A n \in 1..Latest : changes[n] \in Kinds
  BY <1>1 DEF TalkInv
<1>3. QED BY <1>1, <1>2, Numbers DEF TalkInv, Exists

\* A change is added at the end, and its webhook goes out.
LEMMA Grows ==
    ASSUME TalkInv, NEW kind \in Kinds, Change(kind)
    PROVE  /\ Latest' = Latest + 1 /\ Latest + 1 \in Ids
           /\ changes'[Latest + 1] = kind
           /\ \A n \in 1..Latest : changes'[n] = changes[n]
           /\ Exists' <=> kind # "delete"
           /\ kind = "create" <=> Latest = 0
           /\ kind # "create" => Exists
           /\ TalkInv'
<1>1. /\ Latest \in Nat /\ Latest < MaxChanges /\ changes \in Seq(Kinds)
      /\ changes' = Append(changes, kind) /\ namesEdit' = namesEdit
      /\ IF kind = "create" THEN Latest = 0 ELSE Exists
  BY LatestIsNumber DEF Change, TalkInv
<1>0. Latest \in Nat
  BY <1>1
<1>2. /\ Latest' = Latest + 1 /\ changes' \in Seq(Kinds)
      /\ changes'[Latest + 1] = kind
      /\ \A n \in 1..Latest : changes'[n] = changes[n]
  BY <1>1 DEF Latest
<1>3. Latest + 1 \in Ids
  BY <1>1, Numbers DEF Ids
<1>4. Exists' <=> kind # "delete"
  BY <1>1, <1>2 DEF Exists
<1>5. /\ kind = "create" <=> Latest = 0
      /\ kind # "create" => Exists
  BY <1>1 DEF Exists
<1>6. \A n \in 1..(Latest + 1) : /\ changes'[n] = "create" <=> n = 1
                                 /\ changes'[n] = "delete" => n = Latest + 1
  <2> SUFFICES ASSUME NEW n \in 1..(Latest + 1)
               PROVE  /\ changes'[n] = "create" <=> n = 1
                      /\ changes'[n] = "delete" => n = Latest + 1
    OBVIOUS
  <2>1. CASE n = Latest + 1
    <3>1. n = 1 <=> Latest = 0
      BY <1>0, <2>1
    <3>2. QED BY <1>2, <1>5, <2>1, <3>1
  <2>2. CASE n # Latest + 1
    <3>0. n \in 1..Latest /\ Latest # 0
      BY <1>0, <2>2
    <3>1. n \in 1..Latest /\ changes'[n] = changes[n] /\ Latest # 0
      BY <1>2, <3>0
    <3>2. Exists
      BY <1>5, <3>1
    <3>3. changes[n] # "delete"
      BY <3>1, <3>2, LatestIsNumber
    <3>4. QED BY <3>1, <3>3 DEF TalkInv
  <2>3. QED BY <2>1, <2>2
<1>7. TalkInv'
  <2>1. Latest + 1 <= MaxChanges
    BY <1>1, Numbers
  <2>2. namesEdit' \in Naming
    BY <1>1 DEF TalkInv
  <2>3. QED BY <1>2, <1>6, <2>1, <2>2 DEF TalkInv
<1>8. QED BY <1>2, <1>3, <1>4, <1>5, <1>7

LEMMA ReadStays ==
    ASSUME TalkInv, Latest' \in Nat, Latest <= Latest', NEW evt, IsRead(evt)
    PROVE  IsRead(evt)'
BY LatestIsNumber DEF IsRead

LEMMA WebhooksGrow ==
    ASSUME TalkInv, WebhooksInv, NEW kind \in Kinds, Change(kind)
    PROVE  /\ WebhooksInv' /\ Underway' = Underway \cup {Latest + 1}
           /\ portal' = portal
<1>1. /\ Latest \in Nat /\ Latest' = Latest + 1
      /\ sent' = sent \cup {Latest + 1} /\ UNCHANGED <<working, portal>>
  BY LatestIsNumber, Grows DEF Change
<1>2. \A w \in Workers : working[w].id \in Nat /\ working[w].id <= Latest
  BY LatestIsNumber DEF WebhooksInv
<1>3. \A w \in Workers : working[w].read # 0 => IsRead(working[w])'
  <2>1. TAKE w \in Workers
  <2>2. working' = working
    BY <1>1
  <2>3. QED BY <1>1, <2>2, LatestIsNumber DEF WebhooksInv, IsRead
<1>4. \A i \in 1..Len(portal) : IsRead(portal[i])'
  BY <1>1, LatestIsNumber DEF WebhooksInv, IsRead
<1>5. WebhooksInv'
  <2>1. sent' \subseteq 1..Latest'
    <3>1. sent \subseteq 1..Latest
      BY DEF WebhooksInv
    <3>2. 1..Latest \subseteq 1..(Latest + 1) /\ Latest + 1 \in 1..(Latest + 1)
      BY <1>1
    <3>3. QED BY <1>1, <3>1, <3>2
  <2>2. \A w \in Workers :
           /\ working[w].id <= Latest' /\ working[w].id \notin sent'
           /\ working[w].id = 0 => working[w].read = 0
           /\ \A v \in Workers \ {w} : working[v].id = working[w].id => working[v].id = 0
    BY <1>1, <1>2 DEF WebhooksInv
  <2>3. QED BY <1>1, <1>3, <1>4, <2>1, <2>2 DEF WebhooksInv
<1>6. QED BY <1>1, <1>5 DEF Underway

\* A worker takes a webhook, and reads for it what Talk has by then.
LEMMA TakeWebhooks ==
    ASSUME TalkInv, WebhooksInv, NEW w \in Workers, Take(w)
    PROVE  WebhooksInv' /\ Underway' = Underway
<1>1. PICK n \in sent : /\ working' = [working EXCEPT ![w] = [Idle EXCEPT !.id = n]]
                        /\ sent' = sent \ {n}
  BY DEF Take
<1>2. /\ working[w] = Idle /\ UNCHANGED <<changes, portal>>
      /\ n \in 1..Latest /\ Latest \in 0..MaxChanges
      /\ working \in [Workers -> [id : 0..MaxChanges, read : 0..MaxChanges]]
  BY LatestIsNumber DEF Take, talk, WebhooksInv
<1> DEFINE evt == [Idle EXCEPT !.id = n]
<1>3. evt.id = n /\ evt.read = 0 /\ evt \in [id : 0..MaxChanges, read : 0..MaxChanges]
  <2>1. n \in 0..MaxChanges /\ 0 \in 0..MaxChanges
    BY <1>2, Numbers
  <2>2. evt = [id |-> n, read |-> 0]
    BY DEF Idle
  <2> HIDE DEF evt
  <2>3. QED BY <2>1, <2>2
<1> HIDE DEF evt
<1>4. /\ working' \in [Workers -> [id : 0..MaxChanges, read : 0..MaxChanges]]
      /\ working'[w] = evt /\ \A v \in Workers : v # w => working'[v] = working[v]
  BY <1>1, <1>2, <1>3 DEF evt
<1>5. Latest' = Latest
  BY <1>2 DEF Latest
<1>6. \A v \in Workers : working[v].id # n
  BY <1>2 DEF WebhooksInv
<1>7. \A v \in Workers :
         /\ working'[v].id <= Latest /\ working'[v].id \notin sent'
         /\ working'[v].id = 0 => working'[v].read = 0
         /\ working'[v].read # 0 => IsRead(working'[v])
         /\ \A u \in Workers \ {v} : working'[u].id = working'[v].id => working'[u].id = 0
  BY <1>1, <1>2, <1>3, <1>4, <1>6 DEF WebhooksInv
<1>8. WebhooksInv'
  BY <1>1, <1>2, <1>4, <1>5, <1>7 DEF WebhooksInv, IsRead
<1>9. Underway' = Underway
  <2>1. \A m : (\E v \in Workers : m = working'[v].id /\ m # 0)
            <=> m = n \/ (\E v \in Workers : m = working[v].id /\ m # 0)
    BY <1>2, <1>3, <1>4 DEF Idle
  <2>2. QED BY <1>1, <2>1 DEF Underway
<1>10. QED BY <1>8, <1>9

LEMMA ReadWebhooks ==
    ASSUME TalkInv, WebhooksInv, NEW w \in Workers, Read(w)
    PROVE  WebhooksInv' /\ Underway' = Underway
<1> DEFINE n == working[w].id
<1>1. /\ n # 0 /\ working' = [working EXCEPT ![w].read = TextFor(n)]
      /\ UNCHANGED <<changes, sent, portal>>
      /\ working \in [Workers -> [id : 0..MaxChanges, read : 0..MaxChanges]]
      /\ n \in 1..Latest /\ Latest \in 0..MaxChanges
  BY LatestIsNumber DEF Read, talk, WebhooksInv
<1>2. TextFor(n) \in n..Latest /\ (n = 1 => TextFor(n) = 1)
  BY <1>1 DEF TextFor, TalkInv
<1> DEFINE evt == [working[w] EXCEPT !.read = TextFor(n)]
<1>3. /\ evt.id = n /\ evt.read = TextFor(n)
      /\ evt \in [id : 0..MaxChanges, read : 0..MaxChanges]
  <2>1. working[w] \in [id : 0..MaxChanges, read : 0..MaxChanges]
    BY <1>1
  <2>2. TextFor(n) \in 0..MaxChanges
    <3> DEFINE t == TextFor(n)
    <3>1. n \in Nat /\ Latest \in Nat /\ Latest <= MaxChanges /\ t \in n..Latest
      BY <1>1, <1>2
    <3> HIDE DEF t, n
    <3>2. t \in 0..MaxChanges
      BY <3>1, Numbers
    <3>3. QED BY <3>2 DEF t
  <2>3. QED BY <2>1, <2>2
<1>4. /\ working'[w] = evt /\ \A v \in Workers : v # w => working'[v] = working[v]
      /\ working' \in [Workers -> [id : 0..MaxChanges, read : 0..MaxChanges]]
  BY <1>1, <1>3
<1> HIDE DEF evt
<1>5. IsRead(evt) /\ Latest' = Latest
  BY <1>1, <1>2, <1>3 DEF IsRead, Latest
<1>6. \A v \in Workers : working'[v].id = working[v].id
  BY <1>3, <1>4
<1>7. \A v \in Workers :
         /\ working'[v].id <= Latest /\ working'[v].id \notin sent
         /\ working'[v].id = 0 => working'[v].read = 0
         /\ working'[v].read # 0 => IsRead(working'[v])
         /\ \A u \in Workers \ {v} : working'[u].id = working'[v].id => working'[u].id = 0
  <2>1. TAKE v \in Workers
  <2>2. /\ working'[v].id <= Latest /\ working'[v].id \notin sent
        /\ \A u \in Workers \ {v} : working'[u].id = working'[v].id => working'[u].id = 0
    BY <1>6 DEF WebhooksInv
  <2>3. /\ working'[v].id = 0 => working'[v].read = 0
        /\ working'[v].read # 0 => IsRead(working'[v])
    <3>1. CASE v = w
      BY <1>1, <1>3, <1>4, <1>5, <3>1
    <3>2. CASE v # w
      BY <1>4, <3>2 DEF WebhooksInv
    <3>3. QED BY <3>1, <3>2
  <2>4. QED BY <2>2, <2>3
<1>8. WebhooksInv'
  BY <1>1, <1>4, <1>5, <1>7 DEF WebhooksInv, IsRead
<1>9. Underway' = Underway
  BY <1>1, <1>6 DEF Underway
<1>10. QED BY <1>8, <1>9

\* A worker that is done with its webhook.
LEMMA WorkerFrees ==
    ASSUME TalkInv, WebhooksInv, NEW w \in Workers, working[w].id # 0,
           working' = [working EXCEPT ![w] = Idle], UNCHANGED <<changes, sent>>,
           portal' = portal \/ (IsRead(working[w]) /\ portal' = Append(portal, working[w]))
    PROVE  WebhooksInv' /\ Underway' = Underway \ {working[w].id}
<1>1. /\ working \in [Workers -> [id : 0..MaxChanges, read : 0..MaxChanges]]
      /\ Latest \in 0..MaxChanges /\ Latest' = Latest
  BY LatestIsNumber DEF WebhooksInv, Latest
<1>2. /\ working' \in [Workers -> [id : 0..MaxChanges, read : 0..MaxChanges]]
      /\ working'[w].id = 0 /\ working'[w].read = 0
      /\ \A v \in Workers : v # w => working'[v] = working[v]
  BY <1>1, Numbers DEF Idle
<1>3. \A v \in Workers :
         /\ working'[v].id <= Latest /\ working'[v].id \notin sent
         /\ working'[v].id = 0 => working'[v].read = 0
         /\ working'[v].read # 0 => IsRead(working'[v])
         /\ \A u \in Workers \ {v} : working'[u].id = working'[v].id => working'[u].id = 0
  BY <1>1, <1>2 DEF WebhooksInv
<1>4. portal' \in Seq([id : Ids, read : Ids]) /\ \A i \in 1..Len(portal') : IsRead(portal'[i])
  <2>1. CASE portal' = portal
    BY <2>1 DEF WebhooksInv
  <2>2. CASE IsRead(working[w]) /\ portal' = Append(portal, working[w])
    <3>1. working[w] \in [id : Ids, read : Ids]
      <4>1. working[w].id \in Ids /\ working[w].read \in Ids
        BY <1>1, <2>2, Numbers DEF IsRead, Ids
      <4>2. working[w] \in [id : 0..MaxChanges, read : 0..MaxChanges]
        BY <1>1
      <4>3. QED BY <4>1, <4>2
    <3>2. portal \in Seq([id : Ids, read : Ids])
      BY DEF WebhooksInv
    <3>3. /\ portal' \in Seq([id : Ids, read : Ids]) /\ Len(portal') = Len(portal) + 1
          /\ portal'[Len(portal) + 1] = working[w]
          /\ Len(portal) \in Nat /\ \A i \in 1..Len(portal) : portal'[i] = portal[i]
      BY <2>2, <3>1, <3>2
    <3>4. QED BY <2>2, <3>3 DEF WebhooksInv
  <2>3. QED BY <2>1, <2>2
<1>5. WebhooksInv'
  BY <1>1, <1>2, <1>3, <1>4 DEF WebhooksInv, IsRead
<1>6. Underway' = Underway \ {working[w].id}
  <2>1. working[w].id \notin sent /\ \A v \in Workers \ {w} : working[v].id # working[w].id
    BY DEF WebhooksInv
  <2>2. \A m : (\E v \in Workers : m = working'[v].id /\ m # 0)
            <=> m # working[w].id /\ (\E v \in Workers : m = working[v].id /\ m # 0)
    BY <1>2, <2>1
  <2>3. QED BY <2>1, <2>2 DEF Underway
<1>7. QED BY <1>5, <1>6

\* The portal takes the next event off its queue.
LEMMA ArrivesWebhooks ==
    ASSUME TalkInv, WebhooksInv, NEW kind \in Kinds, Arrives(kind)
    PROVE  /\ WebhooksInv' /\ TalkInv' /\ Underway' = Underway
           /\ Latest' = Latest /\ Exists' = Exists /\ changes' = changes
           /\ IsRead(Head(portal)) /\ changes[Head(portal).id] = kind
           /\ Head(portal) = portal[1] /\ Len(portal) \in Nat \ {0}
           /\ Len(portal') = Len(portal) - 1
           /\ \A i \in 1..(Len(portal) - 1) : portal'[i] = portal[i + 1]
<1>1. /\ portal # <<>> /\ portal' = Tail(portal) /\ changes[Head(portal).id] = kind
      /\ UNCHANGED <<namesEdit, changes, sent, working>>
      /\ portal \in Seq([id : Ids, read : Ids])
  BY DEF Arrives, talk, WebhooksInv
<1>2. /\ Head(portal) = portal[1] /\ Len(portal) \in Nat \ {0}
      /\ portal' \in Seq([id : Ids, read : Ids])
      /\ Len(portal') = Len(portal) - 1
      /\ \A i \in 1..(Len(portal) - 1) : portal'[i] = portal[i + 1]
  BY <1>1
<1>3. IsRead(portal[1])
  BY <1>2 DEF WebhooksInv
<1>4. Latest' = Latest /\ Exists' = Exists /\ Underway' = Underway
  BY <1>1 DEF Latest, Exists, Underway
<1>5. TalkInv'
  BY <1>1, <1>4 DEF TalkInv
<1>6. \A i \in 1..Len(portal') : IsRead(portal'[i])
  <2>1. \A i \in 1..Len(portal) : IsRead(portal[i])
    BY DEF WebhooksInv
  <2>2. TAKE i \in 1..Len(portal')
  <2>3. i \in 1..(Len(portal) - 1) /\ i + 1 \in 1..Len(portal)
    BY <1>2
  <2>4. portal'[i] = portal[i + 1]
    BY <1>2, <2>3
  <2>5. QED BY <2>1, <2>3, <2>4
<1>7. WebhooksInv'
  BY <1>1, <1>2, <1>4, <1>6 DEF WebhooksInv, IsRead
<1>8. QED BY <1>1, <1>2, <1>3, <1>4, <1>5, <1>7

-----------------------------------------------------------------------------
(* The message in Matrix *)

LEMMA MatrixAside ==
    ASSUME MatrixInv, orderly' \in BOOLEAN,
           UNCHANGED <<namesEdit, changes, row, text, own, carried>>
    PROVE  MatrixInv'
<1>1. Latest' = Latest /\ Exists' = Exists
  BY DEF Latest, Exists
<1>2. MatrixTypes' /\ RowShows' /\ EchoOfEdit'
  BY <1>1 DEF MatrixInv, MatrixTypes, RowShows, EchoOfEdit
<1>3. OwnIsKnown' /\ EchoIsNewest'
  BY <1>1 DEF MatrixInv, OwnIsKnown, EchoIsNewest, EchoCovers
<1>4. QED BY <1>2, <1>3 DEF MatrixInv

\* A change that the row does not learn of, from Talk or with its answer lost.
LEMMA MatrixUnheard ==
    ASSUME TalkInv, MatrixInv, NEW kind \in Kinds, Change(kind),
           UNCHANGED <<row, own, carried, orderly>>,
           text' = text \/ (row.exists /\ text' = Latest + 1)
    PROVE  MatrixInv'
<1>1. /\ Latest \in 0..MaxChanges /\ Latest' = Latest + 1 /\ Latest + 1 \in Ids
      /\ \A n \in 1..Latest : changes'[n] = changes[n] /\ changes[n] \in Kinds
      /\ Exists' <=> kind # "delete"
      /\ kind = "create" <=> Latest = 0
      /\ kind # "create" => Exists
      /\ namesEdit' = namesEdit
  BY Grows, LatestIsNumber DEF Change
<1>2. /\ row \in Rows
      /\ text \in 0..Latest /\ own \in 0..Latest /\ carried \in 0..Latest
      /\ orderly \in BOOLEAN
  BY DEF MatrixInv, MatrixTypes
<1>3. MatrixTypes'
  <2>1. text' \in 0..Latest' /\ own' \in 0..Latest' /\ carried' \in 0..Latest'
    BY <1>1, <1>2
  <2>2. QED BY <1>2, <2>1 DEF MatrixTypes
<1>4. RowShows'
  BY <1>1 DEF MatrixInv, RowShows
<1>5. EchoOfEdit'
  <2>1. row.echoID # 0 => row.echoID \in 1..Latest /\ changes'[row.echoID] = "edit"
    BY <1>1, <1>2 DEF MatrixInv, EchoOfEdit, Rows
  <2>2. row.echoID # 0 => row.echoID <= Latest'
    BY <1>1, <2>1
  <2>3. \A n \in 1..Latest : n \in 1..Latest'
    BY <1>1
  <2>4. QED BY <1>1, <2>1, <2>2, <2>3 DEF MatrixInv, EchoOfEdit
<1>6. OwnIsKnown'
  <2>1. Exists' /\ own # 0 => Exists
    BY <1>1, <1>2
  <2>2. text' = text \/ text' >= own
    BY <1>1, <1>2
  <2>3. QED BY <1>1, <2>1, <2>2 DEF MatrixInv, OwnIsKnown
<1>7. EchoIsNewest'
  <2> SUFFICES ASSUME ToldApart, row.exists,
                      IF namesEdit THEN row.echoID = Latest + 1
                      ELSE row.echoTS = Second[Latest + 1]
               PROVE  FALSE
    BY <1>1 DEF EchoIsNewest, EchoCovers
  <2>1. CASE namesEdit
    BY <1>1, <1>2, <2>1 DEF MatrixInv, EchoOfEdit
  <2>2. CASE ~ namesEdit
    <3>1. FALSE \in Naming
      BY <2>2, Numbers DEF TalkInv
    <3>2. Second[Latest + 1] \in Nat \ {0}
      BY <1>1, Numbers DEF Ids
    <3>3. PICK n \in 1..Latest : Second[n] = Second[Latest + 1]
      BY <2>2, <3>2 DEF MatrixInv, EchoOfEdit
    <3>4. n \in Ids /\ n < Latest + 1
      BY <1>1, Numbers DEF Ids
    <3>5. Second[n] < Second[Latest + 1]
      BY <1>1, <3>1, <3>4 DEF ToldApart
    <3>6. QED BY <3>2, <3>3, <3>5
  <2>3. QED BY <2>1, <2>2
<1>8. QED BY <1>3, <1>4, <1>5, <1>6, <1>7 DEF MatrixInv

LEMMA NewRowIsPlain ==
    /\ NoRow.exists = FALSE /\ NoRow.echoID = 0 /\ NoRow.echoTS = 0 /\ NoRow \in Rows
    /\ NewRow.exists = TRUE /\ NewRow.echoID = 0 /\ NewRow.echoTS = 0 /\ NewRow \in Rows
<1>1. NoRow.exists = FALSE /\ NoRow.echoID = 0 /\ NoRow.echoTS = 0 /\ NoRow \in Rows
  BY Numbers DEF NoRow, Rows
<1>2. NewRow.exists = TRUE /\ NewRow.echoID = 0 /\ NewRow.echoTS = 0
  BY DEF NewRow, NoRow
<1>3. NewRow \in Rows
  BY <1>1 DEF NewRow, Rows
<1>4. QED BY <1>1, <1>2, <1>3

\* A message from Matrix whose answer came.
LEMMA MatrixSends ==
    ASSUME TalkInv, MatrixInv, Change("create"), row' = NewRow, text' = 1,
           UNCHANGED <<own, carried, orderly>>
    PROVE  MatrixInv'
<1>1. Latest = 0 /\ Latest' = 1 /\ 1 \in Ids /\ namesEdit' = namesEdit
  BY Grows DEF Change, Kinds
<1>2. /\ own = 0 /\ carried = 0 /\ orderly \in BOOLEAN
  BY <1>1 DEF MatrixInv, MatrixTypes
<1>3. 1 \in 0..Latest' /\ 0 \in 0..Latest'
  BY <1>1
<1>4. MatrixTypes'
  BY <1>1, <1>2, <1>3, NewRowIsPlain DEF MatrixTypes
<1>5. RowShows' /\ EchoOfEdit' /\ OwnIsKnown'
  BY <1>1, <1>2, NewRowIsPlain DEF RowShows, EchoOfEdit, OwnIsKnown
<1>6. EchoIsNewest'
  BY <1>1 DEF EchoIsNewest
<1>7. QED BY <1>4, <1>5, <1>6 DEF MatrixInv

\* An edit from Matrix whose answer came.
LEMMA MatrixEdits ==
    ASSUME TalkInv, MatrixInv, row.exists, Change("edit"),
           row' = WithEcho(Latest + 1), text' = Latest + 1, own' = Latest + 1,
           UNCHANGED <<carried, orderly>>
    PROVE  MatrixInv'
<1>1. /\ Latest \in 0..MaxChanges /\ Latest' = Latest + 1 /\ Latest + 1 \in Ids
      /\ changes'[Latest + 1] = "edit" /\ namesEdit' = namesEdit
      /\ namesEdit \in BOOLEAN
  BY Grows, LatestIsNumber, Numbers DEF Change, Kinds, TalkInv
<1>2. /\ row \in Rows
      /\ carried \in 0..Latest
      /\ orderly \in BOOLEAN
  BY DEF MatrixInv, MatrixTypes
<1>3. /\ row'.exists /\ row'.echoTS = Second[Latest + 1]
      /\ row'.echoID = IF namesEdit THEN Latest + 1 ELSE 0
      /\ row' \in Rows
  <2> DEFINE a == IF namesEdit THEN Latest + 1 ELSE row.echoID
  <2>1. ~ namesEdit => row.echoID = 0
    BY DEF MatrixInv, EchoOfEdit
  <2>2. a \in 0..MaxChanges /\ a = IF namesEdit THEN Latest + 1 ELSE 0
    BY <1>1, <2>1, Numbers DEF Ids
  <2>3. row' = [row EXCEPT !.echoID = a, !.echoTS = Second[Latest + 1]]
    BY DEF WithEcho
  <2> HIDE DEF a
  <2>4. Latest + 1 \in Ids /\ row \in Rows /\ a \in 0..MaxChanges
    BY <1>1, <1>2, <2>2
  <2>5. /\ row.exists => row'.exists
        /\ row'.echoID = a /\ row'.echoTS = Second[Latest + 1] /\ row' \in Rows
    BY <2>3, <2>4 DEF Rows
  <2>6. QED BY <2>2, <2>5
<1>4. Latest + 1 # 0 /\ Latest + 1 \in 0..Latest' /\ Latest + 1 \in 1..Latest' /\ carried \in 0..Latest'
      /\ carried # Latest + 1 /\ Second[Latest + 1] # 0
  BY <1>1, <1>2, Numbers DEF Ids
<1>5. MatrixTypes'
  BY <1>2, <1>3, <1>4 DEF MatrixTypes
<1>6. RowShows'
  BY <1>3, <1>4 DEF MatrixInv, RowShows
<1>7. EchoOfEdit'
  BY <1>1, <1>3, <1>4 DEF EchoOfEdit
<1>8. OwnIsKnown'
  BY <1>1, <1>3, <1>4 DEF OwnIsKnown
<1>9. EchoIsNewest'
  BY <1>1 DEF EchoIsNewest
<1>10. QED BY <1>5, <1>6, <1>7, <1>8, <1>9 DEF MatrixInv

\* A deletion that the bridge knows of, from either side.
LEMMA MatrixLoses ==
    ASSUME MatrixInv, Latest \in 0..MaxChanges, ~ Exists', namesEdit' = namesEdit,
           Latest' \in Nat, Latest <= Latest', own' \in 0..Latest',
           row' = NoRow, text' = 0,
           UNCHANGED <<carried, orderly>>
    PROVE  MatrixInv'
<1>1. NoRow.exists = FALSE /\ NoRow.echoID = 0 /\ NoRow.echoTS = 0 /\ NoRow \in Rows
  BY NewRowIsPlain
<1>2. carried \in 0..Latest /\ orderly \in BOOLEAN
  BY DEF MatrixInv, MatrixTypes
<1>3. MatrixTypes'
  <2>1. carried \in 0..Latest' /\ 0 \in 0..Latest'
    BY <1>2
  <2>2. QED BY <1>1, <1>2, <2>1 DEF MatrixTypes
<1>4. RowShows'
  BY <1>1 DEF RowShows
<1>5. EchoOfEdit' /\ OwnIsKnown' /\ EchoIsNewest'
  BY <1>1 DEF EchoOfEdit, OwnIsKnown, EchoIsNewest
<1>6. QED BY <1>3, <1>4, <1>5 DEF MatrixInv

\* A creation comes to the portal.
LEMMA CreateMatrix ==
    ASSUME TalkInv, WebhooksInv, MatrixInv, BridgeCreate
    PROVE  MatrixInv' /\ row'.exists /\ (~ row.exists => text' = 1) /\ (row.exists => text' = text)
<1>1. /\ Arrives("create") /\ "create" \in Kinds /\ Latest \in 0..MaxChanges
      /\ UNCHANGED <<namesEdit, changes, own, carried, orderly>>
  BY LatestIsNumber DEF BridgeCreate, Arrives, Kinds, talk
<1>2. /\ Head(portal).id \in 1..Latest /\ changes[Head(portal).id] = "create"
      /\ Head(portal).id = 1 => Head(portal).read = 1
      /\ Latest' = Latest /\ Exists' = Exists
  BY <1>1, ArrivesWebhooks DEF IsRead
<1>3. Head(portal).read = 1 /\ Latest # 0
  BY <1>1, <1>2 DEF TalkInv
<1>4. CASE row.exists /\ UNCHANGED <<row, text>>
  BY <1>1, <1>4, MatrixAside DEF MatrixInv, MatrixTypes
<1>5. CASE ~ row.exists /\ row' = NewRow /\ text' = 1
  <2>2. 1 \in 0..Latest
    BY <1>1, <1>3
  <2>3. MatrixTypes'
    BY <1>1, <1>2, <1>5, <2>2, NewRowIsPlain DEF MatrixInv, MatrixTypes
  <2>4. RowShows' /\ EchoOfEdit'
    BY <1>5, NewRowIsPlain DEF MatrixInv, RowShows, EchoOfEdit
  <2>5. OwnIsKnown'
    BY <1>1, <1>2, <1>5 DEF MatrixInv, OwnIsKnown
  <2>6. EchoIsNewest'
    <3>1. Latest \in Ids
      BY <1>1, <1>3 DEF Ids
    <3>2. Second[Latest] # 0
      BY <3>1, Numbers DEF Ids
    <3>3. QED BY <1>1, <1>2, <1>3, <1>5, NewRowIsPlain, <3>2 DEF EchoIsNewest, EchoCovers
  <2>7. QED BY <1>5, NewRowIsPlain, <2>3, <2>4, <2>5, <2>6 DEF MatrixInv
<1>6. QED BY <1>3, <1>4, <1>5 DEF BridgeCreate

\* An edit comes to the portal.  What is not an echo is newer than everything the
\* bridge has edited; an echo of the newest change finds its text there.
LEMMA EditMatrix ==
    ASSUME TalkInv, WebhooksInv, MatrixInv, BridgeEdit
    PROVE  /\ MatrixInv' /\ row' = row
           /\ ToldApart /\ Exists /\ row.exists /\ Head(portal).id = Latest => text' = Latest
<1> DEFINE evt == Head(portal)
<1>1. /\ Arrives("edit") /\ "edit" \in Kinds /\ Latest \in 0..MaxChanges
      /\ UNCHANGED <<namesEdit, changes, row, own, orderly>>
      /\ namesEdit \in BOOLEAN
  BY LatestIsNumber, Numbers DEF BridgeEdit, Arrives, Kinds, talk, TalkInv
<1>0. Latest \in Nat /\ MaxChanges \in Nat /\ Latest <= MaxChanges
  BY <1>1, Numbers
<1>2. /\ evt.id \in 1..Latest /\ changes[evt.id] = "edit" /\ evt.read \in evt.id..Latest
      /\ Latest' = Latest /\ Exists' = Exists
  BY <1>1, ArrivesWebhooks DEF IsRead
<1> HIDE DEF evt
<1>3. /\ evt.id \in Nat /\ evt.read \in Nat /\ evt.id # 1 /\ evt.id <= evt.read
      /\ evt.read <= Latest /\ evt.id <= Latest /\ Latest \in Ids /\ evt.read \in 1..Latest
      /\ evt.read # 1 /\ Latest # 0
  BY <1>1, <1>2 DEF TalkInv, Ids
<1>4. /\ row \in Rows /\ text \in 0..Latest /\ own \in 0..Latest /\ carried \in 0..Latest
      /\ row.echoID \in 0..MaxChanges
  BY DEF MatrixInv, MatrixTypes, Rows
\* What the edit is told by: its number, or the second of the text read for it.
<1>5. Exists => EditedAt(evt.read) = Second[evt.read] /\ Second[evt.read] \in Nat \ {0}
  <2>1. Exists => changes[evt.read] = "edit"
    BY <1>3, LatestIsNumber DEF TalkInv, Kinds
  <2>2. evt.read \in 1..MaxChanges
    BY <1>0, <1>3
  <2>3. QED BY <2>1, <2>2, Numbers DEF EditedAt
<1>6. row.echoTS # 0 => \E n \in 1..Latest : row.echoTS = Second[n]
  BY DEF MatrixInv, EchoOfEdit
<1>7. row.echoTS \in Nat /\ row.echoTS <= Second[Latest] /\ Second[Latest] \in Nat \ {0}
  <2>1. Second[Latest] \in Nat \ {0}
    BY <1>3, Numbers DEF Ids
  <2>2. \A n \in 1..Latest : n \in 1..MaxChanges /\ n <= Latest /\ Latest \in 1..MaxChanges
    BY <1>0
  <2>3. \A n \in 1..Latest : Second[n] \in Nat /\ Second[n] <= Second[Latest]
    BY <2>2, Numbers
  <2>4. QED BY <1>6, <2>1, <2>3
<1>8. CASE UNCHANGED <<text, carried>>
  <2>1. MatrixInv'
    BY <1>1, <1>8, MatrixAside DEF MatrixInv, MatrixTypes
  <2>2. ASSUME ToldApart, Exists, row.exists, evt.id = Latest, IsEditEcho(evt)
        PROVE  text = Latest
    <3>1. CASE namesEdit
      <4>1. row.echoID > 0
        BY <1>4, <2>2, <3>1 DEF IsEditEcho, MatrixInv, EchoOfEdit
      <4>2. row.echoID = Latest
        BY <1>3, <1>4, <2>2, <4>1 DEF IsEditEcho, MatrixInv, EchoOfEdit
      <4>3. QED BY <2>2, <3>1, <4>2 DEF MatrixInv, EchoIsNewest, EchoCovers
    <3>2. CASE ~ namesEdit
      <4>1. row.echoID = 0
        BY <3>2 DEF MatrixInv, EchoOfEdit
      <4>2. evt.read = Latest
        BY <1>3, <2>2
      <4>3. Second[Latest] <= row.echoTS
        BY <1>5, <2>2, <4>1, <4>2 DEF IsEditEcho
      <4>4. row.echoTS = Second[Latest]
        BY <1>7, <4>3
      <4>5. QED BY <2>2, <3>2, <4>4 DEF MatrixInv, EchoIsNewest, EchoCovers
    <3>3. QED BY <3>1, <3>2
  <2>3. row.exists => IsEditEcho(evt) \/ text' = evt.read
    BY DEF BridgeEdit, evt
  <2>4. QED BY <1>1, <1>3, <1>8, <2>1, <2>2, <2>3 DEF evt
<1>9. CASE /\ row.exists /\ ~ IsEditEcho(evt)
           /\ text' = evt.read /\ carried' = evt.read
  <2>1. MatrixTypes'
    BY <1>1, <1>2, <1>3, <1>9 DEF MatrixInv, MatrixTypes
  <2>2. RowShows' /\ EchoOfEdit'
    BY <1>1, <1>2, <1>3, <1>9 DEF MatrixInv, RowShows, EchoOfEdit
  <2>3. ASSUME Exists, own # 0 PROVE evt.read > own
    <3>1. CASE namesEdit
      <4>1. row.echoID = own
        BY <2>3, <3>1 DEF MatrixInv, OwnIsKnown
      <4>2. QED BY <1>3, <1>4, <1>9, <2>3, <4>1 DEF IsEditEcho
    <3>2. CASE ~ namesEdit
      <4>1. row.echoTS = Second[own] /\ row.echoID = 0
        BY <2>3, <3>2 DEF MatrixInv, OwnIsKnown, EchoOfEdit
      <4>2. own \in 1..MaxChanges /\ evt.read \in 1..MaxChanges
        BY <1>0, <1>3, <1>4, <2>3
      <4>3. Second[own] \in Nat \ {0} /\ (evt.read <= own => Second[evt.read] <= Second[own])
        BY <4>2, Numbers
      <4>4. ~ (Second[evt.read] <= Second[own])
        BY <1>5, <1>9, <2>3, <4>1, <4>3 DEF IsEditEcho
      <4>5. QED BY <1>3, <4>2, <4>3, <4>4
    <3>3. QED BY <3>1, <3>2
  <2>4. OwnIsKnown'
    <3>1. Exists /\ own # 0 => evt.read >= own /\ evt.read # own
      BY <1>3, <1>4, <2>3
    <3>2. QED BY <1>1, <1>2, <1>9, <3>1 DEF MatrixInv, OwnIsKnown
  <2>5. EchoIsNewest'
    <3> SUFFICES ASSUME Exists, EchoCovers PROVE FALSE
      BY <1>1, <1>2 DEF EchoIsNewest, EchoCovers
    <3>1. CASE namesEdit
      <4>1. row.echoID = Latest /\ Latest > 0
        BY <1>0, <1>3, <3>1 DEF EchoCovers
      <4>2. QED BY <1>3, <1>9, <4>1 DEF IsEditEcho
    <3>2. CASE ~ namesEdit
      <4>1. row.echoTS = Second[Latest] /\ row.echoID = 0
        BY <3>2 DEF EchoCovers, MatrixInv, EchoOfEdit
      <4>2. Second[evt.read] <= Second[Latest]
        <5>1. evt.read \in 1..MaxChanges /\ Latest \in 1..MaxChanges /\ evt.read <= Latest
          BY <1>0, <1>3
        <5>2. QED BY <5>1, Numbers
      <4>3. QED BY <1>5, <1>7, <1>9, <4>1, <4>2 DEF IsEditEcho
    <3>3. QED BY <3>1, <3>2
  <2>6. MatrixInv'
    BY <2>1, <2>2, <2>4, <2>5 DEF MatrixInv
  <2>7. evt.id = Latest => text' = Latest
    BY <1>3, <1>9
  <2>8. QED BY <1>1, <2>6, <2>7 DEF evt
<1>10. QED BY <1>8, <1>9 DEF BridgeEdit, evt

-----------------------------------------------------------------------------
(* Working off the changes in order *)

LEMMA StepAside ==
    ASSUME InStep, orderly' => orderly, Underway' = Underway,
           UNCHANGED <<namesEdit, changes, portal, row, text>>
    PROVE  InStep'
<1>1. Latest' = Latest /\ Exists' = Exists /\ Consistent' = Consistent
  BY DEF Latest, Exists, Consistent
<1>2. QED BY <1>1 DEF InStep, UpTo

\* A change is not worked off yet.
LEMMA StepGrows ==
    ASSUME TalkInv, WebhooksInv, MatrixInv, InStep, NEW kind \in Kinds, Change(kind),
           orderly' = orderly, Exists' /\ row.exists => row'.exists
    PROVE  InStep'
<1>1. /\ Latest \in Nat /\ Latest' = Latest + 1
      /\ Latest # 0 /\ Exists' => Exists
      /\ Underway' = Underway \cup {Latest + 1} /\ portal' = portal
  BY Grows, WebhooksGrow, LatestIsNumber
<1>2. SUFFICES ASSUME orderly PROVE \E d \in 0..Latest' : UpTo(d)'
  BY DEF InStep
<1>3. PICK d \in 0..Latest : UpTo(d)
  BY <1>2 DEF InStep
<1>4. d \in Nat /\ d <= Latest /\ d \in 0..(Latest + 1) /\ d # Latest + 1
  BY <1>1, <1>3
<1>5. Len(portal) \in Nat
  BY DEF WebhooksInv
<1>6. /\ Underway' = (d + Len(portal) + 1)..(Latest + 1)
      /\ d + Len(portal) <= Latest + 1
  <2> DEFINE n == d + Len(portal)
  <2>1. n \in Nat /\ n <= Latest /\ Underway = (n + 1)..Latest
    BY <1>3, <1>4, <1>5 DEF UpTo
  <2> HIDE DEF n
  <2>2. Underway' = (n + 1)..(Latest + 1) /\ n <= Latest + 1
    BY <1>1, <2>1
  <2>3. QED BY <2>2 DEF n
<1>7. d # 0 /\ Exists' => row'.exists
  <2>1. d # 0 => Latest # 0
    BY <1>1, <1>4
  <2>2. QED BY <1>1, <1>3, <2>1 DEF UpTo
<1>8. UpTo(d)'
  BY <1>1, <1>3, <1>4, <1>6, <1>7 DEF UpTo
<1>9. QED BY <1>1, <1>4, <1>8

\* The oldest change on its way is queued.
LEMMA StepQueues ==
    ASSUME TalkInv, WebhooksInv, InStep, NEW w \in Workers, Queue(w)
    PROVE  InStep'
<1> DEFINE m == working[w].id
           l == Len(portal)
<1>1. /\ portal' = Append(portal, working[w]) /\ UNCHANGED <<namesEdit, changes, row, text>>
      /\ orderly' => orderly /\ \A n \in Underway : m <= n
      /\ working[w].read # 0 /\ working' = [working EXCEPT ![w] = Idle] /\ sent' = sent
  BY DEF Queue, talk, matrix
<1>2. /\ m # 0 /\ IsRead(working[w]) /\ m \in 1..Latest /\ Latest \in Nat
  BY <1>1, LatestIsNumber DEF WebhooksInv, IsRead
<1>3. m \in Underway
  BY <1>2 DEF Underway
<1>4. Underway' = Underway \ {m}
  BY <1>1, <1>2, WorkerFrees
<1>5. /\ l \in Nat /\ Len(portal') = l + 1
      /\ portal'[l + 1] = working[w] /\ \A i \in 1..l : portal'[i] = portal[i]
  <2>1. portal \in Seq([id : Ids, read : Ids])
    BY DEF WebhooksInv
  <2>2. QED BY <1>1, <2>1
<1>6. Latest' = Latest /\ Exists' = Exists /\ Consistent' = Consistent
  BY <1>1 DEF Latest, Exists, Consistent
<1>7. SUFFICES ASSUME orderly, \A n \in Underway : m <= n PROVE \E d \in 0..Latest : UpTo(d)'
  BY <1>1, <1>6 DEF InStep
<1>8. PICK d \in 0..Latest : UpTo(d)
  BY <1>7 DEF InStep
<1>9. d \in Nat /\ Underway = (d + l + 1)..Latest
  BY <1>2, <1>8 DEF UpTo
<1> HIDE DEF m, l
<1>10. m = d + l + 1
  <2>1. m \in (d + l + 1)..Latest
    BY <1>3, <1>9
  <2>2. d + l + 1 \in Underway
    BY <1>2, <1>5, <1>9, <2>1
  <2>3. m <= d + l + 1
    BY <1>7, <2>2
  <2>4. QED BY <1>2, <1>5, <1>9, <2>1, <2>3
<1>11. Underway' = (d + (l + 1) + 1)..Latest /\ d + (l + 1) <= Latest
  BY <1>2, <1>4, <1>5, <1>9, <1>10
<1>12. \A i \in 1..(l + 1) : portal'[i].id = d + i
  <2>1. TAKE i \in 1..(l + 1)
  <2>2. CASE i = l + 1
    BY <1>5, <1>9, <1>10, <2>2 DEF m
  <2>3. CASE i \in 1..l
    BY <1>5, <1>8, <2>3 DEF UpTo, l
  <2>4. QED BY <1>5, <2>2, <2>3
<1>13. UpTo(d)'
  BY <1>1, <1>5, <1>6, <1>8, <1>11, <1>12 DEF UpTo
<1>14. QED BY <1>13

\* The next change is worked off; the newest one leaves Matrix as Talk is.
LEMMA StepArrives ==
    ASSUME TalkInv, WebhooksInv, InStep, NEW kind \in Kinds, Arrives(kind),
           Exists /\ (row.exists \/ Head(portal).id = 1) => row'.exists,
           /\ ToldApart /\ Head(portal).id = Latest
           /\ Exists /\ Latest # 1 => row.exists
           => Consistent'
    PROVE  InStep'
<1> DEFINE l == Len(portal)
           h == Head(portal).id
<1>1. /\ Latest' = Latest /\ Exists' = Exists /\ Underway' = Underway
      /\ h = portal[1].id /\ l \in Nat \ {0} /\ Len(portal') = l - 1
      /\ \A i \in 1..(l - 1) : portal'[i] = portal[i + 1]
      /\ h \in 1..Latest /\ Latest \in Nat /\ orderly' = orderly
  <2>1. /\ Latest' = Latest /\ Exists' = Exists /\ Underway' = Underway
        /\ Head(portal) = portal[1] /\ l \in Nat \ {0} /\ Len(portal') = l - 1
        /\ \A i \in 1..(l - 1) : portal'[i] = portal[i + 1] /\ IsRead(Head(portal))
    BY ArrivesWebhooks
  <2>2. h \in 1..Latest /\ h = portal[1].id
    <3>1. h \in 1..Latest
      BY ArrivesWebhooks DEF IsRead
    <3>2. h = portal[1].id
      BY <2>1
    <3>3. QED BY <3>1, <3>2
  <2>3. Latest \in Nat /\ orderly' = orderly
    BY LatestIsNumber DEF Arrives
  <2> HIDE DEF h
  <2>4. QED BY <2>1, <2>2, <2>3
<1> HIDE DEF h
<1>2. SUFFICES ASSUME orderly PROVE \E d \in 0..Latest : UpTo(d)'
  BY <1>1 DEF InStep
<1>3. PICK d \in 0..Latest : UpTo(d)
  BY <1>2 DEF InStep
<1>4. /\ \A i \in 1..l : portal[i].id = d + i
      /\ Underway = (d + l + 1)..Latest /\ d + l <= Latest
      /\ d # 0 /\ Exists => row.exists
  BY <1>3 DEF UpTo
<1> HIDE DEF l
<1>5. d \in Nat /\ h = d + 1 /\ d + 1 \in 0..Latest
  BY <1>1, <1>4
<1>6. \A i \in 1..(l - 1) : portal'[i].id = d + 1 + i
  <2>1. TAKE i \in 1..(l - 1)
  <2>2. i + 1 \in 1..l
    BY <1>1
  <2>3. portal[i + 1].id = d + (i + 1)
    BY <1>4, <2>2
  <2>4. QED BY <1>1, <1>5, <2>3
<1>7. d + 1 + (l - 1) = d + l
  BY <1>1, <1>5
<1>8. Underway' = (d + 1 + (l - 1) + 1)..Latest /\ d + 1 + (l - 1) <= Latest
  BY <1>1, <1>4, <1>7
<1>9. Exists => row'.exists
  <2>1. d = 0 => h = 1
    BY <1>5
  <2>2. QED BY <1>4, <2>1 DEF h
<1>10. ToldApart /\ d + 1 = Latest => Consistent'
  <2>1. d + 1 = Latest => h = Latest /\ (Latest # 1 => d # 0)
    BY <1>5
  <2>2. QED BY <1>4, <2>1 DEF h
<1>11. UpTo(d + 1)'
  BY <1>1, <1>6, <1>8, <1>9, <1>10 DEF UpTo
<1>12. QED BY <1>5, <1>11

-----------------------------------------------------------------------------
(* The invariant *)

LEMMA InitInv == Init => ChangesInv
<1> SUFFICES ASSUME Init PROVE ChangesInv
  OBVIOUS
<1>1. /\ Latest = 0 /\ ~ Exists /\ Len(portal) = 0
      /\ Idle.id = 0 /\ Idle.read = 0
      /\ Idle \in [id : 0..MaxChanges, read : 0..MaxChanges]
  <2>1. 0 \in 0..MaxChanges
    BY Numbers
  <2>2. QED BY <2>1 DEF Init, Latest, Exists, Idle
<1>2. TalkInv
  BY <1>1, Numbers DEF TalkInv, Init
<1>3. WebhooksInv
  BY <1>1 DEF WebhooksInv, Init
<1>4. MatrixInv
  <2>1. MatrixTypes
    <3>1. 0 \in 0..Latest
      BY <1>1
    <3>2. QED BY <3>1, NewRowIsPlain DEF Init, MatrixTypes
  <2>2. RowShows /\ EchoOfEdit
    BY NewRowIsPlain DEF Init, RowShows, EchoOfEdit
  <2>3. OwnIsKnown /\ EchoIsNewest
    BY <1>1 DEF OwnIsKnown, EchoIsNewest
  <2>4. QED BY <2>1, <2>2, <2>3 DEF MatrixInv
<1>5. InStep
  <2>1. Underway = {}
    BY <1>1 DEF Init, Underway
  <2>2. Consistent
    BY <1>1, NewRowIsPlain DEF Consistent, Init
  <2>3. UpTo(0)
    BY <1>1, <2>1, <2>2 DEF UpTo
  <2>4. 0 \in 0..Latest
    BY <1>1
  <2>5. QED BY <2>3, <2>4 DEF InStep
<1>6. QED BY <1>2, <1>3, <1>4, <1>5 DEF ChangesInv

LEMMA TalkAside ==
    ASSUME TalkInv, UNCHANGED <<namesEdit, changes>>
    PROVE  TalkInv'
BY DEF TalkInv, Latest

LEMMA TalkChangesKeeps ==
    ASSUME ChangesInv, NEW kind \in Kinds, TalkChanges(kind)
    PROVE  ChangesInv'
<1>1. /\ TalkInv /\ WebhooksInv /\ MatrixInv /\ InStep /\ Change(kind)
      /\ UNCHANGED <<row, text, own, carried, orderly>>
  BY DEF ChangesInv, TalkChanges, matrix, history
<1>2. QED BY <1>1, Grows, WebhooksGrow, MatrixUnheard, StepGrows DEF ChangesInv

LEMMA WorkerKeeps ==
    ASSUME ChangesInv, NEW w \in Workers, Take(w) \/ Read(w) \/ ReadFails(w) \/ Queue(w)
    PROVE  ChangesInv'
<1>1. /\ TalkInv /\ WebhooksInv /\ MatrixInv /\ InStep /\ orderly \in BOOLEAN
  BY DEF ChangesInv, MatrixInv, MatrixTypes
<1>2. /\ UNCHANGED <<namesEdit, changes, row, text, own, carried>>
      /\ orderly' \in BOOLEAN /\ (orderly' => orderly)
  <2>1. UNCHANGED <<namesEdit, changes, row, text, own, carried>>
    BY DEF Take, Read, ReadFails, Queue, talk, matrix, history
  <2>2. orderly' = orderly \/ orderly' = FALSE
        \/ orderly' = (orderly /\ \A n \in Underway : working[w].id <= n)
    BY DEF Take, Read, ReadFails, Queue, history
  <2>3. orderly' \in BOOLEAN
    BY <1>1, <2>2
  <2>4. orderly' => orderly
    BY <1>1, <2>2
  <2>5. QED BY <2>1, <2>3, <2>4
<1>3. TalkInv' /\ MatrixInv'
  BY <1>1, <1>2, TalkAside, MatrixAside
<1>4. CASE Take(w) \/ Read(w)
  <2>1. WebhooksInv' /\ Underway' = Underway
    BY <1>1, <1>4, TakeWebhooks, ReadWebhooks
  <2>2. portal' = portal
    BY <1>4 DEF Take, Read
  <2>3. InStep'
    BY <1>1, <1>2, <2>1, <2>2, StepAside
  <2>4. QED BY <1>3, <2>1, <2>3 DEF ChangesInv
<1>5. CASE ReadFails(w)
  <2>1. /\ working[w].id # 0 /\ working' = [working EXCEPT ![w] = Idle]
        /\ UNCHANGED <<changes, sent, portal>> /\ ~ orderly'
    BY <1>5 DEF ReadFails, talk
  <2>2. WebhooksInv'
    BY <1>1, <2>1, WorkerFrees
  <2>3. InStep'
    BY <2>1 DEF InStep
  <2>4. QED BY <1>3, <2>2, <2>3 DEF ChangesInv
<1>6. CASE Queue(w)
  <2>1. /\ working[w].read # 0 /\ working' = [working EXCEPT ![w] = Idle]
        /\ UNCHANGED <<changes, sent>> /\ portal' = Append(portal, working[w])
    BY <1>6 DEF Queue, talk
  <2>2. IsRead(working[w]) /\ working[w].id # 0
    BY <1>1, <2>1 DEF WebhooksInv
  <2>3. WebhooksInv'
    BY <1>1, <2>1, <2>2, WorkerFrees
  <2>4. InStep'
    BY <1>1, <1>6, StepQueues
  <2>5. QED BY <1>3, <2>3, <2>4 DEF ChangesInv
<1>7. QED BY <1>4, <1>5, <1>6

LEMMA BridgeCreateKeeps ==
    ASSUME ChangesInv, BridgeCreate
    PROVE  ChangesInv'
<1>1. /\ TalkInv /\ WebhooksInv /\ MatrixInv /\ InStep
      /\ Arrives("create") /\ "create" \in Kinds
  BY DEF ChangesInv, BridgeCreate, Kinds
<1>2. /\ WebhooksInv' /\ TalkInv' /\ Latest' = Latest /\ Exists' = Exists
      /\ Head(portal).id \in 1..Latest /\ changes[Head(portal).id] = "create"
      /\ Latest \in Nat
  BY <1>1, ArrivesWebhooks, LatestIsNumber DEF IsRead
<1>3. Head(portal).id = 1
  BY <1>2, <1>1 DEF TalkInv
<1>4. MatrixInv' /\ row'.exists /\ (~ row.exists => text' = 1) /\ (row.exists => text' = text)
  BY <1>1, CreateMatrix
<1>5. Latest = 1 => Consistent'
  <2> SUFFICES ASSUME Latest = 1 PROVE Consistent'
    OBVIOUS
  <2>1. Exists
    BY <1>2, <1>3 DEF Exists
  <2>2. row.exists => text = 1
    BY DEF ChangesInv, MatrixInv, MatrixTypes, RowShows
  <2>3. QED BY <1>2, <1>4, <2>1, <2>2 DEF Consistent
<1>6. InStep'
  BY <1>1, <1>3, <1>4, <1>5, StepArrives
<1>7. QED BY <1>2, <1>4, <1>6 DEF ChangesInv

LEMMA BridgeEditKeeps ==
    ASSUME ChangesInv, BridgeEdit
    PROVE  ChangesInv'
<1>1. /\ TalkInv /\ WebhooksInv /\ MatrixInv /\ InStep
      /\ Arrives("edit") /\ "edit" \in Kinds
  BY DEF ChangesInv, BridgeEdit, Kinds
<1>2. /\ WebhooksInv' /\ TalkInv' /\ Latest' = Latest /\ Exists' = Exists
      /\ Head(portal).id \in 1..Latest /\ changes[Head(portal).id] = "edit"
      /\ Latest \in Nat
  BY <1>1, ArrivesWebhooks, LatestIsNumber DEF IsRead
<1>3. Head(portal).id # 1
  BY <1>2, <1>1 DEF TalkInv
<1>4. /\ MatrixInv' /\ row' = row
      /\ ToldApart /\ Exists /\ row.exists /\ Head(portal).id = Latest => text' = Latest
  BY <1>1, EditMatrix
<1>5. ASSUME ToldApart, Head(portal).id = Latest, Exists /\ Latest # 1 => row.exists
      PROVE  Consistent'
  <2>1. Exists
    BY <1>2, <1>5 DEF Exists
  <2>2. row.exists
    BY <1>3, <1>5, <2>1
  <2>3. text' = Latest
    BY <1>4, <1>5, <2>1, <2>2
  <2>4. QED BY <1>2, <1>4, <2>1, <2>2, <2>3 DEF Consistent
<1>6. InStep'
  BY <1>1, <1>3, <1>4, <1>5, StepArrives
<1>7. QED BY <1>2, <1>4, <1>6 DEF ChangesInv

LEMMA BridgeRemoveKeeps ==
    ASSUME ChangesInv, BridgeRemove
    PROVE  ChangesInv'
<1>1. /\ TalkInv /\ WebhooksInv /\ MatrixInv /\ InStep
      /\ Arrives("delete") /\ "delete" \in Kinds
      /\ UNCHANGED <<namesEdit, own, carried, orderly>>
      /\ row' = NoRow /\ text' = 0 /\ own \in 0..Latest
  BY DEF ChangesInv, BridgeRemove, Kinds, Arrives, talk, MatrixInv, MatrixTypes
<1>2. /\ WebhooksInv' /\ TalkInv' /\ Latest' = Latest /\ Exists' = Exists
      /\ Head(portal).id \in 1..Latest /\ changes[Head(portal).id] = "delete"
      /\ Latest \in 0..MaxChanges
  BY <1>1, ArrivesWebhooks, LatestIsNumber DEF IsRead
<1>3. ~ Exists
  BY <1>1, <1>2, LatestIsNumber
<1>4. MatrixInv'
  BY <1>1, <1>2, <1>3, MatrixLoses
<1>5. Consistent'
  BY <1>1, <1>2, <1>3, NewRowIsPlain DEF Consistent
<1>6. InStep'
  BY <1>1, <1>3, <1>5, StepArrives
<1>7. QED BY <1>2, <1>4, <1>6 DEF ChangesInv

LEMMA MatrixSendKeeps ==
    ASSUME ChangesInv, MatrixSend
    PROVE  ChangesInv'
<1>1. /\ TalkInv /\ WebhooksInv /\ MatrixInv /\ InStep
      /\ Change("create") /\ "create" \in Kinds
      /\ UNCHANGED <<own, carried, orderly>>
  BY DEF ChangesInv, MatrixSend, Kinds, history
<1>2. TalkInv' /\ WebhooksInv'
  BY <1>1, Grows, WebhooksGrow
<1>3. CASE row' = NewRow /\ text' = 1
  <2>1. MatrixInv'
    BY <1>1, <1>3, MatrixSends
  <2>2. InStep'
    BY <1>1, <1>3, StepGrows, NewRowIsPlain
  <2>3. QED BY <1>2, <2>1, <2>2 DEF ChangesInv
<1>4. CASE UNCHANGED <<row, text>>
  <2>1. MatrixInv'
    BY <1>1, <1>4, MatrixUnheard
  <2>2. InStep'
    BY <1>1, <1>4, StepGrows
  <2>3. QED BY <1>2, <2>1, <2>2 DEF ChangesInv
<1>5. QED BY <1>3, <1>4 DEF MatrixSend

LEMMA MatrixEditKeeps ==
    ASSUME ChangesInv, MatrixEdit
    PROVE  ChangesInv'
<1>1. /\ TalkInv /\ WebhooksInv /\ MatrixInv /\ InStep
      /\ Change("edit") /\ "edit" \in Kinds /\ row.exists /\ text' = Latest + 1
      /\ UNCHANGED <<carried, orderly>>
  BY DEF ChangesInv, MatrixEdit, Kinds, MatrixInv, MatrixTypes
<1>2. TalkInv' /\ WebhooksInv'
  BY <1>1, Grows, WebhooksGrow
<1>3. CASE row' = WithEcho(Latest + 1) /\ own' = Latest + 1
  <2>1. MatrixInv'
    BY <1>1, <1>3, MatrixEdits
  <2>2. row'.exists
    BY <1>1, <1>3 DEF WithEcho, MatrixInv, MatrixTypes, Rows
  <2>3. InStep'
    BY <1>1, <2>2, StepGrows
  <2>4. QED BY <1>2, <2>1, <2>3 DEF ChangesInv
<1>4. CASE UNCHANGED <<row, own>>
  <2>1. MatrixInv'
    BY <1>1, <1>4, MatrixUnheard
  <2>2. InStep'
    BY <1>1, <1>4, StepGrows
  <2>3. QED BY <1>2, <2>1, <2>2 DEF ChangesInv
<1>5. QED BY <1>3, <1>4 DEF MatrixEdit

LEMMA MatrixDeleteKeeps ==
    ASSUME ChangesInv, MatrixDelete
    PROVE  ChangesInv'
<1>1. /\ TalkInv /\ WebhooksInv /\ MatrixInv /\ InStep
      /\ Change("delete") /\ "delete" \in Kinds /\ row.exists
      /\ UNCHANGED <<carried, orderly>>
  BY DEF ChangesInv, MatrixDelete, Kinds, MatrixInv, MatrixTypes
<1>2. /\ TalkInv' /\ WebhooksInv' /\ ~ Exists' /\ Latest' = Latest + 1
      /\ Latest \in 0..MaxChanges /\ namesEdit' = namesEdit
  BY <1>1, Grows, WebhooksGrow, LatestIsNumber DEF Change
<1>3. CASE row' = NoRow /\ text' = 0 /\ own' = Latest + 1
  <2>1. own' \in 0..Latest' /\ Latest' \in Nat /\ Latest <= Latest'
    BY <1>2, <1>3
  <2>2. MatrixInv'
    BY <1>1, <1>2, <1>3, <2>1, MatrixLoses
  <2>3. InStep'
    BY <1>1, <1>2, StepGrows
  <2>4. QED BY <1>2, <2>2, <2>3 DEF ChangesInv
<1>4. CASE UNCHANGED <<row, text, own>>
  <2>1. MatrixInv'
    BY <1>1, <1>4, MatrixUnheard
  <2>2. InStep'
    BY <1>1, <1>2, StepGrows
  <2>3. QED BY <1>2, <2>1, <2>2 DEF ChangesInv
<1>5. QED BY <1>3, <1>4 DEF MatrixDelete

LEMMA NextInv == ChangesInv /\ [Next]_vars => ChangesInv'
<1> SUFFICES ASSUME ChangesInv, [Next]_vars PROVE ChangesInv'
  OBVIOUS
<1>1. ASSUME NEW kind \in Kinds, TalkChanges(kind) PROVE ChangesInv'
  BY <1>1, TalkChangesKeeps
<1>2. ASSUME NEW w \in Workers, Take(w) \/ Read(w) \/ ReadFails(w) \/ Queue(w)
      PROVE  ChangesInv'
  BY <1>2, WorkerKeeps
<1>3. CASE BridgeCreate \/ BridgeEdit \/ BridgeRemove
  BY <1>3, BridgeCreateKeeps, BridgeEditKeeps, BridgeRemoveKeeps
<1>4. CASE MatrixSend \/ MatrixEdit \/ MatrixDelete
  BY <1>4, MatrixSendKeeps, MatrixEditKeeps, MatrixDeleteKeeps
<1>5. CASE UNCHANGED vars
  <2>1. TalkInv /\ WebhooksInv /\ MatrixInv /\ InStep /\ orderly \in BOOLEAN
    BY DEF ChangesInv, MatrixInv, MatrixTypes
  <2>2. /\ UNCHANGED <<namesEdit, changes, row, text, own, carried>>
        /\ UNCHANGED <<sent, working, portal, orderly>>
    BY <1>5 DEF vars
  <2>3. Latest' = Latest /\ Underway' = Underway
    BY <2>2 DEF Latest, Underway
  <2>4. WebhooksInv'
    BY <2>1, <2>2, <2>3 DEF WebhooksInv, IsRead
  <2>5. QED BY <2>1, <2>2, <2>3, <2>4, TalkAside, MatrixAside, StepAside DEF ChangesInv
<1>6. QED BY <1>1, <1>2, <1>3, <1>4, <1>5 DEF Next, Kinds

\* What holds of the message, its webhooks and its row in every state.
THEOREM ChangesInvariant == Spec => []ChangesInv
<1>1. QED BY InitInv, NextInv, PTL DEF Spec

\* Every variable of MessageChanges keeps its type, and a row's EditEchoID is always
\* the number of an edit (dbmeta.go).
THEOREM TypeCorrect == Spec => []TypeOK
<1>1. ChangesInv => TypeOK
  <2> SUFFICES ASSUME ChangesInv PROVE TypeOK
    OBVIOUS
  <2>1. /\ namesEdit \in BOOLEAN
        /\ changes \in Seq({"create", "edit", "delete"}) /\ Latest <= MaxChanges
    BY Numbers DEF ChangesInv, TalkInv, Kinds
  <2>2. /\ sent \subseteq 1..Latest
        /\ working \in [Workers -> [id : 0..MaxChanges, read : 0..MaxChanges]]
        /\ portal \in Seq([id : Ids, read : Ids])
    BY DEF ChangesInv, WebhooksInv
  <2>3. QED BY <2>1, <2>2 DEF ChangesInv, MatrixInv, MatrixTypes, Rows, EchoOfEdit, TypeOK
<1>2. QED BY <1>1, ChangesInvariant, PTL

\* changes.go, isEditEcho: no webhook puts back a text older than the last edit made
\* from Matrix, be it told by its number or by its second.
THEOREM OwnEditsStand == Spec => []OwnEditNeverUndone
<1>1. ChangesInv => OwnEditNeverUndone
  BY DEF ChangesInv, MatrixInv, MatrixTypes, OwnIsKnown, OwnEditNeverUndone
<1>2. QED BY <1>1, ChangesInvariant, PTL

\* changes.go:179-184: an edit made from Matrix is not carried into Matrix again,
\* neither by its own webhook nor by that of an older edit.
THEOREM OwnEditsAreNotRepeated == Spec => []EchoIsNotBridged
<1>1. ChangesInv => EchoIsNotBridged
  BY DEF ChangesInv, MatrixInv, OwnIsKnown, EchoIsNotBridged
<1>2. QED BY <1>1, ChangesInvariant, PTL

\* webhook.go and changes.go: where edits are told apart, webhooks that were worked
\* off in Talk's order leave the message in Matrix as it is in Talk.
THEOREM MatrixEndsAsTalk == ASSUME ToldApart PROVE Spec => []DrainedIsConsistent
<1>1. ChangesInv => DrainedIsConsistent
  <2> SUFFICES ASSUME ChangesInv, Drained, orderly PROVE Consistent
    BY DEF DrainedIsConsistent
  <2>1. PICK d \in 0..Latest : UpTo(d)
    BY DEF ChangesInv, InStep
  <2>2. Len(portal) = 0 /\ Underway = {} /\ Latest \in 0..MaxChanges
    BY LatestIsNumber DEF Drained, ChangesInv
  <2>3. (d + 0 + 1)..Latest = {}
    BY <2>1, <2>2 DEF UpTo
  <2>4. d = Latest
    <3>1. d \in Nat /\ Latest \in Nat /\ d <= Latest
      BY <2>1, <2>2
    <3>2. ~ (d + 1 <= Latest)
      <4>1. d + 1 <= Latest => d + 1 \in (d + 0 + 1)..Latest
        BY <3>1
      <4>2. QED BY <2>3, <4>1
    <3>3. QED BY <3>1, <3>2
  <2>5. QED BY ToldApart, <2>1, <2>4 DEF UpTo
<1>2. QED BY <1>1, ChangesInvariant, PTL
=============================================================================
