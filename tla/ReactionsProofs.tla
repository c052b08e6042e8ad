--------------------------- MODULE ReactionsProofs ---------------------------
(***************************************************************************)
(* What Reactions guarantees for any users, emoji, workers and number of   *)
(* changes.  What is true of the rows depends on the lists under way, in   *)
(* the hands of a worker or in the queue: the inductive invariant says of  *)
(* them what they must contain.                                            *)
(***************************************************************************)
EXTENDS Reactions, TLAPS

InFlight(l) ==
    \/ \E w \in Workers : worker[w].at = "holding" /\ worker[w].list = l
    \/ \E i \in 1..Len(queue) : queue[i] = l

\* A change was made that no list read so far is sure to show.
Pending ==
    \/ webhooks # 0
    \/ \E w \in Workers : worker[w] = Asking
    \/ lost

\* Only linked users react from Matrix; what they made there stands in Talk.
OwnStands ==
    \A r \in Reaction : madeAt[r] # Never =>
        r \in talk /\ r[1] \in Linked /\ madeAt[r] <= reads

\* A list read after a reaction was made in Matrix holds it.
FreshListsHold ==
    \A l \in List : InFlight(l) =>
        /\ l.number <= reads
        /\ \A r \in Reaction : madeAt[r] # Never /\ l.number > madeAt[r] => r \in l.list

\* Without a pending change, the newest list is what Talk holds.
NewestIsCurrent ==
    ~ Pending =>
        /\ \A l \in List : InFlight(l) /\ l.number = reads => Bridgeable(l.list) = Bridgeable(talk)
        /\ lastApplied = reads => rows = Bridgeable(talk)

ReactionsInv ==
    /\ TypeOK
    /\ OwnStands
    /\ FreshListsHold
    /\ NewestIsCurrent
    /\ ShownAsRecorded

-----------------------------------------------------------------------------
LEMMA InitInv == Init => ReactionsInv
<1> SUFFICES ASSUME Init PROVE ReactionsInv
  OBVIOUS
<1> USE ReactionsAssumption DEF Init
<1>1. TypeOK
  <2>1. DOMAIN worker = Workers /\ \A w \in Workers : worker[w] = Idle
    OBVIOUS
  <2>2. queue \in Seq(List) /\ DOMAIN queue = {}
    OBVIOUS
  <2>3. madeAt \in [Reaction -> Nat \cup {Never}]
    OBVIOUS
  <2>4. changes \in 0..MaxChanges /\ lastApplied \in 0..reads /\ reads \in Nat
    OBVIOUS
  <2>5. \A w \in Workers : worker[w] \in {Idle, Asking}
    BY <2>1
  <2>6. /\ talk \subseteq Reaction /\ rows \subseteq Ghostable \X Emoji
        /\ shown \subseteq Ghostable \X Emoji /\ own \subseteq rows /\ soiled \subseteq Reaction
        /\ webhooks \in Nat /\ bridged \in BOOLEAN /\ lost \in BOOLEAN
    OBVIOUS
  <2>7. \A i \in DOMAIN queue : queue[i].list \subseteq Ghostable \X Emoji
    BY <2>2
  <2>8. QED
    <3> HIDE DEF Init
    <3> QED BY <2>1, <2>2, <2>3, <2>4, <2>5, <2>6, <2>7 DEF TypeOK
<1>2. OwnStands
  BY DEF OwnStands
<1>3. \A l \in List : ~ InFlight(l)
  BY DEF InFlight, Idle
<1>4. FreshListsHold
  BY <1>3 DEF FreshListsHold
<1>5. NewestIsCurrent
  BY <1>3 DEF NewestIsCurrent, Bridgeable
<1>6. ShownAsRecorded
  BY DEF ShownAsRecorded
<1>7. QED BY <1>1, <1>2, <1>4, <1>5, <1>6 DEF ReactionsInv

-----------------------------------------------------------------------------
(* what Talk may do *)

LEMMA TalkChangesKeepsInv == \A r \in Reaction : ReactionsInv /\ TalkChanges(r) => ReactionsInv'
<1> SUFFICES ASSUME NEW r \in Reaction, ReactionsInv, TalkChanges(r) PROVE ReactionsInv'
  OBVIOUS
<1> USE ReactionsAssumption DEF ReactionsInv, TalkChanges, Becomes, roomVars
<1>1. TypeOK'
  BY DEF TypeOK, Never
<1>2. OwnStands'
  BY DEF OwnStands, TypeOK
<1>3. \A l \in List : InFlight(l)' = InFlight(l)
  BY DEF InFlight
<1>4. FreshListsHold'
  BY <1>3 DEF FreshListsHold, TypeOK
<1>5. Pending'
  BY DEF Pending, TypeOK
<1>6. NewestIsCurrent'
  BY <1>5 DEF NewestIsCurrent
<1>7. ShownAsRecorded'
  BY DEF ShownAsRecorded
<1>8. QED BY <1>1, <1>2, <1>4, <1>6, <1>7 DEF ReactionsInv

\* A lost webhook leaves a change pending.
LEMMA LoseWebhookKeepsInv == ReactionsInv /\ LoseWebhook => ReactionsInv'
<1> SUFFICES ASSUME ReactionsInv, LoseWebhook PROVE ReactionsInv'
  OBVIOUS
<1> USE DEF ReactionsInv, LoseWebhook, roomVars
<1>1. TypeOK'
  BY DEF TypeOK
<1>2. OwnStands' /\ ShownAsRecorded'
  BY DEF OwnStands, ShownAsRecorded
<1>3. \A l \in List : InFlight(l)' = InFlight(l)
  BY DEF InFlight
<1>4. FreshListsHold'
  BY <1>3 DEF FreshListsHold
<1>5. NewestIsCurrent'
  BY DEF NewestIsCurrent, Pending
<1>6. QED BY <1>1, <1>2, <1>4, <1>5 DEF ReactionsInv

-----------------------------------------------------------------------------
(* a worker *)

LEMMA TakeKeepsInv == \A w \in Workers : ReactionsInv /\ Take(w) => ReactionsInv'
<1> SUFFICES ASSUME NEW w \in Workers, ReactionsInv, Take(w) PROVE ReactionsInv'
  OBVIOUS
<1> USE DEF ReactionsInv, Take, roomVars
<1>1. TypeOK'
  BY DEF TypeOK
<1>2. OwnStands' /\ ShownAsRecorded'
  BY DEF OwnStands, ShownAsRecorded
<1>3. \A l \in List : InFlight(l)' => InFlight(l)
  BY DEF InFlight, TypeOK, Asking
<1>4. FreshListsHold'
  BY <1>3 DEF FreshListsHold
<1>5. Pending'
  BY DEF Pending, TypeOK
<1>6. NewestIsCurrent'
  BY <1>5 DEF NewestIsCurrent
<1>7. QED BY <1>1, <1>2, <1>4, <1>6 DEF ReactionsInv

\* The list just read is the only one with its number, and up to date.
LEMMA ReadKeepsInv == \A w \in Workers : ReactionsInv /\ Read(w) => ReactionsInv'
<1> SUFFICES ASSUME NEW w \in Workers, ReactionsInv, Read(w) PROVE ReactionsInv'
  OBVIOUS
<1> USE DEF ReactionsInv, Read, talkVars, roomVars
<1> DEFINE new == [number |-> reads + 1, list |-> talk]
<1>1. new \in List
  BY DEF TypeOK, List
<1>2. TypeOK'
  <2>1. /\ DOMAIN worker' = Workers
        /\ \A v \in Workers : \/ worker'[v] \in {Idle, Asking}
                              \/ /\ worker'[v].list \in List
                                 /\ worker'[v] = Holding(worker'[v].list)
    BY <1>1 DEF TypeOK, Holding
  <2>2. reads' \in Nat /\ lastApplied' \in 0..reads'
    BY DEF TypeOK
  <2>3. QED BY <2>1, <2>2 DEF TypeOK
<1>3. OwnStands' /\ ShownAsRecorded'
  BY DEF OwnStands, ShownAsRecorded, TypeOK, Never
<1>4. \A l \in List : InFlight(l)' => InFlight(l) \/ l = new
  BY DEF InFlight, TypeOK, Holding
<1>5. FreshListsHold'
  <2> SUFFICES ASSUME NEW l \in List, InFlight(l)'
               PROVE  /\ l.number <= reads + 1
                      /\ \A r \in Reaction : madeAt[r] # Never /\ l.number > madeAt[r] => r \in l.list
    BY DEF FreshListsHold
  <2>1. CASE l = new
    BY <2>1 DEF OwnStands, TypeOK
  <2>2. CASE InFlight(l)
    <3>1. l.number <= reads /\ l.number \in Nat /\ reads \in Nat
      BY <2>2 DEF FreshListsHold, TypeOK, List
    <3>2. \A r \in Reaction : madeAt[r] # Never /\ l.number > madeAt[r] => r \in l.list
      BY <2>2 DEF FreshListsHold
    <3>3. QED BY <3>1, <3>2
  <2>3. QED BY <1>4, <2>1, <2>2
<1>6. \A l \in List : InFlight(l)' /\ l.number = reads' => l = new
  <2>1. \A l \in List : InFlight(l) => l.number <= reads
    BY DEF FreshListsHold
  <2>2. reads \in Nat /\ reads' = reads + 1
    BY DEF TypeOK
  <2>3. \A l \in List : InFlight(l) => l.number # reads'
    BY <2>1, <2>2
  <2>4. QED BY <1>4, <2>3
<1>7. lastApplied' # reads'
  BY DEF TypeOK
<1>8. NewestIsCurrent'
  BY <1>6, <1>7 DEF NewestIsCurrent
<1>9. QED BY <1>2, <1>3, <1>5, <1>8 DEF ReactionsInv

LEMMA ReadFailsKeepsInv == \A w \in Workers : ReactionsInv /\ ReadFails(w) => ReactionsInv'
<1> SUFFICES ASSUME NEW w \in Workers, ReactionsInv, ReadFails(w) PROVE ReactionsInv'
  OBVIOUS
<1> USE DEF ReactionsInv, ReadFails, talkVars, roomVars
<1>1. TypeOK'
  BY DEF TypeOK
<1>2. OwnStands' /\ ShownAsRecorded'
  BY DEF OwnStands, ShownAsRecorded
<1>3. \A l \in List : InFlight(l)' => InFlight(l)
  BY DEF InFlight, TypeOK, Idle
<1>4. FreshListsHold'
  BY <1>3 DEF FreshListsHold
<1>5. NewestIsCurrent'
  BY DEF NewestIsCurrent, Pending
<1>6. QED BY <1>1, <1>2, <1>4, <1>5 DEF ReactionsInv

\* What is queued is what the worker held, less what has no ghost; nothing that
\* was made in Matrix goes with that.
LEMMA QueueKeepsInv == \A w \in Workers : ReactionsInv /\ Queue(w) => ReactionsInv'
<1> SUFFICES ASSUME NEW w \in Workers, ReactionsInv, Queue(w) PROVE ReactionsInv'
  OBVIOUS
<1> USE ReactionsAssumption DEF ReactionsInv, Queue, talkVars, roomVars
<1> DEFINE held == worker[w].list
           new == [held EXCEPT !.list = Bridgeable(@)]
<1>1. held \in List /\ InFlight(held)
  BY DEF TypeOK, Idle, Asking, InFlight
<1>2. /\ new \in List /\ new.number = held.number /\ new.list = Bridgeable(held.list)
      /\ new.list \subseteq Ghostable \X Emoji
  BY <1>1 DEF List, Bridgeable, Reaction
<1>3. /\ Len(queue') = Len(queue) + 1
      /\ \A i \in 1..Len(queue') : IF i = Len(queue) + 1 THEN queue'[i] = new ELSE queue'[i] = queue[i]
  BY <1>2 DEF TypeOK
<1>4. TypeOK'
  BY <1>2, <1>3 DEF TypeOK
<1>5. OwnStands' /\ ShownAsRecorded'
  BY DEF OwnStands, ShownAsRecorded
<1>6. \A l \in List : InFlight(l)' => InFlight(l) \/ l = new
  <2> SUFFICES ASSUME NEW l \in List, InFlight(l)', l # new PROVE InFlight(l)
    OBVIOUS
  <2>1. CASE \E v \in Workers : worker'[v].at = "holding" /\ worker'[v].list = l
    BY <2>1 DEF InFlight, TypeOK, Idle
  <2>2. CASE \E i \in 1..Len(queue') : queue'[i] = l
    BY <2>2, <1>3 DEF InFlight, TypeOK
  <2>3. QED BY <2>1, <2>2 DEF InFlight
<1>7. FreshListsHold'
  BY <1>1, <1>2, <1>6 DEF FreshListsHold, OwnStands, Bridgeable
<1>8. Pending' = Pending
  BY <1>1 DEF Pending, Asking, Idle, TypeOK
<1>9. NewestIsCurrent'
  <2> SUFFICES ASSUME ~ Pending'
               PROVE  /\ \A l \in List : InFlight(l)' /\ l.number = reads =>
                            Bridgeable(l.list) = Bridgeable(talk)
                      /\ lastApplied = reads => rows = Bridgeable(talk)
    BY DEF NewestIsCurrent
  <2>1. \A l \in List : InFlight(l) /\ l.number = reads => Bridgeable(l.list) = Bridgeable(talk)
    BY <1>8 DEF NewestIsCurrent
  <2>2. new.number = reads => Bridgeable(new.list) = Bridgeable(talk)
    BY <1>1, <1>2, <2>1 DEF Bridgeable
  <2>3. lastApplied = reads => rows = Bridgeable(talk)
    BY <1>8 DEF NewestIsCurrent
  <2>4. QED BY <1>6, <2>1, <2>2, <2>3
<1>10. QED BY <1>4, <1>5, <1>7, <1>9 DEF ReactionsInv

-----------------------------------------------------------------------------
(* the portal's event loop *)

\* A list that is applied becomes the rows.
LEMMA ApplyKeepsInv == ReactionsInv /\ Apply => ReactionsInv'
<1> SUFFICES ASSUME ReactionsInv, Apply PROVE ReactionsInv'
  OBVIOUS
<1> USE DEF ReactionsInv, talkVars, roomVars
<1> DEFINE next == Head(queue)
           gone == Gone(next.list)
<1>1. /\ queue # <<>> /\ queue' = Tail(queue)
      /\ UNCHANGED <<madeAt, talk, webhooks, changes, worker, reads, lost, bridged, soiled>>
  BY DEF Apply
<1>2. /\ next = queue[1] /\ 1 \in DOMAIN queue
      /\ queue' \in Seq(List)
      /\ \A i \in DOMAIN queue' : i + 1 \in DOMAIN queue /\ queue'[i] = queue[i + 1]
  BY <1>1 DEF TypeOK
<1>3. next \in List /\ next.number \in Nat /\ InFlight(next) /\ next.list \subseteq Ghostable \X Emoji
  <2>1. queue[1] \in List /\ queue[1].list \subseteq Ghostable \X Emoji /\ 1 \in 1..Len(queue)
    BY <1>2 DEF TypeOK
  <2>2. InFlight(queue[1])
    BY <2>1 DEF InFlight
  <2>3. queue[1].number \in Nat
    BY <2>1 DEF List
  <2>4. QED BY <1>2, <2>1, <2>2, <2>3
<1>4. next.number <= reads
  BY <1>3 DEF FreshListsHold
<1>5. \A l \in List : InFlight(l)' => InFlight(l)
  BY <1>1, <1>2 DEF InFlight, TypeOK
<1>6. Gone(next.list) = rows \ next.list
  BY DEF Gone, HasAllReactions, HasAllUsers
<1>7. \/ UNCHANGED roomVars
      \/ /\ rows' = next.list /\ own' = own \ (rows \ next.list)
         /\ shown' = (shown \ (rows \ next.list)) \cup (next.list \ rows)
         /\ lastApplied' = next.number
  BY <1>6 DEF Apply
<1>8. TypeOK'
  <2>1. \A i \in DOMAIN queue' : queue'[i].list \subseteq Ghostable \X Emoji
    BY <1>2 DEF TypeOK
  <2>2. /\ rows' \subseteq Ghostable \X Emoji /\ shown' \subseteq Ghostable \X Emoji
        /\ own' \subseteq rows'
    BY <1>3, <1>7 DEF TypeOK
  <2>3. lastApplied' \in 0..reads'
    BY <1>1, <1>3, <1>4, <1>7 DEF TypeOK
  <2>4. QED BY <1>1, <1>2, <2>1, <2>2, <2>3 DEF TypeOK
<1>9. OwnStands'
  BY <1>1 DEF OwnStands
<1>10. FreshListsHold'
  BY <1>1, <1>5 DEF FreshListsHold
<1>11. Pending' = Pending
  BY <1>1 DEF Pending
<1>12. NewestIsCurrent'
  <2> SUFFICES ASSUME ~ Pending'
               PROVE  /\ \A l \in List : InFlight(l)' /\ l.number = reads =>
                            Bridgeable(l.list) = Bridgeable(talk)
                      /\ lastApplied' = reads => rows' = Bridgeable(talk)
    BY <1>1 DEF NewestIsCurrent
  <2>1. /\ \A l \in List : InFlight(l) /\ l.number = reads => Bridgeable(l.list) = Bridgeable(talk)
        /\ lastApplied = reads => rows = Bridgeable(talk)
    BY <1>11 DEF NewestIsCurrent
  <2>2. next.list = Bridgeable(next.list)
    BY <1>3 DEF Bridgeable
  <2>3. lastApplied' = reads => rows' = Bridgeable(talk)
    BY <1>3, <1>7, <2>1, <2>2
  <2>4. QED BY <1>5, <2>1, <2>3
<1>13. ShownAsRecorded'
  BY <1>1, <1>7 DEF ShownAsRecorded
<1>14. QED BY <1>8, <1>9, <1>10, <1>12, <1>13 DEF ReactionsInv

LEMMA BridgeMessageKeepsInv == ReactionsInv /\ BridgeMessage => ReactionsInv'
<1> SUFFICES ASSUME ReactionsInv, BridgeMessage PROVE ReactionsInv'
  OBVIOUS
<1> USE DEF ReactionsInv, BridgeMessage, talkVars
<1>1. TypeOK'
  BY DEF TypeOK
<1>2. OwnStands' /\ ShownAsRecorded' /\ Pending' = Pending
  BY DEF OwnStands, ShownAsRecorded, Pending
<1>3. \A l \in List : InFlight(l)' = InFlight(l)
  BY DEF InFlight
<1>4. FreshListsHold' /\ NewestIsCurrent'
  BY <1>2, <1>3 DEF FreshListsHold, NewestIsCurrent
<1>5. QED BY <1>1, <1>2, <1>4 DEF ReactionsInv

\* What Matrix asks of Talk leaves a change pending, or Talk as it was.
LEMMA BecomesLeavesPending ==
    ASSUME TypeOK, NEW reactions, Becomes(reactions), reactions # talk,
           UNCHANGED <<worker, lost>>
    PROVE  Pending'
BY DEF Becomes, Pending, TypeOK

LEMMA MatrixReactKeepsInv == \A r \in Reaction : ReactionsInv /\ MatrixReact(r) => ReactionsInv'
<1> SUFFICES ASSUME NEW r \in Reaction, ReactionsInv, MatrixReact(r) PROVE ReactionsInv'
  OBVIOUS
<1> USE ReactionsAssumption DEF ReactionsInv
<1>1. /\ bridged /\ changes < MaxChanges /\ r[1] \in Linked /\ r \notin rows \cup shown
      /\ shown' = shown \cup {r}
      /\ UNCHANGED <<worker, queue, reads, lost, bridged, lastApplied>>
  BY DEF MatrixReact
<1>2. \/ Becomes(talk \cup {r})
      \/ talk' = talk /\ webhooks' = webhooks /\ changes' = changes
  BY DEF MatrixReact, talkVars
<1>3. \/ /\ Becomes(talk \cup {r}) /\ rows' = rows \cup {r} /\ own' = own \cup {r}
         /\ madeAt' = [madeAt EXCEPT ![r] = reads] /\ soiled' = soiled
      \/ rows' = rows /\ own' = own /\ madeAt' = madeAt /\ soiled' = soiled \cup {r}
  BY DEF MatrixReact
<1>4. /\ talk \subseteq talk' /\ talk' \subseteq talk \cup {r}
      /\ webhooks' \in Nat /\ changes' \in 0..MaxChanges
  BY <1>1, <1>2 DEF Becomes, TypeOK
<1>5. r \in Ghostable \X Emoji
  BY <1>1 DEF Reaction
<1>6. TypeOK'
  <2>1. madeAt' \in [Reaction -> Nat \cup {Never}]
    BY <1>3 DEF TypeOK
  <2>2. /\ rows' \subseteq Ghostable \X Emoji /\ shown' \subseteq Ghostable \X Emoji
        /\ own' \subseteq rows' /\ soiled' \subseteq Reaction /\ talk' \subseteq Reaction
    BY <1>1, <1>3, <1>4, <1>5 DEF TypeOK
  <2>3. QED BY <1>1, <1>4, <2>1, <2>2 DEF TypeOK
<1>7. OwnStands'
  BY <1>1, <1>3, <1>4 DEF OwnStands, TypeOK, Becomes
<1>8. \A l \in List : InFlight(l)' = InFlight(l)
  BY <1>1 DEF InFlight
<1>9. FreshListsHold'
  <2> SUFFICES ASSUME NEW l \in List, InFlight(l), NEW s \in Reaction,
                      madeAt'[s] # Never, l.number > madeAt'[s]
               PROVE  s \in l.list
    BY <1>1, <1>8 DEF FreshListsHold
  <2>1. l.number <= reads /\ l.number \in Nat /\ reads \in Nat
    BY DEF FreshListsHold, TypeOK, List
  <2>2. madeAt'[s] = madeAt[s]
    BY <1>3, <2>1 DEF TypeOK
  <2>3. QED BY <2>2 DEF FreshListsHold
<1>10. NewestIsCurrent'
  <2>1. CASE talk' # talk
    BY <1>1, <1>2, <2>1, BecomesLeavesPending DEF NewestIsCurrent, Becomes
  <2>2. CASE talk' = talk
    <3>1. Pending' = Pending
      BY <1>1, <1>2, <2>2 DEF Pending, Becomes
    <3>2. ~ Pending /\ lastApplied = reads => rows' = Bridgeable(talk)
      BY <1>1, <1>3, <1>5, <2>2 DEF NewestIsCurrent, Bridgeable, Becomes
    <3>3. QED BY <1>1, <1>8, <2>2, <3>1, <3>2 DEF NewestIsCurrent
  <2>3. QED BY <2>1, <2>2
<1>11. ShownAsRecorded'
  BY <1>1, <1>3 DEF ShownAsRecorded
<1>12. QED BY <1>6, <1>7, <1>9, <1>10, <1>11 DEF ReactionsInv

LEMMA MatrixRemoveKeepsInv == \A r \in Reaction : ReactionsInv /\ MatrixRemove(r) => ReactionsInv'
<1> SUFFICES ASSUME NEW r \in Reaction, ReactionsInv, MatrixRemove(r) PROVE ReactionsInv'
  OBVIOUS
<1> USE ReactionsAssumption DEF ReactionsInv
<1>1. /\ bridged /\ changes < MaxChanges /\ r[1] \in Linked /\ r \in rows \cap shown
      /\ shown' = shown \ {r} /\ madeAt' = [madeAt EXCEPT ![r] = Never]
      /\ UNCHANGED <<worker, queue, reads, lost, bridged, lastApplied>>
  BY DEF MatrixRemove
<1>2. \/ Becomes(talk \ {r})
      \/ talk' = talk /\ webhooks' = webhooks /\ changes' = changes
  BY DEF MatrixRemove, talkVars
<1>3. \/ /\ Becomes(talk \ {r}) /\ rows' = rows \ {r} /\ own' = own \ {r}
         /\ soiled' = soiled
      \/ rows' = rows /\ own' = own /\ soiled' = soiled \cup {r}
  BY DEF MatrixRemove, Removes
<1>4. /\ talk \ {r} \subseteq talk' /\ talk' \subseteq talk
      /\ webhooks' \in Nat /\ changes' \in 0..MaxChanges
  BY <1>1, <1>2 DEF Becomes, TypeOK
<1>5. TypeOK'
  <2>1. madeAt' \in [Reaction -> Nat \cup {Never}]
    BY <1>1 DEF TypeOK
  <2>2. /\ rows' \subseteq Ghostable \X Emoji /\ shown' \subseteq Ghostable \X Emoji
        /\ own' \subseteq rows' /\ soiled' \subseteq Reaction /\ talk' \subseteq Reaction
    BY <1>1, <1>3, <1>4 DEF TypeOK
  <2>3. QED BY <1>1, <1>4, <2>1, <2>2 DEF TypeOK
<1>6. OwnStands'
  BY <1>1, <1>4 DEF OwnStands, TypeOK
<1>7. \A l \in List : InFlight(l)' = InFlight(l)
  BY <1>1 DEF InFlight
<1>8. FreshListsHold'
  BY <1>1, <1>7 DEF FreshListsHold, TypeOK
<1>9. NewestIsCurrent'
  <2>1. CASE talk' # talk
    BY <1>1, <1>2, <2>1, BecomesLeavesPending DEF NewestIsCurrent, Becomes
  <2>2. CASE talk' = talk
    <3>1. Pending' = Pending
      BY <1>1, <1>2, <2>2 DEF Pending, Becomes
    <3>2. ~ Pending /\ lastApplied = reads => rows' = Bridgeable(talk)
      BY <1>1, <1>3, <2>2 DEF NewestIsCurrent, Bridgeable, Becomes
    <3>3. QED BY <1>1, <1>7, <2>2, <3>1, <3>2 DEF NewestIsCurrent
  <2>3. QED BY <2>1, <2>2
<1>10. ShownAsRecorded'
  BY <1>1, <1>3 DEF ShownAsRecorded
<1>11. QED BY <1>5, <1>6, <1>8, <1>9, <1>10 DEF ReactionsInv

-----------------------------------------------------------------------------
LEMMA NextInv == ReactionsInv /\ [Next]_vars => ReactionsInv'
<1> SUFFICES ASSUME ReactionsInv, [Next]_vars PROVE ReactionsInv'
  OBVIOUS
<1>1. CASE Next
  BY <1>1, TalkChangesKeepsInv, LoseWebhookKeepsInv, TakeKeepsInv, ReadKeepsInv,
     ReadFailsKeepsInv, QueueKeepsInv, ApplyKeepsInv, BridgeMessageKeepsInv,
     MatrixReactKeepsInv, MatrixRemoveKeepsInv DEF Next
<1>2. CASE UNCHANGED vars
  <2> USE DEF ReactionsInv, vars
  <2>1. TypeOK' /\ OwnStands' /\ ShownAsRecorded' /\ Pending' = Pending
    BY <1>2 DEF TypeOK, OwnStands, ShownAsRecorded, Pending
  <2>2. \A l \in List : InFlight(l)' = InFlight(l)
    BY <1>2 DEF InFlight
  <2>3. FreshListsHold' /\ NewestIsCurrent'
    BY <1>2, <2>1, <2>2 DEF FreshListsHold, NewestIsCurrent
  <2>4. QED BY <2>1, <2>3
<1>3. QED BY <1>1, <1>2

\* The inductive invariant: the rows follow the newest list, the newest list
\* follows Talk unless a webhook is still to be read or was lost.
THEOREM ReactionsInvariant == Spec => []ReactionsInv
<1>1. Init => ReactionsInv
  BY InitInv
<1>2. ReactionsInv /\ [Next]_vars => ReactionsInv'
  BY NextInv
<1>3. QED BY <1>1, <1>2, PTL DEF Spec

\* Every variable of the reactions keeps its type.
THEOREM TypeCorrect == Spec => []TypeOK
BY ReactionsInvariant, PTL DEF ReactionsInv

\* webhook.go:415-418: out of order, lost and failed lists are made good by the
\* next one that gets through.
THEOREM NewestListCorrects == Spec => []NewestListWins
<1>1. ReactionsInv => NewestListWins
  <2> SUFFICES ASSUME ReactionsInv, AtRest, ~ lost, lastApplied = reads
               PROVE  rows = talk \cap (Ghostable \X Emoji)
    BY DEF NewestListWins
  <2>1. ~ Pending
    BY DEF Pending, AtRest, Idle, Asking
  <2>2. rows = Bridgeable(talk)
    BY <2>1 DEF ReactionsInv, NewestIsCurrent
  <2>3. QED BY <2>2 DEF Bridgeable, ReactionsInv, TypeOK, Reaction
<1>2. QED BY <1>1, ReactionsInvariant, PTL

\* The room shows what the rows say, wherever Talk answered Matrix.
THEOREM RoomMatchesRows == Spec => []ShownAsRecorded
BY ReactionsInvariant, PTL DEF ReactionsInv

\* An echo read after a reaction was made in Matrix leaves its event alone.
THEOREM OwnEventsSurviveEchoes == Spec => EchoLeavesOwnAlone
<1> DEFINE Step == \A r \in own \ own' :
                      madeAt'[r] = Never \/ (queue # <<>> /\ Head(queue).number <= madeAt[r])
<1>1. ReactionsInv /\ [Next]_vars => [Step]_vars
  <2> SUFFICES ASSUME ReactionsInv, Next, NEW r \in own, r \notin own', madeAt'[r] # Never
               PROVE  queue # <<>> /\ Head(queue).number <= madeAt[r]
    OBVIOUS
  <2>1. r \in Reaction /\ madeAt \in [Reaction -> Nat \cup {Never}]
    BY ReactionsAssumption DEF ReactionsInv, TypeOK, Reaction
  <2>2. ASSUME Apply PROVE queue # <<>> /\ Head(queue).number <= madeAt[r]
    <3>1. queue # <<>> /\ madeAt[r] # Never /\ r \notin Head(queue).list
      BY <2>2 DEF Apply, Gone, roomVars
    <3>2. Head(queue) \in List /\ InFlight(Head(queue))
      BY <3>1 DEF ReactionsInv, TypeOK, InFlight
    <3>3. ~ (Head(queue).number > madeAt[r])
      BY <2>1, <3>1, <3>2 DEF ReactionsInv, FreshListsHold
    <3>4. QED BY <2>1, <3>1, <3>2, <3>3 DEF List
  <2>3. ASSUME NEW s \in Reaction, MatrixRemove(s) PROVE FALSE
    BY <2>1, <2>3 DEF MatrixRemove, Removes
  <2>4. ASSUME NEW s \in Reaction, MatrixReact(s) PROVE FALSE
    BY <2>4 DEF MatrixReact
  <2>5. QED BY <2>2, <2>3, <2>4
            DEF Next, TalkChanges, LoseWebhook, Take, Read, ReadFails, Queue, BridgeMessage, roomVars
<1>2. QED BY <1>1, ReactionsInvariant, PTL DEF Spec, EchoLeavesOwnAlone
===============================================================================
