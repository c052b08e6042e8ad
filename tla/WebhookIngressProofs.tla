------------------------- MODULE WebhookIngressProofs -------------------------
(***************************************************************************)
(* No event is lost or doubled on its way in, and no replay gets past the  *)
(* cache, for any number of requests, handlers, workers and restarts and   *)
(* any size of the queue and the cache: proofs about NonceCache and about  *)
(* WebhookIngress, which holds one.                                        *)
(***************************************************************************)
EXTENDS WebhookIngress, FiniteSetTheorems, TLAPS

USE DEF Requests

-----------------------------------------------------------------------------
(* The replay cache *)

\* Before the first call nothing is stored; afterwards the generation in use
\* was not started in the future, and neither was anything admitted there.
ClocksInOrder ==
    /\ rotatedAt <= now
    /\ rotatedAt = Never => current = {} /\ previous = {}
    /\ \A r \in Randoms : admittedAt[r] <= now

\* An entry of the older generation was admitted before the newer one was
\* started, so everything the newer one holds was admitted after it.
PreviousIsOlder ==
    \A r \in previous :
        /\ admittedAt[r] <= rotatedAt
        /\ admittedSince[r] >= Cardinality(current)

CacheInv ==
    /\ CacheTypeOK
    /\ MemoryBounded
    /\ GenerationsDisjoint
    /\ ClocksInOrder
    /\ PreviousIsOlder
    /\ RememberedLongEnough

\* What is left of the generation after the rotation that opens a call has
\* room for one more, in both senses the size limit is used in.
LEMMA RoomAfterRotation ==
    ASSUME CacheTypeOK, MemoryBounded
    PROVE  /\ NewCurrent \in SUBSET Randoms
           /\ IsFiniteSet(NewCurrent)
           /\ Cardinality(NewCurrent) \in Nat
           /\ Cardinality(NewCurrent) < MaxSize
           /\ NewPrevious \in SUBSET Randoms
           /\ Cardinality(NewPrevious) <= MaxSize
<1>1. IsFiniteSet(current) /\ Cardinality(current) \in Nat
  BY CacheAssumption, FS_Subset, FS_CardinalityType DEF CacheTypeOK
<1>2. IsFiniteSet({}) /\ Cardinality({}) = 0
  BY FS_EmptySet
<1>3. CASE RotationDue
  BY <1>1, <1>2, <1>3, GuardAssumption
     DEF NewCurrent, NewPrevious, CacheTypeOK, MemoryBounded
<1>4. CASE ~ RotationDue
  BY <1>1, <1>4, GuardAssumption
     DEF NewCurrent, NewPrevious, CacheTypeOK, MemoryBounded, RotationDue
<1>5. QED BY <1>3, <1>4

LEMMA CacheInitInv == CacheInit => CacheInv
<1> SUFFICES ASSUME CacheInit PROVE CacheInv
  OBVIOUS
<1>1. CacheTypeOK
  BY GuardAssumption DEF CacheInit, GuardInit, CacheTypeOK, Never
<1>2. MemoryBounded
  BY FS_EmptySet, GuardAssumption DEF CacheInit, MemoryBounded
<1>3. GenerationsDisjoint /\ PreviousIsOlder
  BY DEF CacheInit, GenerationsDisjoint, PreviousIsOlder
<1>4. ClocksInOrder
  BY DEF CacheInit, GuardInit, ClocksInOrder, Never
<1>5. RememberedLongEnough
  BY DEF CacheInit, GuardInit, RememberedLongEnough, Protected
<1>6. QED BY <1>1, <1>2, <1>3, <1>4, <1>5 DEF CacheInv

\* Time passing protects fewer randoms and moves no other one.
LEMMA TickPreservesInv == CacheInv /\ CacheTimePasses => CacheInv'
<1> SUFFICES ASSUME CacheInv, CacheTimePasses PROVE CacheInv'
  OBVIOUS
<1> USE GuardAssumption DEF CacheInv, CacheTimePasses, Tick, cacheVars
<1>1. CacheTypeOK'
  BY DEF CacheTypeOK
<1>2. MemoryBounded' /\ GenerationsDisjoint' /\ PreviousIsOlder'
  BY DEF MemoryBounded, GenerationsDisjoint, PreviousIsOlder
<1>3. ClocksInOrder'
  BY DEF ClocksInOrder, CacheTypeOK, Never
<1>4. RememberedLongEnough'
  BY DEF RememberedLongEnough, Protected, CacheTypeOK, Never
<1>5. QED BY <1>1, <1>2, <1>3, <1>4

\* The rotation inside a call: what it drops is not protected any more, and
\* what stays in the older half is older than the newer half.
LEMMA RotationForgetsNothingProtected ==
    ASSUME CacheInv
    PROVE  /\ \A r \in Randoms : Protected(r) => r \in NewCurrent \cup NewPrevious
           /\ \A r \in NewPrevious : /\ admittedAt[r] <= NewRotatedAt
                                     /\ admittedSince[r] >= Cardinality(NewCurrent)
           /\ NewCurrent \cap NewPrevious = {}
           /\ NewRotatedAt \in 0..Horizon
           /\ NewRotatedAt <= now
<1> USE GuardAssumption DEF CacheInv
<1>0. Cardinality({}) = 0 /\ Cardinality(current) \in Nat
  BY FS_EmptySet, CacheAssumption, FS_Subset, FS_CardinalityType DEF CacheTypeOK
<1>1. StartedAt \in 0..Horizon /\ StartedAt <= now
  BY DEF StartedAt, CacheTypeOK, ClocksInOrder, Never
<1>2. CASE RotationDue
  <2>1. ASSUME NEW r \in Randoms, Protected(r) PROVE r \in current
    <3>1. CASE r \in previous
      <4>1. now - admittedAt[r] < Retention /\ admittedSince[r] < MaxSize
        BY <2>1 DEF Protected
      <4>2. admittedAt[r] <= StartedAt
        BY <3>1 DEF PreviousIsOlder, StartedAt, ClocksInOrder
      <4>3. Cardinality(current) < MaxSize
        BY <3>1, <4>1, <1>0 DEF PreviousIsOlder, CacheTypeOK
      <4>4. now - StartedAt < Retention
        BY <4>1, <4>2, <1>1 DEF CacheTypeOK, Never
      <4>5. QED BY <4>3, <4>4, <1>2, <1>0, <1>1 DEF RotationDue, CacheTypeOK
    <3>2. QED BY <2>1, <3>1 DEF RememberedLongEnough
  <2>2. QED
    BY <1>0, <1>2, <2>1
       DEF NewCurrent, NewPrevious, NewRotatedAt, CacheTypeOK, ClocksInOrder
<1>3. CASE ~ RotationDue
  BY <1>1, <1>3
     DEF NewCurrent, NewPrevious, NewRotatedAt, StartedAt, RememberedLongEnough,
         PreviousIsOlder, GenerationsDisjoint, ClocksInOrder
<1>4. QED BY <1>2, <1>3

LEMMA RefusePreservesInv ==
    ASSUME CacheInv, NEW r \in Randoms, Refuse(r)
    PROVE  CacheInv'
<1> USE DEF CacheInv, Refuse, guardVars
<1>1. CacheTypeOK'
  BY RoomAfterRotation, RotationForgetsNothingProtected DEF CacheTypeOK
<1>2. MemoryBounded'
  BY RoomAfterRotation, GuardAssumption DEF MemoryBounded
<1>3. GenerationsDisjoint' /\ PreviousIsOlder' /\ RememberedLongEnough'
  BY RotationForgetsNothingProtected
     DEF GenerationsDisjoint, PreviousIsOlder, RememberedLongEnough, Protected
<1>4. ClocksInOrder'
  BY RotationForgetsNothingProtected DEF ClocksInOrder, Never
<1>5. QED BY <1>1, <1>2, <1>3, <1>4

LEMMA RememberPreservesInv ==
    ASSUME CacheInv, NEW r \in Randoms, Remember(r)
    PROVE  CacheInv'
<1> USE GuardAssumption DEF CacheInv, Remember
<1>0. /\ Cardinality(current') = Cardinality(NewCurrent) + 1
      /\ Cardinality(NewCurrent) \in Nat
      /\ Cardinality(NewCurrent) < MaxSize
  BY RoomAfterRotation, FS_AddElement DEF Seen
<1>1. CacheTypeOK'
  <2>1. admittedSince' \in [Randoms -> 0..MaxSize]
    BY DEF Record, Counted, CacheTypeOK
  <2>2. QED
    BY <2>1, RoomAfterRotation, RotationForgetsNothingProtected
       DEF CacheTypeOK, Record
<1>2. MemoryBounded'
  BY <1>0, RoomAfterRotation DEF MemoryBounded
<1>3. GenerationsDisjoint'
  BY RotationForgetsNothingProtected DEF GenerationsDisjoint, Seen
<1>4. PreviousIsOlder'
  <2> SUFFICES ASSUME NEW s \in previous'
               PROVE  /\ admittedAt'[s] <= rotatedAt'
                      /\ admittedSince'[s] >= Cardinality(current')
    BY DEF PreviousIsOlder
  <2>1. s \in NewPrevious /\ s \in Randoms /\ s # r
    BY RoomAfterRotation DEF Seen
  <2>2. /\ admittedAt[s] <= NewRotatedAt
        /\ admittedSince[s] >= Cardinality(NewCurrent)
    BY <2>1, RotationForgetsNothingProtected
  <2>3. admittedAt'[s] = admittedAt[s] /\ admittedSince'[s] = Counted(admittedSince[s])
    BY <2>1 DEF Record, CacheTypeOK
  <2>4. QED BY <1>0, <2>1, <2>2, <2>3 DEF Counted, CacheTypeOK
<1>5. ClocksInOrder'
  <2>1. \A s \in Randoms : admittedAt'[s] <= now'
    BY DEF Record, CacheTypeOK, ClocksInOrder
  <2>2. QED
    BY <2>1, RotationForgetsNothingProtected DEF ClocksInOrder, Record, Never
<1>6. RememberedLongEnough'
  <2> SUFFICES ASSUME NEW s \in Randoms, Protected(s)', s # r
               PROVE  s \in NewCurrent \cup NewPrevious
    BY DEF RememberedLongEnough
  <2>1. /\ admittedAt'[s] = admittedAt[s]
        /\ admittedSince'[s] = Counted(admittedSince[s])
        /\ now' = now
    BY DEF Record, CacheTypeOK
  <2>2. Protected(s)
    BY <2>1 DEF Protected, Counted, CacheTypeOK
  <2>3. QED BY <2>2, RotationForgetsNothingProtected
<1>7. QED BY <1>1, <1>2, <1>3, <1>4, <1>5, <1>6

\* The inductive invariant of the replay cache, and with it every invariant
\* the runs check, holds in every reachable state (Accept, nonce.go:76-108).
THEOREM CacheInvariant == CacheSpec => []CacheInv
<1>1. CacheInv /\ [CacheNext]_cacheState => CacheInv'
  <2> SUFFICES ASSUME CacheInv, [CacheNext]_cacheState PROVE CacheInv'
    OBVIOUS
  <2>1. CASE CacheTimePasses
    BY <2>1, TickPreservesInv
  <2>2. ASSUME NEW r \in Randoms, Accept(r) PROVE CacheInv'
    BY <2>2, RememberPreservesInv, RefusePreservesInv DEF Accept
  <2>3. CASE UNCHANGED cacheState
    BY <2>3 DEF cacheState, CacheInv, CacheTypeOK, MemoryBounded, GenerationsDisjoint,
                ClocksInOrder, PreviousIsOlder, RememberedLongEnough, Protected
  <2>4. QED BY <2>1, <2>2, <2>3 DEF CacheNext
<1>2. QED BY CacheInitInv, <1>1, PTL DEF CacheSpec

\* Every variable of the replay cache keeps its type.
THEOREM CacheTypeCorrect == CacheSpec => []CacheTypeOK
<1>1. CacheInv => CacheTypeOK
  BY DEF CacheInv
<1>2. QED BY <1>1, CacheInvariant, PTL

\* A flood cannot make the cache hold more than two full generations
\* (nonce.go:24-30 and 88-95).
THEOREM BoundedMemory == CacheSpec => []MemoryBounded
<1>1. CacheInv => MemoryBounded
  BY DEF CacheInv
<1>2. QED BY <1>1, CacheInvariant, PTL

\* No random is in both generations (the two lookups of nonce.go:97-104).
THEOREM DisjointGenerations == CacheSpec => []GenerationsDisjoint
<1>1. CacheInv => GenerationsDisjoint
  BY DEF CacheInv
<1>2. QED BY <1>1, CacheInvariant, PTL

\* A random is only forgotten once the retention has passed or a whole
\* generation of others came after it.
THEOREM ProtectedIsRemembered == CacheSpec => []RememberedLongEnough
<1>1. CacheInv => RememberedLongEnough
  BY DEF CacheInv
<1>2. QED BY <1>1, CacheInvariant, PTL

\* The two-generation cache implements the promise made to the webhook
\* receiver: an accepted random was not protected.
THEOREM CacheImplementsGuard == CacheSpec => ImplementsReplayGuard
<1>1. CacheInit => GuardInit
  BY DEF CacheInit
<1>2. CacheInv /\ [CacheNext]_cacheState => [GuardNext]_guardVars
  <2> SUFFICES ASSUME CacheInv, [CacheNext]_cacheState PROVE [GuardNext]_guardVars
    OBVIOUS
  <2>1. CASE CacheTimePasses
    BY <2>1 DEF CacheTimePasses, GuardNext
  <2>2. ASSUME NEW r \in Randoms, Remember(r) PROVE GuardNext
    <3>1. ~ Protected(r)
      BY <2>2, RotationForgetsNothingProtected DEF Remember, Seen
    <3>2. QED BY <2>2, <3>1 DEF Remember, GuardAdmit, GuardNext
  <2>3. ASSUME NEW r \in Randoms, Refuse(r) PROVE UNCHANGED guardVars
    BY <2>3 DEF Refuse
  <2>4. CASE UNCHANGED cacheState
    BY <2>4 DEF cacheState, guardVars
  <2>5. QED BY <2>1, <2>2, <2>3, <2>4 DEF CacheNext, Accept
<1>3. QED
  BY <1>1, <1>2, CacheInvariant, PTL DEF CacheSpec, GuardSpec, ImplementsReplayGuard

-----------------------------------------------------------------------------
(* The receiver's invariant *)

Single(S) == \E x \in S : S = {x}

\* Where an event may be that was let through at most once.
NotEnded(q) == processed[q] = 0 /\ q \notin cut /\ q \notin dropped
Nowhere(q) ==
    ReadBy(q) = {} /\ Queued(q) = {} /\ WorkedOnBy(q) = {} /\ NotEnded(q)
OnlyRead(q) ==
    Single(ReadBy(q)) /\ Queued(q) = {} /\ WorkedOnBy(q) = {} /\ NotEnded(q)
OnlyQueued(q) ==
    ReadBy(q) = {} /\ Single(Queued(q)) /\ WorkedOnBy(q) = {} /\ NotEnded(q)
OnlyWorkedOn(q) ==
    ReadBy(q) = {} /\ Queued(q) = {} /\ Single(WorkedOnBy(q)) /\ NotEnded(q)
OnlyEnded(q) ==
    /\ ReadBy(q) = {} /\ Queued(q) = {} /\ WorkedOnBy(q) = {}
    /\ \/ processed[q] = 1 /\ q \notin cut /\ q \notin dropped
       \/ processed[q] = 0 /\ q \in cut /\ q \notin dropped
       \/ processed[q] = 0 /\ q \notin cut /\ q \in dropped

\* An event let through once is on its way, in one place, or at its end.
Tracked(q) ==
    /\ admissions[q] = 0 => Nowhere(q)
    /\ admissions[q] = 1 =>
          OnlyRead(q) \/ OnlyQueued(q) \/ OnlyWorkedOn(q) \/ OnlyEnded(q)
EventsAreTracked == \A q \in Events : Tracked(q)

\* What the bridge knows of a request it knows from letting it through in this
\* run: that is what reads its body, and what a copy is refused for.
KnownWereAdmitted ==
    /\ \A q \in current \cup previous : admissions[q] # 0
    /\ \A h \in Handlers : reading[h] # Idle =>
          /\ admissions[reading[h]] # 0
          /\ kind[reading[h]] \in {"badSignature", "unparsable", "event"}
    /\ \A q \in Genuine : answer[q] = "error" => admissions[q] # 0

\* A request let through whose body arrived was acknowledged, or will be.
AdmittedAreAcknowledged ==
    \A q \in Genuine \ cut :
        admissions[q] # 0 => answer[q] = "ok" \/ ReadBy(q) # {}

EventsInv == EventsAreTracked /\ KnownWereAdmitted /\ AdmittedAreAcknowledged

\* The receiver's own variables have their types, and the queue never exceeds its
\* capacity.
OwnTypes ==
    /\ kind \in Arrivals
    /\ reading \in [Handlers -> Requests \cup {Idle}]
    /\ queue \in Seq(Events) /\ Len(queue) <= QueueSize
    /\ working \in [Workers -> Events \cup {Idle}]
    /\ run \in 0..MaxRestarts
    /\ admissions \in [Requests -> 0..2]
    /\ answer \in [Requests -> Statuses \cup {"none"}]
    /\ cut \in SUBSET Requests
    /\ dropped \in SUBSET Events
    /\ processed \in [Requests -> 0..2]

IngressInv == OwnTypes /\ CacheInv /\ EventsInv

-----------------------------------------------------------------------------
(* The replay cache inside the receiver *)

LEMMA Sizes ==
    /\ IsFiniteSet(Requests) /\ Idle \notin Requests
    /\ QueueSize \in Nat /\ QueueSize > 0 /\ MaxRestarts \in Nat
    /\ Retention \in Nat \ {0} /\ MaxSize \in Nat \ {0} /\ Horizon \in Nat
BY IngressAssumption, CacheAssumption, GuardAssumption

LEMMA RefusePreservesCache ==
    ASSUME CacheInv, NEW q \in Requests, Refuse(q)
    PROVE  CacheInv' /\ q \in current \cup previous
           /\ current' \cup previous' \subseteq current \cup previous
<1>1. /\ q \in NewCurrent \cup NewPrevious
      /\ current' = NewCurrent /\ previous' = NewPrevious
  BY DEF Refuse, Seen
<1>2. NewCurrent \cup NewPrevious \subseteq current \cup previous
  BY DEF NewCurrent, NewPrevious
<1>3. QED BY <1>1, <1>2, RefusePreservesInv

\* An admission is of a request that was not protected.
LEMMA RememberPreservesCache ==
    ASSUME CacheInv, NEW q \in Requests, Remember(q)
    PROVE  CacheInv' /\ ~ Protected(q)
           /\ current' \cup previous' \subseteq current \cup previous \cup {q}
<1>1. ~ Protected(q)
  BY RotationForgetsNothingProtected DEF Remember, Seen
<1>2. /\ current' = NewCurrent \cup {q} /\ previous' = NewPrevious
      /\ NewCurrent \cup NewPrevious \subseteq current \cup previous
  BY DEF Remember, NewCurrent, NewPrevious
<1>3. QED BY <1>1, <1>2, RememberPreservesInv

LEMMA CacheUntouched == CacheInv /\ UNCHANGED cacheState => CacheInv'
BY DEF cacheState, CacheInv, CacheTypeOK, MemoryBounded,
       GenerationsDisjoint, ClocksInOrder, PreviousIsOlder,
       RememberedLongEnough, Protected

\* A new cache, at whatever time the process starts again.
LEMMA RestartPreservesCache == CacheInv /\ Restart => CacheInv'
<1> SUFFICES ASSUME CacheInv, Restart PROVE CacheInv'
  OBVIOUS
<1>1. /\ now' = now /\ now \in 0..Horizon
      /\ current' = {} /\ previous' = {} /\ rotatedAt' = -1
      /\ admittedAt' = [q \in Requests |-> -1] /\ admittedSince' = [q \in Requests |-> 0]
  BY DEF Restart, Never, CacheInv, CacheTypeOK
<1>2. Cardinality({}) = 0
  BY FS_EmptySet
<1>3. CacheTypeOK'
  BY <1>1, Sizes DEF CacheTypeOK, Never
<1>4. MemoryBounded' /\ GenerationsDisjoint'
  BY <1>1, <1>2, Sizes DEF MemoryBounded, GenerationsDisjoint
<1>5. ClocksInOrder' /\ PreviousIsOlder' /\ RememberedLongEnough'
  BY <1>1 DEF ClocksInOrder, PreviousIsOlder, RememberedLongEnough,
     Protected, Never
<1>6. QED BY <1>3, <1>4, <1>5 DEF CacheInv

LEMMA CacheTypes == CacheInv => CacheTypeOK
BY DEF CacheInv

-----------------------------------------------------------------------------
(* Where events are *)

\* What leaves a request where it is.
LEMMA TrackedStays ==
    ASSUME NEW q, Tracked(q),
           ReadBy(q)' = ReadBy(q), Queued(q)' = Queued(q), WorkedOnBy(q)' = WorkedOnBy(q),
           processed'[q] = processed[q], admissions'[q] = admissions[q],
           q \in cut' <=> q \in cut, q \in dropped' <=> q \in dropped
    PROVE  Tracked(q)'
BY DEF Tracked, Nowhere, OnlyRead, OnlyQueued, OnlyWorkedOn, OnlyEnded, NotEnded, Single

\* A handler starts to read a request, or has finished with one.
LEMMA HandlerChanges ==
    ASSUME reading \in [Handlers -> Requests \cup {Idle}], NEW h \in Handlers,
           NEW x \in Requests \cup {Idle}, reading' = [reading EXCEPT ![h] = x],
           NEW q \in Requests
    PROVE  /\ q # x /\ q # reading[h] => ReadBy(q)' = ReadBy(q)
           /\ q = x => ReadBy(q)' = ReadBy(q) \cup {h}
           /\ q # x /\ q = reading[h] => h \in ReadBy(q) /\ ReadBy(q)' = ReadBy(q) \ {h}
BY Sizes DEF ReadBy

LEMMA WorkerChanges ==
    ASSUME working \in [Workers -> Events \cup {Idle}], NEW w \in Workers,
           NEW x \in Events \cup {Idle}, working' = [working EXCEPT ![w] = x],
           NEW q \in Requests
    PROVE  /\ q # x /\ q # working[w] => WorkedOnBy(q)' = WorkedOnBy(q)
           /\ q = x => WorkedOnBy(q)' = WorkedOnBy(q) \cup {w}
           /\ q # x /\ q = working[w] => w \in WorkedOnBy(q) /\ WorkedOnBy(q)' = WorkedOnBy(q) \ {w}
BY Sizes DEF WorkedOnBy

LEMMA QueueGrows ==
    ASSUME queue \in Seq(Requests), NEW x \in Requests, queue' = Append(queue, x), NEW q
    PROVE  /\ q # x => Queued(q)' = Queued(q)
           /\ q = x /\ Queued(q) = {} => Single(Queued(q)')
<1>1. /\ Len(queue) \in Nat /\ DOMAIN queue = 1..Len(queue)
      /\ DOMAIN queue' = 1..(Len(queue) + 1)
      /\ \A i \in 1..Len(queue) : queue'[i] = queue[i]
      /\ queue'[Len(queue) + 1] = x
  OBVIOUS
<1>2. CASE q # x
  BY <1>1, <1>2 DEF Queued
<1>3. CASE q = x /\ Queued(q) = {}
  <2>1. Queued(q)' = {Len(queue) + 1}
    BY <1>1, <1>3 DEF Queued
  <2>2. QED BY <1>3, <2>1 DEF Single
<1>4. QED BY <1>2, <1>3

\* What leaves the queue is its head; all else moves up.
LEMMA QueueShrinks ==
    ASSUME queue \in Seq(Requests), queue # <<>>, queue' = Tail(queue), NEW q
    PROVE  /\ Queued(q) = {} => q # Head(queue) /\ Queued(q)' = {}
           /\ Single(Queued(q)) /\ q # Head(queue) => Single(Queued(q)')
           /\ Single(Queued(q)) /\ q = Head(queue) => Queued(q)' = {}
<1>1. /\ Len(queue) \in Nat /\ Len(queue) > 0 /\ DOMAIN queue = 1..Len(queue)
      /\ DOMAIN queue' = 1..(Len(queue) - 1)
      /\ \A i \in 1..(Len(queue) - 1) : queue'[i] = queue[i + 1]
      /\ Head(queue) = queue[1]
  OBVIOUS
<1>2. CASE Queued(q) = {}
  <2>1. \A i \in 1..Len(queue) : queue[i] # q
    BY <1>1, <1>2 DEF Queued
  <2>2. \A i \in 1..(Len(queue) - 1) : queue'[i] # q
    BY <1>1, <2>1
  <2>3. Queued(q)' = {}
    BY <1>1, <2>2 DEF Queued
  <2>4. ~ Single(Queued(q))
    BY <1>2 DEF Single
  <2>5. QED BY <1>1, <2>1, <2>3, <2>4
<1>3. ASSUME Single(Queued(q)), q # Head(queue) PROVE Single(Queued(q)')
  <2>1. PICK i \in 1..Len(queue) : Queued(q) = {i} /\ queue[i] = q
    BY <1>1, <1>3 DEF Single, Queued
  <2>2. i # 1 /\ i - 1 \in 1..(Len(queue) - 1) /\ queue'[i - 1] = q
    BY <1>1, <1>3, <2>1
  <2>3. \A j \in 1..(Len(queue) - 1) : queue'[j] = q => j = i - 1
    <3>1. TAKE j \in 1..(Len(queue) - 1)
    <3>2. ASSUME queue'[j] = q PROVE j + 1 = i
      BY <1>1, <2>1, <3>2 DEF Queued
    <3>3. QED BY <2>1, <3>2
  <2>4. Queued(q)' = {i - 1}
    BY <1>1, <2>2, <2>3 DEF Queued
  <2>5. QED BY <2>4 DEF Single
<1>4. ASSUME Single(Queued(q)), q = Head(queue) PROVE Queued(q)' = {}
  <2>1. Queued(q) = {1}
    BY <1>1, <1>4 DEF Single, Queued
  <2>2. \A j \in 1..(Len(queue) - 1) : queue'[j] # q
    <3>1. TAKE j \in 1..(Len(queue) - 1)
    <3>2. ASSUME queue'[j] = q PROVE FALSE
      BY <1>1, <2>1, <3>2 DEF Queued
    <3>3. QED BY <3>2
  <2>3. QED BY <1>1, <2>2 DEF Queued
<1>5. QED BY <1>2, <1>3, <1>4

-----------------------------------------------------------------------------
(* The steps *)

LEMMA EventsAreRequests == ASSUME OwnTypes PROVE
    /\ Events \subseteq Requests /\ Genuine \subseteq Requests /\ Events \subseteq Genuine
    /\ queue \in Seq(Requests)
BY DEF OwnTypes, Events, Genuine

\* Nothing but the cache, the time and the best answers changes, and these only
\* as a refused request changes them.
LEMMA RefusalPreserves ==
    ASSUME OwnTypes, EventsInv, NEW q \in Requests, Answer(q, "error"),
           UNCHANGED <<kind, reading, queue, working, run, admissions, cut, dropped, processed>>,
           current' \cup previous' \subseteq current \cup previous,
           q \in Genuine => admissions[q] # 0
    PROVE  OwnTypes' /\ EventsInv'
<1>1. /\ answer' \in [Requests -> Statuses \cup {"none"}]
      /\ \A r \in Requests : answer[r] = "ok" => answer'[r] = "ok"
      /\ \A r \in Requests : answer'[r] = "error" => r = q \/ answer[r] = "error"
  BY DEF Answer, OwnTypes, Statuses
<1>2. OwnTypes'
  BY <1>1 DEF OwnTypes, Events
<1>3. EventsAreTracked'
  BY TrackedStays DEF EventsInv, EventsAreTracked, Events, ReadBy, Queued, WorkedOnBy
<1>4. KnownWereAdmitted'
  BY <1>1 DEF EventsInv, KnownWereAdmitted, Genuine
<1>5. AdmittedAreAcknowledged'
  BY <1>1 DEF EventsInv, AdmittedAreAcknowledged, Genuine, ReadBy
<1>6. QED BY <1>2, <1>3, <1>4, <1>5 DEF EventsInv

LEMMA RefuseOnHeadersPreserves ==
    ASSUME IngressInv, NEW h \in Handlers, NEW q \in Requests, RefuseOnHeaders(h, q)
    PROVE  IngressInv'
<1> USE DEF IngressInv
<1>1. q \notin Genuine /\ Answer(q, "error") /\ UNCHANGED cacheState
      /\ UNCHANGED <<kind, reading, queue, working, run, admissions, cut, dropped, processed>>
  BY DEF RefuseOnHeaders, Genuine
<1>2. CacheInv' /\ current' = current /\ previous' = previous
  BY <1>1, CacheUntouched DEF cacheState
<1>3. OwnTypes' /\ EventsInv'
  BY <1>1, <1>2, RefusalPreserves
<1>4. QED BY <1>2, <1>3

LEMMA RefuseReplayPreserves ==
    ASSUME IngressInv, NEW h \in Handlers, NEW q \in Requests, RefuseReplay(h, q)
    PROVE  IngressInv'
<1> USE DEF IngressInv
<1>1. /\ CacheInv' /\ q \in current \cup previous
      /\ current' \cup previous' \subseteq current \cup previous
  BY RefusePreservesCache DEF RefuseReplay
<1>2. admissions[q] # 0
  BY <1>1 DEF EventsInv, KnownWereAdmitted
<1>3. OwnTypes' /\ EventsInv'
  BY <1>1, <1>2, RefusalPreserves DEF RefuseReplay
<1>4. QED BY <1>1, <1>3

LEMMA AdmitPreserves ==
    ASSUME IngressInv, NEW h \in Handlers, NEW q \in Requests, Admit(h, q)
    PROVE  IngressInv'
<1> USE DEF IngressInv, Admit
<1>1. /\ CacheInv' /\ current' \cup previous' \subseteq current \cup previous \cup {q}
  BY RememberPreservesCache DEF Spend
<1>2. /\ OwnTypes /\ EventsInv /\ kind' = kind /\ reading[h] = Idle /\ q # Idle
      /\ reading' = [reading EXCEPT ![h] = q]
      /\ Events \subseteq Requests /\ Genuine \subseteq Requests
      /\ UNCHANGED <<queue, working, run, answer, cut, dropped, processed>>
  BY Sizes, EventsAreRequests
<1>3. /\ admissions' \in [Requests -> 0..2] /\ admissions'[q] # 0
      /\ admissions'[q] = 1 => admissions[q] = 0
      /\ \A r \in Requests : r # q => admissions'[r] = admissions[r]
      /\ \A r \in Requests : admissions[r] # 0 => admissions'[r] # 0
  BY DEF OwnTypes, Again
<1>4. OwnTypes'
  BY <1>2, <1>3 DEF OwnTypes, Events
<1>5. reading \in [Handlers -> Requests \cup {Idle}]
  BY <1>2 DEF OwnTypes
<1>6. EventsAreTracked'
  <2> SUFFICES ASSUME NEW r \in Events PROVE Tracked(r)'
    BY <1>2 DEF EventsAreTracked, Events
  <2>1. Tracked(r) /\ r \in Requests
    BY <1>2 DEF EventsInv, EventsAreTracked
  <2>2. Queued(r)' = Queued(r) /\ WorkedOnBy(r)' = WorkedOnBy(r)
    BY <1>2 DEF Queued, WorkedOnBy
  <2>3. CASE r = q
    <3>1. ReadBy(r)' = ReadBy(r) \cup {h}
      BY <1>2, <1>5, <2>3, HandlerChanges
    <3>2. admissions'[r] # 0 /\ (admissions'[r] = 1 => Nowhere(r))
      BY <1>3, <2>1, <2>3 DEF Tracked
    <3>3. admissions'[r] = 1 => OnlyRead(r)'
      BY <1>2, <2>2, <3>1, <3>2 DEF Nowhere, OnlyRead, NotEnded, Single
    <3>4. QED BY <3>2, <3>3 DEF Tracked
  <2>4. CASE r # q
    <3>1. ReadBy(r)' = ReadBy(r)
      <4>1. r # reading[h]
        BY <1>2, <2>1, Sizes
      <4>2. QED BY <1>2, <1>5, <2>1, <2>4, <4>1, HandlerChanges
    <3>2. QED BY <1>2, <1>3, <2>1, <2>2, <2>4, <3>1, TrackedStays
  <2>5. QED BY <2>3, <2>4
<1>7. KnownWereAdmitted'
  BY <1>1, <1>2, <1>3, <1>5 DEF EventsInv, KnownWereAdmitted, Genuine, CacheInv, CacheTypeOK
<1>8. AdmittedAreAcknowledged'
  <2> SUFFICES ASSUME NEW r \in Genuine, r \notin cut, admissions'[r] # 0
               PROVE  answer[r] = "ok" \/ ReadBy(r)' # {}
    BY <1>2 DEF AdmittedAreAcknowledged, Genuine
  <2>1. CASE r = q
    BY <1>2, <1>5, <2>1, HandlerChanges
  <2>2. CASE r # q
    <3>1. r \in Requests /\ r # reading[h]
      BY <1>2, Sizes
    <3>2. ReadBy(r)' = ReadBy(r)
      BY <1>2, <1>5, <2>2, <3>1, HandlerChanges
    <3>3. QED BY <1>2, <1>3, <2>2, <3>1, <3>2 DEF EventsInv, AdmittedAreAcknowledged
  <2>3. QED BY <2>1, <2>2
<1>9. QED
  <2>1. EventsInv'
    BY <1>6, <1>7, <1>8 DEF EventsInv
  <2>2. QED BY <1>1, <1>4, <2>1

\* A handler finishes with a request: the only one reading it, if it was let
\* through once.
LEMMA HandlerFinishes ==
    ASSUME OwnTypes, EventsInv, NEW h \in Handlers, reading[h] # Idle, Finished(h)
    PROVE  /\ reading[h] \in Requests /\ admissions[reading[h]] # 0
           /\ reading' \in [Handlers -> Requests \cup {Idle}]
           /\ \A i \in Handlers : reading'[i] # Idle => reading'[i] = reading[i]
           /\ \A r \in Requests : r # reading[h] => ReadBy(r)' = ReadBy(r)
           /\ \A r \in Events : r = reading[h] /\ admissions[r] = 1 =>
                 /\ ReadBy(r)' = {} /\ Queued(r) = {} /\ WorkedOnBy(r) = {}
                 /\ NotEnded(r)
<1> DEFINE q == reading[h]
<1>1. /\ reading \in [Handlers -> Requests \cup {Idle}]
      /\ reading' = [reading EXCEPT ![h] = Idle]
      /\ q \in Requests /\ admissions[q] # 0
  BY DEF OwnTypes, Finished, EventsInv, KnownWereAdmitted
<1>2. \A r \in Requests : r # q => ReadBy(r)' = ReadBy(r)
  <2>1. TAKE r \in Requests
  <2>2. r # Idle
    BY Sizes
  <2>3. QED BY <1>1, <2>2, HandlerChanges
<1>3. ASSUME NEW r \in Events, r = q, admissions[r] = 1
      PROVE  ReadBy(r)' = {} /\ Queued(r) = {} /\ WorkedOnBy(r) = {} /\ NotEnded(r)
  <2>1. h \in ReadBy(r) /\ ReadBy(r)' = ReadBy(r) \ {h}
    <3>1. r \in Requests /\ r # Idle
      BY <1>1, <1>3, Sizes
    <3>2. QED BY <1>1, <1>3, <3>1, HandlerChanges
  <2>2. OnlyRead(r)
    BY <1>3, <2>1 DEF EventsInv, EventsAreTracked, Tracked, OnlyQueued, OnlyWorkedOn, OnlyEnded
  <2>3. QED BY <2>1, <2>2 DEF OnlyRead, Single
<1>4. QED BY <1>1, <1>2, <1>3

LEMMA LoseBodyPreserves ==
    ASSUME IngressInv, NEW h \in Handlers, LoseBody(h)
    PROVE  IngressInv'
<1> USE DEF IngressInv, LoseBody
<1> DEFINE q == reading[h]
<1>1. /\ q \in Requests /\ admissions[q] # 0
      /\ reading' \in [Handlers -> Requests \cup {Idle}]
      /\ \A i \in Handlers : reading'[i] # Idle => reading'[i] = reading[i]
      /\ \A r \in Requests : r # q => ReadBy(r)' = ReadBy(r)
      /\ \A r \in Events : r = q /\ admissions[r] = 1 =>
            ReadBy(r)' = {} /\ Queued(r) = {} /\ WorkedOnBy(r) = {} /\ NotEnded(r)
  BY HandlerFinishes
<1>2. /\ OwnTypes /\ EventsInv /\ Events \subseteq Requests /\ Genuine \subseteq Requests
      /\ cut' = cut \cup {q} /\ Answer(q, "error")
      /\ UNCHANGED <<kind, queue, working, run, admissions, dropped, processed>>
      /\ current' = current /\ previous' = previous
  BY EventsAreRequests DEF cacheState
<1>3. /\ answer' \in [Requests -> Statuses \cup {"none"}]
      /\ \A r \in Requests : r # q => answer'[r] = answer[r]
  BY <1>1, <1>2 DEF Answer, OwnTypes, Statuses
<1>4. CacheInv'
  BY CacheUntouched
<1>5. OwnTypes'
  BY <1>1, <1>2, <1>3 DEF OwnTypes, Events
<1> HIDE DEF q
<1>6. EventsAreTracked'
  <2> SUFFICES ASSUME NEW r \in Events PROVE Tracked(r)'
    BY <1>2 DEF EventsAreTracked, Events
  <2>1. Tracked(r) /\ r \in Requests
    BY <1>2 DEF EventsInv, EventsAreTracked
  <2>2. Queued(r)' = Queued(r) /\ WorkedOnBy(r)' = WorkedOnBy(r)
    BY <1>2 DEF Queued, WorkedOnBy
  <2>3. CASE r = q
    <3>1. admissions'[r] = 1 => OnlyEnded(r)'
      BY <1>1, <1>2, <2>2, <2>3 DEF OnlyEnded, NotEnded
    <3>2. QED BY <1>1, <1>2, <2>3, <3>1 DEF Tracked
  <2>4. CASE r # q
    BY <1>1, <1>2, <2>1, <2>2, <2>4, TrackedStays
  <2>5. QED BY <2>3, <2>4
<1>7. KnownWereAdmitted'
  BY <1>1, <1>2, <1>3 DEF EventsInv, KnownWereAdmitted, Genuine
<1>8. AdmittedAreAcknowledged'
  <2> SUFFICES ASSUME NEW r \in Genuine, r \notin cut', admissions[r] # 0
               PROVE  answer'[r] = "ok" \/ ReadBy(r)' # {}
    BY <1>2 DEF AdmittedAreAcknowledged, Genuine
  <2>1. r # q /\ r \in Requests /\ r \notin cut
    BY <1>2
  <2>2. QED BY <1>1, <1>2, <1>3, <2>1 DEF EventsInv, AdmittedAreAcknowledged
<1>9. QED
  <2>1. EventsInv'
    BY <1>6, <1>7, <1>8 DEF EventsInv
  <2>2. QED BY <1>4, <1>5, <2>1

LEMMA FinishRequestPreserves ==
    ASSUME IngressInv, NEW h \in Handlers, FinishRequest(h)
    PROVE  IngressInv'
<1> USE DEF IngressInv
<1> DEFINE q == reading[h]
<1>1. /\ q # Idle /\ Answer(q, AnswerTo(q)) /\ Finished(h)
      /\ UNCHANGED <<kind, cacheState, working, run, admissions, cut, processed>>
      /\ \/ q \notin Events /\ UNCHANGED <<queue, dropped>>
         \/ /\ kind[q] = "event" /\ ~ QueueFull
            /\ queue' = Append(queue, q) /\ dropped' = dropped
         \/ kind[q] = "event" /\ dropped' = dropped \cup {q} /\ queue' = queue
  BY DEF FinishRequest, Events
<1>2. /\ q \in Requests /\ admissions[q] # 0
      /\ reading' \in [Handlers -> Requests \cup {Idle}]
      /\ \A i \in Handlers : reading'[i] # Idle => reading'[i] = reading[i]
      /\ \A r \in Requests : r # q => ReadBy(r)' = ReadBy(r)
      /\ \A r \in Events : r = q /\ admissions[r] = 1 =>
            ReadBy(r)' = {} /\ Queued(r) = {} /\ WorkedOnBy(r) = {} /\ NotEnded(r)
  BY <1>1, HandlerFinishes
<1> HIDE DEF q
<1>3. /\ OwnTypes /\ EventsInv /\ Events \subseteq Requests /\ Genuine \subseteq Requests
      /\ queue \in Seq(Requests) /\ Events \subseteq Genuine
      /\ current' = current /\ previous' = previous
      /\ kind[q] = "event" => q \in Events
      /\ UNCHANGED <<kind, working, run, admissions, cut, processed>>
  BY <1>1, <1>2, EventsAreRequests DEF cacheState, Events
<1>4. /\ answer' \in [Requests -> Statuses \cup {"none"}]
      /\ \A r \in Requests : r # q => answer'[r] = answer[r]
      /\ q \in Genuine => answer'[q] = "ok"
  BY <1>1, <1>2, <1>3 DEF Answer, AnswerTo, OwnTypes, Statuses, Genuine
<1>5. CacheInv'
  BY <1>1, CacheUntouched
<1>6. queue' \in Seq(Events) /\ Len(queue') <= QueueSize
  <2>1. queue \in Seq(Events) /\ Len(queue) \in Nat /\ Len(queue) <= QueueSize
    BY <1>3 DEF OwnTypes
  <2>2. CASE queue' = queue
    BY <2>1, <2>2
  <2>3. CASE q \in Events /\ ~ QueueFull /\ queue' = Append(queue, q)
    <3>1. Len(queue) < QueueSize
      BY <2>1, <2>3, Sizes DEF QueueFull
    <3>2. queue' \in Seq(Events) /\ Len(queue') = Len(queue) + 1
      BY <2>1, <2>3
    <3>3. QED BY <2>1, <3>1, <3>2, Sizes
  <2>4. QED BY <1>1, <1>3, <2>2, <2>3
<1>7. OwnTypes'
  BY <1>1, <1>2, <1>3, <1>4, <1>6 DEF OwnTypes, Events
<1>8. EventsAreTracked'
  <2> SUFFICES ASSUME NEW r \in Events PROVE Tracked(r)'
    BY <1>3 DEF EventsAreTracked, Events
  <2>1. Tracked(r) /\ r \in Requests
    BY <1>3 DEF EventsInv, EventsAreTracked
  <2>2. WorkedOnBy(r)' = WorkedOnBy(r)
    BY <1>3 DEF WorkedOnBy
  <2>3. ASSUME r = q, admissions'[r] = 1
        PROVE  OnlyQueued(r)' \/ OnlyEnded(r)'
    <3>1. ReadBy(r)' = {} /\ Queued(r) = {} /\ WorkedOnBy(r)' = {} /\ NotEnded(r)
      BY <1>2, <1>3, <2>2, <2>3
    <3>2. CASE queue' = Append(queue, q) /\ dropped' = dropped
      <4>1. Single(Queued(r)')
        BY <1>2, <1>3, <2>3, <3>1, <3>2, QueueGrows
      <4>2. OnlyQueued(r)'
        BY <1>3, <3>1, <3>2, <4>1 DEF OnlyQueued, NotEnded, Single
      <4>3. QED BY <4>2
    <3>3. CASE dropped' = dropped \cup {q} /\ queue' = queue
      <4>1. Queued(r)' = {}
        BY <3>1, <3>3 DEF Queued
      <4>2. OnlyEnded(r)'
        BY <1>3, <2>3, <3>1, <3>3, <4>1 DEF OnlyEnded, NotEnded
      <4>3. QED BY <4>2
    <3>4. QED BY <1>1, <2>3, <3>2, <3>3
  <2>4. CASE r = q
    BY <1>2, <1>3, <2>3, <2>4 DEF Tracked
  <2>5. CASE r # q
    <3>1. Queued(r)' = Queued(r)
      <4>1. CASE queue' = Append(queue, q)
        BY <1>2, <1>3, <2>5, <4>1, QueueGrows
      <4>2. CASE queue' = queue
        BY <4>2 DEF Queued
      <4>3. QED BY <1>1, <4>1, <4>2
    <3>2. r \in dropped' <=> r \in dropped
      BY <1>1, <2>5
    <3>3. QED BY <1>2, <1>3, <2>1, <2>2, <2>5, <3>1, <3>2, TrackedStays
  <2>6. QED BY <2>4, <2>5
<1>9. KnownWereAdmitted'
  BY <1>2, <1>3, <1>4 DEF EventsInv, KnownWereAdmitted, Genuine
<1>10. AdmittedAreAcknowledged'
  BY <1>2, <1>3, <1>4 DEF EventsInv, AdmittedAreAcknowledged, Genuine
<1>11. QED
  <2>1. EventsInv'
    BY <1>8, <1>9, <1>10 DEF EventsInv
  <2>2. QED BY <1>5, <1>7, <2>1

LEMMA TakePreserves ==
    ASSUME IngressInv, NEW w \in Workers, Take(w)
    PROVE  IngressInv'
<1> USE DEF IngressInv
<1> DEFINE q == Head(queue)
<1>1. /\ queue # <<>> /\ working[w] = Idle /\ working' = [working EXCEPT ![w] = q]
      /\ queue' = Tail(queue)
      /\ UNCHANGED <<kind, reading, run, admissions, answer, cut, dropped, processed>>
      /\ UNCHANGED cacheState
  BY DEF Take, RestOfQueue, history
<1>2. /\ OwnTypes /\ EventsInv /\ Events \subseteq Requests
      /\ queue \in Seq(Requests) /\ queue \in Seq(Events) /\ q \in Events
      /\ working \in [Workers -> Events \cup {Idle}]
  BY <1>1, EventsAreRequests DEF OwnTypes
<1> HIDE DEF q
<1>3. CacheInv' /\ current' = current /\ previous' = previous
  BY <1>1, CacheUntouched DEF cacheState
<1>4. queue' \in Seq(Events) /\ Len(queue') <= QueueSize
  <2>1. queue' \in Seq(Events) /\ Len(queue') = Len(queue) - 1 /\ Len(queue) \in Nat
    BY <1>1, <1>2
  <2>2. QED BY <2>1, Sizes DEF OwnTypes
<1>5. OwnTypes'
  BY <1>1, <1>2, <1>4 DEF OwnTypes, Events
<1>6. EventsAreTracked'
  <2> SUFFICES ASSUME NEW r \in Events PROVE Tracked(r)'
    BY <1>1 DEF EventsAreTracked, Events
  <2>1. Tracked(r) /\ r \in Requests /\ r # Idle
    BY <1>2, Sizes DEF EventsInv, EventsAreTracked
  <2>2. /\ ReadBy(r)' = ReadBy(r) /\ NotEnded(r)' = NotEnded(r)
        /\ admissions'[r] = admissions[r] /\ processed'[r] = processed[r]
        /\ cut' = cut /\ dropped' = dropped
    BY <1>1 DEF ReadBy, NotEnded
  <2>3. /\ Queued(r) = {} => r # q /\ Queued(r)' = {}
        /\ Single(Queued(r)) /\ r # q => Single(Queued(r)')
        /\ Single(Queued(r)) /\ r = q => Queued(r)' = {}
    BY <1>1, <1>2, QueueShrinks DEF q
  <2>4. /\ r # q => WorkedOnBy(r)' = WorkedOnBy(r)
        /\ r = q => WorkedOnBy(r)' = WorkedOnBy(r) \cup {w}
    BY <1>1, <1>2, <2>1, WorkerChanges
  <2>5. Nowhere(r) => Nowhere(r)'
    BY <2>2, <2>3, <2>4 DEF Nowhere
  <2>6. OnlyRead(r) => OnlyRead(r)'
    BY <2>2, <2>3, <2>4 DEF OnlyRead, Single
  <2>7. OnlyQueued(r) => OnlyQueued(r)' \/ OnlyWorkedOn(r)'
    BY <2>2, <2>3, <2>4 DEF OnlyQueued, OnlyWorkedOn, Single
  <2>8. OnlyWorkedOn(r) => OnlyWorkedOn(r)'
    BY <2>2, <2>3, <2>4 DEF OnlyWorkedOn, Single
  <2>9. OnlyEnded(r) => OnlyEnded(r)'
    BY <2>2, <2>3, <2>4 DEF OnlyEnded
  <2>10. QED BY <2>1, <2>2, <2>5, <2>6, <2>7, <2>8, <2>9 DEF Tracked
<1>7. KnownWereAdmitted' /\ AdmittedAreAcknowledged'
  BY <1>1, <1>2, <1>3 DEF EventsInv, KnownWereAdmitted, AdmittedAreAcknowledged, Genuine, ReadBy
<1>8. QED
  <2>1. EventsInv'
    BY <1>6, <1>7 DEF EventsInv
  <2>2. QED BY <1>3, <1>5, <2>1

LEMMA FinishWorkPreserves ==
    ASSUME IngressInv, NEW w \in Workers, FinishWork(w)
    PROVE  IngressInv'
<1> USE DEF IngressInv
<1> DEFINE q == working[w]
<1>1. /\ q # Idle /\ working' = [working EXCEPT ![w] = Idle]
      /\ processed' = [processed EXCEPT ![q] = Again(@)]
      /\ UNCHANGED <<kind, reading, queue, run, admissions, answer, cut, dropped>>
      /\ UNCHANGED cacheState
  BY DEF FinishWork, Released
<1>2. /\ OwnTypes /\ EventsInv /\ Events \subseteq Requests /\ q \in Events
      /\ working \in [Workers -> Events \cup {Idle}]
  BY <1>1, EventsAreRequests DEF OwnTypes
<1>3. CacheInv' /\ current' = current /\ previous' = previous
  BY <1>1, CacheUntouched DEF cacheState
<1>4. /\ processed' \in [Requests -> 0..2]
      /\ processed[q] = 0 => processed'[q] = 1
      /\ \A r \in Requests : r # q => processed'[r] = processed[r]
  BY <1>1, <1>2 DEF OwnTypes, Again
<1>5. OwnTypes'
  BY <1>1, <1>2, <1>4 DEF OwnTypes, Events
<1>6. EventsAreTracked'
  <2> SUFFICES ASSUME NEW r \in Events PROVE Tracked(r)'
    BY <1>1 DEF EventsAreTracked, Events
  <2>1. Tracked(r) /\ r \in Requests /\ r # Idle
    BY <1>2, Sizes DEF EventsInv, EventsAreTracked
  <2>2. /\ ReadBy(r)' = ReadBy(r) /\ Queued(r)' = Queued(r)
        /\ admissions'[r] = admissions[r] /\ cut' = cut /\ dropped' = dropped
    BY <1>1 DEF ReadBy, Queued
  <2>3. CASE r = q
    <3>1. w \in WorkedOnBy(r) /\ WorkedOnBy(r)' = WorkedOnBy(r) \ {w}
      <4>1. w \in WorkedOnBy(r)
        BY <2>3 DEF WorkedOnBy
      <4>2. WorkedOnBy(r)' = WorkedOnBy(r) \ {w}
        BY <1>1, <1>2, <2>1, <2>3 DEF WorkedOnBy
      <4>3. QED BY <4>1, <4>2
    <3>2. admissions[r] # 0
      BY <2>1, <3>1 DEF Tracked, Nowhere
    <3>3. admissions[r] = 1 => OnlyWorkedOn(r)
      BY <2>1, <3>1 DEF Tracked, OnlyRead, OnlyQueued, OnlyEnded
    <3>4. admissions[r] = 1 => OnlyEnded(r)'
      BY <1>4, <2>2, <2>3, <3>1, <3>3 DEF OnlyWorkedOn, OnlyEnded, NotEnded, Single
    <3>5. QED BY <2>2, <3>2, <3>4 DEF Tracked
  <2>4. CASE r # q
    <3>1. WorkedOnBy(r)' = WorkedOnBy(r)
      BY <1>1, <1>2, <2>1, <2>4, WorkerChanges
    <3>2. QED BY <1>4, <2>1, <2>2, <2>4, <3>1, TrackedStays
  <2>5. QED BY <2>3, <2>4
<1>7. KnownWereAdmitted' /\ AdmittedAreAcknowledged'
  BY <1>1, <1>2, <1>3 DEF EventsInv, KnownWereAdmitted, AdmittedAreAcknowledged, Genuine, ReadBy
<1>8. QED
  <2>1. EventsInv'
    BY <1>6, <1>7 DEF EventsInv
  <2>2. QED BY <1>3, <1>5, <2>1

\* Time, and nothing.
LEMMA OthersPreserve ==
    ASSUME IngressInv, CacheInv', current' = current, previous' = previous,
           UNCHANGED <<kind, reading, queue, working, run, admissions, answer, cut,
                       dropped, processed>>
    PROVE  IngressInv'
<1> USE DEF IngressInv
<1>1. OwnTypes'
  BY DEF OwnTypes, Events
<1>2. EventsAreTracked'
  BY TrackedStays DEF EventsInv, EventsAreTracked, Events, ReadBy, Queued, WorkedOnBy
<1>3. KnownWereAdmitted' /\ AdmittedAreAcknowledged'
  BY DEF EventsInv, KnownWereAdmitted, AdmittedAreAcknowledged, Genuine, ReadBy
<1>4. QED BY <1>1, <1>2, <1>3 DEF EventsInv

\* Nobody has read, queued or answered anything yet.
Fresh ==
    /\ reading = [h \in Handlers |-> Idle]
    /\ queue = <<>>
    /\ working = [w \in Workers |-> Idle]
    /\ current = {} /\ previous = {}
    /\ admissions = [q \in Requests |-> 0] /\ processed = [q \in Requests |-> 0]
    /\ answer = [q \in Requests |-> "none"]
    /\ cut = {} /\ dropped = {}

LEMMA FreshIsTracked == Fresh => EventsInv
<1> SUFFICES ASSUME Fresh PROVE EventsInv
  OBVIOUS
<1> USE Sizes DEF Fresh
<1>1. EventsAreTracked
  <2>1. ASSUME NEW q \in Events PROVE Nowhere(q) /\ admissions[q] = 0
    <3>1. q \in Requests /\ q # Idle
      BY DEF Events
    <3>2. QED BY <3>1 DEF Nowhere, NotEnded, ReadBy, Queued, WorkedOnBy
  <2>2. \A q \in Events : Tracked(q)
    <3> SUFFICES ASSUME NEW q \in Events PROVE Tracked(q)
      OBVIOUS
    <3>1. Nowhere(q) /\ admissions[q] = 0
      BY <2>1
    <3> HIDE DEF Fresh
    <3>2. QED BY <3>1 DEF Tracked
  <2>3. QED BY <2>2 DEF EventsAreTracked
<1>2. KnownWereAdmitted
  BY DEF KnownWereAdmitted, Genuine
<1>3. AdmittedAreAcknowledged
  BY DEF AdmittedAreAcknowledged, Genuine
<1>4. QED BY <1>1, <1>2, <1>3 DEF EventsInv

LEMMA InitInv == Init => IngressInv
<1> SUFFICES ASSUME Init PROVE IngressInv
  OBVIOUS
<1>1. CacheInv
  BY CacheInitInv DEF Init
<1>2. EventsInv
  BY FreshIsTracked DEF Init, Fresh, Untouched, CacheInit
<1>3. OwnTypes
  BY Sizes DEF Init, OwnTypes, Untouched
<1>4. QED BY <1>1, <1>2, <1>3 DEF IngressInv

LEMMA RestartPreserves == IngressInv /\ Restart => IngressInv'
<1> SUFFICES ASSUME IngressInv, Restart PROVE IngressInv'
  OBVIOUS
<1>1. CacheInv'
  BY RestartPreservesCache DEF IngressInv
<1>2. Fresh'
  BY DEF Restart, Fresh, Untouched
<1>3. EventsInv'
  <2>1. (Fresh => EventsInv)'
    BY FreshIsTracked, PTL
  <2>2. QED BY <1>2, <2>1
<1>4. OwnTypes'
  BY Sizes DEF IngressInv, Restart, OwnTypes, Untouched, Events
<1>5. QED BY <1>1, <1>3, <1>4 DEF IngressInv

LEMMA NextPreserves ==
    ASSUME IngressInv, [Next]_vars
    PROVE  IngressInv'
<1>1. CASE \E h \in Handlers, q \in Requests :
              RefuseOnHeaders(h, q) \/ RefuseReplay(h, q) \/ Admit(h, q)
  BY <1>1, RefuseOnHeadersPreserves, RefuseReplayPreserves, AdmitPreserves
<1>2. CASE \E h \in Handlers : LoseBody(h) \/ FinishRequest(h)
  BY <1>2, LoseBodyPreserves, FinishRequestPreserves
<1>3. CASE \E w \in Workers : Take(w) \/ FinishWork(w)
  BY <1>3, TakePreserves, FinishWorkPreserves
<1>4. CASE TimePasses
  <2>1. CacheInv'
    BY <1>4, TickPreservesInv DEF TimePasses, IngressInv
  <2>2. QED
    BY <1>4, <2>1, OthersPreserve DEF TimePasses, history, CacheTimePasses, cacheVars
<1>5. CASE Restart
  BY <1>5, RestartPreserves
<1>6. CASE UNCHANGED vars
  <2>1. CacheInv'
    BY <1>6, CacheUntouched DEF vars, cacheState, IngressInv
  <2>2. QED BY <1>6, <2>1, OthersPreserve DEF vars
<1>7. QED BY <1>1, <1>2, <1>3, <1>4, <1>5, <1>6 DEF Next

-----------------------------------------------------------------------------
(* The theorems *)

\* For any requests, handlers, workers, restarts and sizes, the invariant above
\* holds of every behaviour of the receiver.
THEOREM IngressInvariant == Spec => []IngressInv
<1>1. Init => IngressInv
  BY InitInv
<1>2. IngressInv /\ [Next]_vars => IngressInv'
  BY NextPreserves
<1>3. QED BY <1>1, <1>2, PTL DEF Spec

\* Every variable has its type, and nc.queue never holds more than
\* webhookQueueSize events.
THEOREM TypeCorrect == Spec => []TypeOK
<1>1. IngressInv => TypeOK
  BY CacheTypes DEF IngressInv, OwnTypes, TypeOK
<1>2. QED BY <1>1, IngressInvariant, PTL

\* handleWebhook and processEvents: an event that was let through once is in one
\* place at a time, however handlers, workers and copies of it interleave.
THEOREM EventsAreNeitherLostNorDoubled == Spec => []NeitherLostNorDoubled
<1>1. IngressInv => NeitherLostNorDoubled
  <2> SUFFICES ASSUME IngressInv, NEW q \in Events, admissions[q] = 1
               PROVE  Cardinality(ReadBy(q)) + Cardinality(Queued(q))
                        + Cardinality(WorkedOnBy(q)) + processed[q]
                        + Cardinality({q} \cap cut) + Cardinality({q} \cap dropped) = 1
    BY DEF NeitherLostNorDoubled
  <2>1. OnlyRead(q) \/ OnlyQueued(q) \/ OnlyWorkedOn(q) \/ OnlyEnded(q)
    BY DEF IngressInv, EventsInv, EventsAreTracked, Tracked
  <2>2. \A S : S = {} => Cardinality(S) = 0
    BY FS_EmptySet
  <2>3. \A S : Single(S) => Cardinality(S) = 1
    BY FS_Singleton DEF Single
  <2>4. /\ q \in cut => Cardinality({q} \cap cut) = 1
        /\ q \notin cut => Cardinality({q} \cap cut) = 0
        /\ q \in dropped => Cardinality({q} \cap dropped) = 1
        /\ q \notin dropped => Cardinality({q} \cap dropped) = 0
    <3>1. /\ q \in cut => {q} \cap cut = {q}
          /\ q \notin cut => {q} \cap cut = {}
          /\ q \in dropped => {q} \cap dropped = {q}
          /\ q \notin dropped => {q} \cap dropped = {}
      OBVIOUS
    <3>2. QED BY <3>1, FS_EmptySet, FS_Singleton
  <2>5. CASE OnlyRead(q)
    BY <2>2, <2>3, <2>4, <2>5 DEF OnlyRead, NotEnded
  <2>6. CASE OnlyQueued(q)
    BY <2>2, <2>3, <2>4, <2>6 DEF OnlyQueued, NotEnded
  <2>7. CASE OnlyWorkedOn(q)
    BY <2>2, <2>3, <2>4, <2>7 DEF OnlyWorkedOn, NotEnded
  <2>8. CASE OnlyEnded(q)
    BY <2>2, <2>3, <2>4, <2>8 DEF OnlyEnded
  <2>9. QED BY <2>1, <2>5, <2>6, <2>7, <2>8
<1>2. QED BY <1>1, IngressInvariant, PTL

\* handleWebhook answers with an error only what was not signed by Talk, what did
\* not arrive whole, and a copy of what is being read or was acknowledged.
THEOREM IntactRequestsAreAcknowledged == Spec => []IntactIsAcknowledged
<1>1. IngressInv => IntactIsAcknowledged
  BY DEF IngressInv, EventsInv, KnownWereAdmitted, AdmittedAreAcknowledged, IntactIsAcknowledged
<1>2. QED BY <1>1, IngressInvariant, PTL

\* nonces.Accept under concurrent handlers and restarts: no body is read for a
\* request that the cache of this run still protects.
THEOREM ReplaysNeverPass == Spec => ReplaysAreRefused
<1> DEFINE Refused == \A q \in Requests, h \in Handlers :
                         (reading[h] = Idle /\ reading'[h] = q) => ~ Protected(q)
<1>1. IngressInv /\ [Next]_vars => [Refused]_vars
  <2> SUFFICES ASSUME IngressInv, Next, NEW q \in Requests, NEW h \in Handlers,
                      reading[h] = Idle, reading'[h] = q
               PROVE  ~ Protected(q)
    BY DEF Refused
  <2>1. reading \in [Handlers -> Requests \cup {Idle}] /\ q # Idle /\ reading' # reading
    BY Sizes DEF IngressInv, OwnTypes
  <2>2. ~ Restart /\ ~ TimePasses /\ ~ \E w \in Workers : Take(w) \/ FinishWork(w)
    BY <2>1 DEF Restart, TimePasses, Take, FinishWork
  <2>3. ~ \E i \in Handlers : LoseBody(i) \/ FinishRequest(i)
    BY <2>1 DEF LoseBody, FinishRequest, Finished
  <2>4. PICK i \in Handlers, r \in Requests : Admit(i, r)
    BY <2>1, <2>2, <2>3 DEF Next, RefuseOnHeaders, RefuseReplay
  <2>5. r = q
    BY <2>1, <2>4 DEF Admit
  <2>6. QED BY <2>4, <2>5, RememberPreservesCache DEF Admit, Spend, IngressInv
<1>2. ReplaysAreRefused <=> [][Refused]_vars
  BY PTL DEF ReplaysAreRefused
<1>3. QED BY <1>1, <1>2, IngressInvariant, PTL DEF Spec

\* Handlers side by side and restarts do not break the promises of the cache: it stays
\* within its two generations and forgets no request of this run that is protected.
THEOREM CacheKeepsItsPromises == Spec => [](MemoryBounded /\ RememberedLongEnough)
<1>1. IngressInv => MemoryBounded /\ RememberedLongEnough
  BY DEF IngressInv, CacheInv
<1>2. QED BY <1>1, IngressInvariant, PTL

\* Between two restarts the receiver implements the promise of its cache: whatever
\* handlers do at the same time, a step admits a request that is not protected, or
\* lets time pass, or is none of the cache's business.
THEOREM ReceiverImplementsGuard ==
    Spec => GuardInit /\ [][GuardNext \/ Restart]_guardVars
<1>1. Init => GuardInit
  BY DEF Init, CacheInit
<1>2. IngressInv /\ [Next]_vars => [GuardNext \/ Restart]_guardVars
  <2> SUFFICES ASSUME IngressInv, [Next]_vars, ~ Restart
               PROVE  GuardNext \/ UNCHANGED guardVars
    OBVIOUS
  <2>1. ASSUME NEW h \in Handlers, NEW q \in Requests,
               RefuseOnHeaders(h, q) \/ RefuseReplay(h, q)
        PROVE  UNCHANGED guardVars
    BY <2>1 DEF RefuseOnHeaders, RefuseReplay, Refuse, cacheState, guardVars
  <2>2. ASSUME NEW h \in Handlers, NEW q \in Requests, Admit(h, q) PROVE GuardNext
    <3>1. ~ Protected(q) /\ Record(q)
      BY <2>2, RememberPreservesCache DEF Admit, Spend, Remember, IngressInv
    <3>2. QED BY <3>1 DEF GuardAdmit, GuardNext
  <2>3. ASSUME NEW h \in Handlers, LoseBody(h) \/ FinishRequest(h) PROVE UNCHANGED guardVars
    BY <2>3 DEF LoseBody, FinishRequest, cacheState, guardVars
  <2>4. ASSUME NEW w \in Workers, Take(w) \/ FinishWork(w) PROVE UNCHANGED guardVars
    BY <2>4 DEF Take, FinishWork, cacheState, guardVars
  <2>5. TimePasses => GuardNext
    BY DEF TimePasses, CacheTimePasses, GuardNext
  <2>6. UNCHANGED vars => UNCHANGED guardVars
    BY DEF vars, guardVars
  <2>7. QED BY <2>1, <2>2, <2>3, <2>4, <2>5, <2>6 DEF Next
<1>3. QED BY <1>1, <1>2, IngressInvariant, PTL DEF Spec
=============================================================================
