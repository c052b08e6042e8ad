---------------------------- MODULE NonceCache ----------------------------
(***************************************************************************)
(* The replay cache of the webhook receiver, src/pkg/connector/nonce.go:   *)
(* two generations of randoms, swapped when the newer one is too old or    *)
(* too full.  Accept holds the mutex from the clock reading to the insert, *)
(* so one call is one step; a call that returns true is Remember, one that *)
(* returns false is Refuse.  The rotation is lazy: it happens inside the   *)
(* next call, never by itself.  The counters behind stats() are read by    *)
(* nothing but tests and are left out.  now, admittedAt and admittedSince  *)
(* come from ReplayGuard; the last two are history the code does not keep. *)
(***************************************************************************)
EXTENDS ReplayGuard, FiniteSets

ASSUME CacheAssumption == IsFiniteSet(Randoms)

VARIABLES current,     \* the generation being filled
          previous,    \* the one before it, dropped by the next rotation
          rotatedAt    \* when current was started; Never before the first call

cacheVars == <<current, previous, rotatedAt>>
cacheState == <<now, admittedAt, admittedSince, current, previous, rotatedAt>>

CacheInit ==
    /\ GuardInit
    /\ current = {}
    /\ previous = {}
    /\ rotatedAt = Never

\* The first call ever starts the clock of the first generation.
StartedAt == IF rotatedAt = Never THEN now ELSE rotatedAt

\* Faulty variants of definitions below, kept to show what the properties
\* catch: no rotation on size; a lookup in the newer half only; a rotation that
\* drops both halves; one that keeps, or postdates, the old start time.
RotationDueOnAgeOnly == now - StartedAt >= Retention

RotationDue ==
    \/ now - StartedAt >= Retention
    \/ Cardinality(current) >= MaxSize

\* The two generations and the start time as the lookup sees them, after the
\* rotation that opens the call; NewPreviousEmptied and NewRotatedAtKept are
\* faulty variants.
NewCurrent   == IF RotationDue THEN {} ELSE current
NewPreviousEmptied == IF RotationDue THEN {} ELSE previous
NewRotatedAtKept == StartedAt
NewPrevious  == IF RotationDue THEN current ELSE previous
NewRotatedAt == IF RotationDue THEN now ELSE StartedAt

Seen(r) == r \in NewCurrent \/ r \in NewPrevious

\* Accept(r) = true
Remember(r) ==
    /\ ~ Seen(r)
    /\ current' = NewCurrent \cup {r}
    /\ previous' = NewPrevious
    /\ rotatedAt' = NewRotatedAt
    /\ Record(r)

\* Accept(r) = false: the rotation has still happened.
Refuse(r) ==
    /\ Seen(r)
    /\ current' = NewCurrent
    /\ previous' = NewPrevious
    /\ rotatedAt' = NewRotatedAt
    /\ UNCHANGED guardVars

Accept(r) == Remember(r) \/ Refuse(r)

CacheTimePasses == Tick /\ UNCHANGED cacheVars

CacheNext == CacheTimePasses \/ \E r \in Randoms : Accept(r)

CacheSpec == CacheInit /\ [][CacheNext]_cacheState

-----------------------------------------------------------------------------
\* Every variable has its type.
CacheTypeOK ==
    /\ now \in 0..Horizon
    /\ admittedAt \in [Randoms -> {Never} \cup 0..Horizon]
    /\ admittedSince \in [Randoms -> 0..MaxSize]
    /\ current \in SUBSET Randoms
    /\ previous \in SUBSET Randoms
    /\ rotatedAt \in {Never} \cup 0..Horizon

\* "bounds memory when something floods the endpoint" (nonce.go:24-26): neither
\* generation ever holds more than MaxSize randoms, whatever is sent and
\* however rarely the clock moves.
MemoryBounded ==
    /\ Cardinality(current) <= MaxSize
    /\ Cardinality(previous) <= MaxSize

\* No random sits in both generations, so stats() counts every one once and a
\* rotation never shortens what the newer half remembers.
GenerationsDisjoint == current \cap previous = {}

\* The cache only forgets a random it admitted once Retention has passed or
\* MaxSize others have been admitted since: the two rotations it takes to drop
\* an entry cannot both be early.
RememberedLongEnough ==
    \A r \in Randoms : Protected(r) => r \in current \cup previous

\* Accept never answers true for a random it answered true for within the
\* window, and changes nothing else the receiver can rely on.
ImplementsReplayGuard == GuardSpec
=============================================================================
