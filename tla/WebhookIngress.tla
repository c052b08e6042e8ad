--------------------------- MODULE WebhookIngress ---------------------------
(***************************************************************************)
(* The way in: src/pkg/connector/webhook.go from the HTTP request to the   *)
(* worker that has finished with the event.  Requests are handled          *)
(* concurrently (one goroutine each), the replay cache decides before the  *)
(* body is read, verified events go to a bounded queue that a fixed set of *)
(* workers drains, and a restart forgets all of it: nothing here is        *)
(* persisted.  A request stands for what Talk sends once; the same request *)
(* may arrive any number of times, at any moment, also while an earlier    *)
(* copy is being handled.  The replay cache is NonceCache, which knows a   *)
(* request by its random; Talk never reuses one.  What a worker does with  *)
(* an event is the business of LoginRouter and MessageChanges; here it     *)
(* only takes time.                                                        *)
(***************************************************************************)
EXTENDS NonceCache, Sequences

CONSTANTS Arrivals,    \* what may be in each request: [request -> kind]
          Handlers,    \* concurrent HTTP handlers
          Workers,     \* goroutines draining the queue (webhookWorkers)
          QueueSize,   \* webhookQueueSize
          MaxRestarts  \* bound on the restarts of one behaviour

\* Every request that may arrive, by its random.
Requests == Randoms

Kinds == {"headerless", "misaddressed", "stranger", "badSignature",
          "unparsable", "event"}
Idle == "idle"  \* in place of a request or an event

ASSUME IngressAssumption ==
    /\ Idle \notin Requests
    /\ Arrivals \subseteq [Requests -> Kinds]
    /\ QueueSize \in Nat \ {0}
    /\ MaxRestarts \in Nat

VARIABLES
    kind,        \* what is in each request; it never changes
    reading,     \* handler -> the admitted request whose body it is reading
    queue,       \* nc.queue
    working,     \* worker -> the event it is processing
    run,         \* which run of the bridge this is
    admissions,  \* history: how often the cache let each request through
    answer,      \* history: the best answer each request was given
    cut,         \* history: admitted requests whose body did not arrive whole
    dropped,     \* history: events that met a full queue
    processed    \* history: how often each event was worked on to the end

history == <<admissions, answer, cut, dropped, processed>>
vars == <<now, admittedAt, admittedSince, current, previous, rotatedAt,
          kind, reading, queue, working, run, admissions, answer, cut, dropped,
          processed>>

\* 400 and 401 are both an error to Talk.
Statuses == {"ok", "error"}

\* Histories count up to two: only "never", "once" and "again" matter.
Again(n) == IF n < 2 THEN n + 1 ELSE n

Untouched == [q \in Requests |-> 0]

Init ==
    /\ CacheInit
    /\ kind \in Arrivals
    /\ reading = [h \in Handlers |-> Idle]
    /\ queue = <<>>
    /\ working = [w \in Workers |-> Idle]
    /\ run = 0
    /\ admissions = Untouched
    /\ answer = [q \in Requests |-> "none"]
    /\ cut = {}
    /\ dropped = {}
    /\ processed = Untouched

Answer(q, status) ==
    answer' = [answer EXCEPT ![q] = IF @ = "ok" THEN @ ELSE status]

-----------------------------------------------------------------------------
(* handleWebhook *)

\* Decided from the headers alone, before the random is looked at: no
\* signature headers, an unusable backend, a host with no configured secret.
RefuseOnHeaders(h, q) ==
    /\ reading[h] = Idle
    /\ kind[q] \in {"headerless", "misaddressed", "stranger"}
    /\ Answer(q, "error")
    /\ UNCHANGED <<kind, cacheState, reading, queue, working, run, admissions, cut, dropped, processed>>

\* nonces.Accept = false
RefuseReplay(h, q) ==
    /\ reading[h] = Idle
    /\ kind[q] \in {"badSignature", "unparsable", "event"}
    /\ Refuse(q)
    /\ Answer(q, "error")
    /\ UNCHANGED <<kind, reading, queue, working, run, admissions, cut, dropped, processed>>

\* A faulty variant of the insert: the lookup and the insert come apart, as when
\* the random is stored only once the signature over the body was checked.
SpendLater(q) ==
    /\ ~ Seen(q)
    /\ Record(q)
    /\ UNCHANGED <<current, previous, rotatedAt>>

\* nonces.Accept = true
Spend(q) == Remember(q)

\* The random is spent whatever happens to the body afterwards.
Admit(h, q) ==
    /\ reading[h] = Idle
    /\ kind[q] \in {"badSignature", "unparsable", "event"}
    /\ Spend(q)
    /\ reading' = [reading EXCEPT ![h] = q]
    /\ admissions' = [admissions EXCEPT ![q] = Again(@)]
    /\ UNCHANGED <<kind, queue, working, run, answer, cut, dropped, processed>>

Finished(h) == reading' = [reading EXCEPT ![h] = Idle]

\* io.ReadAll failed: the connection broke or the body was too long.
LoseBody(h) ==
    /\ reading[h] # Idle
    /\ Answer(reading[h], "error")
    /\ cut' = cut \cup {reading[h]}
    /\ Finished(h)
    /\ UNCHANGED <<kind, cacheState, queue, working, run, admissions, dropped, processed>>

QueueNeverFull == FALSE
QueueFull == Len(queue) >= QueueSize

\* What a request that arrived whole is answered: VerifyWebhook fails a bad
\* signature; a verified payload the bridge cannot parse is acknowledged, and so
\* is an event that finds the queue full.  The faulty variant does not.
AnswerOverflow(q) ==
    IF kind[q] = "badSignature" \/ QueueFull THEN "error" ELSE "ok"
AnswerTo(q) == IF kind[q] = "badSignature" THEN "error" ELSE "ok"

\* The body arrived: verify, parse, answer, and for an event the non-blocking
\* send, which drops it when the queue is full.
FinishRequest(h) ==
    LET q == reading[h]
    IN  /\ q # Idle
        /\ Answer(q, AnswerTo(q))
        /\ Finished(h)
        /\ \/ /\ kind[q] # "event"
              /\ UNCHANGED <<queue, dropped>>
           \/ /\ kind[q] = "event" /\ ~ QueueFull
              /\ queue' = Append(queue, q)
              /\ UNCHANGED dropped
           \/ /\ kind[q] = "event" /\ QueueFull
              /\ dropped' = dropped \cup {q}
              /\ UNCHANGED queue
        /\ UNCHANGED <<kind, cacheState, working, run, admissions, cut, processed>>

-----------------------------------------------------------------------------
(* processEvents, one worker *)

\* The queue after a receive; a faulty variant leaves the event in it.
AllOfQueue == queue
RestOfQueue == Tail(queue)

Take(w) ==
    /\ working[w] = Idle
    /\ queue # <<>>
    /\ working' = [working EXCEPT ![w] = Head(queue)]
    /\ queue' = RestOfQueue
    /\ UNCHANGED <<kind, cacheState, reading, run, history>>

\* processEvent returned: routed, ignored, failed or out of its 60 seconds, the
\* worker goes on with the next event.  A faulty variant never comes back from
\* the one it has.
StillBusy(w) == working[w]
Released(w) == Idle

FinishWork(w) ==
    /\ working[w] # Idle
    /\ processed' = [processed EXCEPT ![working[w]] = Again(@)]
    /\ working' = [working EXCEPT ![w] = Released(w)]
    /\ UNCHANGED <<kind, cacheState, reading, queue, run, admissions, answer, cut, dropped>>

-----------------------------------------------------------------------------
(* the world around *)

TimePasses ==
    /\ CacheTimePasses
    /\ UNCHANGED <<kind, reading, queue, working, run, history>>

\* The process stops and starts again: registerWebhook makes a new cache and a
\* new queue, and what was in flight is gone.  The history is that of a run.
Restart ==
    /\ run < MaxRestarts
    /\ run' = run + 1
    /\ reading' = [h \in Handlers |-> Idle]
    /\ queue' = <<>>
    /\ working' = [w \in Workers |-> Idle]
    /\ current' = {}
    /\ previous' = {}
    /\ rotatedAt' = Never
    /\ admittedAt' = [q \in Requests |-> Never]
    /\ admittedSince' = [q \in Requests |-> 0]
    /\ admissions' = Untouched
    /\ answer' = [q \in Requests |-> "none"]
    /\ cut' = {}
    /\ dropped' = {}
    /\ processed' = Untouched
    /\ UNCHANGED <<kind, now>>

Next ==
    \/ \E h \in Handlers, q \in Requests :
          RefuseOnHeaders(h, q) \/ RefuseReplay(h, q) \/ Admit(h, q)
    \/ \E h \in Handlers : LoseBody(h) \/ FinishRequest(h)
    \/ \E w \in Workers : Take(w) \/ FinishWork(w)
    \/ TimePasses
    \/ Restart

Spec == Init /\ [][Next]_vars

\* Handlers and workers are goroutines that are never waited on: each of them
\* takes its next step in the end.  Requests, time and restarts may never come.
Fairness ==
    /\ \A h \in Handlers : WF_vars(LoseBody(h) \/ FinishRequest(h))
    /\ \A w \in Workers : WF_vars(Take(w)) /\ WF_vars(FinishWork(w))

FairSpec == Spec /\ Fairness

-----------------------------------------------------------------------------
Queued(q) == {i \in DOMAIN queue : queue[i] = q}
ReadBy(q) == {h \in Handlers : reading[h] = q}
WorkedOnBy(q) == {w \in Workers : working[w] = q}
Events == {q \in Requests : kind[q] = "event"}
Genuine == {q \in Requests : kind[q] \in {"event", "unparsable"}}

\* Every variable has its type; the queue never exceeds its capacity.
TypeOK ==
    /\ CacheTypeOK
    /\ kind \in Arrivals
    /\ reading \in [Handlers -> Requests \cup {Idle}]
    /\ queue \in Seq(Events) /\ Len(queue) <= QueueSize
    /\ working \in [Workers -> Events \cup {Idle}]
    /\ run \in 0..MaxRestarts
    /\ admissions \in [Requests -> 0..2]
    /\ answer \in [Requests -> Statuses \cup {"none"}]
    /\ cut \in SUBSET Requests
    /\ dropped \in SUBSET Events
    /\ processed \in [Requests -> 0..2]

\* A verified event the cache let through once is in exactly one place: with
\* the handler reading it, in the queue, with one worker, done with, or lost in
\* one of the two ways the code logs.  It is never processed twice and never
\* vanishes, however many copies of the request arrive and whenever they do.
NeitherLostNorDoubled ==
    \A q \in Events : admissions[q] = 1 =>
        Cardinality(ReadBy(q)) + Cardinality(Queued(q))
          + Cardinality(WorkedOnBy(q)) + processed[q]
          + Cardinality({q} \cap cut) + Cardinality({q} \cap dropped) = 1

\* webhook.go:99-102 and 179-181: Talk disables a bot whose receiver answers
\* with errors, so what Talk signed is acknowledged if its body arrived, also
\* when the queue is full or the bridge cannot parse it; a copy that is refused
\* does not change that.
IntactIsAcknowledged ==
    \A q \in Genuine \ cut :
        answer[q] = "error" => ReadBy(q) # {}

\* Within one run and within the window of the cache, a request is let through
\* once: between two admissions lies a whole retention or a whole generation
\* of other requests, also with handlers running side by side.
ReplaysAreRefused ==
    [][\A q \in Requests, h \in Handlers :
          (reading[h] = Idle /\ reading'[h] = q) => ~ Protected(q)]_vars

\* What is in the queue is worked on in the end, unless the bridge restarts
\* first: no worker stops, and no event is overtaken for ever.
QueuedIsProcessed ==
    \A q \in Requests :
        Queued(q) # {} ~>
            (processed[q] > 0 \/ (Queued(q) = {} /\ WorkedOnBy(q) = {}))
=============================================================================
