-------------------------- MODULE LoginRouterProofs --------------------------
(***************************************************************************)
(* Who owns a conversation, for any number of logins, workers and changes: *)
(* proofs about LoginRouter.                                               *)
(***************************************************************************)
EXTENDS LoginRouter, WellFoundedInduction, TLAPS

\* What a worker may have on its stack.
Stack == [at : {"idle", "probing", "answered", "routed"},
          left : SUBSET Logins, login : Logins \cup {None},
          answer : {"", "found", "notFound", "failed"}]

\* The histories know of every login that is in or out now.
HistoriesKnow == member \subseteq wasMember /\ Logins \ member \subseteq wasAbsent

\* An answer on its way, on a worker's stack or in a list, was true when it was
\* given.
WasTrue(r) ==
    r.at = "answered" =>
        /\ r.login \in Logins
        /\ r.answer \in {"found", "notFound", "failed"}
        /\ r.answer = "found" => r.login \in wasMember \ Unreadable
        /\ r.answer = "notFound" => r.login \in wasAbsent

AnswersWereTrue ==
    /\ \A w \in Workers : WasTrue(resolving[w])
    /\ \A l \in Logins : /\ listed[l] = "in" => l \in wasMember
                         /\ listed[l] # "none" => l \notin Unreadable

\* Whoever a worker has passed over is no participant, and an answer is about
\* the lowest of those it has left.
StillTrue(r) ==
    /\ r.at = "probing" => loaded \cap member \subseteq r.left /\ r.left \subseteq loaded
    /\ r.at = "answered" =>
          /\ r.left \cup {r.login} \subseteq loaded
          /\ loaded \cap member \subseteq r.left \cup {r.login}
          /\ \A k \in r.left : r.login <= k

\* While all is calm, what was true still is, in the tables, on the stacks and in
\* the lists.
CalmTables ==
    Calm => /\ wasMember = member
            /\ wasAbsent = Logins \ member
            /\ primary # None => primary \in Usable
CalmStacks == Calm => \A w \in Workers : StillTrue(resolving[w])
CalmLists ==
    Calm => \A l \in Logins : listed[l] # "none" =>
                /\ l \in loaded
                /\ listed[l] = "in" <=> l \in member

RouterInv ==
    /\ TypeOK
    /\ HistoriesKnow
    /\ AnswersWereTrue
    /\ BeliefsWereTrue
    /\ CalmTables
    /\ CalmStacks
    /\ CalmLists
    /\ LowestOwnsOnceWarmed

-----------------------------------------------------------------------------
\* A set of login IDs that is not empty has a lowest one.
LEMMA LowestIsLeast ==
    ASSUME NEW S, S \subseteq Nat, S # {}
    PROVE  Lowest(S) \in S /\ \A k \in S : Lowest(S) <= k
<1> DEFINE Less == {ss \in Nat \X Nat : ss[1] < ss[2]}
<1>1. IsWellFoundedOn(Less, Nat)
  BY NatLessThanWellFounded DEF OpToRel
<1>2. \E l \in S : \A k \in S : <<k, l>> \notin Less
  <2> HIDE DEF Less
  <2> QED BY <1>1, WFMin
<1>3. \A l, k \in S : <<k, l>> \notin Less => l <= k
  OBVIOUS
<1> HIDE DEF Less
<1>4. QED BY <1>2, <1>3 DEF Lowest

LEMMA InitInv == Init => RouterInv
<1> SUFFICES ASSUME Init PROVE RouterInv
  OBVIOUS
<1> USE RouterAssumption DEF Init
<1>1. AtRest \in Stack /\ WasTrue(AtRest) /\ StillTrue(AtRest)
  BY DEF AtRest, Stack, WasTrue, StillTrue
<1>2. TypeOK
  <2>1. resolving \in [Workers -> Stack]
    BY <1>1
  <2>2. upheavals \in 0..MaxUpheavals /\ wasAbsent \in SUBSET Logins /\ wasMember \in SUBSET Logins
    OBVIOUS
  <2> HIDE RouterAssumption
  <2>3. listed \in [Logins -> {"none", "in", "out"}]
    OBVIOUS
  <2>4. QED BY <2>1, <2>2, <2>3 DEF TypeOK, Stack
<1>3. HistoriesKnow /\ BeliefsWereTrue /\ CalmTables /\ CalmLists /\ LowestOwnsOnceWarmed
  BY DEF HistoriesKnow, BeliefsWereTrue, CalmTables, CalmLists, LowestOwnsOnceWarmed
<1>4. AnswersWereTrue /\ CalmStacks
  BY <1>1 DEF AnswersWereTrue, CalmStacks
<1>5. QED BY <1>2, <1>3, <1>4 DEF RouterInv

\* A worker's own step, whatever it does to the tables: what is said of stacks
\* and lists holds afterwards if it holds of the stack the worker leaves.
LEMMA WorkerSteps ==
    ASSUME RouterInv, NEW w \in Workers, NEW r \in Stack,
           resolving' = [resolving EXCEPT ![w] = r],
           UNCHANGED <<member, loaded, gone, listed, wasMember, wasAbsent, upheavals>>,
           failed' \in BOOLEAN, failed => failed',
           WasTrue(r), Calm' => StillTrue(r),
           primary' \in Logins \cup {None}, absent' \in SUBSET Logins,
           warmed' \in SUBSET Logins
    PROVE  /\ TypeOK' /\ HistoriesKnow' /\ AnswersWereTrue'
           /\ CalmStacks' /\ CalmLists'
           /\ Calm' => Calm
           /\ Usable' = Usable
<1> USE DEF RouterInv
<1>1. TypeOK'
  BY DEF TypeOK, Stack
<1>2. HistoriesKnow' /\ Usable' = Usable /\ (Calm' => Calm)
  BY DEF HistoriesKnow, Usable, Calm, TypeOK
<1>3. AnswersWereTrue'
  BY DEF AnswersWereTrue, WasTrue, TypeOK
<1>4. CalmStacks'
  BY <1>2 DEF CalmStacks, StillTrue, TypeOK
<1>5. CalmLists'
  BY <1>2 DEF CalmLists
<1>6. QED BY <1>1, <1>2, <1>3, <1>4, <1>5

\* Steps of a worker that leave the tables alone.
LEMMA StackSteps ==
    ASSUME RouterInv, NEW w \in Workers, NEW r \in Stack,
           resolving' = [resolving EXCEPT ![w] = r],
           UNCHANGED <<member, loaded, gone, listed, routes, history>>,
           WasTrue(r), Calm => StillTrue(r)
    PROVE  RouterInv'
<1> USE DEF RouterInv, routes, history
<1>1. Calm' <=> Calm
  BY DEF Calm
<1>2. /\ TypeOK' /\ HistoriesKnow' /\ AnswersWereTrue' /\ CalmStacks' /\ CalmLists'
      /\ Usable' = Usable
  BY <1>1, WorkerSteps DEF TypeOK
<1>3. BeliefsWereTrue' /\ CalmTables' /\ LowestOwnsOnceWarmed'
  BY <1>1, <1>2 DEF BeliefsWereTrue, CalmTables, LowestOwnsOnceWarmed, Lowest
<1>4. QED BY <1>2, <1>3

\* The candidate that comes next is the lowest of those left.
LEMMA NextIsLeast ==
    ASSUME RouterInv, NEW w \in Workers, resolving[w].left # {}
    PROVE  LET l == NextCandidate(resolving[w].left)
           IN  /\ l \in resolving[w].left /\ l \in Logins
               /\ \A k \in resolving[w].left : l <= k
<1>1. resolving[w].left \subseteq Logins /\ Logins \subseteq Nat
  BY RouterAssumption DEF RouterInv, TypeOK
<1>2. QED BY <1>1, LowestIsLeast DEF NextCandidate

LEMMA LookupPreserves == ASSUME RouterInv, NEW w \in Workers, Lookup(w) PROVE RouterInv'
<1> DEFINE r == IF primary # None THEN Routed ELSE Probing(loaded)
<1>1. r \in Stack /\ WasTrue(r) /\ StillTrue(r)
  BY DEF Stack, Routed, Probing, AtRest, WasTrue, StillTrue, RouterInv, TypeOK
<1>2. resolving' = [resolving EXCEPT ![w] = r]
  BY DEF Lookup
<1> HIDE DEF r
<1>3. QED BY <1>1, <1>2, StackSteps DEF Lookup

LEMMA SkipPreserves == ASSUME RouterInv, NEW w \in Workers, Skip(w) PROVE RouterInv'
<1> DEFINE l == NextCandidate(resolving[w].left)
           r == [resolving[w] EXCEPT !.left = @ \ {l}]
<1> USE DEF RouterInv
<1>1. resolving' = [resolving EXCEPT ![w] = r] /\ resolving[w].at = "probing" /\ l \in absent
  BY DEF Skip
<1>2. resolving[w] \in Stack
  BY DEF TypeOK, Stack
<1>3. r \in Stack /\ r.at = "probing" /\ r.left = resolving[w].left \ {l}
  BY <1>1, <1>2 DEF Stack
<1>4. Calm => l \notin member
  BY <1>1 DEF CalmTables, BeliefsWereTrue
<1> HIDE DEF l, r
<1>5. WasTrue(r) /\ (Calm => StillTrue(r))
  BY <1>1, <1>3, <1>4 DEF WasTrue, StillTrue, CalmStacks
<1>6. QED BY <1>1, <1>3, <1>5, StackSteps DEF Skip

LEMMA AskPreserves == ASSUME RouterInv, NEW w \in Workers, Ask(w) PROVE RouterInv'
<1> DEFINE l == NextCandidate(resolving[w].left)
<1> USE DEF RouterInv
<1>1. PICK answer \in AnswersFor(l) :
         resolving' = [resolving EXCEPT ![w] =
            [at |-> "answered", left |-> resolving[w].left \ {l}, login |-> l, answer |-> answer]]
  BY DEF Ask
<1> DEFINE r == [at |-> "answered", left |-> resolving[w].left \ {l}, login |-> l, answer |-> answer]
<1>2. resolving[w] \in Stack /\ resolving[w].at = "probing" /\ resolving[w].left # {}
  BY DEF TypeOK, Stack, Ask
<1>3. l \in resolving[w].left /\ l \in Logins /\ \A k \in resolving[w].left : l <= k
  BY <1>2, NextIsLeast
<1> HIDE DEF l
<1>4. /\ answer \in {"found", "notFound", "failed"}
      /\ answer = "found" => l \in member \ Unreadable
      /\ answer = "notFound" => l \notin member
  BY <1>1 DEF AnswersFor
<1>5. r \in Stack
  BY <1>2, <1>3, <1>4 DEF Stack
<1>6. WasTrue(r)
  BY <1>3, <1>4 DEF WasTrue, HistoriesKnow
<1>7. Calm => StillTrue(r)
  BY <1>2, <1>3 DEF StillTrue, CalmStacks, TypeOK
<1> HIDE DEF r
<1>8. QED BY <1>1, <1>5, <1>6, <1>7, StackSteps DEF Ask, r

\* The answer of the lowest participant, while all is calm, comes from the lowest
\* login that can own the conversation.
LEMMA FoundPreserves == ASSUME RouterInv, NEW w \in Workers, Found(w) PROVE RouterInv'
<1> USE DEF RouterInv
<1> DEFINE l == resolving[w].login
<1>1. Routed \in Stack /\ WasTrue(Routed) /\ StillTrue(Routed)
  BY DEF Stack, Routed, AtRest, WasTrue, StillTrue
<1>2. l \in Logins /\ l \in wasMember \ Unreadable
  BY DEF Found, AnswersWereTrue, WasTrue
<1>3. Calm => l \in Usable /\ \A k \in Usable : l <= k
  <2>1. SUFFICES ASSUME Calm PROVE l \in Usable /\ \A k \in Usable : l <= k
    OBVIOUS
  <2>2. l \in Usable
    BY <2>1, <1>2 DEF CalmTables, CalmStacks, StillTrue, Found, Usable
  <2>3. l \in Nat
    BY <1>2, RouterAssumption
  <2>4. ASSUME NEW k \in Usable PROVE l <= k
    BY <2>1, <2>3, <2>4 DEF CalmStacks, StillTrue, Found, Usable
  <2>5. QED BY <2>2, <2>4
<1>4. /\ TypeOK' /\ HistoriesKnow' /\ AnswersWereTrue' /\ CalmStacks' /\ CalmLists'
      /\ Calm' => Calm
      /\ Usable' = Usable
  BY <1>1, <1>2, WorkerSteps DEF Found, history, TypeOK
<1>5. BeliefsWereTrue'
  BY <1>2 DEF BeliefsWereTrue, Found, history
<1>6. CalmTables'
  BY <1>3, <1>4 DEF CalmTables, Found, history
<1>7. LowestOwnsOnceWarmed'
  <2>1. Usable \subseteq Nat
    BY RouterAssumption DEF Usable, TypeOK
  <2>2. ASSUME Calm, Usable # {} PROVE l = Lowest(Usable)
    <3>1. Lowest(Usable) \in Usable /\ \A k \in Usable : Lowest(Usable) <= k
      BY <2>1, <2>2, LowestIsLeast
    <3>2. l \in Usable /\ \A k \in Usable : l <= k
      BY <1>3, <2>2
    <3> HIDE DEF l
    <3>3. l <= Lowest(Usable) /\ Lowest(Usable) <= l /\ l \in Nat /\ Lowest(Usable) \in Nat
      BY <2>1, <3>1, <3>2
    <3>4. QED BY <3>3
  <2>3. QED BY <2>2, <1>4 DEF LowestOwnsOnceWarmed, Found, Lowest
<1>8. QED BY <1>4, <1>5, <1>6, <1>7

LEMMA NotFoundPreserves == ASSUME RouterInv, NEW w \in Workers, NotFound(w) PROVE RouterInv'
<1> USE DEF RouterInv
<1> DEFINE l == resolving[w].login
           r == Probing(resolving[w].left)
<1>1. resolving[w] \in Stack /\ resolving[w].at = "answered" /\ resolving[w].answer = "notFound"
  BY DEF TypeOK, Stack, NotFound, CountsAsAbsent
<1>2. l \in Logins /\ l \in wasAbsent
  BY <1>1 DEF AnswersWereTrue, WasTrue
<1>3. r \in Stack /\ r.at = "probing" /\ r.left = resolving[w].left /\ WasTrue(r)
  BY <1>1 DEF Stack, Probing, AtRest, WasTrue
<1>4. Calm => StillTrue(r)
  BY <1>1, <1>2, <1>3 DEF StillTrue, CalmStacks, CalmTables
<1>5. Calm' <=> Calm
  BY DEF Calm, NotFound, history
<1>6. resolving' = [resolving EXCEPT ![w] = r]
  BY DEF NotFound
<1> HIDE DEF r
<1>7. /\ TypeOK' /\ HistoriesKnow' /\ AnswersWereTrue' /\ CalmStacks' /\ CalmLists'
      /\ Usable' = Usable
  <2>1. absent' \in SUBSET Logins /\ primary' \in Logins \cup {None} /\ warmed' \in SUBSET Logins
    BY <1>2 DEF NotFound, history, TypeOK
  <2>2. failed' \in BOOLEAN /\ (failed => failed')
    BY DEF NotFound, history, TypeOK
  <2>3. QED BY <1>3, <1>4, <1>5, <1>6, <2>1, <2>2, WorkerSteps DEF NotFound, history
<1>8. BeliefsWereTrue'
  BY <1>2 DEF BeliefsWereTrue, NotFound, history
<1>9. CalmTables' /\ LowestOwnsOnceWarmed'
  BY <1>5, <1>7 DEF CalmTables, LowestOwnsOnceWarmed, NotFound, history, Lowest
<1>10. QED BY <1>7, <1>8, <1>9

LEMMA FailedPreserves == ASSUME RouterInv, NEW w \in Workers, Failed(w) PROVE RouterInv'
<1> USE DEF RouterInv
<1> DEFINE r == Probing(resolving[w].left)
<1>1. resolving[w] \in Stack
  BY DEF TypeOK, Stack
<1>2. r \in Stack /\ WasTrue(r)
  BY <1>1 DEF Stack, Probing, AtRest, WasTrue
<1>3. resolving' = [resolving EXCEPT ![w] = r] /\ failed' /\ ~ Calm'
  BY DEF Failed, Calm
<1> HIDE DEF r
<1>4. TypeOK' /\ HistoriesKnow' /\ AnswersWereTrue' /\ CalmStacks' /\ CalmLists'
  BY <1>2, <1>3, WorkerSteps DEF Failed, routes, TypeOK
<1>5. BeliefsWereTrue' /\ CalmTables' /\ LowestOwnsOnceWarmed'
  BY <1>3 DEF BeliefsWereTrue, CalmTables, LowestOwnsOnceWarmed, Failed, routes
<1>6. QED BY <1>4, <1>5

\* A worker that is done, with or without a login.
LEMMA RestPreserves ==
    ASSUME RouterInv, NEW w \in Workers, NoRoute(w) \/ Dispatch(w)
    PROVE  RouterInv'
<1>1. AtRest \in Stack /\ WasTrue(AtRest) /\ StillTrue(AtRest)
  BY DEF Stack, AtRest, WasTrue, StillTrue
<1>2. QED BY <1>1, StackSteps DEF NoRoute, Dispatch

\* What has been forgotten cannot be wrong.
LEMMA InvalidatePreserves == ASSUME RouterInv, NEW w \in Workers, Invalidate(w) PROVE RouterInv'
<1> USE DEF RouterInv
<1>1. AtRest \in Stack /\ WasTrue(AtRest) /\ StillTrue(AtRest)
  BY DEF Stack, AtRest, WasTrue, StillTrue
<1>2. TypeOK' /\ HistoriesKnow' /\ AnswersWereTrue' /\ CalmStacks' /\ CalmLists' /\ (Calm' => Calm)
  BY <1>1, WorkerSteps DEF Invalidate, Forgotten, TypeOK
<1>3. BeliefsWereTrue' /\ CalmTables' /\ LowestOwnsOnceWarmed'
  BY <1>2 DEF BeliefsWereTrue, CalmTables, LowestOwnsOnceWarmed, Invalidate, Forgotten
<1>4. QED BY <1>2, <1>3

-----------------------------------------------------------------------------
LEMMA ListPreserves == ASSUME RouterInv, NEW l \in Logins, List(l) PROVE RouterInv'
<1> USE DEF RouterInv, List, routes, history
<1>1. TypeOK'
  BY DEF TypeOK
<1>2. HistoriesKnow' /\ BeliefsWereTrue' /\ AnswersWereTrue'
  BY DEF HistoriesKnow, BeliefsWereTrue, AnswersWereTrue, WasTrue, TypeOK
<1>3. (Calm' <=> Calm) /\ Usable' = Usable
  BY DEF Calm, Usable
<1>4. CalmTables' /\ CalmStacks' /\ LowestOwnsOnceWarmed'
  BY <1>3 DEF CalmTables, CalmStacks, StillTrue, LowestOwnsOnceWarmed, Lowest
<1>5. CalmLists'
  BY <1>3 DEF CalmLists, TypeOK
<1>6. QED BY <1>1, <1>2, <1>4, <1>5

\* Ownership goes from one participant to a lower one.
LEMMA WarmUpPreserves == ASSUME RouterInv, NEW l \in Logins, WarmUp(l) PROVE RouterInv'
<1> USE DEF RouterInv, WarmUp
<1>1. TypeOK'
  BY DEF TypeOK
<1>2. HistoriesKnow' /\ BeliefsWereTrue' /\ AnswersWereTrue'
  BY DEF HistoriesKnow, BeliefsWereTrue, AnswersWereTrue, WasTrue, TypeOK
<1>3. (Calm' <=> Calm) /\ Usable' = Usable
  BY DEF Calm, Usable
<1>4. CalmTables'
  BY <1>3 DEF CalmTables, CalmLists, AnswersWereTrue, Usable
<1>5. CalmStacks'
  BY <1>3 DEF CalmStacks, StillTrue
<1>6. CalmLists'
  BY <1>3 DEF CalmLists, TypeOK
<1>7. LowestOwnsOnceWarmed'
  <2>1. SUFFICES ASSUME Calm, Usable # {}, Lowest(Usable) \in warmed \cup {l}
                 PROVE  primary' = Lowest(Usable)
    BY <1>3 DEF LowestOwnsOnceWarmed, Lowest
  <2>2. /\ Usable \subseteq Nat /\ Lowest(Usable) \in Usable
        /\ \A k \in Usable : Lowest(Usable) <= k
    BY <2>1, LowestIsLeast, RouterAssumption DEF Usable, TypeOK
  <2>3. primary # None => primary \in Usable
    BY <2>1 DEF CalmTables
  <2>4. listed[l] = "in" <=> l \in Usable
    BY <2>1 DEF CalmLists, AnswersWereTrue, Usable
  <2> HIDE DEF Usable
  <2>5. CASE Lowest(Usable) \in warmed
    <3>1. primary = Lowest(Usable) /\ primary \in Usable
      BY <2>1, <2>2, <2>5 DEF LowestOwnsOnceWarmed
    <3>2. l \in Usable => primary <= l
      BY <2>2, <3>1
    <3>3. primary # None
      BY <2>2, <3>1 DEF None
    <3>4. QED BY <2>4, <3>1, <3>2, <3>3 DEF Displaces
  <2>6. CASE Lowest(Usable) = l
    <3>1. listed[l] = "in"
      BY <2>2, <2>4, <2>6
    <3>2. primary = None \/ l <= primary
      BY <2>2, <2>3, <2>6
    <3>3. CASE Displaces(l, primary)
      BY <2>6, <3>1, <3>3
    <3>4. CASE ~ Displaces(l, primary)
      <4>1. primary \in Usable /\ primary <= l
        BY <2>3, <3>4 DEF Displaces
      <4>2. primary \in Nat /\ l \in Nat /\ l <= primary
        BY <2>2, <3>2, <4>1, <2>6 DEF None
      <4>3. primary = l
        BY <4>1, <4>2
      <4>4. QED BY <2>6, <3>1, <3>4, <4>3
    <3>5. QED BY <3>3, <3>4
  <2>7. QED BY <2>1, <2>5, <2>6
<1>8. QED BY <1>1, <1>2, <1>4, <1>5, <1>6, <1>7

-----------------------------------------------------------------------------
\* Calm ends with the first change, and the histories keep up with it.
LEMMA MembershipPreserves ==
    ASSUME RouterInv, NEW l \in Logins, Join(l) \/ Leave(l)
    PROVE  RouterInv'
<1> USE DEF RouterInv
<1>1. /\ member' \in SUBSET Logins
      /\ wasMember' \in SUBSET Logins /\ wasMember \subseteq wasMember'
      /\ wasAbsent' \in SUBSET Logins /\ wasAbsent \subseteq wasAbsent'
      /\ member' \subseteq wasMember' /\ Logins \ member' \subseteq wasAbsent'
  BY DEF TypeOK, HistoriesKnow, Join, Leave
<1>2. upheavals' \in 0..MaxUpheavals /\ upheavals' # 0
  <2>1. upheavals \in 0..MaxUpheavals
    BY DEF TypeOK
  <2>2. upheavals < MaxUpheavals /\ upheavals' = upheavals + 1
    BY DEF Join, Leave, Upheaval
  <2>3. QED BY <2>1, <2>2, RouterAssumption
<1>3. UNCHANGED <<loaded, gone, primary, absent, resolving, listed, warmed, failed>>
  BY DEF Join, Leave, routes
<1>4. TypeOK'
  BY <1>1, <1>2, <1>3 DEF TypeOK
<1>5. HistoriesKnow' /\ BeliefsWereTrue' /\ AnswersWereTrue'
  BY <1>1, <1>3 DEF HistoriesKnow, BeliefsWereTrue, AnswersWereTrue, WasTrue
<1>6. ~ Calm'
  BY <1>2 DEF Calm
<1>7. QED BY <1>4, <1>5, <1>6 DEF CalmTables, CalmStacks, CalmLists, LowestOwnsOnceWarmed

LEMMA LoginsPreserve ==
    ASSUME RouterInv, NEW l \in Logins, Load(l) \/ Unload(l)
    PROVE  RouterInv'
<1> USE DEF RouterInv
<1>1. loaded' \in SUBSET Logins /\ gone' \in SUBSET (Logins \ loaded')
  BY DEF TypeOK, Load, Unload
<1>2. upheavals' \in 0..MaxUpheavals /\ upheavals' # 0
  <2>1. upheavals \in 0..MaxUpheavals
    BY DEF TypeOK
  <2>2. upheavals < MaxUpheavals /\ upheavals' = upheavals + 1
    BY DEF Load, Unload, Upheaval
  <2>3. QED BY <2>1, <2>2, RouterAssumption
<1>3. UNCHANGED <<member, primary, absent, resolving, listed, wasMember, wasAbsent, warmed, failed>>
  BY DEF Load, Unload, routes
<1>4. TypeOK'
  BY <1>1, <1>2, <1>3 DEF TypeOK
<1>5. HistoriesKnow' /\ BeliefsWereTrue' /\ AnswersWereTrue'
  BY <1>3 DEF HistoriesKnow, BeliefsWereTrue, AnswersWereTrue, WasTrue
<1>6. ~ Calm'
  BY <1>2 DEF Calm
<1>7. QED BY <1>4, <1>5, <1>6 DEF CalmTables, CalmStacks, CalmLists, LowestOwnsOnceWarmed

-----------------------------------------------------------------------------
\* The inductive invariant: what the tables, the stacks and the lists say was true
\* when it was learnt, and still is while all is calm.
THEOREM RouterInvariant == Spec => []RouterInv
<1>1. Init => RouterInv
  BY InitInv
<1>2. RouterInv /\ [Next]_vars => RouterInv'
  <2> SUFFICES ASSUME RouterInv, [Next]_vars PROVE RouterInv'
    OBVIOUS
  <2>1. ASSUME NEW w \in Workers, Lookup(w) PROVE RouterInv'
    BY <2>1, LookupPreserves
  <2>2. ASSUME NEW w \in Workers, ResolveStep(w) PROVE RouterInv'
    BY <2>2, SkipPreserves, AskPreserves, FoundPreserves, NotFoundPreserves,
       FailedPreserves, RestPreserves DEF ResolveStep
  <2>3. ASSUME NEW w \in Workers, Dispatch(w) \/ Invalidate(w) PROVE RouterInv'
    BY <2>3, RestPreserves, InvalidatePreserves
  <2>4. ASSUME NEW l \in Logins, List(l) \/ WarmUp(l) PROVE RouterInv'
    BY <2>4, ListPreserves, WarmUpPreserves
  <2>5. ASSUME NEW l \in Logins, Join(l) \/ Leave(l) \/ Load(l) \/ Unload(l) PROVE RouterInv'
    BY <2>5, MembershipPreserves, LoginsPreserve
  <2>6. CASE UNCHANGED vars
    <3> USE <2>6 DEF vars, RouterInv
    <3>1. TypeOK' /\ HistoriesKnow' /\ BeliefsWereTrue'
      BY DEF TypeOK, HistoriesKnow, BeliefsWereTrue
    <3>2. AnswersWereTrue' /\ (Calm' <=> Calm) /\ Usable' = Usable
      BY DEF AnswersWereTrue, WasTrue, Calm, Usable
    <3>3. CalmTables' /\ CalmStacks' /\ CalmLists' /\ LowestOwnsOnceWarmed'
      BY <3>2 DEF CalmTables, CalmStacks, StillTrue, CalmLists, LowestOwnsOnceWarmed, Lowest
    <3>4. QED BY <3>1, <3>2, <3>3
  <2>7. QED BY <2>1, <2>2, <2>3, <2>4, <2>5, <2>6 DEF Next
<1>3. QED BY <1>1, <1>2, PTL DEF Spec

\* Every variable has its type.
THEOREM TypeCorrect == Spec => []TypeOK
BY RouterInvariant, PTL DEF RouterInv

\* router.go:99-121: an owner took part in the conversation at some time, and whoever is
\* passed over was outside it at some time, for any number of logins, workers
\* and membership changes.
THEOREM BeliefsAreFounded == Spec => []BeliefsWereTrue
BY RouterInvariant, PTL DEF RouterInv

\* The lowest participant owns the conversation once it was warmed, while all is
\* calm.
THEOREM WarmedLowestOwns == Spec => []LowestOwnsOnceWarmed
BY RouterInvariant, PTL DEF RouterInv

\* While all is calm, ownership only moves down: a step that sets an owner sets
\* the lowest participant (Found), or one that is lower than the owner (WarmUp).
THEOREM OwnershipOnlyMovesDown == Spec => OwnershipMovesDown
<1>1. RouterInv /\ [Next]_vars => [Calm /\ primary # None /\ primary' # None => primary' <= primary]_vars
  <2> SUFFICES ASSUME RouterInv, Next, Calm, primary # None, primary' # None, primary' # primary
               PROVE  primary' <= primary
    <3>1. ASSUME RouterInv PROVE primary <= primary
      <4>1. primary \in Logins \cup {None}
        BY <3>1 DEF RouterInv, TypeOK
      <4>2. primary \in Int
        BY <4>1, RouterAssumption DEF None
      <4>3. QED BY <4>2
    <3>2. QED BY <3>1 DEF vars
  <2> USE DEF RouterInv
  <2>1. primary \in Usable /\ Usable \subseteq Nat
    BY RouterAssumption DEF CalmTables, Usable, TypeOK
  <2>2. ASSUME NEW w \in Workers, Found(w) PROVE primary' <= primary
    BY <2>1, <2>2, <2>1 DEF Found, CalmStacks, StillTrue, Usable
  <2>3. ASSUME NEW l \in Logins, WarmUp(l) PROVE primary' <= primary
    <3>1. ~ (primary <= l) /\ primary' = l /\ l \in Nat
      BY <2>3, RouterAssumption DEF WarmUp, Displaces
    <3>2. QED BY <3>1, <2>1
  <2>4. ASSUME NEW w \in Workers, Lookup(w) \/ Skip(w) \/ Ask(w) \/ NotFound(w) \/ Failed(w)
               \/ NoRoute(w) \/ Dispatch(w) \/ Invalidate(w)
        PROVE  FALSE
    BY <2>4 DEF Lookup, Skip, Ask, NotFound, Failed, NoRoute, Dispatch, Invalidate, routes, Forgotten
  <2>5. ASSUME NEW l \in Logins, List(l) \/ Join(l) \/ Leave(l) \/ Load(l) \/ Unload(l) PROVE FALSE
    BY <2>5 DEF List, Join, Leave, Load, Unload, routes
  <2>6. QED BY <2>2, <2>3, <2>4, <2>5 DEF Next, ResolveStep
<1>2. QED BY <1>1, RouterInvariant, PTL DEF Spec, OwnershipMovesDown
=============================================================================
