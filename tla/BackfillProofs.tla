---------------------------- MODULE BackfillProofs ----------------------------
(***************************************************************************)
(* Backfill leaves no hole but where a live message outran others or a     *)
(* catch-up had no Talk ID to start from, shows the rest in order, and     *)
(* knows when it has reached the start, for any history, any sizes of pages*)
(* and batches and any failures: proofs about Backfill.                    *)
(***************************************************************************)
EXTENDS Backfill, FiniteSetTheorems, WellFoundedInduction, TLAPS

Read == ToSet(batch.got)
Sorted(s) == \A i, j \in DOMAIN s : i < j => s[i] < s[j]
Falling(s) == \A i, j \in DOMAIN s : i < j => s[j] < s[i]

\* What is in its place, or known to have been left out.
Accounted == Placed \cup outrun \cup passed

\* A forward batch holds all there is from the newest row to its cursor; the room
\* waits for it.
ForwardInv ==
    batch.mode = "forward" =>
        /\ Newest \in Rows /\ batch.anchor = Newest /\ batch.cursor >= Newest
        /\ Sorted(batch.got)
        /\ \A m \in Read : Newest < m /\ m <= batch.cursor
        /\ \A m \in Chat : Newest < m /\ m <= batch.cursor => m \in Read

\* What is read backwards is the older the later it was read.
DescendingInv ==
    batch.mode \in {"newest", "backward"} =>
        /\ Falling(batch.got)
        /\ \A m \in Read : batch.cursor <= m
        /\ batch.cursor = 0 => batch.got = <<>>

\* A batch without a Talk ID to start from has no gaps either, wherever it began; the
\* room waits for it too.
NewestInv ==
    batch.mode = "newest" =>
        /\ batch.anchor = Newest /\ Newest \notin Rows
        /\ \A k \in Read : \A m \in Chat : batch.cursor <= m /\ m < k => m \in Read

\* A batch of the backwards queue holds what is missing from its cursor to the row
\* it started from; what became older than that row in the meantime was outrun.
BackwardInv ==
    batch.mode = "backward" =>
        /\ batch.anchor \in Placed
        /\ \A r \in Rows : r < batch.anchor => r \in outrun
        /\ batch.cursor # 0 =>
              \A m \in Chat : batch.cursor <= m /\ m < batch.anchor => m \in Accounted \cup Read
        /\ batch.end => batch.cursor = 1

\* From the cursor of the backwards queue on, everything is accounted for.
CursorInv ==
    /\ Placed = {} => backCursor = 0 /\ ~ backDone
    /\ backCursor # 0 =>
          \A m \in Chat : backCursor <= m /\ m < Newest => m \in Accounted

BatchInv == ForwardInv /\ DescendingInv /\ NewestInv /\ BackwardInv
RoomInv == HolesWereOutrun /\ RoomIsOrdered /\ CursorInv /\ BackwardsReachesTheStart

BackfillInv == TypeOK /\ BatchInv /\ RoomInv

-----------------------------------------------------------------------------
(* Sets of numbers *)

LEMMA LeastMember ==
    ASSUME NEW S, S \subseteq Nat, S # {}
    PROVE  \E l \in S : \A k \in S : l <= k
<1> DEFINE Less == {ss \in Nat \X Nat : ss[1] < ss[2]}
<1>1. IsWellFoundedOn(Less, Nat)
  BY NatLessThanWellFounded DEF OpToRel
<1>2. \E l \in S : \A k \in S : <<k, l>> \notin Less
  <2> HIDE DEF Less
  <2> QED BY <1>1, WFMin
<1>3. \A l, k \in S : <<k, l>> \notin Less => l <= k
  OBVIOUS
<1> HIDE DEF Less
<1>4. QED BY <1>2, <1>3

LEMMA GreatestMember ==
    ASSUME NEW n \in Nat, NEW S, S \subseteq 0..n, S # {}
    PROVE  \E g \in S : \A k \in S : k <= g
<1> DEFINE Below == {n - k : k \in S}
<1>1. Below \subseteq Nat /\ Below # {}
  OBVIOUS
<1>2. PICK l \in Below : \A k \in Below : l <= k
  <2> HIDE DEF Below
  <2> QED BY <1>1, LeastMember
<1>3. PICK g \in S : l = n - g
  BY <1>2
<1>4. ASSUME NEW k \in S PROVE k <= g
  <2>1. n - k \in Below /\ k \in Int /\ g \in Int
    OBVIOUS
  <2>2. n - g <= n - k
    BY <1>2, <1>3, <2>1
  <2>3. QED BY <2>1, <2>2
<1>5. QED BY <1>4

\* Ranks are the numbers from 0 on, in the order of the members.
LEMMA RanksAscend ==
    ASSUME NEW S, S \subseteq Nat, IsFiniteSet(S), NEW m \in S
    PROVE  /\ Rank(S, m) \in 0..(Cardinality(S) - 1)
           /\ \A k \in S : k < m => Rank(S, k) < Rank(S, m)
<1> DEFINE Under(x) == {k \in S : k < x}
<1>1. \A x \in S : IsFiniteSet(Under(x)) /\ Cardinality(Under(x)) \in Nat
  BY FS_Subset, FS_CardinalityType
<1>2. ASSUME NEW x \in S, NEW T, T \subseteq S, Under(x) \subseteq T, x \in T
      PROVE  Cardinality(Under(x)) < Cardinality(T)
  <2>1. IsFiniteSet(T) /\ Cardinality(T) \in Nat
    BY <1>2, FS_Subset, FS_CardinalityType
  <2>2. Cardinality(Under(x) \cup {x}) = Cardinality(Under(x)) + 1
    BY <1>1, FS_AddElement
  <2>3. Cardinality(Under(x) \cup {x}) <= Cardinality(T)
    BY <1>2, <2>1, FS_Subset
  <2>4. QED BY <1>1, <2>1, <2>2, <2>3
<1>3. Cardinality(Under(m)) < Cardinality(S) /\ Cardinality(S) \in Nat
  BY <1>2, FS_CardinalityType
<1>4. \A k \in S : k < m => Cardinality(Under(k)) < Cardinality(Under(m))
  <2> SUFFICES ASSUME NEW k \in S, k < m
               PROVE  Cardinality(Under(k)) < Cardinality(Under(m))
    OBVIOUS
  <2>0. S \subseteq Int
    OBVIOUS
  <2>1. Under(m) \subseteq S /\ Under(k) \subseteq Under(m) /\ k \in Under(m)
    <3>1. \A x \in S : x < k => x < m
      BY <2>0
    <3>2. QED BY <3>1
  <2> HIDE DEF Under
  <2>2. QED BY <1>2, <2>1
<1>5. QED BY <1>1, <1>3, <1>4 DEF Rank

\* Every rank is taken: the least one that is not would be next to one that is.
LEMMA RanksAreTaken ==
    ASSUME NEW S, S \subseteq Nat, IsFiniteSet(S), NEW i \in 0..(Cardinality(S) - 1)
    PROVE  \E m \in S : Rank(S, m) = i
<1> DEFINE Free == {r \in 0..(Cardinality(S) - 1) : ~ \E m \in S : Rank(S, m) = r}
<1>0. Cardinality(S) \in Nat
  BY FS_CardinalityType
<1> SUFFICES ASSUME Free # {} PROVE FALSE
  OBVIOUS
<1>1. PICK r \in Free : \A q \in Free : r <= q
  <2>1. Free \subseteq Nat
    BY <1>0
  <2> HIDE DEF Free
  <2>2. QED BY <2>1, LeastMember
<1>2. CASE r = 0
  <2>1. S # {}
    BY <1>0, <1>1, <1>2, FS_EmptySet
  <2>2. PICK l \in S : \A k \in S : l <= k
    BY <2>1, LeastMember
  <2>3. {k \in S : k < l} = {}
    <3>1. \A k \in S : k \in Int /\ l <= k
      BY <2>2
    <3>2. l \in Int /\ \A k \in S : ~ k < l
      BY <3>1
    <3>3. QED BY <3>2
  <2>4. QED BY <1>1, <1>2, <2>3, FS_EmptySet DEF Rank
<1>3. CASE r # 0
  <2>1. PICK m \in S : Rank(S, m) = r - 1
    BY <1>0, <1>1, <1>3
  <2> DEFINE Under(x) == {k \in S : k < x}
             Above == {k \in S : m < k}
  <2>2. Above # {}
    <3>1. SUFFICES ASSUME Above = {} PROVE FALSE
      OBVIOUS
    <3>0. m \in Int /\ \A k \in S : k \in Int /\ ~ m < k
      BY <3>1
    <3>2. S = Under(m) \cup {m} /\ m \notin Under(m)
      <4>1. \A k \in S : k < m \/ k = m
        BY <3>0
      <4>2. QED BY <3>0, <4>1
    <3>3. IsFiniteSet(Under(m)) /\ Cardinality(Under(m)) = r - 1
      BY <2>1, FS_Subset DEF Rank
    <3> HIDE DEF Under
    <3>4. Cardinality(S) = r
      BY <1>0, <1>1, <3>2, <3>3, FS_AddElement
    <3>5. QED BY <1>0, <1>1, <3>4
  <2>3. PICK l \in Above : \A k \in Above : l <= k
    <3>1. Above \subseteq Nat
      OBVIOUS
    <3> HIDE DEF Above
    <3>2. QED BY <2>2, <3>1, LeastMember
  <2>4. Under(l) = Under(m) \cup {m} /\ m \notin Under(m) /\ l \in S
    <3>1. m \in S /\ l \in S /\ m < l /\ m \in Int /\ l \in Int
      BY <2>3
    <3>2. ASSUME NEW k \in S PROVE k < l <=> k < m \/ k = m
      <4>1. k \in Int /\ (m < k => l <= k)
        BY <2>3
      <4>2. QED BY <3>1, <4>1
    <3> HIDE DEF Above, Free
    <3>3. \A k \in S : k \in Under(l) <=> k \in Under(m) \/ k = m
      BY <3>2
    <3>4. Under(l) \subseteq S /\ Under(m) \subseteq S /\ m \notin Under(m)
      BY <3>1
    <3> HIDE DEF Under
    <3>5. QED BY <3>1, <3>3, <3>4
  <2>5. IsFiniteSet(Under(m)) /\ Cardinality(Under(m)) = r - 1
    BY <2>1, FS_Subset DEF Rank
  <2>6. Rank(S, l) = r
    <3>1. Rank(S, l) = Cardinality(Under(l))
      BY DEF Rank
    <3> HIDE DEF Under, Free
    <3>2. r \in Int
      BY <1>0, <1>1 DEF Free
    <3>3. Cardinality(Under(m) \cup {m}) = (r - 1) + 1
      BY <2>4, <2>5, FS_AddElement
    <3>4. QED BY <2>4, <3>1, <3>2, <3>3
  <2>7. QED BY <1>1, <2>4, <2>6
<1>4. QED BY <1>2, <1>3

LEMMA AscendingLists ==
    ASSUME NEW S, S \subseteq Nat, IsFiniteSet(S)
    PROVE  /\ Ascending(S) \in Seq(S) /\ Len(Ascending(S)) = Cardinality(S)
           /\ Sorted(Ascending(S))
           /\ ToSet(Ascending(S)) = S
<1> DEFINE n == Cardinality(S)
           s == Ascending(S)
<1>1. n \in Nat /\ DOMAIN s = 1..n
  BY FS_CardinalityType DEF Ascending
<1>2. \A i \in 1..n : s[i] \in S /\ Rank(S, s[i]) = i - 1
  <2> SUFFICES ASSUME NEW i \in 1..n PROVE s[i] \in S /\ Rank(S, s[i]) = i - 1
    OBVIOUS
  <2>1. i - 1 \in 0..(Cardinality(S) - 1)
    BY <1>1
  <2> HIDE DEF s, n
  <2>3. \E m \in S : Rank(S, m) = i - 1
    BY <2>1, RanksAreTaken
  <2>4. QED BY <2>3 DEF Ascending, s, n
<1>3. s \in Seq(S) /\ Len(s) = n
  <2>1. s \in [1..n -> S]
    BY <1>1, <1>2 DEF Ascending
  <2> HIDE DEF s, n
  <2>2. QED BY <1>1, <2>1
<1> HIDE DEF s, n
<1>4. Sorted(s)
  <2> SUFFICES ASSUME NEW i \in 1..n, NEW j \in 1..n, i < j PROVE s[i] < s[j]
    BY <1>1 DEF Sorted
  <2>0. i \in Int /\ j \in Int /\ i - 1 # j - 1
    BY <1>1
  <2>1. s[i] \in Nat /\ s[j] \in Nat /\ s[i] # s[j]
    BY <1>2, <2>0
  <2>2. ~ s[j] < s[i]
    <3> SUFFICES ASSUME s[j] < s[i] PROVE FALSE
      OBVIOUS
    <3>1. Rank(S, s[j]) < Rank(S, s[i])
      BY <1>2, RanksAscend
    <3>2. QED BY <1>1, <1>2, <3>1
  <2>3. QED BY <2>0, <2>1, <2>2
<1>5. ToSet(s) = S
  <2>1. ToSet(s) \subseteq S
    BY <1>1, <1>2 DEF ToSet
  <2>2. ASSUME NEW m \in S PROVE m \in ToSet(s)
    <3> DEFINE i == Rank(S, m) + 1
    <3>0. Rank(S, m) \in 0..(Cardinality(S) - 1)
      BY RanksAscend
    <3>1. i \in 1..n /\ Rank(S, m) = i - 1
      BY <1>1, <3>0 DEF n
    <3> HIDE DEF i
    <3>2. s[i] \in S /\ Rank(S, s[i]) = Rank(S, m)
      BY <1>2, <3>1
    <3>3. Rank(S, m) \in Int
      BY <1>1, <3>1
    <3>4. ~ s[i] < m
      <4>1. s[i] < m => Rank(S, s[i]) < Rank(S, m)
        BY <3>2, RanksAscend
      <4>2. QED BY <3>2, <3>3, <4>1
    <3>5. ~ m < s[i]
      <4> DEFINE l == s[i]
      <4>0. l \in S
        BY <3>2
      <4> HIDE DEF l
      <4>1. m < l => Rank(S, m) < Rank(S, l)
        BY <4>0, RanksAscend
      <4>2. QED BY <3>2, <3>3, <4>1 DEF l
    <3>6. s[i] \in Nat /\ m \in Nat
      BY <3>2
    <3>7. s[i] = m
      BY <3>4, <3>5, <3>6
    <3>8. QED BY <1>1, <3>1, <3>7 DEF ToSet
  <2>3. QED BY <2>1, <2>2
<1>6. QED BY <1>3, <1>4, <1>5 DEF s, n

\* The lowest members of a set are a beginning of it, no more than asked for.
LEMMA LowestBegin ==
    ASSUME NEW b \in Nat, NEW S, S \subseteq 0..b, NEW n \in Nat \ {0}
    PROVE  /\ Lowest(S, n) \subseteq S /\ IsFiniteSet(Lowest(S, n))
           /\ Cardinality(Lowest(S, n)) <= n
           /\ S # {} => Lowest(S, n) # {}
           /\ \A m \in Lowest(S, n) : \A k \in S : k < m => k \in Lowest(S, n)
<1> DEFINE Low == Lowest(S, n)
<1>0. IsFiniteSet(S) /\ S \subseteq Nat
  <2>1. IsFiniteSet(0..b) /\ 0..b \subseteq Nat
    BY FS_Interval
  <2>2. QED BY <2>1, FS_Subset
<1>1. Low \subseteq S /\ IsFiniteSet(Low) /\ \A m \in S : m \in Low <=> Rank(S, m) < n
  BY <1>0, FS_Subset DEF Lowest
<1>2. \A m \in S : Rank(S, m) \in Int /\ \A k \in S : k < m => Rank(S, k) < Rank(S, m)
  <2>1. Cardinality(S) \in Nat
    BY <1>0, FS_CardinalityType
  <2>2. SUFFICES ASSUME NEW m \in S
                 PROVE  /\ Rank(S, m) \in Int
                        /\ \A k \in S : k < m => Rank(S, k) < Rank(S, m)
    OBVIOUS
  <2>3. /\ Rank(S, m) \in 0..(Cardinality(S) - 1)
        /\ \A k \in S : k < m => Rank(S, k) < Rank(S, m)
    BY <1>0, RanksAscend
  <2>4. QED BY <2>1, <2>3
<1>3. S # {} => Low # {}
  <2> SUFFICES ASSUME S # {} PROVE Low # {}
    OBVIOUS
  <2>0. Cardinality(S) \in Nat \ {0}
    BY <1>0, FS_EmptySet, FS_CardinalityType
  <2>1. PICK l \in S : Rank(S, l) = 0
    <3>1. 0 \in 0..(Cardinality(S) - 1)
      BY <2>0
    <3>2. QED BY <1>0, <3>1, RanksAreTaken
  <2> HIDE DEF Low
  <2>2. QED BY <1>1, <2>1
<1> HIDE DEF Low
<1>4. \A m \in Low : \A k \in S : k < m => k \in Low
  BY <1>1, <1>2
<1>5. Cardinality(Low) <= n
  <2>1. CASE Low = {}
    BY <2>1, FS_EmptySet
  <2>2. CASE Low # {}
    <3>1. Low \subseteq 0..b
      BY <1>1
    <3>2. PICK g \in Low : \A k \in Low : k <= g
      BY <2>2, <3>1, GreatestMember
    <3> DEFINE Under == {k \in S : k < g}
    <3>3. Low = Under \cup {g} /\ g \notin Under
      <4>1. g \in Low /\ g \in S /\ g \in Int /\ S \subseteq Int
        BY <1>0, <1>1, <3>2
      <4>2. \A k \in S : k \in Low <=> k < g \/ k = g
        BY <1>1, <1>4, <3>2, <4>1
      <4>3. Under \subseteq S /\ g \notin Under /\ \A k \in S : k \in Under <=> k < g
        BY <4>1
      <4> HIDE DEF Under
      <4>4. QED BY <1>1, <4>1, <4>2, <4>3
    <3>4. IsFiniteSet(Under) /\ Cardinality(Under) = Rank(S, g) /\ Rank(S, g) \in Int
      BY <1>0, <1>1, <1>2, <3>2, FS_Subset DEF Rank
    <3>5. Rank(S, g) < n
      BY <1>1, <3>2
    <3> HIDE DEF Under
    <3>6. Cardinality(Low) = Rank(S, g) + 1
      BY <3>3, <3>4, FS_AddElement
    <3>7. QED BY <3>4, <3>5, <3>6
  <2>3. QED BY <2>1, <2>2
<1>6. QED BY <1>1, <1>3, <1>4, <1>5 DEF Low

\* And the highest members are an end of it.
LEMMA HighestEnd ==
    ASSUME NEW b \in Nat, NEW S, S \subseteq 0..b, NEW n \in Nat \ {0}
    PROVE  /\ Highest(S, n) \subseteq S /\ IsFiniteSet(Highest(S, n))
           /\ Cardinality(Highest(S, n)) <= n
           /\ S # {} => Highest(S, n) # {}
           /\ \A m \in Highest(S, n) : \A k \in S : m < k => k \in Highest(S, n)
<1> DEFINE High == Highest(S, n)
           Above(m) == {k \in S : m < k}
<1>0. IsFiniteSet(S) /\ S \subseteq Int
  <2>1. IsFiniteSet(0..b) /\ 0..b \subseteq Int
    BY FS_Interval
  <2>2. QED BY <2>1, FS_Subset
<1>1. /\ High \subseteq S /\ IsFiniteSet(High)
      /\ \A m \in S : m \in High <=> Cardinality(Above(m)) < n
  BY <1>0, FS_Subset DEF Highest
<1>2. \A m \in S : /\ IsFiniteSet(Above(m)) /\ Cardinality(Above(m)) \in Nat
                   /\ \A k \in S : m < k => Cardinality(Above(k)) <= Cardinality(Above(m))
  <2> SUFFICES ASSUME NEW m \in S
               PROVE  /\ IsFiniteSet(Above(m)) /\ Cardinality(Above(m)) \in Nat
                      /\ \A k \in S : m < k =>
                            Cardinality(Above(k)) <= Cardinality(Above(m))
    OBVIOUS
  <2>1. IsFiniteSet(Above(m)) /\ Cardinality(Above(m)) \in Nat
    BY <1>0, FS_Subset, FS_CardinalityType
  <2>2. ASSUME NEW k \in S, m < k
        PROVE  Cardinality(Above(k)) <= Cardinality(Above(m))
    <3>1. \A x \in S : k < x => m < x
      BY <1>0, <2>2
    <3>2. Above(k) \subseteq Above(m)
      BY <3>1
    <3> HIDE DEF Above
    <3>3. QED BY <2>1, <3>2, FS_Subset
  <2>3. QED BY <2>1, <2>2
<1>3. S # {} => High # {}
  <2> SUFFICES ASSUME S # {} PROVE High # {}
    OBVIOUS
  <2>1. PICK g \in S : \A k \in S : k <= g
    BY GreatestMember
  <2>2. Above(g) = {}
    <3>1. g \in Int /\ \A k \in S : k \in Int /\ k <= g
      BY <1>0, <2>1
    <3>2. \A k \in S : ~ g < k
      BY <3>1
    <3>3. QED BY <3>2
  <2>3. Cardinality(Above(g)) = 0
    BY <2>2, FS_EmptySet
  <2> HIDE DEF High, Above
  <2>4. QED BY <1>1, <2>3
<1> HIDE DEF High, Above
<1>4. \A m \in High : \A k \in S : m < k => k \in High
  <2> SUFFICES ASSUME NEW m \in High, NEW k \in S, m < k PROVE k \in High
    OBVIOUS
  <2>1. Cardinality(Above(k)) <= Cardinality(Above(m)) /\ Cardinality(Above(m)) < n
    BY <1>1, <1>2
  <2>2. Cardinality(Above(k)) \in Int /\ Cardinality(Above(m)) \in Int
    BY <1>1, <1>2
  <2>3. QED BY <1>1, <2>1, <2>2
<1>5. Cardinality(High) <= n
  <2>1. CASE High = {}
    BY <2>1, FS_EmptySet
  <2>2. CASE High # {}
    <3>1. High \subseteq Nat
      BY <1>1
    <3>2. PICK l \in High : \A k \in High : l <= k
      BY <2>2, <3>1, LeastMember
    <3>3. High = Above(l) \cup {l} /\ l \notin Above(l)
      <4>1. l \in High /\ l \in S /\ l \in Int
        BY <1>0, <1>1, <3>2
      <4>2. \A k \in S : k \in High <=> l < k \/ k = l
        BY <1>0, <1>1, <1>4, <3>2, <4>1
      <4>3. /\ Above(l) \subseteq S /\ l \notin Above(l)
            /\ \A k \in S : k \in Above(l) <=> l < k
        BY <4>1 DEF Above
      <4>4. QED BY <1>1, <4>1, <4>2, <4>3
    <3>4. /\ IsFiniteSet(Above(l)) /\ Cardinality(Above(l)) \in Int
          /\ Cardinality(Above(l)) < n
      BY <1>1, <1>2, <3>2
    <3>5. Cardinality(High) = Cardinality(Above(l)) + 1
      BY <3>3, <3>4, FS_AddElement
    <3>6. QED BY <3>4, <3>5
  <2>3. QED BY <2>1, <2>2
<1>6. QED BY <1>1, <1>3, <1>4, <1>5 DEF High

-----------------------------------------------------------------------------
(* Sequences of numbers *)

LEMMA Reversal ==
    ASSUME NEW T, T \subseteq Nat, NEW s \in Seq(T)
    PROVE  /\ Reverse(s) \in Seq(T) /\ Len(Reverse(s)) = Len(s)
           /\ ToSet(Reverse(s)) = ToSet(s)
           /\ Falling(s) => Sorted(Reverse(s))
           /\ Sorted(s) => Falling(Reverse(s))
<1> DEFINE r == Reverse(s)
           n == Len(s)
<1>1. n \in Nat /\ DOMAIN s = 1..n /\ \A i \in 1..n : s[i] \in T
  OBVIOUS
<1>2. \A i \in 1..n : n - i + 1 \in 1..n /\ n - (n - i + 1) + 1 = i
  BY <1>1
<1>3. r = [i \in 1..n |-> s[n - i + 1]]
  BY DEF Reverse
<1>4. r \in Seq(T) /\ Len(r) = n /\ DOMAIN r = 1..n
  <2>1. r \in [1..n -> T]
    BY <1>1, <1>2, <1>3
  <2> HIDE DEF r
  <2>2. QED BY <1>1, <2>1
<1> HIDE DEF r, n
<1>5. ToSet(r) = ToSet(s)
  <2>1. \A i \in 1..n : r[n - i + 1] = s[i] /\ r[i] = s[n - i + 1]
    BY <1>2, <1>3
  <2>2. QED BY <1>1, <1>2, <1>4, <2>1 DEF ToSet
<1>6. \A i, j \in 1..n : i < j =>
         n - j + 1 < n - i + 1 /\ n - j + 1 \in 1..n /\ n - i + 1 \in 1..n
  BY <1>1
<1>7. Falling(s) => Sorted(r)
  BY <1>1, <1>3, <1>4, <1>6 DEF Falling, Sorted
<1>8. Sorted(s) => Falling(r)
  BY <1>1, <1>3, <1>4, <1>6 DEF Falling, Sorted
<1>9. QED BY <1>4, <1>5, <1>7, <1>8 DEF r, n

LEMMA DescendingLists ==
    ASSUME NEW S, S \subseteq Nat, IsFiniteSet(S)
    PROVE  /\ Descending(S) \in Seq(S) /\ Len(Descending(S)) = Cardinality(S)
           /\ Falling(Descending(S))
           /\ ToSet(Descending(S)) = S
BY AscendingLists, Reversal DEF Descending

\* Selecting members keeps their order.
LEMMA AmongKeepsOrder ==
    ASSUME NEW T, T \subseteq Nat, NEW s \in Seq(T), NEW S
    PROVE  /\ Among(s, S) \in Seq(T \cap S)
           /\ ToSet(Among(s, S)) = ToSet(s) \cap S
           /\ Sorted(s) => Sorted(Among(s, S))
<1> DEFINE I == {i \in DOMAIN s : s[i] \in S}
           kept == Ascending(I)
           a == Among(s, S)
<1>1. /\ I \subseteq DOMAIN s /\ DOMAIN s \subseteq Nat /\ I \subseteq Nat
      /\ IsFiniteSet(I)
      /\ \A i \in I : s[i] \in T \cap S
  <2>1. Len(s) \in Nat /\ DOMAIN s = 1..Len(s) /\ \A i \in DOMAIN s : s[i] \in T
    OBVIOUS
  <2>2. I \subseteq DOMAIN s /\ DOMAIN s \subseteq Nat /\ \A i \in I : s[i] \in T \cap S
    BY <2>1
  <2> HIDE DEF I
  <2>3. IsFiniteSet(DOMAIN s)
    BY <2>1, FS_Interval
  <2>4. QED BY <2>2, <2>3, FS_Subset
<1>2. a = [j \in DOMAIN kept |-> s[kept[j]]]
  BY DEF Among
<1>3. \A m \in ToSet(s) \cap S : \E i \in I : m = s[i]
  BY DEF ToSet
<1>4. \A i \in I : s[i] \in ToSet(s) \cap S
  BY DEF ToSet
<1> HIDE DEF I
<1>5. kept \in Seq(I) /\ Sorted(kept) /\ ToSet(kept) = I
  BY <1>1, AscendingLists
<1> HIDE DEF kept, a
<1>6. Len(kept) \in Nat /\ DOMAIN kept = 1..Len(kept) /\ \A j \in DOMAIN kept : kept[j] \in I
  BY <1>5
<1>7. a \in Seq(T \cap S) /\ DOMAIN a = DOMAIN kept
  <2>1. a \in [1..Len(kept) -> T \cap S]
    BY <1>1, <1>2, <1>6
  <2>2. QED BY <1>6, <2>1
<1>8. ToSet(a) = ToSet(s) \cap S
  <2>1. \A i \in I : \E j \in DOMAIN kept : kept[j] = i
    BY <1>5 DEF ToSet
  <2>2. QED BY <1>2, <1>3, <1>4, <1>6, <1>7, <2>1 DEF ToSet
<1>9. Sorted(s) => Sorted(a)
  BY <1>1, <1>2, <1>5, <1>6, <1>7 DEF Sorted
<1>10. QED BY <1>7, <1>8, <1>9 DEF a

LEMMA Joining ==
    ASSUME NEW T, T \subseteq Nat, NEW s \in Seq(T), NEW t \in Seq(T)
    PROVE  /\ s \o t \in Seq(T) /\ Len(s \o t) = Len(s) + Len(t)
           /\ ToSet(s \o t) = ToSet(s) \cup ToSet(t)
           /\ \A i \in DOMAIN (s \o t) :
                 IF i \in DOMAIN s THEN (s \o t)[i] = s[i]
                 ELSE i - Len(s) \in DOMAIN t /\ (s \o t)[i] = t[i - Len(s)]
           /\ Sorted(s) /\ Sorted(t) /\ (\A m \in ToSet(s) : \A k \in ToSet(t) : m < k)
                 => Sorted(s \o t)
           /\ Falling(s) /\ Falling(t) /\ (\A m \in ToSet(s) : \A k \in ToSet(t) : k < m)
                 => Falling(s \o t)
<1> DEFINE u == s \o t
           n == Len(s)
<1>1. /\ n \in Nat /\ Len(t) \in Nat /\ u \in Seq(T) /\ Len(u) = n + Len(t)
      /\ DOMAIN s = 1..n /\ DOMAIN t = 1..Len(t) /\ DOMAIN u = 1..(n + Len(t))
  OBVIOUS
<1>2. \A i \in DOMAIN u : IF i \in DOMAIN s THEN u[i] = s[i]
                          ELSE i - n \in DOMAIN t /\ u[i] = t[i - n]
  OBVIOUS
<1>3. \A i \in DOMAIN t : i + n \in DOMAIN u /\ u[i + n] = t[i]
  OBVIOUS
<1> HIDE DEF u, n
<1>4. ToSet(u) = ToSet(s) \cup ToSet(t)
  <2>1. \A i \in DOMAIN s : i \in DOMAIN u /\ u[i] = s[i]
    BY <1>1, <1>2
  <2>2. QED BY <1>2, <1>3, <2>1 DEF ToSet
<1>5. ASSUME NEW i \in DOMAIN u, NEW j \in DOMAIN u, i < j
      PROVE  \/ i \in DOMAIN s /\ j \in DOMAIN s /\ u[i] = s[i] /\ u[j] = s[j]
             \/ i \in DOMAIN s /\ u[i] = s[i] /\ j - n \in DOMAIN t /\ u[j] = t[j - n]
             \/ /\ i - n \in DOMAIN t /\ j - n \in DOMAIN t /\ i - n < j - n
                /\ u[i] = t[i - n] /\ u[j] = t[j - n]
  BY <1>1, <1>2, <1>5
<1>6. \A i \in DOMAIN s : s[i] \in ToSet(s)
  BY DEF ToSet
<1>7. \A i \in DOMAIN t : t[i] \in ToSet(t)
  BY DEF ToSet
<1>8. Sorted(s) /\ Sorted(t) /\ (\A m \in ToSet(s) : \A k \in ToSet(t) : m < k) => Sorted(u)
  BY <1>5, <1>6, <1>7 DEF Sorted
<1>9. Falling(s) /\ Falling(t) /\ (\A m \in ToSet(s) : \A k \in ToSet(t) : k < m)
         => Falling(u)
  BY <1>5, <1>6, <1>7 DEF Falling
<1>10. QED BY <1>1, <1>2, <1>4, <1>8, <1>9 DEF u, n

LEMMA LowestOne ==
    ASSUME NEW b \in Nat, NEW S, S \subseteq 0..b, NEW l \in Lowest(S, 1)
    PROVE  l \in S /\ \A k \in S : l <= k
<1> DEFINE Under == {k \in S : k < l}
<1>1. l \in S /\ Cardinality(Under) < 1 /\ S \subseteq Int
  BY DEF Lowest, Rank
<1>2. IsFiniteSet(Under)
  <2>0. Under \subseteq 0..b
    OBVIOUS
  <2>1. IsFiniteSet(0..b) /\ Under \subseteq 0..b
    BY <2>0, FS_Interval
  <2> HIDE DEF Under
  <2>2. QED BY <2>1, FS_Subset
<1>3. Under = {}
  <2> HIDE DEF Under
  <2>1. Cardinality(Under) = 0
    BY <1>1, <1>2, FS_CardinalityType
  <2>2. QED BY <1>2, <2>1, FS_EmptySet
<1>4. \A k \in S : ~ k < l
  BY <1>3
<1>5. QED BY <1>1, <1>4

LEMMA HighestOne ==
    ASSUME NEW b \in Nat, NEW S, S \subseteq 0..b, NEW h \in Highest(S, 1)
    PROVE  h \in S /\ \A k \in S : k <= h
<1> DEFINE Above == {k \in S : h < k}
<1>1. h \in S /\ Cardinality(Above) < 1 /\ S \subseteq Int
  BY DEF Highest
<1>2. IsFiniteSet(Above)
  <2>0. Above \subseteq 0..b
    OBVIOUS
  <2>1. IsFiniteSet(0..b) /\ Above \subseteq 0..b
    BY <2>0, FS_Interval
  <2> HIDE DEF Above
  <2>2. QED BY <2>1, FS_Subset
<1>3. Above = {}
  <2> HIDE DEF Above
  <2>1. Cardinality(Above) = 0
    BY <1>1, <1>2, FS_CardinalityType
  <2>2. QED BY <1>2, <2>1, FS_EmptySet
<1>4. \A k \in S : ~ h < k
  BY <1>3
<1>5. QED BY <1>1, <1>4

-----------------------------------------------------------------------------
(* The room and its pages *)

\* How the newest and the oldest message of the room lie among the others.
RoomFacts ==
    /\ Len(talk) \in Nat /\ DOMAIN talk = 1..Len(talk)
    /\ Chat \subseteq 1..Len(talk) /\ Rows \subseteq Chat
    /\ Rows \subseteq Placed /\ Placed \subseteq 1..Len(talk)
    /\ \A i \in DOMAIN room : room[i] \in Rows
    /\ Placed = {} => Newest = 0
    /\ Placed # {} => Newest \in Placed /\ Oldest \in Placed
    /\ \A m \in Placed : Oldest <= m /\ m <= Newest
    /\ Newest \in 0..Len(talk)

LEMMA RoomEnds == TypeOK => RoomFacts
<1> SUFFICES ASSUME TypeOK PROVE RoomFacts
  OBVIOUS
<1>1. Len(talk) \in Nat /\ DOMAIN talk = 1..Len(talk) /\ Chat \subseteq 1..Len(talk)
  BY DEF TypeOK, Chat
<1>2. Rows \subseteq Chat /\ \A i \in DOMAIN room : room[i] \in Rows
  BY DEF TypeOK, Rows, ToSet
<1>3. Rows \subseteq Placed /\ Placed \subseteq 1..Len(talk)
  BY <1>1, <1>2 DEF TypeOK, Placed
<1>4. CASE Placed = {}
  <2>1. Newest = 0
    BY <1>4 DEF Newest
  <2>2. QED BY <1>1, <1>2, <1>3, <1>4, <2>1 DEF RoomFacts
<1>5. CASE Placed # {}
  <2>1. Placed \subseteq Nat /\ Placed \subseteq 0..Len(talk)
    BY <1>1, <1>3
  <2>2. \E m \in Placed : \A k \in Placed : k <= m
    BY <1>1, <1>5, <2>1, GreatestMember
  <2>3. \E m \in Placed : \A k \in Placed : m <= k
    BY <1>5, <2>1, LeastMember
  <2>4. Newest \in Placed /\ \A k \in Placed : k <= Newest
    BY <1>5, <2>2 DEF Newest
  <2>5. Oldest \in Placed /\ \A k \in Placed : Oldest <= k
    BY <1>5, <2>3 DEF Oldest
  <2>6. QED BY <1>1, <1>2, <1>3, <1>5, <2>4, <2>5 DEF RoomFacts
<1>6. QED BY <1>4, <1>5

LEMMA RoomEndsNext == TypeOK' => RoomFacts'
BY RoomEnds, PTL

\* A page read forwards is all there is from the cursor to the last it considered.
LEMMA PageForward ==
    ASSUME TypeOK, NEW c \in 0..Len(talk), NEW n \in Nat \ {0},
           NEW P, P = Considered("forward", c, n)
    PROVE  /\ P \subseteq DOMAIN talk
           /\ \A last \in LastGiven("forward", P) :
                 /\ last \in P
                 /\ \A m \in P : c < m /\ m <= last
                 /\ \A m \in DOMAIN talk : c < m /\ m <= last => m \in P
           /\ Given("forward", P) \in Seq(DOMAIN talk)
           /\ Len(Given("forward", P)) <= n
           /\ Sorted(Given("forward", P))
           /\ ToSet(Given("forward", P)) = Visible(P)
<1> DEFINE After == {m \in DOMAIN talk : m > c}
<1>0. Len(talk) \in Nat /\ DOMAIN talk = 1..Len(talk) /\ c \in Int
  BY DEF TypeOK
<1>1. /\ After \subseteq 0..Len(talk) /\ After \subseteq Nat
      /\ \A m \in DOMAIN talk : m \in After <=> c < m
  BY <1>0
<1>2. P = Lowest(After, n)
  BY DEF Considered
<1> HIDE DEF After
<1>3. /\ P \subseteq After /\ IsFiniteSet(P) /\ Cardinality(P) <= n
      /\ \A m \in P : \A k \in After : k < m => k \in P
  BY <1>0, <1>1, <1>2, LowestBegin
<1>4. After \subseteq DOMAIN talk
  BY <1>1 DEF After
<1>5. ASSUME NEW last \in LastGiven("forward", P)
      PROVE  /\ last \in P
             /\ \A m \in P : c < m /\ m <= last
             /\ \A m \in DOMAIN talk : c < m /\ m <= last => m \in P
  <2>1. last \in P /\ \A k \in P : k <= last
    <3>1. last \in Highest(P, 1) /\ P \subseteq 0..Len(talk)
      BY <1>1, <1>3, <1>5 DEF LastGiven
    <3>2. QED BY <1>0, <3>1, HighestOne
  <2>2. QED BY <1>0, <1>1, <1>3, <1>4, <2>1
<1>6. /\ Visible(P) \subseteq P /\ IsFiniteSet(Visible(P)) /\ Visible(P) \subseteq Nat
      /\ Cardinality(Visible(P)) <= n
  <2>1. Visible(P) \subseteq P
    BY DEF Visible
  <2>2. IsFiniteSet(Visible(P)) /\ Cardinality(Visible(P)) <= Cardinality(P)
    BY <1>3, <2>1, FS_Subset
  <2>3. Cardinality(Visible(P)) \in Nat /\ Cardinality(P) \in Nat
    BY <1>3, <2>2, FS_CardinalityType
  <2>4. P \subseteq Nat
    BY <1>1, <1>3
  <2>5. QED BY <1>3, <2>1, <2>2, <2>3, <2>4
<1>7. /\ Given("forward", P) \in Seq(Visible(P))
      /\ Len(Given("forward", P)) <= n
      /\ Sorted(Given("forward", P))
      /\ ToSet(Given("forward", P)) = Visible(P)
  BY <1>6, AscendingLists DEF Given
<1>8. Given("forward", P) \in Seq(DOMAIN talk)
  BY <1>3, <1>4, <1>6, <1>7
<1>9. QED BY <1>3, <1>4, <1>5, <1>7, <1>8

\* And one read backwards all there is from the first it considered to the cursor.
LEMMA PageBackward ==
    ASSUME TypeOK, NEW c \in 0..Len(talk), NEW n \in Nat \ {0},
           NEW mode \in {"newest", "backward"},
           NEW P, P = Considered(mode, c, n)
    PROVE  /\ P \subseteq DOMAIN talk
           /\ P = {} /\ talk # <<>> => c = 1
           /\ \A last \in LastGiven(mode, P) :
                 /\ last \in P
                 /\ \A m \in P : (c = 0 \/ m < c) /\ last <= m
                 /\ \A m \in DOMAIN talk : (c = 0 \/ m < c) /\ last <= m => m \in P
           /\ Given(mode, P) \in Seq(DOMAIN talk)
           /\ Len(Given(mode, P)) <= n
           /\ Falling(Given(mode, P))
           /\ ToSet(Given(mode, P)) = Visible(P)
<1> DEFINE Before == {m \in DOMAIN talk : c = 0 \/ m < c}
<1>0. Len(talk) \in Nat /\ DOMAIN talk = 1..Len(talk) /\ c \in Int
  BY DEF TypeOK
<1>1. /\ Before \subseteq 0..Len(talk) /\ Before \subseteq Nat /\ Before \subseteq DOMAIN talk
      /\ \A m \in DOMAIN talk : m \in Before <=> c = 0 \/ m < c
  BY <1>0
<1>2. P = Highest(Before, n)
  BY DEF Considered
<1> HIDE DEF Before
<1>3. /\ P \subseteq Before /\ IsFiniteSet(P) /\ Cardinality(P) <= n
      /\ Before # {} => P # {}
      /\ \A m \in P : \A k \in Before : m < k => k \in P
  BY <1>0, <1>1, <1>2, HighestEnd
<1>4. P = {} /\ talk # <<>> => c = 1
  <2> SUFFICES ASSUME P = {}, talk # <<>>, c # 1 PROVE FALSE
    OBVIOUS
  <2>1. 1 \in DOMAIN talk /\ (c = 0 \/ 1 < c)
    BY <1>0 DEF TypeOK
  <2>2. QED BY <1>1, <1>3, <2>1
<1>5. ASSUME NEW last \in LastGiven(mode, P)
      PROVE  /\ last \in P
             /\ \A m \in P : (c = 0 \/ m < c) /\ last <= m
             /\ \A m \in DOMAIN talk : (c = 0 \/ m < c) /\ last <= m => m \in P
  <2>1. last \in P /\ \A k \in P : last <= k
    <3>1. last \in Lowest(P, 1) /\ P \subseteq 0..Len(talk)
      BY <1>1, <1>3, <1>5 DEF LastGiven
    <3>2. QED BY <1>0, <3>1, LowestOne
  <2>2. QED BY <1>0, <1>1, <1>3, <2>1
<1>6. /\ Visible(P) \subseteq P /\ IsFiniteSet(Visible(P)) /\ Visible(P) \subseteq Nat
      /\ Cardinality(Visible(P)) <= n
  <2>1. Visible(P) \subseteq P
    BY DEF Visible
  <2>2. IsFiniteSet(Visible(P)) /\ Cardinality(Visible(P)) <= Cardinality(P)
    BY <1>3, <2>1, FS_Subset
  <2>3. Cardinality(Visible(P)) \in Nat /\ Cardinality(P) \in Nat
    BY <1>3, <2>2, FS_CardinalityType
  <2>4. P \subseteq Nat
    BY <1>1, <1>3
  <2>5. QED BY <1>3, <2>1, <2>2, <2>3, <2>4
<1>7. /\ Given(mode, P) \in Seq(Visible(P))
      /\ Len(Given(mode, P)) <= n
      /\ Falling(Given(mode, P))
      /\ ToSet(Given(mode, P)) = Visible(P)
  BY <1>6, DescendingLists DEF Given
<1>8. Given(mode, P) \in Seq(DOMAIN talk)
  BY <1>1, <1>3, <1>6, <1>7
<1>9. QED BY <1>1, <1>3, <1>4, <1>5, <1>7, <1>8

-----------------------------------------------------------------------------
(* The invariant *)

LEMMA InitEstablishesIt == Init => BackfillInv
<1> SUFFICES ASSUME Init PROVE BackfillInv
  OBVIOUS
<1>1. TypeOK
  <2>1. Len(talk) \in Nat /\ talk \in Seq(Kinds) /\ DOMAIN talk = 1..Len(talk)
    BY BackfillAssumption DEF Init
  <2>2. MaxOutages \in Nat /\ MaxPages \in Nat /\ Count \in Nat
    BY BackfillAssumption
  <2>3. room \in Seq(Chat) /\ batch.got \in Seq(DOMAIN talk)
    BY DEF Init, NoBatch
  <2>4. /\ batch \in [mode : {"none", "newest", "forward", "backward"},
                      anchor : 0..Len(talk), cursor : 0..Len(talk), got : Seq(DOMAIN talk),
                      pages : 0..MaxPages, end : BOOLEAN]
        /\ Len(batch.got) <= Count
    BY <2>1, <2>2, <2>3 DEF Init, NoBatch
  <2>5. /\ webhooks \subseteq Chat /\ outrun \subseteq Chat /\ passed \subseteq Chat
        /\ nameless \subseteq DOMAIN talk /\ up \in BOOLEAN /\ backDone \in BOOLEAN
    BY DEF Init
  <2>6. outages \in 0..MaxOutages /\ backCursor \in 0..Len(talk) /\ old \in 0..Len(talk)
    BY <2>1, <2>2 DEF Init
  <2>7. at \in Seq(Nat) /\ Len(at) = Len(talk)
    <3>1. at \in [1..Len(talk) -> Nat]
      BY <2>1 DEF Init
    <3>2. QED BY <2>1, <3>1
  <2>8. QED BY <2>1, <2>3, <2>4, <2>5, <2>6, <2>7 DEF TypeOK
<1>2. room = <<>> /\ Placed = {} /\ Newest = 0
  BY DEF Init, Placed, Rows, ToSet, Newest
<1>3. BatchInv
  BY DEF Init, NoBatch, BatchInv, ForwardInv, DescendingInv, NewestInv, BackwardInv
<1>4. RoomInv
  BY <1>2 DEF Init, RoomInv, HolesWereOutrun, Holes, RoomIsOrdered, CursorInv,
              BackwardsReachesTheStart
<1>5. QED BY <1>1, <1>3, <1>4 DEF BackfillInv

\* A post adds one message to the conversation, and changes none.
LEMMA PostAdds ==
    ASSUME TypeOK, NEW kind \in Kinds, Posted(kind)
    PROVE  /\ talk' \in Seq(Kinds) /\ Len(talk) \in Nat /\ Len(talk') = Len(talk) + 1
           /\ DOMAIN talk = 1..Len(talk) /\ DOMAIN talk' = 1..(Len(talk) + 1)
           /\ at' \in Seq(Nat) /\ Len(at') = Len(talk')
           /\ Chat \subseteq Chat' /\ \A m \in Chat' : m \in Chat \/ m = Len(talk) + 1
           /\ webhooks' \subseteq Chat'
           /\ UNCHANGED <<old, up, outages>>
<1>1. /\ talk' = Append(talk, kind) /\ talk' \in Seq(Kinds) /\ Len(talk') = Len(talk) + 1
      /\ Len(talk) \in Nat
      /\ DOMAIN talk = 1..Len(talk) /\ DOMAIN talk' = 1..(Len(talk) + 1)
      /\ \A m \in DOMAIN talk : m \in DOMAIN talk' /\ talk'[m] = talk[m]
      /\ talk'[Len(talk) + 1] = kind
      /\ UNCHANGED <<old, up, outages>>
  BY DEF TypeOK, Posted
<1>2. Chat \subseteq Chat' /\ \A m \in Chat' : m \in Chat \/ m = Len(talk) + 1
  BY <1>1 DEF Chat
<1>3. webhooks' \subseteq Chat'
  <2>1. kind = "chat" => Len(talk) + 1 \in Chat'
    BY <1>1 DEF Chat
  <2>2. QED BY <1>2, <2>1 DEF TypeOK, Posted
<1>4. at' \in Seq(Nat) /\ Len(at') = Len(talk')
  <2>1. LastSecond \in Nat
    BY DEF LastSecond, TypeOK
  <2>2. at' = Append(at, LastSecond + 1) \/ at' = Append(at, LastSecond)
    BY DEF Posted
  <2> HIDE DEF LastSecond
  <2>3. LastSecond + 1 \in Nat /\ at \in Seq(Nat) /\ Len(at) = Len(talk)
    BY <2>1 DEF TypeOK
  <2>4. ASSUME NEW t \in Nat, at' = Append(at, t)
        PROVE  at' \in Seq(Nat) /\ Len(at') = Len(talk')
    BY <1>1, <2>3, <2>4
  <2>5. QED BY <2>1, <2>2, <2>3, <2>4
<1>5. QED BY <1>1, <1>2, <1>3, <1>4

LEMMA PostStep ==
    ASSUME BackfillInv, NEW kind \in Kinds, Post(kind)
    PROVE  BackfillInv'
<1> DEFINE N == Len(talk) + 1
<1>0. TypeOK /\ RoomFacts
  BY RoomEnds DEF BackfillInv
<1>1. /\ talk' \in Seq(Kinds) /\ Len(talk') = N /\ Len(talk) \in Nat
      /\ DOMAIN talk = 1..Len(talk) /\ DOMAIN talk' = 1..N
      /\ at' \in Seq(Nat) /\ Len(at') = Len(talk')
      /\ Chat \subseteq Chat' /\ \A m \in Chat' : m \in Chat \/ m = N
      /\ webhooks' \subseteq Chat'
      /\ UNCHANGED <<old, up, outages>>
  BY <1>0, PostAdds DEF Post
<1>2. UNCHANGED <<room, nameless, outrun, passed, batch, backCursor, backDone>>
  BY DEF Post, rows
<1>3. Rows' = Rows /\ Placed' = Placed /\ Newest' = Newest /\ Read' = Read
      /\ Accounted' = Accounted
  BY <1>2 DEF Rows, Placed, Newest, Read, Accounted
<1>4. TypeOK'
  <2>1. 0..Len(talk) \subseteq 0..Len(talk') /\ DOMAIN talk \subseteq DOMAIN talk'
    BY <1>1
  <2>2. Seq(Chat) \subseteq Seq(Chat') /\ Seq(DOMAIN talk) \subseteq Seq(DOMAIN talk')
    BY <1>1, <2>1
  <2>3. batch' \in [mode : {"none", "newest", "forward", "backward"},
                    anchor : 0..Len(talk'), cursor : 0..Len(talk'), got : Seq(DOMAIN talk'),
                    pages : 0..MaxPages, end : BOOLEAN]
    BY <1>0, <1>2, <2>1, <2>2 DEF TypeOK
  <2>4. QED BY <1>0, <1>1, <1>2, <2>1, <2>2, <2>3 DEF TypeOK
<1>5. /\ batch.cursor < N /\ batch.anchor < N /\ Newest < N /\ backCursor < N
      /\ \A m \in Read : m < N
  <2>1. Read \subseteq DOMAIN talk
    BY <1>0 DEF TypeOK, Read, ToSet
  <2>2. /\ batch.cursor \in 0..Len(talk) /\ backCursor \in 0..Len(talk)
        /\ batch.anchor \in 0..Len(talk)
    BY <1>0 DEF TypeOK
  <2>3. QED BY <1>0, <1>1, <2>1, <2>2 DEF RoomFacts
<1>6. /\ N \in Int /\ Newest \in Int /\ batch.cursor \in Int /\ batch.anchor \in Int
      /\ Read \subseteq Int /\ Placed \subseteq Int
  BY <1>0, <1>1 DEF TypeOK, RoomFacts, Read, ToSet
<1> HIDE DEF N
<1>7. BatchInv'
  <2>1. ForwardInv'
    BY <1>1, <1>2, <1>3, <1>5, <1>6 DEF BackfillInv, BatchInv, ForwardInv
  <2>2. DescendingInv'
    BY <1>2, <1>3 DEF BackfillInv, BatchInv, DescendingInv
  <2>3. NewestInv'
    BY <1>1, <1>2, <1>3, <1>5, <1>6 DEF BackfillInv, BatchInv, NewestInv
  <2>4. BackwardInv'
    BY <1>1, <1>2, <1>3, <1>5, <1>6 DEF BackfillInv, BatchInv, BackwardInv
  <2>5. QED BY <2>1, <2>2, <2>3, <2>4 DEF BatchInv
<1>8. RoomInv'
  <2>1. HolesWereOutrun'
    <3>1. \A b \in Placed : b < N
      BY <1>0, <1>5, <1>6 DEF RoomFacts
    <3>2. QED BY <1>1, <1>2, <1>3, <1>6, <3>1
              DEF BackfillInv, RoomInv, HolesWereOutrun, Holes
  <2>2. RoomIsOrdered'
    BY <1>2 DEF BackfillInv, RoomInv, RoomIsOrdered
  <2>3. CursorInv'
    BY <1>1, <1>2, <1>3, <1>5, <1>6 DEF BackfillInv, RoomInv, CursorInv
  <2>4. BackwardsReachesTheStart'
    BY <1>1, <1>2, <1>3, <1>5, <1>6 DEF BackfillInv, RoomInv, BackwardsReachesTheStart
  <2>5. QED BY <2>1, <2>2, <2>3, <2>4 DEF RoomInv
<1>9. QED BY <1>4, <1>7, <1>8 DEF BackfillInv

\* A message from Matrix is the newest, and what it outran is remembered.
LEMMA PostNamelessStep ==
    ASSUME BackfillInv, NEW kind \in Kinds, PostNameless(kind)
    PROVE  BackfillInv'
<1> DEFINE N == Len(talk) + 1
<1>0. TypeOK /\ RoomFacts
  BY RoomEnds DEF BackfillInv
<1>1. /\ talk' \in Seq(Kinds) /\ Len(talk') = N /\ Len(talk) \in Nat
      /\ DOMAIN talk = 1..Len(talk) /\ DOMAIN talk' = 1..N
      /\ at' \in Seq(Nat) /\ Len(at') = Len(talk')
      /\ Chat \subseteq Chat' /\ \A m \in Chat' : m \in Chat \/ m = N
      /\ webhooks' \subseteq Chat'
      /\ UNCHANGED <<old, up, outages>>
  BY <1>0, PostAdds DEF PostNameless
<1>2. /\ UNCHANGED <<room, passed, batch, backCursor, backDone>>
      /\ nameless' = nameless \cup {N}
      /\ outrun' = outrun \cup Holes(Placed \cup {N})
      /\ batch.mode \in {"none", "backward"}
  BY DEF PostNameless
<1>3. /\ Rows' = Rows /\ Placed' = Placed \cup {N} /\ Read' = Read
      /\ Accounted \subseteq Accounted' /\ outrun \subseteq outrun'
  BY <1>2 DEF Rows, Placed, Read, Accounted
<1>4. outrun' \subseteq Chat'
  BY <1>0, <1>1, <1>2 DEF TypeOK, Holes
<1>5. TypeOK'
  <2>1. 0..Len(talk) \subseteq 0..Len(talk') /\ DOMAIN talk \subseteq DOMAIN talk'
    BY <1>1
  <2>2. Seq(Chat) \subseteq Seq(Chat') /\ Seq(DOMAIN talk) \subseteq Seq(DOMAIN talk')
    BY <1>1, <2>1
  <2>3. batch' \in [mode : {"none", "newest", "forward", "backward"},
                    anchor : 0..Len(talk'), cursor : 0..Len(talk'), got : Seq(DOMAIN talk'),
                    pages : 0..MaxPages, end : BOOLEAN]
    BY <1>0, <1>2, <2>1, <2>2 DEF TypeOK
  <2>4. nameless' \subseteq DOMAIN talk'
    BY <1>0, <1>1, <1>2, <2>1 DEF TypeOK
  <2>5. QED BY <1>0, <1>1, <1>2, <1>4, <2>1, <2>2, <2>3, <2>4 DEF TypeOK
<1>6. RoomFacts'
  BY <1>5, RoomEndsNext
<1>7. /\ N \in Int /\ Newest \in Int /\ batch.cursor \in Int /\ batch.anchor \in Int
      /\ batch.anchor < N /\ Placed \subseteq Int /\ Chat \subseteq Int
      /\ \A m \in Placed : m < N
  BY <1>0, <1>1 DEF TypeOK, RoomFacts
<1>8. Newest' = N
  BY <1>1, <1>3, <1>6, <1>7 DEF RoomFacts
<1> HIDE DEF N
<1>9. ASSUME Placed # {}, NEW k \in Chat, k < N, k \notin Accounted'
      PROVE  k < Newest
  <2>1. Newest \in Placed
    BY <1>0, <1>9 DEF RoomFacts
  <2>2. k \notin Placed \cup {N} /\ k # Newest
    BY <1>3, <1>9, <2>1 DEF Accounted
  <2>3. Newest < k => k \in Holes(Placed \cup {N})
    BY <1>9, <2>1, <2>2 DEF Holes
  <2>4. QED BY <1>2, <1>7, <1>9, <2>2, <2>3 DEF Accounted
<1>10. BatchInv'
  <2>1. BackwardInv'
    BY <1>1, <1>2, <1>3, <1>7 DEF BackfillInv, BatchInv, BackwardInv
  <2>2. ForwardInv' /\ NewestInv'
    BY <1>2 DEF ForwardInv, NewestInv
  <2>3. DescendingInv'
    BY <1>2, <1>3 DEF BackfillInv, BatchInv, DescendingInv
  <2>4. QED BY <2>1, <2>2, <2>3 DEF BatchInv
<1>11. RoomInv'
  <2>1. HolesWereOutrun'
    BY <1>1, <1>2, <1>3 DEF HolesWereOutrun, Holes
  <2>2. RoomIsOrdered'
    BY <1>2, <1>3 DEF BackfillInv, RoomInv, RoomIsOrdered
  <2>3. CursorInv'
    BY <1>1, <1>2, <1>3, <1>7, <1>8, <1>9 DEF BackfillInv, RoomInv, CursorInv
  <2>4. BackwardsReachesTheStart'
    <3>1. backDone => Placed # {} /\ \A m \in Chat : m < Newest => m \in Accounted
      BY DEF BackfillInv, RoomInv, CursorInv, BackwardsReachesTheStart, Accounted
    <3>2. backDone => \A m \in Chat' : m < Newest' => m \in Accounted'
      BY <1>1, <1>3, <1>7, <1>8, <1>9, <3>1
    <3>3. QED BY <1>2, <3>2 DEF BackwardsReachesTheStart, Accounted
  <2>5. QED BY <2>1, <2>2, <2>3, <2>4 DEF RoomInv
<1>12. QED BY <1>5, <1>10, <1>11 DEF BackfillInv

\* Where the room and the conversation stay, only the batch has to be looked at.
LEMMA RoomStays ==
    ASSUME BackfillInv, UNCHANGED <<talk, rows, backCursor, backDone>>
    PROVE  /\ RoomInv' /\ Rows' = Rows /\ Placed' = Placed /\ Newest' = Newest
           /\ Oldest' = Oldest /\ Chat' = Chat /\ Accounted' = Accounted
           /\ UNCHANGED <<room, nameless, outrun, passed>>
<1>0. UNCHANGED <<room, nameless, outrun, passed>>
  BY DEF rows
<1>1. /\ Rows' = Rows /\ Placed' = Placed /\ Newest' = Newest /\ Oldest' = Oldest
      /\ Chat' = Chat /\ Accounted' = Accounted
  BY <1>0 DEF Rows, Placed, Newest, Oldest, Chat, Accounted
<1>2. Holes(Placed)' = Holes(Placed)
  BY <1>1 DEF Holes
<1>3. QED BY <1>0, <1>1, <1>2 DEF BackfillInv, RoomInv, HolesWereOutrun, RoomIsOrdered,
                                  CursorInv, BackwardsReachesTheStart

LEMMA ComeUpStep == BackfillInv /\ (ComeUp \/ UNCHANGED vars) => BackfillInv'
<1> SUFFICES ASSUME BackfillInv, ComeUp \/ UNCHANGED vars PROVE BackfillInv'
  OBVIOUS
<1>1. UNCHANGED <<talk, at, old, webhooks, outages, rows, batch, backCursor, backDone>>
  BY DEF ComeUp, vars, world
<1>2. /\ RoomInv' /\ Rows' = Rows /\ Placed' = Placed /\ Newest' = Newest /\ Chat' = Chat
      /\ Accounted' = Accounted /\ UNCHANGED <<room, nameless, outrun, passed>>
      /\ Read' = Read
  BY <1>1, RoomStays DEF Read
<1>3. TypeOK'
  BY <1>1, <1>2 DEF BackfillInv, TypeOK, ComeUp, vars, world
<1>4. BatchInv'
  BY <1>1, <1>2 DEF BackfillInv, BatchInv, ForwardInv, DescendingInv, NewestInv, BackwardInv
<1>5. QED BY <1>2, <1>3, <1>4 DEF BackfillInv

LEMMA NoBatchIsFine == batch' = NoBatch => BatchInv'
BY DEF NoBatch, BatchInv, ForwardInv, DescendingInv, NewestInv, BackwardInv

LEMMA GoDownStep == BackfillInv /\ GoDown => BackfillInv'
<1> SUFFICES ASSUME BackfillInv, GoDown PROVE BackfillInv'
  OBVIOUS
<1>1. /\ RoomInv' /\ Newest' = Newest /\ Chat' = Chat
      /\ UNCHANGED <<room, nameless, outrun, passed>>
  BY RoomStays DEF GoDown
<1>2. BatchInv'
  BY NoBatchIsFine DEF GoDown
<1>3. TypeOK'
  <2>1. outages' \in 0..MaxOutages
    BY BackfillAssumption DEF BackfillInv, TypeOK, GoDown
  <2>2. /\ batch' \in [mode : {"none", "newest", "forward", "backward"},
                       anchor : 0..Len(talk'), cursor : 0..Len(talk'), got : Seq(DOMAIN talk'),
                       pages : 0..MaxPages, end : BOOLEAN]
        /\ Len(batch'.got) <= Count
    <3>1. Len(talk') \in Nat /\ MaxPages \in Nat /\ Count \in Nat
      BY BackfillAssumption DEF BackfillInv, TypeOK, GoDown
    <3>2. QED BY <3>1 DEF GoDown, NoBatch
  <2>3. QED BY <1>1, <2>1, <2>2 DEF BackfillInv, TypeOK, GoDown
<1>4. QED BY <1>1, <1>2, <1>3 DEF BackfillInv

\* A live message becomes the end of the room, whatever its place: what it outran,
\* and itself if it was outrun, is remembered.
LEMMA LiveStep ==
    ASSUME BackfillInv, NEW m \in DOMAIN talk, Live(m)
    PROVE  BackfillInv'
<1>0. TypeOK /\ RoomFacts
  BY RoomEnds DEF BackfillInv
<1>1. /\ UNCHANGED <<talk, at, old, up, outages, nameless, passed, batch, backCursor, backDone>>
      /\ webhooks' \subseteq webhooks /\ m \in webhooks
      /\ batch.mode \in {"none", "backward"}
  BY DEF Live
<1>2. Chat' = Chat /\ Read' = Read /\ m \in Chat
  BY <1>0, <1>1 DEF Chat, Read, TypeOK
<1>3. CASE m \in Rows
  <2>1. UNCHANGED <<room, outrun>>
    BY <1>3 DEF Live
  <2>2. /\ RoomInv' /\ Rows' = Rows /\ Placed' = Placed /\ Newest' = Newest
        /\ Accounted' = Accounted
    BY <1>1, <2>1, RoomStays DEF rows
  <2>3. TypeOK'
    BY <1>0, <1>1, <1>2, <2>1 DEF TypeOK
  <2>4. BatchInv'
    BY <1>1, <1>2, <2>1, <2>2
       DEF BackfillInv, BatchInv, ForwardInv, DescendingInv, NewestInv, BackwardInv
  <2>5. QED BY <2>2, <2>3, <2>4 DEF BackfillInv
<1>4. CASE m \notin Rows
  <2>1. /\ room' = Append(room, m)
        /\ outrun' = outrun \cup Holes(Placed \cup {m}) \cup (IF m < Newest THEN {m} ELSE {})
    BY <1>4 DEF Live
  <2>2. outrun' \subseteq Chat /\ outrun \subseteq outrun'
    BY <1>0, <1>2, <2>1 DEF TypeOK, Holes
  <2>3. /\ room' \in Seq(Chat) /\ Len(room') = Len(room) + 1 /\ Len(room) \in Nat
        /\ DOMAIN room = 1..Len(room) /\ DOMAIN room' = 1..(Len(room) + 1)
        /\ \A i \in DOMAIN room : room'[i] = room[i]
        /\ room'[Len(room) + 1] = m
    BY <1>0, <1>2, <2>1 DEF TypeOK
  <2>4. /\ Rows' = Rows \cup {m} /\ Placed' = Placed \cup {m}
        /\ Accounted \subseteq Accounted'
    <3>1. Rows' = Rows \cup {m}
      BY <2>3 DEF Rows, ToSet
    <3>2. QED BY <1>1, <2>2, <3>1 DEF Placed, Accounted
  <2>5. TypeOK'
    BY <1>0, <1>1, <1>2, <2>2, <2>3 DEF TypeOK
  <2>6. RoomFacts'
    BY <2>5, RoomEndsNext
  <2>7. /\ Placed' \subseteq Int /\ Chat \subseteq Int /\ m \in Int /\ Newest \in Int
        /\ Newest' \in Int
    BY <1>0, <1>2, <2>6 DEF RoomFacts
  <2>8. (Newest' = m \/ Newest' = Newest) /\ Newest <= Newest'
    <3>1. /\ Newest' \in Placed' /\ \A k \in Placed' : k <= Newest'
          /\ m \in Nat
      BY <1>0, <1>2, <2>4, <2>6 DEF RoomFacts
    <3>2. CASE Placed = {}
      BY <1>0, <2>4, <2>7, <3>1, <3>2 DEF RoomFacts
    <3>3. CASE Placed # {}
      BY <1>0, <2>4, <2>7, <3>1, <3>3 DEF RoomFacts
    <3>4. QED BY <3>2, <3>3
  <2>9. ASSUME Placed # {}, NEW k \in Chat, k < Newest', k \notin Accounted'
        PROVE  k < Newest
    <3>1. Newest \in Placed
      BY <1>0, <2>9 DEF RoomFacts
    <3>2. k \notin Placed \cup {m} /\ k # Newest /\ k \notin outrun'
      BY <2>4, <2>9, <3>1 DEF Accounted
    <3>3. Newest < k /\ k < m => k \in Holes(Placed \cup {m})
      BY <3>1, <3>2 DEF Holes
    <3>4. QED BY <2>1, <2>7, <2>8, <2>9, <3>2, <3>3
  <2>10. BatchInv'
    <3>1. BackwardInv'
      <4> SUFFICES ASSUME batch.mode = "backward" PROVE BackwardInv'
        BY <1>1 DEF BackwardInv
      <4>1. /\ batch.anchor \in Placed
            /\ \A r \in Rows : r < batch.anchor => r \in outrun
            /\ batch.cursor # 0 =>
                  \A k \in Chat : batch.cursor <= k /\ k < batch.anchor => k \in Accounted \cup Read
            /\ batch.end => batch.cursor = 1
        BY DEF BackfillInv, BatchInv, BackwardInv
      <4>2. batch.anchor <= Newest /\ batch.anchor \in Int
        BY <1>0, <2>4, <2>7, <4>1 DEF RoomFacts
      <4>3. m < batch.anchor => m \in outrun'
        BY <2>1, <2>7, <4>2
      <4>4. \A r \in Rows' : r < batch.anchor => r \in outrun'
        BY <2>2, <2>4, <4>1, <4>3
      <4>5. QED BY <1>1, <1>2, <2>4, <4>1, <4>4 DEF BackwardInv
    <3>2. ForwardInv' /\ NewestInv'
      BY <1>1 DEF ForwardInv, NewestInv
    <3>3. DescendingInv'
      BY <1>1, <1>2 DEF BackfillInv, BatchInv, DescendingInv
    <3>4. QED BY <3>1, <3>2, <3>3 DEF BatchInv
  <2>11. RoomInv'
    <3>1. HolesWereOutrun'
      BY <1>2, <2>1, <2>4 DEF HolesWereOutrun, Holes
    <3>2. RoomIsOrdered'
      <4> SUFFICES ASSUME NEW i \in DOMAIN room', NEW j \in DOMAIN room', i < j,
                          room'[i] \notin outrun', room'[j] \notin outrun'
                   PROVE  room'[i] < room'[j]
        BY DEF RoomIsOrdered
      <4>1. i \in DOMAIN room
        BY <2>3
      <4>2. CASE j \in DOMAIN room
        BY <2>2, <2>3, <4>1, <4>2 DEF BackfillInv, RoomInv, RoomIsOrdered
      <4>3. CASE j = Len(room) + 1
        <5>1. room'[j] = m /\ ~ m < Newest
          BY <2>1, <2>3, <4>3
        <5>2. room'[i] \in Rows /\ room'[i] \in Placed' /\ room'[i] <= Newest
          BY <1>0, <2>3, <2>4, <4>1 DEF RoomFacts
        <5>3. room'[i] \in Int /\ room'[i] # m
          BY <1>4, <2>7, <5>2
        <5>4. QED BY <2>7, <5>1, <5>2, <5>3
      <4>4. QED BY <2>3, <4>2, <4>3
    <3>3. CursorInv'
      BY <1>1, <1>2, <2>4, <2>9 DEF BackfillInv, RoomInv, CursorInv
    <3>4. BackwardsReachesTheStart'
      <4>1. backDone => Placed # {} /\ \A k \in Chat : k < Newest => k \in Accounted
        BY DEF BackfillInv, RoomInv, CursorInv, BackwardsReachesTheStart, Accounted
      <4>2. backDone => \A k \in Chat : k < Newest' => k \in Accounted'
        BY <2>4, <2>9, <4>1
      <4>3. QED BY <1>1, <1>2, <4>2 DEF BackwardsReachesTheStart, Accounted
    <3>5. QED BY <3>1, <3>2, <3>3, <3>4 DEF RoomInv
  <2>12. QED BY <2>5, <2>10, <2>11 DEF BackfillInv
<1>5. QED BY <1>3, <1>4

LEMMA ResyncStep == BackfillInv /\ Resync => BackfillInv'
<1> SUFFICES ASSUME BackfillInv, Resync PROVE BackfillInv'
  OBVIOUS
<1>0. TypeOK /\ RoomFacts
  BY RoomEnds DEF BackfillInv
<1>1. /\ UNCHANGED <<talk, at, old, webhooks, up, outages, rows, backCursor, backDone>>
      /\ batch' = ForwardBatch
  BY DEF Resync, world
<1>2. /\ RoomInv' /\ Rows' = Rows /\ Placed' = Placed /\ Newest' = Newest /\ Chat' = Chat
      /\ UNCHANGED <<room, nameless, outrun, passed>>
  BY <1>1, RoomStays
<1>3. \/ /\ Newest \notin Rows
         /\ batch' = [NoBatch EXCEPT !.mode = "newest", !.anchor = Newest]
      \/ /\ Newest \in Rows
         /\ batch' = [NoBatch EXCEPT !.mode = "forward", !.anchor = Newest, !.cursor = Newest]
  <2>1. 0 \notin Rows
    BY <1>0 DEF RoomFacts
  <2>2. QED BY <1>1, <2>1 DEF ForwardBatch, AnchorID
<1>4. /\ batch'.got = <<>> /\ batch'.end = FALSE /\ batch'.anchor = Newest
      /\ \/ Newest \notin Rows /\ batch'.mode = "newest" /\ batch'.cursor = 0
         \/ Newest \in Rows /\ batch'.mode = "forward" /\ batch'.cursor = Newest
  BY <1>3 DEF NoBatch
<1>5. TypeOK'
  <2>1. Newest \in 0..Len(talk) /\ Len(talk) \in Nat /\ Count \in Nat /\ MaxPages \in Nat
    BY <1>0, BackfillAssumption DEF RoomFacts
  <2>2. batch' \in [mode : {"none", "newest", "forward", "backward"},
                    anchor : 0..Len(talk), cursor : 0..Len(talk), got : Seq(DOMAIN talk),
                    pages : 0..MaxPages, end : BOOLEAN]
    <3>1. \/ batch' = [mode |-> "newest", anchor |-> Newest, cursor |-> 0, got |-> <<>>,
                       pages |-> 0, end |-> FALSE]
          \/ batch' = [mode |-> "forward", anchor |-> Newest, cursor |-> Newest, got |-> <<>>,
                       pages |-> 0, end |-> FALSE]
      BY <1>3 DEF NoBatch
    <3>2. 0 \in 0..Len(talk) /\ 0 \in 0..MaxPages
      BY <2>1
    <3>3. <<>> \in Seq(DOMAIN talk)
      OBVIOUS
    <3>4. CASE batch' = [mode |-> "newest", anchor |-> Newest, cursor |-> 0, got |-> <<>>,
                         pages |-> 0, end |-> FALSE]
      BY <2>1, <3>2, <3>3, <3>4
    <3>5. CASE batch' = [mode |-> "forward", anchor |-> Newest, cursor |-> Newest,
                         got |-> <<>>, pages |-> 0, end |-> FALSE]
      BY <2>1, <3>2, <3>3, <3>5
    <3>6. QED BY <3>1, <3>4, <3>5
  <2>3. Len(batch'.got) <= Count
    BY <1>4, <2>1
  <2>4. QED BY <1>0, <1>1, <1>2, <2>2, <2>3 DEF TypeOK
<1>6. Read' = {} /\ Newest \in Int /\ Chat \subseteq Int
  BY <1>0, <1>4 DEF Read, ToSet, RoomFacts
<1>7. Sorted(<<>>) /\ Falling(<<>>)
  BY DEF Sorted, Falling
<1>8. ForwardInv'
  BY <1>1, <1>2, <1>4, <1>6, <1>7 DEF ForwardInv
<1>9. DescendingInv' /\ NewestInv' /\ BackwardInv'
  BY <1>1, <1>2, <1>4, <1>6, <1>7 DEF DescendingInv, NewestInv, BackwardInv
<1>10. QED BY <1>2, <1>5, <1>8, <1>9 DEF BackfillInv, BatchInv

LEMMA FetchBackwardStep == BackfillInv /\ FetchBackward => BackfillInv'
<1> SUFFICES ASSUME BackfillInv, FetchBackward PROVE BackfillInv'
  OBVIOUS
<1>0. TypeOK /\ RoomFacts
  BY RoomEnds DEF BackfillInv
<1>1. /\ UNCHANGED <<talk, at, old, webhooks, up, outages, rows, backCursor, backDone>>
      /\ Placed # {}
      /\ batch' = [NoBatch EXCEPT !.mode = "backward", !.anchor = Oldest,
                                  !.cursor = BackwardStart]
  BY DEF FetchBackward, world
<1>2. /\ RoomInv' /\ Rows' = Rows /\ Placed' = Placed /\ Newest' = Newest /\ Chat' = Chat
      /\ Accounted' = Accounted /\ UNCHANGED <<room, nameless, outrun, passed>>
  BY <1>1, RoomStays
<1>3. /\ batch'.got = <<>> /\ batch'.end = FALSE /\ batch'.mode = "backward"
      /\ batch'.cursor = BackwardStart /\ batch'.anchor = Oldest
  BY <1>1 DEF NoBatch
<1>4. /\ Newest \in Placed /\ Oldest \in Placed /\ Oldest <= Newest
      /\ Newest \in 1..Len(talk) /\ Oldest \in 1..Len(talk) /\ Len(talk) \in Nat
      /\ Chat \subseteq Int /\ Rows \subseteq Int /\ \A r \in Rows : Oldest <= r
  BY <1>0, <1>1 DEF RoomFacts
\* The batch starts where nothing that follows is missing.
<1>5. /\ BackwardStart \in 0..Len(talk)
      /\ BackwardStart # 0 =>
            \A m \in Chat : BackwardStart <= m /\ m < Oldest => m \in Accounted
  <2>1. CASE backCursor # 0
    <3>1. backCursor \in 0..Len(talk)
      BY <1>0 DEF TypeOK
    <3>2. \A m \in Chat : backCursor <= m /\ m < Newest => m \in Accounted
      BY <2>1 DEF BackfillInv, RoomInv, CursorInv
    <3>3. QED BY <1>4, <2>1, <3>1, <3>2 DEF BackwardStart
  <2>2. CASE backCursor = 0
    <3>1. BackwardStart \in {0, Oldest}
      BY <2>2 DEF BackwardStart, AnchorID
    <3>2. QED BY <1>4, <3>1
  <2>3. QED BY <2>1, <2>2
<1>6. TypeOK'
  <2>1. Count \in Nat /\ MaxPages \in Nat /\ Oldest \in 0..Len(talk)
    BY <1>4, BackfillAssumption
  <2>2. batch' \in [mode : {"none", "newest", "forward", "backward"},
                    anchor : 0..Len(talk), cursor : 0..Len(talk), got : Seq(DOMAIN talk),
                    pages : 0..MaxPages, end : BOOLEAN]
    <3>1. batch' = [mode |-> "backward", anchor |-> Oldest, cursor |-> BackwardStart,
                    got |-> <<>>, pages |-> 0, end |-> FALSE]
      BY <1>1 DEF NoBatch
    <3>2. QED BY <1>5, <2>1, <3>1
  <2>3. QED BY <1>0, <1>1, <1>2, <1>3, <2>2 DEF TypeOK
<1>7. Read' = {} /\ Falling(<<>>)
  BY <1>3 DEF Read, ToSet, Falling
<1>8. BackwardInv'
  BY <1>2, <1>3, <1>4, <1>5, <1>7 DEF BackwardInv
<1>9. ForwardInv' /\ NewestInv' /\ DescendingInv'
  BY <1>3, <1>7 DEF ForwardInv, NewestInv, DescendingInv
<1>10. QED BY <1>2, <1>6, <1>8, <1>9 DEF BackfillInv, BatchInv

LEMMA PageFailsStep == BackfillInv /\ PageFails => BackfillInv'
<1> SUFFICES ASSUME BackfillInv, PageFails PROVE BackfillInv'
  OBVIOUS
<1>1. UNCHANGED <<talk, at, old, webhooks, up, outages, rows, backCursor, backDone>>
  BY DEF PageFails, world
<1>2. /\ RoomInv' /\ Rows' = Rows /\ Placed' = Placed /\ Newest' = Newest /\ Chat' = Chat
      /\ Accounted' = Accounted /\ UNCHANGED <<room, nameless, outrun, passed>>
  BY <1>1, RoomStays
<1>3. CASE batch' = NoBatch
  <2>1. BatchInv'
    BY <1>3, NoBatchIsFine
  <2>2. TypeOK'
    <3>1. Len(talk) \in Nat /\ MaxPages \in Nat /\ Count \in Nat
      BY BackfillAssumption DEF BackfillInv, TypeOK
    <3>2. /\ batch' \in [mode : {"none", "newest", "forward", "backward"},
                         anchor : 0..Len(talk), cursor : 0..Len(talk), got : Seq(DOMAIN talk),
                         pages : 0..MaxPages, end : BOOLEAN]
          /\ Len(batch'.got) <= Count
      BY <1>3, <3>1 DEF NoBatch
    <3>3. QED BY <1>1, <1>2, <3>2 DEF BackfillInv, TypeOK
  <2>3. QED BY <1>2, <2>1, <2>2 DEF BackfillInv
<1>4. CASE batch.mode # "backward" /\ batch' = [batch EXCEPT !.end = TRUE]
  <2>1. /\ batch'.mode = batch.mode /\ batch'.anchor = batch.anchor
        /\ batch'.cursor = batch.cursor /\ batch'.got = batch.got
        /\ batch'.pages = batch.pages /\ batch'.end = TRUE
        /\ batch' \in [mode : {"none", "newest", "forward", "backward"},
                       anchor : 0..Len(talk), cursor : 0..Len(talk), got : Seq(DOMAIN talk),
                       pages : 0..MaxPages, end : BOOLEAN]
    BY <1>4 DEF BackfillInv, TypeOK
  <2>2. TypeOK'
    BY <1>1, <1>2, <2>1 DEF BackfillInv, TypeOK
  <2>3. Read' = Read
    BY <2>1 DEF Read
  <2>4. BatchInv'
    BY <1>1, <1>2, <1>4, <2>1, <2>3
       DEF BackfillInv, BatchInv, ForwardInv, DescendingInv, NewestInv, BackwardInv
  <2>5. QED BY <1>2, <2>2, <2>4 DEF BackfillInv
<1>5. QED BY <1>3, <1>4 DEF PageFails

\* A page leaves no message between itself and what was read before.
LEMMA ReadPageStep == BackfillInv /\ ReadPage => BackfillInv'
<1> SUFFICES ASSUME BackfillInv, ReadPage PROVE BackfillInv'
  OBVIOUS
<1> DEFINE page == Considered(batch.mode, batch.cursor, Limit(batch))
           given == Given(batch.mode, page)
<1>0. TypeOK /\ RoomFacts /\ Reading(batch)
  BY RoomEnds DEF BackfillInv, ReadPage
<1>1. UNCHANGED <<talk, at, old, webhooks, up, outages, rows, backCursor, backDone>>
  BY DEF ReadPage, world
<1>2. /\ RoomInv' /\ Rows' = Rows /\ Placed' = Placed /\ Newest' = Newest /\ Chat' = Chat
      /\ Accounted' = Accounted /\ UNCHANGED <<room, nameless, outrun, passed>>
  BY <1>1, RoomStays
<1>3. /\ batch.mode \in {"newest", "forward", "backward"}
      /\ batch.cursor \in 0..Len(talk) /\ Len(talk) \in Nat
      /\ batch.got \in Seq(DOMAIN talk) /\ Len(batch.got) \in Nat
      /\ batch.pages \in 0..MaxPages /\ batch.pages < MaxPages /\ MaxPages \in Nat
      /\ DOMAIN talk \subseteq Nat /\ DOMAIN talk = 1..Len(talk)
  BY <1>0, BackfillAssumption DEF TypeOK, Reading
<1>4. /\ Limit(batch) \in Nat \ {0}
      /\ batch.mode # "backward" => Len(batch.got) + Limit(batch) <= Count
  <2>1. /\ Count \in Nat \ {0} /\ PageLimit \in Nat \ {0}
        /\ batch.mode # "backward" => Len(batch.got) < Count
    BY <1>0, <1>3, BackfillAssumption DEF Reading, Enough
  <2>2. /\ Remaining(batch) \in Nat \ {0}
        /\ batch.mode # "backward" => Len(batch.got) + Remaining(batch) = Count
    <3> DEFINE k == Len(batch.got)
    <3>1. k \in Nat /\ (batch.mode # "backward" => k < Count)
      BY <1>3, <2>1
    <3>2. Remaining(batch) = IF batch.mode = "backward" THEN Count ELSE Count - k
      BY DEF Remaining
    <3> HIDE DEF k
    <3>3. /\ Remaining(batch) \in Nat \ {0}
          /\ batch.mode # "backward" => k + Remaining(batch) = Count
      BY <2>1, <3>1, <3>2
    <3>4. QED BY <3>3 DEF k
  <2>3. Limit(batch) \in Nat \ {0} /\ Limit(batch) <= Remaining(batch)
    BY <2>1, <2>2 DEF Limit
  <2>4. QED BY <1>3, <2>1, <2>2, <2>3
<1>5. CASE Ends(page) /\ batch' = [batch EXCEPT !.end = TRUE]
  <2>1. /\ batch'.mode = batch.mode /\ batch'.anchor = batch.anchor
        /\ batch'.cursor = batch.cursor /\ batch'.got = batch.got
        /\ batch'.end = TRUE
        /\ batch' \in [mode : {"none", "newest", "forward", "backward"},
                       anchor : 0..Len(talk), cursor : 0..Len(talk), got : Seq(DOMAIN talk),
                       pages : 0..MaxPages, end : BOOLEAN]
    BY <1>0, <1>5 DEF TypeOK
  <2>2. TypeOK'
    BY <1>0, <1>1, <1>2, <2>1 DEF TypeOK
  <2>3. Read' = Read
    BY <2>1 DEF Read
  <2>4. batch.mode = "backward" => batch.cursor = 1
    <3> SUFFICES ASSUME batch.mode = "backward" PROVE batch.cursor = 1
      OBVIOUS
    <3>1. page = {}
      BY <1>5 DEF Ends
    <3>2. talk # <<>>
      BY <1>0 DEF BackfillInv, BatchInv, BackwardInv, RoomFacts
    <3> HIDE DEF page
    <3>3. page = Considered("backward", batch.cursor, Limit(batch))
      BY DEF page
    <3>4. QED BY <1>0, <1>3, <1>4, <3>1, <3>2, <3>3, PageBackward
  <2>5. BatchInv'
    BY <1>1, <1>2, <2>1, <2>3, <2>4
       DEF BackfillInv, BatchInv, ForwardInv, DescendingInv, NewestInv, BackwardInv
  <2>6. QED BY <1>2, <2>2, <2>5 DEF BackfillInv
<1>6. ASSUME NEW last \in LastGiven(batch.mode, page),
             batch' = [batch EXCEPT !.cursor = last, !.pages = @ + 1, !.got = @ \o given]
      PROVE  BackfillInv'
  <2> DEFINE mode == batch.mode
             c == batch.cursor
             n == Limit(batch)
  <2>0. /\ page = Considered(mode, c, n) /\ given = Given(mode, page)
        /\ last \in LastGiven(mode, page)
        /\ c \in 0..Len(talk) /\ n \in Nat \ {0}
    BY <1>3, <1>4, <1>6
  <2> HIDE DEF page, given, mode, c, n
  <2>a. mode = "forward" =>
            /\ page \subseteq DOMAIN talk
            /\ \A l \in LastGiven("forward", page) :
                  /\ l \in page
                  /\ \A m \in page : c < m /\ m <= l
                  /\ \A m \in DOMAIN talk : c < m /\ m <= l => m \in page
            /\ given \in Seq(DOMAIN talk) /\ Len(given) <= n
            /\ Sorted(given) /\ ToSet(given) = Visible(page)
    <3> SUFFICES ASSUME mode = "forward"
                 PROVE  /\ page \subseteq DOMAIN talk
                        /\ \A l \in LastGiven("forward", page) :
                              /\ l \in page
                              /\ \A m \in page : c < m /\ m <= l
                              /\ \A m \in DOMAIN talk : c < m /\ m <= l => m \in page
                        /\ given \in Seq(DOMAIN talk) /\ Len(given) <= n
                        /\ Sorted(given) /\ ToSet(given) = Visible(page)
      OBVIOUS
    <3>1. page = Considered("forward", c, n) /\ given = Given("forward", page)
      BY <2>0
    <3>2. QED BY <1>0, <2>0, <3>1, PageForward
  <2>b. mode \in {"newest", "backward"} =>
            /\ page \subseteq DOMAIN talk
            /\ \A l \in LastGiven(mode, page) :
                  /\ l \in page
                  /\ \A m \in page : (c = 0 \/ m < c) /\ l <= m
                  /\ \A m \in DOMAIN talk : (c = 0 \/ m < c) /\ l <= m => m \in page
            /\ given \in Seq(DOMAIN talk) /\ Len(given) <= n
            /\ Falling(given) /\ ToSet(given) = Visible(page)
    <3> SUFFICES ASSUME mode \in {"newest", "backward"}
                 PROVE  /\ page \subseteq DOMAIN talk
                        /\ \A l \in LastGiven(mode, page) :
                              /\ l \in page
                              /\ \A m \in page : (c = 0 \/ m < c) /\ l <= m
                              /\ \A m \in DOMAIN talk :
                                    (c = 0 \/ m < c) /\ l <= m => m \in page
                        /\ given \in Seq(DOMAIN talk) /\ Len(given) <= n
                        /\ Falling(given) /\ ToSet(given) = Visible(page)
      OBVIOUS
    <3>1. CASE mode = "newest"
      <4>1. page = Considered("newest", c, n) /\ given = Given("newest", page)
        BY <2>0, <3>1
      <4>2. /\ page \subseteq DOMAIN talk
            /\ \A l \in LastGiven("newest", page) :
                  /\ l \in page
                  /\ \A m \in page : (c = 0 \/ m < c) /\ l <= m
                  /\ \A m \in DOMAIN talk : (c = 0 \/ m < c) /\ l <= m => m \in page
        BY <1>0, <2>0, <4>1, PageBackward
      <4>3. /\ Given("newest", page) \in Seq(DOMAIN talk)
            /\ Len(Given("newest", page)) <= n
            /\ Falling(Given("newest", page))
            /\ ToSet(Given("newest", page)) = Visible(page)
        BY <1>0, <2>0, <4>1, PageBackward
      <4>4. QED BY <3>1, <4>1, <4>2, <4>3
    <3>2. CASE mode = "backward"
      <4>1. page = Considered("backward", c, n) /\ given = Given("backward", page)
        BY <2>0, <3>2
      <4>2. /\ page \subseteq DOMAIN talk
            /\ \A l \in LastGiven("backward", page) :
                  /\ l \in page
                  /\ \A m \in page : (c = 0 \/ m < c) /\ l <= m
                  /\ \A m \in DOMAIN talk : (c = 0 \/ m < c) /\ l <= m => m \in page
        BY <1>0, <2>0, <4>1, PageBackward
      <4>3. /\ Given("backward", page) \in Seq(DOMAIN talk)
            /\ Len(Given("backward", page)) <= n
            /\ Falling(Given("backward", page))
            /\ ToSet(Given("backward", page)) = Visible(page)
        BY <1>0, <2>0, <4>1, PageBackward
      <4>4. QED BY <3>2, <4>1, <4>2, <4>3
    <3>3. QED BY <3>1, <3>2
  <2>1. /\ page \subseteq DOMAIN talk /\ last \in page
        /\ given \in Seq(DOMAIN talk) /\ Len(given) <= n /\ Len(given) \in Nat
        /\ ToSet(given) = Visible(page)
        /\ mode \in {"newest", "forward", "backward"}
    <3>1. mode \in {"newest", "forward", "backward"}
      BY <1>3 DEF mode
    <3>2. CASE mode = "forward"
      BY <2>0, <2>a, <3>2
    <3>3. CASE mode \in {"newest", "backward"}
      BY <2>0, <2>b, <3>3
    <3>4. QED BY <3>1, <3>2, <3>3
  <2>2. /\ batch.got \o given \in Seq(DOMAIN talk)
        /\ Len(batch.got \o given) = Len(batch.got) + Len(given)
        /\ ToSet(batch.got \o given) = Read \cup Visible(page)
    BY <1>3, <2>1, Joining DEF Read
  <2>3. /\ batch'.mode = batch.mode /\ batch'.cursor = last /\ batch'.end = batch.end
        /\ batch'.anchor = batch.anchor
        /\ batch'.got = batch.got \o given
        /\ batch' \in [mode : {"none", "newest", "forward", "backward"},
                       anchor : 0..Len(talk), cursor : 0..Len(talk), got : Seq(DOMAIN talk),
                       pages : 0..MaxPages, end : BOOLEAN]
    <3>1. last \in 0..Len(talk) /\ batch.pages + 1 \in 0..MaxPages
      BY <1>3, <2>1
    <3>2. QED BY <1>0, <1>6, <2>2, <3>1 DEF TypeOK
  <2>4. Read' = Read \cup Visible(page)
    BY <2>2, <2>3 DEF Read
  <2>5. TypeOK'
    <3>1. batch'.mode # "backward" => Len(batch'.got) <= Count
      <4>1. Count \in Nat
        BY BackfillAssumption
      <4>2. QED BY <1>3, <1>4, <2>1, <2>2, <2>3, <4>1 DEF n
    <3>2. QED BY <1>0, <1>1, <1>2, <2>3, <3>1 DEF TypeOK
  <2>6. /\ Visible(page) \subseteq page /\ \A m \in Chat : m \in page => m \in Visible(page)
        /\ Chat \subseteq DOMAIN talk
    BY DEF Visible, Chat
  <2>7. /\ last \in Int /\ batch.cursor \in Int /\ Newest \in Int /\ page \subseteq Int
        /\ Read \subseteq Int /\ Chat \subseteq Int
    <3>1. Read \subseteq DOMAIN talk
      BY <1>3 DEF Read, ToSet
    <3>2. QED BY <1>0, <1>3, <2>1, <2>6, <3>1 DEF RoomFacts
  <2>8. CASE batch.mode = "forward"
    <3>1. /\ \A m \in page : batch.cursor < m /\ m <= last
          /\ \A m \in DOMAIN talk : batch.cursor < m /\ m <= last => m \in page
          /\ Sorted(given)
      BY <2>0, <2>8, <2>a DEF mode, c
    <3>2. /\ Newest \in Rows /\ batch.anchor = Newest /\ batch.cursor >= Newest
          /\ Sorted(batch.got)
          /\ \A m \in Read : Newest < m /\ m <= batch.cursor
          /\ \A m \in Chat : Newest < m /\ m <= batch.cursor => m \in Read
      BY <2>8 DEF BackfillInv, BatchInv, ForwardInv
    <3>3. Sorted(batch'.got)
      <4>1. \A m \in Read : \A k \in ToSet(given) : m < k
        BY <2>1, <2>6, <2>7, <3>1, <3>2
      <4>2. DOMAIN talk \subseteq Nat /\ batch.got \in Seq(DOMAIN talk)
        BY <1>3
      <4> DEFINE s == batch.got
                 T == DOMAIN talk
      <4>3. Sorted(s) /\ s \in Seq(T) /\ given \in Seq(T) /\ T \subseteq Nat
        BY <2>1, <3>2, <4>2
      <4>4. \A m \in ToSet(s) : \A k \in ToSet(given) : m < k
        BY <4>1 DEF Read
      <4> HIDE DEF s, T
      <4>5. Sorted(s \o given)
        BY <3>1, <4>3, <4>4, Joining
      <4>6. QED BY <2>3, <4>5 DEF s
    <3>4. \A m \in Read' : Newest < m /\ m <= last
      BY <2>1, <2>4, <2>6, <2>7, <3>1, <3>2
    <3>5. \A m \in Chat : Newest < m /\ m <= last => m \in Read'
      BY <2>4, <2>6, <2>7, <3>1, <3>2
    <3>6. last >= Newest
      BY <2>1, <2>7, <3>1, <3>2
    <3>7. ForwardInv'
      BY <1>1, <1>2, <2>3, <3>2, <3>3, <3>4, <3>5, <3>6 DEF ForwardInv
    <3>8. BatchInv'
      BY <2>3, <2>8, <3>7 DEF BatchInv, DescendingInv, NewestInv, BackwardInv
    <3>9. QED BY <1>2, <2>5, <3>8 DEF BackfillInv
  <2>9. CASE batch.mode \in {"newest", "backward"}
    <3>1. /\ \A m \in page : (c = 0 \/ m < c) /\ last <= m
          /\ \A m \in DOMAIN talk : (c = 0 \/ m < c) /\ last <= m => m \in page
          /\ Falling(given)
      BY <2>0, <2>9, <2>b DEF mode
    <3>0. c \in Int /\ c = batch.cursor
      BY <2>7 DEF c
    <3>2. /\ Falling(batch.got) /\ \A m \in Read : c <= m
          /\ c = 0 => batch.got = <<>>
      BY <2>9, <3>0 DEF BackfillInv, BatchInv, DescendingInv
    <3>3. c = 0 => Read = {}
      BY <3>2 DEF Read, ToSet
    <3>4. last # 0 /\ (c = 0 \/ last < c)
      BY <1>3, <2>1, <3>0, <3>1
    <3>5. Falling(batch'.got)
      <4>1. \A m \in Read : \A k \in ToSet(given) : k < m
        <5> SUFFICES ASSUME NEW m \in Read, NEW k \in ToSet(given) PROVE k < m
          OBVIOUS
        <5>1. k \in page /\ c # 0 /\ k < c /\ c <= m
          BY <2>1, <2>6, <3>1, <3>2, <3>3
        <5>2. QED BY <2>7, <3>0, <5>1
      <4>2. DOMAIN talk \subseteq Nat /\ batch.got \in Seq(DOMAIN talk)
        BY <1>3
      <4> DEFINE s == batch.got
                 T == DOMAIN talk
      <4>3. Falling(s) /\ s \in Seq(T) /\ given \in Seq(T) /\ T \subseteq Nat
        BY <2>1, <3>2, <4>2
      <4>4. \A m \in ToSet(s) : \A k \in ToSet(given) : k < m
        BY <4>1 DEF Read
      <4> HIDE DEF s, T
      <4>5. Falling(s \o given)
        BY <3>1, <4>3, <4>4, Joining
      <4>6. QED BY <2>3, <4>5 DEF s
    <3>6. DescendingInv'
      <4>1. \A m \in Read' : last <= m
        BY <2>4, <2>6, <2>7, <3>0, <3>1, <3>2, <3>3, <3>4
      <4>2. QED BY <2>3, <3>4, <3>5, <4>1 DEF DescendingInv
    <3>7. NewestInv'
      <4> SUFFICES ASSUME batch.mode = "newest" PROVE NewestInv'
        BY <2>3 DEF NewestInv
      <4>1. /\ batch.anchor = Newest /\ Newest \notin Rows
            /\ \A k \in Read : \A m \in Chat : c <= m /\ m < k => m \in Read
        BY <3>0 DEF BackfillInv, BatchInv, NewestInv
      <4>2. ASSUME NEW k \in Read', NEW m \in Chat, last <= m, m < k PROVE m \in Read'
        <5>1. CASE c = 0 \/ m < c
          BY <2>4, <2>6, <2>7, <3>0, <3>1, <4>2, <5>1
        <5>2. CASE c # 0 /\ c <= m
          <6>1. k \in Read
            BY <2>4, <2>6, <2>7, <3>0, <3>1, <4>2, <5>2
          <6>2. QED BY <2>4, <4>1, <4>2, <5>2, <6>1
        <5>3. QED BY <2>7, <3>0, <5>1, <5>2
      <4>3. QED BY <1>1, <1>2, <2>3, <4>1, <4>2 DEF NewestInv
    <3>8. BackwardInv'
      <4> SUFFICES ASSUME batch.mode = "backward" PROVE BackwardInv'
        BY <2>3 DEF BackwardInv
      <4>1. /\ batch.anchor \in Placed
            /\ \A r \in Rows : r < batch.anchor => r \in outrun
            /\ c # 0 =>
                  \A m \in Chat : c <= m /\ m < batch.anchor => m \in Accounted \cup Read
        BY <3>0 DEF BackfillInv, BatchInv, BackwardInv
      <4>2. \A m \in Chat : last <= m /\ m < batch.anchor => m \in Accounted \cup Read'
        BY <2>4, <2>6, <2>7, <3>0, <3>1, <4>1
      <4>3. ~ batch'.end
        BY <1>0, <2>3 DEF Reading
      <4>4. QED BY <1>2, <2>3, <4>1, <4>2, <4>3 DEF BackwardInv
    <3>9. BatchInv'
      BY <2>3, <2>9, <3>6, <3>7, <3>8 DEF BatchInv, ForwardInv
    <3>10. QED BY <1>2, <2>5, <3>9 DEF BackfillInv
  <2>10. QED BY <1>3, <2>8, <2>9
<1>7. QED BY <1>5, <1>6 DEF ReadPage

\* What a batch adds is what bridgev2 keeps of what it read, in order.
LEMMA SentInOrder ==
    ASSUME BackfillInv, batch.mode # "none"
    PROVE  /\ Sent(batch) \in Seq(Chat) /\ Sorted(Sent(batch))
           /\ ToSet(Sent(batch)) = Read \cap Wanted(batch)
           /\ Wanted(batch) \subseteq Chat
<1> DEFINE T == DOMAIN talk
           s == OldestFirst(batch)
           S == Wanted(batch)
<1>1. /\ T \subseteq Nat /\ batch.got \in Seq(T)
      /\ batch.mode \in {"newest", "forward", "backward"}
  BY DEF BackfillInv, TypeOK
<1>2. s \in Seq(T) /\ Sorted(s) /\ ToSet(s) = Read
  <2>1. CASE batch.mode = "forward"
    BY <1>1, <2>1 DEF OldestFirst, BackfillInv, BatchInv, ForwardInv, Read
  <2>2. CASE batch.mode # "forward"
    <3>1. s = Reverse(batch.got) /\ Falling(batch.got)
      BY <1>1, <2>2 DEF OldestFirst, BackfillInv, BatchInv, DescendingInv
    <3> DEFINE g == batch.got
    <3> HIDE DEF s, T
    <3>2. g \in Seq(T) /\ T \subseteq Nat /\ Falling(g) /\ s = Reverse(g)
      BY <1>1, <3>1
    <3> HIDE DEF g
    <3>3. s \in Seq(T) /\ Sorted(s) /\ ToSet(s) = ToSet(g)
      BY <3>2, Reversal
    <3>4. QED BY <3>3 DEF g, Read
  <2>3. QED BY <2>1, <2>2
<1>3. Sent(batch) = Among(s, S)
  BY DEF Sent
<1>4. S \subseteq Chat
  BY DEF Wanted
<1> HIDE DEF s, S, T
<1>5. Among(s, S) \in Seq(T \cap S) /\ ToSet(Among(s, S)) = ToSet(s) \cap S /\ Sorted(Among(s, S))
  BY <1>1, <1>2, AmongKeepsOrder
<1>6. Among(s, S) \in Seq(Chat)
  BY <1>4, <1>5
<1>7. QED BY <1>2, <1>3, <1>4, <1>5, <1>6 DEF S

LEMMA DeliverStep == BackfillInv /\ Deliver => BackfillInv'
<1> SUFFICES ASSUME BackfillInv, Deliver PROVE BackfillInv'
  OBVIOUS
<1> DEFINE s == Sent(batch)
           N == ToSet(s)
<1>0. TypeOK /\ RoomFacts
  BY RoomEnds DEF BackfillInv
<1>1. /\ UNCHANGED <<talk, at, old, webhooks, up, outages, nameless, outrun>>
      /\ batch.mode \in {"newest", "forward", "backward"} /\ batch' = NoBatch
      /\ passed' = passed \cup PassedOver(batch)
  BY <1>0 DEF Deliver, TypeOK, world
<1>2. Chat' = Chat /\ Chat \subseteq Nat /\ room \in Seq(Chat)
  BY <1>0, <1>1 DEF Chat, TypeOK, RoomFacts
<1>3. /\ s \in Seq(Chat) /\ Sorted(s) /\ N = Read \cap Wanted(batch)
      /\ Wanted(batch) \subseteq Chat
  BY <1>1, SentInOrder
<1>4. /\ \/ batch.mode = "backward" /\ room' = s \o room
         \/ batch.mode # "backward" /\ room' = room \o s
      /\ batch.mode = "backward" =>
            \/ backCursor' = batch.cursor /\ backDone' = batch.end
            \/ UNCHANGED <<backCursor, backDone>>
      /\ batch.mode # "backward" => UNCHANGED <<backCursor, backDone>>
  BY DEF Deliver, NoMore
<1>a. s # <<>> <=> N # {}
  <2>1. s # <<>> => s[1] \in N
    BY <1>3 DEF ToSet
  <2>2. s = <<>> => N = {}
    BY DEF ToSet
  <2>3. QED BY <2>1, <2>2
<1>b. PassedOver(batch) \subseteq Chat
  BY DEF PassedOver
<1> HIDE DEF s
<1>5. room' \in Seq(Chat) /\ ToSet(room') = Rows \cup N
  <2>1. /\ s \o room \in Seq(Chat) /\ ToSet(s \o room) = ToSet(s) \cup ToSet(room)
        /\ room \o s \in Seq(Chat) /\ ToSet(room \o s) = ToSet(room) \cup ToSet(s)
    BY <1>2, <1>3, Joining
  <2>2. QED BY <1>4, <2>1 DEF Rows
<1> HIDE DEF N
<1>6. /\ Rows' = Rows \cup N /\ Placed' = Placed \cup N
      /\ N \subseteq Read /\ N \subseteq Chat
      /\ Accounted' = Accounted \cup N \cup PassedOver(batch)
  BY <1>1, <1>3, <1>5 DEF Rows, Placed, Accounted
<1>7. TypeOK'
  <2>1. Len(talk) \in Nat /\ MaxPages \in Nat /\ Count \in Nat
    BY <1>0, BackfillAssumption DEF RoomFacts
  <2>2. /\ batch' \in [mode : {"none", "newest", "forward", "backward"},
                       anchor : 0..Len(talk), cursor : 0..Len(talk), got : Seq(DOMAIN talk),
                       pages : 0..MaxPages, end : BOOLEAN]
        /\ Len(batch'.got) <= Count
    BY <1>1, <2>1 DEF NoBatch
  <2>3. backCursor' \in 0..Len(talk) /\ backDone' \in BOOLEAN
    BY <1>0, <1>1, <1>4 DEF TypeOK
  <2>4. passed' \subseteq Chat
    BY <1>0, <1>1, <1>b DEF TypeOK
  <2>5. QED BY <1>0, <1>1, <1>2, <1>5, <2>2, <2>3, <2>4 DEF TypeOK
<1>8. RoomFacts'
  BY <1>7, RoomEndsNext
<1>9. /\ Newest \in Int /\ Newest' \in Int /\ batch.cursor \in Int /\ batch.anchor \in Int
      /\ Read \subseteq Int /\ Chat \subseteq Int /\ Rows \subseteq Chat
      /\ Placed' \subseteq Int /\ Placed \subseteq Placed' /\ Rows \subseteq Placed
      /\ \A m \in Placed : m <= Newest
      /\ \A m \in Placed' : m <= Newest'
  <2>1. /\ Newest \in Int /\ Newest' \in Int /\ Chat \subseteq Int /\ Rows \subseteq Chat
        /\ Placed' \subseteq Int /\ Placed \subseteq Placed' /\ Rows \subseteq Placed
        /\ \A m \in Placed : m <= Newest
        /\ \A m \in Placed' : m <= Newest'
    BY <1>0, <1>2, <1>6, <1>8 DEF RoomFacts
  <2>2. batch.cursor \in Int /\ batch.anchor \in Int /\ Read \subseteq Int
    BY <1>0 DEF RoomFacts, TypeOK, Read, ToSet
  <2>3. QED BY <2>1, <2>2
<1>10. BatchInv'
  BY <1>1, NoBatchIsFine
\* Two messages of the room as it was keep their order, and so do two of the batch.
<1>11. ASSUME \A m \in ToSet(s) : \A r \in Rows :
                 m \notin outrun /\ r \notin outrun =>
                    IF batch.mode = "backward" THEN m < r ELSE r < m
       PROVE  RoomIsOrdered'
  <2> DEFINE Punctual(q) == \A i, j \in DOMAIN q :
                 i < j /\ q[i] \notin outrun /\ q[j] \notin outrun => q[i] < q[j]
  <2>1. ASSUME NEW a \in Seq(Chat), NEW b \in Seq(Chat), Punctual(a), Punctual(b),
               \A m \in ToSet(a) : \A r \in ToSet(b) :
                  m \notin outrun /\ r \notin outrun => m < r
        PROVE  Punctual(a \o b)
    <3> SUFFICES ASSUME NEW i \in DOMAIN (a \o b), NEW j \in DOMAIN (a \o b), i < j,
                        (a \o b)[i] \notin outrun, (a \o b)[j] \notin outrun
                 PROVE  (a \o b)[i] < (a \o b)[j]
      OBVIOUS
    <3>1. Len(a) \in Nat /\ Len(b) \in Nat /\ DOMAIN a = 1..Len(a) /\ i \in Int /\ j \in Int
      OBVIOUS
    <3>2. \A l \in DOMAIN (a \o b) :
             IF l \in DOMAIN a THEN (a \o b)[l] = a[l]
             ELSE l - Len(a) \in DOMAIN b /\ (a \o b)[l] = b[l - Len(a)]
      BY <1>2, Joining
    <3>3. /\ \A l \in DOMAIN a : a[l] \in ToSet(a)
          /\ \A l \in DOMAIN b : b[l] \in ToSet(b)
      BY DEF ToSet
    <3> DEFINE u == a \o b
    <3> HIDE DEF u
    <3>4. CASE j \in DOMAIN a
      <4>1. i \in DOMAIN a
        BY <3>1, <3>4
      <4>2. QED BY <2>1, <3>2, <3>4, <4>1
    <3>5. CASE i \in DOMAIN a /\ j \notin DOMAIN a
      BY <2>1, <3>2, <3>3, <3>5
    <3>6. CASE i \notin DOMAIN a /\ j \notin DOMAIN a
      <4>1. i - Len(a) < j - Len(a)
        BY <3>1
      <4>2. QED BY <2>1, <3>2, <3>6, <4>1
    <3>7. QED BY <3>1, <3>4, <3>5, <3>6
  <2>2. Punctual(room)
    BY DEF BackfillInv, RoomInv, RoomIsOrdered
  <2>3. Punctual(s)
    BY <1>3 DEF Sorted
  <2>4. Punctual(room')
    <3> HIDE DEF Punctual
    <3>1. CASE batch.mode = "backward" /\ room' = s \o room
      BY <1>2, <1>3, <1>11, <2>1, <2>2, <2>3, <3>1 DEF Rows
    <3>2. CASE batch.mode # "backward" /\ room' = room \o s
      BY <1>2, <1>3, <1>11, <2>1, <2>2, <2>3, <3>2 DEF Rows
    <3>3. QED BY <1>4, <3>1, <3>2
  <2>5. QED BY <1>1, <2>4 DEF RoomIsOrdered
<1>12. ASSUME HolesWereOutrun', RoomIsOrdered', CursorInv', BackwardsReachesTheStart'
       PROVE  BackfillInv'
  BY <1>7, <1>10, <1>12 DEF BackfillInv, RoomInv
\* Holes between two rows as they were are accounted for.
<1>c. \A m \in Chat : (\E a \in Placed : a < m) /\ m < Newest => m \in Accounted
  <2> SUFFICES ASSUME NEW m \in Chat, NEW a \in Placed, a < m, m < Newest, m \notin Placed
               PROVE  m \in Accounted
    BY DEF Accounted
  <2>1. Newest \in Placed
    BY <1>0 DEF RoomFacts
  <2>2. m \in Holes(Placed)
    BY <2>1 DEF Holes
  <2>3. QED BY <2>2 DEF BackfillInv, RoomInv, HolesWereOutrun, Accounted
<1>13. CASE batch.mode = "backward"
  <2>1. /\ batch.anchor \in Placed
        /\ \A r \in Rows : r < batch.anchor => r \in outrun
        /\ batch.cursor # 0 =>
              \A m \in Chat : batch.cursor <= m /\ m < batch.anchor => m \in Accounted \cup Read
        /\ batch.end => batch.cursor = 1
    BY <1>13 DEF BackfillInv, BatchInv, BackwardInv
  <2>2. /\ \A m \in Read : batch.cursor <= m
        /\ batch.cursor = 0 => N = {}
    <3>1. /\ \A m \in Read : batch.cursor <= m
          /\ batch.cursor = 0 => batch.got = <<>>
      BY <1>13 DEF BackfillInv, BatchInv, DescendingInv
    <3>2. batch.got = <<>> => Read = {}
      BY DEF Read, ToSet
    <3>3. QED BY <1>6, <3>1, <3>2
  <2>3. /\ batch.anchor <= Newest
        /\ \A m \in Read \cap Chat : m < batch.anchor => m \in N
        /\ \A m \in N : m <= batch.anchor /\ (m = batch.anchor => m \notin Rows)
    <3>1. Wanted(batch) = {m \in Chat \ {AnchorID(batch.anchor)} : m <= batch.anchor}
      BY <1>13 DEF Wanted
    <3>2. /\ AnchorID(batch.anchor) \in {0, batch.anchor}
          /\ batch.anchor \in Rows => AnchorID(batch.anchor) = batch.anchor
      BY DEF AnchorID
    <3>3. \A m \in Chat : m # 0
      BY <1>0 DEF RoomFacts
    <3>4. QED BY <1>3, <1>9, <2>1, <3>1, <3>2, <3>3
  <2>4. Newest' = Newest
    <3>1. Newest' \in Placed' /\ Newest \in Placed'
      BY <1>0, <1>6, <1>8, <2>1 DEF RoomFacts
    <3>2. Newest' \in Placed \/ Newest' \in N
      BY <1>6, <3>1
    <3>3. QED BY <1>9, <2>3, <3>1, <3>2
  <2>5. \A m \in Chat : batch.anchor <= m /\ m < Newest => m \in Accounted
    BY <1>9, <1>c, <2>1 DEF Accounted
  <2>6. batch.cursor # 0 => \A m \in Chat : batch.cursor <= m /\ m < Newest => m \in Accounted'
    BY <1>6, <1>9, <2>1, <2>3, <2>5
  <2>7. HolesWereOutrun'
    <3> SUFFICES ASSUME NEW m \in Chat, NEW a \in Placed', NEW b \in Placed', a < m, m < b
                 PROVE  m \in Accounted'
      BY <1>1, <1>2 DEF HolesWereOutrun, Holes, Accounted
    <3>0. m \in Int /\ a \in Int /\ b \in Int
      BY <1>9
    <3>1. m < Newest
      BY <1>9, <2>4, <3>0
    <3>2. CASE a \in Placed
      BY <1>6, <1>c, <3>1, <3>2
    <3>3. CASE a \in N
      <4>1. batch.cursor <= m /\ batch.cursor # 0
        BY <1>6, <1>9, <2>2, <3>0, <3>3
      <4>2. QED BY <2>6, <3>1, <4>1
    <3>4. QED BY <1>6, <3>2, <3>3
  <2>8. RoomIsOrdered'
    <3>1. ASSUME NEW m \in ToSet(s), NEW r \in Rows, r \notin outrun PROVE m < r
      <4>1. m \in N /\ m \in Int /\ r \in Int
        BY <1>6, <1>9 DEF N
      <4>2. ~ r < batch.anchor
        BY <2>1, <3>1
      <4>3. QED BY <1>9, <2>3, <4>1, <4>2
    <3>2. QED BY <1>11, <1>13, <3>1
  <2>9. CursorInv'
    <3>1. Placed' # {}
      BY <1>6, <2>1
    <3>2. backCursor # 0 => \A m \in Chat : backCursor <= m /\ m < Newest => m \in Accounted
      BY DEF BackfillInv, RoomInv, CursorInv
    <3>3. QED BY <1>2, <1>4, <1>6, <1>13, <2>4, <2>6, <3>1, <3>2 DEF CursorInv
  <2>10. BackwardsReachesTheStart'
    <3>1. batch.end => \A m \in Chat : m < Newest => m \in Accounted'
      <4> SUFFICES ASSUME batch.end, NEW m \in Chat, m < Newest PROVE m \in Accounted'
        OBVIOUS
      <4>1. batch.cursor = 1 /\ m >= 1
        BY <1>0, <2>1 DEF RoomFacts
      <4>2. QED BY <2>6, <4>1
    <3>2. backDone => \A m \in Chat : m < Newest => m \in Accounted
      BY DEF BackfillInv, RoomInv, BackwardsReachesTheStart, Accounted
    <3>3. backDone' => \A m \in Chat : m < Newest => m \in Accounted'
      BY <1>4, <1>6, <1>13, <3>1, <3>2
    <3>4. QED BY <1>2, <2>4, <3>3 DEF BackwardsReachesTheStart, Accounted
  <2>11. QED BY <1>12, <2>7, <2>8, <2>9, <2>10
\* What a batch that makes the room wait adds is newer than all that was there, and
\* leaves out only what it read past.
<1>14. CASE batch.mode \in {"forward", "newest"}
  <2>1. batch.anchor = Newest
    BY <1>14 DEF BackfillInv, BatchInv, ForwardInv, NewestInv
  <2>2. /\ \A m \in N : Newest <= m /\ m \notin Rows
        /\ \A m \in Read \cap Chat : Newest < m => m \in N \cup Rows
    BY <1>3, <1>9, <1>14, <2>1 DEF Wanted
  <2>3. \A m \in Chat : Placed # {} /\ Newest < m /\ m < Newest' => m \in Accounted'
    <3> SUFFICES ASSUME Placed # {}, NEW m \in Chat, Newest < m, m < Newest', m \notin Placed
                 PROVE  m \in Accounted'
      BY <1>6 DEF Accounted
    <3>1. Newest' \in N /\ m \in Int
      <4>1. Newest' \in Placed'
        BY <1>6, <1>8 DEF RoomFacts
      <4>2. QED BY <1>6, <1>9, <4>1
    <3>2. m \in Read => m \in Accounted'
      BY <1>6, <1>9, <2>2
    <3>3. CASE batch.mode = "forward"
      <4>1. /\ \A k \in Read : k <= batch.cursor
            /\ \A k \in Chat : Newest < k /\ k <= batch.cursor => k \in Read
        BY <3>3 DEF BackfillInv, BatchInv, ForwardInv
      <4>2. QED BY <1>6, <1>9, <3>1, <3>2, <4>1
    <3>4. CASE batch.mode = "newest"
      <4>1. /\ Newest \notin Rows
            /\ \A k \in Read : \A l \in Chat : batch.cursor <= l /\ l < k => l \in Read
        BY <3>4 DEF BackfillInv, BatchInv, NewestInv
      <4>2. CASE batch.cursor <= m
        BY <1>6, <3>1, <3>2, <4>1, <4>2
      <4>3. CASE m < batch.cursor
        <5>1. Newest \in nameless \ Rows
          BY <1>0, <4>1 DEF RoomFacts, Placed
        <5>2. Sent(batch) # <<>>
          BY <1>a, <3>1 DEF s
        <5>3. m \in PassedOver(batch)
          BY <2>1, <3>4, <4>3, <5>1, <5>2 DEF PassedOver
        <5>4. QED BY <1>6, <5>3
      <4>4. QED BY <1>9, <3>1, <4>2, <4>3
    <3>5. QED BY <1>14, <3>3, <3>4
  <2>4. \A m \in Chat : Placed # {} /\ m < Newest' => m < Newest \/ m \in Accounted'
    <3> SUFFICES ASSUME Placed # {}, NEW m \in Chat, m < Newest', ~ m < Newest
                 PROVE  m \in Accounted'
      OBVIOUS
    <3>1. m = Newest \/ Newest < m
      BY <1>9
    <3>2. Newest \in Accounted'
      BY <1>0, <1>6 DEF RoomFacts, Accounted
    <3>3. QED BY <2>3, <3>1, <3>2
  <2>5. HolesWereOutrun'
    <3> SUFFICES ASSUME NEW m \in Chat, m \notin Placed', NEW a \in Placed', NEW b \in Placed',
                        a < m, m < b
                 PROVE  m \in Accounted'
      BY <1>1, <1>2 DEF HolesWereOutrun, Holes, Accounted
    <3>0. m \in Int /\ a \in Int /\ b \in Int /\ m < Newest'
      BY <1>9
    <3>1. CASE Placed # {}
      <4>1. CASE m < Newest
        <5>1. a \in Placed
          BY <1>6, <1>9, <2>2, <3>0, <4>1
        <5>2. QED BY <1>6, <1>c, <4>1, <5>1
      <4>2. QED BY <2>4, <3>0, <3>1, <4>1
    <3>2. CASE Placed = {}
      <4>1. batch.mode = "newest" /\ a \in N /\ b \in N
        BY <1>0, <1>6, <1>14, <3>2 DEF RoomFacts, BackfillInv, BatchInv, ForwardInv
      <4>2. /\ \A k \in Read : \A l \in Chat : batch.cursor <= l /\ l < k => l \in Read
            /\ \A k \in Read : batch.cursor <= k
        BY <4>1 DEF BackfillInv, BatchInv, NewestInv, DescendingInv
      <4>3. m \in Read
        BY <1>6, <1>9, <3>0, <4>1, <4>2
      <4>4. Newest < m
        BY <1>0, <3>0, <3>2 DEF RoomFacts
      <4>5. QED BY <1>6, <1>9, <2>2, <4>3, <4>4
    <3>3. QED BY <3>1, <3>2
  <2>6. RoomIsOrdered'
    <3>1. ASSUME NEW m \in ToSet(s), NEW r \in Rows PROVE r < m
      <4>1. m \in N /\ m \in Int /\ r \in Int /\ r <= Newest
        BY <1>6, <1>9 DEF N
      <4>2. QED BY <1>9, <2>2, <4>1
    <3>2. QED BY <1>11, <1>14, <3>1
  <2>7. CursorInv' /\ BackwardsReachesTheStart'
    <3>1. /\ UNCHANGED <<backCursor, backDone>>
          /\ Placed = {} => backCursor = 0 /\ ~ backDone
          /\ Placed' = {} => Placed = {}
      BY <1>4, <1>6, <1>14 DEF BackfillInv, RoomInv, CursorInv
    <3>2. /\ backCursor # 0 => \A m \in Chat : backCursor <= m /\ m < Newest => m \in Accounted
          /\ backDone => \A m \in Chat : m < Newest => m \in Accounted
      BY DEF BackfillInv, RoomInv, CursorInv, BackwardsReachesTheStart, Accounted
    <3>3. /\ backCursor # 0 => \A m \in Chat : backCursor <= m /\ m < Newest' => m \in Accounted'
          /\ backDone => \A m \in Chat : m < Newest' => m \in Accounted'
      BY <1>6, <2>4, <3>1, <3>2
    <3>4. QED BY <1>2, <3>1, <3>3 DEF CursorInv, BackwardsReachesTheStart, Accounted
  <2>8. QED BY <1>12, <2>5, <2>6, <2>7
<1>15. QED BY <1>1, <1>13, <1>14

-----------------------------------------------------------------------------
(* What is proved of every behaviour *)

\* The invariant behind the others: how far the batch under way is complete, and how
\* far back from the newest row everything is accounted for.
THEOREM BackfillInvariant == Spec => []BackfillInv
<1>1. BackfillInv /\ [Next]_vars => BackfillInv'
  <2> SUFFICES ASSUME BackfillInv, [Next]_vars PROVE BackfillInv'
    OBVIOUS
  <2>1. ASSUME NEW kind \in Kinds, Post(kind) \/ PostNameless(kind) PROVE BackfillInv'
    BY <2>1, PostStep, PostNamelessStep
  <2>2. ASSUME NEW m \in DOMAIN talk, Live(m) PROVE BackfillInv'
    BY <2>2, LiveStep
  <2>3. CASE GoDown
    BY <2>3, GoDownStep
  <2>4. CASE ComeUp \/ UNCHANGED vars
    BY <2>4, ComeUpStep
  <2>5. CASE Resync
    BY <2>5, ResyncStep
  <2>6. CASE FetchBackward
    BY <2>6, FetchBackwardStep
  <2>7. CASE ReadPage
    BY <2>7, ReadPageStep
  <2>8. CASE PageFails
    BY <2>8, PageFailsStep
  <2>9. CASE Deliver
    BY <2>9, DeliverStep
  <2>10. QED BY <2>1, <2>2, <2>3, <2>4, <2>5, <2>6, <2>7, <2>8, <2>9 DEF Next
<1>2. QED BY InitEstablishesIt, <1>1, PTL DEF Spec

\* Every variable has its type, and a forward batch is never larger than was asked for.
THEOREM TypeCorrect == Spec => []TypeOK
<1>1. BackfillInv => TypeOK
  BY DEF BackfillInv
<1>2. QED BY BackfillInvariant, <1>1, PTL

\* What is missing between two messages with a row was outrun by a live one, or passed
\* over by a catch-up that had no Talk ID to start from: no other batch, forward or
\* backward, cut short or not, leaves a hole.
THEOREM NoBatchLeavesHoles == Spec => []HolesWereOutrun
<1>1. BackfillInv => HolesWereOutrun
  BY DEF BackfillInv, RoomInv
<1>2. QED BY BackfillInvariant, <1>1, PTL

\* The room shows every message from Talk once, and in its order, unless it was outrun.
THEOREM OrderIsKept == Spec => []RoomIsOrdered
<1>1. BackfillInv => RoomIsOrdered
  BY DEF BackfillInv, RoomInv
<1>2. QED BY BackfillInvariant, <1>1, PTL

\* When the backwards queue is told that there is no more, nothing older is missing but
\* what was outrun or passed over.
THEOREM StartIsReached == Spec => []BackwardsReachesTheStart
<1>1. BackfillInv => BackwardsReachesTheStart
  BY DEF BackfillInv, RoomInv
<1>2. QED BY BackfillInvariant, <1>1, PTL
=============================================================================
