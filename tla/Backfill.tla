------------------------------ MODULE Backfill ------------------------------
(***************************************************************************)
(* How the history of one conversation gets into its room                  *)
(* (src/pkg/connector/backfill.go, sync.go and src/pkg/nctalk/history.go): *)
(* live webhooks while the bridge is up; after an outage, and to fill a new*)
(* room, a forward batch that a resync asks for; and batches further back. *)
(* A batch is read page by page, and the world goes on between two pages.  *)
(* Messages are their IDs, 1..Len(talk), a message of another conversation *)
(* being no message of this one.  Edits and deletions are MessageChanges'  *)
(* business; reactions and read markers of a batch are left out.           *)
(* bridgev2 reads a forward batch in the portal's event loop, where live   *)
(* messages and Matrix events wait for it, never two batches of a room at a*)
(* time.  Its newest and oldest row are those of the times Talk gives, and *)
(* of one second in Talk's order.  It cuts a batch off at the row the batch*)
(* starts from, looks for rows where it is asked to, and keeps the cursor. *)
(***************************************************************************)
EXTENDS Integers, Sequences, FiniteSets, SequencesExt

CONSTANTS
    Histories,    \* what the conversation may hold before it is bridged
    MaxPosts,     \* bound on the messages posted from then on
    Count,        \* messages bridgev2 asks for in one batch
    PageLimit,    \* MaxHistoryLimit
    MaxPages,     \* maxBackfillPages
    MaxTogether,  \* bound on the posts in the same second as the one before
    MaxNameless,  \* bound on the posts whose row has no Talk ID
    MaxIdle,      \* bound on the messages in a row that are not bridged
    MaxOutages    \* bound on the times the bridge goes down

\* A chat message is bridged; noise (system messages, deleted ones, bots) is
\* returned and dropped; what is hidden from the user moves the cursor only.
Kinds == {"chat", "noise", "hidden"}

ASSUME BackfillAssumption ==
    /\ Histories \subseteq Seq(Kinds)
    /\ {MaxPosts, MaxTogether, MaxNameless, MaxIdle, MaxOutages} \subseteq Nat
    /\ {Count, PageLimit, MaxPages} \subseteq Nat \ {0}

VARIABLES
    talk,        \* Talk: the kind of every message so far
    at,          \* the second each was posted in
    old,         \* how many of them are older than the portal
    webhooks,    \* messages whose webhook is under way
    up,          \* whether the bridge runs
    outages,     \* how often it went down
    room,        \* bridgev2: the messages that came from Talk, as the room shows them
    nameless,    \* bridgev2: messages from Matrix whose row has no Talk ID
    batch,       \* the batch being read
    backCursor,  \* bridgev2: the cursor of the backwards queue, 0 at first
    backDone,    \* bridgev2: whether the backwards queue is through
    outrun,      \* history: messages that a newer one was bridged before
    passed       \* history: messages that a catch-up without an anchor left out

world == <<talk, at, old, webhooks, up, outages>>
rows == <<room, nameless, outrun, passed>>
vars == <<world, rows, batch, backCursor, backDone>>

NoBatch == [mode |-> "none", anchor |-> 0, cursor |-> 0, got |-> <<>>, pages |-> 0,
            end |-> FALSE]

Init ==
    /\ talk \in Histories
    /\ at = [m \in DOMAIN talk |-> m]
    /\ old = Len(talk)
    /\ webhooks = {}
    /\ up = TRUE
    /\ outages = 0
    /\ room = <<>> /\ nameless = {}
    /\ batch = NoBatch
    /\ backCursor = 0
    /\ backDone = FALSE
    /\ outrun = {} /\ passed = {}

Rows == ToSet(room)
Placed == Rows \cup nameless
Chat == {m \in DOMAIN talk : talk[m] = "chat"}
Newest == IF Placed = {} THEN 0 ELSE CHOOSE m \in Placed : \A k \in Placed : k <= m
Oldest == IF Placed = {} THEN 0 ELSE CHOOSE m \in Placed : \A k \in Placed : m <= k

\* What lies between two messages with a row and has none.
Holes(S) == {m \in Chat \ S : \E a, b \in S : a < m /\ m < b}

-----------------------------------------------------------------------------
(* the world around *)

\* There are never MaxIdle messages in a row that are not bridged: if a whole
\* batch of them could follow the newest bridged one, catching up would ask for
\* the same batch for ever.
CanPost(kind) ==
    /\ Len(talk) < old + MaxPosts
    /\ kind # "chat" => \E m \in Chat : m > Len(talk) - MaxIdle

LastSecond == IF at = <<>> THEN 0 ELSE at[Len(at)]
Together == Cardinality({m \in DOMAIN at : m > 1 /\ at[m] = at[m - 1]})

\* A message is posted, in the second of the one before it or in the next; only a
\* chat message has a webhook that bridges one.
Posted(kind) ==
    /\ talk' = Append(talk, kind)
    /\ \/ at' = Append(at, LastSecond + 1)
       \/ Together < MaxTogether /\ at' = Append(at, LastSecond)
    /\ webhooks' = IF up /\ kind = "chat" THEN webhooks \cup {Len(talk) + 1} ELSE webhooks
    /\ UNCHANGED <<old, up, outages>>

Post(kind) ==
    /\ CanPost(kind) /\ Posted(kind)
    /\ UNCHANGED <<rows, batch, backCursor, backDone>>

\* A Matrix message is posted that gets a row without a Talk ID: a relayed one,
\* noise to the bridge, or a file whose message was not found.
PostNameless(kind) ==
    /\ up /\ batch.mode \in {"none", "backward"}
    /\ kind \in {"noise", "chat"} /\ CanPost(kind) /\ Posted(kind)
    /\ Cardinality(nameless) < MaxNameless
    /\ nameless' = nameless \cup {Len(talk) + 1}
    /\ outrun' = outrun \cup Holes(Placed \cup {Len(talk) + 1})
    /\ UNCHANGED <<room, passed, batch, backCursor, backDone>>

\* The bridge goes down: webhooks under way are lost, and so is the batch.
GoDown ==
    /\ up /\ outages < MaxOutages
    /\ up' = FALSE
    /\ outages' = outages + 1
    /\ webhooks' = {}
    /\ batch' = NoBatch
    /\ UNCHANGED <<talk, at, old, rows, backCursor, backDone>>

ComeUp ==
    /\ ~ up
    /\ up' = TRUE
    /\ UNCHANGED <<talk, at, old, webhooks, outages, rows, batch, backCursor, backDone>>

-----------------------------------------------------------------------------
(* live messages *)

\* A webhook reaches the portal's event loop, in any order: the message is
\* added at the end of the room if it has no row under its ID.
Live(m) ==
    /\ up /\ m \in webhooks
    /\ batch.mode \in {"none", "backward"}
    /\ webhooks' = webhooks \ {m}
    /\ IF m \in Rows THEN UNCHANGED <<room, outrun>>
       ELSE /\ room' = Append(room, m)
            /\ outrun' = outrun \cup Holes(Placed \cup {m})
                                \cup (IF m < Newest THEN {m} ELSE {})
    /\ UNCHANGED <<talk, at, old, up, outages, nameless, passed, batch, backCursor, backDone>>

-----------------------------------------------------------------------------
(* one page: GetHistory *)

Rank(S, m) == Cardinality({k \in S : k < m})
Lowest(S, n) == {m \in S : Rank(S, m) < n}
Highest(S, n) == {m \in S : Cardinality({k \in S : m < k}) < n}

\* The members of a set of numbers in order, without recursion.
Ascending(S) == [i \in 1..Cardinality(S) |-> CHOOSE m \in S : Rank(S, m) = i - 1]
Descending(S) == Reverse(Ascending(S))

\* What the server looks at: the next messages after the cursor, or those before
\* it, from the newest one if the cursor is 0.
Considered(mode, cursor, limit) ==
    IF mode = "forward" THEN Lowest({m \in DOMAIN talk : m > cursor}, limit)
    ELSE Highest({m \in DOMAIN talk : cursor = 0 \/ m < cursor}, limit)

Visible(S) == {m \in S : talk[m] # "hidden"}

\* The messages of a page, in the order of the answer, and its LastGiven.
Given(mode, S) == IF mode = "forward" THEN Ascending(Visible(S)) ELSE Descending(Visible(S))
LastGiven(mode, S) ==
    IF mode = "forward" THEN Highest(S, 1) ELSE Lowest(S, 1)

\* A 304 ends the reading.  The faulty variant takes a page without messages
\* for the end.
EndsWhenEmpty(S) == Visible(S) = {}
Ends(S) == S = {}

-----------------------------------------------------------------------------
(* FetchMessages *)

\* Forward reading goes on until the batch is full, backward reading until it
\* holds a message to bridge.
Remaining(b) == IF b.mode = "backward" THEN Count ELSE Count - Len(b.got)
Limit(b) == IF Remaining(b) < PageLimit THEN Remaining(b) ELSE PageLimit
Enough(b) == IF b.mode = "backward" THEN ToSet(b.got) \cap Chat # {} ELSE Len(b.got) >= Count
Reading(b) == b.mode # "none" /\ ~ b.end /\ ~ Enough(b) /\ b.pages < MaxPages

\* anchorMessageID: the Talk ID that the row of a message carries, if any.
AnchorID(m) == IF m \in Rows THEN m ELSE 0

\* fetchForward: after the newest message of the portal, or the newest ones of
\* the conversation if it has none or its row has no ID.  The faulty variant always
\* does the latter.
WithoutAnchor == [NoBatch EXCEPT !.mode = "newest", !.anchor = Newest]
ForwardBatch ==
    IF AnchorID(Newest) = 0 THEN [NoBatch EXCEPT !.mode = "newest", !.anchor = Newest]
    ELSE [NoBatch EXCEPT !.mode = "forward", !.anchor = Newest, !.cursor = AnchorID(Newest)]

\* A resync tells bridgev2 in which second the conversation was last active; it
\* asks for a batch if that is later than its newest row.
Resync ==
    /\ up /\ batch = NoBatch
    /\ talk # <<>>
    /\ Placed # {} => at[Newest] < LastSecond
    /\ batch' = ForwardBatch
    /\ UNCHANGED <<world, rows, backCursor, backDone>>

\* fetchBackward, from the cursor or else from the oldest message of the portal,
\* which has one when bridgev2 starts on this; from the newest one of the
\* conversation if its row has no ID.
BackwardStart == IF backCursor # 0 THEN backCursor ELSE AnchorID(Oldest)

FetchBackward ==
    /\ up /\ batch = NoBatch
    /\ Placed # {} /\ ~ backDone
    /\ batch' = [NoBatch EXCEPT !.mode = "backward", !.anchor = Oldest,
                                !.cursor = BackwardStart]
    /\ UNCHANGED <<world, rows, backCursor, backDone>>

ReadPage ==
    LET page == Considered(batch.mode, batch.cursor, Limit(batch))
    IN  /\ up /\ Reading(batch)
        /\ \/ Ends(page) /\ batch' = [batch EXCEPT !.end = TRUE]
           \/ /\ ~ Ends(page)
              /\ \E last \in LastGiven(batch.mode, page) :
                    batch' = [batch EXCEPT !.cursor = last, !.pages = @ + 1,
                                           !.got = @ \o Given(batch.mode, page)]
        /\ UNCHANGED <<world, rows, backCursor, backDone>>

\* A page fails: a forward batch is cut short there if it holds anything, and
\* given up otherwise; a backward one is given up, cursor and all.
PageFails ==
    /\ up /\ Reading(batch)
    /\ batch' = IF batch.mode # "backward" /\ batch.got # <<>>
                THEN [batch EXCEPT !.end = TRUE] ELSE NoBatch
    /\ UNCHANGED <<world, rows, backCursor, backDone>>

\* What bridgev2 sends of a batch: oldest first, without what the bridge does not
\* convert.  The faulty variant keeps the order of the answer.
AsGiven(b) == b.got
OldestFirst(b) == IF b.mode = "forward" THEN b.got ELSE Reverse(b.got)
Among(msgs, S) ==
    LET kept == Ascending({i \in DOMAIN msgs : msgs[i] \in S})
    IN  [j \in DOMAIN kept |-> msgs[kept[j]]]

\* Nothing beyond the row it started from, and, with AggressiveDeduplication, which
\* only fetchForward asks for, nothing that has a row by now.
Wanted(b) ==
    IF b.mode = "backward" THEN {m \in Chat \ {AnchorID(b.anchor)} : m <= b.anchor}
    ELSE {m \in Chat \ Rows : b.anchor <= m}
Sent(b) == Among(OldestFirst(b), Wanted(b))

\* What a batch whose anchor has no Talk ID did not reach, though it was asked for.
PassedOver(b) ==
    {m \in Chat \ Placed : /\ b.mode = "newest" /\ b.anchor \in nameless \ Rows
                           /\ Sent(b) # <<>>
                           /\ b.anchor < m /\ m < b.cursor}

\* HasMore is false only when Talk had nothing older.  The faulty variant stops
\* at the page limit as well.
NoMoreOnceCut(b) == b.end \/ ~ Enough(b)
NoMore(b) == b.end

\* A backward batch of which nothing is left is an error to bridgev2, which may or
\* may not have taken its cursor down by then.
NothingLeft(b) == ToSet(b.got) \cap Chat # {} /\ Sent(b) = <<>>

Deliver ==
    /\ up /\ batch.mode # "none" /\ ~ Reading(batch)
    /\ \/ /\ batch.mode = "backward"
          /\ room' = Sent(batch) \o room
          /\ \/ backCursor' = batch.cursor /\ backDone' = NoMore(batch)
             \/ NothingLeft(batch) /\ UNCHANGED <<backCursor, backDone>>
       \/ /\ batch.mode # "backward"
          /\ room' = room \o Sent(batch)
          /\ UNCHANGED <<backCursor, backDone>>
    /\ passed' = passed \cup PassedOver(batch)
    /\ batch' = NoBatch
    /\ UNCHANGED <<world, nameless, outrun>>

Next ==
    \/ \E kind \in Kinds : Post(kind) \/ PostNameless(kind)
    \/ GoDown \/ ComeUp
    \/ \E m \in DOMAIN talk : Live(m)
    \/ Resync \/ FetchBackward \/ ReadPage \/ PageFails \/ Deliver

Spec == Init /\ [][Next]_vars

\* The bridge comes back; workers go on; the resync is repeated for ever and gets
\* its turn at the lock of the portal; and no page of a forward batch, the first
\* or a later one, fails each time.  The backwards queue may never run.
ReadForward(n) == batch.mode # "backward" /\ batch.pages = n /\ ReadPage

Fairness ==
    /\ WF_vars(ComeUp)
    /\ WF_vars(\E m \in DOMAIN talk : Live(m))
    /\ SF_vars(Resync)
    /\ \A n \in 0..(MaxPages - 1) : SF_vars(ReadForward(n))
    /\ WF_vars(ReadPage \/ PageFails)
    /\ WF_vars(Deliver)

FairSpec == Spec /\ Fairness

-----------------------------------------------------------------------------
\* Every variable has its type; a forward batch holds no more than was asked for.
TypeOK ==
    /\ talk \in Seq(Kinds) /\ old \in 0..Len(talk)
    /\ at \in Seq(Nat) /\ Len(at) = Len(talk)
    /\ webhooks \subseteq Chat
    /\ up \in BOOLEAN
    /\ outages \in 0..MaxOutages
    /\ room \in Seq(Chat) /\ nameless \subseteq DOMAIN talk
    /\ batch \in [mode : {"none", "newest", "forward", "backward"},
                  anchor : 0..Len(talk), cursor : 0..Len(talk), got : Seq(DOMAIN talk),
                  pages : 0..MaxPages, end : BOOLEAN]
    /\ batch.mode # "backward" => Len(batch.got) <= Count
    /\ backCursor \in 0..Len(talk)
    /\ backDone \in BOOLEAN
    /\ outrun \subseteq Chat /\ passed \subseteq Chat

\* Backfill leaves no hole in the room but one: what is missing between two
\* messages with a row was outrun by a live one, or lies between a newest row without
\* a Talk ID and the newest Count messages that catching up from it reads
\* (backfill.go:232-234).  Failed pages, messages the server withholds, posts
\* between two pages and an outage in the middle of a batch change nothing about
\* that, in either direction.
HolesWereOutrun == Holes(Placed) \subseteq outrun \cup passed

\* Apart from messages that were outrun, the room shows every message from Talk once
\* and in the order of Talk, whichever of live delivery, catching up and the
\* backwards queue brought it.
RoomIsOrdered ==
    \A i, j \in DOMAIN room :
        i < j /\ room[i] \notin outrun /\ room[j] \notin outrun => room[i] < room[j]

\* Once the backwards queue is through, nothing older than the newest row is
\* missing except what was outrun or passed over: it is never told that history
\* ends before it does.
BackwardsReachesTheStart ==
    backDone => \A m \in Chat : m < Newest => m \in Placed \cup outrun \cup passed

\* backfill_test.go:371 and 407, README.md:238: the room gets as far as the
\* conversation again and again, to the second, by live delivery or by catching up,
\* although webhooks are lost, pages fail and the server withholds messages.
CaughtUp == \A m \in Chat : m > old => Placed # {} /\ at[m] <= at[Newest]
NewestIsReached == []<>CaughtUp

-----------------------------------------------------------------------------
\* README.md:129 "a bridge that has been down catches up on what it missed": in
\* the end nothing is missing that is newer than a bridged message.
MissedIsRecovered == <>[](\A m \in Chat : Placed # {} /\ Oldest < m => m \in Placed)
=============================================================================
