----------------------------- MODULE Conversion -----------------------------
(***************************************************************************)
(* Message conversion: msgconv_from_talk.go, mentions.go,                  *)
(* msgconv_to_talk.go, and the network IDs of ids.go they rest on.         *)
(*                                                                         *)
(* An exchange starts on either side.  FromTalk turns a Talk message into  *)
(* a Matrix event: placeholders are replaced by the rich objects they      *)
(* name, and the mentions among them become pills.  ToTalk turns a Matrix  *)
(* event, one newly written or one that repeats what was just shown, into  *)
(* the text and the relation the Talk API is called with.                  *)
(*                                                                         *)
(* A text is a sequence of words; "{", "}", "|", "@", the quote and the    *)
(* blank are words of their own, every other word stands for itself.  An   *)
(* ID is a sequence of words too, since a Nextcloud user ID may hold the   *)
(* separator.  A formatted body is a sequence of words and of the links    *)
(* around them; escaping and markdown's own markup are left out.           *)
(***************************************************************************)
EXTENDS Naturals, Sequences, SequencesExt

CONSTANTS
    Host,           \* the Nextcloud server of this login
    Token,          \* the conversation the exchange takes place in
    Messages,       \* the Talk messages that may arrive
    Events,         \* the events Matrix users may write
    Actors,         \* the Talk actors the events and messages name
    Logins,         \* the Nextcloud user IDs with a login on this bridge
    TokenPrefixes,       \* the outcomes of crypto/rand for a mention token's prefix
    MentionKeys,    \* the words that start with mentionParamPrefix
    Numbers,        \* the words strconv.ParseInt takes, 0 is "0"
    MaxChatLength   \* Talk's limit on a message

Blank == " "
Quote == "\""
Sep   == "|"
None  == <<>>

Nobody  == [kind |-> "nobody", of |-> <<>>]
Ghost(userID)   == [kind |-> "ghost", of |-> userID]
Real(ncUserID)  == [kind |-> "real",  of |-> ncUserID]

(***************************************************************************)
(* A Talk message is typed as pieces, literal words and keys of rich       *)
(* objects; what the bridge is given is only the text they join up to.     *)
(***************************************************************************)
Literal(words)   == [key |-> None, words |-> words]
Placeholder(key) == [key |-> key, words |-> <<"{">> \o key \o <<"}">>]
TextOf(msg) == FlattenSeq([i \in DOMAIN msg.typed |-> msg.typed[i].words])

ASSUME ConstantsAssumption ==
    /\ MaxChatLength \in Nat
    /\ "0" \in Numbers
    /\ \A n \in Numbers \union MentionKeys \union TokenPrefixes :
          n \notin {"{", "}", Sep, Quote, Blank, "@", "x", "z"}

-----------------------------------------------------------------------------
(* ids.go *)

\* strings.SplitN(s, "|", n): at most n fields, the last one keeps the rest.
SplitN(s, n) ==
    LET from[i \in 1 .. Len(s) + 1, k \in 1 .. n] ==
          LET sep == SelectInSubSeq(s, i, Len(s), LAMBDA c : c = Sep)
          IN  IF k = 1 \/ sep = 0 THEN <<SubSeq(s, i, Len(s))>>
              ELSE <<SubSeq(s, i, sep - 1)>> \o from[sep + 1, k - 1]
    IN  from[1, n]

MakeUserID(host, actorType, actorID) == <<host, Sep, actorType, Sep>> \o actorID

\* The ID's three fields, or none for a malformed one.
ParseUserID(userID) ==
    LET parts == SplitN(userID, 3)
    IN  {p \in {parts} : Len(p) = 3 /\ \A i \in 1 .. 3 : p[i] # <<>>}

MakeMessageID(host, token, number) == <<host, Sep, token, Sep, number>>

\* A relayed message's reference is no number: it has no Talk message ID.
ParseMessageID(messageID) ==
    LET parts == SplitN(messageID, 3)
    IN  {p \in {parts} : Len(p) = 3 /\ Len(p[3]) = 1 /\ p[3][1] \in Numbers}

-----------------------------------------------------------------------------
(* From Talk: renderTalkMessage and segmentTalkMessage walk the text       *)
(* the same way, each in its own loop.                                     *)

\* strings.IndexByte from i on; the faulty variant starts one word late.
OpenFromNext(text, i) == SelectInSubSeq(text, i + 1, Len(text), LAMBDA c : c = "{")

OpenFrom(text, i)  == SelectInSubSeq(text, i, Len(text), LAMBDA c : c = "{")
CloseFrom(text, i) == SelectInSubSeq(text, i, Len(text), LAMBDA c : c = "}")

OrElse(words, default) == IF words # <<>> THEN words ELSE default

RenderParam(p) ==
    CASE p.type = "omitted" -> <<>>
      [] p.type = "file"    -> OrElse(p.name, <<"file">>)
      [] p.type = "geo-location" -> OrElse(p.name, <<"location">>)
      [] OTHER -> OrElse(p.name, p.id)

RenderTalkMessage(text, params) ==
    LET from[i \in 1 .. Len(text) + 1] ==
          LET open  == OpenFrom(text, i)
              close == CloseFrom(text, open)
              key   == SubSeq(text, open + 1, close - 1)
          IN  IF open = 0 \/ close = 0 THEN SubSeq(text, i, Len(text))
              ELSE SubSeq(text, i, open - 1)
                   \o (IF key \in DOMAIN params THEN RenderParam(params[key])
                       ELSE SubSeq(text, open, close))
                   \o from[close + 1]
    IN  IF DOMAIN params = {} THEN text ELSE from[1]

\* The person behind a login is pinged, anybody else through their ghost.
MentionMXID(p) ==
    CASE p.id = <<>> -> Nobody
      [] p.type = "user" /\ p.id \in Logins -> Real(p.id)
      [] p.type = "user" -> Ghost(MakeUserID(Host, "users", p.id))
      [] p.type = "guest" /\ Head(p.id) = "guest/" /\ Tail(p.id) # <<>> ->
            Ghost(MakeUserID(Host, "guests", Tail(p.id)))
      [] OTHER -> Nobody

IsMentionKey(key) == key # <<>> /\ Head(key) \in MentionKeys

Segment(words) == [text |-> words, mention |-> Nobody, room |-> FALSE]

\* The piece a placeholder the parameters know becomes; the faulty variant
\* takes every user a chat message names for a mention.
SegmentOfAny(key, p, system) ==
    CASE system -> Segment(RenderParam(p))
      [] p.type = "call" -> [Segment(RenderParam(p)) EXCEPT !.room = TRUE]
      [] OTHER -> [Segment(RenderParam(p)) EXCEPT !.mention = MentionMXID(p)]

SegmentOf(key, p, system) ==
    CASE system \/ ~IsMentionKey(key) -> Segment(RenderParam(p))
      [] p.type = "call" -> [Segment(RenderParam(p)) EXCEPT !.room = TRUE]
      [] OTHER -> [Segment(RenderParam(p)) EXCEPT !.mention = MentionMXID(p)]

SegmentTalkMessage(text, params, system) ==
    LET from[i \in 1 .. Len(text) + 1] ==
          LET open  == OpenFrom(text, i)
              close == CloseFrom(text, open)
              key   == SubSeq(text, open + 1, close - 1)
          IN  IF i > Len(text) THEN <<>>
              ELSE IF open = 0 \/ close = 0
                   THEN <<Segment(SubSeq(text, i, Len(text)))>>
              ELSE <<Segment(SubSeq(text, i, open - 1)),
                     IF key \in DOMAIN params
                     THEN SegmentOf(key, params[key], system)
                     ELSE Segment(SubSeq(text, open, close))>>
                   \o from[close + 1]
    IN  from[1]

Pinged(segments) == {s.mention : s \in ToSet(segments)} \ {Nobody}
PingsRoom(segments) == \E s \in ToSet(segments) : s.room
HasMentions(segments) == Pinged(segments) # {} \/ PingsRoom(segments)
Joined(segments) == FlattenSeq([k \in DOMAIN segments |-> segments[k].text])

-----------------------------------------------------------------------------
(* Formatted bodies *)

Words(words) == [i \in DOMAIN words |-> [word |-> words[i]]]
PillHTML(mxid, name) == <<[open |-> mxid]>> \o Words(name) \o <<[close |-> mxid]>>

\* renderTalkContent, for a message that is not markdown
FormatPlain(segments) ==
    FlattenSeq([k \in DOMAIN segments |->
        IF segments[k].mention = Nobody THEN Words(segments[k].text)
        ELSE PillHTML(segments[k].mention, segments[k].text)])

\* strings.ReplaceAll
ReplaceEvery(html, old, new) ==
    LET from[i \in 1 .. Len(html) + Len(old)] ==
          IF i > Len(html) THEN <<>>
          ELSE IF IsPrefix(old, SubSeq(html, i, Len(html)))
               THEN new \o from[i + Len(old)]
          ELSE <<html[i]>> \o from[i + 1]
    IN  from[1]

\* The faulty variant leaves the closing z out: one token begins another.
MentionTokenOpen(prefix, i) == <<prefix>> \o [j \in 1 .. i |-> "x"]

MentionToken(prefix, i) == <<prefix>> \o [j \in 1 .. i |-> "x"] \o <<"z">>

\* What mentionTokenPrefix may return.
MentionTokenPrefixes(text) == {p \in TokenPrefixes : ~Contains(text, p)}

\* The shared renderer, for text without markup: it passes words through,
\* and would show a pill's HTML instead of the pill.
RenderMarkdown(source) == Words(source)

RenderMarkdownWithPills(segments, prefix) ==
    LET pills  == SelectSeq(segments, LAMBDA s : s.mention # Nobody)
        before(k) == Len(SelectSeq(SubSeq(segments, 1, k - 1),
                                   LAMBDA s : s.mention # Nobody))
        source == FlattenSeq([k \in DOMAIN segments |->
                    IF segments[k].mention = Nobody THEN segments[k].text
                    ELSE MentionToken(prefix, before(k))])
        swapped[i \in 0 .. Len(pills)] ==
          IF i = 0 THEN RenderMarkdown(source)
          ELSE ReplaceEvery(swapped[i - 1], Words(MentionToken(prefix, i - 1)),
                            PillHTML(pills[i].mention, pills[i].text))
    IN  swapped[Len(pills)]

\* The words a reader of the HTML sees (format.HTMLToContent).
Seen(html) ==
    LET shown == SelectSeq(html, LAMBDA item : "word" \in DOMAIN item)
    IN  [i \in DOMAIN shown |-> shown[i].word]

-----------------------------------------------------------------------------
(* convertMessage *)

TrimSpace(text) ==
    LET solid == {i \in DOMAIN text : text[i] # Blank}
        first == CHOOSE i \in solid : \A j \in solid : i <= j
        last  == CHOOSE i \in solid : \A j \in solid : j <= i
    IN  IF solid = {} THEN <<>> ELSE SubSeq(text, first, last)

FileParamKeys(params) == {key \in DOMAIN params : params[key].type = "file"}

OmitParam(params, key) == [params EXCEPT ![key].type = "omitted"]

Event(kind, body, formatted, mentions, room, msg) ==
    [kind |-> kind, body |-> body, formatted |-> formatted,
     mentions |-> mentions, room |-> room,
     replyTo |-> IF msg.replyTo = "0" THEN None
                 ELSE MakeMessageID(Host, Token, msg.replyTo)]

\* The media event, should the file it shares be moved.
FileEvents(msg) ==
    {Event("media", TrimSpace(RenderTalkMessage(TextOf(msg), OmitParam(msg.params, key))),
           <<>>, {}, FALSE, msg) :
        key \in {k \in FileParamKeys(msg.params) : ~msg.system}}

TextEvents(msg) ==
    LET plain    == RenderTalkMessage(TextOf(msg), msg.params)
        segments == SegmentTalkMessage(TextOf(msg), msg.params, msg.system)
        kind     == IF msg.system THEN "notice" ELSE "text"
        written(body, formatted) ==
            Event(kind, body, formatted, Pinged(segments), PingsRoom(segments), msg)
    IN  CASE TrimSpace(plain) = <<>> -> {Event("error", <<>>, <<>>, {}, FALSE, msg)}
          [] TrimSpace(plain) # <<>> /\ HasMentions(segments) /\ msg.markdown ->
                {LET html == RenderMarkdownWithPills(segments, prefix)
                 IN  written(Seen(html), html) :
                    prefix \in MentionTokenPrefixes(Joined(segments))}
          [] TrimSpace(plain) # <<>> /\ HasMentions(segments) /\ ~msg.markdown ->
                {written(Joined(segments),
                         IF Pinged(segments) = {} THEN <<>> ELSE FormatPlain(segments))}
          [] OTHER ->
                {written(plain, IF msg.markdown THEN RenderMarkdown(plain) ELSE <<>>)}

-----------------------------------------------------------------------------
(* To Talk *)

IsSystemActor(actorType, actorID) ==
    /\ actorType \in {"guests", "emails"}
    /\ actorID \in {<<"cli">>, <<"system">>, <<"changelog">>, <<"sample">>}

MentionForm ==
    [users |-> <<>>, guests |-> <<"guest/">>, emails |-> <<"email/">>,
     federated_users |-> <<"federated_user/">>]

\* The actors of this server a pill may mention, as parsed IDs; the faulty
\* variant takes an ID that holds the quote a mention ends with.
MentionableQuoted(mxid) ==
    {p \in IF mxid.kind = "ghost" THEN ParseUserID(mxid.of) ELSE {} :
        /\ p[1] = <<Host>>
        /\ ~IsSystemActor(p[2][1], p[3])
        /\ p[2][1] \in DOMAIN MentionForm}

Mentionable(mxid) ==
    {p \in IF mxid.kind = "ghost" THEN ParseUserID(mxid.of) ELSE {} :
        /\ p[1] = <<Host>>
        /\ ~IsSystemActor(p[2][1], p[3])
        /\ ~Contains(p[3], Quote)
        /\ p[2][1] \in DOMAIN MentionForm}

\* Anybody who cannot be mentioned keeps the pill's display name.
TalkPill(mxid, name) ==
    IF Mentionable(mxid) = {} THEN name
    ELSE LET p == CHOOSE p \in Mentionable(mxid) : TRUE
         IN  <<"@", Quote>> \o MentionForm[p[2][1]] \o p[3] \o <<Quote>>

\* The shared HTML parser with the bridge's pill converter.
ParseHTML(html) ==
    LET from[i \in 1 .. Len(html) + 1] ==
          IF i > Len(html) THEN <<>>
          ELSE IF "open" \notin DOMAIN html[i] THEN <<html[i].word>> \o from[i + 1]
          ELSE LET end == SelectInSubSeq(html, i, Len(html),
                                         LAMBDA item : "close" \in DOMAIN item)
               IN  TalkPill(html[i].open, Seen(SubSeq(html, i, end))) \o from[end + 1]
    IN  from[1]

RenderOutgoingText(event) ==
    LET text == TrimSpace(IF event.formatted # <<>> THEN ParseHTML(event.formatted)
                          ELSE event.body)
    IN  IF event.emote /\ text # <<>> THEN <<"*">> \o text \o <<"*">> ELSE text

\* The number of the message pointed at, when it is one of this conversation;
\* the faulty variant does not compare the conversation.
TalkTargetAnywhere(target) ==
    LET here == {p \in ParseMessageID(target) : p[1] = <<Host>>}
    IN  IF here = {} THEN "0" ELSE (CHOOSE p \in here : TRUE)[3][1]

TalkTargetID(target) ==
    LET here == {p \in ParseMessageID(target) : p[1] = <<Host>> /\ p[2] = <<Token>>}
    IN  IF here = {} THEN "0" ELSE (CHOOSE p \in here : TRUE)[3][1]

Refused == [text |-> <<>>, replyTo |-> "0", threadID |-> "0"]

ConvertToTalk(event) ==
    LET text  == RenderOutgoingText(event)
        reply == TalkTargetID(event.replyTo)
    IN  IF text = <<>> \/ Len(text) > MaxChatLength THEN Refused
        ELSE [text |-> text, replyTo |-> reply,
              threadID |-> IF reply = "0" THEN TalkTargetID(event.thread) ELSE "0"]

-----------------------------------------------------------------------------
VARIABLES
    talk,     \* the Talk message that arrived, {} or a singleton
    matrix,   \* the Matrix event shown for it, {} or a singleton
    written,  \* the event a Matrix user sent, {} or a singleton
    sent      \* the call made to Talk for it, {} or a singleton

vars == <<talk, matrix, written, sent>>

Init == talk = {} /\ matrix = {} /\ written = {} /\ sent = {}

\* convertMessage: a file that cannot be moved leaves its name as text.
FromTalk(msg) ==
    /\ talk = {} /\ written = {}
    /\ talk' = {msg}
    /\ \E event \in FileEvents(msg) \union TextEvents(msg) : matrix' = {event}
    /\ UNCHANGED <<written, sent>>

ToTalk(event) ==
    /\ written = {}
    /\ written' = {event}
    /\ sent' = {ConvertToTalk(event)}
    /\ UNCHANGED <<talk, matrix>>

\* Somebody sends what was shown once more, in answer to what it answered.
Repeat ==
    \E shown \in matrix :
        /\ shown.kind \in {"text", "notice"}
        /\ ToTalk([body |-> shown.body, formatted |-> shown.formatted, emote |-> FALSE,
                   replyTo |-> shown.replyTo, thread |-> None])

Next ==
    \/ \E msg \in Messages : FromTalk(msg)
    \/ \E event \in Events : talk = {} /\ ToTalk(event)
    \/ Repeat

Spec == Init /\ [][Next]_vars

-----------------------------------------------------------------------------
(* Properties.  They are stated over the pieces a message was typed as,    *)
(* which the conversion never sees.                                        *)

\* A brace of its own: what follows it, up to the next "}", is no placeholder.
HasStrayBrace(msg) ==
    \E piece \in ToSet(msg.typed) : piece.key = None /\ Contains(piece.words, "{")

Pieces(msg, Show(_)) == FlattenSeq([i \in DOMAIN msg.typed |-> Show(msg.typed[i])])

AsTyped(msg, params) ==
    Pieces(msg, LAMBDA piece : IF piece.key \in DOMAIN params
                               THEN RenderParam(params[piece.key]) ELSE piece.words)

\* Every key as its own name: nothing is replaced by anything else.
Itself(params) ==
    [key \in DOMAIN params |-> [params[key] EXCEPT !.name = Placeholder(key).words]]

\* Whatever the route, as text, as a notice, through the markdown renderer with
\* or without pills, or as a file's caption, the event shows every word that was
\* typed and every rich object that is no moved file, in order and once; a
\* brace that opens nothing never takes words with it.
\* renderTalkMessage: "so nothing silently disappears from a message".
NothingDisappears ==
    \A msg \in talk, event \in matrix :
        /\ RenderTalkMessage(TextOf(msg), Itself(msg.params)) = TextOf(msg)
        /\ event.kind \in {"text", "notice"} =>
              /\ event.body = RenderTalkMessage(TextOf(msg), msg.params)
              /\ ~HasStrayBrace(msg) => event.body = AsTyped(msg, msg.params)
        /\ event.kind = "media" /\ ~HasStrayBrace(msg) =>
              \E key \in FileParamKeys(msg.params) :
                  event.body = TrimSpace(AsTyped(msg, OmitParam(msg.params, key)))
        /\ event.kind = "error" => TrimSpace(AsTyped(msg, msg.params)) = <<>>

TypedMentions(msg) ==
    {msg.params[key] : key \in {piece.key : piece \in ToSet(msg.typed)}
                               \intersect {k \in DOMAIN msg.params : IsMentionKey(k)}}

\* An event notifies exactly the people mentioned by hand in a chat message, and
\* the room exactly for @all; the actors and users a system message names are
\* never notified (mentions.go:39-41).
OnlyTypedMentionsPing ==
    \A msg \in talk, event \in matrix :
        LET people == {MentionMXID(p) : p \in {q \in TypedMentions(msg) : q.type # "call"}}
                      \ {Nobody}
            all    == \E p \in TypedMentions(msg) : p.type = "call"
        IN  /\ msg.system => event.mentions = {} /\ ~event.room
            /\ event.mentions \subseteq people
            /\ event.room => all
            /\ event.kind = "text" /\ ~HasStrayBrace(msg) =>
                  event.mentions = people /\ event.room = all

HTMLAsTyped(msg) ==
    Pieces(msg, LAMBDA piece :
        CASE piece.key \notin DOMAIN msg.params -> Words(piece.words)
          [] piece.key \in DOMAIN msg.params /\ IsMentionKey(piece.key)
                /\ msg.params[piece.key].type # "call"
                /\ MentionMXID(msg.params[piece.key]) # Nobody ->
                PillHTML(MentionMXID(msg.params[piece.key]),
                         RenderParam(msg.params[piece.key]))
          [] OTHER -> Words(RenderParam(msg.params[piece.key])))

\* Whenever somebody is notified the formatted body carries their pill, where
\* the mention was typed and under its name, and nothing else in it has become
\* one: the tokens that stand for pills while markdown is rendered are not
\* mistaken for each other nor for anything in the text or in a name.
PillsLandWhereTyped ==
    \A msg \in talk, event \in matrix :
        event.mentions # {} =>
            /\ Seen(event.formatted) = event.body
            /\ ~HasStrayBrace(msg) => event.formatted = HTMLAsTyped(msg)

Pilled(html) == {html[i].open : i \in {j \in DOMAIN html : "open" \in DOMAIN html[j]}}
GhostOf(actor) == Ghost(MakeUserID(actor.host, actor.type, actor.id))

\* The mentions Talk's server finds in a text: each ends at the next quote.
TalkReads(text) ==
    {SubSeq(text, i + 2, SelectInSubSeq(text, i + 2, Len(text), LAMBDA c : c = Quote) - 1) :
        i \in {j \in 1 .. Len(text) - 1 : text[j] = "@" /\ text[j + 1] = Quote}}

IsPerson(actor) ==
    /\ actor.type \in DOMAIN MentionForm
    /\ ~IsSystemActor(actor.type, actor.id)
    /\ ~Contains(actor.id, Quote)

\* The rich object Talk makes of a user's or a guest's mention.
ParamOf(actor) ==
    [type |-> IF actor.type = "users" THEN "user" ELSE "guest",
     id |-> MentionForm[actor.type] \o actor.id, name |-> <<>>]

\* A pill of a person on this server reaches Talk as a mention of that person,
\* whatever their ID is made of, nobody else is mentioned, and the mention Talk
\* makes of it would come back as the same pill, or as the person's own Matrix
\* user where they are logged in.
MentionComesBack ==
    \A event \in written, call \in sent :
        LET pilled == {a \in Actors : GhostOf(a) \in Pilled(event.formatted)}
        IN  /\ \A a \in {b \in pilled : b.host = Host /\ IsPerson(b)} :
                  /\ call # Refused => MentionForm[a.type] \o a.id \in TalkReads(call.text)
                  /\ a.type \in {"users", "guests"} =>
                        MentionMXID(ParamOf(a)) \in {GhostOf(a), Real(a.id)}
            /\ \A mention \in TalkReads(call.text) :
                  \E a \in pilled : /\ a.host = Host /\ IsPerson(a)
                                    /\ mention = MentionForm[a.type] \o a.id

\* Talk is told to attach a message to the one message the Matrix user pointed
\* at, never to the message of the same number in another conversation or on
\* another server, never to two, and a target in this conversation is only given
\* up for a reply that has one too (msgconv_to_talk.go:111-116).  Repeated, a
\* bridged answer answers the Talk message the original did.
RelationIsRight ==
    \A event \in written, call \in sent :
        LET IsAt(target, number) == number # "0" /\ target = MakeMessageID(Host, Token, number)
        IN  /\ call.replyTo = "0" \/ call.threadID = "0"
            /\ call.replyTo # "0" => IsAt(event.replyTo, call.replyTo)
            /\ call.threadID # "0" => IsAt(event.thread, call.threadID)
            /\ call # Refused =>
                  \A number \in Numbers :
                      /\ IsAt(event.replyTo, number) => call.replyTo = number
                      /\ IsAt(event.thread, number) /\ call.replyTo = "0" =>
                            call.threadID = number
                      /\ \A msg \in talk : call.replyTo = msg.replyTo
=============================================================================
