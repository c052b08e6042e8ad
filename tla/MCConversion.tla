---------------------------- MODULE MCConversion ----------------------------
(* Messages of up to three pieces over five maps of rich objects, and      *)
(* events with one or two pills in every relation to the conversation.     *)
EXTENDS Conversion

Actor(host, type, id) == [host |-> host, type |-> type, id |-> id]

MCActors ==
    {Actor("here", "users", <<"ann">>), Actor("here", "users", <<"bob">>),
     Actor("here", "users", <<"ann", Sep, "bob">>),
     Actor("here", "users", <<"ann", Quote, "bob">>),
     Actor("here", "guests", <<"ann">>), Actor("here", "guests", <<"cli">>),
     Actor("here", "emails", <<"ann">>), Actor("here", "bots", <<"ann">>),
     Actor("here", "federated_users", <<"eve">>), Actor("there", "users", <<"ann">>)}

MCLogins == {<<"bob">>}

Param(type, id, name) == [type |-> type, id |-> id, name |-> name]

MCParams ==
    {<<>>,
     <<"m1">> :> Param("user", <<"ann">>, <<"Ann">>)
        @@ <<"m2">> :> Param("user", <<"bob">>, <<>>)
        @@ <<"actor">> :> Param("user", <<"bob">>, <<"Bob">>),
     <<"m1">> :> Param("guest", <<"guest/", "ann">>, <<"p", "z">>)
        @@ <<"m2">> :> Param("call", <<"room">>, <<"Everyone">>)
        @@ <<"actor">> :> Param("user", <<"ann">>, <<"Ann">>),
     <<"m1">> :> Param("user", <<"ann", Sep, "bob">>, <<"x">>)
        @@ <<"m2">> :> Param("federated-user", <<"eve">>, <<"Eve">>)
        @@ <<"actor">> :> Param("deck-card", <<"7">>, <<>>),
     <<"file">> :> Param("file", <<"9">>, <<"note">>)
        @@ <<"m1">> :> Param("user", <<"ann">>, <<"Ann">>)}

MCPieces ==
    {Literal(w) : w \in {<<"hello">>, <<"{">>, <<"}">>, <<Blank>>, <<"p", "x", "z">>}}
        \union {Placeholder(<<k>>) : k \in {"m1", "m2", "actor", "file"}}

MCMessages ==
    {[typed |-> typed, params |-> params, system |-> kind = "system",
      markdown |-> kind = "markdown", replyTo |-> IF kind = "plain" THEN "2" ELSE "0"] :
        typed \in BoundedSeq(MCPieces, 3), params \in MCParams,
        kind \in {"plain", "markdown", "system"}}

\* The message IDs an event can point at.
MCTargets ==
    {None, MakeMessageID("here", "room", "1"), MakeMessageID("here", "room", "2"),
     MakeMessageID("here", "other", "1"), MakeMessageID("there", "room", "1"),
     MakeMessageID("here", "room", "ref:e")}

MCPills == {Ghost(MakeUserID(a.host, a.type, a.id)) : a \in MCActors} \union {Real(<<"bob">>)}

MCEvents ==
    {[body |-> <<"hello">>, formatted |-> <<>>, emote |-> emote,
      replyTo |-> reply, thread |-> thread] :
        emote \in BOOLEAN, reply \in MCTargets, thread \in MCTargets}
    \union
    {[body |-> <<"hello">>, formatted |-> PillHTML(one, <<"One">>) \o Words(<<"and">>)
                                          \o PillHTML(two, <<"Two">>),
      emote |-> emote, replyTo |-> None, thread |-> None] :
        emote \in BOOLEAN, one \in MCPills, two \in MCPills}
    \union
    {[body |-> <<Blank>>, formatted |-> <<>>, emote |-> TRUE, replyTo |-> None, thread |-> None]}
=============================================================================
