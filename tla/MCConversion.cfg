SPECIFICATION Spec
CONSTANTS
    Host = "here"
    Token = "room"
    Messages <- MCMessages
    Events <- MCEvents
    Actors <- MCActors
    Logins <- MCLogins
    TokenPrefixes = {"p", "q"}
    MentionKeys = {"m1", "m2"}
    Numbers = {"0", "1", "2"}
    MaxChatLength = 12
INVARIANT NothingDisappears
INVARIANT OnlyTypedMentionsPing
INVARIANT PillsLandWhereTyped
INVARIANT MentionComesBack
INVARIANT RelationIsRight
\* An exchange ends with the answer.
CHECK_DEADLOCK FALSE
