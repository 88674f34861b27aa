---------------------------- MODULE ProtocolList ----------------------------
(***************************************************************************)
(* What the ConnectionManager promises about its SinkProtocolInfo, with no *)
(* buffer in sight.  While the renderer starts, mime types are registered; *)
(* registering "audio/mpeg" also registers its alias "audio/x-mpeg".  Then *)
(* the list is published once, when the device comes up: a comma-        *)
(* separated string with one entry                                        *)
(* "http-get:*:<type>:*" for every registered type, each exactly once, in *)
(* some order; with no type registered the service's default list, which *)
(* names "audio/mpeg" alone, is served instead.  Or the                    *)
(* publication fails and the device does not come up.  Once published,    *)
(* every answer carries the published list as its Sink, or no Sink at     *)
(* all.                                                                    *)
(***************************************************************************)
EXTENDS Sequences, SequencesExt

CONSTANTS
    Chars,       \* Chars[m]: the characters of mime type m
    MPEG,        \* "audio/mpeg"
    XMPEG        \* its alias "audio/x-mpeg"

Types == DOMAIN Chars

VARIABLES
    registered,  \* the set of types registered so far
    state,       \* "open", "published" or "failed"
    info,        \* the published string, a sequence of characters
    served       \* the Sink values the last answer carried

vars == <<registered, state, info, served>>

\* the types a registration of m stands for
Aliases(m) == IF m = MPEG THEN {MPEG, XMPEG} ELSE {m}

\* one protocolInfo entry, and entries joined by commas
Entry(m) == <<"h", "t", "t", "p", "-", "g", "e", "t", ":", "*", ":">>
                \o Chars[m] \o <<":", "*">>
RECURSIVE Join(_)
Join(ts) ==
    IF Len(ts) <= 1
    THEN IF ts = <<>> THEN <<>> ELSE Entry(ts[1])
    ELSE Entry(Head(ts)) \o <<",">> \o Join(Tail(ts))

\* every string that lists the types of S once each; the default when S is
\* empty
Listings(S) == IF S = {} THEN {Entry(MPEG)} ELSE { Join(ts) : ts \in SetToSeqs(S) }

Init ==
    /\ registered = {}
    /\ state = "open"
    /\ info = <<>>
    /\ served = {}

Register(m) ==
    /\ state = "open"
    /\ registered' = registered \cup Aliases(m)
    /\ UNCHANGED <<state, info, served>>

Publish ==
    /\ state = "open"
    /\ state' = "published"
    /\ info' \in Listings(registered)
    /\ UNCHANGED <<registered, served>>

Fail ==
    /\ state = "open"
    /\ state' = "failed"
    /\ UNCHANGED <<registered, info, served>>

Answer ==
    /\ state = "published"
    /\ served' \in {{}, {info}}
    /\ UNCHANGED <<registered, state, info>>

Next == (\E m \in Types : Register(m)) \/ Publish \/ Fail \/ Answer

Spec == Init /\ [][Next]_vars

=============================================================================
