------------------------------ MODULE ConnMgr ------------------------------
(***************************************************************************)
(* The ConnectionManager's protocol list (src/src/upnp_connmgr.c).         *)
(* output_mpd_init calls register_mime_type for every type of its table;   *)
(* the registry is a linked list that new types are pushed onto, without   *)
(* duplicates, and "audio/mpeg" brings the alias "audio/x-mpeg".  When     *)
(* the device starts, connmgr_init walks the list and builds the           *)
(* SinkProtocolInfo string "http-get:*:<type>:*,..." in one heap buffer    *)
(* that it grows with realloc per entry, then turns the last ',' into the  *)
(* terminating NUL.                                                        *)
(*                                                                         *)
(* The buffer is modelled byte by byte: a byte is a one-character string,  *)
(* a mime type is given by its characters, and writes outside the buffer   *)
(* are recorded rather than performed.                                     *)
(*                                                                         *)
(* Once upnp_device_init has brought the device up, libupnp hands every    *)
(* SOAP request of the service to handle_action_request, which runs its    *)
(* handler.  connmgr_values never change after connmgr_init, so requests   *)
(* are served one at a time: what a handler answers depends on the table   *)
(* and on which UpnpAddToActionResponse calls fail (they allocate).        *)
(***************************************************************************)
EXTENDS Integers, Sequences, SequencesExt

CONSTANTS
    Chars,       \* Chars[m]: the characters of mime type m
    Calls,       \* the argument sequences of register_mime_type to check
    MPEG,        \* "audio/mpeg"
    XMPEG,       \* "audio/x-mpeg", registered along with it
    Actions,     \* the action names requests carry
    AddOutcomes  \* {TRUE}, or {TRUE, FALSE} when UpnpAddToActionResponse may fail

Types == DOMAIN Chars

ASSUME MPEG \in Types /\ XMPEG \in Types
ASSUME Calls \subseteq Seq(Types)
ASSUME AddOutcomes \subseteq BOOLEAN /\ TRUE \in AddOutcomes

VARIABLES
    pending,     \* register_mime_type calls still to come
    called,      \* the calls made so far, in order (a ghost)
    supported,   \* supported_types, the head of the list first
    phase,       \* "register", "init", "done" or "failed" (connmgr_init -1)
    entry,       \* connmgr_init's loop cursor: an index into supported
    bufsize,     \* connmgr_init's bufsize
    p,           \* p - buf, the write offset
    buf,         \* buf[0..bufsize-1]
    overrun,     \* a byte was written at or past buf + bufsize (a ghost)
    answer       \* the SOAP answer to the last action request served

vars == <<pending, called, supported, phase, entry, bufsize, p, buf, overrun,
          answer>>

NUL == "NUL"
Uninit == "UNINIT"
Prefix == <<"h", "t", "t", "p", "-", "g", "e", "t", ":", "*", ":">>
Suffix == <<":", "*", ",">>

-----------------------------------------------------------------------------
(* register_mime_type *)

\* register_mime_type_internal: push a type that is not on the list yet
RegisterMimeTypeInternal(list, m) ==
    IF \E i \in DOMAIN list : list[i] = m THEN list ELSE <<m>> \o list

\* Mutation: the duplicate check is dropped.
RegisterMimeTypeMut(list, m) ==
    LET l == <<m>> \o list IN IF m = MPEG THEN <<XMPEG>> \o l ELSE l

\* register_mime_type: the type, then the alias of "audio/mpeg"
RegisterMimeType(list, m) ==
    LET l == RegisterMimeTypeInternal(list, m)
    IN IF m = MPEG THEN RegisterMimeTypeInternal(l, XMPEG) ELSE l

-----------------------------------------------------------------------------
(* Buffer operations. *)

\* strncpy(buf + at, s, Len(s)): the bytes inside the buffer are written
Write(b, at, s) ==
    [i \in DOMAIN b |-> IF at <= i /\ i < at + Len(s) THEN s[i - at + 1] ELSE b[i]]

\* Mutation: realloc to one byte less than asked for.
GrowMut(b, n) == [i \in 0..(n - 2) |-> IF i \in DOMAIN b THEN b[i] ELSE Uninit]

\* malloc or realloc to n bytes: the old contents are kept
Grow(b, n) == [i \in 0..(n - 1) |-> IF i \in DOMAIN b THEN b[i] ELSE Uninit]

\* the string a char pointer to buf stands for: the bytes before the first
\* NUL; bytes without a NUL are no string at all
CString(b) ==
    LET nuls == {i \in DOMAIN b : b[i] = NUL}
    IN IF nuls = {} THEN <<Uninit>> ELSE [k \in 1..Min(nuls) |-> b[k - 1]]

\* connmgr_defaults[CONNMGR_VAR_SINK_PROTO_INFO]: "http-get:*:audio/mpeg:*"
DefaultSinkInfo == Prefix \o Chars[MPEG] \o <<":", "*">>

\* connmgr_values[SINK] as get_service_var serves it: the string
\* connmgr_init built, or the default while the variable is NULL (nothing
\* was registered, so buf stayed NULL)
SinkProtocolInfo == IF bufsize = 0 THEN DefaultSinkInfo ELSE CString(buf)

-----------------------------------------------------------------------------
(* The service: action requests over the variable table. *)

NoAnswer == [action |-> "none", err |-> FALSE, args |-> <<>>]

\* connmgr_defaults, for the variables no action reads through
\* connmgr_values (connmgr_init leaves those NULL)
Defaults ==
    [v \in {"A_ARG_TYPE_RcsID", "A_ARG_TYPE_AVTransportID",
            "A_ARG_TYPE_ProtocolInfo", "A_ARG_TYPE_ConnectionManager",
            "A_ARG_TYPE_ConnectionID", "A_ARG_TYPE_Direction",
            "A_ARG_TYPE_ConnectionStatus"} |->
        CASE v = "A_ARG_TYPE_ProtocolInfo"      -> ":::"
          [] v = "A_ARG_TYPE_ConnectionManager" -> "/"
          [] v = "A_ARG_TYPE_ConnectionID"      -> "-1"
          [] v = "A_ARG_TYPE_Direction"         -> "Input"
          [] v = "A_ARG_TYPE_ConnectionStatus"  -> "Unknown"
          [] OTHER                              -> "0"]

\* get_service_var: connmgr_values[v] when set, else the default.
\* connmgr_init sets SourceProtocolInfo to its default "" and
\* SinkProtocolInfo to buf
GetServiceVar(v) ==
    CASE v = "SinkProtocolInfo"   -> SinkProtocolInfo
      [] v = "SourceProtocolInfo" -> <<>>
      [] OTHER                    -> Defaults[v]

\* upnp_add_response: nothing once event->status is set; a failed
\* UpnpAddToActionResponse drops ActionResult and sets ErrCode, but not
\* event->status, and the next call starts a new ActionResult
AddResponse(ev, key, val, ok) ==
    CASE ev.status # 0 -> [ev |-> ev, rc |-> -1]
      [] ~ok           -> [ev |-> [ev EXCEPT !.result = <<>>, !.errCode = 501],
                           rc |-> -1]
      [] OTHER         -> [ev |-> [ev EXCEPT !.result = Append(@, <<key, val>>)],
                           rc |-> 0]

\* upnp_append_variable: every variable number of this service is in range
\* and get_service_var never returns NULL
AppendVariable(ev, v, key, ok) == AddResponse(ev, key, GetServiceVar(v), ok)

\* get_protocol_info: returns event->status
GetProtocolInfo(ev, oks) ==
    LET a == AppendVariable(ev, "SourceProtocolInfo", "Source", oks[1])
        b == AppendVariable(a.ev, "SinkProtocolInfo", "Sink", oks[2])
    IN [ev |-> b.ev, rc |-> b.ev.status]

\* get_current_conn_ids: returns 0
GetCurrentConnIds(ev, oks) ==
    [ev |-> AddResponse(ev, "ConnectionIDs", "0", oks[1]).ev, rc |-> 0]

\* the OUT arguments of get_current_conn_info, in the order it appends them
ConnInfoArgs ==
    << <<"A_ARG_TYPE_RcsID", "RcsID">>,
       <<"A_ARG_TYPE_AVTransportID", "AVTransportID">>,
       <<"A_ARG_TYPE_ProtocolInfo", "ProtocolInfo">>,
       <<"A_ARG_TYPE_ConnectionManager", "PeerConnectionManager">>,
       <<"A_ARG_TYPE_ConnectionID", "PeerConnectionID">>,
       <<"A_ARG_TYPE_Direction", "Direction">>,
       <<"A_ARG_TYPE_ConnectionStatus", "Status">> >>

RECURSIVE AppendConnInfo(_, _, _), AppendConnInfoMut(_, _, _)

\* Mutation: a failed append does not end the handler.
AppendConnInfoMut(ev, i, oks) ==
    LET r == AppendVariable(ev, ConnInfoArgs[i][1], ConnInfoArgs[i][2], oks[i])
    IN IF i = Len(ConnInfoArgs) THEN r ELSE AppendConnInfo(r.ev, i + 1, oks)

\* get_current_conn_info from the i-th append on: "if (rc) goto out"
AppendConnInfo(ev, i, oks) ==
    LET r == AppendVariable(ev, ConnInfoArgs[i][1], ConnInfoArgs[i][2], oks[i])
    IN IF r.rc # 0 \/ i = Len(ConnInfoArgs) THEN r
       ELSE AppendConnInfo(r.ev, i + 1, oks)

\* get_current_conn_info: upnp_get_string("ConnectionID") sets the error
\* when the argument is missing, then the seven appends
GetCurrentConnInfo(ev, hasId, oks) ==
    IF hasId THEN AppendConnInfo(ev, 1, oks)
    ELSE [ev |-> [ev EXCEPT !.status = -1, !.result = <<>>, !.errCode = 501],
          rc |-> -1]

-----------------------------------------------------------------------------

Init ==
    /\ pending \in Calls
    /\ called = <<>>
    /\ supported = <<>>
    /\ phase = "register"
    /\ entry = 1 /\ bufsize = 0 /\ p = 0
    /\ buf = [i \in {} |-> Uninit]
    /\ overrun = FALSE
    /\ answer = NoAnswer

\* output_mpd_init: one register_mime_type call
Register ==
    /\ phase = "register"
    /\ pending # <<>>
    /\ supported' = RegisterMimeType(supported, Head(pending))
    /\ called' = Append(called, Head(pending))
    /\ pending' = Tail(pending)
    /\ UNCHANGED <<phase, entry, bufsize, p, buf, overrun, answer>>

\* upnp_device_init calls the renderer's init, which calls connmgr_init
StartInit ==
    /\ phase = "register"
    /\ pending = <<>>
    /\ phase' = "init"
    /\ UNCHANGED <<pending, called, supported, entry, bufsize, p, buf, overrun, answer>>

\* main after the registrations: output_mpd_init returns 1 when MPD cannot
\* be reached (outside test mode), or getIfInfo fails, and main exits
\* before upnp_device_init
MainExits ==
    /\ phase = "register"
    /\ pending = <<>>
    /\ phase' = "failed"
    /\ UNCHANGED <<pending, called, supported, entry, bufsize, p, buf, overrun, answer>>

\* Mutation: one byte too few is reserved per entry.
BufSizeMut(m) == Len(Chars[m]) + 1 + 8 + 3 + 1

\* the bytes connmgr_init reserves for an entry
BufSize(m) == Len(Chars[m]) + 1 + 8 + 3 + 2

\* one turn of connmgr_init's loop: grow the buffer by BufSize, keep the
\* offset of p across realloc, and copy "http-get:*:", the type and ":*,".
\* A failed allocation returns -1.
InitEntry ==
    /\ phase = "init"
    /\ entry <= Len(supported)
    /\ LET m == supported[entry]
           n == bufsize + BufSize(m)
           s == Prefix \o Chars[m] \o Suffix
       IN \/ /\ buf' = Write(Grow(buf, n), p, s)
             /\ overrun' = (overrun \/ p + Len(s) > n)
             /\ bufsize' = n
             /\ p' = p + Len(s)
             /\ entry' = entry + 1
             /\ UNCHANGED phase
          \/ /\ phase' = "failed"
             /\ UNCHANGED <<entry, bufsize, p, buf, overrun>>
    /\ UNCHANGED <<pending, called, supported, answer>>

\* after the loop: *(--p) = '\0' when anything was written
InitFinish ==
    /\ phase = "init"
    /\ entry > Len(supported)
    /\ IF bufsize > 0
       THEN /\ buf' = Write(buf, p - 1, <<NUL>>)
            /\ overrun' = (overrun \/ p - 1 >= bufsize \/ p - 1 < 0)
            /\ p' = p - 1
       ELSE UNCHANGED <<buf, overrun, p>>
    /\ phase' = "done"
    /\ UNCHANGED <<pending, called, supported, entry, bufsize, answer>>

\* the rest of upnp_device_init after the renderer's init: the web server,
\* UpnpInit, the root device and the advertisement; any failure there makes
\* main exit
DeviceInit ==
    /\ phase = "done"
    /\ phase' \in {"serving", "failed"}
    /\ UNCHANGED <<pending, called, supported, entry, bufsize, p, buf, overrun, answer>>

\* handle_action_request: an unknown action is answered 401; otherwise the
\* handler runs on an event with status 0, ErrCode becomes success when it
\* returns 0, and libupnp answers the error of a non-zero ErrCode
HandleActionRequest(a, hasId, oks) ==
    LET ev0 == [status |-> 0, errCode |-> 0, result |-> <<>>]
        r == CASE a = "GetProtocolInfo"          -> GetProtocolInfo(ev0, oks)
               [] a = "GetCurrentConnectionIDs"  -> GetCurrentConnIds(ev0, oks)
               [] a = "GetCurrentConnectionInfo" -> GetCurrentConnInfo(ev0, hasId, oks)
               [] OTHER -> [ev |-> [ev0 EXCEPT !.errCode = 401], rc |-> -1]
        errCode == IF r.rc = 0 THEN 0 ELSE r.ev.errCode
    IN [action |-> a, err |-> errCode # 0,
        args |-> IF errCode # 0 THEN <<>> ELSE r.ev.result]

\* a libupnp worker serves one request; every UpnpAddToActionResponse of it
\* succeeds or fails (AddOutcomes)
Serve ==
    /\ phase = "serving"
    /\ \E a \in Actions, hasId \in BOOLEAN, oks \in [1..7 -> AddOutcomes] :
          answer' = HandleActionRequest(a, hasId, oks)
    /\ UNCHANGED <<pending, called, supported, phase, entry, bufsize, p, buf, overrun>>

\* main has exited
Stopped ==
    /\ phase = "failed"
    /\ UNCHANGED vars

Next == Register \/ StartInit \/ MainExits \/ InitEntry \/ InitFinish \/ DeviceInit
        \/ Serve \/ Stopped

Spec == Init /\ [][Next]_vars

-----------------------------------------------------------------------------
(* Properties, against a reference definition of the protocol list. *)

TypeOK ==
    /\ pending \in Seq(Types) /\ called \in Seq(Types) /\ supported \in Seq(Types)
    /\ phase \in {"register", "init", "done", "serving", "failed"}
    /\ entry \in 1..(Len(supported) + 1)
    /\ bufsize \in Nat /\ p \in -1..bufsize + 1
    /\ DOMAIN buf = 0..(bufsize - 1)
    /\ overrun \in BOOLEAN
    /\ answer.action \in Actions \cup {"none"} /\ answer.err \in BOOLEAN

\* connmgr_init connects nothing to the abstract list but its result: the
\* registry is the set of types on supported_types, SinkProtocolInfo is
\* published when the device is up, and what GetProtocolInfo served last is
\* the Sink argument of the last answer
\* the Sink arguments an answer carries
SinkOf(ans) == { ans.args[i][2] : i \in {j \in DOMAIN ans.args : ans.args[j][1] = "Sink"} }

PL == INSTANCE ProtocolList WITH
        registered <- Range(supported),
        state <- CASE phase \in {"register", "init", "done"} -> "open"
                   [] phase = "serving"                     -> "published"
                   [] OTHER                                 -> "failed",
        info <- IF phase = "serving" THEN SinkProtocolInfo ELSE <<>>,
        served <- SinkOf(answer)

\* connmgr_init never writes outside the buffer it allocated: the bytes it
\* reserves per entry (BufSize) cover what it copies, across the realloc
\* of every turn, and the closing NUL replaces a byte inside the buffer.
NoBufferOverrun == ~overrun

\* The registry, connmgr_init and the service implement the abstract
\* protocol list: every register_mime_type call adds its types (and the
\* alias of audio/mpeg) and nothing else; when the device comes up the
\* buffer holds a NUL-terminated SinkProtocolInfo that lists every
\* registered type exactly once as "http-get:*:<type>:*", comma-separated;
\* and no request is answered before that, nor with another Sink.
ImplementsProtocolList == PL!Spec

\* the OUT arguments an answer to action a must carry, in SCPD order
OutArgs(a) ==
    CASE a = "GetProtocolInfo" ->
            << <<"Source", <<>> >>, <<"Sink", SinkProtocolInfo>> >>
      [] a = "GetCurrentConnectionIDs" -> << <<"ConnectionIDs", "0">> >>
      [] OTHER -> [i \in 1..Len(ConnInfoArgs) |->
                      <<ConnInfoArgs[i][2], Defaults[ConnInfoArgs[i][1]]>>]

\* an answer to a that libupnp sends as success carries all of a's OUT
\* arguments
AnswerComplete(a) == answer.action = a /\ ~answer.err => answer.args = OutArgs(a)

\* A GetCurrentConnectionInfo that handle_action_request answers as
\* success carries all seven OUT arguments with their values, even when
\* some UpnpAddToActionResponse failed: a failed add sets ErrCode but not
\* event->status, so only get_current_conn_info's "if (rc) goto out" after
\* every append keeps a later append from succeeding, returning 0 and
\* turning the answer into a success with the earlier arguments dropped.
ConnectionInfoComplete == AnswerComplete("GetCurrentConnectionInfo")

====
