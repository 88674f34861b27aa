------------------------------ MODULE Renderer ------------------------------
(***************************************************************************)
(* The AVTransport service of UPnPMPD (src/src/upnp_transport.c), the MPD  *)
(* backend adapter it drives (src/src/output_mpd.c) and the action and     *)
(* subscription dispatch of src/src/upnp_device.c.                         *)
(*                                                                         *)
(* libupnp runs every action and subscription request on a worker thread   *)
(* of its pool, so the handlers of several requests run at once; the main  *)
(* thread polls MPD once after the device is up (output_loop).  A step of  *)
(* a thread is the code between two points at which another thread can    *)
(* observe or change what it uses: a lock, an unlocked read of a shared    *)
(* global, or a write of one.  Code that runs with mpd_mutex held and only *)
(* touches state guarded by it, or state only read at single points, is    *)
(* one step.                                                               *)
(*                                                                         *)
(* The MPD server is the environment: its player state, its one-entry      *)
(* queue (the renderer always clears it and adds one URI) and its play     *)
(* mode flags.  Other MPD clients may change the player state at any time. *)
(* A call to MPD may fail at the server (MPD_ERROR_SERVER) or on the       *)
(* connection; a connection failure makes output_printError free the       *)
(* connection and set mpd_conn to NULL.                                    *)
(***************************************************************************)
EXTENDS Integers, FiniteSets, Sequences

SX == INSTANCE SequencesExt

CONSTANTS
    Threads,         \* libupnp worker threads (model values)
    NoOwner,         \* the owner of a free mutex
    Requests,        \* the requests clients send (action names and "Subscribe")
    InstanceIDs,     \* InstanceID arguments clients send; only 0 is valid
    URIs,            \* CurrentURI arguments of SetAVTransportURI
    NoURI,           \* the empty string "" of an unset URI variable
    Modes,           \* NewPlayMode arguments of SetPlayMode
    ConnErrorSites,  \* the MPD calls at which the connection may fail
    MaxRequests,     \* requests sent in a behaviour
    MaxFaults,       \* MPD failures (server or connection) in a behaviour
    MaxExternal,     \* player changes made by other MPD clients
    MaxConnects,     \* connections the adapter opens in a behaviour
    Volumes,         \* the volumes MPD may have when the renderer starts
    VolumeArgs,      \* DesiredVolume arguments of SetVolume, as atoi reads them
    Targets,         \* Target arguments of Seek (strings)
    MetaDurations,   \* duration attributes of CurrentURIMetaData's res element
    Durations        \* Durations[u]: the duration MPD reports for u, 0 for a stream

ASSUME NoOwner \notin Threads /\ NoURI \notin URIs
ASSUME InstanceIDs \subseteq {0, 1} /\ 0 \in InstanceIDs
ASSUME MaxConnects >= 1
ASSUME Volumes \subseteq 0..100 /\ VolumeArgs \subseteq Int
ASSUME Targets # {} /\ <<>> \notin Targets /\ Durations \in [URIs -> Nat]

VARIABLES
    pc,          \* pc[t]: the point worker t has reached
    ctx,         \* ctx[t]: the request t serves and its locals (rc, event.status, ...)
    mainPc,      \* the main thread: "startup" before output_loop's poll, then "loop"
    tMutex,      \* transport_mutex, the service lock of AVTransport
    mMutex,      \* mpd_mutex, guarding mpd_conn
    dMutex,      \* upnp_device->device_mutex, taken by subscriptions
    tState,      \* the enum transport_state; "UNSET" is its initial value -1
    store,       \* transport_values[]: the AVTransport variables modelled
    lastChange,  \* transport_values[LastChange]: its payload and heap cell
    subscribed,  \* a control point's subscription has been accepted
    subView,     \* what that control point knows of the evented variables
    conn,        \* mpd_conn: 0 is NULL, k the k-th connection opened
    erred,       \* connections holding a server error nobody cleared
    nconn,       \* connections opened so far
    mpd,         \* the MPD server: player state, queued URI, mode flags
    faults,      \* MPD failures so far
    ext,         \* player changes by other MPD clients so far
    served,      \* requests received so far
    ub,          \* undefined behaviour met: "null_conn", ... (a ghost)
    mpdvolume,   \* output_mpd.c's local copy of MPD's volume
    mutevolume,  \* the volume output_set_mute saved for the unmute
    control,     \* the volume and mute control points have set (a ghost)
    trackDuration \* output_mpd.c's track_duration, in seconds

adapterVars == <<mpdvolume, mutevolume, control, trackDuration>>
vars == <<pc, ctx, mainPc, tMutex, mMutex, dMutex, tState, store, lastChange,
          subscribed, subView, conn, erred, nconn, mpd, faults, ext, served, ub,
          adapterVars>>

-----------------------------------------------------------------------------
(* Values. *)

TransportStates == {"STOPPED", "PLAYING", "TRANSITIONING", "PAUSED_PLAYBACK",
                    "NO_MEDIA_PRESENT"}
MpdStates == {"stop", "play", "pause"}

\* Mutation: the paused state mapped to a name that is not a transport state.
MpdToTransportMut == [stop |-> "STOPPED", play |-> "PLAYING", pause |-> "PAUSED"]

\* the switch of update_mpd_status on mpd_status_get_state
MpdToTransport == [stop |-> "STOPPED", play |-> "PLAYING",
                   pause |-> "PAUSED_PLAYBACK"]

FsmOps == {"Play", "Pause", "Stop"}
VolumeOps == {"SetVolume", "SetMute"}

\* the transport variable a getter's modelled output argument is read from;
\* the other arguments are constants or are not modelled
GetterVar == [GetTransportInfo     |-> "TransportState",
              GetMediaInfo         |-> "AVTransportURI",
              GetTransportSettings |-> "CurrentPlayMode",
              GetPositionInfo      |-> "CurrentTrackURI"]
EventedVars == {"TransportState", "CurrentTrackURI", "CurrentPlayMode"}
NoValue == "none"

\* a request as the dispatcher hands it to a handler: only the arguments
\* the action reads are given a value
RequestSet ==
    { r \in [op: Requests, iid: InstanceIDs, uri: URIs \cup {NoURI},
             meta: BOOLEAN, mode: Modes \cup {NoValue},
             vol: VolumeArgs \cup {0}, mute: BOOLEAN,
             seek: Targets \cup {<<>>}, dur: MetaDurations \cup {<<>>}] :
        /\ (r.uri # NoURI) <=> (r.op = "SetAVTransportURI")
        /\ (r.mode # NoValue) <=> (r.op = "SetPlayMode")
        /\ r.op # "SetAVTransportURI" => r.meta
        /\ r.op # "SetVolume" => r.vol = 0
        /\ r.op # "SetMute" => ~r.mute
        /\ (r.seek # <<>>) <=> (r.op = "Seek")
        /\ r.dur # <<>> => r.op = "SetAVTransportURI" /\ r.meta
        /\ r.op = "Subscribe" => r.iid = 0 }

\* upnp_obtain_instanceid: every instance ID other than "0" is refused
BadInstanceID(r) == r.op # "Subscribe" /\ r.iid # 0

\* a handler returns at a refused instance ID; get_transport_info's return
\* is commented out
ReturnsOnBadInstanceID(op) == op # "GetTransportInfo"

\* get_device_caps checks the instance ID and returns 0
NoWorkOps == {"GetDeviceCaps"}

\* the locals of a handler invocation; st is event.status, rc the handler's
\* return value, orc the return value of the output_* call it makes
Ctx0 == [op |-> NoValue, uri |-> NoURI, meta |-> TRUE, mode |-> NoValue,
         vol |-> 0, mute |-> FALSE, val |-> NoValue,
         seek |-> <<>>, dur |-> <<>>, pos |-> 0, song |-> NoURI,
         cmd |-> NoValue, target |-> "UNSET", orc |-> 0, rc |-> 0, st |-> 0,
         snap |-> [v \in {} |-> NoValue], resp |-> NoValue, failed |-> FALSE]

\* handle_action_request: ErrCode is set to success when rc == 0, and keeps
\* libupnp's initial UPNP_E_SUCCESS unless upnp_set_error ran (status -1)
Response(c) == IF c.rc # 0 /\ c.st # 0 THEN "error" ELSE "ok"

\* the LastChange payload transport_get_state_lastchange composes: state and
\* status always, the track URI (with metadata, duration) when it is not ""
StatePayload(s) ==
    IF s.CurrentTrackURI = NoURI
    THEN [v \in {"TransportState"} |-> s.TransportState]
    ELSE [v \in {"TransportState", "CurrentTrackURI"} |-> s[v]]

\* what a subscriber holds after reading a LastChange payload
Merge(view, payload) ==
    [v \in EventedVars |-> IF v \in DOMAIN payload THEN payload[v] ELSE view[v]]

-----------------------------------------------------------------------------
(* Times: strtol, parsetimetosecs and the "%02d:%02d:%02d" of              *)
(* update_mpd_status.  A string is a sequence of one-character strings;    *)
(* the byte after it is its NUL.                                           *)

DigitChars == <<"0", "1", "2", "3", "4", "5", "6", "7", "8", "9">>
IsDigit(c) == \E d \in 1..10 : DigitChars[d] = c
DigitVal(c) == CHOOSE d \in 0..9 : DigitChars[d + 1] = c

\* the digits of s from index i on, and the index of the first non-digit;
\* the bytes after the NUL, read only after undefined behaviour, are taken
\* for non-digits
RECURSIVE DigitRun(_, _, _)
DigitRun(s, i, acc) ==
    IF i <= Len(s) /\ IsDigit(s[i])
    THEN DigitRun(s, i + 1, 10 * acc + DigitVal(s[i]))
    ELSE [val |-> acc, end |-> i]

\* strtol(s + i - 1, &nptr, 10): an optional sign, then digits; with no
\* digits nptr is left at the start and the value is 0
Strtol(s, i) ==
    LET sign == i <= Len(s) /\ s[i] \in {"+", "-"}
        j == IF sign THEN i + 1 ELSE i
        d == DigitRun(s, j, 0)
    IN IF d.end = j THEN [val |-> 0, end |-> i]
       ELSE [val |-> IF sign /\ s[i] = "-" THEN -d.val ELSE d.val, end |-> d.end]

\* parsetimetosecs: three strtol calls, nptr stepped one byte past the end
\* of each number.  A string with fewer than two separators makes it step
\* past its NUL (overread).
ParseTimeToSecs(s) ==
    LET h == Strtol(s, 1)
        m == Strtol(s, h.end + 1)
        x == Strtol(s, m.end + 1)
    IN [secs |-> 3600 * h.val + 60 * m.val + x.val,
        overread |-> h.end > Len(s) \/ m.end > Len(s)]

\* snprintf(buf, 10, "%02d:%02d:%02d", hh, mm, ss) of a duration
RECURSIVE Itoa(_)
Itoa(n) == IF n < 10 THEN <<DigitChars[n + 1]>>
           ELSE Itoa(n \div 10) \o <<DigitChars[(n % 10) + 1]>>
Pad2(n) == IF n < 10 THEN <<"0">> \o Itoa(n) ELSE Itoa(n)
FormatHMS(d) ==
    LET s == Pad2(d \div 3600) \o <<":">> \o Pad2((d % 3600) \div 60)
               \o <<":">> \o Pad2(d % 60)
    IN SubSeq(s, 1, IF Len(s) < 9 THEN Len(s) ELSE 9)

\* metadata durations are H:MM:SS strings; parsetimetosecs' over-read is
\* checked on Seek targets
ASSUME \A d \in MetaDurations : d # <<>> /\ ~ParseTimeToSecs(d).overread

\* the strings these are applied to are few and fixed: the Seek targets,
\* and the CurrentTrackDuration values (the default, a formatted MPD
\* duration, a metadata duration); they are converted once
TrackDurationStrings ==
    {FormatHMS(0)} \cup {FormatHMS(Durations[u]) : u \in URIs} \cup MetaDurations
ParsedTime == [s \in Targets \cup TrackDurationStrings |-> ParseTimeToSecs(s)]
FormattedDuration == [u \in URIs |-> FormatHMS(Durations[u])]

\* output_seekto: a negative position becomes 0, one past track_duration
\* becomes track_duration
SeekTo(p, td) == LET q == IF p < 0 THEN 0 ELSE p IN IF q > td THEN td ELSE q

-----------------------------------------------------------------------------
(* The MPD server. *)

\* the player after a successful mpd_run_* command on a one-entry queue;
\* next and previous past either end of it may stop the player
MpdRun(cmd, m) ==
    CASE cmd = "play"  -> {[m EXCEPT !.state = IF m.song = NoURI THEN "stop" ELSE "play"]}
      [] cmd = "pause" -> {[m EXCEPT !.state = IF @ = "play" THEN "pause" ELSE @]}
      [] cmd = "stop"  -> {[m EXCEPT !.state = "stop"]}
      [] OTHER         -> IF m.state = "stop" THEN {m}
                          ELSE {m, [m EXCEPT !.state = "stop"]}

\* how an MPD call at a site may end, within the fault budget
\* libmpdclient refuses every command on a connection whose server error
\* was not cleared (mpd_connection_clear_error), with that same error
Outcomes(site) ==
    IF conn \in erred THEN {"server"}
    ELSE {"ok"} \cup
         (IF faults < MaxFaults
          THEN {"server"} \cup (IF site \in ConnErrorSites THEN {"conn"} ELSE {})
          ELSE {})

\* the fault budget after an outcome: a refusal of an erred connection is
\* not a new fault
Charge(o) == IF o = "ok" \/ conn \in erred THEN faults ELSE faults + 1

-----------------------------------------------------------------------------
(* Helpers shared by the steps. *)

Goto(t, l) == pc' = [pc EXCEPT ![t] = l]

\* transport_set_state / the state switch of update_mpd_status, and the
\* adoption of MPD's current song when AVTransportURI is "" (lines 825-837)
StatusStore(s, m) ==
    LET adopt == m.song # NoURI /\ s.AVTransportURI = NoURI
       known == m.song # NoURI /\ Durations[m.song] # 0
    IN [s EXCEPT !.TransportState  = MpdToTransport[m.state],
                 !.CurrentTrackURI = IF adopt THEN m.song ELSE @,
                 !.AVTransportURI  = IF adopt THEN m.song ELSE @,
                 !.CurrentTrackDuration = IF known THEN FormattedDuration[m.song]
                                          ELSE @]

\* track_duration after update_mpd_status saw song u: MPD's duration, or
\* when MPD knows none (a stream) the parsed CurrentTrackDuration
TrackDuration(u, s) ==
    IF Durations[u] # 0 THEN Durations[u]
    ELSE ParsedTime[s.CurrentTrackDuration].secs

\* update_mpd_status with mpd_mutex held and connection c # 0, after the
\* faults f already counted in this step.  A failure of the command list
\* (always, on an erred connection) frees the connection and returns; a
\* failure of mpd_response_finish frees it and goes on to set the state.
UpdateMpdStatus(m, c, f) ==
    \E o \in IF c \in erred THEN {"list"}
             ELSE {"ok"} \cup (IF "status" \in ConnErrorSites /\ f < MaxFaults
                               THEN {"list", "finish"} ELSE {}) :
        /\ conn'   = IF o = "ok" THEN c ELSE 0
        /\ faults' = IF o = "ok" \/ c \in erred THEN f ELSE f + 1
        /\ tState' = IF o = "list" THEN tState ELSE MpdToTransport[m.state]
        /\ store'  = IF o = "list" THEN store ELSE StatusStore(store, m)
        /\ mpdvolume' = IF o = "list" THEN mpdvolume ELSE m.volume
        /\ trackDuration' = IF o = "list" \/ m.song = NoURI THEN trackDuration
                            ELSE TrackDuration(m.song, store)

\* transport_notify_lastchange: the new payload replaces (and frees) the
\* stored one and goes to the subscribers
NotifyLastChange(payload) ==
    /\ lastChange' = [payload |-> payload, cell |-> lastChange.cell + 1]
    /\ subView' = IF subscribed THEN Merge(subView, payload) ELSE subView

\* check_mpd_connection(update) with mpd_mutex held: reconnect when mpd_conn
\* is NULL (setup_connection) and on success poll the status if asked.
\* ok is its result, STATUS_OK or STATUS_FAIL.
CheckMpdConnection(update, ok) ==
    /\ mMutex = NoOwner
    /\ IF conn # 0
       THEN ok /\ UNCHANGED <<conn, erred, nconn, tState, store, faults, mpdvolume, trackDuration>>
       ELSE \/ /\ nconn < MaxConnects
               /\ ok
               /\ nconn' = nconn + 1
               /\ UNCHANGED erred
               /\ IF update THEN UpdateMpdStatus(mpd, nconn + 1, faults)
                  ELSE /\ conn' = nconn + 1
                       /\ UNCHANGED <<tState, store, faults, mpdvolume, trackDuration>>
            \/ /\ faults < MaxFaults \/ nconn = MaxConnects
               /\ ~ok
               /\ faults' = IF faults < MaxFaults THEN faults + 1 ELSE faults
               /\ UNCHANGED <<conn, erred, nconn, tState, store, mpdvolume, trackDuration>>

-----------------------------------------------------------------------------
(* Initial state: main() has connected to MPD (output_mpd_init exits the   *)
(* program otherwise) and transport_init has set the defaults; MPD may     *)
(* already be playing something.                                          *)

Init ==
    /\ pc = [t \in Threads |-> "idle"]
    /\ ctx = [t \in Threads |-> Ctx0]
    /\ mainPc = "startup"
    /\ tMutex = NoOwner /\ mMutex = NoOwner /\ dMutex = NoOwner
    /\ tState = "UNSET"
    /\ store = [TransportState |-> "STOPPED", AVTransportURI |-> NoURI,
                CurrentTrackURI |-> NoURI, CurrentPlayMode |-> "NORMAL",
                CurrentTrackDuration |-> FormatHMS(0)]
    /\ lastChange = [payload |-> [v \in {} |-> NoValue], cell |-> 0]
    /\ subscribed = FALSE
    /\ subView = [v \in EventedVars |-> NoValue]
    /\ conn = 1 /\ nconn = 1 /\ erred = {}
    /\ mpd \in {m \in [state: MpdStates, song: URIs \cup {NoURI},
                       single: {FALSE}, random: {FALSE}, repeat: {FALSE},
                       volume: Volumes] :
                   m.song = NoURI => m.state = "stop"}
    /\ faults = 0 /\ ext = 0 /\ served = 0
    /\ ub = {}
    /\ mpdvolume = 0 /\ mutevolume = 0 /\ trackDuration = 0
    /\ control = [level |-> mpd.volume, muted |-> FALSE]

-----------------------------------------------------------------------------
(* The dispatcher and the AVTransport handlers. *)

\* where a handler goes after the instance-ID check
Entry(op) ==
    CASE op = "SetAVTransportURI" -> "sa_lock"
      [] op = "Subscribe"         -> "sub_lock"
      [] op = "GetPositionInfo"   -> "gp_lock"
      [] op \in DOMAIN GetterVar  -> "gv_lock"
      [] op \in NoWorkOps         -> "respond"
      [] op \in VolumeOps         -> "vol_chk"
      [] OTHER                    -> "x_chk"

\* a worker takes a request; a bad instance ID is refused by upnp_set_error
\* before anything else happens, except in get_transport_info, which goes
\* on with event.status set
Receive(t) ==
    /\ pc[t] = "idle"
    /\ served < MaxRequests
    /\ \E r \in RequestSet :
         LET bad == BadInstanceID(r) IN
         /\ ctx' = [ctx EXCEPT ![t] =
                      [Ctx0 EXCEPT !.op = r.op, !.uri = r.uri, !.meta = r.meta,
                                   !.mode = r.mode, !.vol = r.vol, !.mute = r.mute,
                                   !.seek = r.seek, !.dur = r.dur,
                                   !.rc = IF bad THEN -1 ELSE 0,
                                   !.st = IF bad THEN -1 ELSE 0]]
         /\ Goto(t, IF bad /\ ReturnsOnBadInstanceID(r.op) THEN "respond"
                    ELSE Entry(r.op))
    /\ served' = served + 1
    /\ UNCHANGED <<mainPc, tMutex, mMutex, dMutex, tState, store, lastChange,
                   subscribed, subView, conn, erred, nconn, mpd, faults, ext, ub>>
    /\ UNCHANGED adapterVars

\* handle_action_request builds the answer once the handler returned
Respond(t) ==
    /\ pc[t] = "respond"
    /\ ctx' = [ctx EXCEPT ![t].resp = Response(ctx[t])]
    /\ Goto(t, "idle")
    /\ UNCHANGED <<mainPc, tMutex, mMutex, dMutex, tState, store, lastChange,
                   subscribed, subView, conn, erred, nconn, mpd, faults, ext, served, ub>>
    /\ UNCHANGED adapterVars

\* what the switch (transport_state) of xplay, xpause and xstop does
Run(cmd, target) == [kind |-> "run", cmd |-> cmd, target |-> target, rc |-> 0]
NotAllowed(rc) == [kind |-> "na", cmd |-> NoValue, target |-> "UNSET", rc |-> rc]
NoOp == [kind |-> "noop", cmd |-> NoValue, target |-> "UNSET", rc |-> 0]

FsmStep(op, s) ==
    CASE op = "Play"  /\ s \in {"STOPPED", "PAUSED_PLAYBACK"} -> Run("play", "PLAYING")
      [] op = "Play"  /\ s \in {"NO_MEDIA_PRESENT", "TRANSITIONING"} -> NotAllowed(-1)
      [] op = "Pause" /\ s = "PLAYING"         -> Run("pause", "PAUSED_PLAYBACK")
      [] op = "Pause" /\ s = "PAUSED_PLAYBACK" -> Run("play", "PLAYING")
      [] op = "Pause" /\ s \in {"TRANSITIONING", "NO_MEDIA_PRESENT"} -> NotAllowed(0)
      [] op = "Stop"  /\ s \in {"PLAYING", "TRANSITIONING", "PAUSED_PLAYBACK"}
                                               -> Run("stop", "STOPPED")
      [] op = "Stop"  /\ s = "NO_MEDIA_PRESENT" -> NotAllowed(0)
      [] OTHER -> NoOp   \* the no-op states, and -1, which matches no case

\* the handler's own check_mpd_connection(TRUE); STATUS_FAIL returns -1
\* without upnp_set_error
XCheck(t) ==
    /\ pc[t] = "x_chk"
    /\ \E ok \in BOOLEAN :
         /\ CheckMpdConnection(TRUE, ok)
         /\ LET op == ctx[t].op IN
            IF ~ok
            THEN /\ ctx' = [ctx EXCEPT ![t].rc = -1, ![t].failed = TRUE]
                 /\ Goto(t, "respond")
            ELSE /\ ctx' = [ctx EXCEPT ![t].cmd = IF op = "Next" THEN "next"
                                                 ELSE IF op = "Previous" THEN "previous"
                                                 ELSE @]
                 /\ Goto(t, CASE op \in FsmOps         -> "x_lock"
                              [] op = "Seek"           -> "sk_chk"
                              [] op = "SetPlayMode"    -> "pm_lock"
                              [] OTHER                 -> "oc_chk")
    /\ UNCHANGED <<mainPc, tMutex, mMutex, dMutex, lastChange, subscribed,
                   subView, mpd, ext, served, ub>>
    /\ UNCHANGED <<mutevolume, control>>

\* xplay, xpause, xstop: lock transport_mutex and switch on transport_state
XLock(t) ==
    /\ pc[t] = "x_lock"
    /\ tMutex = NoOwner
    /\ tMutex' = t
    /\ LET p == FsmStep(ctx[t].op, tState) IN
       /\ ctx' = [ctx EXCEPT ![t].cmd = p.cmd, ![t].target = p.target,
                             ![t].rc = p.rc,
                             ![t].st = IF p.kind = "na" THEN -1 ELSE @]
       /\ Goto(t, IF p.kind = "run" THEN "oc_chk" ELSE "x_unlock")
    /\ UNCHANGED <<mainPc, mMutex, dMutex, tState, store, lastChange, subscribed,
                   subView, conn, erred, nconn, mpd, faults, ext, served, ub>>
    /\ UNCHANGED adapterVars

\* back from output_*: a failure is reported (702), a success sets the enum
XResult(t) ==
    /\ pc[t] = "x_res"
    /\ IF ctx[t].orc # 0
       THEN /\ ctx' = [ctx EXCEPT ![t].rc = -1, ![t].st = -1]
            /\ Goto(t, "x_unlock")
            /\ UNCHANGED tState
       ELSE /\ tState' = ctx[t].target
            /\ Goto(t, "x_change")
            /\ UNCHANGED ctx
    /\ UNCHANGED <<mainPc, tMutex, mMutex, dMutex, store, lastChange, subscribed,
                   subView, conn, erred, nconn, mpd, faults, ext, served, ub>>
    /\ UNCHANGED adapterVars

\* transport_change_var(TransportState, ...): set the string and notify
XChange(t) ==
    /\ pc[t] = "x_change"
    /\ store' = [store EXCEPT !.TransportState = ctx[t].target]
    /\ NotifyLastChange([v \in {"TransportState"} |-> ctx[t].target])
    /\ Goto(t, "x_unlock")
    /\ UNCHANGED <<ctx, mainPc, tMutex, mMutex, dMutex, tState, subscribed,
                   conn, erred, nconn, mpd, faults, ext, served, ub>>
    /\ UNCHANGED adapterVars

XUnlock(t) ==
    /\ pc[t] = "x_unlock"
    /\ tMutex' = NoOwner
    /\ Goto(t, "respond")
    /\ UNCHANGED <<ctx, mainPc, mMutex, dMutex, tState, store, lastChange,
                   subscribed, subView, conn, erred, nconn, mpd, faults, ext, served, ub>>
    /\ UNCHANGED adapterVars

-----------------------------------------------------------------------------
(* output_play, output_pause, output_stop, output_next, output_prev. *)

\* the caller resumes with the return value orc: xplay, xpause and xstop
\* at their result check, xnext and xprevious by answering (701 on failure)
OutputReturn(t, orc) ==
    LET c == ctx[t] IN
    IF c.op \in FsmOps
    THEN /\ ctx' = [ctx EXCEPT ![t].orc = orc, ![t].failed = @ \/ orc # 0]
         /\ Goto(t, "x_res")
    ELSE /\ ctx' = [ctx EXCEPT ![t].orc = orc, ![t].failed = @ \/ orc # 0,
                               ![t].rc = orc,
                               ![t].st = IF orc # 0 THEN -1 ELSE @]
         /\ Goto(t, "respond")

\* a call into libmpdclient with mpd_conn == NULL dereferences it: the
\* process dies, and no thread goes any further
UseNullConn(t, what) ==
    /\ ub' = ub \cup {what}
    /\ pc' = [u \in Threads |-> "crashed"]

Crashed == \E t \in Threads : pc[t] = "crashed"

\* output_*: check_mpd_connection(FALSE) first; STATUS_FAIL returns -1
OutputCheck(t) ==
    /\ pc[t] = "oc_chk"
    /\ \E ok \in BOOLEAN :
         /\ CheckMpdConnection(FALSE, ok)
         /\ IF ok THEN Goto(t, "oc_cmd") /\ UNCHANGED ctx
            ELSE OutputReturn(t, -1)
    /\ UNCHANGED <<mainPc, tMutex, mMutex, dMutex, lastChange, subscribed,
                   subView, mpd, ext, served, ub>>
    /\ UNCHANGED <<mutevolume, control>>

\* Mutation: the server-error path also returns with mpd_mutex held.
OutputCmdMut(t) ==
    /\ pc[t] = "oc_cmd"
    /\ mMutex = NoOwner
    /\ conn # 0
    /\ \E o \in Outcomes(ctx[t].cmd) :
         \/ /\ o = "ok"
            /\ \E m \in MpdRun(ctx[t].cmd, mpd) :
                 mpd' = m /\ UpdateMpdStatus(m, conn, faults)
            /\ OutputReturn(t, 0)
            /\ UNCHANGED <<mMutex, erred>>
         \/ /\ o # "ok"
            /\ faults' = Charge(o)
            /\ erred' = IF o = "server" THEN erred \cup {conn} ELSE erred
            /\ conn' = IF o = "conn" THEN 0 ELSE conn
            /\ mMutex' = t
            /\ OutputReturn(t, -1)
            /\ UNCHANGED <<tState, store, mpd, mpdvolume, trackDuration>>
    /\ UNCHANGED <<mainPc, tMutex, dMutex, lastChange, subscribed, subView,
                   nconn, ext, served, ub>>
    /\ UNCHANGED <<mutevolume, control>>

\* lock mpd_mutex and run the command.  On success the status is polled and
\* the lock released; a server error releases it and returns -1; any other
\* error frees the connection (output_printError) and returns -1 with
\* mpd_mutex still held.
OutputCmd(t) ==
    /\ pc[t] = "oc_cmd"
    /\ mMutex = NoOwner
    /\ IF conn = 0
       THEN /\ UseNullConn(t, "null_conn")
            /\ UNCHANGED <<ctx, mMutex, tState, store, conn, erred, mpd, faults,
                            mpdvolume, trackDuration>>
       ELSE \E o \in Outcomes(ctx[t].cmd) :
              \/ /\ o = "ok"
                 /\ \E m \in MpdRun(ctx[t].cmd, mpd) :
                      /\ mpd' = m
                      /\ UpdateMpdStatus(m, conn, faults)
                 /\ OutputReturn(t, 0)
                 /\ UNCHANGED <<mMutex, erred, ub>>
              \/ /\ o = "server"
                 /\ faults' = Charge(o)
                 /\ erred' = erred \cup {conn}
                 /\ OutputReturn(t, -1)
                 /\ UNCHANGED <<mMutex, tState, store, conn, mpd, ub, mpdvolume, trackDuration>>
              \/ /\ o = "conn"
                 /\ faults' = Charge(o)
                 /\ conn' = 0
                 /\ mMutex' = t
                 /\ OutputReturn(t, -1)
                 /\ UNCHANGED <<tState, store, erred, mpd, ub, mpdvolume, trackDuration>>
    /\ UNCHANGED <<mainPc, tMutex, dMutex, lastChange, subscribed, subView,
                   nconn, ext, served>>
    /\ UNCHANGED <<mutevolume, control>>

-----------------------------------------------------------------------------
(* set_avtransport_uri and output_set_uri. *)

\* lock transport_mutex; output_set_uri reads mpd_conn without mpd_mutex and
\* returns at once if it is NULL
SaLock(t) ==
    /\ pc[t] = "sa_lock"
    /\ tMutex = NoOwner
    /\ tMutex' = t
    /\ IF conn = 0
       THEN /\ ctx' = [ctx EXCEPT ![t].failed = TRUE]
            /\ Goto(t, "sa_vars")
       ELSE /\ Goto(t, "su_cmd")
            /\ UNCHANGED ctx
    /\ UNCHANGED <<mainPc, mMutex, dMutex, tState, store, lastChange, subscribed,
                   subView, conn, erred, nconn, mpd, faults, ext, served, ub>>
    /\ UNCHANGED adapterVars

\* output_set_uri under mpd_mutex: mpd_run_clear (its result ignored), then
\* mpd_run_add; a failure other than a server error frees the connection.
\* On an erred connection both are refused and the queue is left as it is.
SetUriCmd(t) ==
    /\ pc[t] = "su_cmd"
    /\ mMutex = NoOwner
    /\ LET cleared == IF conn \in erred THEN mpd
                      ELSE [mpd EXCEPT !.state = "stop", !.song = NoURI] IN
       IF conn = 0
       THEN /\ UseNullConn(t, "null_conn")
            /\ UNCHANGED <<ctx, conn, erred, mpd, faults>>
       ELSE /\ \E o \in Outcomes("add") :
                 /\ mpd' = IF o = "ok" THEN [cleared EXCEPT !.song = ctx[t].uri]
                           ELSE cleared
                 /\ conn' = IF o = "conn" THEN 0 ELSE conn
                 /\ erred' = IF o = "server" THEN erred \cup {conn} ELSE erred
                 /\ faults' = Charge(o)
                 /\ ctx' = [ctx EXCEPT ![t].failed = @ \/ o # "ok"]
            /\ Goto(t, "sa_vars")
            /\ UNCHANGED ub
    /\ UNCHANGED <<mainPc, tMutex, mMutex, dMutex, tState, store, lastChange,
                   subscribed, subView, nconn, ext, served>>
    /\ UNCHANGED adapterVars

\* Mutation: set_avtransport_uri returns without unlocking transport_mutex.
SaVarsMut(t) ==
    /\ pc[t] = "sa_vars"
    /\ LET s == [store EXCEPT !.AVTransportURI = ctx[t].uri,
                              !.TransportState = "STOPPED",
                              !.CurrentTrackDuration =
                                  IF ctx[t].dur = <<>> THEN @ ELSE ctx[t].dur]
       IN /\ store' = s
          /\ NotifyLastChange(StatePayload(s))
    /\ tState' = "STOPPED"
    /\ ctx' = [ctx EXCEPT ![t].rc = IF ctx[t].meta THEN 0 ELSE -1,
                          ![t].st = IF ctx[t].meta THEN @ ELSE -1]
    /\ Goto(t, "respond")
    /\ UNCHANGED <<mainPc, tMutex, mMutex, dMutex, subscribed, conn, erred, nconn,
                   mpd, faults, ext, served, ub>>
    /\ UNCHANGED adapterVars

\* the rest of set_avtransport_uri under transport_mutex: store the URI; a
\* missing CurrentURIMetaData is an error (upnp_get_string), yet the state
\* is still forced to STOPPED and the composite LastChange sent.  The
\* duration attribute of the metadata's res element, when there is one,
\* becomes CurrentTrackDuration (transport_get_attr_metadata).
SaVars(t) ==
    /\ pc[t] = "sa_vars"
    /\ LET s == [store EXCEPT !.AVTransportURI = ctx[t].uri,
                              !.TransportState = "STOPPED",
                              !.CurrentTrackDuration =
                                  IF ctx[t].dur = <<>> THEN @ ELSE ctx[t].dur]
       IN /\ store' = s
          /\ NotifyLastChange(StatePayload(s))
    /\ tState' = "STOPPED"
    /\ ctx' = [ctx EXCEPT ![t].rc = IF ctx[t].meta THEN 0 ELSE -1,
                          ![t].st = IF ctx[t].meta THEN @ ELSE -1]
    /\ tMutex' = NoOwner
    /\ Goto(t, "respond")
    /\ UNCHANGED <<mainPc, mMutex, dMutex, subscribed, conn, erred, nconn, mpd, faults,
                   ext, served, ub>>
    /\ UNCHANGED adapterVars

-----------------------------------------------------------------------------
(* xseek and output_seekto. *)

\* output_seekto's own check_mpd_connection(TRUE); a failure makes xseek
\* answer 711
SeekCheck(t) ==
    /\ pc[t] = "sk_chk"
    /\ \E ok \in BOOLEAN :
         /\ CheckMpdConnection(TRUE, ok)
         /\ IF ok THEN Goto(t, "sk_run") /\ UNCHANGED ctx
            ELSE /\ ctx' = [ctx EXCEPT ![t].rc = -1, ![t].st = -1,
                                       ![t].failed = TRUE]
                 /\ Goto(t, "respond")
    /\ UNCHANGED <<mainPc, tMutex, mMutex, dMutex, lastChange, subscribed,
                   subView, mpd, ext, served, ub>>
    /\ UNCHANGED <<mutevolume, control>>

\* under mpd_mutex: mpd_run_status, refuse a stopped player, then parse the
\* target, clamp it to track_duration and mpd_run_seek_id the current song
\* to that position (pos, song).  When either call fails the lock is
\* released before the error is looked at (sk_err); the connection the
\* call failed on is remembered in orc.
SeekRun(t) ==
    /\ pc[t] = "sk_run"
    /\ mMutex = NoOwner
    /\ IF conn = 0
       THEN /\ UseNullConn(t, "null_conn")
            /\ UNCHANGED <<ctx, erred, faults>>
       ELSE /\ \E o \in Outcomes("seek") :
                 \/ /\ o = "ok"
                    /\ mpd.state = "stop"
                    /\ ctx' = [ctx EXCEPT ![t].rc = -1, ![t].st = -1]
                    /\ Goto(t, "respond")
                    /\ UNCHANGED <<erred, faults, ub>>
                 \/ /\ o = "ok"
                    /\ mpd.state # "stop"
                    /\ LET p == ParsedTime[ctx[t].seek] IN
                       /\ ctx' = [ctx EXCEPT ![t].pos = SeekTo(p.secs, trackDuration),
                                             ![t].song = mpd.song]
                       /\ ub' = IF p.overread THEN ub \cup {"seek_overread"} ELSE ub
                    /\ Goto(t, "respond")
                    /\ UNCHANGED <<erred, faults>>
                 \/ /\ o # "ok"
                    /\ ctx' = [ctx EXCEPT ![t].cmd = o, ![t].orc = conn,
                                          ![t].failed = TRUE]
                    /\ erred' = IF o = "server" THEN erred \cup {conn} ELSE erred
                    /\ faults' = Charge(o)
                    /\ Goto(t, "sk_err")
                    /\ UNCHANGED ub
    /\ UNCHANGED <<mainPc, tMutex, mMutex, dMutex, tState, store, lastChange,
                   subscribed, subView, conn, nconn, mpd, ext, served>>
    /\ UNCHANGED adapterVars

\* after the unlock: mpd_connection_get_error(mpd_conn) on whatever mpd_conn
\* is now; anything but a server error on it goes to output_printError,
\* which frees that connection.  Reading the error of a connection other
\* than the failed one (remembered in orc), and freeing it, is recorded; a
\* NULL mpd_conn crashes.
ReadConnError(t) ==
    IF conn = 0
    THEN UseNullConn(t, "null_conn") /\ UNCHANGED conn
    ELSE LET same == conn = ctx[t].orc
             server == IF same THEN ctx[t].cmd = "server" ELSE conn \in erred
         IN /\ conn' = IF server THEN conn ELSE 0
            /\ ub' = IF same THEN ub ELSE ub \cup {"stale_conn"}

\* output_seekto's error path; xseek then answers UPNP_TRANSPORT_E_ILL_SEEKTARGET
SeekError(t) ==
    /\ pc[t] = "sk_err"
    /\ ReadConnError(t)
    /\ IF conn = 0 THEN UNCHANGED ctx
       ELSE /\ ctx' = [ctx EXCEPT ![t].rc = -1, ![t].st = -1]
            /\ Goto(t, "respond")
    /\ UNCHANGED <<mainPc, tMutex, mMutex, dMutex, tState, store, lastChange,
                   subscribed, subView, erred, nconn, mpd, faults, ext, served>>
    /\ UNCHANGED adapterVars

-----------------------------------------------------------------------------
(* xplaymode and output_playmode. *)

\* the (single, random, repeat) flags output_playmode sends for a mode
ModeFlags ==
    [m \in {"NORMAL", "REPEAT-ONE", "DIRECT_1", "REPEAT-ALL", "RANDOM"} |->
        CASE m = "NORMAL"     -> <<FALSE, FALSE, FALSE>>
          [] m = "REPEAT-ONE" -> <<TRUE, FALSE, TRUE>>
          [] m = "DIRECT_1"   -> <<TRUE, FALSE, FALSE>>
          [] m = "REPEAT-ALL" -> <<FALSE, FALSE, TRUE>>
          [] m = "RANDOM"     -> <<FALSE, TRUE, FALSE>>]

Flags(m) == <<m.single, m.random, m.repeat>>

\* the first k commands of the list applied to the player
ApplyFlags(m, f, k) ==
    [m EXCEPT !.single = IF k >= 1 THEN f[1] ELSE @,
              !.random = IF k >= 2 THEN f[2] ELSE @,
              !.repeat = IF k >= 3 THEN f[3] ELSE @]

\* xplaymode locks transport_mutex after its own connection check
PlayModeLock(t) ==
    /\ pc[t] = "pm_lock"
    /\ tMutex = NoOwner
    /\ tMutex' = t
    /\ Goto(t, "pm_chk")
    /\ UNCHANGED <<ctx, mainPc, mMutex, dMutex, tState, store, lastChange,
                   subscribed, subView, conn, erred, nconn, mpd, faults, ext, served, ub>>
    /\ UNCHANGED adapterVars

\* output_playmode's check_mpd_connection(TRUE); a failure is answered 712
PlayModeCheck(t) ==
    /\ pc[t] = "pm_chk"
    /\ \E ok \in BOOLEAN :
         /\ CheckMpdConnection(TRUE, ok)
         /\ IF ok THEN Goto(t, "pm_cmd") /\ UNCHANGED ctx
            ELSE /\ ctx' = [ctx EXCEPT ![t].rc = -1, ![t].st = -1,
                                       ![t].failed = TRUE]
                 /\ Goto(t, "x_unlock")
    /\ UNCHANGED <<mainPc, tMutex, mMutex, dMutex, lastChange, subscribed,
                   subView, mpd, ext, served, ub>>
    /\ UNCHANGED <<mutevolume, control>>

\* output_playmode under mpd_mutex.  An unknown mode is -1.  A failure while
\* sending the command list frees the connection and is -1.  The server
\* runs the list up to its first failing command and reports that failure
\* at mpd_response_finish, which frees the connection yet leaves rc 0.
PlayModeCmd(t) ==
    /\ pc[t] = "pm_cmd"
    /\ mMutex = NoOwner
    /\ LET mode == ctx[t].mode IN
       IF conn = 0
       THEN /\ UseNullConn(t, "null_conn")
            /\ UNCHANGED <<ctx, conn, erred, mpd, faults>>
       ELSE IF mode \notin DOMAIN ModeFlags
       THEN /\ ctx' = [ctx EXCEPT ![t].orc = -1]
            /\ Goto(t, "pm_res")
            /\ UNCHANGED <<conn, erred, mpd, faults, ub>>
       ELSE /\ \E o \in IF conn \in erred THEN {"refused"} ELSE Outcomes("mode") :
                 \/ /\ o = "ok"
                    /\ mpd' = ApplyFlags(mpd, ModeFlags[mode], 3)
                    /\ UNCHANGED <<conn, faults>>
                    /\ ctx' = [ctx EXCEPT ![t].orc = 0]
                 \/ /\ o = "server"
                    /\ \E k \in 0..2 : mpd' = ApplyFlags(mpd, ModeFlags[mode], k)
                    /\ conn' = 0 /\ faults' = Charge(o)
                    /\ ctx' = [ctx EXCEPT ![t].orc = 0, ![t].failed = TRUE]
                 \/ /\ o \in {"conn", "refused"}
                    /\ conn' = 0 /\ faults' = Charge(o)
                    /\ ctx' = [ctx EXCEPT ![t].orc = -1, ![t].failed = TRUE]
                    /\ UNCHANGED mpd
            /\ Goto(t, "pm_res")
            /\ UNCHANGED <<erred, ub>>
    /\ UNCHANGED <<mainPc, tMutex, mMutex, dMutex, tState, store, lastChange,
                   subscribed, subView, nconn, ext, served>>
    /\ UNCHANGED adapterVars

\* Mutation: the new mode is stored without looking at output_playmode's rc.
PlayModeResultMut(t) ==
    /\ pc[t] = "pm_res"
    /\ store' = [store EXCEPT !.CurrentPlayMode = ctx[t].mode]
    /\ NotifyLastChange([v \in {"CurrentPlayMode"} |-> ctx[t].mode])
    /\ ctx' = [ctx EXCEPT ![t].rc = IF ctx[t].orc # 0 THEN -1 ELSE 0]
    /\ Goto(t, "x_unlock")
    /\ UNCHANGED <<mainPc, tMutex, mMutex, dMutex, tState, subscribed, conn,
                   erred, nconn, mpd, faults, ext, served, ub>>
    /\ UNCHANGED adapterVars

\* back in xplaymode: 712 on failure, else transport_change_var(CurrentPlayMode)
PlayModeResult(t) ==
    /\ pc[t] = "pm_res"
    /\ IF ctx[t].orc # 0
       THEN /\ ctx' = [ctx EXCEPT ![t].rc = -1, ![t].st = -1]
            /\ UNCHANGED <<store, lastChange, subView>>
       ELSE /\ store' = [store EXCEPT !.CurrentPlayMode = ctx[t].mode]
            /\ NotifyLastChange([v \in {"CurrentPlayMode"} |-> ctx[t].mode])
            /\ UNCHANGED ctx
    /\ Goto(t, "x_unlock")
    /\ UNCHANGED <<mainPc, tMutex, mMutex, dMutex, tState, subscribed, conn, erred,
                   nconn, mpd, faults, ext, served, ub>>
    /\ UNCHANGED adapterVars

-----------------------------------------------------------------------------
(* handle_subscription_request and transport_notify_subscription. *)

SubLock(t) ==
    /\ pc[t] = "sub_lock"
    /\ dMutex = NoOwner
    /\ dMutex' = t
    /\ Goto(t, "sub_poll")
    /\ UNCHANGED <<ctx, mainPc, tMutex, mMutex, tState, store, lastChange,
                   subscribed, subView, conn, erred, nconn, mpd, faults, ext, served, ub>>
    /\ UNCHANGED adapterVars

\* transport_notify_subscription: lock transport_mutex, then
\* output_update_status (update_mpd_status under mpd_mutex; it does nothing
\* when mpd_conn is NULL)
SubPoll(t) ==
    /\ pc[t] = "sub_poll"
    /\ tMutex = NoOwner /\ mMutex = NoOwner
    /\ tMutex' = t
    /\ IF conn # 0 THEN UpdateMpdStatus(mpd, conn, faults)
       ELSE UNCHANGED <<conn, faults, tState, store, mpdvolume, trackDuration>>
    /\ Goto(t, "sub_setlc")
    /\ UNCHANGED <<ctx, mainPc, mMutex, dMutex, lastChange, subscribed, subView,
                   erred, nconn, mpd, ext, served, ub>>
    /\ UNCHANGED <<mutevolume, control>>

\* transport_set_var(LastChange, composite): a new string replaces (frees)
\* the old one unless they are equal; no event is sent.  Then unlock.
SubSetLastChange(t) ==
    /\ pc[t] = "sub_setlc"
    /\ LET p == StatePayload(store) IN
       lastChange' = IF p = lastChange.payload THEN lastChange
                     ELSE [payload |-> p, cell |-> lastChange.cell + 1]
    /\ tMutex' = NoOwner
    /\ Goto(t, "sub_read")
    /\ UNCHANGED <<ctx, mainPc, mMutex, dMutex, tState, store, subscribed,
                   subView, conn, erred, nconn, mpd, faults, ext, served, ub>>
    /\ UNCHANGED adapterVars

\* get_service_var(LastChange) without the service lock: the pointer
SubRead(t) ==
    /\ pc[t] = "sub_read"
    /\ ctx' = [ctx EXCEPT ![t].orc = lastChange.cell]
    /\ Goto(t, "sub_escape")
    /\ UNCHANGED <<mainPc, tMutex, mMutex, dMutex, tState, store, lastChange,
                   subscribed, subView, conn, erred, nconn, mpd, faults, ext, served, ub>>
    /\ UNCHANGED adapterVars

\* xmlescape reads the string behind the pointer; if a notify replaced
\* LastChange meanwhile it reads freed memory
SubEscape(t) ==
    /\ pc[t] = "sub_escape"
    /\ ub' = IF lastChange.cell = ctx[t].orc THEN ub ELSE ub \cup {"lastchange_uaf"}
    /\ ctx' = [ctx EXCEPT ![t].snap = lastChange.payload]
    /\ Goto(t, "sub_accept")
    /\ UNCHANGED <<mainPc, tMutex, mMutex, dMutex, tState, store, lastChange,
                   subscribed, subView, conn, erred, nconn, mpd, faults, ext, served>>
    /\ UNCHANGED adapterVars

\* UpnpAcceptSubscription sends the snapshot as the initial event; then the
\* device lock is released
SubAccept(t) ==
    /\ pc[t] = "sub_accept"
    /\ subscribed' = TRUE
    /\ subView' = Merge(subView, ctx[t].snap)
    /\ dMutex' = NoOwner
    /\ Goto(t, "respond")
    /\ UNCHANGED <<ctx, mainPc, tMutex, mMutex, tState, store, lastChange, conn, erred,
                   nconn, mpd, faults, ext, served, ub>>
    /\ UNCHANGED adapterVars

-----------------------------------------------------------------------------
(* The getters: get_transport_info, get_media_info, get_transport_settings *)
(* and get_position_info, each reading its output arguments with          *)
(* upnp_append_variable; get_device_caps answers nothing.                 *)

\* transport_values[v] holding x is a heap string that transport_set_var
\* frees when it replaces it; AVTransportURI and CurrentPlayMode are left
\* NULL by transport_init, and get_service_var then serves their defaults
OnHeap(v, x) ==
    ~ \/ v = "AVTransportURI" /\ x = NoURI
      \/ v = "CurrentPlayMode" /\ x = "NORMAL"

\* upnp_append_variable locks the service mutex, transport_mutex, and takes
\* the pointer get_service_var returns.  With event.status already set (the
\* bad instance ID of get_transport_info) upnp_add_response copies nothing
\* and fails: the lock is released and the handler returns -1.
GetVarLock(t) ==
    /\ pc[t] = "gv_lock"
    /\ tMutex = NoOwner
    /\ IF ctx[t].st # 0
       THEN /\ ctx' = [ctx EXCEPT ![t].rc = -1]
            /\ Goto(t, "respond")
            /\ UNCHANGED tMutex
       ELSE /\ tMutex' = t
            /\ ctx' = [ctx EXCEPT ![t].val = store[GetterVar[ctx[t].op]]]
            /\ Goto(t, "gv_copy")
    /\ UNCHANGED <<mainPc, mMutex, dMutex, tState, store, lastChange, subscribed,
                   subView, conn, erred, nconn, mpd, faults, ext, served, ub>>
    /\ UNCHANGED adapterVars

\* UpnpAddToActionResponse copies the string behind the pointer and the
\* lock is released.  If a transport_set_var that does not take
\* transport_mutex (update_mpd_status) replaced the value meanwhile, the
\* copy reads freed memory.
GetVarCopy(t) ==
    /\ pc[t] = "gv_copy"
    /\ LET v == GetterVar[ctx[t].op]
           x == ctx[t].val
       IN ub' = IF store[v] # x /\ OnHeap(v, x) THEN ub \cup {"value_uaf"} ELSE ub
    /\ tMutex' = NoOwner
    /\ Goto(t, "respond")
    /\ UNCHANGED <<ctx, mainPc, mMutex, dMutex, tState, store, lastChange,
                   subscribed, subView, conn, erred, nconn, mpd, faults, ext, served>>
    /\ UNCHANGED adapterVars

\* get_position_info locks transport_mutex around output_update_position
GetPosLock(t) ==
    /\ pc[t] = "gp_lock"
    /\ tMutex = NoOwner
    /\ tMutex' = t
    /\ Goto(t, "gp_chk")
    /\ UNCHANGED <<ctx, mainPc, mMutex, dMutex, tState, store, lastChange,
                   subscribed, subView, conn, erred, nconn, mpd, faults, ext, served, ub>>
    /\ UNCHANGED adapterVars

\* output_update_position's check_mpd_connection(FALSE); on STATUS_FAIL it
\* returns, transport_mutex is released and the old position is answered
GetPosCheck(t) ==
    /\ pc[t] = "gp_chk"
    /\ \E ok \in BOOLEAN :
         /\ CheckMpdConnection(FALSE, ok)
         /\ IF ok THEN Goto(t, "gp_run") /\ UNCHANGED <<ctx, tMutex>>
            ELSE /\ ctx' = [ctx EXCEPT ![t].failed = TRUE]
                 /\ tMutex' = NoOwner
                 /\ Goto(t, "gv_lock")
    /\ UNCHANGED <<mainPc, mMutex, dMutex, lastChange, subscribed, subView, mpd,
                   ext, served, ub>>
    /\ UNCHANGED <<mutevolume, control>>

\* under mpd_mutex: mpd_run_status, then update_track_position, which sets
\* the position variables (not modelled) under the caller's
\* transport_mutex; both locks are released.  A failure releases mpd_mutex
\* and looks at the error afterwards (gp_err).
GetPosRun(t) ==
    /\ pc[t] = "gp_run"
    /\ mMutex = NoOwner
    /\ IF conn = 0
       THEN /\ UseNullConn(t, "null_conn")
            /\ UNCHANGED <<ctx, tMutex, erred, faults>>
       ELSE /\ \E o \in Outcomes("status") :
                 \/ /\ o = "ok"
                    /\ tMutex' = NoOwner
                    /\ Goto(t, "gv_lock")
                    /\ UNCHANGED <<ctx, erred, faults>>
                 \/ /\ o # "ok"
                    /\ ctx' = [ctx EXCEPT ![t].cmd = o, ![t].orc = conn,
                                          ![t].failed = TRUE]
                    /\ erred' = IF o = "server" THEN erred \cup {conn} ELSE erred
                    /\ faults' = Charge(o)
                    /\ Goto(t, "gp_err")
                    /\ UNCHANGED tMutex
            /\ UNCHANGED ub
    /\ UNCHANGED <<mainPc, mMutex, dMutex, tState, store, lastChange, subscribed,
                   subView, conn, nconn, mpd, ext, served>>
    /\ UNCHANGED adapterVars

\* output_update_position's error path; then transport_mutex is released
\* and get_position_info answers the old position as a success
GetPosError(t) ==
    /\ pc[t] = "gp_err"
    /\ ReadConnError(t)
    /\ IF conn = 0 THEN UNCHANGED tMutex
       ELSE tMutex' = NoOwner /\ Goto(t, "gv_lock")
    /\ UNCHANGED <<ctx, mainPc, mMutex, dMutex, tState, store, lastChange,
                   subscribed, subView, erred, nconn, mpd, faults, ext, served>>
    /\ UNCHANGED adapterVars

-----------------------------------------------------------------------------
(* output_set_volume and output_set_mute.  They are called by the          *)
(* RenderingControl handlers of upnp_control.c, which is not in the        *)
(* repository: a handler passes its argument on and answers success, as    *)
(* the output calls return nothing.                                        *)

\* atoi's value of DesiredVolume, held to 0..100
ClampVolume(a) == IF a < 0 THEN 0 ELSE IF a > 100 THEN 100 ELSE a

\* check_mpd_connection(TRUE) first; on STATUS_FAIL the call returns
VolumeCheck(t) ==
    /\ pc[t] = "vol_chk"
    /\ \E ok \in BOOLEAN :
         /\ CheckMpdConnection(TRUE, ok)
         /\ IF ~ok
            THEN /\ ctx' = [ctx EXCEPT ![t].failed = TRUE]
                 /\ Goto(t, "respond")
            ELSE IF ctx[t].op = "SetVolume"
            THEN /\ ctx' = [ctx EXCEPT ![t].vol = ClampVolume(@)]
                 /\ Goto(t, "vol_cmd")
            ELSE /\ Goto(t, "mute_save")
                 /\ UNCHANGED ctx
    /\ UNCHANGED <<mainPc, tMutex, mMutex, dMutex, lastChange, subscribed,
                   subView, mpd, ext, served, ub>>
    /\ UNCHANGED <<mutevolume, control>>

\* output_set_mute before it locks: muting saves mpdvolume for the unmute
\* and asks for 0, unmuting asks for the saved volume; both globals are
\* used without mpd_mutex
MuteSave(t) ==
    /\ pc[t] = "mute_save"
    /\ IF ctx[t].mute
       THEN /\ mutevolume' = mpdvolume
            /\ ctx' = [ctx EXCEPT ![t].vol = 0]
       ELSE /\ ctx' = [ctx EXCEPT ![t].vol = mutevolume]
            /\ UNCHANGED mutevolume
    /\ Goto(t, "vol_cmd")
    /\ UNCHANGED <<mainPc, tMutex, mMutex, dMutex, tState, store, lastChange,
                   subscribed, subView, conn, erred, nconn, mpd, faults, ext,
                   served, ub, mpdvolume, control, trackDuration>>

\* under mpd_mutex: mpd_run_set_volume.  A server error (every command on an
\* erred connection) unlocks and returns; any other failure frees the
\* connection (output_printError) and, like success, goes on to keep the
\* new volume locally (output_set_volume also as the one to restore).  The
\* control point is answered success and holds what it asked for: a volume
\* that is not muted, or the mute state it set.
VolumeCmd(t) ==
    /\ pc[t] = "vol_cmd"
    /\ mMutex = NoOwner
    /\ IF conn = 0
       THEN /\ UseNullConn(t, "null_conn")
            /\ UNCHANGED <<ctx, conn, erred, mpd, faults, adapterVars>>
       ELSE LET c == ctx[t] IN
            /\ \E o \in Outcomes("volume") :
                 /\ mpd' = IF o = "ok" THEN [mpd EXCEPT !.volume = c.vol] ELSE mpd
                 /\ conn' = IF o = "conn" THEN 0 ELSE conn
                 /\ erred' = IF o = "server" THEN erred \cup {conn} ELSE erred
                 /\ faults' = Charge(o)
                 /\ mpdvolume' = IF o = "server" THEN mpdvolume ELSE c.vol
                 /\ mutevolume' = IF o # "server" /\ c.op = "SetVolume"
                                  THEN c.vol ELSE mutevolume
                 /\ ctx' = [ctx EXCEPT ![t].failed = @ \/ o # "ok"]
            /\ control' = IF c.op = "SetVolume"
                          THEN [level |-> c.vol, muted |-> FALSE]
                          ELSE [control EXCEPT !.muted = c.mute]
            /\ Goto(t, "respond")
            /\ UNCHANGED ub
    /\ UNCHANGED <<mainPc, tMutex, mMutex, dMutex, tState, store, lastChange,
                   subscribed, subView, nconn, ext, served, trackDuration>>

-----------------------------------------------------------------------------
(* The main thread and the other MPD clients. *)

\* output_loop: output_update_status once, concurrently with the workers
MainPoll ==
    /\ mainPc = "startup"
    /\ ~Crashed
    /\ mMutex = NoOwner
    /\ IF conn # 0 THEN UpdateMpdStatus(mpd, conn, faults)
       ELSE UNCHANGED <<conn, faults, tState, store, mpdvolume, trackDuration>>
    /\ mainPc' = "loop"
    /\ UNCHANGED <<pc, ctx, tMutex, mMutex, dMutex, lastChange, subscribed,
                   subView, erred, nconn, mpd, ext, served, ub>>
    /\ UNCHANGED <<mutevolume, control>>

\* another MPD client, or the end of the track, changes the player
External ==
    /\ ext < MaxExternal
    /\ \E s \in MpdStates \ {mpd.state} :
         /\ s = "stop" \/ mpd.song # NoURI
         /\ mpd' = [mpd EXCEPT !.state = s]
    /\ ext' = ext + 1
    /\ UNCHANGED <<pc, ctx, mainPc, tMutex, mMutex, dMutex, tState, store,
                   lastChange, subscribed, subView, conn, erred, nconn, faults,
                   served, ub>>
    /\ UNCHANGED adapterVars

\* the clients have sent all their requests and every one was answered, or
\* the process has died
Finished ==
    /\ \/ /\ served = MaxRequests
          /\ \A t \in Threads : pc[t] = "idle"
          /\ mainPc = "loop"
       \/ Crashed
    /\ UNCHANGED vars

-----------------------------------------------------------------------------
(* The specification. *)

\* every step of worker t that serves a request it has taken
Serve(t) ==
    \/ XCheck(t) \/ XLock(t) \/ XResult(t) \/ XChange(t) \/ XUnlock(t)
    \/ OutputCheck(t) \/ OutputCmd(t)
    \/ SaLock(t) \/ SetUriCmd(t) \/ SaVars(t)
    \/ SeekCheck(t) \/ SeekRun(t) \/ SeekError(t)
    \/ PlayModeLock(t) \/ PlayModeCheck(t) \/ PlayModeCmd(t) \/ PlayModeResult(t)
    \/ SubLock(t) \/ SubPoll(t) \/ SubSetLastChange(t) \/ SubRead(t)
    \/ SubEscape(t) \/ SubAccept(t)
    \/ GetVarLock(t) \/ GetVarCopy(t)
    \/ GetPosLock(t) \/ GetPosCheck(t) \/ GetPosRun(t) \/ GetPosError(t)
    \/ VolumeCheck(t) \/ MuteSave(t) \/ VolumeCmd(t)
    \/ Respond(t)

Next ==
    \/ \E t \in Threads : Receive(t) \/ Serve(t)
    \/ MainPoll
    \/ External
    \/ Finished

\* a worker that can go on eventually does; libupnp's pool threads and the
\* main thread are scheduled by the OS.  Clients and other MPD clients are
\* not obliged to do anything.
Spec == Init /\ [][Next]_vars /\ \A t \in Threads : WF_vars(Serve(t))
                              /\ WF_vars(MainPoll)

-----------------------------------------------------------------------------
(* Properties. *)

Labels == {"idle", "respond", "crashed", "x_chk", "x_lock", "x_res", "x_change",
           "x_unlock", "oc_chk", "oc_cmd", "sa_lock", "su_cmd", "sa_vars",
           "sk_chk", "sk_run", "sk_err", "pm_lock", "pm_chk", "pm_cmd", "pm_res",
           "sub_lock", "sub_poll", "sub_setlc", "sub_read", "sub_escape",
           "sub_accept", "gv_lock", "gv_copy", "gp_lock", "gp_chk", "gp_run",
           "gp_err", "vol_chk", "mute_save", "vol_cmd"}

TypeOK ==
    /\ pc \in [Threads -> Labels]
    /\ mainPc \in {"startup", "loop"}
    /\ tMutex \in Threads \cup {NoOwner}
    /\ mMutex \in Threads \cup {NoOwner}
    /\ dMutex \in Threads \cup {NoOwner}
    /\ tState \in TransportStates \cup {"UNSET"}
    /\ store.TransportState \in TransportStates
    /\ store.AVTransportURI \in URIs \cup {NoURI}
    /\ store.CurrentTrackURI \in URIs \cup {NoURI}
    /\ subscribed \in BOOLEAN
    /\ conn \in 0..nconn /\ nconn \in 1..MaxConnects
    /\ erred \subseteq 1..nconn
    /\ mpd.state \in MpdStates /\ mpd.song \in URIs \cup {NoURI}
    /\ faults \in 0..MaxFaults /\ ext \in 0..MaxExternal
    /\ served \in 0..MaxRequests
    /\ \A t \in Threads : ctx[t].rc \in {-1, 0} /\ ctx[t].st \in {-1, 0}
    /\ mpd.volume \in 0..100 /\ mpdvolume \in 0..100 /\ mutevolume \in 0..100
    /\ trackDuration \in Int
    /\ store.CurrentTrackDuration \in Seq(STRING)

\* Every path through a handler releases what it locked: a worker that has
\* finished its request (or is about to answer it) holds neither
\* transport_mutex nor mpd_mutex.  The output_* error paths and the
\* goto-out paths are where an unlock can be missed.
NoLockHeldAfterHandler ==
    \A t \in Threads :
        pc[t] \in {"idle", "respond"} => tMutex # t /\ mMutex # t

\* Every request a worker takes is eventually answered: no handler blocks
\* forever on transport_mutex or mpd_mutex.
RequestsComplete ==
    \A t \in Threads : pc[t] # "idle" ~> pc[t] = "idle"

\* no worker is inside a request
Quiescent == \A t \in Threads : pc[t] = "idle"

\* The play mode the service reports is the one MPD plays: whenever no
\* request is in progress, CurrentPlayMode is a mode output_playmode knows
\* and MPD's single/random/repeat flags are the ones it sends for it.
PlayModeMatchesBackend ==
    Quiescent =>
        /\ store.CurrentPlayMode \in DOMAIN ModeFlags
        /\ ModeFlags[store.CurrentPlayMode] = Flags(mpd)

\* An action is answered with success only if the backend did what it was
\* asked: a failed connection check, a skipped output_set_uri or a
\* refused MPD command is never reported to the control point as success.
NoSilentFailure ==
    \A t \in Threads : pc[t] = "idle" /\ ctx[t].resp = "ok" => ~ctx[t].failed

\* The enum transport_state, which the transport handlers switch on, and
\* the TransportState string, which GetTransportInfo and the events report,
\* agree once the state is known, except inside transport_change_var's
\* caller between its two assignments.
StateMirror ==
    tState # "UNSET" /\ (\A t \in Threads : pc[t] # "x_change")
        => tState = store.TransportState

\* A subscribed control point knows the current TransportState whenever no
\* request is in progress: every change of it was evented to the
\* subscriber or was part of its initial snapshot.
EventedStateMatches ==
    subscribed /\ Quiescent => subView.TransportState = store.TransportState

\* No string of transport_values[] is read after it was freed: neither the
\* LastChange string a subscription copies with xmlescape (a concurrent
\* transport_notify_lastchange frees it), nor a value a getter copies
\* into its answer with transport_mutex held (update_mpd_status replaces
\* values without that lock).
TransportValuesNotUsedAfterFree == ub \cap {"lastchange_uaf", "value_uaf"} = {}

\* MPD plays at the volume the control points asked for: whenever no
\* request is in progress, MPD's volume is 0 if the last SetMute muted, and
\* otherwise the last volume set, or the one MPD had when the renderer
\* started; so SetMute(0) brings back the volume that was muted.
VolumeMatchesControl ==
    Quiescent => mpd.volume = IF control.muted THEN 0 ELSE control.level

\* No MPD call is made with mpd_conn NULL, and no error is read from, or
\* freed on, a connection other than the one the call failed on.
MpdConnUsedSafely == ub \cap {"null_conn", "stale_conn"} = {}

\* A connection on which MPD reported an error is discarded before the next
\* request (spec, section 7): once no request is in progress, mpd_conn is
\* not a connection holding an uncleared error.
FailedConnectionDiscarded == Quiescent => conn \notin erred


\* The reference for a Seek target (spec, section 4): a REL_TIME value
\* "H+:MM:SS[.F+]" is H hours, MM minutes and SS seconds, the fraction
\* ignored; defined by its fields, not by walking it like strtol.
Decimal(ds) == SX!FoldLeft(LAMBDA acc, c : 10 * acc + DigitVal(c), 0, ds)
RelTimeFields(s) ==
    LET c1 == SX!SelectInSeq(s, LAMBDA c : c = ":")
        c2 == SX!SelectLastInSeq(s, LAMBDA c : c = ":")
        dot == SX!SelectInSeq(s, LAMBDA c : c = ".")
    IN <<SubSeq(s, 1, c1 - 1), SubSeq(s, c1 + 1, c2 - 1),
         SubSeq(s, c2 + 1, IF dot = 0 THEN Len(s) ELSE dot - 1)>>
IsRelTime(s) ==
    LET f == RelTimeFields(s)
    IN /\ Cardinality({i \in DOMAIN s : s[i] = ":"}) = 2
       /\ \A k \in 1..3 : f[k] # <<>> /\ \A i \in DOMAIN f[k] : IsDigit(f[k][i])
RelTimeSecs(s) ==
    LET f == RelTimeFields(s) IN 3600 * Decimal(f[1]) + 60 * Decimal(f[2]) + Decimal(f[3])

\* A Seek answered with success sent MPD the position the spec asks for
\* (section 8): the target, read only within its bytes, clamped to
\* [0, D] for the duration D of the song it seeks in.  output_seekto
\* clamps with track_duration, which only update_mpd_status sets, and
\* parsetimetosecs steps past the NUL of a target that is not H:MM:SS.
SeekLandsOnTarget ==
    /\ "seek_overread" \notin ub
    /\ \A t \in Threads :
         LET c == ctx[t] IN
         pc[t] = "idle" /\ c.op = "Seek" /\ c.resp = "ok" /\ ~c.failed
         /\ c.song # NoURI /\ Durations[c.song] # 0 /\ IsRelTime(c.seek)
            => c.pos = SeekTo(RelTimeSecs(c.seek), Durations[c.song])

=============================================================================
