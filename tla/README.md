# TLA+ models of UPnPMPD

This directory holds TLA+ models of the UPnP MediaRenderer in `src/src/`. They
are checked with TLC. Every action is translated from the C source, and
`PROJECT.json` maps each definition to the lines it models.

## The system

- **Action and subscription dispatch** (`upnp_device.c`). libupnp calls
  `event_handler` on a worker thread of its pool for every SOAP action and
  every GENA subscription. `handle_action_request` finds the handler and
  builds the answer. The answer is an error only when the handler returned
  non-zero *and* `upnp_set_error` set `event.status`.
  `handle_subscription_request` runs the service's notify routine under
  `device_mutex`. It then copies every evented variable with
  `get_service_var`/`xmlescape` and accepts the subscription with that
  snapshot.
- **AVTransport** (`upnp_transport.c`). This is the variable store
  `transport_values[]` with the enum `transport_state` beside it. The
  handlers are `xplay`, `xpause`, `xstop`, `xnext`, `xprevious`, `xseek`,
  `set_avtransport_uri` and `xplaymode`, plus the getters. There is also the
  LastChange composite (`transport_notify_lastchange`, which frees the old
  string). Everything is serialised by `transport_mutex`, except `xnext`,
  `xprevious` and `xseek`, which take no lock.
- **MPD adapter** (`output_mpd.c`). This is one libmpdclient connection,
  `mpd_conn`, guarded by `mpd_mutex`:
  - `check_mpd_connection` reconnects lazily.
  - `output_printError` frees the connection on any error other than a server
    error.
  - `update_mpd_status` copies MPD's state and current song into the
    transport store.
  - `output_loop` polls once on the main thread after the device is up.
- **ConnectionManager** (`upnp_connmgr.c`), **RenderingControl**
  (`upnp_control.h`; the `.c` file is not in the repository), **device
  description and UDN** (`upnp_renderer.c`), and **startup** (`main.c`).

The three locks are `device_mutex`, `transport_mutex` and `mpd_mutex`. They
are taken in that order.

## Modules

| module | models |
|---|---|
| `Renderer.tla` | dispatch, AVTransport handlers, MPD adapter, subscription and main poll, as threads |
| `MCRenderer.tla` | instantiation for TLC: two workers `t1, t2`, one URI `u1`, thread symmetry |
| `ConnMgr.tla` | `register_mime_type` and `connmgr_init`: the mime registry and the SinkProtocolInfo buffer, byte by byte; then `upnp_device_init` and the service's SOAP actions |
| `ProtocolList.tla` | the abstract protocol list: types registered, then one comma-separated listing published when the device comes up, or a failure; answers carry that listing or no Sink |
| `MCConnMgr.tla` | three mime types given by their characters; every sequence of up to three registrations; the three actions and one unknown action |
| `Udn.tla` | the MAC merge loop of `upnp_renderer_new` over the UDN template |
| `MCUdn.tla` | one MAC address as the kernel prints it |

### ConnMgr

The state is:
- the pending registrations and a ghost list of the calls made;
- `supported_types`, head first;
- connmgr_init's `bufsize`, the offset `p - buf`, and the buffer as a
  function from `0..bufsize-1` to one-character strings;
- a ghost `overrun` flag;
- `answer`, the SOAP answer to the last request: the action, whether libupnp
  sends it as an error, and the OUT arguments as (name, value) pairs.

`Register` is one call of output_mpd_init's loop, and `StartInit` is
upnp_device_init calling the renderer's init. `MainExits` is main giving up
after the registrations: output_mpd_init cannot reach MPD outside test
mode, or getIfInfo fails. `InitEntry` is one turn of
connmgr_init's loop: grow with realloc, keep the offset, and copy the three
pieces. A failed allocation is its other disjunct. `InitFinish` is
`*(--p) = '\0'`.

When nothing is registered, connmgr_init leaves the variable NULL and
`get_service_var` serves connmgr_defaults' `"http-get:*:audio/mpeg:*"`
(`DefaultSinkInfo`). The abstract list promises that default for an empty
registry.

`DeviceInit` is the rest of upnp_device_init: it brings the service up
(phase `"serving"`) or fails, and main exits. `Serve` is one request handed
to `handle_action_request` (`HandleActionRequest`), with the action name
from `Actions`, the ConnectionID argument present or missing, and each of
up to seven `UpnpAddToActionResponse` calls succeeding or failing
(`AddOutcomes`; they allocate). The handlers are pure operators over an
event record `[status, errCode, result]`:
- `AddResponse` is upnp_add_response. A failed add drops the result and
  sets ErrCode, but not `event->status`, so the next add starts a new
  result.
- `AppendVariable` is upnp_append_variable over `GetServiceVar`, which is
  get_service_var over connmgr_values (Sink is the buffer, Source is `""`)
  and `Defaults`.
- `GetProtocolInfo`, `GetCurrentConnIds` and `GetCurrentConnInfo` (with the
  recursive `AppendConnInfo` and its `if (rc) goto out`) are the three
  handlers.
- `HandleActionRequest` answers an unknown action with 401, turns ErrCode
  into success when the handler returns 0, and answers an error otherwise.

connmgr_values never change after connmgr_init, and connmgr_mutex only
guards reads, so requests are served one at a time.

`ConnMgr` is shown to implement `ProtocolList`. `PL == INSTANCE ProtocolList
WITH ...` maps the registry to the set `Range(supported)`, the phase to
`"open"` until the device is up, `"published"` while it serves, or
`"failed"`, the Sink of the last answer to the abstract `served`, and the
published string to
`SinkProtocolInfo`: the bytes of the buffer before its first NUL (`CString`),
or the empty default when nothing was registered. `ImplementsProtocolList ==
PL!Spec` is checked as a PROPERTY. The abstract `Publish` allows any order of
the registered types but each exactly once (`Listings`, by `SetToSeqs` and
the recursive `Join`), so a lost, doubled or misspelt entry, a missing NUL or
an alias that is not registered breaks the refinement, and so does an
answer served before the device is up or with a Sink other than the list. The program registers one fixed table of 25 types. The model checks
the registry and the buffer arithmetic over every sequence of up to three
registrations of `audio/mpeg`, its alias `audio/x-mpeg`, and `audio/flac`.
These cover repeats, the alias, the alias registered first, and the empty
list.

### Udn

`Template` is the literal template. `MergePair` is one turn of the loop that
copies MAC digit pairs to offsets `29 + 2k`.

### Renderer

**State.**
- `pc` and `ctx` give each worker's program point and its locals (`rc`,
  `event.status`, and output_*'s return value).
- `tMutex`, `mMutex` and `dMutex` hold the lock owners.
- `tState` is the enum `transport_state`. Its initial value -1 is `"UNSET"`.
- `store` holds the transport strings: TransportState, AVTransportURI,
  CurrentTrackURI, CurrentPlayMode and CurrentTrackDuration (the last as
  its characters). `lastChange` is the LastChange payload
  together with a heap-cell counter, which is bumped on every free.
- `subscribed` and `subView` record what one control point has been told.
- `conn` is `mpd_conn` (0 is NULL, k is the k-th connection). `erred` holds
  the connections with an uncleared MPD server error.
- `mpd` is the MPD server's player state, its one-entry queue and its mode
  flags.
- `trackDuration` is output_mpd.c's `track_duration`, 0 at start. Only
  update_mpd_status sets it: MPD's duration of the current song
  (`Durations`), or for a stream the parsed CurrentTrackDuration.
- `mpdvolume` and `mutevolume` are output_mpd.c's file-scope ints, both 0
  at start; MPD's own volume is `mpd.volume`, drawn from `Volumes`. The ghost
  `control` is what the control point last asked for: a level and a mute
  flag.
- The ghost `ub` records undefined behaviour that was reached: a NULL
  connection, a stale connection, or a use of a transport string after
  `transport_set_var` or `transport_notify_lastchange` freed it
  (`"lastchange_uaf"`, `"value_uaf"`).

**Steps.** A thread step runs from one lock, unlocked shared read or shared
write to the next. Code that runs under `mpd_mutex` and touches only what that
lock guards is one step. Each step is an action named after the code it
stands for:
- `XCheck`, `XLock`, `XResult`, `XChange` and `XUnlock` are the xplay, xpause
  and xstop skeleton. `FsmStep` is their switch.
- `OutputCheck` and `OutputCmd` are output_play, output_stop, output_pause,
  output_next and output_prev.
- `SaLock`, `SetUriCmd` and `SaVars` are set_avtransport_uri and
  output_set_uri.
- `SeekCheck`, `SeekRun` and `SeekError` are xseek and output_seekto.
  `SeekRun` parses the Target with `ParseTimeToSecs`, clamps it to
  `trackDuration` (`SeekTo`) and records the position and song it sent to
  MPD in the worker's locals.
- The time operators are pure. `Strtol` (over `DigitRun`) is strtol on a
  string given by its characters. `ParseTimeToSecs` is parsetimetosecs: three
  strtol calls, stepping one byte past each number, which reads past the NUL
  of a target with fewer than two separators (recorded as
  `"seek_overread"`). `FormatHMS` is update_mpd_status's
  `snprintf(buf, 10, "%02d:%02d:%02d")`. `ParsedTime` and
  `FormattedDuration` hold their results over the finite constant strings,
  so TLC computes them once. `SaVars` also stores the metadata duration
  (`MetaDurations`; `<<>>` when the res element has none).
- `PlayModeLock`, `PlayModeCheck`, `PlayModeCmd` and `PlayModeResult` are
  xplaymode and output_playmode.
- The `Sub*` steps are handle_subscription_request and
  transport_notify_subscription.
- `GetVarLock` and `GetVarCopy` are upnp_append_variable for the getters
  (`GetterVar` names the variable each one reads): `get_service_var` under
  `transport_mutex`, then the copy into the answer and the unlock, still
  under the lock, as upnp_device.c:123-135 does. update_mpd_status does
  not take `transport_mutex`, so a value it frees between the two steps, on
  the heap per `OnHeap`, is a use-after-free.
  GetTransportInfo alone ignores a bad instance ID
  (`ReturnsOnBadInstanceID`); GetDeviceCaps does no work (`NoWorkOps`).
- `GetPosLock`, `GetPosCheck`, `GetPosRun` and `GetPosError` are
  get_position_info and output_update_position: `check_mpd_connection`,
  `mpd_run_status` and its error path, which re-reads `mpd_conn` unlocked
  (`ReadConnError`, shared with `SeekError`).
- `VolumeCheck`, `MuteSave` and `VolumeCmd` are output_set_volume and
  output_set_mute: the clamp to 0..100 (`ClampVolume`), the unlocked save of
  `mpdvolume` into `mutevolume` on mute or the restore of `mutevolume` on
  unmute, and `mpd_run_set_volume` under `mpd_mutex`. The RenderingControl
  handlers that call them are not in the repository; the request carries the
  argument as `atoi` reads it.
- `MainPoll` is output_loop.

**Environment.**
- MPD may answer any call with success, a server error, or (at the sites in
  `ConnErrorSites`) a connection error, within `MaxFaults`.
- libmpdclient's sticky error is modelled: a connection in `erred` refuses
  every command with the same server error.
- Another MPD client may change the player (`External`).
- A call on a NULL `mpd_conn` crashes the process: every thread goes to
  `"crashed"`.

## Runs

The runs use `MCRenderer.tla`, except connmgr (`MCConnMgr.tla`) and udn
(`MCUdn.tla`).

| run | cfg | expect | shows |
|---|---|---|---|
| core | MCRenderer.cfg | pass | with no MPD failures, CurrentPlayMode agrees with MPD whenever no request is in progress, and every request is answered across the three nested locks |
| errors | MCRendererErrors.cfg | pass | with failures at add, seek, mode, status and volume, bad instance IDs, and every getter and volume request, a handler that reaches its end holds no lock |
| lock_leak | MCRendererLockLeak.cfg | violation | a connection failure in output_play/output_stop leaks mpd_mutex |
| silent | MCRendererSilent.cfg | violation | a failed reconnect in xplay is answered as success (GetPositionInfo, which cannot report a failure, is sent too) |
| mirror | MCRendererMirror.cfg | violation | transport_state and the TransportState string disagree: Next's update_mpd_status, holding no transport_mutex, writes both between xplay's assignments at upnp_transport.c:1021 and 1022 |
| uaf | MCRendererUaf.cfg | violation | GetTransportInfo, under transport_mutex, copies a TransportState string that the main poll's update_mpd_status, holding only mpd_mutex, freed after get_service_var returned it (the subscription path with LastChange is the same hazard) |
| null_conn | MCRendererNullConn.cfg | violation | output_set_uri's unlocked NULL check is stale by the time it calls MPD (Seek and GetPositionInfo, which read the connection's error after unlocking, are sent too) |
| playmode | MCRendererPlayMode.cfg | violation | SetPlayMode succeeds while MPD has only part of the new flags |
| sticky | MCRendererSticky.cfg | violation | an MPD server error leaves the connection in place with its error uncleared, so commands on it are refused until an update_mpd_status or SetPlayMode frees it |
| evented | MCRendererEvented.cfg | violation | a state change found by update_mpd_status is not evented |
| connmgr | MCConnMgr.cfg | pass | connmgr_init never writes outside its buffer; registry, buffer and service implement `ProtocolList`; a successful GetCurrentConnectionInfo carries all seven OUT arguments although adds may fail |
| udn | MCUdn.cfg | violation | the UDN has a 13-digit node group, so it is not a UUID |

Each violation run is a finding in `PROJECT.json`. Each one says what the code
does and what the spec or the code's own comment says instead.

`MCRendererVolume.cfg` checks `VolumeMatchesControl`: when no request is in
progress, MPD's volume is 0 if the control point muted, and otherwise the
level it last set. TLC finds it violated by one `SetMute(0)`: output_set_mute
restores `mutevolume`, which is 0 unless a mute made after a status poll
saved `mpdvolume`, and a second mute overwrites the saved level with 0. The
cfg is not yet one of the runs of `PROJECT.json`; the hazard at
output_mpd.c:600 cites it.

`MCRendererSeek.cfg` checks `SeekLandsOnTarget`: a Seek answered with
success sent MPD the target read within its bytes, clamped to [0, D] for
the duration D of the song (spec, section 8). The reference `RelTimeSecs`
reads an `H+:MM:SS[.F+]` value by its fields, not the way strtol walks it.
TLC finds the property violated in two ways:
- a Target `"2"`, as a TRACK_NR seek sends it (xseek ignores Unit), makes
  parsetimetosecs read past the NUL;
- with only `"0:02:00"` (`Targets <- MCTargets`), a Seek while MPD already
  plays at startup, before output_loop's poll, is clamped to a
  `track_duration` of 0. The same happens after SetAVTransportURI queues
  another song: track_duration keeps the old song's value until a command
  polls the status.

This cfg is not yet one of the runs either. The hazards at output_mpd.c:187
and output_mpd.c:424 cite it.

`AnswerComplete(a)` in `ConnMgr` says that an answer to action `a` sent as
success carries all of a's OUT arguments (`OutArgs`). The connmgr run checks
it for GetCurrentConnectionInfo (`ConnectionInfoComplete`). For
GetProtocolInfo and GetCurrentConnectionIDs, TLC finds it violated under
`MCConnMgr.cfg` by one failed allocation. get_protocol_info returns
`event->status` and get_current_conn_ids returns 0. A failed add sets only
ErrCode, which handle_action_request then overwrites with success, so the
answer is a success without the argument. No run checks these two yet; the
hazard at upnp_connmgr.c:292 records them.

### Bounds

- **Two workers** are enough for every race found here: each race needs two
  actors, and the main poll is a third.
- **Two requests per behaviour** (`MaxRequests`). Each hazard above needs one
  request racing one other request or the main poll.
- **One URI**, and the empty value. With one URI the race of
  update_mpd_status adopting MPD's song against SetAVTransportURI
  (output_mpd.c:825) cannot show, so no run checks it; see the hazard list.
- **Two play modes:** `RANDOM` is known to output_playmode, and `REPEAT_ONE`
  is advertised by the service but unknown to output_playmode.
- **One external player change.**
- **At most one MPD failure and two connections** in the error run. Together
  these give a failure, a reconnect and the sticky-error path.
- **One instance ID**, except in the error run, which adds 1 to cover the
  refusal path.
- **One 90-second track and the Seek target `"0:02:00"`** in the pass runs,
  so a Seek takes the clamp.
- **Every action of the ConnectionManager and one it lacks, and every
  success/failure pattern of the seven adds** in the connmgr run. A failure
  at each position of get_current_conn_info's chain is therefore covered.
- **One start volume (50) and one SetVolume argument (150).** 150 takes the
  clamp, and 50 differs from both 0 and 100, so a restore of a wrong saved
  level is visible.

The state counts are in the TLC output. The core run has about 261,000
distinct states and the error run about 1,228,000.

### Fairness

Each worker step (`Serve(t)`) and the main poll are weakly fair. libupnp's
pool threads and the main thread are OS threads, and a thread that can run
eventually does. Clients and other MPD clients are not obliged to act. A
thread blocked on a lock is not enabled, so weak fairness does not hide a
leaked lock: `RequestsComplete` fails when a lock is never released (see the
`SaVars` mutant). `MainPoll` is fair because output_loop runs it once on
the main thread after the device is up. A property that transport_state
eventually leaves -1 would follow from that fairness alone and is not
checked; what matters at upnp_transport.c:441 is that requests before the
poll are answered success without acting, which no run checks yet.

## Not modelled yet, and the plan

- **get_track_metadata**, the DIDL-Lite text update_mpd_status makes up
  from MPD's tags when there is no metadata. It is formatting only; no
  property reads the metadata strings.
- **Metadata durations that are not H:MM:SS.** MetaDurations are assumed
  well formed; the over-read of parsetimetosecs is checked on Seek
  targets.
- **Validation side effects of SetAVTransportURI** (upnp_transport.c:690): a
  property saying a validation error has no effect.
- **RenderingControl.** The handler file is not in the repository. Of
  output_mpd.c, output_get_volume (a read of MPD's status) is not modelled;
  the getters and setters of the other RenderingControl variables have no
  code here at all.
- **Out of reach:** main.c (option parsing, ioctl-based interface lookup,
  the crash handler), logging, and libupnp registration. These are
  sequential I/O at startup, and the model starts after them: MPD is
  connected (output_mpd_init exits otherwise) and transport_init has run.
