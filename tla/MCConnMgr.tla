----------------------------- MODULE MCConnMgr -----------------------------
(* Three mime types: the one with an alias, its alias, and another of the  *)
(* same length; every sequence of up to three register_mime_type calls.   *)
(* Then every request of the service, each allocation of its answer       *)
(* succeeding or failing.                                                  *)
EXTENDS ConnMgr

MCChars ==
    [m \in {"audio/mpeg", "audio/x-mpeg", "audio/flac"} |->
        CASE m = "audio/mpeg" ->
                <<"a", "u", "d", "i", "o", "/", "m", "p", "e", "g">>
          [] m = "audio/x-mpeg" ->
                <<"a", "u", "d", "i", "o", "/", "x", "-", "m", "p", "e", "g">>
          [] OTHER ->
                <<"a", "u", "d", "i", "o", "/", "f", "l", "a", "c">>]

MCCalls == BoundedSeq(DOMAIN MCChars, 3)

\* the three actions of the service and one it does not have
MCActions == {"GetProtocolInfo", "GetCurrentConnectionIDs",
              "GetCurrentConnectionInfo", "PrepareForConnection"}
====
