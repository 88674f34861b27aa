----------------------------- MODULE MCRenderer -----------------------------
(* Model values and bounds for checking Renderer with TLC. *)
EXTENDS Renderer, TLC

CONSTANTS t1, t2, u1, u2

MCThreads == {t1, t2}
MCURIs == {u1}

\* a 90-second track, and the Seek target "0:02:00" past its end
MCDurations == [u \in MCURIs |-> 90]
MCTargets == {<<"0", ":", "0", "2", ":", "0", "0">>}

\* Seek targets of the REL_TIME form and of a unit such as TRACK_NR
\* ("0:01:00" and "2"), and a metadata duration "0:01:30"
MCSeekTargets == {<<"0", ":", "0", "1", ":", "0", "0">>, <<"2">>}
MCMetaDurations == {<<"0", ":", "0", "1", ":", "3", "0">>}

\* the workers of libupnp's pool are interchangeable
ThreadSymmetry == Permutations(MCThreads)
=============================================================================
