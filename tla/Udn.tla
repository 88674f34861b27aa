-------------------------------- MODULE Udn --------------------------------
(***************************************************************************)
(* The device's unique name (src/src/upnp_renderer.c, upnp_renderer_new):  *)
(* main reads the MAC address of the network interface as 17 characters    *)
(* "hh:hh:hh:hh:hh:hh" and upnp_renderer_new copies its six pairs of hex   *)
(* digits over the last part of a UUID template, one pair per turn.        *)
(* Strings are sequences of one-character strings.                         *)
(***************************************************************************)
EXTENDS Integers, Sequences

CONSTANTS
    Mac          \* the 17 characters main read from /sys/class/net/<if>/address

HexDigits == {"0", "1", "2", "3", "4", "5", "6", "7", "8", "9",
              "a", "b", "c", "d", "e", "f"}

ASSUME Len(Mac) = 17

VARIABLES
    udn,         \* the strdup'ed template being filled in
    k,           \* the loop counter
    mac          \* how far mac_addr has advanced, in characters

vars == <<udn, k, mac>>

\* render_device.udn, the template
Template ==
    <<"u", "u", "i", "d", ":", "1", "b", "4", "2", "6", "9", "6", "d", "-",
      "0", "d", "6", "2", "-", "4", "a", "f", "2", "-", "a", "d", "b", "8",
      "-", "-", "a", "a", "b", "b", "c", "c", "d", "d", "e", "e", "f", "f">>

Init ==
    /\ udn = Template
    /\ k = 0
    /\ mac = 0

\* one turn: udn[29 + 2k] and udn[29 + 2k + 1] take the pair at mac_addr,
\* which then moves past the pair and its colon (C offsets are 0-based)
MergePair ==
    /\ k < 6
    /\ udn' = [udn EXCEPT ![29 + 2 * k + 1] = Mac[mac + 1],
                          ![29 + 2 * k + 2] = Mac[mac + 2]]
    /\ mac' = mac + 3
    /\ k' = k + 1

Done ==
    /\ k = 6
    /\ UNCHANGED vars

Next == MergePair \/ Done

Spec == Init /\ [][Next]_vars

-----------------------------------------------------------------------------

\* The device is announced under a UDN of the form uuid:<UUID>, the UUID
\* in its 8-4-4-4-12 hex-digit form, once upnp_renderer_new has merged the
\* whole MAC address into the template.
UdnIsUuid ==
    k = 6 =>
        /\ Len(udn) = 41
        /\ SubSeq(udn, 1, 5) = <<"u", "u", "i", "d", ":">>
        /\ \A i \in 6..41 :
              IF i - 5 \in {9, 14, 19, 24} THEN udn[i] = "-"
              ELSE udn[i] \in HexDigits

====
