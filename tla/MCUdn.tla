------------------------------- MODULE MCUdn -------------------------------
(* A MAC address as the kernel prints it, 02:42:ac:11:00:02.              *)
EXTENDS Udn

MCMac == <<"0", "2", ":", "4", "2", ":", "a", "c", ":", "1", "1", ":",
           "0", "0", ":", "0", "2">>
====
