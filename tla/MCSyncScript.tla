---------------------------- MODULE MCSyncScript ----------------------------
(* A small instance of SyncScript for TLC: three attempts of three ticks,  *)
(* a total of eight, waits of one and two.  Two full attempts and a wait   *)
(* fit in the total, three do not, as with the example configuration.      *)
EXTENDS SyncScript

Delays == [a \in 1 .. MaxAttempts |-> IF a = 1 THEN 1 ELSE 2]

=============================================================================
