---------------------------- MODULE MCNetworkFeed ----------------------------
(***************************************************************************)
(* The code's own times in ticks of 7.5 seconds, a request's timeout (10   *)
(* s) rounded down, or of 5 seconds, where a request can take a while and  *)
(* yet succeed; the wait for an ATIS (27 s) rounded up, the back-off cut   *)
(* after its second step; some changes of the settings, and an ATIS        *)
(* request.                                                                *)
(***************************************************************************)
EXTENDS NetworkFeed, TLC

MCBackoff     == <<4, 8>>
MCBackoffOf5s == <<6, 12>>
=============================================================================
