---------------------------- MODULE MCEventFeed ----------------------------
(* Two senders (two goroutines in maybeAcceptBlock) and three subscribers. *)
EXTENDS EventFeed
=============================================================================
