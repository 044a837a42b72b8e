----------------------------- MODULE MCDexStream -----------------------------
(***************************************************************************)
(* Settings of DexStream for model checking. Together they reach what the   *)
(* properties speak of; one with all of it at once would be too large.      *)
(***************************************************************************)
EXTENDS DexStream

(* Two subscriptions, overlapping calls that are given up: with a flush     *)
(* loop, and with a failure instead.                                        *)
TwoStreams ==
  {[timer |-> t, ordered |-> FALSE, giveUp |-> TRUE, consumer |-> FALSE, streams |-> 2,
    requests |-> IF t THEN 2 ELSE 3, events |-> 0,
    failures |-> IF t THEN 0 ELSE 1] : t \in BOOLEAN}

(* Events that overflow the queue and its feed, or come late, with a reader. *)
ManyEvents ==
  {[timer |-> TRUE, ordered |-> TRUE, giveUp |-> TRUE, consumer |-> TRUE, streams |-> 1,
    requests |-> 1, events |-> 3, failures |-> 1]}

(* Filters that wait for room, and failures up to the cap of the backoff.   *)
ManyRequests ==
  {[timer |-> FALSE, ordered |-> FALSE, giveUp |-> FALSE, consumer |-> FALSE, streams |-> 1,
    requests |-> 3, events |-> 1, failures |-> 3]}

AllSettings == TwoStreams \cup ManyEvents \cup ManyRequests

(* A subscription and calls that wait for it. *)
OneCall ==
  {[timer |-> TRUE, ordered |-> FALSE, giveUp |-> FALSE, consumer |-> FALSE, streams |-> 1,
    requests |-> 1, events |-> 0, failures |-> 0]}
=============================================================================
