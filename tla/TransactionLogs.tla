--------------------------- MODULE TransactionLogs ---------------------------
(***************************************************************************)
(* From the log of a transaction to its events (_transaction_events of     *)
(* grpc_client.py): the lines of data that can be decoded under the        *)
(* program LogScope gives them make the list of log events, which LogDedup *)
(* joins with the events of the instructions.                              *)
(*                                                                         *)
(* A setting also has the events of a transaction: how many, about which   *)
(* subjects, which kinds a program tells, and in which lists they show.    *)
(***************************************************************************)
EXTENDS LogScope, LogDedup

CONSTANT
  Selective \* programs under which only lines of their own are decoded

ASSUME SelectiveAssumption == Selective \subseteq Programs

(* Where an event of a kind can show. *)
ASSUME SeenAssumption ==
  \A s \in Settings : \A k \in DOMAIN s.seen : k \in Kinds /\ s.seen[k] \subseteq SUBSET Sources(k)

all == <<vars, lists>>

BeginTransaction == Init /\ NoEvents

(* Under a program that is not known, and under none, a line is decoded by its
   discriminator alone. *)
Decodable == Top(active) \in Selective => Top(active) = Top(running)

(* The running program does something, which shows where "seen" says. *)
Logged(k, s, seen) ==
  /\ "log" \in seen
  /\ \E text \in IF k = "liquidity" THEN {"short", "data"} ELSE {"data"} :
       \/ /\ Tell(text, k = "create")
          /\ Invoke(k, s, IF Decodable THEN seen ELSE seen \ {"log"})
       \/ /\ TellUnseen(text)
          /\ Invoke(k, s, seen \ {"log"})

Unlogged(k, s, seen) ==
  /\ "log" \notin seen /\ running # <<>>
  /\ Invoke(k, s, seen)
  /\ UNCHANGED vars

Does(k, s, seen) ==
  /\ Len(invocations) < setting.invocations
  /\ running # <<>> => k \in setting.tells[Top(running)]
  /\ Logged(k, s, seen) \/ Unlogged(k, s, seen)

Step ==
  \/ Silent /\ UNCHANGED lists
  \/ \E k \in DOMAIN setting.seen, s \in setting.subjects : \E seen \in setting.seen[k] : Does(k, s, seen)

TransactionSpec == BeginTransaction /\ [][Step]_all
=============================================================================
