----------------------------- MODULE DurableKV -----------------------------
(***************************************************************************)
(* What bison-db promises its caller about crashes, without files, slots   *)
(* or indexes: a map from ids to documents that changes one id at a time,  *)
(* and the set of maps a power loss may leave.  A power loss leaves one of *)
(* the maps the store has gone through, whole: never a mixture of two, and *)
(* never one from before the last moment everything was made durable.      *)
(***************************************************************************)
CONSTANTS Ids, Docs, NoDoc

VARIABLES
  kv,       \* the documents the log on disk and in the page cache stands for
  possible  \* the maps a power loss at this moment may leave

Maps  == [Ids -> Docs \cup {NoDoc}]
Empty == [id \in Ids |-> NoDoc]

Init == kv = Empty /\ possible = {Empty}

\* A record reaches the log: the new map joins those that may survive.
Write(id, d) ==
  /\ kv' = [kv EXCEPT ![id] = d]
  /\ possible' = possible \cup {kv'}

\* Older maps become impossible; the current one never does.
Persist ==
  /\ kv' = kv
  /\ possible' \subseteq possible /\ kv \in possible'

PowerLoss == kv' \in possible /\ possible' = {kv'}

Next == Persist \/ PowerLoss \/ \E id \in Ids, d \in Docs \cup {NoDoc} : Write(id, d)

Spec == Init /\ [][Next]_<<kv, possible>>
=============================================================================
