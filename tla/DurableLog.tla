----------------------------- MODULE DurableLog -----------------------------
(***************************************************************************)
(* What the durable channel log promises, whatever batches, retries,       *)
(* restarts and crashes happen inside it: an event that has been accepted  *)
(* stays queued until its line has been appended to a text log.            *)
(***************************************************************************)
CONSTANT Event

VARIABLES queued,   \* accepted events the queue still holds
          logged    \* events whose line has been appended at least once

durableVars == <<queued, logged>>

Init == queued = {} /\ logged = {}

\* A new event becomes durable.
Accept(e) ==
    /\ e \notin queued \cup logged
    /\ queued' = queued \cup {e}
    /\ UNCHANGED logged

\* The line of a queued event is appended (again, if a retry repeats it).
Append(e) ==
    /\ e \in queued
    /\ logged' = logged \cup {e}
    /\ UNCHANGED queued

\* Events leave the queue, and only events that have been appended do.
Retire(S) ==
    /\ S \subseteq logged
    /\ queued' = queued \ S
    /\ UNCHANGED logged

Next ==
    \/ \E e \in Event : Accept(e) \/ Append(e)
    \/ \E S \in SUBSET queued : Retire(S)

Spec == Init /\ [][Next]_durableVars
=============================================================================
