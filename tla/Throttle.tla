------------------------------ MODULE Throttle ------------------------------
(***************************************************************************)
(* The fixed-window limiters of the services: a table of per-address slots *)
(* of fixed size, and server-wide windows.  A window starts when it is     *)
(* first used and is over a fixed time later; a limit of 0 is no limit.    *)
(* Everything is in memory and empty when the server starts.               *)
(***************************************************************************)
EXTENDS Integers

CONSTANTS None,         \* no address, no account
          ThrottleSlots \* IRCD_NICKSERV_REGISTRATION_THROTTLE_SLOTS

ASSUME ThrottleConstants == ThrottleSlots \in Nat \ {0}

NoWindow == [start |-> 0, count |-> 0]
NoSlots == [i \in 1..ThrottleSlots |-> [ip |-> None, start |-> 0, count |-> 0]]

Over(w, now, length) == w.start = 0 \/ now < w.start \/ now - w.start >= length

\* The table is searched from the front.
FirstOf(slots) == CHOOSE i \in slots : \A j \in slots : i <= j

\* A live slot of another address is never taken: a full table refuses.
Mut_evict_live(table, ip, now, length) ==
    LET own == {i \in DOMAIN table : table[i].ip = ip}
    IN IF own # {} THEN FirstOf(own) ELSE FirstOf(DOMAIN table)

throttle_slot(table, ip, now, length) ==
    LET own  == {i \in DOMAIN table : table[i].ip = ip}
        free == {i \in DOMAIN table : table[i].ip = None \/ Over(table[i], now, length)}
    IN CASE own # {}  -> FirstOf(own)
         [] own = {} /\ free # {} -> FirstOf(free)
         [] OTHER     -> 0

\* The table once the slot of an address is found or claimed.
Claimed(table, ip, now, length) ==
    LET i == throttle_slot(table, ip, now, length)
    IN IF i = 0 \/ (table[i].ip = ip /\ ~Over(table[i], now, length)) THEN table
       ELSE [table EXCEPT ![i] = [ip |-> ip, start |-> now, count |-> 0]]

Admits(table, ip, limit) == \E i \in DOMAIN table : table[i].ip = ip /\ table[i].count < limit

Charged(table, ip) == [i \in DOMAIN table |->
    IF table[i].ip = ip THEN [table[i] EXCEPT !.count = @ + 1] ELSE table[i]]

Rolled(w, limit, now, length) ==
    IF limit # 0 /\ Over(w, now, length) THEN [start |-> now, count |-> 0] ELSE w
Full(w, limit) == limit # 0 /\ w.count >= limit
Counted(w, limit) == IF limit # 0 THEN [w EXCEPT !.count = @ + 1] ELSE w
=============================================================================
