------------------------- MODULE MCChannelAuthority -------------------------
(* Small instances of ChannelAuthority for TLC.                            *)
EXTENDS ChannelAuthority, TLC

CONSTANTS x1, x2, f, g, c1, c2, m1

(* The one mask matches the second client.                                 *)
OneMask == {<<m1, x2>>}

Plus(letter, arg)  == [letter |-> letter, add |-> TRUE, arg |-> arg]
Minus(letter, arg) == [letter |-> letter, add |-> FALSE, arg |-> arg]
Alone(set) == {<<d, None>> : d \in set}

(* Privileges granted and taken, one at a time and two in a line, and each *)
(* kind of parameter.                                                      *)
MembershipLines ==
    Alone({Plus("a", x2), Plus("b", m1), Plus("B", c1), Plus("B", c2)})
      \cup {<<Plus("q", x2), Minus("o", x1)>>}

ServiceLines == Alone({Plus("o", x2), Plus("b", m1), Minus("t", None)})
LockSpace == {{"t"}}

AdmissionLines == Alone({Plus("b", m1), Plus("B", c2), Plus("l", 1)})
InviteLock == {{"i"}}

BanLines == Alone({Plus("b", m1), Plus("t", None)})
=============================================================================
