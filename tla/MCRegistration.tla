--------------------------- MODULE MCRegistration ---------------------------
(* Small instances of Registration for TLC.                                *)
EXTENDS Registration, TLC

CONSTANTS s1, s2, n1, n2, gw, ip1

SlotSymmetry == Permutations(Slots)
ClientSymmetry == Permutations(Slots) \cup Permutations(Nicks)

KlineSpace   == {<<"kip", ip1>>, <<"khost", ip1>>}
ZlineSpace   == {<<"z", ip1>>}
GeobanSpace  == {<<"g", ip1>>}
AllBans      == KlineSpace \cup ZlineSpace \cup GeobanSpace
LimitElines  == {<<"m", ip1>>}
KlineElines  == {<<"k", ip1>>}
GeobanElines == {<<"G", ip1>>}
=============================================================================
