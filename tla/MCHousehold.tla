---------------------------- MODULE MCHousehold ----------------------------
(* Household on small instances. *)
EXTENDS Household, TLC

CONSTANTS o1, o2, u1, u2, i1, i2, i3, t1, t2

OneOwner == {o1}
TwoOwners == {o1, o2}
OwnerAndOne == {o1, u1}
OwnerAndTwo == {o1, u1, u2}
OneInvite == {i1}
TwoInvites == {i1, i2}
ThreeInvites == {i1, i2, i3}
OneThread == {t1}
TwoThreads == {t1, t2}
Symmetric == Permutations({i1, i2, i3}) \union Permutations({t1, t2}) \union Permutations({u1, u2})
=============================================================================
