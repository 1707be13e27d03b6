-------------------------- MODULE MCStaffingLedger --------------------------
EXTENDS StaffingLedger, TLC

CONSTANTS m1, m2, k1, k2, k3, c1, c2, p1, p2, e1, key1, key2, key3

\* Managers, their keys and previews are interchangeable.
Same == Permutations({m1, m2}) \cup Permutations({p1, p2})
SameKeys == Permutations({k1, k2, k3}) \cup Permutations({key1, key2, key3})

NoOff == {}
SecondDayOff == {<<e1, 2>>}
=============================================================================
