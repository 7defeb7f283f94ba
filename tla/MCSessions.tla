----------------------------- MODULE MCSessions -----------------------------
(***************************************************************************)
(* Instances of Sessions for TLC.                                          *)
(***************************************************************************)
EXTENDS Sessions, TLC

CONSTANTS p1, p2, i1, i2, s1, auto1, default2, named1, named2

\* Two identities, and the three ways to ask for a display; every profile that
\* does not get the default display falls back on the same slot.
McVersions == {auto1, default2, named1, named2}
McIdentOf == [v \in McVersions |-> IF v \in {auto1, named1} THEN i1 ELSE i2]
McWants   == [v \in McVersions |-> CASE v = auto1    -> "auto"
                                     [] v = default2 -> "default"
                                     [] OTHER        -> "named"]
McSlotOf  == [v \in McVersions |-> s1]

\* A file written by hand may give two profiles one identity.
McPair(v, w) == [p \in Profiles |-> IF p = p1 THEN v ELSE w]
McConfigs == {McPair(auto1, auto1), McPair(named1, named2), McPair(named2, named1)}

\* Profiles are told apart by what they are saved with only.
Symmetric == Permutations(Profiles)

=============================================================================
