------------------------------- MODULE MCEnvHash -------------------------------
(***************************************************************************)
(* Instances of EnvHash: three names, all ways for them to collide or not.  *)
(***************************************************************************)
EXTENDS EnvHash

CONSTANTS a, b, c, v1, v2

line(n, v) == [name |-> n, value |-> v]

(* A text that sets and deletes, one that names a variable twice, and one   *)
(* with a line that has no name.                                            *)
MCTexts == { <<line(a, v1), line(b, None)>>,
             <<line(a, v1), line(c, v2), line(a, v2)>>,
             <<line(b, v1), line(NoName, v1), line(c, v1)>> }

MCLists == { {}, {a, b} }

MCDenied == { {}, {a} }

MCHashes == {f \in [{a, b, c} -> 0..4] : f[a] \in {0, 3} /\ f[b] \in {1, 3} /\ f[c] \in {1, 4}}
===============================================================================
