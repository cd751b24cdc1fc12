---------------------------- MODULE MCBuildCache ----------------------------
(* The instance TLC checks: three builders over three programs of sizes 1, 2
   and 3; no cap, a cap below the largest binary, and a cap that holds any one
   of them but not all. *)
EXTENDS BuildCache

CONSTANTS b1, b2, b3, k1, k2, k3

MCBuilder == {b1, b2, b3}
MCKey == {k1, k2, k3}
MCSize == [k \in MCKey |-> IF k = k1 THEN 1 ELSE IF k = k2 THEN 2 ELSE 3]
MCLimits == {0, 2, 4}
=============================================================================
