--------------------------- MODULE MCLoginSecurity ---------------------------
(* Instances of LoginSecurity for TLC. *)
EXTENDS LoginSecurity, TLC

CONSTANTS x, y, c1, c2, c3

(* Protection with two limits, and none for an address on the allowlist. *)
TwoPolicies == {[exempt |-> {}, failures |-> 2, unknown |-> 1], [exempt |-> {x}, failures |-> 3, unknown |-> 2]}

AnyCall == Permutations(Calls)
=============================================================================
