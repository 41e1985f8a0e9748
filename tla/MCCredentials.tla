---------------------------- MODULE MCCredentials ----------------------------
(* Instances of Credentials for TLC. *)
EXTENDS Credentials, TLC

CONSTANTS ann, ben, p, q, t1, t2, s1, k1, k2, i1

(* Each policy refuses what the other admits. *)
TwoPolicies == {{p}, {q}}

AnyNames == Permutations(Accounts) \cup Permutations(Passwords) \cup Permutations(Tasks) \cup Permutations(Keys)
=============================================================================
