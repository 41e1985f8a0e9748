------------------------------- MODULE MCMail -------------------------------
(* Instances of MailDelivery for TLC. *)
EXTENDS MailInductive, TLC

CONSTANTS ann, bob, team, far, s1, s2, req

TwoSubmissions == Permutations({s1, s2})
=============================================================================
