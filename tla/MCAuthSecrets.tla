--------------------------- MODULE MCAuthSecrets ---------------------------
(***************************************************************************)
(* Two issuances of any purposes, so that a late job meets a newer         *)
(* issuance, and a secret for each; two requests at a time and two workers *)
(* that process the jobs.                                                  *)
(***************************************************************************)
EXTENDS AuthSecrets, TLC

CONSTANTS x1, x2, r1, r2, w1, w2

\* No definition names a secret, a request or a worker.
MCSymmetry ==
  Permutations(Secrets) \cup Permutations(Requests) \cup Permutations(Workers)
=============================================================================
