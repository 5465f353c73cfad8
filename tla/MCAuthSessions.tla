--------------------------- MODULE MCAuthSessions ---------------------------
(***************************************************************************)
(* One user, because accounts share no row, lock or key; sessions and      *)
(* tokens enough for a login, its rotations and a login that replaces it.  *)
(***************************************************************************)
EXTENDS AuthSessions, TLC

CONSTANTS u1, s1, s2, t1, t2, t3, r1, r2, c1

\* No definition names a session, a token or a request.
MCSymmetry ==
  Permutations(Sessions) \cup Permutations(Tokens) \cup Permutations(Requests)
=============================================================================
