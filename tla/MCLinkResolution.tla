-------------------------- MODULE MCLinkResolution --------------------------
(***************************************************************************)
(* One short code, because cache entries of different codes never meet;    *)
(* its owner and a stranger, three visitors and two status requests, so    *)
(* that a fill, a change and another fill of one entry can interleave.     *)
(***************************************************************************)
EXTENDS LinkResolution, TLC

CONSTANTS alice, bob, d1, c1, v1, v2, v3, o1, o2

MCUsers == {alice, bob}
MCUrls == {d1}
MCCodes == {c1}
MCVisitors == {v1, v2, v3}
MCOwners == {o1, o2}

\* No definition names a user or a request.
MCSymmetry ==
  Permutations(MCUsers) \cup Permutations(MCVisitors) \cup Permutations(MCOwners)
=============================================================================
