------------------------- MODULE MCLinkTransactions -------------------------
(***************************************************************************)
(* Two users and three short codes, so that codes collide and a user can   *)
(* hold more links than the limit of one active link allows to be active.  *)
(***************************************************************************)
EXTENDS LinkTransactions, TLC

CONSTANTS alice, bob, d1, d2, c1, c2, c3, r1, r2, r3

MCUsers == {alice, bob}
MCUrls == {d1, d2}
MCCodes == {c1, c2, c3}
MCClients == {r1, r2}

\* One user whose requests all wait for the same account row.
OneUser == {alice}
OneUrl == {d1}
OneCode == {c1}
ThreeClients == {r1, r2, r3}

\* Users, URLs, codes and clients are interchangeable: no definition names one.
MCSymmetry ==
  Permutations(MCUsers) \cup Permutations(MCUrls)
    \cup Permutations(MCCodes) \cup Permutations(MCClients)
=============================================================================
