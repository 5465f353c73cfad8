--------------------------- MODULE MCAbuseControl ---------------------------
(***************************************************************************)
(* Requests that send e-mails and logins share no key, so that a behaviour *)
(* has the ones or the others; within each, one account and one address.   *)
(***************************************************************************)
EXTENDS AbuseControl

CONSTANTS register, alice, ip1, r1, r2

VARIABLE kind

MCInit == Init /\ kind \in {"mail", "login"}

MCNext ==
  /\ \E r \in Requests :
          \/ kind = "mail" /\ MailStep(r)
          \/ kind = "login" /\ LoginStep(r)
          \/ Answer(r) \/ LostReply(r)
     \/ Tick
  /\ UNCHANGED kind

MCSpec == MCInit /\ [][MCNext]_<<vars, kind>> /\ Fairness
=============================================================================
