------------------------- MODULE AuthSecretsProofs -------------------------
(***************************************************************************)
(* What AuthSecrets promises for every number of issuances, deliveries,    *)
(* workers and requests: types, one working secret, single use, the lock,  *)
(* and runs of the worker in a row that leave newer mail alone.            *)
(***************************************************************************)
EXTENDS AuthSecrets, FiniteSetTheorems, TLAPS

-----------------------------------------------------------------------------
(* Types, with what a request or a run knows of its issuance. *)

\* A request whose secret has been accepted and that has yet to use it.
Held(r) == req[r].at \in {"activate", "secondGate", "session", "password"}

RequestFits(r) ==
  /\ Held(r) => req[r].secret \in Secrets
  /\ req[r].at \in {"find", "firstGate", "consumeChallenge"} =>
       req[r].issue \in Issues
  /\ req[r].at \in {"insert", "cooldown"} => req[r].purpose = "activation"
  /\ req[r].at \in {"gate", "challenge"} => req[r].purpose = "login"
  /\ At(r, "issue") =>
       /\ req[r].purpose \in Purposes
       /\ req[r].purpose = "login" =>
            req[r].issue \in Issues /\ purpose[req[r].issue] # None

RunFits(w) ==
  /\ ~RunAt(w, "idle") => run[w].issue \in Issues /\ purpose[run[w].issue] # None
  /\ run[w].at \in {"recheck", "send"} => run[w].secret \in Secrets

TypeInv ==
  /\ TypeOK
  /\ \A r \in Requests : RequestFits(r)
  /\ \A w \in Workers : RunFits(w)
  /\ \A i \in valid : purpose[i] # None

\* Number takes the next number of register, startLogin and
\* requestPasswordReset, which is an issuance, and forgets no purpose.
LEMMA NextIsIssue ==
  ASSUME TypeOK, NEW p \in Purposes, Number(p)
  PROVE  /\ issued + 1 \in Issues
         /\ issued' \in 0..MaxIssues
         /\ purpose' \in [Issues -> Purposes \cup {None}]
         /\ purpose'[issued + 1] = p
         /\ \A i \in Issues : i # issued + 1 => purpose'[i] = purpose[i]
<1>1. issued + 1 \in Issues /\ issued' \in 0..MaxIssues
  BY SecretsAssumption DEF TypeOK, Issues, Number
<1> QED
  BY <1>1 DEF TypeOK, Number

Steps == {"idle", "insert", "cooldown", "issue", "cool", "enqueue", "gate",
          "challenge", "fail", "consumeCode", "activate", "find", "firstGate",
          "consumeChallenge", "secondGate", "session", "peek", "consumeToken",
          "password"}

OthersWait(r) == \A q \in Requests : q # r => req'[q] = req[q]

\* A request of AuthService that has been answered.
LEMMA FinishSets ==
  ASSUME TypeOK, NEW r \in Requests, Finish(r)
  PROVE  /\ req' \in [Requests -> Request] /\ OthersWait(r)
         /\ req'[r].at = "idle" /\ req'[r].shut = FALSE
<1>1. NoRequest \in Request /\ NoRequest.at = "idle" /\ NoRequest.shut = FALSE
  BY DEF NoRequest, Request
<1>2. /\ req' \in [Requests -> Request] /\ OthersWait(r)
      /\ req'[r] = NoRequest
  BY <1>1 DEF TypeOK, Finish, OthersWait
<1> QED
  BY <1>1, <1>2

\* A request of AuthService that goes on to its next statement.
LEMMA GotoSets ==
  ASSUME TypeOK, NEW r \in Requests, NEW step \in Steps, Goto(r, step)
  PROVE  /\ req' \in [Requests -> Request] /\ OthersWait(r)
         /\ req'[r].at = step /\ req'[r].purpose = req[r].purpose
         /\ req'[r].issue = req[r].issue /\ req'[r].secret = req[r].secret
         /\ req'[r].shut = req[r].shut
<1>1. req[r] \in Request
  BY DEF TypeOK
<1>2. PICK t : t = [req[r] EXCEPT !.at = step]
  OBVIOUS
<1>3. /\ t \in Request /\ t.at = step /\ t.purpose = req[r].purpose
      /\ t.issue = req[r].issue /\ t.secret = req[r].secret
      /\ t.shut = req[r].shut
  BY <1>1, <1>2 DEF Request, Steps
<1>4. req' = [req EXCEPT ![r] = t]
  BY <1>2 DEF Goto, TypeOK
<1> QED
  BY <1>3, <1>4 DEF TypeOK, OthersWait

\* A request of AuthService that begins.
LEMMA BeginSets ==
  ASSUME TypeOK, NEW r \in Requests, NEW step \in Steps, NEW p \in Purposes,
         Begin(r, step, p)
  PROVE  /\ req' \in [Requests -> Request] /\ OthersWait(r)
         /\ req'[r].at = step /\ req'[r].purpose = p
         /\ req'[r].shut = FALSE
<1>1. PICK t : t = [NoRequest EXCEPT !.at = step, !.purpose = p]
  OBVIOUS
<1>2. t \in Request /\ t.at = step /\ t.purpose = p /\ t.shut = FALSE
  BY <1>1 DEF NoRequest, Request, Steps
<1>3. req' = [req EXCEPT ![r] = t]
  BY <1>1 DEF Begin
<1> QED
  BY <1>2, <1>3 DEF TypeOK, OthersWait

OthersRun(w) == \A v \in Workers : v # w => run'[v] = run[v]

\* A run of EmailProcessor that has returned or thrown.
LEMMA EndRunSets ==
  ASSUME TypeOK, NEW w \in Workers, EndRun(w)
  PROVE  run' \in [Workers -> Run] /\ OthersRun(w) /\ run'[w] = NoRun
<1>1. NoRun \in Run
  BY DEF NoRun, Run
<1> QED
  BY <1>1 DEF TypeOK, EndRun, OthersRun

\* A run of EmailProcessor that goes on to its next statement.
LEMMA RunGotoSets ==
  ASSUME TypeOK, NEW w \in Workers,
         NEW step \in {"idle", "find", "write", "recheck", "send"},
         RunGoto(w, step)
  PROVE  /\ run' \in [Workers -> Run] /\ OthersRun(w)
         /\ run'[w].at = step /\ run'[w].issue = run[w].issue
         /\ run'[w].secret = run[w].secret
<1>1. run[w] \in Run
  BY DEF TypeOK
<1>2. PICK t : t = [run[w] EXCEPT !.at = step]
  OBVIOUS
<1>3. /\ t \in Run /\ t.at = step /\ t.issue = run[w].issue
      /\ t.secret = run[w].secret
  BY <1>1, <1>2 DEF Run
<1>4. run' = [run EXCEPT ![w] = t]
  BY <1>2 DEF RunGoto, TypeOK
<1> QED
  BY <1>3, <1>4 DEF TypeOK, OthersRun

\* Requests and runs other than the one that steps keep what they know when
\* no purpose is forgotten.
LEMMA OthersFit ==
  ASSUME TypeInv, \A i \in Issues : purpose[i] # None => purpose'[i] # None
  PROVE  /\ \A q \in Requests : req'[q] = req[q] => RequestFits(q)'
         /\ \A v \in Workers : run'[v] = run[v] => RunFits(v)'
BY DEF TypeInv, RequestFits, RunFits, Held, At, RunAt

\* What a step of request r does to the types.
RequestStepFits(r) ==
  /\ TypeOK' /\ RequestFits(r)'
  /\ OthersWait(r)
  /\ \A i \in Issues : purpose[i] # None => purpose'[i] # None
  /\ \A i \in valid' : purpose'[i] # None

\* A request of AuthService that touches nothing but itself.
LEMMA QuietRequestFits ==
  ASSUME TypeInv, NEW r \in Requests, req' \in [Requests -> Request],
         RequestFits(r)', OthersWait(r),
         UNCHANGED <<account, counters, queue, stored, run, history>>
  PROVE  RequestStepFits(r)
BY DEF TypeInv, TypeOK, RequestStepFits, counters, queue, stored, history

\* register, resendEmailVerification, startLogin and requestPasswordReset.
LEMMA IssueFits ==
  ASSUME TypeInv, NEW r \in Requests, Issue(r)
  PROVE  RequestStepFits(r)
<1>0. TypeOK /\ RequestFits(r) /\ req[r] \in Request
  BY DEF TypeInv, TypeOK
<1> USE <1>0 DEF counters, queue, stored, history
<1>1. CASE Register(r) \/ Resend(r)
  <2>1. PICK step \in {"insert", "cooldown"} : Begin(r, step, "activation")
    BY <1>1 DEF Register, Resend
  <2>2. /\ req' \in [Requests -> Request]
        /\ req'[r].at = step /\ req'[r].purpose = "activation"
        /\ OthersWait(r)
    BY <2>1, BeginSets DEF Steps, Purposes
  <2> QED
    BY <1>1, <2>2, QuietRequestFits DEF Register, Resend, RequestFits, Held, At
<1>2. CASE CreatePendingAccount(r)
  <2>1. account' \in {"absent", "PENDING", "ACTIVE"}
    BY <1>2 DEF CreatePendingAccount, TypeOK
  <2>2. req[r].purpose = "activation"
    BY <1>2 DEF CreatePendingAccount, RequestFits, Held, At
  <2>3. /\ req' \in [Requests -> Request]
        /\ \/ req'[r].at = "idle"
           \/ req'[r].at = "issue" /\ req'[r].purpose = "activation"
        /\ OthersWait(r)
    <3>1. Finish(r) \/ Goto(r, "issue")
      BY <1>2 DEF CreatePendingAccount
    <3>2. CASE Finish(r)
      BY <3>2, FinishSets
    <3>3. CASE Goto(r, "issue")
      BY <2>2, <3>3, GotoSets DEF Steps
    <3> QED
      BY <3>1, <3>2, <3>3
  <2>4. TypeOK'
    BY <1>2, <2>1, <2>3 DEF CreatePendingAccount, TypeOK
  <2> QED
    BY <1>2, <2>3, <2>4
       DEF CreatePendingAccount, RequestStepFits, RequestFits, Held, At, Purposes,
           TypeInv
<1>3. CASE CheckCooldown(r)
  <2>1. req[r].purpose = "activation"
    BY <1>3 DEF CheckCooldown, RequestFits, Held, At
  <2>2. /\ req' \in [Requests -> Request]
        /\ \/ req'[r].at = "idle"
           \/ req'[r].at = "issue" /\ req'[r].purpose = "activation"
        /\ OthersWait(r)
    <3>1. Finish(r) \/ Goto(r, "issue")
      BY <1>3 DEF CheckCooldown
    <3>2. CASE Finish(r)
      BY <3>2, FinishSets
    <3>3. CASE Goto(r, "issue")
      BY <2>1, <3>3, GotoSets DEF Steps
    <3> QED
      BY <3>1, <3>2, <3>3
  <2> QED
    BY <1>3, <2>2, QuietRequestFits
       DEF CheckCooldown, RequestFits, Held, At, Purposes
<1>4. CASE ForgotPassword(r) \/ StartLogin(r)
  <2>1. \/ Begin(r, "issue", "reset") \/ Begin(r, "gate", "login")
        \/ Begin(r, "fail", "login")
    BY <1>4 DEF ForgotPassword, StartLogin
  <2>2. /\ req' \in [Requests -> Request]
        /\ <<req'[r].at, req'[r].purpose>> \in
             {<<"issue", "reset">>, <<"gate", "login">>, <<"fail", "login">>}
        /\ OthersWait(r)
    BY <2>1, BeginSets DEF Steps, Purposes
  <2> QED
    BY <1>4, <2>2, QuietRequestFits
       DEF ForgotPassword, StartLogin, RequestFits, Held, At, Purposes
<1>5. CASE LoginGate(r)
  <2>1. req[r].purpose = "login"
    BY <1>5 DEF LoginGate, RequestFits, Held, At
  <2>2. /\ req' \in [Requests -> Request]
        /\ \/ req'[r].at = "idle"
           \/ req'[r].at = "challenge" /\ req'[r].purpose = "login"
        /\ OthersWait(r)
    <3>1. Finish(r) \/ Goto(r, "challenge")
      BY <1>5 DEF LoginGate
    <3>2. CASE Finish(r)
      BY <3>2, FinishSets
    <3>3. CASE Goto(r, "challenge")
      BY <2>1, <3>3, GotoSets DEF Steps
    <3> QED
      BY <3>1, <3>2, <3>3
  <2> QED
    BY <1>5, <2>2, QuietRequestFits DEF LoginGate, RequestFits, Held, At
<1>6. CASE Challenge(r)
  <2>1. /\ issued + 1 \in Issues /\ issued' \in 0..MaxIssues
        /\ purpose' \in [Issues -> Purposes \cup {None}]
        /\ purpose'[issued + 1] = "login"
        /\ \A i \in Issues : i # issued + 1 => purpose'[i] = purpose[i]
    BY <1>6, NextIsIssue DEF Challenge, Purposes
  <2>2. PICK t : t = [req[r] EXCEPT !.at = "issue", !.issue = issued + 1]
    OBVIOUS
  <2>3. req[r].purpose = "login"
    BY <1>6 DEF Challenge, RequestFits, Held, At
  <2>4. /\ t \in Request /\ t.at = "issue" /\ t.issue = issued + 1
        /\ t.purpose = "login"
    BY <2>1, <2>2, <2>3 DEF Request
  <2>5. req' = [req EXCEPT ![r] = t]
    BY <1>6, <2>2 DEF Challenge, TypeOK
  <2>6. /\ req' \in [Requests -> Request] /\ req'[r] = t
        /\ OthersWait(r)
    BY <2>4, <2>5 DEF TypeOK, OthersWait
  <2>7. /\ live' \in [Issues -> Secrets \cup {Placeholder, None}]
        /\ current' \in Issues \cup {0}
    BY <1>6, <2>1 DEF Challenge, CreateLoginChallenge, TypeOK
  <2>8. "login" # None
    BY SecretsAssumption DEF Purposes
  <2>9. TypeOK'
    BY <1>6, <2>1, <2>6, <2>7 DEF Challenge, TypeOK
  <2> QED
    BY <1>6, <2>1, <2>4, <2>6, <2>8, <2>9
       DEF Challenge, RequestStepFits, RequestFits, Held, At, Purposes, TypeInv, TypeOK
<1>7. CASE SetIssuance(r) /\ req[r].purpose = "login"
  <2>1. /\ req' \in [Requests -> Request] /\ req'[r].at = "enqueue"
        /\ OthersWait(r)
    BY <1>7, GotoSets DEF Steps, SetIssuance
  <2>2. req[r].issue \in Issues /\ purpose[req[r].issue] # None
    BY <1>7 DEF SetIssuance, RequestFits, Held, At
  <2>3. TypeOK'
    BY <1>7, <2>1, <2>2 DEF SetIssuance, TypeOK
  <2> QED
    BY <1>7, <2>1, <2>2, <2>3
       DEF SetIssuance, RequestStepFits, RequestFits, Held, At, TypeInv
<1>8. CASE SetIssuance(r) /\ req[r].purpose # "login"
  <2>1. req[r].purpose \in Purposes /\ req[r].purpose # None
    BY <1>8, SecretsAssumption DEF SetIssuance, RequestFits, Held, At
  <2>2. /\ issued + 1 \in Issues /\ issued' \in 0..MaxIssues
        /\ purpose' \in [Issues -> Purposes \cup {None}]
        /\ purpose'[issued + 1] = req[r].purpose
        /\ \A i \in Issues : i # issued + 1 => purpose'[i] = purpose[i]
    BY <1>8, <2>1, NextIsIssue DEF SetIssuance
  <2>3. PICK step \in {"cool", "enqueue"} :
          req' = [req EXCEPT ![r].issue = issued + 1, ![r].at = step]
    BY <1>8 DEF SetIssuance
  <2>4. PICK t : t = [req[r] EXCEPT !.issue = issued + 1, !.at = step]
    OBVIOUS
  <2>5. t \in Request /\ t.at = step
    BY <2>2, <2>4 DEF Request
  <2>6. req' = [req EXCEPT ![r] = t]
    BY <2>3, <2>4 DEF TypeOK
  <2>7. /\ req' \in [Requests -> Request] /\ req'[r].at = step
        /\ OthersWait(r)
    BY <2>5, <2>6 DEF TypeOK, OthersWait
  <2>8. valid' \subseteq valid \cup {issued + 1}
    BY <1>8 DEF SetIssuance
  <2>9. TypeOK'
    BY <1>8, <2>2, <2>7, <2>8 DEF SetIssuance, TypeOK
  <2> QED
    BY <2>1, <2>2, <2>7, <2>8, <2>9
       DEF RequestStepFits, RequestFits, Held, At, TypeInv, TypeOK
<1>9. CASE SetCooldown(r)
  <2>1. /\ req' \in [Requests -> Request] /\ req'[r].at = "enqueue"
        /\ OthersWait(r)
    BY <1>9, GotoSets DEF Steps, SetCooldown
  <2>2. TypeOK'
    BY <1>9, <2>1 DEF SetCooldown, TypeOK
  <2> QED
    BY <1>9, <2>1, <2>2
       DEF SetCooldown, RequestStepFits, RequestFits, Held, At, TypeInv
<1>10. CASE Enqueue(r)
  <2>1. /\ req' \in [Requests -> Request] /\ req'[r].at = "idle"
        /\ OthersWait(r)
    BY <1>10, FinishSets DEF Enqueue
  <2>2. left' \in [Issues -> 0..Deliveries]
    <3>1. Deliveries \in 0..Deliveries
      BY SecretsAssumption
    <3>2. left \in [Issues -> 0..Deliveries]
      BY DEF TypeOK
    <3> QED
      BY <1>10, <3>1, <3>2 DEF Enqueue
  <2>3. TypeOK'
    BY <1>10, <2>1, <2>2 DEF Enqueue, TypeOK
  <2> QED
    BY <1>10, <2>1, <2>3 DEF Enqueue, RequestStepFits, RequestFits, Held, At, TypeInv
<1>11. CASE RecordFailedLogin(r)
  <2>1. /\ req' \in [Requests -> Request] /\ req'[r].at = "idle"
        /\ OthersWait(r)
    BY <1>11, FinishSets DEF RecordFailedLogin
  <2>2. failures' \in 0..MaxFailures
    BY <1>11, SecretsAssumption DEF RecordFailedLogin, TypeOK
  <2>3. locked' \in BOOLEAN
    BY <1>11, Zenon DEF RecordFailedLogin
  <2>4. TypeOK'
    BY <1>11, <2>1, <2>2, <2>3 DEF RecordFailedLogin, TypeOK
  <2> QED
    BY <1>11, <2>1, <2>4
       DEF RecordFailedLogin, RequestStepFits, RequestFits, Held, At, TypeInv
<1> QED
  BY <1>1, <1>2, <1>3, <1>4, <1>5, <1>6, <1>7, <1>8, <1>9, <1>10, <1>11
     DEF Issue
\* A request of AuthService that presents a secret.
LEMMA PresentSets ==
  ASSUME TypeOK, NEW r \in Requests, NEW step \in Steps,
         NEW i \in Issues \cup {0}, NEW x \in Secrets \cup {None},
         Present(r, step, i, x)
  PROVE  /\ req' \in [Requests -> Request] /\ OthersWait(r)
         /\ req'[r].at = step /\ req'[r].issue = i /\ req'[r].shut = FALSE
<1>1. PICK t :
        t = [NoRequest EXCEPT !.at = step, !.issue = i, !.secret = x]
  OBVIOUS
<1>2. t \in Request /\ t.at = step /\ t.issue = i /\ t.shut = FALSE
  BY <1>1 DEF NoRequest, Request, Steps
<1>3. req' = [req EXCEPT ![r] = t]
  BY <1>1 DEF Present
<1> QED
  BY <1>2, <1>3 DEF TypeOK, OthersWait

\* findLoginChallengeUserId moves the request on.
LEMMA FindChallengeSets ==
  ASSUME TypeOK, NEW r \in Requests, FindChallenge(r)
  PROVE  /\ req' \in [Requests -> Request] /\ OthersWait(r)
         /\ req'[r].at \in {"firstGate", "consumeChallenge"}
         /\ req'[r].shut = req[r].shut /\ req'[r].issue = req[r].issue
<1>1. PICK known \in BOOLEAN, step \in {"firstGate", "consumeChallenge"} :
        req' = [req EXCEPT ![r].known = known, ![r].at = step]
  BY DEF FindChallenge
<1>2. PICK t : t = [req[r] EXCEPT !.known = known, !.at = step]
  OBVIOUS
<1>3. req[r] \in Request
  BY DEF TypeOK
<1>4. /\ t \in Request /\ t.at = step
      /\ t.shut = req[r].shut /\ t.issue = req[r].issue
  BY <1>2, <1>3 DEF Request
<1>5. req' = [req EXCEPT ![r] = t]
  BY <1>1, <1>2 DEF TypeOK
<1> QED
  BY <1>4, <1>5 DEF TypeOK, OthersWait

\* CONSUME_LOGIN_CHALLENGE_LUA: the code is right and goes, or nothing changes.
LEMMA ConsumeLoginChallengeSets ==
  ASSUME TypeOK, NEW r \in Requests, ConsumeLoginChallenge(r)
  PROVE  /\ req' \in [Requests -> Request] /\ OthersWait(r)
         /\ \/ /\ live[req[r].issue] = req[r].secret
               /\ live[req[r].issue] # None
               /\ live' = [live EXCEPT ![req[r].issue] = None]
               /\ req'[r].at = "secondGate" /\ req'[r].shut = locked
               /\ req'[r].secret = req[r].secret
            \/ /\ live' = live
               /\ \/ req'[r].at = "idle" /\ req'[r].shut = FALSE
                  \/ req'[r].at = "fail" /\ req'[r].shut = req[r].shut
<1>1. CASE /\ live[req[r].issue] # None
           /\ live[req[r].issue] = req[r].secret
  <2>1. PICK t : t = [req[r] EXCEPT !.at = "secondGate", !.shut = locked]
    OBVIOUS
  <2>2. req[r] \in Request
    BY DEF TypeOK
  <2>3. /\ t \in Request /\ t.at = "secondGate" /\ t.shut = locked
        /\ t.secret = req[r].secret
    BY <2>1, <2>2 DEF Request, TypeOK
  <2>4. req' = [req EXCEPT ![r] = t]
    BY <1>1, <2>1 DEF ConsumeLoginChallenge, TypeOK
  <2> QED
    BY <1>1, <2>3, <2>4 DEF ConsumeLoginChallenge, TypeOK, OthersWait
<1>2. CASE ~ /\ live[req[r].issue] # None
             /\ live[req[r].issue] = req[r].secret
  <2>1. live' = live /\ (Finish(r) \/ Goto(r, "fail"))
    BY <1>2 DEF ConsumeLoginChallenge
  <2>2. CASE Finish(r)
    BY <2>1, <2>2, FinishSets
  <2>3. CASE Goto(r, "fail")
    BY <2>1, <2>3, GotoSets DEF Steps
  <2> QED
    BY <2>1, <2>2, <2>3
<1> QED
  BY <1>1, <1>2

\* A request of AuthService at none of the steps that RequestFits is about.
Unbound(r) ==
  /\ req[r].at \notin {"insert", "cooldown", "gate", "challenge", "issue"}
  /\ Held(r) => req[r].secret \in Secrets
  /\ req[r].at \in {"find", "firstGate", "consumeChallenge"} =>
       req[r].issue \in Issues

\* verifyEmail, completeLogin and resetPassword.
LEMMA ConsumeFits ==
  ASSUME TypeInv, NEW r \in Requests, Consume(r) \/ RequestEnds(r)
  PROVE  RequestStepFits(r) /\ Unbound(r)' /\ UNCHANGED <<purpose, valid>>
<1>0. /\ TypeOK /\ mailed \subseteq Secrets
      /\ RequestFits(r)
      /\ Held(r) => req[r].secret \in Secrets
      /\ req[r].secret \in Secrets \cup {None}
  BY DEF TypeInv, TypeOK, RequestFits, Request
<1> USE <1>0
<1>1. SUFFICES /\ TypeOK' /\ Unbound(r)' /\ OthersWait(r)
               /\ UNCHANGED <<purpose, valid>>
  BY <1>1 DEF RequestStepFits, RequestFits, Unbound, Held, At, TypeInv
<1> USE DEF Unbound, Held, counters, queue, stored, history
<1>2. ASSUME NEW x \in mailed, VerifyEmail(r, x) \/ ResetPassword(r, x)
      PROVE  TypeOK' /\ Unbound(r)' /\ OthersWait(r) /\ UNCHANGED <<purpose, valid>>
  <2>1. PICK step \in {"consumeCode", "peek"} : Present(r, step, 0, x)
    BY <1>2 DEF VerifyEmail, ResetPassword
  <2>2. 0 \in Issues \cup {0} /\ x \in Secrets \cup {None} /\ step \in Steps
    BY DEF Steps
  <2>3. /\ req' \in [Requests -> Request] /\ OthersWait(r)
        /\ req'[r].at = step
    BY <2>1, <2>2, PresentSets
  <2> QED
    BY <2>1, <2>3 DEF Present, TypeOK
<1>3. ASSUME NEW i \in Issues, NEW x \in mailed \cup {None}, VerifyLogin(r, i, x)
      PROVE  TypeOK' /\ Unbound(r)' /\ OthersWait(r) /\ UNCHANGED <<purpose, valid>>
  <2>1. /\ req' \in [Requests -> Request] /\ OthersWait(r)
        /\ req'[r].at = "find" /\ req'[r].issue = i
    BY <1>3, PresentSets DEF VerifyLogin, Steps
  <2> QED
    BY <1>3, <2>1 DEF VerifyLogin, Present, TypeOK
<1>4. CASE ConsumeActivationCode(r)
  <2>1. CASE ~(code = req[r].secret /\ code # None)
    BY <1>4, <2>1, FinishSets DEF ConsumeActivationCode, TypeOK
  <2>2. CASE code = req[r].secret /\ code # None
    BY <1>4, <2>2, GotoSets DEF ConsumeActivationCode, TypeOK, Steps
  <2> QED
    BY <2>1, <2>2
<1>5. CASE ActivateAccount(r) \/ CreateSession(r) \/ UpdatePassword(r)
  <2>1. /\ Finish(r) /\ Use(r) /\ account' \in {account, ActiveStatus}
        /\ UNCHANGED <<counters, queue, stored, run, mailed, madeFor, serial>>
        /\ req[r].at \in {"activate", "session", "password"}
    BY <1>5 DEF ActivateAccount, CreateSession, UpdatePassword, At
  <2>2. used' \subseteq Secrets
    BY <2>1 DEF Use, TypeOK
  <2> QED
    BY <2>1, <2>2, FinishSets DEF TypeOK, ActiveStatus
<1>6. CASE FindChallenge(r)
  BY <1>6, FindChallengeSets DEF FindChallenge, TypeOK, RequestFits, At
<1>7. CASE FirstGate(r) \/ PeekToken(r)
  <2>1. /\ UNCHANGED <<account, counters, queue, stored, run, history>>
        /\ \/ Finish(r)
           \/ At(r, "firstGate") /\ Goto(r, "consumeChallenge")
           \/ Goto(r, "consumeToken")
    BY <1>7 DEF FirstGate, PeekToken
  <2>2. CASE Finish(r)
    BY <2>1, <2>2, FinishSets DEF TypeOK
  <2>3. CASE At(r, "firstGate") /\ Goto(r, "consumeChallenge")
    BY <2>1, <2>3, GotoSets DEF TypeOK, Steps, At, RequestFits
  <2>4. CASE Goto(r, "consumeToken")
    BY <2>1, <2>4, GotoSets DEF TypeOK, Steps
  <2> QED
    BY <2>1, <2>2, <2>3, <2>4
<1>8. CASE ConsumeLoginChallenge(r)
  <2>1. /\ req' \in [Requests -> Request] /\ OthersWait(r) /\ Unbound(r)'
        /\ live' \in [Issues -> Secrets \cup {Placeholder, None}]
    BY <1>8, ConsumeLoginChallengeSets DEF TypeOK
  <2> QED
    BY <1>8, <2>1 DEF ConsumeLoginChallenge, TypeOK
<1>9. CASE ConsumeToken(r)
  <2>1. CASE ~StillUnused(req[r].secret)
    BY <1>9, <2>1, FinishSets DEF ConsumeToken, TypeOK
  <2>2. CASE StillUnused(req[r].secret)
    BY <1>9, <2>2, GotoSets DEF ConsumeToken, StillUnused, TypeOK, Steps
  <2> QED
    BY <2>1, <2>2
<1>10. CASE SecondGate(r)
  <2>1. CASE LockedNow
    BY <1>10, <2>1, FinishSets DEF SecondGate, TypeOK
  <2>2. CASE ~LockedNow
    BY <1>10, <2>2, GotoSets DEF SecondGate, TypeOK, Steps, At
  <2> QED
    BY <2>1, <2>2
<1>11. CASE RequestEnds(r)
  BY <1>11, FinishSets DEF RequestEnds, TypeOK
<1> QED
  BY <1>2, <1>3, <1>4, <1>5, <1>6, <1>7, <1>8, <1>9, <1>10, <1>11 DEF Consume
\* A delivery whose issuance is current starts a run.
LEMMA TakeJobSets ==
  ASSUME TypeOK, NEW w \in Workers, NEW i \in Issues, TakeJob(w, i)
  PROVE  /\ run' \in [Workers -> Run] /\ OthersRun(w)
         /\ \/ run' = run /\ serial' = serial
            \/ /\ i \in valid /\ run'[w].issue = i /\ run'[w].secret = None
               /\ run'[w].at \in {"find", "write"}
               /\ run'[w].at = "find" <=> purpose[i] = "login"
               /\ serial' = (serial /\ \A v \in Workers : RunAt(v, "idle"))
<1>1. CASE ~IsCurrentIssuance(i)
  BY <1>1 DEF TakeJob, TypeOK, OthersRun
<1>2. CASE IsCurrentIssuance(i)
  <2>1. PICK step \in {"find", "write"} :
          /\ step = "find" <=> purpose[i] = "login"
          /\ run' = [run EXCEPT ![w] = [at |-> step, issue |-> i, secret |-> None]]
    BY <1>2 DEF TakeJob
  <2>2. PICK t : t = [at |-> step, issue |-> i, secret |-> None]
    OBVIOUS
  <2>3. /\ t \in Run /\ t.at = step /\ t.issue = i /\ t.secret = None
    BY <2>2 DEF Run
  <2>4. run' = [run EXCEPT ![w] = t]
    BY <2>1, <2>2
  <2>5. serial' = (serial /\ \A v \in Workers : RunAt(v, "idle"))
    BY <1>2 DEF TakeJob
  <2> QED
    BY <1>2, <2>1, <2>3, <2>4, <2>5 DEF TypeOK, OthersRun, IsCurrentIssuance
<1> QED
  BY <1>1, <1>2

\* setActivationCode, createLoginChallenge or createPasswordResetToken.
LEMMA StoreSets ==
  ASSUME TypeInv, NEW w \in Workers, NEW x \in Secrets, Store(w, x)
  PROVE  /\ run' \in [Workers -> Run] /\ OthersRun(w)
         /\ run'[w].at = "recheck" /\ run'[w].issue = run[w].issue
         /\ run'[w].secret = x
         /\ run[w].issue \in Issues
         /\ madeFor[x] = 0 /\ madeFor' = [madeFor EXCEPT ![x] = run[w].issue]
         /\ \/ /\ purpose[run[w].issue] = "activation"
               /\ code' = x /\ UNCHANGED <<live, current, unused>>
            \/ /\ purpose[run[w].issue] = "login"
               /\ CreateLoginChallenge(run[w].issue, x)
               /\ UNCHANGED <<code, unused>>
            \/ /\ purpose[run[w].issue] = "reset"
               /\ unused' = {x} /\ UNCHANGED <<code, live, current>>
<1>1. /\ run[w].issue \in Issues
      /\ purpose[run[w].issue] \in {"activation", "login", "reset"}
  BY DEF Store, TypeInv, TypeOK, RunFits, RunAt, Purposes
<1>2. PICK t : t = [run[w] EXCEPT !.at = "recheck", !.secret = x]
  OBVIOUS
<1>3. /\ t \in Run /\ t.at = "recheck" /\ t.issue = run[w].issue
      /\ t.secret = x
  BY <1>2 DEF TypeInv, TypeOK, Run
<1>4. run' = [run EXCEPT ![w] = t]
  BY <1>2 DEF Store, TypeInv, TypeOK
<1>5. run' \in [Workers -> Run] /\ OthersRun(w) /\ run'[w] = t
  BY <1>3, <1>4 DEF TypeInv, TypeOK, OthersRun
<1>6. CASE purpose[run[w].issue] = "activation"
  BY <1>1, <1>3, <1>5, <1>6 DEF Store
<1>7. CASE purpose[run[w].issue] = "login"
  BY <1>1, <1>3, <1>5, <1>7 DEF Store
<1>8. CASE purpose[run[w].issue] = "reset"
  BY <1>1, <1>3, <1>5, <1>8 DEF Store, CreateToken
<1> QED
  BY <1>1, <1>6, <1>7, <1>8

\* The e-mail worker keeps the types.
LEMMA ProcessFits ==
  ASSUME TypeInv, NEW w \in Workers, Process(w)
  PROVE  TypeOK' /\ RunFits(w)' /\ OthersRun(w) /\ UNCHANGED <<req, purpose, valid>>
<1>0. TypeOK /\ RunFits(w) /\ \A i \in valid : purpose[i] # None
  BY DEF TypeInv
<1> USE <1>0 DEF counters, queue, stored, history
<1>1. ASSUME NEW i \in Issues, TakeJob(w, i)
      PROVE  TypeOK' /\ RunFits(w)' /\ OthersRun(w)
             /\ UNCHANGED <<req, purpose, valid>>
  <2>1. /\ run' \in [Workers -> Run] /\ OthersRun(w)
        /\ run' = run \/ (i \in valid /\ run'[w].issue = i)
    BY <1>1, TakeJobSets
  <2>2. left' \in [Issues -> 0..Deliveries]
    <3>1. left[i] - 1 \in 0..Deliveries
      BY <1>1, SecretsAssumption DEF TakeJob, TypeOK
    <3> QED
      BY <1>1, <3>1 DEF TakeJob, TypeOK
  <2>3. serial' \in BOOLEAN
    BY <1>1, Zenon DEF TakeJob, TypeOK
  <2> QED
    BY <1>1, <2>1, <2>2, <2>3 DEF TakeJob, TypeOK, RunFits, RunAt
<1>2. CASE FindUser(w) \/ RecheckIssuance(w) \/ RunFails(w)
  <2>1. /\ UNCHANGED <<account, counters, queue, stored, req, history>>
        /\ \/ EndRun(w)
           \/ RunAt(w, "find") /\ RunGoto(w, "write")
           \/ RunAt(w, "recheck") /\ RunGoto(w, "send")
    BY <1>2 DEF FindUser, RecheckIssuance, RunFails
  <2>2. CASE EndRun(w)
    BY <2>1, <2>2, EndRunSets DEF TypeOK, RunFits, RunAt, NoRun
  <2>3. CASE RunAt(w, "find") /\ RunGoto(w, "write")
    BY <2>1, <2>3, RunGotoSets DEF TypeOK, RunFits, RunAt
  <2>4. CASE RunAt(w, "recheck") /\ RunGoto(w, "send")
    BY <2>1, <2>4, RunGotoSets DEF TypeOK, RunFits, RunAt
  <2> QED
    BY <2>1, <2>2, <2>3, <2>4
<1>3. ASSUME NEW x \in Secrets, Store(w, x)
      PROVE  TypeOK' /\ RunFits(w)' /\ OthersRun(w)
             /\ UNCHANGED <<req, purpose, valid>>
  <2>1. /\ run' \in [Workers -> Run] /\ OthersRun(w)
        /\ run'[w].issue = run[w].issue /\ run[w].issue \in Issues
        /\ madeFor' = [madeFor EXCEPT ![x] = run[w].issue]
    BY <1>3, StoreSets
  <2>2. /\ code' \in Secrets \cup {None} /\ unused' \subseteq Secrets
        /\ live' \in [Issues -> Secrets \cup {Placeholder, None}]
        /\ current' \in Issues \cup {0}
    BY <1>3, <2>1, StoreSets DEF CreateLoginChallenge, TypeOK
  <2> QED
    BY <1>3, <2>1, <2>2 DEF Store, TypeOK, RunFits, RunAt
<1>4. CASE SendMail(w)
  <2>1. run[w].secret \in Secrets
    BY <1>4 DEF SendMail, RunFits, RunAt
  <2> QED
    BY <1>4, <2>1, EndRunSets DEF SendMail, TypeOK, RunFits, RunAt, NoRun
<1> QED
  BY <1>1, <1>2, <1>3, <1>4 DEF Process
\* Keys and rows that expire keep the types.
LEMMA ExpireFits ==
  ASSUME TypeInv, Expire
  PROVE  TypeInv'
<1>0. TypeOK
  BY DEF TypeInv
<1> USE <1>0 DEF counters, queue, stored, history
<1>1. ASSUME NEW i \in Issues, ExpireIssuance(i)
      PROVE  TypeInv'
  BY <1>1 DEF ExpireIssuance, TypeInv, TypeOK, RequestFits, RunFits, Held, At,
              RunAt
<1>2. CASE ExpireSecrets
  <2>1. /\ code' \in Secrets \cup {None} /\ unused' \subseteq Secrets
        /\ live' \in [Issues -> Secrets \cup {Placeholder, None}]
        /\ current' \in Issues \cup {0}
    BY <1>2 DEF ExpireSecrets, TypeOK
  <2> QED
    BY <1>2, <2>1 DEF ExpireSecrets, TypeInv, TypeOK, RequestFits, RunFits,
                      Held, At, RunAt
<1>3. CASE ExpireCooldown \/ ExpireFailures
  <2>1. cooldown' \in BOOLEAN /\ failures' \in 0..MaxFailures
    <3>1. 0 \in 0..MaxFailures
      BY SecretsAssumption
    <3>2. CASE ExpireCooldown
      BY <3>2 DEF ExpireCooldown, TypeOK
    <3>3. CASE ExpireFailures
      BY <3>1, <3>3 DEF ExpireFailures, TypeOK
    <3> QED
      BY <1>3, <3>2, <3>3
  <2> QED
    BY <1>3, <2>1 DEF ExpireCooldown, ExpireFailures, TypeInv, TypeOK,
                      RequestFits, RunFits, Held, At, RunAt
<1>4. CASE ExpireLock
  <2>1. \A r \in Requests : [req[r] EXCEPT !.shut = FALSE] \in Request
    <3>1. \A x \in Request : [x EXCEPT !.shut = FALSE] \in Request
      <4> TAKE x \in Request
      <4> QED
        BY DEF Request
    <3>2. \A r \in Requests : req[r] \in Request
      BY DEF TypeOK
    <3> QED
      BY <3>1, <3>2
  <2>2. req' \in [Requests -> Request]
    BY <1>4, <2>1 DEF ExpireLock
  <2>3. \A r \in Requests :
          /\ req'[r].at = req[r].at /\ req'[r].purpose = req[r].purpose
          /\ req'[r].issue = req[r].issue /\ req'[r].secret = req[r].secret
    BY <1>4 DEF ExpireLock, TypeOK, Request
  <2> QED
    BY <1>4, <2>2, <2>3, ZenonT(60) DEF ExpireLock, TypeInv, TypeOK, RequestFits, RunFits,
                            Held, At, RunAt
<1> QED
  BY <1>1, <1>2, <1>3, <1>4 DEF Expire

\* The variables keep their types in every behaviour of requests and workers,
\* and a secret that has been accepted is one that was generated.
LEMMA TypeInvInductive ==
  ASSUME TypeInv, [Next]_vars
  PROVE  TypeInv'
<1>1. ASSUME NEW r \in Requests, Issue(r) \/ Consume(r) \/ RequestEnds(r)
      PROVE  TypeInv'
  <2>1. RequestStepFits(r)
    BY <1>1, IssueFits, ConsumeFits
  <2>2. UNCHANGED run
    BY <1>1 DEF Issue, Consume, RequestEnds, Register, CreatePendingAccount,
      Resend, CheckCooldown, ForgotPassword, StartLogin, LoginGate, Challenge,
      SetIssuance, SetCooldown, Enqueue, RecordFailedLogin, VerifyEmail,
      VerifyLogin, ResetPassword, Present, ConsumeActivationCode,
      ActivateAccount, FindChallenge, FirstGate, ConsumeLoginChallenge,
      SecondGate, CreateSession, PeekToken, ConsumeToken, UpdatePassword
  <2> QED
    BY <2>1, <2>2, OthersFit DEF TypeInv, RequestStepFits, OthersWait
<1>2. ASSUME NEW w \in Workers, Process(w)
      PROVE  TypeInv'
  BY <1>2, ProcessFits, OthersFit DEF TypeInv, OthersRun
<1>3. CASE UNCHANGED vars
  BY <1>3 DEF vars, counters, queue, stored, history, TypeInv, TypeOK,
              RequestFits, RunFits, Held, At, RunAt
<1> QED
  BY <1>1, <1>2, <1>3, ExpireFits DEF Next

\* Before any request and any run.
LEMMA TypeInvInit == Init => TypeInv
<1> SUFFICES ASSUME Init PROVE TypeInv
  OBVIOUS
<1>1. NoRequest \in Request /\ NoRun \in Run
  BY DEF NoRequest, Request, NoRun, Run
<1>2. /\ 0 \in 0..MaxIssues /\ 0 \in 0..Deliveries /\ 0 \in 0..MaxFailures
  BY SecretsAssumption
<1>3. TypeOK
  BY <1>1, <1>2 DEF Init, TypeOK
<1>4. \A r \in Requests : req[r].at = "idle"
  BY DEF Init, NoRequest
<1>5. \A w \in Workers : run[w].at = "idle"
  BY DEF Init, NoRun
<1> QED
  BY <1>3, <1>4, <1>5
     DEF Init, TypeInv, RequestFits, RunFits, Held, At, RunAt

\* Every variable of the authentication state keeps its type (AuthService,
\* EmailProcessor).
THEOREM SecretsTypeCorrect == Spec => []TypeOK
<1>1. TypeInv => TypeOK
  BY DEF TypeInv
<1> QED
  BY <1>1, TypeInvInit, TypeInvInductive, PTL DEF Spec
-----------------------------------------------------------------------------
(* What the steps of a request do to itself, the lock and the secrets. *)

\* The request holds nothing it did not hold before.
HoldsNoMore(r) ==
  Held(r)' => Held(r) /\ req'[r].secret = req[r].secret

\* register, resendEmailVerification, startLogin and requestPasswordReset hold
\* no accepted secret, write no code but a placeholder and never unlock.
LEMMA IssueMoves ==
  ASSUME TypeInv, NEW r \in Requests, Issue(r)
  PROVE  /\ OthersWait(r) /\ HoldsNoMore(r)
         /\ ~At(r, "session")' /\ req'[r].shut \in {FALSE, req[r].shut}
         /\ locked' \in BOOLEAN /\ (locked => locked')
         /\ UNCHANGED <<used, madeFor, code, unused, run, mailed, serial>>
         /\ \A i \in Issues : live'[i] \in {live[i], None, Placeholder}
<1>0. TypeOK /\ req[r] \in Request
  BY DEF TypeInv, TypeOK
<1> USE <1>0 DEF counters, queue, stored, history
<1>1. /\ UNCHANGED <<used, madeFor, code, unused, run, mailed, serial>>
      /\ \A i \in Issues : live'[i] \in {live[i], None, Placeholder}
  <2>1. CASE Challenge(r)
    <3>1. \A i \in Issues : live'[i] \in {live[i], None, Placeholder}
      BY <2>1 DEF Challenge, CreateLoginChallenge
    <3> QED
      BY <2>1, <3>1 DEF Challenge
  <2>2. CASE ~Challenge(r)
    BY <2>2 DEF Issue, Register, CreatePendingAccount, Resend, CheckCooldown,
      ForgotPassword, StartLogin, LoginGate, SetIssuance, SetCooldown, Enqueue,
      RecordFailedLogin
  <2> QED
    BY <2>1, <2>2
<1>2. locked' \in BOOLEAN /\ (locked => locked')
  <2>1. CASE RecordFailedLogin(r)
    BY <2>1, Zenon DEF RecordFailedLogin
  <2>2. CASE ~RecordFailedLogin(r)
    <3>1. UNCHANGED locked
      BY <2>2 DEF Issue, Register, CreatePendingAccount, Resend, CheckCooldown,
        ForgotPassword, StartLogin, LoginGate, Challenge, SetIssuance,
        SetCooldown, Enqueue
    <3> QED
      BY <3>1 DEF TypeOK
  <2> QED
    BY <2>1, <2>2
<1>3. /\ OthersWait(r) /\ ~Held(r)'
      /\ req'[r].shut \in {FALSE, req[r].shut}
  <2>1. CASE Register(r) \/ Resend(r) \/ ForgotPassword(r) \/ StartLogin(r)
    <3>1. PICK step \in {"insert", "cooldown", "issue", "gate", "fail"},
               p \in Purposes : Begin(r, step, p)
      BY <2>1 DEF Register, Resend, ForgotPassword, StartLogin, Purposes
    <3> QED
      BY <3>1, BeginSets, ZenonT(60) DEF Held, Steps
  <2>2. CASE \/ CreatePendingAccount(r) \/ CheckCooldown(r) \/ LoginGate(r)
             \/ SetCooldown(r) \/ Enqueue(r) \/ RecordFailedLogin(r)
             \/ SetIssuance(r) /\ req[r].purpose = "login"
    <3>1. Finish(r) \/ \E step \in {"issue", "challenge", "enqueue"} : Goto(r, step)
      BY <2>2 DEF CreatePendingAccount, CheckCooldown, LoginGate, SetCooldown,
                  Enqueue, RecordFailedLogin, SetIssuance
    <3>2. CASE Finish(r)
      BY <3>2, FinishSets DEF Held
    <3>3. CASE \E step \in {"issue", "challenge", "enqueue"} : Goto(r, step)
      BY <3>3, GotoSets DEF Held, Steps
    <3> QED
      BY <3>1, <3>2, <3>3
  <2>3. CASE Challenge(r) \/ (SetIssuance(r) /\ req[r].purpose # "login")
    <3>1. PICK step \in {"issue", "cool", "enqueue"} :
            req' = [req EXCEPT ![r].at = step, ![r].issue = issued + 1]
      BY <2>3, ZenonT(60) DEF Challenge, SetIssuance, TypeOK
    <3>2. PICK t : t = [req[r] EXCEPT !.at = step, !.issue = issued + 1]
      OBVIOUS
    <3>3. t.at = step /\ t.shut = req[r].shut
      BY <3>2 DEF Request
    <3>4. req' = [req EXCEPT ![r] = t]
      BY <3>1, <3>2 DEF TypeOK
    <3> QED
      BY <3>3, <3>4 DEF TypeOK, OthersWait, Held
  <2> QED
    BY <2>1, <2>2, <2>3 DEF Issue
<1> QED
  BY <1>1, <1>2, <1>3 DEF Held, At, HoldsNoMore

\* A secret is accepted: it is taken from where it is stored, and held.
Accepts(r) ==
  /\ Held(r)' /\ ~Held(r) /\ req'[r].secret = req[r].secret
  /\ UNCHANGED <<used, madeFor>>
  /\ \/ /\ code = req[r].secret /\ code' = None
        /\ UNCHANGED <<live, current, unused>>
     \/ \E i \in Issues :
          /\ live[i] = req[r].secret /\ live' = [live EXCEPT ![i] = None]
          /\ UNCHANGED <<code, current, unused>>
     \/ /\ req[r].secret \in unused /\ unused' = unused \ {req[r].secret}
        /\ UNCHANGED <<code, live, current>>

\* The secret a request holds is used.
Uses(r) ==
  /\ Held(r) /\ ~Held(r)'
  /\ Use(r) /\ UNCHANGED <<stored, madeFor>>

\* verifyEmail, completeLogin and resetPassword.
LEMMA ConsumeMoves ==
  ASSUME TypeInv, NEW r \in Requests, Consume(r) \/ RequestEnds(r)
  PROVE  /\ OthersWait(r) /\ UNCHANGED <<locked, run, mailed, madeFor, serial>>
         /\ req'[r].shut \in {FALSE, req[r].shut, locked}
         /\ At(r, "session")' => ~locked /\ req'[r].shut = req[r].shut
         /\ \/ HoldsNoMore(r) /\ UNCHANGED <<stored, used, madeFor>>
            \/ Accepts(r) \/ Uses(r)
<1>0. TypeOK /\ mailed \subseteq Secrets
  BY DEF TypeInv, TypeOK
<1> DEFINE Conclusion ==
      /\ OthersWait(r) /\ UNCHANGED <<locked, run, mailed, madeFor, serial>>
      /\ req'[r].shut \in {FALSE, req[r].shut, locked}
      /\ At(r, "session")' => ~locked /\ req'[r].shut = req[r].shut
      /\ \/ HoldsNoMore(r) /\ UNCHANGED <<stored, used, madeFor>>
         \/ Accepts(r) \/ Uses(r)
<1> USE <1>0 DEF counters, queue, stored, history, At
<1>1. ASSUME NEW x \in mailed, VerifyEmail(r, x) \/ ResetPassword(r, x)
      PROVE  Conclusion
  <2>1. PICK step \in {"consumeCode", "peek"} : Present(r, step, 0, x)
    BY <1>1 DEF VerifyEmail, ResetPassword
  <2>2. 0 \in Issues \cup {0} /\ x \in Secrets \cup {None} /\ step \in Steps
    BY DEF Steps
  <2>3. OthersWait(r) /\ req'[r].at = step /\ req'[r].shut = FALSE
    BY <2>1, <2>2, PresentSets
  <2> QED
    BY <2>1, <2>3 DEF Present, HoldsNoMore, Held
<1>2. ASSUME NEW i \in Issues, NEW x \in mailed \cup {None}, VerifyLogin(r, i, x)
      PROVE  Conclusion
  <2>1. OthersWait(r) /\ req'[r].at = "find" /\ req'[r].shut = FALSE
    BY <1>2, PresentSets DEF VerifyLogin, Steps
  <2> QED
    BY <1>2, <2>1 DEF VerifyLogin, Present, HoldsNoMore, Held
<1>3. CASE ConsumeActivationCode(r)
  <2>1. CASE ~(code = req[r].secret /\ code # None)
    BY <1>3, <2>1, FinishSets DEF ConsumeActivationCode, HoldsNoMore, Held
  <2>2. CASE code = req[r].secret /\ code # None
    BY <1>3, <2>2, GotoSets DEF ConsumeActivationCode, Accepts, Held, Steps
  <2> QED
    BY <2>1, <2>2
<1>4. CASE ActivateAccount(r) \/ CreateSession(r) \/ UpdatePassword(r)
  <2>1. /\ Finish(r) /\ Use(r) /\ Held(r)
        /\ UNCHANGED <<counters, queue, stored, run, mailed, madeFor, serial>>
    BY <1>4 DEF ActivateAccount, CreateSession, UpdatePassword, Held
  <2> QED
    BY <2>1, FinishSets DEF Uses, Held
<1>5. CASE FindChallenge(r)
  BY <1>5, FindChallengeSets DEF FindChallenge, HoldsNoMore, Held
<1>6. CASE FirstGate(r) \/ PeekToken(r)
  <2>1. /\ UNCHANGED <<account, counters, queue, stored, run, history>>
        /\ \/ Finish(r) \/ Goto(r, "consumeChallenge") \/ Goto(r, "consumeToken")
    BY <1>6 DEF FirstGate, PeekToken
  <2>2. CASE Finish(r)
    BY <2>1, <2>2, FinishSets DEF HoldsNoMore, Held
  <2>3. CASE Goto(r, "consumeChallenge") \/ Goto(r, "consumeToken")
    BY <2>1, <2>3, GotoSets DEF HoldsNoMore, Held, Steps
  <2> QED
    BY <2>1, <2>2, <2>3
<1>7. CASE ConsumeLoginChallenge(r)
  <2>1. OthersWait(r)
    BY <1>7, ConsumeLoginChallengeSets
  <2>2. /\ req[r].issue \in Issues /\ ~Held(r)
        /\ UNCHANGED <<locked, run, mailed, madeFor, serial, code, current,
                       unused, used>>
    BY <1>7 DEF ConsumeLoginChallenge, TypeInv, RequestFits, Held
  <2>3. CASE live' = live /\ ~Held(r)'
    <3>1. req'[r].shut \in {FALSE, req[r].shut} /\ req'[r].at \in {"idle", "fail"}
      BY <1>7, <2>3, ConsumeLoginChallengeSets DEF Held
    <3> QED
      BY <2>1, <2>2, <2>3, <3>1 DEF HoldsNoMore
  <2>4. CASE /\ live[req[r].issue] = req[r].secret
             /\ live' = [live EXCEPT ![req[r].issue] = None]
             /\ req'[r].at = "secondGate" /\ req'[r].shut = locked
             /\ req'[r].secret = req[r].secret
    BY <2>1, <2>2, <2>4 DEF Accepts, Held
  <2> QED
    BY <1>7, <2>3, <2>4, ConsumeLoginChallengeSets DEF Held
<1>8. CASE ConsumeToken(r)
  <2>1. CASE ~StillUnused(req[r].secret)
    BY <1>8, <2>1, FinishSets DEF ConsumeToken, HoldsNoMore, Held
  <2>2. CASE StillUnused(req[r].secret)
    BY <1>8, <2>2, GotoSets DEF ConsumeToken, StillUnused, Accepts, Held, Steps
  <2> QED
    BY <2>1, <2>2
<1>9. CASE SecondGate(r)
  <2>1. CASE LockedNow
    BY <1>9, <2>1, FinishSets DEF SecondGate, HoldsNoMore, Held
  <2>2. CASE ~LockedNow
    BY <1>9, <2>2, GotoSets DEF SecondGate, LockedNow, HoldsNoMore, Held, Steps
  <2> QED
    BY <2>1, <2>2
<1>10. CASE RequestEnds(r)
  BY <1>10, FinishSets DEF RequestEnds, HoldsNoMore, Held
<1> QED
  BY <1>1, <1>2, <1>3, <1>4, <1>5, <1>6, <1>7, <1>8, <1>9, <1>10 DEF Consume
\* A worker leaves requests and the lock alone, and only its store touches
\* secrets.
LEMMA ProcessMoves ==
  ASSUME NEW w \in Workers, Process(w)
  PROVE  /\ UNCHANGED <<req, locked, used>>
         /\ (\E x \in Secrets : Store(w, x)) \/ UNCHANGED <<stored, madeFor>>
BY DEF Process, TakeJob, FindUser, Store, RecheckIssuance, SendMail, RunFails,
       counters, queue, stored, history

-----------------------------------------------------------------------------
(* The login lock. *)

LockInv ==
  \A r \in Requests : /\ req[r].shut => locked
                      /\ At(r, "session") => ~req[r].shut

\* The lock that was there when a code was consumed is there until it expires.
LEMMA LockInvInductive ==
  ASSUME TypeInv, LockInv, [Next]_vars
  PROVE  LockInv'
<1>0. /\ locked \in BOOLEAN
      /\ \A r \in Requests : req[r].shut \in BOOLEAN
  BY DEF TypeInv, TypeOK, Request
<1>1. ASSUME NEW r \in Requests, Issue(r)
      PROVE  LockInv'
  BY <1>0, <1>1, IssueMoves DEF LockInv, OthersWait, At
<1>2. ASSUME NEW r \in Requests, Consume(r) \/ RequestEnds(r)
      PROVE  LockInv'
  BY <1>0, <1>2, ConsumeMoves DEF LockInv, OthersWait, At
<1>3. ASSUME NEW w \in Workers, Process(w)
      PROVE  LockInv'
  BY <1>3, ProcessMoves DEF LockInv, At
<1>4. CASE Expire
  <2>1. CASE ExpireLock
    <3>1. \A r \in Requests : req'[r].shut = FALSE
      BY <2>1 DEF ExpireLock, TypeInv, TypeOK, Request
    <3> QED
      BY <3>1 DEF LockInv
  <2>2. CASE ~ExpireLock
    <3>1. UNCHANGED <<req, locked>>
      BY <1>4, <2>2 DEF Expire, ExpireIssuance, ExpireSecrets, ExpireCooldown,
                        ExpireFailures, counters
    <3> QED
      BY <3>1 DEF LockInv, At
  <2> QED
    BY <2>1, <2>2
<1>5. CASE UNCHANGED vars
  BY <1>5 DEF vars, counters, LockInv, At
<1> QED
  BY <1>1, <1>2, <1>3, <1>4, <1>5 DEF Next

\* completeLogin: a code consumed while the account is locked signs nobody in.
THEOREM LockedLoginsFail == Spec => []LockedLoginFails
<1>1. Init => LockInv
  BY DEF Init, LockInv, NoRequest, At
<1>2. LockInv => LockedLoginFails
  BY DEF LockInv, LockedLoginFails
<1> QED
  BY <1>1, <1>2, TypeInvInit, TypeInvInductive, LockInvInductive, PTL DEF Spec

-----------------------------------------------------------------------------
(* One working challenge, one working reset token. *)

OneInv ==
  /\ \A i \in Issues : live[i] # None => i = current
  /\ \A x, y \in unused : x = y

\* Whoever writes a challenge names it in the account's key, which still names
\* the one before.
LEMMA OneInvInductive ==
  ASSUME TypeInv, OneInv, [Next]_vars
  PROVE  OneInv'
<1> USE DEF OneInv
<1>0. TypeOK /\ live \in [Issues -> Secrets \cup {Placeholder, None}]
  BY DEF TypeInv, TypeOK
<1>1. ASSUME NEW r \in Requests, Challenge(r)
      PROVE  OneInv'
  <2>1. \A i \in Issues : live'[i] # None => i = current'
    BY <1>0, <1>1 DEF Challenge, CreateLoginChallenge
  <2> QED
    BY <1>1, <2>1 DEF Challenge
<1>2. ASSUME NEW r \in Requests, Issue(r), ~Challenge(r)
      PROVE  OneInv'
  <2>1. UNCHANGED <<live, current, unused>>
    BY <1>2 DEF Issue, Register, CreatePendingAccount, Resend, CheckCooldown,
      ForgotPassword, StartLogin, LoginGate, SetIssuance, SetCooldown, Enqueue,
      RecordFailedLogin, stored
  <2> QED
    BY <2>1
<1>3. ASSUME NEW r \in Requests, Consume(r) \/ RequestEnds(r)
      PROVE  OneInv'
  <2>1. /\ current' = current /\ unused' \subseteq unused
        /\ \A i \in Issues : live'[i] \in {live[i], None}
    BY <1>0, <1>3, ConsumeMoves, ZenonT(60) DEF Accepts, Uses, stored
  <2> QED
    BY <2>1
<1>4. ASSUME NEW w \in Workers, NEW x \in Secrets, Store(w, x)
      PROVE  OneInv'
  <2>1. CASE CreateLoginChallenge(run[w].issue, x) /\ UNCHANGED unused
    BY <1>0, <2>1 DEF CreateLoginChallenge
  <2>2. CASE UNCHANGED <<live, current>> /\ unused' \in {unused, {x}}
    BY <2>2
  <2> QED
    BY <1>4, <2>1, <2>2, StoreSets
<1>5. ASSUME NEW w \in Workers, Process(w), ~\E x \in Secrets : Store(w, x)
      PROVE  OneInv'
  BY <1>5, ProcessMoves DEF stored
<1>6. CASE Expire
  <2>1. CASE ExpireSecrets
    <3>1. CASE UNCHANGED <<live, current>>
      BY <2>1, <3>1 DEF ExpireSecrets
    <3>2. CASE live' = [live EXCEPT ![current] = None] /\ UNCHANGED unused
      BY <1>0, <3>2
    <3> QED
      BY <2>1, <3>1, <3>2 DEF ExpireSecrets
  <2>2. CASE ~ExpireSecrets
    BY <1>6, <2>2 DEF Expire, ExpireIssuance, ExpireCooldown, ExpireFailures,
                      ExpireLock, stored
  <2> QED
    BY <2>1, <2>2
<1>7. CASE UNCHANGED vars
  BY <1>7 DEF vars, stored
<1> QED
  BY <1>1, <1>2, <1>3, <1>4, <1>5, <1>6, <1>7 DEF Next

\* CREATE_LOGIN_CHALLENGE_LUA and createPasswordResetToken: at most one
\* challenge and one reset token of the account work.
THEOREM OneSecretWorksAlways == Spec => []OneSecretWorks
<1>1. Init => OneInv
  BY DEF Init, OneInv
<1>2. ASSUME OneInv PROVE OneSecretWorks
  <2>1. \A S, a : S \subseteq {a} => Cardinality(S) <= 1
    <3> TAKE S, a
    <3> HAVE S \subseteq {a}
    <3>1. Cardinality({a}) = 1 /\ IsFiniteSet({a})
      BY FS_Singleton
    <3>2. S = {} \/ S = {a}
      OBVIOUS
    <3> QED
      BY <3>1, <3>2, FS_EmptySet
  <2>2. {i \in Issues : live[i] # None} \subseteq {current}
    BY <1>2 DEF OneInv
  <2>3. \E x : unused \subseteq {x}
    BY <1>2 DEF OneInv
  <2> QED
    BY <2>1, <2>2, <2>3 DEF OneSecretWorks
<1> QED
  BY <1>1, <1>2, TypeInvInit, TypeInvInductive, OneInvInductive, PTL DEF Spec
-----------------------------------------------------------------------------
(* Single use: a secret is stored in one place, or held by one request, or     *)
(* used, or none of these.                                                     *)

HeldOnce ==
  \A r, q \in Requests :
    Held(r) /\ Held(q) /\ req[r].secret = req[q].secret => r = q

Spent(x) == x \in used \/ \E r \in Requests : Held(r) /\ req[r].secret = x

SecretOK(x) ==
  /\ madeFor[x] = 0 => ~Works(x) /\ ~Spent(x)
  /\ Works(x) => ~Spent(x)
  /\ code = x => x \notin unused /\ \A i \in Issues : live[i] # x
  /\ x \in unused => \A i \in Issues : live[i] # x
  /\ x \in used => \A r \in Requests : Held(r) => req[r].secret # x

UseInv == HeldOnce /\ \A x \in Secrets : SecretOK(x)

\* A step that neither stores, accepts nor uses a secret of Redis or of
\* password_reset_tokens.
LEMMA NothingNew ==
  ASSUME TypeInv, UseInv,
         code' \in {code, None}, unused' \subseteq unused,
         \A i \in Issues : live'[i] \in {live[i], None, Placeholder},
         UNCHANGED <<used, madeFor>>,
         \A r \in Requests : HoldsNoMore(r)
  PROVE  UseInv'
<1>1. HeldOnce'
  BY DEF UseInv, HeldOnce, HoldsNoMore
<1>2. ASSUME NEW x \in Secrets
      PROVE  SecretOK(x)'
  <2>1. SecretOK(x) /\ x # None /\ x # Placeholder
    BY SecretsAssumption DEF UseInv
  <2>2. /\ code' = x => code = x
        /\ \A i \in Issues : live'[i] = x => live[i] = x
    BY <2>1
  <2>3. Spent(x)' => Spent(x)
    BY DEF Spent, HoldsNoMore
  <2>4. Works(x)' => Works(x)
    BY <2>2 DEF Works
  <2> QED
    BY <2>1, <2>2, <2>3, <2>4 DEF SecretOK, HoldsNoMore
<1> QED
  BY <1>1, <1>2 DEF UseInv

\* An accepted code or token has left its place and is held by one request.
LEMMA AcceptKeepsUse ==
  ASSUME TypeInv, UseInv, OneInv, NEW r \in Requests, OthersWait(r), Accepts(r),
         RequestFits(r)'
  PROVE  UseInv'
<1>1. PICK y \in Secrets : req[r].secret = y
  BY DEF Accepts, RequestFits
<1>2. y # None /\ y # Placeholder /\ live \in [Issues -> Secrets \cup {Placeholder, None}]
  BY SecretsAssumption DEF TypeInv, TypeOK
<1>3. Works(y) /\ SecretOK(y)
  BY <1>1 DEF Accepts, Works, UseInv
<1>4. ~Works(y)'
  <2>1. CASE code = y /\ code' = None /\ UNCHANGED <<live, current, unused>>
    BY <1>2, <1>3, <2>1 DEF Works, SecretOK
  <2>2. ASSUME NEW i \in Issues, live[i] = y, live' = [live EXCEPT ![i] = None],
               UNCHANGED <<code, current, unused>>
        PROVE  ~Works(y)'
    <3>1. \A j \in Issues : live'[j] # y
      BY <1>2, <2>2 DEF OneInv
    <3>2. code # y /\ y \notin unused
      BY <1>3, <2>2 DEF SecretOK
    <3> QED
      BY <2>2, <3>1, <3>2 DEF Works
  <2>3. CASE y \in unused /\ unused' = unused \ {y} /\ UNCHANGED <<code, live, current>>
    BY <1>3, <2>3 DEF Works, SecretOK
  <2> QED
    BY <1>1, <2>1, <2>2, <2>3 DEF Accepts
<1>5. HeldOnce'
  BY <1>1, <1>3
     DEF UseInv, HeldOnce, SecretOK, Spent, Accepts, OthersWait, Held
<1>6. /\ \A x \in Secrets : (code' = x => code = x) /\ (Works(x)' => Works(x))
      /\ unused' \subseteq unused
      /\ \A x \in Secrets, i \in Issues : live'[i] = x => live[i] = x
  BY <1>2, SecretsAssumption DEF Accepts, Works
<1>7. ASSUME NEW x \in Secrets
      PROVE  SecretOK(x)'
  <2>1. SecretOK(x)
    BY DEF UseInv
  <2>2. CASE x = y
    <3>1. madeFor'[y] # 0 /\ y \notin used'
      BY <1>3 DEF SecretOK, Spent, Accepts
    <3> QED
      BY <1>4, <2>2, <3>1 DEF SecretOK, Works
  <2>3. CASE x # y
    <3>1. Spent(x)' => Spent(x)
      BY <1>1, <2>3 DEF Spent, Accepts, OthersWait, Held
    <3>2. \A q \in Requests : Held(q)' /\ req'[q].secret = x =>
                                Held(q) /\ req[q].secret = x
      BY <1>1, <2>3 DEF Accepts, OthersWait, Held
    <3> QED
      BY <1>6, <2>1, <3>1, <3>2 DEF SecretOK, Accepts
  <2> QED
    BY <2>2, <2>3
<1> QED
  BY <1>5, <1>7 DEF UseInv

\* activateAccount, createSessionAfterLogin and updatePasswordHash.
LEMMA UseKeepsUse ==
  ASSUME TypeInv, UseInv, NEW r \in Requests, OthersWait(r), Uses(r)
  PROVE  UseInv'
<1>1. HeldOnce'
  BY DEF UseInv, HeldOnce, Uses, OthersWait, Held
<1>2. ASSUME NEW x \in Secrets
      PROVE  SecretOK(x)'
  <2>1. SecretOK(x) /\ (Works(x)' <=> Works(x))
    BY DEF UseInv, Uses, stored, Works
  <2>2. Spent(x)' => Spent(x)
    BY DEF Spent, Uses, Use, OthersWait, Held
  <2>3. x \in used' => \A q \in Requests : Held(q)' => req'[q].secret # x
    BY <2>1 DEF Uses, Use, OthersWait, Held, UseInv, HeldOnce, SecretOK
  <2> QED
    BY <2>1, <2>2, <2>3 DEF SecretOK, Uses, stored
<1> QED
  BY <1>1, <1>2 DEF UseInv

\* The worker stores a secret nobody has had.
LEMMA StoreKeepsUse ==
  ASSUME TypeInv, UseInv, NEW w \in Workers, NEW y \in Secrets, Store(w, y)
  PROVE  UseInv'
<1>1. UNCHANGED <<req, used>>
  BY DEF Store
<1>2. HeldOnce'
  BY <1>1 DEF UseInv, HeldOnce, Held
<1>3. /\ madeFor \in [Secrets -> Issues \cup {0}]
      /\ live \in [Issues -> Secrets \cup {Placeholder, None}]
      /\ y # None /\ y # Placeholder
  BY SecretsAssumption DEF TypeInv, TypeOK
<1>4. /\ madeFor[y] = 0 /\ run[w].issue \in Issues
      /\ madeFor' = [madeFor EXCEPT ![y] = run[w].issue]
  BY StoreSets
<1>5. SecretOK(y) /\ ~Works(y) /\ ~Spent(y) /\ ~Spent(y)'
  BY <1>1, <1>4 DEF UseInv, SecretOK, Spent, Held
<1>6. madeFor'[y] # 0
  BY <1>3, <1>4 DEF Issues
<1>7. \/ code' = y /\ UNCHANGED <<live, unused>>
      \/ /\ UNCHANGED <<code, unused>>
         /\ \A i \in Issues : live'[i] \in {live[i], None, y}
      \/ unused' = {y} /\ UNCHANGED <<code, live>>
  BY StoreSets DEF CreateLoginChallenge
<1>8. SecretOK(y)'
  <2>1. /\ code # y /\ y \notin unused /\ \A i \in Issues : live[i] # y
    BY <1>5 DEF Works
  <2>2. /\ code' = y => y \notin unused' /\ \A i \in Issues : live'[i] # y
        /\ y \in unused' => \A i \in Issues : live'[i] # y
    BY <1>7, <2>1
  <2> QED
    BY <1>5, <1>6, <2>2 DEF SecretOK, Spent
<1>9. ASSUME NEW x \in Secrets, x # y
      PROVE  SecretOK(x)'
  <2>1. SecretOK(x) /\ madeFor'[x] = madeFor[x] /\ x # None
    BY <1>3, <1>4, <1>9, SecretsAssumption DEF UseInv
  <2>2. /\ code' = x => code = x
        /\ x \in unused' => x \in unused
        /\ \A i \in Issues : live'[i] = x => live[i] = x
    BY <1>7, <1>9, <2>1
  <2>3. (Works(x)' => Works(x)) /\ (Spent(x)' <=> Spent(x))
    BY <1>1, <2>2 DEF Works, Spent, Held
  <2> QED
    BY <1>1, <2>1, <2>2, <2>3 DEF SecretOK, Held
<1> QED
  BY <1>2, <1>8, <1>9 DEF UseInv

\* No step gives a secret a second place or a second holder.
LEMMA UseInvInductive ==
  ASSUME TypeInv, OneInv, UseInv, [Next]_vars
  PROVE  UseInv'
<1>0. TypeInv'
  BY TypeInvInductive
<1>1. ASSUME NEW r \in Requests, Issue(r)
      PROVE  UseInv'
  <2>1. \A q \in Requests : HoldsNoMore(q)
    BY <1>1, IssueMoves DEF OthersWait, HoldsNoMore, Held
  <2> QED
    BY <1>1, <2>1, IssueMoves, NothingNew
<1>2. ASSUME NEW r \in Requests, Consume(r) \/ RequestEnds(r)
      PROVE  UseInv'
  <2>1. /\ OthersWait(r) /\ RequestFits(r)'
        /\ \/ HoldsNoMore(r) /\ UNCHANGED <<stored, used, madeFor>>
           \/ Accepts(r) \/ Uses(r)
    BY <1>0, <1>2, ConsumeMoves DEF TypeInv
  <2>2. CASE HoldsNoMore(r) /\ UNCHANGED <<stored, used, madeFor>>
    <3>1. \A q \in Requests : HoldsNoMore(q)
      BY <2>1, <2>2 DEF OthersWait, HoldsNoMore, Held
    <3> QED
      BY <2>2, <3>1, NothingNew DEF stored
  <2> QED
    BY <2>1, <2>2, AcceptKeepsUse, UseKeepsUse
<1>3. ASSUME NEW w \in Workers, Process(w)
      PROVE  UseInv'
  <2>1. CASE \E x \in Secrets : Store(w, x)
    BY <2>1, StoreKeepsUse
  <2>2. CASE ~\E x \in Secrets : Store(w, x)
    <3>1. UNCHANGED <<req, used, stored, madeFor>>
      BY <1>3, <2>2, ProcessMoves
    <3>2. \A r \in Requests : HoldsNoMore(r)
      BY <3>1 DEF HoldsNoMore, Held
    <3> QED
      BY <3>1, <3>2, NothingNew DEF stored
  <2> QED
    BY <2>1, <2>2
<1>4. CASE Expire
  <2>1. \A r \in Requests : HoldsNoMore(r)
    <3>1. CASE ExpireLock
      BY <3>1 DEF ExpireLock, HoldsNoMore, Held, TypeInv, TypeOK, Request
    <3>2. CASE ~ExpireLock
      BY <1>4, <3>2 DEF Expire, ExpireIssuance, ExpireSecrets, ExpireCooldown,
                        ExpireFailures, HoldsNoMore, Held
    <3> QED
      BY <3>1, <3>2
  <2>2. /\ code' \in {code, None} /\ unused' \subseteq unused
        /\ \A i \in Issues : live'[i] \in {live[i], None, Placeholder}
    <3>1. CASE ExpireSecrets
      BY <3>1 DEF ExpireSecrets, TypeInv, TypeOK
    <3>2. CASE ~ExpireSecrets
      BY <1>4, <3>2 DEF Expire, ExpireIssuance, ExpireCooldown, ExpireFailures,
                        ExpireLock, stored
    <3> QED
      BY <3>1, <3>2
  <2>3. UNCHANGED <<used, madeFor>>
    BY <1>4 DEF Expire, ExpireIssuance, ExpireSecrets, ExpireCooldown,
                ExpireFailures, ExpireLock, history
  <2> QED
    BY <2>1, <2>2, <2>3, NothingNew
<1>5. CASE UNCHANGED vars
  <2>1. \A r \in Requests : HoldsNoMore(r)
    BY <1>5 DEF vars, HoldsNoMore, Held
  <2> QED
    BY <1>5, <2>1, NothingNew DEF vars, stored, history
<1> QED
  BY <1>1, <1>2, <1>3, <1>4, <1>5 DEF Next

\* verifyEmail, completeLogin and resetPassword: a secret has its effect once,
\* however many requests present it and whatever is delivered again.
THEOREM SecretsUsedOnce == Spec => SecretUsedOnce
<1>1. Init => UseInv
  <2> SUFFICES ASSUME Init PROVE UseInv
    OBVIOUS
  <2>1. \A r \in Requests : ~Held(r)
    BY DEF Init, NoRequest, Held
  <2>2. \A x \in Secrets : x # None
    BY SecretsAssumption
  <2>3. \A x \in Secrets : ~Works(x)
    BY <2>2 DEF Init, Works
  <2> QED
    BY <2>1, <2>2, <2>3 DEF Init, UseInv, HeldOnce, SecretOK, Spent
<1>2. Init => OneInv
  BY DEF Init, OneInv
<1>3. TypeInv /\ UseInv =>
        \A r \in Requests :
          ActivateAccount(r) \/ CreateSession(r) \/ UpdatePassword(r) =>
            req[r].secret \notin used
  BY DEF TypeInv, RequestFits, UseInv, SecretOK, ActivateAccount, CreateSession,
         UpdatePassword, At, Held
<1> QED
  BY <1>1, <1>2, <1>3, TypeInvInit, TypeInvInductive, OneInvInductive,
     UseInvInductive, PTL DEF Spec, SecretUsedOnce
-----------------------------------------------------------------------------
(* Late jobs: numbers are given in order, and the key of an account names the  *)
(* last issuance of its purpose.                                               *)

NumberInv ==
  /\ \A i \in Issues : purpose[i] # None => i <= issued
  /\ \A i \in valid, j \in Issues :
       purpose[i] # "login" /\ purpose[j] = purpose[i] => j <= i
  /\ \A r \in Requests :
       At(r, "issue") /\ req[r].purpose = "login" =>
         purpose[req[r].issue] = "login"

\* generateChallengeId gives a new issuance, whose purpose is not forgotten.
PurposesKept ==
  \A i \in Issues : purpose[i] # None => purpose'[i] = purpose[i]

\* setIssuance: every step of register, startLogin and the others keeps
\* NumberInv and the purposes.
LEMMA IssueNumbers ==
  ASSUME TypeInv, NumberInv, NEW r \in Requests, Issue(r)
  PROVE  NumberInv' /\ PurposesKept
<1>0. /\ TypeOK /\ RequestFits(r) /\ req[r] \in Request /\ issued \in Nat
      /\ \A i \in Issues : i \in Nat
  BY SecretsAssumption DEF TypeInv, TypeOK, Issues
<1> USE <1>0
<1>1. OthersWait(r)
  BY IssueMoves
<1>2. CASE Challenge(r)
  <2>1. /\ issued + 1 \in Issues /\ issued' = issued + 1
        /\ purpose'[issued + 1] = "login"
        /\ \A i \in Issues : i # issued + 1 => purpose'[i] = purpose[i]
    BY <1>2, NextIsIssue DEF Challenge, Purposes, Number
  <2>2. PICK t : t = [req[r] EXCEPT !.at = "issue", !.issue = issued + 1]
    OBVIOUS
  <2>3. t.issue = issued + 1
    BY <2>2 DEF Request
  <2>4. req' = [req EXCEPT ![r] = t]
    BY <1>2, <2>2 DEF Challenge, TypeOK
  <2>5. req'[r].issue = issued + 1
    BY <2>3, <2>4 DEF TypeOK
  <2>6. PurposesKept
    BY <2>1 DEF NumberInv, PurposesKept
  <2>7. valid' = valid /\ \A i \in valid : i \in Issues /\ purpose[i] # None
    BY <1>2 DEF Challenge, TypeInv, TypeOK
  <2>8. \A q \in Requests \ {r} :
          At(q, "issue") /\ req[q].purpose = "login" =>
            req[q].issue \in Issues /\ purpose[req[q].issue] # None
    BY DEF TypeInv, RequestFits
  <2>9. \A i \in valid', j \in Issues :
          purpose'[i] # "login" /\ purpose'[j] = purpose'[i] => j <= i
    BY <2>1, <2>6, <2>7 DEF NumberInv, PurposesKept
  <2>10. \A q \in Requests :
           At(q, "issue")' /\ req'[q].purpose = "login" =>
             purpose'[req'[q].issue] = "login"
    BY <1>1, <2>1, <2>5, <2>6, <2>8
       DEF NumberInv, PurposesKept, OthersWait, At
  <2> QED
    BY <2>1, <2>6, <2>9, <2>10 DEF NumberInv
<1>3. CASE SetIssuance(r) /\ req[r].purpose = "login"
  <2>1. UNCHANGED <<issued, purpose>> /\ req'[r].at = "enqueue"
    BY <1>3, GotoSets DEF SetIssuance, Steps
  <2>2. valid' = valid \cup {req[r].issue} /\ purpose[req[r].issue] = "login"
    BY <1>3 DEF SetIssuance, NumberInv
  <2> QED
    BY <1>1, <2>1, <2>2 DEF NumberInv, PurposesKept, OthersWait, At
<1>4. CASE SetIssuance(r) /\ req[r].purpose # "login"
  <2>1. req[r].purpose \in Purposes /\ req[r].purpose # None
    BY <1>4, SecretsAssumption DEF SetIssuance, RequestFits, At
  <2>2. /\ issued + 1 \in Issues /\ issued' = issued + 1
        /\ purpose'[issued + 1] = req[r].purpose
        /\ \A i \in Issues : i # issued + 1 => purpose'[i] = purpose[i]
    BY <1>4, <2>1, NextIsIssue DEF SetIssuance, Number
  <2>3. PurposesKept
    BY <2>2 DEF NumberInv, PurposesKept
  <2>4. /\ valid' = {i \in valid : purpose[i] # req[r].purpose} \cup {issued + 1}
        /\ \A i \in valid : i \in Issues /\ purpose[i] # None
    BY <1>4 DEF SetIssuance, TypeInv, TypeOK
  <2>5. \A i \in valid', j \in Issues :
          purpose'[i] # "login" /\ purpose'[j] = purpose'[i] => j <= i
    <3> SUFFICES ASSUME NEW i \in valid', NEW j \in Issues,
                        purpose'[i] # "login", purpose'[j] = purpose'[i]
                 PROVE  j <= i
      OBVIOUS
    <3>1. CASE i = issued + 1
      <4>1. j = issued + 1 \/ purpose[j] # None
        BY <2>1, <2>2, <3>1
      <4> QED
        BY <3>1, <4>1 DEF NumberInv
    <3>2. CASE i # issued + 1
      <4>1. i \in valid /\ purpose[i] # req[r].purpose /\ purpose'[i] = purpose[i]
        BY <2>2, <2>4, <3>2
      <4>2. j # issued + 1 /\ purpose'[j] = purpose[j]
        BY <2>2, <4>1
      <4> QED
        BY <4>1, <4>2 DEF NumberInv
    <3> QED
      BY <3>1, <3>2
  <2>6. req'[r].at # "issue"
    <3>1. PICK step \in {"cool", "enqueue"} :
            req' = [req EXCEPT ![r].issue = issued + 1, ![r].at = step]
      BY <1>4 DEF SetIssuance
    <3>2. PICK t : t = [req[r] EXCEPT !.issue = issued + 1, !.at = step]
      OBVIOUS
    <3>3. t.at = step /\ req' = [req EXCEPT ![r] = t]
      BY <3>1, <3>2 DEF TypeOK, Request
    <3> QED
      BY <3>3 DEF TypeOK
  <2>7. \A q \in Requests \ {r} :
          At(q, "issue") /\ req[q].purpose = "login" =>
            req[q].issue \in Issues /\ purpose[req[q].issue] # None
    BY DEF TypeInv, RequestFits
  <2>8. \A q \in Requests :
           At(q, "issue")' /\ req'[q].purpose = "login" =>
             purpose'[req'[q].issue] = "login"
    BY <1>1, <2>3, <2>6, <2>7 DEF NumberInv, PurposesKept, OthersWait, At
  <2> QED
    BY <2>2, <2>3, <2>5, <2>8 DEF NumberInv
<1>5. CASE ~Challenge(r) /\ ~SetIssuance(r)
  <2>1. UNCHANGED <<issued, purpose, valid>>
    BY <1>5 DEF Issue, Register, CreatePendingAccount, Resend, CheckCooldown,
      ForgotPassword, StartLogin, LoginGate, SetCooldown, Enqueue,
      RecordFailedLogin, queue
  <2>2. At(r, "issue")' => req'[r].purpose # "login"
    <3>1. CASE Register(r) \/ Resend(r) \/ ForgotPassword(r) \/ StartLogin(r)
      <4>1. \/ \E step \in {"insert", "cooldown"} : Begin(r, step, "activation")
            \/ Begin(r, "issue", "reset")
            \/ \E step \in {"gate", "fail"} : Begin(r, step, "login")
        BY <3>1 DEF Register, Resend, ForgotPassword, StartLogin
      <4> QED
        BY <4>1, BeginSets DEF Steps, Purposes, At
    <3>2. CASE CreatePendingAccount(r) \/ CheckCooldown(r)
      <4>1. req[r].purpose = "activation"
        BY <3>2 DEF CreatePendingAccount, CheckCooldown, RequestFits, At
      <4>2. Finish(r) \/ Goto(r, "issue")
        BY <3>2 DEF CreatePendingAccount, CheckCooldown
      <4> QED
        BY <4>1, <4>2, FinishSets, GotoSets DEF Steps, At
    <3>3. CASE LoginGate(r) \/ SetCooldown(r) \/ Enqueue(r) \/ RecordFailedLogin(r)
      <4>1. Finish(r) \/ Goto(r, "challenge") \/ Goto(r, "enqueue")
        BY <3>3 DEF LoginGate, SetCooldown, Enqueue, RecordFailedLogin
      <4> QED
        BY <4>1, FinishSets, GotoSets DEF Steps, At
    <3> QED
      BY <1>5, <3>1, <3>2, <3>3 DEF Issue
  <2> QED
    BY <1>1, <2>1, <2>2 DEF NumberInv, PurposesKept, OthersWait, At
<1> QED
  BY <1>2, <1>3, <1>4, <1>5

\* A step that is not one of register, startLogin and the others only takes
\* issuances away.
LEMMA OthersNumber ==
  ASSUME TypeInv, NumberInv, [Next]_vars,
         ~\E r \in Requests : Issue(r)
  PROVE  NumberInv' /\ UNCHANGED purpose
<1>1. UNCHANGED <<issued, purpose>> /\ valid' \subseteq valid
  <2>1. ASSUME NEW r \in Requests, Consume(r) \/ RequestEnds(r)
        PROVE  UNCHANGED <<issued, purpose, valid>>
    BY <2>1 DEF Consume, RequestEnds, VerifyEmail, VerifyLogin, ResetPassword,
      Present, ConsumeActivationCode, ActivateAccount, FindChallenge, FirstGate,
      ConsumeLoginChallenge, SecondGate, CreateSession, PeekToken, ConsumeToken,
      UpdatePassword, queue
  <2>2. ASSUME NEW w \in Workers, Process(w)
        PROVE  UNCHANGED <<issued, purpose, valid>>
    BY <2>2 DEF Process, TakeJob, FindUser, Store, RecheckIssuance, SendMail,
                RunFails, queue
  <2>3. CASE Expire
    BY <2>3 DEF Expire, ExpireIssuance, ExpireSecrets, ExpireCooldown,
                ExpireFailures, ExpireLock, queue
  <2> QED
    BY <2>1, <2>2, <2>3 DEF Next, vars, queue
<1>2. \A r \in Requests : At(r, "issue")' /\ (req[r].purpose = "login")' =>
        /\ At(r, "issue") /\ req[r].purpose = "login"
        /\ req'[r].issue = req[r].issue
  <2>1. ASSUME NEW r \in Requests, Consume(r) \/ RequestEnds(r)
        PROVE  OthersWait(r) /\ ~At(r, "issue")'
    BY <2>1, ConsumeFits DEF RequestStepFits, Unbound, At
  <2>2. ASSUME NEW w \in Workers, Process(w)
        PROVE  UNCHANGED req
    BY <2>2, ProcessMoves
  <2>3. CASE Expire
    <3>1. CASE ExpireLock
      BY <3>1 DEF ExpireLock, At, TypeInv, TypeOK, Request
    <3>2. CASE ~ExpireLock
      BY <2>3, <3>2 DEF Expire, ExpireIssuance, ExpireSecrets, ExpireCooldown,
                        ExpireFailures, At
    <3> QED
      BY <3>1, <3>2
  <2>4. CASE UNCHANGED req
    BY <2>4 DEF At
  <2> QED
    BY <2>1, <2>2, <2>3, <2>4 DEF Next, vars, OthersWait, At
<1> QED
  BY <1>1, <1>2 DEF NumberInv, At

\* Numbers are given in order and keys name the last issuance.
LEMMA NumberInvInductive ==
  ASSUME TypeInv, NumberInv, [Next]_vars
  PROVE  NumberInv' /\ PurposesKept
BY IssueNumbers, OthersNumber DEF PurposesKept

-----------------------------------------------------------------------------
(* Where a secret is stored tells what it was generated for.                   *)

MadeFor(x, p) == madeFor[x] \in Issues /\ purpose[madeFor[x]] = p

PlaceInv ==
  /\ code \in Secrets => MadeFor(code, "activation")
  /\ \A x \in unused : MadeFor(x, "reset")
  /\ \A i \in Issues : live[i] # None => purpose[i] = "login"
  /\ \A i \in Issues : live[i] \in Secrets => madeFor[live[i]] = i

\* A step that stores nothing.
LEMMA PlacesKept ==
  ASSUME TypeInv, PlaceInv, PurposesKept,
         code' \in {code, None}, unused' \subseteq unused, UNCHANGED madeFor,
         \A i \in Issues : \/ live'[i] \in {live[i], None}
                           \/ live'[i] = Placeholder /\ purpose'[i] = "login"
  PROVE  PlaceInv'
<1>1. /\ None \notin Purposes /\ {"activation", "login", "reset"} = Purposes
      /\ None \notin Secrets /\ Placeholder \notin Secrets
      /\ unused \subseteq Secrets
  BY SecretsAssumption DEF Purposes, TypeInv, TypeOK
<1>2. \A x \in Secrets, p \in Purposes : MadeFor(x, p) => MadeFor(x, p)'
  BY <1>1 DEF MadeFor, PurposesKept
<1>3. \A i \in Issues : purpose[i] = "login" => purpose'[i] = "login"
  BY <1>1 DEF PurposesKept
<1>4. code' \in Secrets => MadeFor(code, "activation")'
  BY <1>1, <1>2 DEF PlaceInv, MadeFor
<1>5. \A x \in unused' : MadeFor(x, "reset")'
  BY <1>1, <1>2 DEF PlaceInv
<1>6. \A i \in Issues : live'[i] # None => purpose'[i] = "login"
  BY <1>3 DEF PlaceInv
<1>7. \A i \in Issues : live'[i] \in Secrets => madeFor'[live'[i]] = i
  BY <1>1 DEF PlaceInv
<1> QED
  BY <1>4, <1>5, <1>6, <1>7 DEF PlaceInv

\* EmailProcessor stores a secret where its issuance says.
LEMMA StoreKeepsPlaces ==
  ASSUME TypeInv, UseInv, PlaceInv, NEW w \in Workers, NEW y \in Secrets,
         Store(w, y)
  PROVE  PlaceInv'
<1>1. /\ madeFor \in [Secrets -> Issues \cup {0}] /\ None \notin Secrets
      /\ live \in [Issues -> Secrets \cup {Placeholder, None}]
      /\ Placeholder \notin Secrets /\ unused \subseteq Secrets
  BY SecretsAssumption DEF TypeInv, TypeOK
<1>2. PICK k \in Issues : k = run[w].issue
  BY StoreSets
<1>3. madeFor' = [madeFor EXCEPT ![y] = k] /\ ~Works(y) /\ UNCHANGED purpose
  BY <1>2, StoreSets DEF UseInv, SecretOK, Store, queue
<1>4. \A x \in Secrets, p \in Purposes : x # y => (MadeFor(x, p)' <=> MadeFor(x, p))
  BY <1>1, <1>3 DEF MadeFor
<1>5. madeFor'[y] = k /\ \A x \in Secrets : x # y => madeFor'[x] = madeFor[x]
  BY <1>1, <1>3
<1>6. code # y /\ y \notin unused /\ \A i \in Issues : live[i] # y
  BY <1>3 DEF Works
<1>7. CASE purpose[k] = "activation" /\ code' = y /\ UNCHANGED <<live, unused>>
  BY <1>1, <1>3, <1>4, <1>5, <1>6, <1>7 DEF PlaceInv, MadeFor, Purposes
<1>8. CASE purpose[k] = "login" /\ CreateLoginChallenge(k, y)
             /\ UNCHANGED <<code, unused>>
  <2>1. \A i \in Issues : live'[i] = (IF i = k THEN y
                            ELSE IF i = current THEN None ELSE live[i])
    BY <1>8 DEF CreateLoginChallenge
  <2>2. \A i \in Issues : live'[i] # None => purpose'[i] = "login"
    BY <1>3, <1>8, <2>1 DEF PlaceInv
  <2>3. \A i \in Issues : live'[i] \in Secrets => madeFor'[live'[i]] = i
    BY <1>1, <1>5, <1>6, <2>1 DEF PlaceInv
  <2>4. code' \in Secrets => MadeFor(code, "activation")'
    BY <1>3, <1>5, <1>6, <1>8 DEF PlaceInv, MadeFor
  <2>5. \A x \in unused' : MadeFor(x, "reset")'
    BY <1>1, <1>3, <1>5, <1>6, <1>8 DEF PlaceInv, MadeFor
  <2> QED
    BY <2>2, <2>3, <2>4, <2>5 DEF PlaceInv
<1>9. CASE purpose[k] = "reset" /\ unused' = {y} /\ UNCHANGED <<code, live>>
  BY <1>1, <1>3, <1>4, <1>5, <1>6, <1>9 DEF PlaceInv, MadeFor, Purposes
<1> QED
  BY <1>2, <1>7, <1>8, <1>9, StoreSets

\* Generated secrets stay where they belong, whoever steps.
LEMMA PlaceInvInductive ==
  ASSUME TypeInv, UseInv, NumberInv, PlaceInv, [Next]_vars
  PROVE  PlaceInv'
<1>0. PurposesKept /\ live \in [Issues -> Secrets \cup {Placeholder, None}]
  BY NumberInvInductive DEF TypeInv, TypeOK
<1>1. ASSUME NEW r \in Requests, Issue(r)
      PROVE  PlaceInv'
  <2>1. UNCHANGED <<code, unused, madeFor>>
    BY <1>1, IssueMoves
  <2>2. \A i \in Issues : \/ live'[i] \in {live[i], None}
                          \/ live'[i] = Placeholder /\ purpose'[i] = "login"
    <3>1. CASE Challenge(r)
      <4>1. purpose'[issued + 1] = "login"
        BY <3>1, NextIsIssue DEF Challenge, Purposes, TypeInv
      <4> QED
        BY <3>1, <4>1 DEF Challenge, CreateLoginChallenge
    <3>2. CASE ~Challenge(r)
      BY <1>1, <3>2 DEF Issue, Register, CreatePendingAccount, Resend,
        CheckCooldown, ForgotPassword, StartLogin, LoginGate, SetIssuance,
        SetCooldown, Enqueue, RecordFailedLogin, stored
    <3> QED
      BY <3>1, <3>2
  <2> QED
    BY <1>0, <2>1, <2>2, PlacesKept
<1>2. ASSUME NEW r \in Requests, Consume(r) \/ RequestEnds(r)
      PROVE  PlaceInv'
  <2>1. /\ code' \in {code, None} /\ unused' \subseteq unused
        /\ UNCHANGED madeFor
        /\ \A i \in Issues : live'[i] \in {live[i], None}
    BY <1>0, <1>2, ConsumeMoves DEF Accepts, Uses, stored
  <2> QED
    BY <1>0, <2>1, PlacesKept
<1>3. ASSUME NEW w \in Workers, Process(w)
      PROVE  PlaceInv'
  <2>1. CASE \E x \in Secrets : Store(w, x)
    BY <2>1, StoreKeepsPlaces
  <2>2. CASE ~\E x \in Secrets : Store(w, x)
    <3>1. UNCHANGED <<stored, madeFor>>
      BY <1>3, <2>2, ProcessMoves
    <3> QED
      BY <1>0, <3>1, PlacesKept DEF stored
  <2> QED
    BY <2>1, <2>2
<1>4. CASE Expire
  <2>1. /\ code' \in {code, None} /\ unused' \subseteq unused
        /\ \A i \in Issues : live'[i] \in {live[i], None}
        /\ UNCHANGED madeFor
    BY <1>0, <1>4 DEF Expire, ExpireIssuance, ExpireSecrets, ExpireCooldown,
                      ExpireFailures, ExpireLock, stored, history
  <2> QED
    BY <1>0, <2>1, PlacesKept
<1>5. CASE UNCHANGED vars
  BY <1>0, <1>5, PlacesKept DEF vars, stored, history
<1> QED
  BY <1>1, <1>2, <1>3, <1>4, <1>5 DEF Next

\* A secret that works tells its issuance and the purpose of it.
LEMMA WorksMadeFor ==
  ASSUME PlaceInv, NEW x \in Secrets, Works(x)
  PROVE  /\ madeFor[x] \in Issues /\ purpose[madeFor[x]] \in Purposes
         /\ purpose[madeFor[x]] = "login" => live[madeFor[x]] = x
         /\ purpose[madeFor[x]] = "activation" => code = x
         /\ purpose[madeFor[x]] = "reset" => x \in unused
<1>0. x # None
  BY SecretsAssumption
<1>1. CASE code = x
  BY <1>1 DEF PlaceInv, MadeFor, Purposes
<1>2. CASE x \in unused
  BY <1>2 DEF PlaceInv, MadeFor, Purposes
<1>3. CASE \E i \in Issues : live[i] = x
  BY <1>0, <1>3 DEF PlaceInv, Purposes
<1> QED
  BY <1>1, <1>2, <1>3 DEF Works

-----------------------------------------------------------------------------
(* While one job is processed at a time, a run about to store is for the last  *)
(* issuance whose secret was mailed.                                           *)

Alone == \A v, w \in Workers : ~RunAt(v, "idle") /\ ~RunAt(w, "idle") => v = w

Ahead(w) ==
  RunAt(w, "write") =>
    \A x \in mailed :
      Works(x) /\ purpose[madeFor[x]] = purpose[run[w].issue] =>
        madeFor[x] <= run[w].issue

SerialInv == serial => Alone /\ \A w \in Workers : Ahead(w)

\* A step that brings no run to the point where it stores.
LEMMA SerialKept ==
  ASSUME TypeInv, PlaceInv, SerialInv, PurposesKept,
         UNCHANGED <<madeFor, mailed, serial>>,
         \A x \in Secrets : Works(x)' => Works(x),
         \A w \in Workers : \/ run'[w] = run[w]
                            \/ /\ ~RunAt(w, "write")'
                               /\ RunAt(w, "idle") => RunAt(w, "idle")'
  PROVE  SerialInv'
<1> SUFFICES ASSUME serial PROVE (Alone /\ \A w \in Workers : Ahead(w))'
  BY DEF SerialInv
<1>1. Alone /\ \A w \in Workers : Ahead(w)
  BY DEF SerialInv
<1>2. Alone'
  BY <1>1 DEF Alone, RunAt
<1>3. ASSUME NEW w \in Workers, RunAt(w, "write")'
      PROVE  Ahead(w)'
  <2>1. run'[w] = run[w] /\ RunAt(w, "write")
    BY <1>3 DEF RunAt
  <2>2. purpose'[run[w].issue] = purpose[run[w].issue]
    BY <2>1 DEF TypeInv, RunFits, RunAt, PurposesKept
  <2>3. ASSUME NEW x \in mailed, Works(x)
        PROVE  purpose'[madeFor[x]] = purpose[madeFor[x]]
    <3>1. x \in Secrets /\ None \notin Purposes
      BY SecretsAssumption DEF TypeInv, TypeOK
    <3> QED
      BY <2>3, <3>1, WorksMadeFor DEF PurposesKept
  <2>4. mailed \subseteq Secrets
    BY DEF TypeInv, TypeOK
  <2> QED
    BY <1>1, <2>1, <2>2, <2>3, <2>4 DEF Ahead
<1> QED
  BY <1>2, <1>3 DEF Ahead

\* A run alone that stores or mails is not about to store again.
LEMMA LoneRunKeepsSerial ==
  ASSUME SerialInv, NEW w \in Workers, OthersRun(w), UNCHANGED serial,
         ~RunAt(w, "idle"), ~RunAt(w, "write")'
  PROVE  SerialInv'
BY DEF SerialInv, Alone, Ahead, OthersRun, RunAt

\* EmailProcessor reads the issuance: it is the last of its purpose.
LEMMA TakeJobKeepsSerial ==
  ASSUME TypeInv, NumberInv, PlaceInv, SerialInv, PurposesKept,
         NEW w \in Workers, NEW i \in Issues, TakeJob(w, i)
  PROVE  SerialInv'
<1>1. UNCHANGED <<stored, mailed, madeFor, purpose>> /\ mailed \subseteq Secrets
  BY DEF TakeJob, TypeInv, TypeOK
<1>2. CASE run' = run /\ serial' = serial
  BY <1>1, <1>2 DEF SerialInv, Alone, Ahead, RunAt, Works, stored
<1>3. ASSUME i \in valid, run'[w].issue = i, OthersRun(w),
             run'[w].at = "find" <=> purpose[i] = "login",
             serial' = (serial /\ \A v \in Workers : RunAt(v, "idle"))
      PROVE  SerialInv'
  <2> SUFFICES ASSUME \A v \in Workers : RunAt(v, "idle")
               PROVE  (Alone /\ \A v \in Workers : Ahead(v))'
    BY <1>3 DEF SerialInv
  <2>1. \A v \in Workers : v # w => RunAt(v, "idle")'
    BY <1>3 DEF OthersRun, RunAt
  <2>2. ASSUME NEW x \in mailed, Works(x), RunAt(w, "write")',
               purpose[madeFor[x]] = purpose[i]
        PROVE  madeFor[x] <= i
    <3>1. purpose[i] # "login"
      BY <1>3, <2>2 DEF RunAt
    <3>2. madeFor[x] \in Issues
      BY <1>1, <2>2, WorksMadeFor
    <3> QED
      BY <1>3, <2>2, <3>1, <3>2 DEF NumberInv
  <2>3. \A x \in mailed : Works(x)' <=> Works(x)
    BY <1>1 DEF Works, stored
  <2>4. Ahead(w)'
    BY <1>1, <1>3, <2>2, <2>3 DEF Ahead
  <2> QED
    BY <2>1, <2>4 DEF Alone, Ahead, RunAt
<1> QED
  BY <1>2, <1>3, TakeJobSets DEF TypeInv

\* EmailProcessor reads the challenge: it is the account's only one.
LEMMA FindUserKeepsSerial ==
  ASSUME TypeInv, OneInv, PlaceInv, SerialInv, PurposesKept,
         NEW w \in Workers, FindUser(w)
  PROVE  SerialInv'
<1>0. /\ TypeOK /\ run[w].issue \in Issues /\ mailed \subseteq Secrets
      /\ UNCHANGED <<stored, madeFor, mailed, serial, purpose>>
  BY DEF TypeInv, TypeOK, FindUser, RunFits, RunAt, queue, history
<1>1. CASE live[run[w].issue] = None
  <2>1. OthersRun(w) /\ run'[w].at = "idle"
    BY <1>0, <1>1, EndRunSets DEF FindUser, NoRun
  <2>2. ~RunAt(w, "idle") /\ ~RunAt(w, "write")'
    BY <2>1 DEF FindUser, RunAt
  <2> QED
    BY <1>0, <2>1, <2>2, LoneRunKeepsSerial
<1>2. CASE live[run[w].issue] # None
  <2>1. /\ OthersRun(w) /\ run'[w].at = "write"
        /\ run'[w].issue = run[w].issue
    BY <1>0, <1>2, RunGotoSets DEF FindUser
  <2> SUFFICES ASSUME serial PROVE (Alone /\ \A v \in Workers : Ahead(v))'
    BY <1>0 DEF SerialInv
  <2>2. \A v \in Workers : v # w => RunAt(v, "idle") /\ RunAt(v, "idle")'
    BY <2>1 DEF SerialInv, Alone, FindUser, RunAt, OthersRun
  <2>3. purpose[run[w].issue] = "login" /\ run[w].issue = current
    BY <1>0, <1>2 DEF PlaceInv, OneInv
  <2>4. ASSUME NEW x \in mailed, Works(x),
               purpose[madeFor[x]] = purpose[run[w].issue]
        PROVE  madeFor[x] <= run[w].issue
    <3>1. madeFor[x] \in Issues /\ live[madeFor[x]] = x /\ x # None
      BY <1>0, <2>3, <2>4, WorksMadeFor, SecretsAssumption
    <3>2. madeFor[x] = run[w].issue
      BY <2>3, <3>1 DEF OneInv
    <3> QED
      BY <1>0, <3>2 DEF Issues
  <2>5. \A x \in mailed : Works(x)' <=> Works(x)
    BY <1>0 DEF Works, stored
  <2>6. Ahead(w)'
    BY <1>0, <2>1, <2>4, <2>5 DEF Ahead
  <2> QED
    BY <2>2, <2>6 DEF Alone, Ahead, RunAt
<1> QED
  BY <1>1, <1>2

\* No step of a request, of a worker or of a clock puts a run that is alone
\* behind what was mailed.
LEMMA SerialInvInductive ==
  ASSUME TypeInv, OneInv, NumberInv, PlaceInv, SerialInv, [Next]_vars
  PROVE  SerialInv'
<1>0. /\ TypeOK /\ PurposesKept
      /\ \A x \in Secrets : x # None /\ x # Placeholder
  BY NumberInvInductive, SecretsAssumption DEF TypeInv
<1>1. ASSUME NEW r \in Requests, Issue(r)
      PROVE  SerialInv'
  <2>1. /\ UNCHANGED <<code, unused, run, mailed, madeFor, serial>>
        /\ \A i \in Issues : live'[i] \in {live[i], None, Placeholder}
    BY <1>1, IssueMoves
  <2>2. \A x \in Secrets : Works(x)' => Works(x)
    BY <1>0, <2>1 DEF Works
  <2> QED
    BY <1>0, <2>1, <2>2, SerialKept
<1>2. ASSUME NEW r \in Requests, Consume(r) \/ RequestEnds(r)
      PROVE  SerialInv'
  <2>1. /\ UNCHANGED <<run, mailed, madeFor, serial>>
        /\ code' \in {code, None} /\ unused' \subseteq unused
        /\ \A i \in Issues : live'[i] \in {live[i], None}
    BY <1>2, ConsumeMoves DEF Accepts, Uses, stored, TypeInv, TypeOK
  <2>2. \A x \in Secrets : Works(x)' => Works(x)
    BY <1>0, <2>1 DEF Works
  <2> QED
    BY <1>0, <2>1, <2>2, SerialKept
<1>3. ASSUME NEW w \in Workers, Process(w)
      PROVE  SerialInv'
  <2>1. CASE \E i \in Issues : TakeJob(w, i)
    BY <1>0, <2>1, TakeJobKeepsSerial
  <2>2. CASE FindUser(w)
    BY <1>0, <2>2, FindUserKeepsSerial
  <2>3. ASSUME NEW x \in Secrets, Store(w, x)
        PROVE  SerialInv'
    <3>1. /\ ~RunAt(w, "idle") /\ ~RunAt(w, "write")'
          /\ OthersRun(w) /\ UNCHANGED serial
      BY <2>3, StoreSets DEF Store, RunAt
    <3> QED
      BY <3>1, LoneRunKeepsSerial
  <2>4. CASE RecheckIssuance(w) \/ SendMail(w) \/ RunFails(w)
    <3>1. UNCHANGED serial /\ ~RunAt(w, "idle")
      BY <2>4 DEF RecheckIssuance, SendMail, RunFails, RunAt, history
    <3>2. EndRun(w) \/ RunGoto(w, "send")
      BY <2>4 DEF RecheckIssuance, SendMail, RunFails
    <3>3. OthersRun(w) /\ run'[w].at \in {"idle", "send"}
      BY <1>0, <3>2, EndRunSets, RunGotoSets DEF NoRun
    <3>4. ~RunAt(w, "write")'
      BY <3>3 DEF RunAt
    <3> QED
      BY <3>1, <3>3, <3>4, LoneRunKeepsSerial
  <2> QED
    BY <1>3, <2>1, <2>2, <2>3, <2>4 DEF Process
<1>4. CASE Expire
  <2>1. /\ UNCHANGED <<run, mailed, madeFor, serial>>
        /\ code' \in {code, None} /\ unused' \subseteq unused
        /\ \A i \in Issues : live'[i] \in {live[i], None}
    BY <1>4 DEF Expire, ExpireIssuance, ExpireSecrets, ExpireCooldown,
                ExpireFailures, ExpireLock, stored, history, TypeInv, TypeOK
  <2>2. \A x \in Secrets : Works(x)' => Works(x)
    BY <1>0, <2>1 DEF Works
  <2> QED
    BY <1>0, <2>1, <2>2, SerialKept
<1>5. CASE UNCHANGED vars
  BY <1>0, <1>5, SerialKept DEF vars, stored, history, Works
<1> QED
  BY <1>1, <1>2, <1>3, <1>4, <1>5 DEF Next

\* Only a run that stores brings a run from "write" to "recheck".
LEMMA OnlyStoreRechecks ==
  ASSUME TypeInv, NEW w \in Workers, RunAt(w, "write"), RunAt(w, "recheck")',
         [Next]_vars
  PROVE  \E x \in Secrets : Store(w, x)
<1>1. ~UNCHANGED run
  BY DEF RunAt
<1>2. ~Expire /\ ~UNCHANGED vars
  BY <1>1 DEF Expire, ExpireIssuance, ExpireSecrets, ExpireCooldown,
              ExpireFailures, ExpireLock, vars
<1>3. \A r \in Requests : ~Issue(r) /\ ~Consume(r) /\ ~RequestEnds(r)
  BY <1>1, IssueMoves, ConsumeMoves
<1>4. PICK v \in Workers : Process(v)
  BY <1>2, <1>3 DEF Next
<1>5. v = w
  BY <1>4, ProcessFits DEF OthersRun, RunAt
<1>6. ~(\E i \in Issues : TakeJob(w, i)) /\ ~FindUser(w) /\ ~RecheckIssuance(w)
      /\ ~SendMail(w)
  BY DEF TakeJob, FindUser, RecheckIssuance, SendMail, RunAt
<1>7. ~RunFails(w)
  BY EndRunSets DEF RunFails, NoRun, RunAt, TypeInv
<1> QED
  BY <1>4, <1>5, <1>6, <1>7 DEF Process

\* EmailProcessor, one job at a time: no delivery, however late and however
\* often repeated, disables a secret that was mailed for a newer issuance.
THEOREM SerialRunsNeverRegress == Spec => SerialRunsKeepNewer
<1>1. Init => OneInv /\ UseInv /\ NumberInv /\ PlaceInv /\ SerialInv
  <2> SUFFICES ASSUME Init PROVE OneInv /\ UseInv /\ NumberInv /\ PlaceInv /\ SerialInv
    OBVIOUS
  <2>1. /\ \A r \in Requests : ~Held(r) /\ ~At(r, "issue")
        /\ \A w \in Workers : RunAt(w, "idle")
    BY DEF Init, NoRequest, NoRun, Held, At, RunAt
  <2>2. \A x \in Secrets : x # None
    BY SecretsAssumption
  <2>3. \A x \in Secrets : ~Works(x)
    BY <2>2 DEF Init, Works
  <2>4. OneInv /\ PlaceInv
    BY <2>2 DEF Init, OneInv, PlaceInv
  <2>5. UseInv
    BY <2>1, <2>2, <2>3 DEF Init, UseInv, HeldOnce, SecretOK, Spent
  <2>6. NumberInv
    BY <2>1 DEF Init, NumberInv
  <2>7. SerialInv
    BY <2>1 DEF SerialInv, Alone, Ahead, RunAt
  <2> QED
    BY <2>4, <2>5, <2>6, <2>7
<1>2. ASSUME TypeInv, UseInv, PlaceInv, SerialInv, [Next]_vars,
             NEW w \in Workers, NEW x \in Secrets, serial, DisablesNewer(w, x)
      PROVE  FALSE
  <2>1. PICK y \in Secrets : Store(w, y)
    BY <1>2, OnlyStoreRechecks DEF DisablesNewer
  <2>2. Works(x) /\ ~Works(x)' /\ ~Works(y) /\ x # None
    BY <1>2, <2>1, StoreSets, SecretsAssumption
       DEF DisablesNewer, UseInv, SecretOK
  <2>3. purpose[madeFor[x]] = purpose[run[w].issue]
    <3>1. /\ purpose[madeFor[x]] \in Purposes
          /\ purpose[madeFor[x]] = "login" => live[madeFor[x]] = x
          /\ purpose[madeFor[x]] = "activation" => code = x
          /\ purpose[madeFor[x]] = "reset" => x \in unused
          /\ madeFor[x] \in Issues
      BY <1>2, <2>2, WorksMadeFor
    <3>2. purpose[madeFor[x]] = "activation" => code' # x
      BY <2>2 DEF Works
    <3>3. purpose[madeFor[x]] = "login" => live' # live
      BY <2>2, <3>1 DEF Works
    <3>4. purpose[madeFor[x]] = "reset" => x \notin unused'
      BY <2>2 DEF Works
    <3> QED
      BY <1>2, <2>1, <3>1, <3>2, <3>3, <3>4, StoreSets DEF Purposes
  <2>4. madeFor[x] <= run[w].issue
    BY <1>2, <2>2, <2>3 DEF SerialInv, Ahead, DisablesNewer
  <2>5. madeFor[x] \in Nat /\ run[w].issue \in Nat
    BY <1>2, <2>1, <2>2, WorksMadeFor, StoreSets DEF Issues
  <2> QED
    BY <1>2, <2>4, <2>5 DEF DisablesNewer
<1>3. TypeInv /\ UseInv /\ PlaceInv /\ SerialInv /\ [Next]_vars =>
        \A w \in Workers, x \in Secrets : serial => ~DisablesNewer(w, x)
  BY <1>2
<1> QED
  BY <1>1, <1>3, TypeInvInit, TypeInvInductive, OneInvInductive,
     UseInvInductive, NumberInvInductive, PlaceInvInductive,
     SerialInvInductive, PTL DEF Spec, SerialRunsKeepNewer
=============================================================================
