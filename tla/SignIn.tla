------------------------------- MODULE SignIn -------------------------------
(***************************************************************************)
(* The ways to a session: a password (the login form, a Basic header,      *)
(* LDAP), a magic link, the OIDC provider, a passkey; the second factor    *)
(* the policy may ask for after each of them; and the limits on failures.  *)
(* The pending tables (magic_links, oidc_states, step_up_states,           *)
(* passkey_authentications, passkey_registrations, totp_registrations) are *)
(* in memory, each under its own lock, the failures of an account in the   *)
(* history store, those of an address in memory.  A request takes one lock *)
(* or transaction at a time: between two of its steps any other may run.   *)
(*                                                                         *)
(* There is one person and one address; the rate keys differ by action.  A *)
(* code of a TOTP generator is right or wrong here, ConfigStore has the    *)
(* counter that lets each be used once; AuthSessions has what becomes of a *)
(* session.  A worker whose caller gave up after AUTH_STORE_TIMEOUT goes   *)
(* on: such a request takes its next step and ends there.                  *)
(***************************************************************************)
EXTENDS FailureLimit, Functions

CONSTANTS
  Request,       \* requests under way at once, with the workers they left
  Token,         \* bound: one-time tokens that may be drawn
  Name,          \* user names the configuration may hold
  Credential,    \* passkeys
  MaxBurst,      \* GOLD_AUTH_IP_BURST_MAX
  MaxLinks,      \* GOLD_AUTH_SHORT_BURST_MAX
  BurstWindow,   \* GOLD_AUTH_IP_BURST_WINDOW, GOLD_AUTH_SHORT_BURST_WINDOW
  LinkTtl,       \* lifetime of a magic link
  Ttl,           \* lifetime of everything else that is pending
  LastSecond,    \* bound: the clock stops here
  MaxRequests,   \* bound: requests
  MaxUpsets,     \* bound: writes that fail and changes of the configuration
  Nil

ASSUME BurstAssumption == {MaxBurst, MaxLinks} \subseteq Nat \ {0} /\ BurstWindow \in Nat

ASSUME TtlAssumption == {LinkTtl, Ttl} \subseteq Nat

ASSUME RequestAssumption == IsFiniteSet(Request)

\* Nil stands for no token and for no next step.
ASSUME NilAssumption == Nil \notin Token \cup {"finish"}

ASSUME UpsetAssumption == {LastSecond, MaxRequests, MaxUpsets} \subseteq Nat

VARIABLES
  cfg,       \* RuntimeConfig::auth, as far as it matters here
  limit,     \* klaxond_auth_rate_limits
  burst,     \* AppState::auth_failures: attempts of an address, or for a name
  pending,   \* the pending tables, by token
  job,       \* where each request is
  sessions,  \* the sign-ins that ended in a session
  uses,      \* history: the sessions each token led to
  tries,     \* history: when a wrong credential was tried at each rate key,
  cleared,   \*   the number of them at the last clear,
  lost,      \*   and the failures that could not be stored
  now, requests, upsets

signInVars == <<cfg, limit, burst, pending, job, sessions, uses, tries, cleared, lost,
                now, requests, upsets>>

failures == <<limit, burst, tries, cleared, lost>>
outcome == <<sessions, uses>>

\* The actions of auth_rate_keys; "unknown" is a passkey request without a user.
Key == {"login", "sudo", "passkey", "unknown"}

\* Passkey stands for the factors passkey and hardware_key.
Policy == {"totp", "passkey", Nil}

\* A sign-in under way: its primary method, the factor the configuration it
\* read asks for, the factor it has, and the tokens it used.
Primary(how, used) == [how |-> how, need |-> cfg.policy, factor |-> Nil, used |-> used]

NoSignIn == [how |-> Nil, need |-> Nil, factor |-> Nil, used |-> {}]
NoJob == [pc |-> "idle", key |-> Nil, of |-> Nil, then |-> Nil, s |-> NoSignIn]

Asks == requests < MaxRequests /\ requests' = requests + 1
Upset == upsets < MaxUpsets /\ upsets' = upsets + 1

Free(r) == job[r].pc = "idle"
To(r, j) == job' = [job EXCEPT ![r] = j]
Goes(r, pc) == To(r, [job[r] EXCEPT !.pc = pc])
Done(r) == To(r, NoJob)

-----------------------------------------------------------------------------
(* The pending tables.                                                      *)

Drawn(t) == t \in DOMAIN uses

\* Links end at expires_at, the rest lives up to Ttl, both included.
Expired(p) ==
  IF p.kind \in {"link", "used"} THEN p.born + LinkTtl <= now ELSE p.born + Ttl < now

Has(t, kind) == t \in DOMAIN pending /\ pending[t].kind = kind

\* A step-up request or a TOTP registration is looked up after a prune, the
\* others are found as long as nothing new of their kind is inserted.
Live(t, kind) == Has(t, kind) /\ ~Expired(pending[t])

Alike(kind) == IF kind = "link" THEN {"link", "used"} ELSE {kind}

Kept(kind) == {t \in DOMAIN pending : pending[t].kind \in Alike(kind) => ~Expired(pending[t])}

Draw(t, kind, of) ==
  /\ ~Drawn(t)
  /\ uses' = [u \in DOMAIN uses \cup {t} |-> IF u = t THEN 0 ELSE uses[u]]
  /\ pending' = [u \in Kept(kind) \cup {t} |->
                   IF u = t THEN [kind |-> kind, born |-> now, of |-> of] ELSE pending[u]]

Without(t) == Restrict(pending, DOMAIN pending \ {t})

-----------------------------------------------------------------------------
(* The limits.                                                              *)

\* The attempts in the window, which come in order too.
Recent(k, t) == Since(burst[k], t - BurstWindow)

\* auth_rate_limited.
Limited(k) == Locked(limit[k], now) \/ Len(Recent(k, now)) >= MaxBurst

\* mutant: a wrong credential is not counted.
AfterWrongEnds == "idle"
AfterWrong == "record"

\* A wrong credential: the failure is recorded next.
Tried(r, key) ==
  /\ tries' = [tries EXCEPT ![key] = Append(@, now)]
  /\ Goes(r, AfterWrong)

-----------------------------------------------------------------------------
(* A password, at login or again for sudo.                                  *)

\* check_rate_limit.  A refused request, and one whose check fails, ends there
\* and changes nothing.
PasswordStarts(r) ==
  /\ Free(r) /\ Asks /\ ~Limited("login")
  /\ To(r, [NoJob EXCEPT !.pc = "verify", !.key = "login", !.s = Primary("password", {})])
  /\ UNCHANGED <<cfg, failures, pending, outcome, now, upsets>>

SudoStarts(r) ==
  /\ Free(r) /\ Asks /\ ~Limited("sudo")
  /\ \E s \in sessions : s.how \in {"password", "link"}
  /\ To(r, [NoJob EXCEPT !.pc = "verify", !.key = "sudo", !.s = Primary("sudo", {})])
  /\ UNCHANGED <<cfg, failures, pending, outcome, now, upsets>>

\* The password, and the code of consume_basic_totp if there has to be one; its
\* counter may not be saved.
VerifyRight(r) ==
  /\ job[r].pc = "verify"
  /\ \/ /\ To(r, [job[r] EXCEPT !.pc = "clear", !.then = "finish",
                                !.s.factor = IF cfg.totp THEN "totp" ELSE Nil])
        /\ UNCHANGED upsets
     \/ cfg.totp /\ Upset /\ Done(r)
  /\ UNCHANGED <<cfg, failures, pending, outcome, now, requests>>

VerifyWrong(r) ==
  /\ job[r].pc \in {"verify", "assert"}
  /\ Tried(r, job[r].key)
  /\ UNCHANGED <<cfg, limit, burst, cleared, lost, pending, outcome, now, requests, upsets>>

\* record_auth_failure: the account in the store, then the address.
Record(r) ==
  LET k == job[r].key
  IN  /\ job[r].pc = "record"
      /\ limit' = [limit EXCEPT ![k] = Failed(@, now)]
      /\ Goes(r, "burst")
      /\ UNCHANGED <<cfg, burst, tries, cleared, lost, pending, outcome, now, requests, upsets>>

RecordFails(r) ==
  /\ job[r].pc = "record" /\ Upset
  /\ lost' = [lost EXCEPT ![job[r].key] = @ + 1]
  /\ Done(r)
  /\ UNCHANGED <<cfg, limit, burst, tries, cleared, pending, outcome, now, requests>>

RecordAddress(r) ==
  LET k == job[r].key
  IN  /\ job[r].pc = "burst"
      /\ burst' = [burst EXCEPT ![k] = Append(Recent(k, now), now)]
      /\ Done(r)
      /\ UNCHANGED <<cfg, limit, tries, cleared, lost, pending, outcome, now, requests, upsets>>

\* The account only: the attempts of the address count on.  The caller of the
\* worker may have gone.
Clear(r) ==
  LET k == job[r].key
  IN  /\ job[r].pc = "clear"
      /\ limit' = [limit EXCEPT ![k] = NoLimit]
      /\ cleared' = [cleared EXCEPT ![k] = Len(tries[k])]
      /\ Done(r) \/ (job[r].then = "finish" /\ Goes(r, "finish"))
      /\ UNCHANGED <<cfg, burst, tries, lost, pending, outcome, now, requests, upsets>>

-----------------------------------------------------------------------------
(* From the primary method to the session.                                  *)

\* requirement_after_primary, and the factor the sign-in already has.
MustStepUp(s) ==
  /\ s.need # Nil
  /\ s.how = "passkey" => s.need = "totp"
  /\ s.factor # s.need

\* redirect_location_after_primary: a step-up request instead of a session.
StepUp(r) ==
  /\ job[r].pc = "finish" /\ job[r].s.how # "sudo" /\ MustStepUp(job[r].s)
  /\ \E t \in Token : Draw(t, "step", job[r].s)
  /\ Done(r)
  /\ UNCHANGED <<cfg, failures, sessions, now, requests, upsets>>

Earned(r) == job[r].pc = "finish" /\ (job[r].s.how = "sudo" \/ ~MustStepUp(job[r].s))

\* issue_session; sudo rotates the session it came with.
Issue(r) ==
  LET s == job[r].s
  IN  /\ Earned(r)
      /\ IF s.how = "sudo" THEN UNCHANGED outcome
         ELSE /\ sessions' = sessions \cup {s}
              /\ uses' = [t \in DOMAIN uses |-> uses[t] + IF t \in s.used THEN 1 ELSE 0]
      /\ Done(r)
      /\ UNCHANGED <<cfg, failures, pending, now, requests, upsets>>

\* The store refuses the clear or the session.
StoreFails(r) ==
  /\ job[r].pc = "clear" \/ Earned(r)
  /\ Upset
  /\ Done(r)
  /\ UNCHANGED <<cfg, failures, pending, outcome, now, requests>>

\* finish_step_up with the factors that were proved.
Joins(t, factor) == Live(t, "step") /\ pending[t].of.need = factor

\* mutant: a step-up request is not removed when it is finished.
StillThere(t) == pending
AfterStep(t) == Without(t)

Completed(t) == [pending[t].of EXCEPT !.factor = pending[t].of.need, !.used = @ \cup {t}]

Join(r) ==
  LET t == job[r].of
  IN  /\ job[r].pc = "join"
      /\ IF Joins(t, job[r].then)
           THEN /\ pending' = AfterStep(t)
                /\ To(r, [NoJob EXCEPT !.pc = "finish", !.s = Completed(t)])
           ELSE Done(r) /\ UNCHANGED pending
      /\ UNCHANGED <<cfg, failures, outcome, now, requests, upsets>>

-----------------------------------------------------------------------------
(* Magic links and the OIDC provider.                                       *)

\* Attempts for the name of another user count too, but draw no link.
RequestLink(n) ==
  /\ Asks /\ Len(Recent(n, now)) < MaxLinks
  /\ burst' = [burst EXCEPT ![n] = Append(Recent(n, now), now)]
  /\ IF n = cfg.name THEN \E t \in Token : Draw(t, "link", n)
     ELSE pending' = Restrict(pending, Kept("link")) /\ UNCHANGED uses
  /\ UNCHANGED <<cfg, limit, tries, cleared, lost, job, sessions, now, upsets>>

\* consume_magic_link: the link is used up even if its user is gone.
UseLink(r, t) ==
  /\ Free(r) /\ Asks /\ Live(t, "link")
  /\ pending' = [pending EXCEPT ![t].kind = "used"]
  /\ To(r, IF pending[t].of = cfg.name
             THEN [NoJob EXCEPT !.pc = "finish", !.s = Primary("link", {t})] ELSE NoJob)
  /\ UNCHANGED <<cfg, failures, outcome, now, upsets>>

OidcStarts ==
  /\ Asks /\ \E t \in Token : Draw(t, "oidc", Nil)
  /\ UNCHANGED <<cfg, failures, job, sessions, now, upsets>>

OidcReturns(r, t) ==
  /\ Free(r) /\ Asks /\ Has(t, "oidc")
  /\ pending' = Without(t)
  /\ To(r, [NoJob EXCEPT !.pc = "exchange", !.of = t])
  /\ UNCHANGED <<cfg, failures, outcome, now, upsets>>

\* The configuration is read again after the exchange, which may fail.
Exchange(r) ==
  /\ job[r].pc = "exchange"
  /\ \/ To(r, [NoJob EXCEPT !.pc = "finish", !.s = Primary("oidc", {job[r].of})])
     \/ Done(r)
  /\ UNCHANGED <<cfg, failures, pending, outcome, now, requests, upsets>>

-----------------------------------------------------------------------------
(* TOTP as the second factor.                                               *)

WantsTotp(t) == Live(t, "step") /\ pending[t].of.need = "totp"

\* step_up_totp_verify: the challenge is looked up, its user's code consumed, and
\* then the step-up finished.  A wrong code changes nothing.
TotpStarts(r, t) ==
  /\ Free(r) /\ Asks /\ WantsTotp(t)
  /\ To(r, [NoJob EXCEPT !.pc = "join", !.of = t, !.then = "totp"])
  /\ UNCHANGED <<cfg, failures, pending, outcome, now, upsets>>

SetupStarts(t) ==
  /\ Asks /\ WantsTotp(t)
  /\ \E q \in Token : Draw(q, "setup", t)
  /\ UNCHANGED <<cfg, failures, job, sessions, now, upsets>>

\* The registration is copied, and removed once its factor is saved.
SetupConfirms(r, q) ==
  /\ Free(r) /\ Asks /\ Live(q, "setup")
  /\ To(r, [NoJob EXCEPT !.pc = "enrol", !.of = q, !.s.used = {pending[q].of}])
  /\ UNCHANGED <<cfg, failures, pending, outcome, now, upsets>>

\* complete_totp_setup.
Enrol(r) ==
  /\ job[r].pc = "enrol"
  /\ \/ /\ pending' = Without(job[r].of)
        /\ \E t \in job[r].s.used :
             To(r, [NoJob EXCEPT !.pc = "join", !.of = t, !.then = "totp"])
        /\ UNCHANGED upsets
     \/ Upset /\ Done(r) /\ UNCHANGED pending
  /\ UNCHANGED <<cfg, failures, outcome, now, requests>>

-----------------------------------------------------------------------------
(* Passkeys, to sign in or as the second factor.                            *)

\* A request that names no user, or that nothing is pending for.
PasskeyUnknown(r) ==
  /\ Free(r) /\ Asks /\ ~Limited("unknown")
  /\ To(r, [NoJob EXCEPT !.pc = "record", !.key = "unknown"])
  /\ UNCHANGED <<cfg, failures, pending, outcome, now, upsets>>

\* passkey_login_start, for a step-up request or without one.
PasskeyStarts(r, t) ==
  /\ Free(r) /\ Asks /\ ~Limited("passkey")
  /\ t # Nil => Live(t, "step")
  /\ IF cfg.passkeys = {}
       THEN To(r, [NoJob EXCEPT !.pc = "record", !.key = "passkey"]) /\ UNCHANGED <<pending, uses>>
       ELSE (\E q \in Token : Draw(q, "passkey", t)) /\ UNCHANGED job
  /\ UNCHANGED <<cfg, failures, sessions, now, upsets>>

\* The challenge is taken before its limit is checked, and lost if that refuses.
PasskeyReturns(r, q) ==
  /\ Free(r) /\ Asks /\ ~Limited("unknown") /\ Has(q, "passkey")
  /\ pending' = Without(q)
  /\ \/ /\ ~Limited("passkey") /\ UNCHANGED upsets
        /\ To(r, [NoJob EXCEPT !.pc = "assert", !.key = "passkey", !.of = pending[q].of,
                             !.s.used = {q}])
     \/ Limited("passkey") /\ UNCHANGED <<job, upsets>>
     \/ Upset /\ UNCHANGED job
  /\ UNCHANGED <<cfg, failures, outcome, now>>

\* persist_login_result under the lock of the configuration: the credential is
\* gone, or the step-up; or the sign-in continues if the file can be saved.
PersistRefused(r) ==
  LET t == job[r].of
  IN  /\ job[r].pc = "assert"
      /\ cfg.passkeys = {} \/ (t # Nil /\ ~Joins(t, "passkey"))
      /\ Goes(r, "record")
      /\ UNCHANGED <<cfg, failures, pending, outcome, now, requests, upsets>>

PersistStep(r) ==
  LET t == job[r].of
  IN  /\ job[r].pc = "assert" /\ cfg.passkeys # {} /\ t # Nil /\ Joins(t, "passkey")
      /\ pending' = AfterStep(t)
      /\ \/ /\ To(r, [NoJob EXCEPT !.pc = "clear", !.key = "passkey", !.then = "finish",
                                   !.s = [Completed(t) EXCEPT !.used = @ \cup job[r].s.used]])
           /\ UNCHANGED upsets
         \/ Upset /\ Done(r)
      /\ UNCHANGED <<cfg, failures, outcome, now, requests>>

PersistPrimary(r) ==
  LET s == Primary("passkey", job[r].s.used)
  IN  /\ job[r].pc = "assert" /\ cfg.passkeys # {} /\ job[r].of = Nil
      /\ IF MustStepUp(s) THEN \E t \in Token : Draw(t, "step", s) ELSE UNCHANGED <<pending, uses>>
      /\ \/ /\ To(r, [NoJob EXCEPT !.pc = "clear", !.key = "passkey", !.s = s,
                                   !.then = IF MustStepUp(s) THEN Nil ELSE "finish"])
           /\ UNCHANGED upsets
         \/ Upset /\ Done(r)
      /\ UNCHANGED <<cfg, failures, sessions, now, requests>>

\* passkey_register_start with a session, or for a step-up request.
RegisterStarts(t) ==
  /\ Asks
  /\ IF t = Nil THEN sessions # {} ELSE Live(t, "step") /\ pending[t].of.need = "passkey"
  /\ \E q \in Token : Draw(q, "register", t)
  /\ UNCHANGED <<cfg, failures, job, sessions, now, upsets>>

RegisterReturns(r, q) ==
  /\ Free(r) /\ Asks /\ Has(q, "register")
  /\ pending' = Without(q)
  /\ To(r, [NoJob EXCEPT !.pc = "attest", !.of = pending[q].of, !.then = "passkey"])
  /\ UNCHANGED <<cfg, failures, outcome, now, upsets>>

\* Refused, known already or not saved; or saved, and then the step-up.
Attest(r) ==
  /\ job[r].pc = "attest"
  /\ \/ Done(r) /\ UNCHANGED cfg
     \/ /\ \E c \in Credential \ cfg.passkeys : cfg' = [cfg EXCEPT !.passkeys = @ \cup {c}]
        /\ IF job[r].of = Nil THEN Done(r) ELSE Goes(r, "join")
  /\ UNCHANGED <<failures, pending, outcome, now, requests, upsets>>

-----------------------------------------------------------------------------
(* The administrator and the clock.                                         *)

ChangeAuth ==
  /\ Upset
  /\ \/ \E p \in Policy \ {cfg.policy} : cfg' = [cfg EXCEPT !.policy = p]
     \/ \E n \in Name \ {cfg.name} : cfg' = [cfg EXCEPT !.name = n]
  /\ UNCHANGED <<failures, pending, job, outcome, now, requests>>

\* passkey_delete.
DeletePasskey ==
  /\ Upset
  /\ \E c \in cfg.passkeys : cfg' = [cfg EXCEPT !.passkeys = @ \ {c}]
  /\ UNCHANGED <<failures, pending, job, outcome, now, requests>>

Second ==
  /\ now < LastSecond /\ now' = now + 1
  /\ UNCHANGED <<cfg, failures, pending, job, outcome, requests, upsets>>

-----------------------------------------------------------------------------
SignInInit ==
  /\ cfg \in [policy : Policy, totp : BOOLEAN, name : Name, passkeys : {Credential}]
  /\ limit = [k \in Key |-> NoLimit]
  /\ burst = [k \in Key \cup Name |-> <<>>]
  /\ pending = [t \in {} |-> Nil]
  /\ job = [r \in Request |-> NoJob]
  /\ sessions = {} /\ uses = [t \in {} |-> 0]
  /\ tries = [k \in Key |-> <<>>]
  /\ cleared = [k \in Key |-> 0] /\ lost = [k \in Key |-> 0]
  /\ now = 1 /\ requests = 0 /\ upsets = 0

Step(r) ==
  \/ PasswordStarts(r) \/ SudoStarts(r) \/ VerifyRight(r) \/ VerifyWrong(r)
  \/ Record(r) \/ RecordFails(r) \/ RecordAddress(r) \/ Clear(r) \/ StepUp(r) \/ Issue(r)
  \/ StoreFails(r) \/ Join(r) \/ Exchange(r) \/ Enrol(r) \/ PersistRefused(r) \/ PersistStep(r)
  \/ PersistPrimary(r) \/ Attest(r) \/ PasskeyUnknown(r)
  \/ \E t \in Token \cup {Nil} : PasskeyStarts(r, t)
  \/ \E t \in Token : \/ UseLink(r, t) \/ OidcReturns(r, t) \/ TotpStarts(r, t)
                      \/ SetupConfirms(r, t) \/ PasskeyReturns(r, t) \/ RegisterReturns(r, t)

SignInNext ==
  \/ \E r \in Request : Step(r)
  \/ \E n \in Name : RequestLink(n)
  \/ \E t \in Token : SetupStarts(t)
  \/ \E t \in Token \cup {Nil} : RegisterStarts(t)
  \/ OidcStarts \/ ChangeAuth \/ DeletePasskey \/ Second

SignInSpec == SignInInit /\ [][SignInNext]_signInVars

-----------------------------------------------------------------------------
(* Properties.                                                              *)

SignIns == [how : {"password", "sudo", "link", "oidc", "passkey", Nil}, need : Policy,
            factor : Policy, used : SUBSET Token]

\* Of what is pending, by its kind.
Subject == [link |-> Name, used |-> Name, oidc |-> {Nil}, step |-> SignIns, setup |-> Token,
            passkey |-> Token \cup {Nil}, register |-> Token \cup {Nil}]

Awaited(p) == p.kind \in DOMAIN Subject /\ p \in [kind : DOMAIN Subject, born : Nat, of : Subject[p.kind]]

\* With a rate key as long as a failure may be recorded or cleared.
Limitable == {"verify", "assert", "record", "burst", "clear"}

Job == [pc : Limitable, key : Key, of : Token \cup {Nil}, then : {"finish", Nil}, s : SignIns]
       \cup [pc : {"exchange", "enrol"}, key : {Nil}, of : Token, then : {Nil}, s : SignIns]
       \cup [pc : {"idle", "finish", "join", "attest"}, key : Key \cup {Nil}, of : Token \cup {Nil},
             then : {"finish", "totp", "passkey", Nil}, s : SignIns]

SignInType ==
  /\ cfg \in [policy : Policy, totp : BOOLEAN, name : Name, passkeys : SUBSET Credential]
  /\ limit \in [Key -> [fails : Seq(Nat), until : Nat]]
  /\ burst \in [Key \cup Name -> Seq(Nat)]
  /\ DOMAIN pending \subseteq DOMAIN uses /\ DOMAIN uses \subseteq Token
  /\ pending = [t \in DOMAIN pending |-> pending[t]] /\ uses \in [DOMAIN uses -> Nat]
  /\ \A t \in DOMAIN pending : Awaited(pending[t])
  /\ job \in [Request -> Job] /\ sessions \subseteq SignIns
  /\ tries \in [Key -> Seq(Nat)] /\ {cleared, lost} \subseteq [Key -> Nat]
  /\ {now, requests, upsets} \subseteq Nat

\* The wrong credentials of a key in a window that ends now.
TriedIn(k, from, width) ==
  Cardinality({i \in (from + 1)..Len(tries[k]) : now - tries[k][i] <= width})

\* However the requests of one account interleave, the credentials it may get
\* wrong in a failure window since it last got one right are fewer than the
\* limit, plus one for each request that had passed the check by then and for
\* each failure the store did not take; and so are those of its address in a
\* burst window, whatever it got right.  The limits of auth/rate_limit.rs are
\* checked in one step, the credential in another, the failure in a third.
GuessesBounded ==
  \A k \in Key :
    LET slack == Cardinality(Request) + lost[k] - 1
    IN  /\ TriedIn(k, cleared[k], FailureWindow) <= MaxFailures + slack
        /\ TriedIn(k, 0, BurstWindow) <= MaxBurst + slack

\* A magic link, an OIDC state, a step-up request and a passkey challenge each
\* lead to at most one session, whichever requests present them at once.
OneShot == \A t \in DOMAIN uses : uses[t] <= 1

\* A session was opened with the factor that the configuration its sign-in
\* read asks for, be it proved at once or in a step-up request.
FactorKept ==
  \A s \in sessions :
    \/ s.need \in {Nil, s.factor}
    \/ s.how = "passkey" /\ s.need = "passkey"

\* Sign-ins end in sessions as magic_link.rs, step_up.rs, passkeys/login and
\* login/callback.rs mean them to: one for each token, none without its factor.
SessionsEarned == OneShot /\ FactorKept

=============================================================================
