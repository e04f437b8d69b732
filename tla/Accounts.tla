------------------------------ MODULE Accounts ------------------------------
(***************************************************************************)
(* Accounts and how one gets into them: setup, registration with mailed    *)
(* codes, password and OAuth sign-in, sessions, administration and         *)
(* impersonation.  An account is named by its e-mail address, which is     *)
(* unique.  A handler reads its principal once (authenticate) and acts in  *)
(* a later transaction; a sign-in reads the account and opens its session  *)
(* in a later statement: whatever happens in between is not seen.          *)
(***************************************************************************)
EXTENDS Integers, FiniteSets

CONSTANTS
  Emails,
  Identities,       \* users of the OAuth providers
  Reported,         \* the addresses a provider may report for an identity
  Flows,            \* OAuth sign-ins
  MaxAttempts,      \* wrong attempts after which a code is consumed (5)
  MaxCode,          \* bound on verification codes
  MaxSession,       \* bound on sessions
  Bounds            \* the codes, sessions, flows, open requests and policies of a behaviour

Codes    == 1 .. MaxCode
Sessions == 1 .. MaxSession

Switches == {"registration", "verification", "passwordLogin", "passwordRegistration"}

ASSUME AccountsAssumption ==
  /\ MaxCode \in Nat /\ MaxSession \in Nat /\ MaxAttempts \in Nat \ {0}
  /\ Reported \in [Identities -> SUBSET Emails]
  /\ Bounds \subseteq [codes : 0 .. MaxCode, sessions : 0 .. MaxSession,
                       flows : SUBSET Flows, requests : Nat,
                       policies : SUBSET (SUBSET Switches)]

VARIABLES
  setup,        \* system_state.initialized_at
  policy,       \* the switches of system_state that are on
  smtp,         \* whether the SMTP settings are ready
  oauth,        \* whether the OAuth provider is enabled and configured
  account,      \* users and user_roles
  binding,      \* oauth_bindings: the account of an identity, as a set
  code,         \* email_verification_codes
  requested,    \* code requests that have read the policy
  flow,         \* oauth_flows, the callback working on it, oauth_login_results
  session,      \* sessions and impersonation_sessions
  entering,     \* password logins that have read the account
  principal,    \* authenticated requests, before their transactions
  apiKey,       \* llm_api_keys: who created the valid key, as a set
  bound         \* the member of Bounds for this behaviour; never changes

accountsVars == << setup, policy, smtp, oauth, account, binding, code, requested, flow,
                   session, entering, principal, apiKey, bound >>

NoAccount == [status |-> "none", role |-> "none", password |-> FALSE]
NoCode    == [email |-> {}, state |-> "none", attempts |-> 0, recent |-> FALSE,
              mail |-> "none"]
NoFlow    == [stage |-> "none", who |-> {}, reported |-> {}, user |-> {}]
NoSession == [user |-> {}, actor |-> {}, write |-> TRUE, live |-> FALSE, flow |-> {}]

Privileged == {"admin", "super_admin"}
Stages == {"none", "open", "consumed", "fetched", "resolved", "issued", "exchanging", "over"}

Exists(e)   == account[e].status # "none"
IsActive(e) == account[e].status = "active"

AccountsInit ==
  /\ setup = FALSE
  /\ policy = {"passwordLogin", "passwordRegistration"}
  /\ smtp = FALSE
  /\ oauth = FALSE
  /\ account = [e \in Emails |-> NoAccount]
  /\ binding = [i \in Identities |-> {}]
  /\ code = [c \in Codes |-> NoCode]
  /\ requested = {}
  /\ flow = [f \in Flows |-> NoFlow]
  /\ session = [s \in Sessions |-> NoSession]
  /\ entering = {}
  /\ principal = {}
  /\ apiKey = {}
  /\ bound \in Bounds

(* Another request may be open at the same time.                           *)
Room == Cardinality(requested) + Cardinality(entering) + Cardinality(principal) < bound.requests

-----------------------------------------------------------------------------
(* A new row of users, its role and its wallet.                            *)
NewAccount(e, role, password) ==
  [account EXCEPT ![e] = [status |-> "active", role |-> role, password |-> password]]

(* A new row of sessions, with a token of its own.                         *)
FreeSession(s) ==
  /\ s <= bound.sessions /\ session[s].user = {}
  /\ \A r \in 1 .. (s - 1) : session[r].user # {}

NewSession(s, user, actor, write, from) ==
  session' = [session EXCEPT ![s] = [user |-> user, actor |-> actor, write |-> write,
                                     live |-> TRUE, flow |-> from]]

(* The setup: one transaction under an advisory lock, which looks at       *)
(* initialized_at after it has the lock.                                   *)
Initialize(e, s) ==
  /\ ~setup
  /\ ~Exists(e)
  /\ FreeSession(s)
  /\ setup' = TRUE
  /\ account' = NewAccount(e, "super_admin", TRUE)
  /\ policy' = policy \ {"registration", "verification"}
  /\ NewSession(s, {e}, {}, TRUE, {})
  /\ UNCHANGED << bound, smtp, oauth, binding, code, requested, flow, entering, principal,
                  apiKey >>

-----------------------------------------------------------------------------
(* authenticate: the session, its user and the actor behind it are looked  *)
(* at in one query.  A read-only impersonation may only be ended.          *)
Usable(s) ==
  /\ session[s].live
  /\ \A e \in session[s].user \union session[s].actor : IsActive(e)

Authenticate(s) ==
  /\ Room
  /\ Usable(s)
  /\ \E e \in session[s].user :
       principal' = principal \union
         {[user |-> e, role |-> account[e].role, session |-> s, write |-> session[s].write]}
  /\ UNCHANGED << bound, setup, policy, smtp, oauth, account, binding, code, requested,
                  flow, session, entering, apiKey >>

(* authenticateLLM: the key of the automation API acts for its creator.    *)
AuthenticateKey ==
  /\ Room
  /\ \E e \in apiKey :
       /\ IsActive(e)
       /\ principal' = principal \union
            {[user |-> e, role |-> "automation_api", session |-> 0, write |-> TRUE]}
  /\ UNCHANGED << bound, setup, policy, smtp, oauth, account, binding, code, requested,
                  flow, session, entering, apiKey >>

(* requireRoles, with the roles of the principal; the request ends.        *)
As(roles, p) == p \in principal /\ p.write /\ p.role \in roles /\ principal' = principal \ {p}

(* The request is refused, is none of this module, or its client is gone.  *)
Refuse ==
  /\ \/ \E p \in principal : principal' = principal \ {p} /\ UNCHANGED << requested, entering >>
     \/ \E e \in requested : requested' = requested \ {e} /\ UNCHANGED << principal, entering >>
     \/ \E e \in entering : entering' = entering \ {e} /\ UNCHANGED << principal, requested >>
  /\ UNCHANGED << bound, setup, policy, smtp, oauth, account, binding, code, flow, session,
                  apiKey >>

(* The two handlers that relate the policy to the SMTP settings take one   *)
(* advisory lock.  Aliases and the domain whitelist are left out.          *)
UpdateAuthPolicy(p, new) ==
  /\ As({"super_admin"}, p)
  /\ "verification" \in new => smtp
  /\ policy' = new
  /\ UNCHANGED << bound, setup, smtp, oauth, account, binding, code, requested, flow,
                  session, entering, apiKey >>

UpdateMailSettings(p, ready) ==
  /\ As({"super_admin"}, p)
  /\ "verification" \in policy => ready
  /\ smtp' = ready
  /\ UNCHANGED << bound, setup, policy, oauth, account, binding, code, requested, flow,
                  session, entering, apiKey >>

UpdateOAuthSettings(p, enabled) ==
  /\ As({"super_admin"}, p)
  /\ bound.flows # {}
  /\ oauth' = enabled
  /\ UNCHANGED << bound, setup, policy, smtp, account, binding, code, requested, flow,
                  session, entering, apiKey >>

AdminCreateUser(p, e, role) ==
  /\ As({"super_admin"}, p)
  /\ role \in {"user", "admin"}
  /\ ~Exists(e)
  /\ account' = NewAccount(e, role, TRUE)
  /\ UNCHANGED << bound, setup, policy, smtp, oauth, binding, code, requested, flow,
                  session, entering, apiKey >>

ActiveSuperAdmins == {e \in Emails : account[e].role = "super_admin" /\ IsActive(e)}

(* What both handlers that change a status do: the last active super       *)
(* administrator stays, a suspended user loses every session.              *)
(* updateUserStatus counts in a serializable transaction, llmPatchUser at  *)
(* the default isolation: only Initialize makes a super administrator, so  *)
(* there is never a second one whose suspension the count could miss.      *)
ChangeStatus(e, status) ==
  /\ Exists(e)
  /\ status # "active" /\ account[e].role = "super_admin" => Cardinality(ActiveSuperAdmins) > 1
  /\ account' = [account EXCEPT ![e].status = status]
  /\ session' = [s \in Sessions |->
                   IF status # "active" /\ session[s].user = {e}
                   THEN [session[s] EXCEPT !.live = FALSE] ELSE session[s]]
  /\ UNCHANGED << bound, setup, policy, smtp, oauth, binding, code, requested, flow,
                  entering, apiKey >>

UpdateUserStatus(p, e, status) ==
  /\ As({"super_admin"}, p)
  /\ p.user = e => status = "active"
  /\ ChangeStatus(e, status)

(* The display name is left out.                                           *)
LlmPatchUser(p, e, status) ==
  /\ As({"automation_api"}, p)
  /\ p.user = e => status = "active"
  /\ ChangeStatus(e, status)

MayChangeRole(e) == Exists(e) /\ account[e].role # "super_admin"

UpdateUserRole(p, e, role) ==
  /\ As(Privileged, p)
  /\ role \in {"user", "admin"}
  /\ MayChangeRole(e)
  /\ account' = [account EXCEPT ![e].role = role]
  /\ UNCHANGED << bound, setup, policy, smtp, oauth, binding, code, requested, flow,
                  session, entering, apiKey >>

(* rotateLLMAPIKey and revokeLLMAPIKey.                                    *)
SetApiKey(p, owner) ==
  /\ As({"super_admin"}, p)
  /\ owner \in {{}, {p.user}}
  /\ apiKey' = owner
  /\ UNCHANGED << bound, setup, policy, smtp, oauth, account, binding, code, requested,
                  flow, session, entering >>

StartImpersonation(p, e, s, write) ==
  /\ As({"super_admin"}, p)
  /\ IsActive(e) /\ account[e].role \notin Privileged
  /\ FreeSession(s)
  /\ NewSession(s, {e}, {p.user}, write, {})
  /\ UNCHANGED << bound, setup, policy, smtp, oauth, account, binding, code, requested,
                  flow, entering, apiKey >>

(* logout: the session of the request is revoked.                          *)
Logout(p) ==
  /\ p \in principal /\ p.session # 0
  /\ principal' = principal \ {p}
  /\ session' = [session EXCEPT ![p.session].live = FALSE]
  /\ UNCHANGED << bound, setup, policy, smtp, oauth, account, binding, code, requested,
                  flow, entering, apiKey >>

EndImpersonation(p) ==
  /\ p.session # 0
  /\ session[p.session].actor # {}
  /\ Logout(p)

ExpireSession(s) ==
  /\ session[s].live
  /\ session' = [session EXCEPT ![s].live = FALSE]
  /\ UNCHANGED << bound, setup, policy, smtp, oauth, account, binding, code, requested,
                  flow, entering, principal, apiKey >>

-----------------------------------------------------------------------------
(* sendVerificationCode reads the policy and the SMTP settings first ...   *)
RequestCode(e) ==
  /\ Room
  /\ {"registration", "passwordRegistration", "verification"} \subseteq policy /\ smtp
  /\ requested' = requested \union {e}
  /\ UNCHANGED << bound, setup, policy, smtp, oauth, account, binding, code, flow, session,
                  entering, principal, apiKey >>

IsLive(c, e) == code[c].state = "live" /\ code[c].email = {e}

(* Mutant: an expired code is thought to be the only one to replace. *)
Replaced_Expired(c, e) == code[c].email = {e} /\ code[c].state = "expired"

(* The codes a new one replaces: every unconsumed one of the address.      *)
Replaced(c, e) == code[c].email = {e} /\ code[c].state \in {"live", "expired"}

(* ... and stores the code in a transaction that holds the locks of the    *)
(* address: not within a minute of the last one.  The hourly limits are    *)
(* left out.                                                               *)
IssueCode(e, c) ==
  /\ e \in requested
  /\ c <= bound.codes /\ code[c].state = "none" /\ \A b \in 1 .. (c - 1) : code[b].state # "none"
  /\ \A b \in Codes : code[b].email = {e} /\ code[b].state # "deleted" => ~code[b].recent
  /\ code' = [b \in Codes |->
                IF b = c THEN [email |-> {e}, state |-> "live", attempts |-> 0, recent |-> TRUE,
                               mail |-> "pending"]
                ELSE IF Replaced(b, e) THEN [code[b] EXCEPT !.state = "consumed"] ELSE code[b]]
  /\ requested' = requested \ {e}
  /\ UNCHANGED << bound, setup, policy, smtp, oauth, account, binding, flow, session,
                  entering, principal, apiKey >>

(* The mail goes out after the commit.  When sending fails the row is      *)
(* deleted, unless that fails too; a mail may arrive although it "failed". *)
SendMail(c) ==
  /\ code[c].mail = "pending"
  /\ \E mail \in {"sent", "lost"}, state \in {code[c].state, "deleted"} :
       code' = [code EXCEPT ![c].mail = mail, ![c].state = state]
  /\ UNCHANGED << bound, setup, policy, smtp, oauth, account, binding, requested, flow,
                  session, entering, principal, apiKey >>

(* A minute, and ten, after a code was issued.                             *)
CodeAges(c) ==
  /\ code[c].state # "none"
  /\ \/ code[c].recent /\ code' = [code EXCEPT ![c].recent = FALSE]
     \/ /\ ~code[c].recent /\ code[c].state = "live"
        /\ code' = [code EXCEPT ![c].state = "expired"]
  /\ UNCHANGED << bound, setup, policy, smtp, oauth, account, binding, requested, flow,
                  session, entering, principal, apiKey >>

(* register without a code.                                                *)
Register(e) ==
  /\ setup /\ {"registration", "passwordRegistration"} \subseteq policy
  /\ "verification" \notin policy
  /\ ~Exists(e)
  /\ account' = NewAccount(e, "user", TRUE)
  /\ UNCHANGED << bound, setup, policy, smtp, oauth, binding, code, requested, flow,
                  session, entering, principal, apiKey >>

(* register with one: the newest live code of the address is compared.     *)
Newest(c, e) == IsLive(c, e) /\ \A b \in Codes : IsLive(b, e) => b <= c

RegisterWithCode(e, c) ==
  /\ setup /\ {"registration", "passwordRegistration", "verification"} \subseteq policy
  /\ Newest(c, e)
  /\ code[c].mail = "sent"
  /\ ~Exists(e)
  /\ code' = [code EXCEPT ![c].state = "consumed"]
  /\ account' = NewAccount(e, "user", TRUE)
  /\ UNCHANGED << bound, setup, policy, smtp, oauth, binding, requested, flow, session,
                  entering, principal, apiKey >>

(* A wrong code is counted, and committed, before the answer.              *)
RegisterWrongCode(e, c) ==
  /\ setup /\ {"registration", "passwordRegistration", "verification"} \subseteq policy
  /\ Newest(c, e)
  /\ code' = [code EXCEPT ![c].attempts = @ + 1,
                          ![c].state = IF code[c].attempts + 1 >= MaxAttempts
                                       THEN "consumed" ELSE @]
  /\ UNCHANGED << bound, setup, policy, smtp, oauth, account, binding, requested, flow,
                  session, entering, principal, apiKey >>

-----------------------------------------------------------------------------
(* login: the account is read ...                                          *)
ReadLogin(e) ==
  /\ Room
  /\ IsActive(e) /\ account[e].password
  /\ entering' = entering \union {e}
  /\ UNCHANGED << bound, setup, policy, smtp, oauth, account, binding, code, requested,
                  flow, session, principal, apiKey >>

(* ... then password_login_enabled, and the session is inserted whatever   *)
(* became of the account.                                                  *)
Login(e, s) ==
  /\ e \in entering
  /\ "passwordLogin" \in policy
  /\ FreeSession(s)
  /\ NewSession(s, {e}, {}, TRUE, {})
  /\ entering' = entering \ {e}
  /\ UNCHANGED << bound, setup, policy, smtp, oauth, account, binding, code, requested,
                  flow, principal, apiKey >>

-----------------------------------------------------------------------------
OauthStart(f) ==
  /\ oauth /\ f \in bound.flows
  /\ flow[f].stage = "none"
  /\ flow' = [flow EXCEPT ![f].stage = "open"]
  /\ UNCHANGED << bound, setup, policy, smtp, oauth, account, binding, code, requested,
                  session, entering, principal, apiKey >>

(* Mutant: the flow is marked without looking whether it already was. *)
Unconsumed_Any(f) == flow[f].stage # "none"

Unconsumed(f) == flow[f].stage = "open"

(* oauthCallback: the flow is consumed by the update that finds it open ...*)
OauthCallback(f) ==
  /\ Unconsumed(f)
  /\ flow' = [flow EXCEPT ![f] = [NoFlow EXCEPT !.stage = "consumed"]]
  /\ UNCHANGED << bound, setup, policy, smtp, oauth, account, binding, code, requested,
                  session, entering, principal, apiKey >>

(* ... the provider says who it is (fetchOAuthUser, if still enabled) ...  *)
FetchOAuthUser(f, i, e) ==
  /\ flow[f].stage = "consumed"
  /\ oauth
  /\ e \in Reported[i]
  /\ flow' = [flow EXCEPT ![f].stage = "fetched", ![f].who = {i}, ![f].reported = {e}]
  /\ UNCHANGED << bound, setup, policy, smtp, oauth, account, binding, code, requested,
                  session, entering, principal, apiKey >>

(* A new account needs open registration and a free address: an identity   *)
(* is never bound to an account that was there before.                     *)
MayCreate(e) == "registration" \in policy /\ ~Exists(e)

(* ... and resolveOAuthUser finds its account or creates one ...           *)
ResolveOAuthUser(f, i, e) ==
  /\ flow[f].stage = "fetched" /\ flow[f].who = {i} /\ flow[f].reported = {e}
  /\ \/ /\ binding[i] # {}
        /\ \A u \in binding[i] : IsActive(u)
        /\ flow' = [flow EXCEPT ![f].stage = "resolved", ![f].user = binding[i]]
        /\ UNCHANGED << account, binding >>
     \/ /\ binding[i] = {}
        /\ MayCreate(e)
        /\ account' = NewAccount(e, "user", account[e].password)
        /\ binding' = [binding EXCEPT ![i] = {e}]
        /\ flow' = [flow EXCEPT ![f].stage = "resolved", ![f].user = {e}]
  /\ UNCHANGED << bound, setup, policy, smtp, oauth, code, requested, session, entering,
                  principal, apiKey >>

(* ... for which a result is issued.                                       *)
IssueResult(f) ==
  /\ flow[f].stage = "resolved"
  /\ flow' = [flow EXCEPT ![f].stage = "issued"]
  /\ UNCHANGED << bound, setup, policy, smtp, oauth, account, binding, code, requested,
                  session, entering, principal, apiKey >>

(* oauthExchange: the result is locked and the account read ...            *)
ReadResult(f) ==
  /\ flow[f].stage = "issued"
  /\ \A u \in flow[f].user : IsActive(u)
  /\ flow' = [flow EXCEPT ![f].stage = "exchanging"]
  /\ UNCHANGED << bound, setup, policy, smtp, oauth, account, binding, code, requested,
                  session, entering, principal, apiKey >>

(* ... then it is consumed and the session opened.                         *)
OauthExchange(f, s) ==
  /\ flow[f].stage = "exchanging"
  /\ FreeSession(s)
  /\ NewSession(s, flow[f].user, {}, TRUE, {f})
  /\ flow' = [flow EXCEPT ![f].stage = "over"]
  /\ UNCHANGED << bound, setup, policy, smtp, oauth, account, binding, code, requested,
                  entering, principal, apiKey >>

(* A callback fails, a flow or a result expires; an exchange that fails    *)
(* rolls back and leaves its result.                                       *)
FlowEnds(f) ==
  /\ flow[f].stage \notin {"none", "over"}
  /\ flow' = [flow EXCEPT ![f].stage = IF @ = "exchanging" THEN "issued" ELSE "over"]
  /\ UNCHANGED << bound, setup, policy, smtp, oauth, account, binding, code, requested,
                  session, entering, principal, apiKey >>

-----------------------------------------------------------------------------
Administration ==
  \E p \in principal :
    \/ \E new \in bound.policies : UpdateAuthPolicy(p, new)
    \/ \E on \in BOOLEAN : UpdateMailSettings(p, on) \/ UpdateOAuthSettings(p, on)
    \/ \E owner \in {{}, {p.user}} : SetApiKey(p, owner)
    \/ \E e \in Emails :
         \/ \E role \in {"user", "admin"} :
              AdminCreateUser(p, e, role) \/ UpdateUserRole(p, e, role)
         \/ \E status \in {"active", "suspended"} :
              UpdateUserStatus(p, e, status) \/ LlmPatchUser(p, e, status)
         \/ \E s \in Sessions, write \in BOOLEAN : StartImpersonation(p, e, s, write)
    \/ Logout(p) \/ EndImpersonation(p)

SignIn(f) ==
  \/ OauthStart(f) \/ OauthCallback(f) \/ IssueResult(f) \/ ReadResult(f) \/ FlowEnds(f)
  \/ \E i \in Identities, e \in Emails : FetchOAuthUser(f, i, e) \/ ResolveOAuthUser(f, i, e)
  \/ \E s \in Sessions : OauthExchange(f, s)

AccountsNext ==
  \/ AuthenticateKey \/ Refuse \/ Administration
  \/ \E s \in Sessions : Authenticate(s) \/ ExpireSession(s)
  \/ \E c \in Codes : SendMail(c) \/ CodeAges(c)
  \/ \E e \in Emails :
       \/ RequestCode(e) \/ Register(e) \/ ReadLogin(e)
       \/ \E s \in Sessions : Initialize(e, s) \/ Login(e, s)
       \/ \E c \in Codes : IssueCode(e, c) \/ RegisterWithCode(e, c) \/ RegisterWrongCode(e, c)
  \/ \E f \in Flows : SignIn(f)

AccountsSpec == AccountsInit /\ [][AccountsNext]_accountsVars

-----------------------------------------------------------------------------
AccountsTypeOK ==
  /\ setup \in BOOLEAN /\ smtp \in BOOLEAN /\ oauth \in BOOLEAN
  /\ policy \subseteq Switches
  /\ account \in [Emails -> [status : {"none", "active", "suspended"},
                             role : {"none", "user", "admin", "super_admin"},
                             password : BOOLEAN]]
  /\ binding \in [Identities -> SUBSET Emails]
  /\ code \in [Codes -> [email : SUBSET Emails,
                         state : {"none", "live", "expired", "consumed", "deleted"},
                         attempts : 0 .. MaxAttempts, recent : BOOLEAN,
                         mail : {"none", "pending", "sent", "lost"}]]
  /\ requested \subseteq Emails
  /\ flow \in [Flows -> [stage : Stages, who : SUBSET Identities, reported : SUBSET Emails,
                         user : SUBSET Emails]]
  /\ session \in [Sessions -> [user : SUBSET Emails, actor : SUBSET Emails, write : BOOLEAN,
                               live : BOOLEAN, flow : SUBSET Flows]]
  /\ entering \subseteq Emails
  /\ principal \subseteq [user : Emails,
                          role : {"user", "admin", "super_admin", "automation_api"},
                          session : 0 .. MaxSession, write : BOOLEAN]
  /\ apiKey \subseteq Emails
  /\ bound \in Bounds

(* An address has at most one code that still counts, whatever requests,   *)
(* failed mails and expiries come together: the attempts against an        *)
(* address are the attempts against that code.                             *)
OneLiveCode ==
  \A e \in Emails, b, c \in Codes : IsLive(b, e) /\ IsLive(c, e) => b = c

(* An OAuth sign-in opens at most one session, however often its callback  *)
(* and its exchange are repeated, and that session is for the account the  *)
(* identity is bound to which the provider named in this sign-in           *)
(* (resolveOAuthUser, oauthExchange).                                      *)
FlowSignsInOnce ==
  \A s \in Sessions, f \in Flows :
    f \in session[s].flow =>
      /\ \A r \in Sessions : f \in session[r].flow => r = s
      /\ \E i \in Identities : flow[f].who = {i} /\ binding[i] = session[s].user

(* "Before OAuth is bound to an existing account the e-mail is checked"    *)
(* (docs/operations.md:201): an identity that is not bound, with a checked *)
(* address that belongs to an active account, can be resolved.  The code   *)
(* refuses it and asks for the original way to sign in.                    *)
ExistingIsBound ==
  \A f \in Flows, i \in Identities, e \in Emails :
    /\ flow[f].stage = "fetched" /\ flow[f].who = {i} /\ flow[f].reported = {e}
    /\ binding[i] = {} /\ IsActive(e)
    => ENABLED ResolveOAuthUser(f, i, e)
=============================================================================
