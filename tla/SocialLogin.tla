----------------------------- MODULE SocialLogin -----------------------------
(***************************************************************************)
(* Signing in through a provider with @strav/social: authorize, the         *)
(* callback's exchange, profile, and connect(), which finds the link of an  *)
(* identity and updates or inserts it; refresh and revoke of the stored     *)
(* tokens.  Two tabs may share a session, as the callback handler of        *)
(* docs/social/guides/state-management.md keeps state and verifier there.   *)
(* The providers' endpoints and the application's handlers are external.    *)
(***************************************************************************)
EXTENDS Naturals, Sequences, FiniteSets

CONSTANTS Actor,      \* a tab that signs in, or a job that refreshes
          Session,
          SessionOf,  \* actor -> its session
          User, Identity,
          Tenants,    \* the tenants a request may be for, under the tenanted repository
          Drivers,    \* of "google", "facebook", "line", "mock"
          MaxFlows, MaxIssued   \* bounds: flows begun, token sets the provider issues

VARIABLES driver, tenanted,
          extra,    \* what the application's authorize() passes and configures beside the scopes
          session,  \* session -> the state and verifier it keeps, 0: none
          actor,    \* actor -> where it is and what it holds
          codes,    \* the codes handed out: [of, state, verifier, scopes, offline, used]
          issued,   \* the token sets issued: [of, live, refresh], a token being the index of its set
          dead,     \* the refresh tokens no longer taken
          rows,     \* social_account: [id, tenant, user, identity, access, refresh, by]
          flows, nextId

vars == <<driver, tenanted, extra, session, actor, codes, issued, dead, rows, flows, nextId>>

(***************************************************************************)
(* The drivers, by the status the provider answers.                        *)
(***************************************************************************)
StateDiffers(input) == input.expected # 0 /\ input.state # input.expected

GoogleCaps == {"openid", "id", "email", "emailVerified", "name", "avatar", "locale", "refresh"}
GoogleAuthorize(n) == [state |-> n, verifier |-> IF "no_pkce" \in extra THEN 0 ELSE n,
                              scopes |-> {"openid", "profile", "email"}, offline |-> "online" \notin extra]
GoogleExchange(input, status) ==
  IF StateDiffers(input) THEN "mismatch" ELSE IF status # 200 THEN "codeRejected" ELSE "ok"
GoogleProfile(status) == IF status = 401 THEN "invalid" ELSE IF status # 200 THEN "providerError" ELSE "ok"
GoogleFields == {"id", "email", "emailVerified", "name", "avatar", "locale"}
GoogleTokens(t) == [access |-> t.access, refresh |-> t.refresh, openid |-> t.openid]
\* An answer without a refresh token keeps the one that was sent.
GoogleRefresh(held, status, t) ==
  IF status \in {400, 401} THEN [is |-> "invalid"] ELSE IF status # 200 THEN [is |-> "providerError"]
  ELSE [is |-> "ok", tokens |-> [GoogleTokens(t) EXCEPT !.refresh = IF @ = 0 THEN held ELSE @]]
GoogleRevoke(status) == IF status # 200 THEN "providerError" ELSE "ok"

FacebookCaps == {"id", "email", "name", "avatar", "locale"}
FacebookAuthorize(n) == [state |-> n, verifier |-> IF "no_pkce" \in extra THEN 0 ELSE n,
                                scopes |-> {"public_profile"}, offline |-> FALSE]
FacebookExchange(input, status) ==
  IF StateDiffers(input) THEN "mismatch" ELSE IF status # 200 THEN "codeRejected" ELSE "ok"
FacebookProfile(status) ==
  IF status \in {400, 401} THEN "invalid" ELSE IF status # 200 THEN "providerError" ELSE "ok"
FacebookFields == {"id", "email", "name", "avatar", "locale"}
FacebookTokens(t) == [access |-> t.access, refresh |-> 0, openid |-> FALSE]
FacebookRefresh == [is |-> "unsupported"]
FacebookLongLived(status, t) ==
  IF status \in {400, 401} THEN [is |-> "invalid"] ELSE IF status # 200 THEN [is |-> "providerError"]
  ELSE [is |-> "ok", tokens |-> FacebookTokens(t)]
FacebookRevoke(status) == IF status # 200 THEN "providerError" ELSE "ok"

LineCaps == {"openid", "id", "email", "emailVerified", "name", "avatar", "refresh"}
LineAuthorize(n) == [state |-> n, verifier |-> IF "no_pkce" \in extra THEN 0 ELSE n,
                            scopes |-> {"profile"}, offline |-> TRUE]
LineExchange(input, status) ==
  IF StateDiffers(input) THEN "mismatch" ELSE IF status # 200 THEN "codeRejected" ELSE "ok"
LineProfile(status) == IF status = 401 THEN "invalid" ELSE IF status # 200 THEN "providerError" ELSE "ok"
LineFields == {"id", "name", "avatar"}
LineIdTokenFields == {"email"}   \* emailFromLineIdToken
LineTokens(t) == [access |-> t.access, refresh |-> t.refresh, openid |-> t.openid]
LineRefresh(status, t) ==
  IF status \in {400, 401} THEN [is |-> "invalid"] ELSE IF status # 200 THEN [is |-> "providerError"]
  ELSE [is |-> "ok", tokens |-> LineTokens(t)]
LineRevoke(status) == IF status # 200 THEN "providerError" ELSE "ok"

\* The mock driver keeps the pending flows (the codes not used) and the tokens itself.
MockCaps == {"openid", "id", "email", "emailVerified", "name", "avatar", "locale", "refresh"}
MockAuthorize(n) == [state |-> n, verifier |-> n, scopes |-> {"profile"}, offline |-> TRUE]
MockExchange(input, pending) ==
  IF StateDiffers(input) THEN "mismatch"
  ELSE IF input.state \notin {c.state : c \in pending} \/ (\E c \in pending : c.state = input.state /\ c.verifier # input.verifier)
  THEN "codeRejected" ELSE "ok"
MockProfile(known) == IF known THEN "ok" ELSE "invalid"
MockRefresh(known, t) == IF known THEN [is |-> "ok", tokens |-> t] ELSE [is |-> "invalid"]

\* What use(name) answers for config.social.
Authorize(n) == CASE driver = "google" -> GoogleAuthorize(n) [] driver = "facebook" -> FacebookAuthorize(n)
                         [] driver = "line" -> LineAuthorize(n) [] driver = "mock" -> MockAuthorize(n)

-----------------------------------------------------------------------------
Idle == [at |-> "idle"]
Init == /\ driver \in Drivers /\ tenanted \in BOOLEAN
        /\ extra \in (IF driver = "google" THEN {{}, {"no_pkce"}, {"online"}} ELSE {{}, {"no_pkce"}})
        /\ session = [s \in Session |-> [state |-> 0, verifier |-> 0]]
        /\ actor = [a \in Actor |-> Idle]
        /\ codes = <<>> /\ issued = <<>> /\ dead = {} /\ rows = {} /\ flows = 0 /\ nextId = 1

Becomes(a, now) == actor' = [actor EXCEPT ![a] = now]
Scope == IF tenanted THEN Tenants ELSE {"all"}

\* The start handler keeps state and verifier in the session and redirects; the user consents
\* as one of the identities, and the provider redirects back with a code.
Start(a) ==
  /\ actor[a].at = "idle" /\ flows < MaxFlows /\ flows' = flows + 1
  /\ \E i \in Identity, tenant \in Scope :
       LET r == Authorize(flows') IN
       /\ session' = [session EXCEPT ![SessionOf[a]] = [state |-> r.state, verifier |-> r.verifier]]
       /\ codes' = Append(codes, [of |-> i, state |-> r.state, verifier |-> r.verifier, scopes |-> r.scopes,
                                  offline |-> r.offline, used |-> FALSE])
       /\ Becomes(a, [at |-> "back", code |-> flows', tenant |-> tenant])
  /\ UNCHANGED <<driver, tenanted, extra, issued, dead, rows, nextId>>

\* The provider's answer to a code: Google's refresh token comes with the first consent alone.
FirstConsent(i) == \A n \in DOMAIN issued : issued[n].of # i \/ ~issued[n].live \/ issued[n].refresh = 0
Granted(c) == LET n == Len(issued) + 1 IN
  [access |-> n, openid |-> "openid" \in c.scopes,
   refresh |-> CASE driver = "facebook" -> 0 [] driver = "google" -> IF c.offline /\ FirstConsent(c.of) THEN n ELSE 0 [] OTHER -> n]
Issue(of, t) == issued' = Append(issued, [of |-> of, live |-> TRUE, refresh |-> t.refresh])

\* The callback handler: exchange, and the session forgets once it succeeded.  The code is
\* spent when the provider took it, even if the answer was lost.
Callback(a) ==
  LET c == codes[actor[a].code]  kept == session[SessionOf[a]]
      input == [state |-> c.state, expected |-> kept.state, verifier |-> kept.verifier]
      takes == ~c.used /\ c.verifier = input.verifier
      outcome == CASE driver = "google" -> GoogleExchange(input, IF takes THEN 200 ELSE 400)
                   [] driver = "facebook" -> FacebookExchange(input, IF takes THEN 200 ELSE 400)
                   [] driver = "line" -> LineExchange(input, IF takes THEN 200 ELSE 400)
                   [] driver = "mock" -> MockExchange(input, {codes[k] : k \in {k \in DOMAIN codes : ~codes[k].used}})
      tokens == CASE driver = "google" -> GoogleTokens(Granted(c)) [] driver = "facebook" -> FacebookTokens(Granted(c))
                  [] driver = "line" -> LineTokens(Granted(c)) [] driver = "mock" -> Granted(c) IN
  /\ actor[a].at = "back" /\ Len(issued) < MaxIssued
  /\ IF outcome # "ok" THEN Becomes(a, Idle) /\ UNCHANGED <<session, codes, issued>>
     ELSE /\ codes' = [codes EXCEPT ![actor[a].code].used = TRUE]
          /\ Issue(c.of, tokens)
          /\ \/ /\ session' = [session EXCEPT ![SessionOf[a]] = [state |-> 0, verifier |-> 0]]
                /\ Becomes(a, [at |-> "exchanged", tokens |-> tokens, tenant |-> actor[a].tenant])
             \/ driver # "mock" /\ UNCHANGED <<session, actor>>   \* the answer is lost, the page reloaded
  /\ UNCHANGED <<driver, tenanted, extra, dead, rows, flows, nextId>>

\* profile(): whose tokens these are, by the provider.
Profile(a) ==
  LET known == actor[a].tokens.access \in DOMAIN issued /\ issued[actor[a].tokens.access].live
      outcome == CASE driver = "google" -> GoogleProfile(IF known THEN 200 ELSE 401)
                   [] driver = "facebook" -> FacebookProfile(IF known THEN 200 ELSE 400)
                   [] driver = "line" -> LineProfile(IF known THEN 200 ELSE 401)
                   [] driver = "mock" -> MockProfile(known) IN
  /\ actor[a].at = "exchanged"
  /\ IF outcome # "ok" THEN Becomes(a, Idle)
     ELSE Becomes(a, [at |-> "known", tokens |-> actor[a].tokens, tenant |-> actor[a].tenant,
                      identity |-> issued[actor[a].tokens.access].of])
  /\ UNCHANGED <<driver, tenanted, extra, session, codes, issued, dead, rows, flows, nextId>>

(***************************************************************************)
(* The ledger.                                                             *)
(***************************************************************************)
\* findByProviderIdentity.  Under the tenanted repository the policy hides other tenants' rows.
FindByProviderIdentity(i) == {r \in rows : r.identity = i}
TenantedFind(tenant, i) == {r \in rows : r.tenant = tenant /\ r.identity = i}
\* The unique indexes of the two migrations; that by user has no tenant in either.
Collides(r) == \E o \in rows : o.identity = r.identity \/ o.user = r.user
TenantedCollides(r) == \E o \in rows : (o.tenant = r.tenant /\ o.identity = r.identity) \/ o.user = r.user

\* connect() reads; another user's row refuses the link.
Find(a) ==
  /\ actor[a].at = "known"
  /\ \E u \in User : LET found == IF tenanted THEN TenantedFind(actor[a].tenant, actor[a].identity)
                               ELSE FindByProviderIdentity(actor[a].identity) IN
       IF \E r \in found : r.user # u THEN Becomes(a, Idle)   \* SocialAccountAlreadyLinkedError
       ELSE Becomes(a, [at |-> "found", tokens |-> actor[a].tokens, tenant |-> actor[a].tenant,
                        identity |-> actor[a].identity, user |-> u, rows |-> found])
  /\ UNCHANGED <<driver, tenanted, extra, session, codes, issued, dead, rows, flows, nextId>>

Stored(row, tokens, by) == [row EXCEPT !.access = tokens.access, !.refresh = tokens.refresh, !.by = by]

\* ... and writes what it found, by its id, or a new row.
Connect(a) ==
  /\ actor[a].at = "found" /\ Becomes(a, Idle)
  /\ LET f == actor[a] IN
     IF f.rows # {}
     THEN LET r == CHOOSE r \in f.rows : TRUE
              now == {o \in rows : o.id = r.id} IN   \* none: update() throws
          rows' = (rows \ now) \cup {Stored(o, f.tokens, "connect") : o \in now} /\ UNCHANGED nextId
     ELSE LET r == [id |-> nextId, tenant |-> f.tenant, user |-> f.user, identity |-> f.identity,
                    access |-> f.tokens.access, refresh |-> f.tokens.refresh, by |-> "connect"] IN
          IF (IF tenanted THEN TenantedCollides(r) ELSE Collides(r)) THEN UNCHANGED <<rows, nextId>>   \* the unique violation is thrown as it is
          ELSE rows' = rows \cup {r} /\ nextId' = nextId + 1
  /\ UNCHANGED <<driver, tenanted, extra, session, codes, issued, dead, flows>>

Disconnect(u) ==
  /\ ~tenanted /\ \E r \in rows : r.user = u
  /\ rows' = {r \in rows : r.user # u}
  /\ UNCHANGED <<driver, tenanted, extra, session, actor, codes, issued, dead, flows, nextId>>
TenantedDisconnect(u, tenant) ==
  /\ tenanted /\ \E r \in rows : r.user = u /\ r.tenant = tenant
  /\ rows' = {r \in rows : r.user # u \/ r.tenant # tenant}
  /\ UNCHANGED <<driver, tenanted, extra, session, actor, codes, issued, dead, flows, nextId>>

(***************************************************************************)
(* Refresh and revoke of what is stored.                                   *)
(***************************************************************************)
\* A job reads a row, asks the provider for new tokens, and stores what it was answered.
Refresh(a) ==
  /\ actor[a].at = "idle" /\ Len(issued) < MaxIssued
  /\ \E r \in rows :
       LET n == Len(issued) + 1
           takes == r.refresh # 0 /\ r.refresh \notin dead
           t == [access |-> n, openid |-> FALSE,
                 refresh |-> IF driver = "google" THEN 0 ELSE IF driver = "mock" THEN n ELSE r.refresh]
           answer == CASE driver = "google" -> GoogleRefresh(r.refresh, IF takes THEN 200 ELSE 400, t)
                       [] driver = "facebook" -> FacebookLongLived(IF issued[r.access].live THEN 200 ELSE 400, t)
                       [] driver = "line" -> LineRefresh(IF takes THEN 200 ELSE 400, t)
                       [] driver = "mock" -> MockRefresh(takes, t) IN
       IF answer.is # "ok" THEN UNCHANGED <<actor, issued, dead>>
       ELSE /\ Becomes(a, [at |-> "refreshed", tokens |-> answer.tokens, id |-> r.id])
            /\ IF driver = "mock"   \* rotated: the access token goes with its refresh token
               THEN /\ dead' = dead \cup {r.refresh}
                    /\ issued' = Append([k \in DOMAIN issued |-> IF issued[k].refresh = r.refresh THEN [issued[k] EXCEPT !.live = FALSE]
                                                                 ELSE issued[k]],
                                        [of |-> r.identity, live |-> TRUE, refresh |-> n])
               ELSE Issue(r.identity, answer.tokens) /\ UNCHANGED dead
  /\ UNCHANGED <<driver, tenanted, extra, session, codes, rows, flows, nextId>>
Store(a) ==
  /\ actor[a].at = "refreshed" /\ Becomes(a, Idle)
  /\ LET now == {o \in rows : o.id = actor[a].id} IN
     rows' = (rows \ now) \cup {Stored(o, actor[a].tokens, "refresh") : o \in now}
  /\ UNCHANGED <<driver, tenanted, extra, session, codes, issued, dead, flows, nextId>>

\* revoke(access token): Google ends the grant, Facebook every permission of the user, Line and
\* the mock driver this token (the mock forgets its refresh token with it).
Revoke(r) ==
  /\ r \in rows /\ issued[r.access].live
  /\ LET of == issued[r.access].of
         hit == CASE driver \in {"google", "facebook"} -> {k \in DOMAIN issued : issued[k].of = of}
                  [] OTHER -> {r.access} IN
     /\ issued' = [k \in DOMAIN issued |-> IF k \in hit THEN [issued[k] EXCEPT !.live = FALSE] ELSE issued[k]]
     /\ dead' = IF driver = "line" THEN dead ELSE dead \cup ({issued[k].refresh : k \in hit} \ {0})
  /\ UNCHANGED <<driver, tenanted, extra, session, actor, codes, rows, flows, nextId>>

Next == \/ \E a \in Actor : \/ Start(a) \/ Callback(a) \/ Profile(a) \/ Find(a) \/ Connect(a)
                            \/ Refresh(a) \/ Store(a)
        \/ \E u \in User : Disconnect(u) \/ \E tenant \in Scope : TenantedDisconnect(u, tenant)
        \/ \E r \in rows : Revoke(r)

Spec == Init /\ [][Next]_vars

-----------------------------------------------------------------------------
(* However sign-ins, links and refreshes interleave, an identity is linked to *)
(* one user of a tenant and a user has one link (social_account_repository.ts *)
(* connect, the indexes of apply_social_account_migration.ts), and the tokens *)
(* a link stores are its own identity's: a stale read never crosses two.      *)
LinksAreWhole ==
  \A r \in rows :
    /\ \A o \in rows : o # r => o.id # r.id /\ o.user # r.user /\ (o.tenant = r.tenant => o.identity # r.identity)
    /\ issued[r.access].of = r.identity
    /\ r.refresh # 0 => issued[r.refresh].of = r.identity

(* A code is good for one exchange, and under PKCE for none but the session's *)
(* last flow: tabs of one session do not take each other's answer.            *)
OneExchangePerCode ==
  /\ Cardinality({a \in Actor : actor[a].at \in {"exchanged", "known", "found"}})
       <= Cardinality({k \in DOMAIN codes : codes[k].used})
  /\ \A s \in Session : session[s].state # 0 => ~codes[session[s].state].used \/ driver # "mock"

(* A stored refresh token works until it is revoked or replaced: one the      *)
(* provider no longer takes is stored while the job that replaced it has      *)
(* still to write, or its access token is gone too.  And a refresh never      *)
(* leaves a link without its refresh token (google_driver.ts refresh).        *)
RefreshTokensKept ==
  \A r \in rows :
    /\ r.refresh \in dead => \/ ~issued[r.access].live
                             \/ \E a \in Actor : actor[a].at = "refreshed" /\ actor[a].id = r.id
    /\ driver # "facebook" /\ r.by = "refresh" => r.refresh # 0

(* What a driver declares it does: a profile has the fields its capabilities  *)
(* name; Line's email is in the id token, whether it is verified nowhere.     *)
CapabilitiesHold == flows = 0 =>
  /\ GoogleCaps \ {"openid", "refresh"} = GoogleFields /\ FacebookCaps = FacebookFields
  /\ LineCaps \ {"openid", "refresh", "emailVerified"} = LineFields \cup LineIdTokenFields

SocialLoginInv == LinksAreWhole /\ OneExchangePerCode /\ RefreshTokensKept /\ CapabilitiesHold
=============================================================================
