--------------------------------- MODULE Auth ---------------------------------
(***************************************************************************)
(* @strav/auth: requests of browsers that sign in, rotate, extend and end   *)
(* their sessions statement by statement, bearer tokens, magic links, the   *)
(* middleware in front of a handler and the gate it asks; and the codes of  *)
(* TOTP, base32 and mail verification, which keep no state.                 *)
(***************************************************************************)
EXTENDS Integers, Sequences, FiniteSets, SequencesExt, TLC

CONSTANTS Browser, User, Request,
          NoUser,
          Suites,      \* driver of the default guard, its routes, who comes, a bound on ids
          Policies,    \* resource class -> the abilities its policy defines
          Abilities,   \* abilities defined as functions
          Allowed,     \* the users these say yes to
          Ttl, MaxTime

VARIABLES suite,
          rows,        \* session id -> [user, expires], the table or the map
          tokens,      \* token id -> [user, expires]
          links,       \* magic link id -> [user, expires, used, wins]
          jar,         \* browser -> the session cookie it keeps
          wallet,      \* browser -> the token it was shown
          request, nextId, now,
          signedIn,    \* browser -> the user it last signed in, as its answers said
          grants,      \* <<browser, user>>: a login that succeeded
          gone,        \* ids deleted
          disturbed,   \* browsers whose requests overlapped, or whose session others ended
          linksRaced   \* links read by two requests at once

vars == <<suite, rows, tokens, links, jar, wallet, request, nextId, now, signedIn, grants, gone, disturbed, linksRaced>>

Never == MaxTime + Ttl + 1
NoCookie == [id |-> 0, expires |-> 0]
Views == {"default", "api"}
Free == [at |-> "free", browser |-> NoUser, route |-> <<>>, cookie |-> 0, bearer |-> [id |-> 0, secret |-> 0], link |-> 0,
         view |-> [v \in Views |-> NoUser], populated |-> [v \in Views |-> FALSE], step |-> "start", new |-> NoCookie,
         whose |-> NoUser, set |-> <<>>, login |-> <<>>]

(***************************************************************************)
(* The repositories.                                                       *)
(***************************************************************************)
FindValid(id) == id \in DOMAIN rows /\ rows[id].expires > now
FindByPlaintext(b) == b.id \in DOMAIN tokens /\ b.secret = b.id /\ tokens[b.id].expires > now
\* authenticate() of the guards: the map knows no expiry, a token must carry its secret.
MemoryUser(q) == IF q.cookie \in DOMAIN rows THEN rows[q.cookie].user ELSE NoUser
SessionUser(q) == IF FindValid(q.cookie) THEN rows[q.cookie].user ELSE NoUser
TokenUser(q) == IF FindByPlaintext(q.bearer) THEN tokens[q.bearer.id].user ELSE NoUser
Resolve(q, v) == CASE v = "api" -> TokenUser(q)
                   [] v = "default" -> IF suite.driver = "memory" THEN MemoryUser(q) ELSE SessionUser(q)
\* AuthGuardView.populate: at most one authenticate() for a view.
Seen(r, v) == IF request[r].populated[v] THEN request[r].view[v] ELSE Resolve(request[r], v)
Without(f, ids) == [i \in DOMAIN f \ ids |-> f[i]]
Expiry == IF suite.driver = "memory" THEN Never ELSE now + Ttl

(***************************************************************************)
(* The gate: a policy speaks alone for its class, else a function does.     *)
(***************************************************************************)
Evaluate(user, ability, class) ==
  IF class \in DOMAIN Policies
  THEN IF ability \in Policies[class] THEN IF user \in Allowed THEN "yes" ELSE "no" ELSE "throws"
  ELSE IF ability \in Abilities THEN IF user \in Allowed THEN "yes" ELSE "no"
  ELSE "throws"
Authorize(user, ability, class) == user # NoUser /\ Evaluate(user, ability, class) = "yes"
Can(user, ability, class) == CASE user = NoUser -> FALSE
                               [] user # NoUser -> Evaluate(user, ability, class) \notin {"no", "throws"}
Cannot(user, ability, class) == ~Can(user, ability, class)

(***************************************************************************)
(* Requests.                                                               *)
(***************************************************************************)
\* SessionGuard, MemoryGuard and TokenGuard are registered under the names of their configs.
Init ==
  /\ suite \in Suites
  /\ rows = <<>> /\ tokens = <<>> /\ links = <<>> /\ nextId = 1 /\ now = 0
  /\ jar = [b \in Browser |-> NoCookie] /\ wallet = [b \in Browser |-> 0]
  /\ request = [r \in Request |-> Free]
  /\ signedIn = [b \in Browser |-> NoUser] /\ grants = {} /\ gone = {} /\ disturbed = {} /\ linksRaced = {}

\* A browser sends the cookie it has, and its token as shown or with another secret.
Start(r, b, route) ==
  /\ request[r].at = "free" /\ route \in suite.routes
  /\ \E l \in IF "consume" \in ToSet(route) THEN DOMAIN links ELSE {0},
        bearer \in IF "auth:api" \in ToSet(route) THEN [id : {wallet[b]}, secret : {0, wallet[b]}] ELSE {[id |-> 0, secret |-> 0]} :
        request' = [request EXCEPT ![r] = [Free EXCEPT !.at = "run", !.browser = b, !.route = route, !.link = l,
                      !.cookie = IF jar[b].expires > now THEN jar[b].id ELSE 0,
                      !.bearer = bearer]]
  /\ disturbed' = IF \E q \in Request : request[q].browser = b THEN disturbed \cup {b} ELSE disturbed
  /\ UNCHANGED <<suite, rows, tokens, links, jar, wallet, nextId, now, signedIn, grants, gone, linksRaced>>

Op(r, op, step) == request[r].at = "run" /\ request[r].route # <<>> /\ Head(request[r].route) = op /\ request[r].step = step
Done(q) == [q EXCEPT !.route = Tail(@), !.step = "start", !.new = NoCookie, !.whose = NoUser]
Thrown(q) == [q EXCEPT !.route = <<>>]
Cookie(q, id, expires) == [q EXCEPT !.set = <<[id |-> id, expires |-> expires]>>]
View(q, v, user) == [q EXCEPT !.view[v] = user, !.populated[v] = TRUE]

\* A middleware populates a view, then goes on or throws.
Gated(r, v, goes(_)) ==
  /\ LET user == Seen(r, v)  q == View(request[r], v, user) IN
     request' = [request EXCEPT ![r] = IF goes(user) THEN Done(q) ELSE Thrown(q)]
  /\ UNCHANGED <<suite, rows, tokens, links, jar, wallet, nextId, now, signedIn, grants, gone, disturbed, linksRaced>>
Known(user) == user # NoUser
AuthMiddleware(r) == \/ Op(r, "auth", "start") /\ Gated(r, "default", Known)
                     \/ Op(r, "auth:api", "start") /\ Gated(r, "api", Known)
GuestMiddleware(r) == LET Guest(user) == user = NoUser IN Op(r, "guest", "start") /\ Gated(r, "default", Guest)
\* The resource is loaded first, and asked about with the default view whatever guard let the
\* request in.
PolicyMiddleware(r) ==
  LET May(user) == Authorize(user, "update", "lead") IN
  /\ Op(r, "policy", "start")
  /\ \/ Gated(r, "default", May)
     \/ /\ request' = [request EXCEPT ![r] = Thrown(@)]         \* 404
        /\ UNCHANGED <<suite, rows, tokens, links, jar, wallet, nextId, now, signedIn, grants, gone, disturbed, linksRaced>>

\* Guard.login: a new row, its cookie, then the view.
Login(r, u) ==
  /\ Op(r, "login", "start") /\ nextId <= suite.ids
  /\ request[r].whose \in {NoUser, u}                         \* a magic link says who
  /\ rows' = (nextId :> [user |-> u, expires |-> Expiry]) @@ rows /\ nextId' = nextId + 1
  /\ request' = [request EXCEPT ![r] = [Done(View(Cookie(@, nextId, Expiry), "default", u)) EXCEPT !.login = <<u>>]]
  /\ grants' = grants \cup {<<request[r].browser, u>>}
  /\ UNCHANGED <<suite, tokens, links, jar, wallet, now, signedIn, gone, disturbed, linksRaced>>

\* SessionGuard.logout finds the row, then deletes it; MemoryGuard deletes it at once.
Logout(r) ==
  /\ \/ /\ Op(r, "logout", "start") /\ suite.driver = "session" /\ request[r].cookie \in DOMAIN rows
        /\ request' = [request EXCEPT ![r].step = "found"] /\ UNCHANGED <<rows, gone>>
     \/ /\ \/ Op(r, "logout", "start") /\ (suite.driver = "memory" \/ request[r].cookie \notin DOMAIN rows)
           \/ Op(r, "logout", "found")
        /\ rows' = Without(rows, {request[r].cookie}) /\ gone' = gone \cup ({request[r].cookie} \ {0})
        /\ request' = [request EXCEPT ![r] = [Done(View(Cookie(@, 0, 0), "default", NoUser)) EXCEPT !.login = <<NoUser>>]]
  /\ UNCHANGED <<suite, tokens, links, jar, wallet, nextId, now, signedIn, grants, disturbed, linksRaced>>

\* Without a valid session regenerate() and touch() do nothing.
FindSession(r) ==
  /\ \E op \in {"regenerate", "touch"} :
        /\ Op(r, op, "start")
        /\ request' = [request EXCEPT ![r] = IF FindValid(@.cookie)
                        THEN [@ EXCEPT !.step = "found", !.whose = rows[request[r].cookie].user] ELSE Done(@)]
  /\ UNCHANGED <<suite, rows, tokens, links, jar, wallet, nextId, now, signedIn, grants, gone, disturbed, linksRaced>>

\* regenerate(): a copy under a new id ...
Copy(r) ==
  /\ Op(r, "regenerate", "found") /\ nextId <= suite.ids
  /\ rows' = (nextId :> [user |-> request[r].whose, expires |-> now + Ttl]) @@ rows /\ nextId' = nextId + 1
  /\ request' = [request EXCEPT ![r] = [@ EXCEPT !.step = "copied", !.new = [id |-> nextId, expires |-> now + Ttl]]]
  /\ UNCHANGED <<suite, tokens, links, jar, wallet, now, signedIn, grants, gone, disturbed, linksRaced>>
\* ... then the old row goes, and the cookie names the new one.  After a login in the same
\* request the row found is that of the session before it.
Retire(r) ==
  /\ Op(r, "regenerate", "copied")
  /\ rows' = Without(rows, {request[r].cookie}) /\ gone' = gone \cup ({request[r].cookie} \ {0})
  /\ request' = [request EXCEPT ![r] = Done(Cookie(@, @.new.id, @.new.expires))]
  /\ disturbed' = IF request[r].login # <<>> THEN disturbed \cup {request[r].browser} ELSE disturbed
  /\ UNCHANGED <<suite, tokens, links, jar, wallet, nextId, now, signedIn, grants, linksRaced>>

\* touch(): the UPDATE throws when the row has gone.
Touch(r) ==
  /\ Op(r, "touch", "found")
  /\ IF request[r].cookie \in DOMAIN rows
     THEN /\ rows' = [rows EXCEPT ![request[r].cookie].expires = now + Ttl]
          /\ request' = [request EXCEPT ![r] = Done(Cookie(@, @.cookie, now + Ttl))]
     ELSE rows' = rows /\ request' = [request EXCEPT ![r] = Thrown(@)]
  /\ UNCHANGED <<suite, tokens, links, jar, wallet, nextId, now, signedIn, grants, gone, disturbed, linksRaced>>
\* killAllForUser, revokeAllForUser: one DELETE each.
KillAll(r) ==
  /\ Op(r, "killAll", "start")
  /\ LET u == request[r].view.default  ids == {i \in DOMAIN rows : rows[i].user = u} IN
     /\ rows' = Without(rows, ids) /\ gone' = gone \cup ids
     /\ disturbed' = disturbed \cup {b \in Browser : signedIn[b] = u \/ \E q \in Request : request[q].browser = b /\ q # r}
  /\ request' = [request EXCEPT ![r] = Done(@)]
  /\ UNCHANGED <<suite, tokens, links, jar, wallet, nextId, now, signedIn, grants, linksRaced>>
RevokeAll(r) ==
  /\ Op(r, "revokeAll", "start")
  /\ LET ids == {i \in DOMAIN tokens : tokens[i].user = request[r].view.default} IN
     tokens' = Without(tokens, ids) /\ gone' = gone \cup ids
  /\ request' = [request EXCEPT ![r] = Done(@)]
  /\ UNCHANGED <<suite, rows, links, jar, wallet, nextId, now, signedIn, grants, disturbed, linksRaced>>

\* createToken: the plaintext is shown once, with this answer.
CreateToken(r, expires) ==
  /\ Op(r, "mint", "start") /\ nextId <= suite.ids
  /\ tokens' = (nextId :> [user |-> request[r].view.default, expires |-> expires]) @@ tokens /\ nextId' = nextId + 1
  /\ wallet' = [wallet EXCEPT ![request[r].browser] = nextId]
  /\ request' = [request EXCEPT ![r] = Done(@)]
  /\ UNCHANGED <<suite, rows, links, jar, now, signedIn, grants, gone, disturbed, linksRaced>>

\* TokenGuard.logout
LogoutToken(r) ==
  /\ \/ /\ Op(r, "logout:api", "start") /\ FindByPlaintext(request[r].bearer)
        /\ request' = [request EXCEPT ![r].step = "found"] /\ UNCHANGED <<tokens, gone>>
     \/ /\ \/ Op(r, "logout:api", "start") /\ ~FindByPlaintext(request[r].bearer)
           \/ Op(r, "logout:api", "found")
        /\ LET ids == IF request[r].step = "found" THEN {request[r].bearer.id} \cap DOMAIN tokens ELSE {} IN
           tokens' = Without(tokens, ids) /\ gone' = gone \cup ids
        /\ request' = [request EXCEPT ![r] = Done(View(@, "api", NoUser))]
  /\ UNCHANGED <<suite, rows, links, jar, wallet, nextId, now, signedIn, grants, disturbed, linksRaced>>

(***************************************************************************)
(* Magic links.                                                            *)
(***************************************************************************)
CreateLink(r, u) ==
  /\ Op(r, "sendLink", "start") /\ nextId <= suite.ids
  /\ links' = (nextId :> [user |-> u, expires |-> now + Ttl, used |-> FALSE, wins |-> 0]) @@ links /\ nextId' = nextId + 1
  /\ request' = [request EXCEPT ![r] = Done(@)]
  /\ UNCHANGED <<suite, rows, tokens, jar, wallet, now, signedIn, grants, gone, disturbed, linksRaced>>

\* consume(): SELECT and the three tests, then an UPDATE by id alone.
Consume(r) ==
  LET l == request[r].link IN
  /\ \/ /\ Op(r, "consume", "start")
        /\ request' = [request EXCEPT ![r] = IF links[l].used \/ links[l].expires < now THEN Thrown(@) ELSE [@ EXCEPT !.step = "found"]]
        /\ linksRaced' = IF \E q \in Request : request[q].link = l /\ request[q].step = "found" THEN linksRaced \cup {l} ELSE linksRaced
        /\ UNCHANGED links
     \/ /\ Op(r, "consume", "found")
        /\ links' = [links EXCEPT ![l].used = TRUE, ![l].wins = @ + 1]
        /\ request' = [request EXCEPT ![r] = [Done(@) EXCEPT !.whose = links[l].user]] /\ UNCHANGED linksRaced
  /\ UNCHANGED <<suite, rows, tokens, jar, wallet, nextId, now, signedIn, grants, gone, disturbed>>

(***************************************************************************)
(* Answers, time, and what ends sessions from outside.                     *)
(***************************************************************************)
\* The pending cookies go out with the answer, also with an error's; the browser keeps the
\* last.  An answer may be lost.
Answer(r, arrives) ==
  LET q == request[r]  b == request[r].browser IN
  /\ q.at = "run" /\ q.route = <<>>
  /\ request' = [request EXCEPT ![r] = Free]
  /\ IF arrives THEN /\ jar' = IF q.set = <<>> THEN jar ELSE [jar EXCEPT ![b] = q.set[1]]
                     /\ signedIn' = IF q.login = <<>> THEN signedIn ELSE [signedIn EXCEPT ![b] = q.login[1]]
                     /\ disturbed' = disturbed
     ELSE jar' = jar /\ signedIn' = signedIn /\ disturbed' = disturbed \cup {b}
  /\ UNCHANGED <<suite, rows, tokens, links, wallet, nextId, now, grants, gone, linksRaced>>

DeleteExpired ==
  /\ \E i \in DOMAIN rows : rows[i].expires <= now
  /\ LET ids == {i \in DOMAIN rows : rows[i].expires <= now} IN rows' = Without(rows, ids) /\ gone' = gone \cup ids
  /\ UNCHANGED <<suite, tokens, links, jar, wallet, request, nextId, now, signedIn, grants, disturbed, linksRaced>>
\* The memory guard's map dies with the process, and the requests with it.
Restart ==
  /\ suite.driver = "memory" /\ rows # <<>>
  /\ rows' = <<>> /\ gone' = gone \cup DOMAIN rows /\ disturbed' = Browser
  /\ request' = [r \in Request |-> Free]
  /\ UNCHANGED <<suite, tokens, links, jar, wallet, nextId, now, signedIn, grants, linksRaced>>
Tick == now < MaxTime /\ now' = now + 1
        /\ UNCHANGED <<suite, rows, tokens, links, jar, wallet, request, nextId, signedIn, grants, gone, disturbed, linksRaced>>

Next ==
  \/ \E r \in Request :
       \/ \E b \in suite.browsers, route \in suite.routes : Start(r, b, route)
       \/ AuthMiddleware(r) \/ GuestMiddleware(r) \/ PolicyMiddleware(r) \/ Logout(r) \/ FindSession(r) \/ Copy(r) \/ Retire(r) \/ Touch(r) \/ KillAll(r) \/ RevokeAll(r)
       \/ \E u \in suite.users : Login(r, u) \/ CreateLink(r, u)
       \/ \E e \in {now + Ttl, Never} : CreateToken(r, e)
       \/ LogoutToken(r) \/ Consume(r)
       \/ \E arrives \in BOOLEAN : Answer(r, arrives)
  \/ DeleteExpired \/ Restart \/ Tick
Spec == Init /\ [][Next]_vars

(***************************************************************************)
(* TOTP, base32 and mail verification: functions.                          *)
(***************************************************************************)
\* The counter goes into the HMAC as two words; Word stands for 2^32, and equal messages
\* give equal codes.
Word == 4
Hotp(counter) == <<counter \div Word, counter % Word>>
Verify(code, at, window) == \E i \in -window..window : at + i >= 0 /\ Hotp(at + i) = code

\* `value` is a 32-bit integer of which never more than the low twelve bits are read.
Low(value) == value % 4096
Take5(s) == IF s.bits < 5 THEN s
            ELSE [bits |-> s.bits - 5, value |-> s.value, out |-> Append(s.out, (s.value \div 2^(s.bits - 5)) % 32)]
EncodeByte(s, byte) == Take5(Take5([s EXCEPT !.bits = @ + 8, !.value = Low(@ * 256 + byte)]))
Base32Encode(bytes) ==
  LET s == FoldLeft(EncodeByte, [bits |-> 0, value |-> 0, out |-> <<>>], bytes) IN
  IF s.bits > 0 THEN Append(s.out, (s.value * 2^(5 - s.bits)) % 32) ELSE s.out
DecodeChar(s, char) ==
  LET t == [s EXCEPT !.bits = @ + 5, !.value = Low(@ * 32 + char)] IN
  IF t.bits < 8 THEN t ELSE [bits |-> t.bits - 8, value |-> t.value, out |-> Append(t.out, (t.value \div 2^(t.bits - 8)) % 256)]
Base32Decode(chars) == FoldLeft(DecodeChar, [bits |-> 0, value |-> 0, out |-> <<>>], chars).out

\* The token is the id, a time and a signature, joined and split by dots: an id is the
\* sequence of its parts.
SignedUrl(id, ts) == id \o <<ts, [signs |-> <<id, ts>>]>>
VerifyEmail(token, at, ttl) ==
  /\ Len(token) = 3 /\ token[3] = [signs |-> <<<<token[1]>>, token[2]>>] /\ token[2] + ttl >= at

(***************************************************************************)
(* Properties.                                                             *)
(***************************************************************************)
\* Who a request runs as was signed in by this browser, or holds its token, and no session
\* is of a user that nobody signed in (SessionGuard.authenticate, regenerate).
Identity ==
  /\ \A r \in Request : request[r].view.default # NoUser => <<request[r].browser, request[r].view.default>> \in grants
  /\ \A b \in Browser : jar[b].id \in DOMAIN rows => <<b, rows[jar[b].id].user>> \in grants
\* What logout, regenerate, killAllForUser or the sweep deleted is never valid again.
RetiredForGood == gone \cap (DOMAIN rows \cup DOMAIN tokens) = {}
\* A browser whose requests follow one another has a cookie of a live session of the user it
\* signed in last, which expires when the cookie does; and none once it signed out.
StaysSignedIn == \A b \in Browser \ disturbed :
    (\A r \in Request : request[r].browser # b) =>
        /\ signedIn[b] = NoUser => jar[b].id = 0
        /\ signedIn[b] # NoUser /\ jar[b].expires > now =>
             /\ jar[b].id \in DOMAIN rows
             /\ rows[jar[b].id] = [user |-> signedIn[b], expires |-> jar[b].expires]
\* A magic link signs in once, as long as no two requests read it at once (consume).
LinkSignsInOnce == \A l \in DOMAIN links \ linksRaced : links[l].wins <= 1
\* The gate: authorize() passes exactly where can() says yes, and a class with a policy is
\* never judged by a function.
GateAgrees == nextId = 1 =>
  \A u \in User \cup {NoUser}, c \in DOMAIN Policies \cup {"other"}, a \in Abilities \cup UNION {Policies[k] : k \in DOMAIN Policies} :
    /\ Authorize(u, a, c) = Can(u, a, c) /\ Cannot(u, a, c) = ~Authorize(u, a, c)
    /\ c \in DOMAIN Policies /\ Can(u, a, c) => a \in Policies[c]
\* A TOTP code is good for its step and the steps around it; base32 decodes to what it
\* encoded; a verification link holds for its time (totp.ts, email_verification.ts).
CodesHold == nextId = 1 /\ now = 0 =>
  /\ \A step, at \in 0..9, w \in 0..2 : Verify(Hotp(step), at, w) = (at - step \in -w..w)
  /\ \A bytes \in UNION {[1..n -> {1, 31, 128, 255}] : n \in 0..3} \cup [1..5 -> {1, 255}] :
       /\ Base32Decode(Base32Encode(bytes)) = bytes
       /\ Len(Base32Encode(bytes)) = (8 * Len(bytes) + 4) \div 5
  /\ \A ts, at \in 0..3, ttl \in 0..2 : VerifyEmail(SignedUrl(<<"u">>, ts), at, ttl) = (at <= ts + ttl)

AuthInv == Identity /\ RetiredForGood /\ StaysSignedIn /\ LinkSignsInOnce /\ GateAgrees /\ CodesHold
===============================================================================
