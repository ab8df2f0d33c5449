----------------------------- MODULE WebSession -----------------------------
(***************************************************************************)
(* The web tier's OIDC session: one Next.js process serving several        *)
(* browsers.  All session state is in the browsers' cookies; the process   *)
(* keeps two maps, consumedStates and refreshesInFlight (oidc.ts).         *)
(*                                                                         *)
(* A tab has at most one request open.  A request carries the cookies its  *)
(* browser held when it was sent, and its Set-Cookie headers take effect   *)
(* when its response is received: between the two, other tabs of the same  *)
(* browser go on.  The identity provider is external: it redeems a code    *)
(* once, and a refresh token once (rotation).                              *)
(*                                                                         *)
(* Sign-ins are numbered by their `state`, token pairs by their            *)
(* generation; the nonce and the PKCE verifier are the sign-in's own.      *)
(***************************************************************************)
EXTENDS Integers, Sequences, FiniteSets

CONSTANTS
  Tabs,          \* browser tabs, each with at most one request open
  BrowserOf,     \* Tabs -> browsers: the cookie jar a tab shares
  MaxSignIns,    \* bound on calls of /api/auth/login
  MaxTokens,     \* bound on token pairs issued, a fault counting for one
  MaxFaults,     \* bound on lost answers and unexpected 401s
  MaxConsumed,   \* MAX_CONSUMED_STATES
  NoCookie       \* an absent cookie

VARIABLES
  signIns,       \* sequence: the browser that began each sign-in
  spent,         \* codes the provider has redeemed, by sign-in
  issued,        \* sequence: the sign-in each token pair belongs to
  live,          \* refresh tokens the provider accepts
  stale,         \* access tokens that have expired
  consumed,      \* consumedStates, in insertion order
  inFlight,      \* keys of refreshesInFlight
  asked,         \* refresh token requests the provider has not answered
  exchanges,     \* how often each sign-in's code was sent to the provider
  jar,           \* browser -> its cookies
  request,       \* tab -> its request
  faults         \* faults so far

vars == <<signIns, spent, issued, live, stale, consumed, inFlight, asked,
          exchanges, jar, request, faults>>

provider == <<spent, issued, live, stale>>
process == <<consumed, inFlight, asked, exchanges>>

Browsers == {BrowserOf[t] : t \in Tabs}
SignIns == 1 .. MaxSignIns

NoCookies == [access |-> NoCookie, refresh |-> NoCookie, flow |-> NoCookie]
Keep == [what |-> "keep", tokens |-> NoCookie]
Idle == [kind |-> "none", stage |-> "idle", sent |-> NoCookies, set |-> Keep]

-----------------------------------------------------------------------------
(* What the process keeps. *)

\* The key of refreshesInFlight is the digest of the refresh token.
RefreshKey(token) == <<"sha256", token>>

\* pruneConsumedStates when the map is full: the oldest entries go until
\* there is room for one more.  (An entry also goes AUTHORIZATION_FLOW_SECONDS
\* after its state was consumed, when consumeAuthorizationFlow refuses the flow
\* by its age too: neither is modelled, nor a restart, which empties the map.)
Pruned(states) ==
  LET excess == Len(states) - MaxConsumed + 1
  IN IF excess > 0 THEN SubSeq(states, excess + 1, Len(states)) ELSE states

\* consumeAuthorizationFlow: the flow cookie must be that of the state the
\* provider returned, and that state must not have been consumed.  Mutant: the
\* state counts as consumed only once tokens arrive.
ConsumableUnmarked(flow, state) == flow = state /\ state \notin spent
Consumable(flow, state) ==
  flow = state /\ \A i \in DOMAIN Pruned(consumed) : Pruned(consumed)[i] # state

\* The `finally` of refreshSession forgets an operation, however it ended.
\* Mutant: on success only.
ForgottenIfRotated(operation, succeeded) ==
  IF succeeded THEN inFlight \ {operation.key} ELSE inFlight
Forgotten(operation, succeeded) == inFlight \ {operation.key}

-----------------------------------------------------------------------------
(* The end of a request's handling: which cookies its response sets. *)

Jar(t) == jar[BrowserOf[t]]

\* The response leaves every cookie the handler does not name alone; as other
\* tabs may change them meanwhile, it lists only what it sets.
Response(set) == [Idle EXCEPT !.stage = "answered", !.set = set]
Answered(t, set) == request' = [request EXCEPT ![t] = Response(set)]

SetSession(g) == [what |-> "session", tokens |-> g]
ClearSession == [what |-> "clear", tokens |-> NoCookie]
SetFlow(s) == [what |-> "flow", tokens |-> s]
ClearFlow == [what |-> "endflow", tokens |-> NoCookie]
SignedIn(g) == [what |-> "signedin", tokens |-> g]

\* setSessionCookies, clearSessionCookies, setFlowCookie, clearFlowCookie as
\* the browser applies them.
Applied(cookies, set) ==
  CASE set.what = "keep" -> cookies
    [] set.what = "session" -> [cookies EXCEPT !.access = set.tokens, !.refresh = set.tokens]
    [] set.what = "clear" -> NoCookies
    [] set.what = "flow" -> [cookies EXCEPT !.flow = set.tokens]
    [] set.what = "endflow" -> [cookies EXCEPT !.flow = NoCookie]
    [] set.what = "signedin" -> [access |-> set.tokens, refresh |-> set.tokens,
                                 flow |-> NoCookie]

\* A new request of an idle tab, with its browser's cookies.
Opened(t, kind, stage) ==
  /\ request[t].stage = "idle"
  /\ request' = [request EXCEPT ![t] =
                   [kind |-> kind, stage |-> stage, sent |-> Jar(t), set |-> Keep]]

OpenedAndAnswered(t, set) == request[t].stage = "idle" /\ Answered(t, set)

\* The provider issues the next token pair to a sign-in.
Issue(s) == issued' = Append(issued, s)
NextToken == Len(issued) + 1
CanIssue == Len(issued) + faults < MaxTokens
Fault == CanIssue /\ faults < MaxFaults /\ faults' = faults + 1

-----------------------------------------------------------------------------
(* Signing in. *)

\* GET /api/auth/login: beginAuthorization; the response carries the flow
\* cookie to the browser and the browser to the provider.
Login(t) ==
  /\ Len(signIns) < MaxSignIns
  /\ signIns' = Append(signIns, BrowserOf[t])
  /\ OpenedAndAnswered(t, SetFlow(Len(signIns) + 1))
  /\ UNCHANGED <<provider, process, jar, faults>>

\* GET /api/auth/callback up to the token request.  The state may be that of
\* any sign-in begun: the user goes back, reloads, or opens the link twice.
\* The state is consumed even if the provider reported an error.
Callback(t) ==
  \E s \in DOMAIN signIns :
    IF Consumable(Jar(t).flow, s)
      THEN /\ consumed' = Append(Pruned(consumed), s)
           /\ \/ /\ exchanges' = [exchanges EXCEPT ![s] = @ + 1]
                 /\ Opened(t, "callback", "exchange")
              \/ /\ OpenedAndAnswered(t, ClearFlow)
                 /\ UNCHANGED exchanges
           /\ UNCHANGED <<signIns, provider, inFlight, asked, jar, faults>>
      ELSE /\ OpenedAndAnswered(t, ClearFlow)
           /\ UNCHANGED <<signIns, provider, process, jar, faults>>

\* exchangeAuthorizationCode is answered: tokens for an unused code, an error
\* for a used one.
ExchangeAnswered(t) ==
  LET s == request[t].sent.flow IN
  /\ request[t].stage = "exchange"
  /\ IF s \in spent
       THEN Answered(t, ClearFlow) /\ UNCHANGED <<spent, issued, live>>
       ELSE /\ CanIssue
            /\ spent' = spent \union {s}
            /\ Issue(s)
            /\ live' = live \union {NextToken}
            /\ Answered(t, SignedIn(NextToken))
  /\ UNCHANGED <<signIns, stale, process, jar, faults>>

\* The answer is lost, or verifyIdToken or another check of tokenRequest
\* refuses it: the code is spent for nothing.
ExchangeFails(t) ==
  /\ request[t].stage = "exchange"
  /\ Fault
  /\ spent' = spent \union {request[t].sent.flow}
  /\ Answered(t, ClearFlow)
  /\ UNCHANGED <<signIns, issued, live, stale, process, jar>>

-----------------------------------------------------------------------------
(* Refreshing. *)

Fresh(access) == access # NoCookie /\ access \notin stale

\* refreshSession up to its await: join the operation for this refresh token,
\* or start one.
StartRefresh(token) ==
  LET key == RefreshKey(token) IN
  IF key \in inFlight
    THEN UNCHANGED <<inFlight, asked>>
    ELSE /\ inFlight' = inFlight \union {key}
         /\ asked' = asked \union {[key |-> key, token |-> token]}

\* The requests that wait for an operation.  Mutant: it resolves whoever waits.
WaitingForAny(operation) == {t \in Tabs : request[t].stage = "refresh"}
Waiting(operation) ==
  {t \in Tabs : request[t].stage = "refresh"
                /\ RefreshKey(request[t].sent.refresh) = operation.key}

\* sessionStatus returns the tokens; proxyV1Request repeats its request first.
Rotated(operation, g) ==
  request' = [t \in Tabs |->
    IF t \notin Waiting(operation) THEN request[t]
    ELSE IF request[t].kind = "session"
      THEN Response(SetSession(g))
      ELSE [request[t] EXCEPT !.stage = "retry", !.set = SetSession(g)]]

\* Both clear the session's cookies when the refresh fails.
Rejected(operation) ==
  request' = [t \in Tabs |->
    IF t \notin Waiting(operation) THEN request[t]
    ELSE Response(ClearSession)]

\* The token endpoint answers a refresh: a live token is rotated, any other
\* refused.
RefreshAnswered(operation) ==
  /\ IF operation.token \in live
       THEN /\ CanIssue
            /\ Issue(issued[operation.token])
            /\ live' = (live \ {operation.token}) \union {NextToken}
            /\ Rotated(operation, NextToken)
            /\ inFlight' = Forgotten(operation, TRUE)
       ELSE /\ Rejected(operation)
            /\ inFlight' = Forgotten(operation, FALSE)
            /\ UNCHANGED <<issued, live>>
  /\ asked' = asked \ {operation}
  /\ UNCHANGED <<signIns, spent, stale, consumed, exchanges, jar, faults>>

\* The answer is lost or refused by tokenRequest, after the provider rotated
\* the token or without.
RefreshFails(operation) ==
  /\ Fault
  /\ live' \in {live, live \ {operation.token}}
  /\ Rejected(operation)
  /\ inFlight' = Forgotten(operation, FALSE)
  /\ asked' = asked \ {operation}
  /\ UNCHANGED <<signIns, spent, issued, stale, consumed, exchanges, jar>>

-----------------------------------------------------------------------------
(* The requests of a signed-in browser. *)

\* GET /api/auth/session: sessionStatus answers from a fresh access token, or
\* refreshes if there is a refresh cookie, or reports an anonymous session.
SessionStatus(t) ==
  /\ IF ~Fresh(Jar(t).access) /\ Jar(t).refresh # NoCookie
       THEN Opened(t, "session", "refresh") /\ StartRefresh(Jar(t).refresh)
       ELSE OpenedAndAnswered(t, Keep) /\ UNCHANGED <<inFlight, asked>>
  /\ UNCHANGED <<signIns, provider, consumed, exchanges, jar, faults>>

\* proxyV1Request up to its first upstream fetch.
Proxy(t) ==
  /\ Opened(t, "proxy", "forward")
  /\ UNCHANGED <<signIns, provider, process, jar, faults>>

\* The upstream answers: anything but a 401 is passed on (an exception is a
\* 502 without cookies); a 401 leads to a refresh if there is a refresh cookie.
Forwarded(t) ==
  LET sent == request[t].sent IN
  /\ request[t].stage = "forward"
  /\ IF Fresh(sent.access) \/ sent.refresh = NoCookie
       THEN Answered(t, Keep) /\ UNCHANGED <<inFlight, asked>>
       ELSE /\ request' = [request EXCEPT ![t].stage = "refresh"]
            /\ StartRefresh(sent.refresh)
  /\ UNCHANGED <<signIns, provider, consumed, exchanges, jar, faults>>

\* The repeated request is answered with the rotated access token.
Retried(t) ==
  /\ request[t].stage = "retry"
  /\ Answered(t, request[t].set)
  /\ UNCHANGED <<signIns, provider, process, jar, faults>>

\* ... or is refused again, and the rotated session is cleared; or the fetch
\* fails.  Then the response is made of the first answer, whose body has been
\* canceled, which ends in a 502 without cookies unless that body was empty.
RetryFails(t) ==
  /\ request[t].stage = "retry"
  /\ Fault
  /\ \/ Answered(t, ClearSession)
     \/ Answered(t, Keep)
  /\ UNCHANGED <<signIns, provider, process, jar>>

\* POST /api/auth/logout past assertMutationRequest.
Logout(t) ==
  /\ OpenedAndAnswered(t, ClearSession)
  /\ UNCHANGED <<signIns, provider, process, jar, faults>>

-----------------------------------------------------------------------------
(* The browser and time. *)

\* The response arrives and its cookies take effect.
Receive(t) ==
  /\ request[t].stage = "answered"
  /\ jar' = [jar EXCEPT ![BrowserOf[t]] = Applied(@, request[t].set)]
  /\ request' = [request EXCEPT ![t] = Idle]
  /\ UNCHANGED <<signIns, provider, process, faults>>

\* The tab is closed before the response arrives.
Lose(t) ==
  /\ request[t].stage = "answered"
  /\ Fault
  /\ request' = [request EXCEPT ![t] = Idle]
  /\ UNCHANGED <<signIns, provider, process, jar>>

\* An access token expires.
Expire ==
  /\ \E g \in DOMAIN issued \ stale : stale' = stale \union {g}
  /\ UNCHANGED <<signIns, spent, issued, live, process, jar, request, faults>>

Init ==
  /\ signIns = <<>> /\ spent = {} /\ issued = <<>> /\ live = {} /\ stale = {}
  /\ consumed = <<>> /\ inFlight = {} /\ asked = {}
  /\ exchanges = [s \in SignIns |-> 0]
  /\ jar = [b \in Browsers |-> NoCookies]
  /\ request = [t \in Tabs |-> Idle]
  /\ faults = 0

Next ==
  \/ \E t \in Tabs :
       \/ Login(t) \/ Callback(t) \/ ExchangeAnswered(t) \/ ExchangeFails(t)
       \/ SessionStatus(t) \/ Proxy(t) \/ Forwarded(t) \/ Retried(t) \/ RetryFails(t)
       \/ Logout(t) \/ Receive(t) \/ Lose(t)
  \/ \E operation \in asked : RefreshAnswered(operation) \/ RefreshFails(operation)
  \/ Expire

Spec == Init /\ [][Next]_vars

-----------------------------------------------------------------------------
(* Properties. *)

\* A browser only ever holds tokens of a sign-in it began itself, whatever
\* refreshes, callbacks and sign-ins of other browsers the process handles at
\* the same time: neither the shared refresh operations nor a callback link
\* opened elsewhere hands a session over.
SessionsStayApart ==
  \A b \in Browsers : \A g \in {jar[b].access, jar[b].refresh} \ {NoCookie} :
    signIns[issued[g]] = b

\* consumeAuthorizationFlow ("Consume before any outbound request so
\* concurrent callbacks cannot race"): the code of a sign-in is sent to the
\* provider at most once, though its callback be opened in several tabs, while
\* the process runs and its map of consumed states is not full.
EachSignInExchangedOnce == \A s \in SignIns : exchanges[s] <= 1

\* refreshesInFlight names exactly the refreshes in flight, and every request
\* that waits has one to wait for: a refresh that failed is not remembered, so
\* the next request with the same cookie asks again.
RefreshesInFlight ==
  /\ inFlight = {operation.key : operation \in asked}
  /\ \A t \in Tabs : request[t].stage = "refresh" =>
       \E operation \in asked : operation.token = request[t].sent.refresh

\* The session's promises together, whatever tabs, browsers and answers cross.
SessionsAreSafe == SessionsStayApart /\ EachSignInExchangedOnce /\ RefreshesInFlight

-----------------------------------------------------------------------------
(* The inductive invariant: what the safety properties rest on. *)

\* Cookies, and what a response may set, of the token pairs G and the sign-ins S.
Cookies(G, S) == [access : G \union {NoCookie}, refresh : G \union {NoCookie},
                  flow : S \union {NoCookie}]
Settings(G, S) == [what : {"keep", "clear", "endflow"}, tokens : {NoCookie}]
                  \union [what : {"session", "signedin"}, tokens : G]
                  \union [what : {"flow"}, tokens : S]
OpenRequests(G, S) == [kind : {"none", "session", "proxy", "callback"},
                       stage : {"idle", "exchange", "refresh", "forward", "retry", "answered"},
                       sent : Cookies(G, S), set : Settings(G, S)]

\* Sign-ins and tokens are told apart from their absence, and consumedStates never fills up:
\* when it does, its oldest state is forgotten and could be used again.
SessionAssumption ==
  /\ NoCookie \notin Nat \ {0}
  /\ MaxSignIns \in Nat /\ MaxConsumed \in Nat /\ MaxSignIns < MaxConsumed

TypeOK ==
  /\ signIns \in Seq(Browsers) /\ Len(signIns) <= MaxSignIns
  /\ issued \in Seq(DOMAIN signIns) /\ live \subseteq DOMAIN issued
  /\ consumed \in Seq(DOMAIN signIns) /\ exchanges \in [SignIns -> Nat]
  /\ jar \in [Browsers -> Cookies(DOMAIN issued, DOMAIN signIns)]
  /\ request \in [Tabs -> OpenRequests(DOMAIN issued, DOMAIN signIns)]

\* A browser holds, sends and is sent only what belongs to sign-ins it began; a request that
\* waits for a refresh or an exchange sent the cookie for it.
Owned(b) == {g \in DOMAIN issued : signIns[issued[g]] = b}
Begun(b) == {s \in DOMAIN signIns : signIns[s] = b}
OwnershipInv ==
  /\ \A b \in Browsers : jar[b] \in Cookies(Owned(b), Begun(b))
  /\ \A t \in Tabs :
       /\ request[t] \in OpenRequests(Owned(BrowserOf[t]), Begun(BrowserOf[t]))
       /\ request[t].stage = "refresh" => request[t].sent.refresh # NoCookie
       /\ request[t].stage = "exchange" => request[t].sent.flow # NoCookie

\* A state is consumed once, and its code was sent at most once, after that.
ConsumedInv ==
  /\ \A i, j \in DOMAIN consumed : consumed[i] = consumed[j] => i = j
  /\ \A s \in SignIns : \/ exchanges[s] = 0
                        \/ exchanges[s] = 1 /\ \E i \in DOMAIN consumed : consumed[i] = s

\* A refresh is asked for under the digest of its token.
AskedInv ==
  \A operation \in asked :
    operation = [key |-> RefreshKey(operation.token), token |-> operation.token]

IndInv == TypeOK /\ OwnershipInv /\ ConsumedInv /\ AskedInv /\ RefreshesInFlight
=============================================================================
