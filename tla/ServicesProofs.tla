--------------------------- MODULE ServicesProofs ---------------------------
(****************************************************************************)
(* Proofs about five of the services: the sessions of the web tier           *)
(* (WebSession), shares (ShareLinks), the knowledge base (KnowledgeBase),    *)
(* the import of historical trips (Migration) and what the agents compute    *)
(* (TravelAgents); TripLocksProofs has those about the store's transactions. *)
(* Each component is taken by itself first, and the results are then stated  *)
(* of the specification that TLC checks.                                     *)
(****************************************************************************)
EXTENDS Services, FiniteSetTheorems, WellFoundedInduction, TLAPS

-----------------------------------------------------------------------------
(* The web tier's sessions. *)

\* What tab t may have open.
WebFit(t, r) ==
    /\ r \in Web!OpenRequests(Web!Owned(BrowserOf[t]), Web!Begun(BrowserOf[t]))
    /\ r.stage = "refresh" => r.sent.refresh # NoCookie
    /\ r.stage = "exchange" => r.sent.flow # NoCookie

\* A browser's cookies stay its own while sign-ins and tokens are added.
LEMMA WebGrows ==
    ASSUME NEW b, Web!TypeOK,
           DOMAIN signIns \subseteq DOMAIN signIns', \A s \in DOMAIN signIns : signIns'[s] = signIns[s],
           DOMAIN issued \subseteq DOMAIN issued', \A g \in DOMAIN issued : issued'[g] = issued[g]
    PROVE  /\ Web!Owned(b) \subseteq Web!Owned(b)' /\ Web!Begun(b) \subseteq Web!Begun(b)'
           /\ Web!Cookies(Web!Owned(b), Web!Begun(b)) \subseteq Web!Cookies(Web!Owned(b), Web!Begun(b))'
           /\ Web!Settings(Web!Owned(b), Web!Begun(b)) \subseteq Web!Settings(Web!Owned(b), Web!Begun(b))'
           /\ Web!OpenRequests(Web!Owned(b), Web!Begun(b)) \subseteq Web!OpenRequests(Web!Owned(b), Web!Begun(b))'
<1>1. \A g \in DOMAIN issued : issued[g] \in DOMAIN signIns BY DEF Web!TypeOK
<1>2. Web!Owned(b) \subseteq Web!Owned(b)' /\ Web!Begun(b) \subseteq Web!Begun(b)'
  BY <1>1 DEF Web!Owned, Web!Begun
<1>3. Web!Cookies(Web!Owned(b), Web!Begun(b)) \subseteq Web!Cookies(Web!Owned(b), Web!Begun(b))'
  BY <1>2 DEF Web!Cookies
<1>4. Web!Settings(Web!Owned(b), Web!Begun(b)) \subseteq Web!Settings(Web!Owned(b), Web!Begun(b))'
  BY <1>2 DEF Web!Settings
<1>5. Web!OpenRequests(Web!Owned(b), Web!Begun(b)) \subseteq Web!OpenRequests(Web!Owned(b), Web!Begun(b))'
  BY <1>3, <1>4 DEF Web!OpenRequests
<1> QED BY <1>2, <1>3, <1>4, <1>5

\* What a response sets, and what the browser makes of it.
LEMMA WebResponse ==
    ASSUME NEW G, NEW S, NEW set \in Web!Settings(G, S)
    PROVE  /\ Web!Response(set) \in Web!OpenRequests(G, S) /\ Web!Response(set).stage = "answered"
           /\ \A cookies \in Web!Cookies(G, S) : Web!Applied(cookies, set) \in Web!Cookies(G, S)
<1>1. Web!Keep \in Web!Settings(G, S) BY DEF Web!Settings, Web!Keep
<1>2. Web!NoCookies \in Web!Cookies(G, S) BY DEF Web!Cookies, Web!NoCookies
<1>3. Web!Response(set) \in Web!OpenRequests(G, S) /\ Web!Response(set).stage = "answered"
  BY <1>1, <1>2 DEF Web!Response, Web!Idle, Web!OpenRequests
<1>4. ASSUME NEW cookies \in Web!Cookies(G, S) PROVE Web!Applied(cookies, set) \in Web!Cookies(G, S)
  <2>1. CASE set.what \in {"keep", "clear"} BY <1>2, <2>1 DEF Web!Applied
  <2>2. CASE set.what = "endflow" BY <2>2 DEF Web!Applied, Web!Cookies
  <2>3. CASE set.what = "session"
    <3>1. set.tokens \in G BY <2>3 DEF Web!Settings
    <3> QED BY <2>3, <3>1 DEF Web!Applied, Web!Cookies
  <2>4. CASE set.what = "signedin"
    <3>1. set.tokens \in G BY <2>4 DEF Web!Settings
    <3> QED BY <2>4, <3>1 DEF Web!Applied, Web!Cookies
  <2>5. CASE set.what = "flow"
    <3>1. set.tokens \in S BY <2>5 DEF Web!Settings
    <3> QED BY <2>5, <3>1 DEF Web!Applied, Web!Cookies
  <2> QED BY <2>1, <2>2, <2>3, <2>4, <2>5 DEF Web!Settings
<1> QED BY <1>3, <1>4

\* A response that takes something away, or leaves all as it is, is fit for every tab.
LEMMA WebPlain ==
    ASSUME NEW t, NEW set \in {Web!Keep, Web!ClearSession, Web!ClearFlow}
    PROVE  WebFit(t, Web!Response(set)) /\ Web!Response(set).stage = "answered" /\ WebFit(t, Web!Idle)
<1>1. set \in Web!Settings(Web!Owned(BrowserOf[t]), Web!Begun(BrowserOf[t]))
  BY DEF Web!Settings, Web!Keep, Web!ClearSession, Web!ClearFlow
<1>2. /\ Web!Response(set) \in Web!OpenRequests(Web!Owned(BrowserOf[t]), Web!Begun(BrowserOf[t]))
      /\ Web!Response(set).stage = "answered"
  BY <1>1, WebResponse
<1>3. Web!Keep \in Web!Settings(Web!Owned(BrowserOf[t]), Web!Begun(BrowserOf[t]))
  BY DEF Web!Settings, Web!Keep
<1>4. Web!NoCookies \in Web!Cookies(Web!Owned(BrowserOf[t]), Web!Begun(BrowserOf[t]))
  BY DEF Web!Cookies, Web!NoCookies
<1>5. Web!Idle \in Web!OpenRequests(Web!Owned(BrowserOf[t]), Web!Begun(BrowserOf[t])) /\ Web!Idle.stage = "idle"
  BY <1>3, <1>4 DEF Web!OpenRequests, Web!Idle
<1> QED BY <1>2, <1>5 DEF WebFit

\* Of sign-ins, tokens, cookies and requests nothing but what a step adds is new.
LEMMA WebOwnership ==
    ASSUME Web!IndInv,
           signIns' \in Seq(Web!Browsers), Len(signIns') <= MaxSignIns,
           issued' \in Seq(DOMAIN signIns'), live' \subseteq DOMAIN issued',
           DOMAIN signIns \subseteq DOMAIN signIns', \A s \in DOMAIN signIns : signIns'[s] = signIns[s],
           DOMAIN issued \subseteq DOMAIN issued', \A g \in DOMAIN issued : issued'[g] = issued[g],
           jar' = [b \in Web!Browsers |-> jar'[b]], request' = [t \in Tabs |-> request'[t]],
           \A b \in Web!Browsers : jar'[b] = jar[b] \/ jar'[b] \in Web!Cookies(Web!Owned(b), Web!Begun(b))',
           \A t \in Tabs : request'[t] = request[t] \/ WebFit(t, request'[t]) \/ WebFit(t, request[t])'
    PROVE  /\ Web!OwnershipInv'
           /\ jar' \in [Web!Browsers -> Web!Cookies(DOMAIN issued', DOMAIN signIns')]
           /\ request' \in [Tabs -> Web!OpenRequests(DOMAIN issued', DOMAIN signIns')]
<1>1. Web!TypeOK /\ Web!OwnershipInv BY DEF Web!IndInv
<1>2. \A b \in Web!Browsers : jar'[b] \in Web!Cookies(Web!Owned(b), Web!Begun(b))'
  BY <1>1, WebGrows DEF Web!OwnershipInv
<1>3. \A t \in Tabs : WebFit(t, request[t])'
  <2> SUFFICES ASSUME NEW t \in Tabs PROVE WebFit(t, request[t])' OBVIOUS
  <2>1. WebFit(t, request[t]) BY <1>1 DEF Web!OwnershipInv, WebFit
  <2>2. CASE WebFit(t, request'[t]) \/ request'[t] = request[t]
    BY <1>1, <2>1, <2>2, WebGrows DEF WebFit
  <2> QED BY <2>2
<1>4. Web!OwnershipInv' BY <1>2, <1>3 DEF Web!OwnershipInv, WebFit
<1>5. \A b : /\ Web!Cookies(Web!Owned(b), Web!Begun(b))' \subseteq Web!Cookies(DOMAIN issued', DOMAIN signIns')
             /\ Web!OpenRequests(Web!Owned(b), Web!Begun(b))' \subseteq Web!OpenRequests(DOMAIN issued', DOMAIN signIns')
  <2> SUFFICES ASSUME NEW b
               PROVE  /\ Web!Cookies(Web!Owned(b), Web!Begun(b))' \subseteq Web!Cookies(DOMAIN issued', DOMAIN signIns')
                      /\ Web!OpenRequests(Web!Owned(b), Web!Begun(b))' \subseteq Web!OpenRequests(DOMAIN issued', DOMAIN signIns')
    OBVIOUS
  <2>1. Web!Owned(b)' \subseteq DOMAIN issued' /\ Web!Begun(b)' \subseteq DOMAIN signIns'
    BY DEF Web!Owned, Web!Begun
  <2>2. Web!Cookies(Web!Owned(b), Web!Begun(b))' \subseteq Web!Cookies(DOMAIN issued', DOMAIN signIns')
    BY <2>1 DEF Web!Cookies
  <2>3. Web!Settings(Web!Owned(b), Web!Begun(b))' \subseteq Web!Settings(DOMAIN issued', DOMAIN signIns')
    BY <2>1 DEF Web!Settings
  <2> QED BY <2>2, <2>3 DEF Web!OpenRequests
<1>6. jar' \in [Web!Browsers -> Web!Cookies(DOMAIN issued', DOMAIN signIns')] BY <1>2, <1>5
<1>7. \A t \in Tabs : request'[t] \in Web!OpenRequests(DOMAIN issued', DOMAIN signIns')
  BY <1>3, <1>5 DEF WebFit
<1> QED BY <1>4, <1>6, <1>7

\* A sequence that grows by one element.
LEMMA WebAppend ==
    ASSUME NEW S, NEW q \in Seq(S), NEW e \in S
    PROVE  /\ Append(q, e) \in Seq(S) /\ Len(q) \in Nat
           /\ Len(Append(q, e)) = Len(q) + 1 /\ Len(q) + 1 \in DOMAIN Append(q, e)
           /\ Append(q, e)[Len(q) + 1] = e /\ DOMAIN q \subseteq DOMAIN Append(q, e)
           /\ \A i \in DOMAIN q : Append(q, e)[i] = q[i]
           /\ DOMAIN q = 1 .. Len(q) /\ DOMAIN Append(q, e) = 1 .. Len(q) + 1
OBVIOUS

\* The steps that begin no sign-in and issue no tokens.
LEMMA WebQuiet ==
    ASSUME Web!IndInv, signIns' = signIns, issued' = issued, live' \subseteq live,
           consumed' \in Seq(DOMAIN signIns), exchanges' \in [Web!SignIns -> Nat],
           jar' = [b \in Web!Browsers |-> jar'[b]], request' = [t \in Tabs |-> request'[t]],
           \A b \in Web!Browsers : jar'[b] = jar[b] \/ jar'[b] \in Web!Cookies(Web!Owned(b), Web!Begun(b)),
           \A t \in Tabs : request'[t] = request[t] \/ WebFit(t, request'[t])
    PROVE  Web!TypeOK' /\ Web!OwnershipInv'
<1>1. Web!TypeOK BY DEF Web!IndInv
<1>2. /\ signIns' \in Seq(Web!Browsers) /\ Len(signIns') <= MaxSignIns
      /\ issued' \in Seq(DOMAIN signIns') /\ live' \subseteq DOMAIN issued'
      /\ DOMAIN signIns \subseteq DOMAIN signIns' /\ \A s \in DOMAIN signIns : signIns'[s] = signIns[s]
      /\ DOMAIN issued \subseteq DOMAIN issued' /\ \A g \in DOMAIN issued : issued'[g] = issued[g]
  BY <1>1 DEF Web!TypeOK
<1>3. \A b \in Web!Browsers : jar'[b] = jar[b] \/ jar'[b] \in Web!Cookies(Web!Owned(b), Web!Begun(b))'
  BY DEF Web!Owned, Web!Begun
<1>4. /\ Web!OwnershipInv' /\ jar' \in [Web!Browsers -> Web!Cookies(DOMAIN issued', DOMAIN signIns')]
      /\ request' \in [Tabs -> Web!OpenRequests(DOMAIN issued', DOMAIN signIns')]
  BY <1>2, <1>3, WebOwnership
<1> QED BY <1>2, <1>4 DEF Web!TypeOK

\* A tab's request is fit, and so is one it opens with its browser's cookies.
LEMMA WebOpening ==
    ASSUME Web!IndInv, NEW t \in Tabs
    PROVE  /\ WebFit(t, request[t]) /\ BrowserOf[t] \in Web!Browsers
           /\ Web!Jar(t) \in Web!Cookies(Web!Owned(BrowserOf[t]), Web!Begun(BrowserOf[t]))
           /\ \A kind \in {"session", "proxy", "callback"}, stage \in {"refresh", "forward", "exchange"} :
                /\ stage = "refresh" => Web!Jar(t).refresh # NoCookie
                /\ stage = "exchange" => Web!Jar(t).flow # NoCookie
                => WebFit(t, [kind |-> kind, stage |-> stage, sent |-> Web!Jar(t), set |-> Web!Keep])
<1>1. WebFit(t, request[t]) BY DEF Web!IndInv, Web!OwnershipInv, WebFit
<1>2. BrowserOf[t] \in Web!Browsers BY DEF Web!Browsers
<1>3. Web!Jar(t) \in Web!Cookies(Web!Owned(BrowserOf[t]), Web!Begun(BrowserOf[t]))
  BY <1>2 DEF Web!IndInv, Web!OwnershipInv, Web!Jar
<1>4. Web!Keep \in Web!Settings(Web!Owned(BrowserOf[t]), Web!Begun(BrowserOf[t]))
  BY DEF Web!Settings, Web!Keep
<1> QED BY <1>1, <1>2, <1>3, <1>4 DEF WebFit, Web!OpenRequests

\* consumedStates holds each state once, so it has room for every sign-in.
LEMMA WebRoom ==
    ASSUME Web!SessionAssumption, Web!IndInv
    PROVE  Web!Pruned(consumed) = consumed
<1>1. /\ signIns \in Seq(Web!Browsers) /\ Len(signIns) <= MaxSignIns /\ consumed \in Seq(DOMAIN signIns)
      /\ MaxSignIns \in Nat /\ MaxConsumed \in Nat /\ MaxSignIns < MaxConsumed
  BY DEF Web!IndInv, Web!TypeOK, Web!SessionAssumption
<1>2. /\ DOMAIN consumed = 1 .. Len(consumed) /\ DOMAIN signIns = 1 .. Len(signIns)
      /\ Len(consumed) \in Nat /\ Len(signIns) \in Nat
  BY <1>1
<1>3. consumed \in [1 .. Len(consumed) -> 1 .. Len(signIns)] BY <1>1, <1>2
<1>4. IsInjective(consumed) BY DEF Web!IndInv, Web!ConsumedInv, IsInjective
<1>5. consumed \in Injection(1 .. Len(consumed), 1 .. Len(signIns)) BY <1>3, <1>4 DEF Injection
<1>6. /\ IsFiniteSet(1 .. Len(signIns)) /\ Cardinality(1 .. Len(signIns)) = Len(signIns)
      /\ Cardinality(1 .. Len(consumed)) = Len(consumed)
  <2>1. \A n \in Nat : IsFiniteSet(1 .. n) /\ Cardinality(1 .. n) = n
    <3> SUFFICES ASSUME NEW n \in Nat PROVE IsFiniteSet(1 .. n) /\ Cardinality(1 .. n) = n OBVIOUS
    <3>1. IsFiniteSet(1 .. n) /\ Cardinality(1 .. n) = IF 1 > n THEN 0 ELSE n - 1 + 1 BY FS_Interval
    <3>2. (IF 1 > n THEN 0 ELSE n - 1 + 1) = n OBVIOUS
    <3> QED BY <3>1, <3>2
  <2> QED BY <1>2, <2>1
<1>7. Len(consumed) <= Len(signIns) BY <1>5, <1>6, FS_Injection
<1>8. ~(Len(consumed) - MaxConsumed + 1 > 0) BY <1>1, <1>2, <1>7
<1> QED BY <1>8 DEF Web!Pruned

\* The steps that concern one request and neither begin a sign-in nor issue tokens.
LEMMA WebOneRequest ==
    ASSUME Web!SessionAssumption, Web!IndInv, NEW t \in Tabs,
           \/ Web!Callback(t) \/ Web!ExchangeFails(t) \/ Web!SessionStatus(t) \/ Web!Proxy(t) \/ Web!Forwarded(t)
           \/ Web!Retried(t) \/ Web!RetryFails(t) \/ Web!Logout(t) \/ Web!Receive(t) \/ Web!Lose(t)
    PROVE  Web!TypeOK' /\ Web!OwnershipInv'
<1>1. /\ Web!TypeOK /\ request \in [Tabs -> Web!OpenRequests(DOMAIN issued, DOMAIN signIns)]
      /\ jar \in [Web!Browsers -> Web!Cookies(DOMAIN issued, DOMAIN signIns)]
      /\ consumed \in Seq(DOMAIN signIns) /\ exchanges \in [Web!SignIns -> Nat]
  BY DEF Web!IndInv, Web!TypeOK
<1>2. /\ WebFit(t, request[t]) /\ BrowserOf[t] \in Web!Browsers
      /\ Web!Jar(t) \in Web!Cookies(Web!Owned(BrowserOf[t]), Web!Begun(BrowserOf[t]))
      /\ \A kind \in {"session", "proxy", "callback"}, stage \in {"refresh", "forward", "exchange"} :
                /\ stage = "refresh" => Web!Jar(t).refresh # NoCookie
                /\ stage = "exchange" => Web!Jar(t).flow # NoCookie
                => WebFit(t, [kind |-> kind, stage |-> stage, sent |-> Web!Jar(t), set |-> Web!Keep])
  BY WebOpening
<1>3. \A set \in {Web!Keep, Web!ClearSession, Web!ClearFlow} : WebFit(t, Web!Response(set)) /\ WebFit(t, Web!Idle)
  BY WebPlain
<1>4. jar = [b \in Web!Browsers |-> jar[b]] BY <1>1
<1>5. ASSUME NEW r, WebFit(t, r), request' = [request EXCEPT ![t] = r], jar' = jar,
             signIns' = signIns, issued' = issued, live' = live,
             consumed' \in Seq(DOMAIN signIns), exchanges' \in [Web!SignIns -> Nat]
      PROVE  Web!TypeOK' /\ Web!OwnershipInv'
  <2>1. request' = [u \in Tabs |-> request'[u]] BY <1>1, <1>5
  <2>2. \A u \in Tabs : request'[u] = request[u] \/ WebFit(u, request'[u]) BY <1>1, <1>5
  <2>3. jar' = [b \in Web!Browsers |-> jar'[b]] /\ \A b \in Web!Browsers : jar'[b] = jar[b]
    BY <1>4, <1>5
  <2> QED BY <1>5, <2>1, <2>2, <2>3, WebQuiet
<1>6. CASE Web!Callback(t)
  <2>1. PICK s \in DOMAIN signIns :
            IF Web!Consumable(Web!Jar(t).flow, s)
            THEN /\ consumed' = Append(Web!Pruned(consumed), s)
                 /\ \/ /\ exchanges' = [exchanges EXCEPT ![s] = @ + 1]
                       /\ Web!Opened(t, "callback", "exchange")
                    \/ /\ Web!OpenedAndAnswered(t, Web!ClearFlow)
                       /\ UNCHANGED exchanges
                 /\ UNCHANGED <<signIns, Web!provider, inFlight, asked, jar, faults>>
            ELSE /\ Web!OpenedAndAnswered(t, Web!ClearFlow)
                 /\ UNCHANGED <<signIns, Web!provider, Web!process, jar, faults>>
    BY <1>6 DEF Web!Callback
  <2>2. jar' = jar /\ signIns' = signIns /\ issued' = issued /\ live' = live
    BY <2>1 DEF Web!provider
  <2>3. consumed' \in Seq(DOMAIN signIns)
    <3>1. Append(Web!Pruned(consumed), s) \in Seq(DOMAIN signIns) BY <1>1, WebRoom
    <3> QED BY <1>1, <2>1, <3>1 DEF Web!process
  <2>4. exchanges' \in [Web!SignIns -> Nat]
    <3>1. s \in Web!SignIns BY <1>1 DEF Web!TypeOK, Web!SignIns, Web!SessionAssumption
    <3>2. exchanges[s] + 1 \in Nat BY <1>1, <3>1
    <3>3. [exchanges EXCEPT ![s] = @ + 1] \in [Web!SignIns -> Nat] BY <1>1, <3>1, <3>2
    <3> QED BY <1>1, <2>1, <3>3 DEF Web!process
  <2>5. CASE Web!OpenedAndAnswered(t, Web!ClearFlow)
    BY <1>3, <1>5, <2>2, <2>3, <2>4, <2>5 DEF Web!OpenedAndAnswered, Web!Answered
  <2>6. CASE Web!Opened(t, "callback", "exchange") /\ Web!Consumable(Web!Jar(t).flow, s)
    <3>1. Web!Jar(t).flow = s BY <2>6 DEF Web!Consumable
    <3>2. s # NoCookie
      <4>1. s \in Nat \ {0} BY <1>1 DEF Web!TypeOK
      <4> QED BY <4>1 DEF Web!SessionAssumption
    <3>3. WebFit(t, [kind |-> "callback", stage |-> "exchange", sent |-> Web!Jar(t), set |-> Web!Keep])
      BY <1>2, <3>1, <3>2
    <3> QED BY <1>5, <2>2, <2>3, <2>4, <2>6, <3>3 DEF Web!Opened
  <2> QED BY <2>1, <2>5, <2>6
<1>7. CASE Web!ExchangeFails(t)
  BY <1>1, <1>3, <1>5, <1>7 DEF Web!ExchangeFails, Web!Answered, Web!process
<1>8. CASE Web!SessionStatus(t)
  <2>1. /\ jar' = jar /\ signIns' = signIns /\ issued' = issued /\ live' = live
        /\ consumed' = consumed /\ exchanges' = exchanges
    BY <1>8 DEF Web!SessionStatus, Web!provider
  <2>2. CASE ~Web!Fresh(Web!Jar(t).access) /\ Web!Jar(t).refresh # NoCookie
    <3>1. WebFit(t, [kind |-> "session", stage |-> "refresh", sent |-> Web!Jar(t), set |-> Web!Keep])
      BY <1>2, <2>2
    <3> QED BY <1>1, <1>5, <1>8, <2>1, <2>2, <3>1 DEF Web!SessionStatus, Web!Opened
  <2>3. CASE ~(~Web!Fresh(Web!Jar(t).access) /\ Web!Jar(t).refresh # NoCookie)
    BY <1>1, <1>3, <1>5, <1>8, <2>1, <2>3 DEF Web!SessionStatus, Web!OpenedAndAnswered, Web!Answered
  <2> QED BY <2>2, <2>3
<1>9. CASE Web!Proxy(t)
  <2>1. WebFit(t, [kind |-> "proxy", stage |-> "forward", sent |-> Web!Jar(t), set |-> Web!Keep])
    BY <1>2
  <2> QED BY <1>1, <1>5, <1>9, <2>1 DEF Web!Proxy, Web!Opened, Web!provider, Web!process
<1>10. CASE Web!Forwarded(t)
  <2>1. /\ jar' = jar /\ signIns' = signIns /\ issued' = issued /\ live' = live
        /\ consumed' = consumed /\ exchanges' = exchanges
    BY <1>10 DEF Web!Forwarded, Web!provider
  <2>2. CASE Web!Fresh(request[t].sent.access) \/ request[t].sent.refresh = NoCookie
    BY <1>1, <1>3, <1>5, <1>10, <2>1, <2>2 DEF Web!Forwarded, Web!Answered
  <2>3. CASE ~(Web!Fresh(request[t].sent.access) \/ request[t].sent.refresh = NoCookie)
    <3> DEFINE r == [request[t] EXCEPT !.stage = "refresh"]
    <3>1. request' = [request EXCEPT ![t] = r] BY <1>1, <1>10, <2>3 DEF Web!Forwarded
    <3>2. WebFit(t, r) BY <1>2, <2>3 DEF WebFit, Web!OpenRequests
    <3> HIDE DEF r
    <3> QED BY <1>1, <1>5, <2>1, <3>1, <3>2
  <2> QED BY <2>2, <2>3
<1>11. CASE Web!Retried(t)
  <2>1. request[t].set \in Web!Settings(Web!Owned(BrowserOf[t]), Web!Begun(BrowserOf[t]))
    BY <1>2 DEF WebFit, Web!OpenRequests
  <2>2. WebFit(t, Web!Response(request[t].set)) BY <2>1, WebResponse DEF WebFit
  <2> QED BY <1>1, <1>5, <1>11, <2>2 DEF Web!Retried, Web!Answered, Web!provider, Web!process
<1>12. CASE Web!RetryFails(t)
  <2>1. CASE Web!Answered(t, Web!ClearSession)
    BY <1>1, <1>3, <1>5, <1>12, <2>1 DEF Web!RetryFails, Web!Answered, Web!provider, Web!process
  <2>2. CASE Web!Answered(t, Web!Keep)
    BY <1>1, <1>3, <1>5, <1>12, <2>2 DEF Web!RetryFails, Web!Answered, Web!provider, Web!process
  <2> QED BY <1>12, <2>1, <2>2 DEF Web!RetryFails
<1>13. CASE Web!Logout(t)
  BY <1>1, <1>3, <1>5, <1>13 DEF Web!Logout, Web!OpenedAndAnswered, Web!Answered, Web!provider, Web!process
<1>14. CASE Web!Receive(t)
  <2> DEFINE c == Web!Applied(jar[BrowserOf[t]], request[t].set)
  <2>1. request[t].set \in Web!Settings(Web!Owned(BrowserOf[t]), Web!Begun(BrowserOf[t]))
    BY <1>2 DEF WebFit, Web!OpenRequests
  <2>2. c \in Web!Cookies(Web!Owned(BrowserOf[t]), Web!Begun(BrowserOf[t]))
    BY <1>2, <2>1, WebResponse DEF Web!Jar
  <2> HIDE DEF c
  <2>3. /\ jar' = [jar EXCEPT ![BrowserOf[t]] = c] /\ request' = [request EXCEPT ![t] = Web!Idle]
        /\ signIns' = signIns /\ issued' = issued /\ live' = live
        /\ consumed' = consumed /\ exchanges' = exchanges
    BY <1>14 DEF Web!Receive, Web!provider, Web!process, c
  <2>4. jar' = [b \in Web!Browsers |-> jar'[b]] /\ request' = [u \in Tabs |-> request'[u]]
    BY <1>1, <2>3
  <2>5. \A b \in Web!Browsers : jar'[b] = jar[b] \/ jar'[b] \in Web!Cookies(Web!Owned(b), Web!Begun(b))
    BY <1>1, <2>2, <2>3
  <2>6. \A u \in Tabs : request'[u] = request[u] \/ WebFit(u, request'[u]) BY <1>1, <1>3, <2>3
  <2> QED BY <1>1, <2>3, <2>4, <2>5, <2>6, WebQuiet
<1>15. CASE Web!Lose(t)
  BY <1>1, <1>3, <1>5, <1>15 DEF Web!Lose, Web!provider, Web!process
<1> QED BY <1>6, <1>7, <1>8, <1>9, <1>10, <1>11, <1>12, <1>13, <1>14, <1>15

\* A sign-in that is begun belongs to the browser that gets its flow cookie.
LEMMA WebLogin ==
    ASSUME Web!SessionAssumption, Web!IndInv, NEW t \in Tabs, Web!Login(t)
    PROVE  Web!TypeOK' /\ Web!OwnershipInv'
<1> DEFINE s == Len(signIns) + 1
<1>1. /\ Web!TypeOK /\ request \in [Tabs -> Web!OpenRequests(DOMAIN issued, DOMAIN signIns)]
      /\ jar \in [Web!Browsers -> Web!Cookies(DOMAIN issued, DOMAIN signIns)]
      /\ signIns \in Seq(Web!Browsers) /\ issued \in Seq(DOMAIN signIns) /\ live \subseteq DOMAIN issued
      /\ consumed \in Seq(DOMAIN signIns) /\ exchanges \in [Web!SignIns -> Nat]
      /\ BrowserOf[t] \in Web!Browsers /\ MaxSignIns \in Nat
  BY WebOpening DEF Web!IndInv, Web!TypeOK, Web!SessionAssumption
<1>2. /\ signIns' = Append(signIns, BrowserOf[t]) /\ Len(signIns) < MaxSignIns
      /\ request' = [request EXCEPT ![t] = Web!Response(Web!SetFlow(s))]
      /\ issued' = issued /\ live' = live /\ jar' = jar
      /\ consumed' = consumed /\ exchanges' = exchanges
  BY DEF Web!Login, Web!OpenedAndAnswered, Web!Answered, Web!provider, Web!process
<1>3. /\ signIns' \in Seq(Web!Browsers) /\ Len(signIns') <= MaxSignIns
      /\ s \in DOMAIN signIns' /\ signIns'[s] = BrowserOf[t]
      /\ DOMAIN signIns \subseteq DOMAIN signIns' /\ \A i \in DOMAIN signIns : signIns'[i] = signIns[i]
  BY <1>1, <1>2, WebAppend
<1> HIDE DEF s
<1>4. issued' \in Seq(DOMAIN signIns') /\ consumed' \in Seq(DOMAIN signIns') BY <1>1, <1>2, <1>3
<1>5. WebFit(t, request[t])'
  <2>1. s \in Web!Begun(BrowserOf[t])' BY <1>3 DEF Web!Begun
  <2>2. Web!SetFlow(s) \in Web!Settings(Web!Owned(BrowserOf[t])', Web!Begun(BrowserOf[t])')
    BY <2>1 DEF Web!Settings, Web!SetFlow
  <2>3. /\ Web!Response(Web!SetFlow(s)) \in Web!OpenRequests(Web!Owned(BrowserOf[t])', Web!Begun(BrowserOf[t])')
        /\ Web!Response(Web!SetFlow(s)).stage = "answered"
    BY <2>2, WebResponse
  <2>4. request'[t] = Web!Response(Web!SetFlow(s)) BY <1>1, <1>2
  <2> QED BY <2>3, <2>4 DEF WebFit, Web!OpenRequests, Web!Cookies, Web!Settings
<1>6. jar' = [b \in Web!Browsers |-> jar'[b]] /\ request' = [u \in Tabs |-> request'[u]]
  BY <1>1, <1>2
<1>7. \A u \in Tabs : request'[u] = request[u] \/ WebFit(u, request[u])' BY <1>1, <1>2, <1>5
<1>8. /\ Web!OwnershipInv' /\ jar' \in [Web!Browsers -> Web!Cookies(DOMAIN issued', DOMAIN signIns')]
      /\ request' \in [Tabs -> Web!OpenRequests(DOMAIN issued', DOMAIN signIns')]
  BY <1>1, <1>2, <1>3, <1>4, <1>6, <1>7, WebOwnership
<1> QED BY <1>1, <1>2, <1>3, <1>4, <1>8 DEF Web!TypeOK

\* The token pair that is issued next.
LEMMA WebIssued ==
    ASSUME Web!TypeOK, NEW s \in DOMAIN signIns, issued' = Append(issued, s)
    PROVE  /\ issued' \in Seq(DOMAIN signIns) /\ Web!NextToken \in DOMAIN issued'
           /\ issued'[Web!NextToken] = s /\ DOMAIN issued \subseteq DOMAIN issued'
           /\ \A i \in DOMAIN issued : issued'[i] = issued[i]
<1>1. issued \in Seq(DOMAIN signIns) BY DEF Web!TypeOK
<1> QED BY <1>1, WebAppend DEF Web!NextToken

\* New tokens belong to the browser whose sign-in they are issued to: whoever is told of them
\* sent the cookie of that sign-in.
LEMMA WebIssue ==
    ASSUME Web!SessionAssumption, Web!IndInv, NEW s \in DOMAIN signIns, issued' = Append(issued, s),
           signIns' = signIns, live' \subseteq live \union {Web!NextToken},
           consumed' = consumed, exchanges' = exchanges, jar' = jar,
           request' = [t \in Tabs |-> request'[t]],
           \A t \in Tabs :
                \/ request'[t] = request[t]
                \/ /\ BrowserOf[t] = signIns[s]
                   /\ \/ request'[t] = Web!Response(Web!SetSession(Web!NextToken))
                      \/ request'[t] = Web!Response(Web!SignedIn(Web!NextToken))
                      \/ request'[t] = [request[t] EXCEPT !.stage = "retry",
                                                          !.set = Web!SetSession(Web!NextToken)]
    PROVE  Web!TypeOK' /\ Web!OwnershipInv'
<1> DEFINE g == Web!NextToken
<1>1. /\ Web!TypeOK /\ signIns \in Seq(Web!Browsers) /\ issued \in Seq(DOMAIN signIns)
      /\ jar \in [Web!Browsers -> Web!Cookies(DOMAIN issued, DOMAIN signIns)] /\ live \subseteq DOMAIN issued
  BY DEF Web!IndInv, Web!TypeOK
<1>2. /\ issued' \in Seq(DOMAIN signIns) /\ g \in DOMAIN issued' /\ issued'[g] = s
      /\ DOMAIN issued \subseteq DOMAIN issued' /\ \A i \in DOMAIN issued : issued'[i] = issued[i]
  BY <1>1, WebIssued
<1> HIDE DEF g
<1>3. live' \subseteq DOMAIN issued' BY <1>1, <1>2 DEF g
<1>4. ASSUME NEW t \in Tabs, request'[t] # request[t] PROVE WebFit(t, request[t])'
  <2> DEFINE G == Web!Owned(BrowserOf[t])'
             S == Web!Begun(BrowserOf[t])'
  <2>1. g \in G BY <1>2, <1>4 DEF Web!Owned
  <2>2. Web!SetSession(g) \in Web!Settings(G, S) /\ Web!SignedIn(g) \in Web!Settings(G, S)
    BY <2>1 DEF Web!Settings, Web!SetSession, Web!SignedIn
  <2>3. WebFit(t, request[t]) BY WebOpening
  <2>4. request[t] \in Web!OpenRequests(G, S) BY <1>1, <1>2, <2>3, WebGrows DEF WebFit
  <2> HIDE DEF G, S
  <2>5. request'[t] \in Web!OpenRequests(G, S) /\ request'[t].stage \in {"answered", "retry"}
    <3>0. \A set \in Web!Settings(G, S) :
            Web!Response(set) \in Web!OpenRequests(G, S) /\ Web!Response(set).stage = "answered"
      BY WebResponse
    <3>1. CASE request'[t] = Web!Response(Web!SetSession(g)) BY <2>2, <3>0, <3>1
    <3>2. CASE request'[t] = Web!Response(Web!SignedIn(g)) BY <2>2, <3>0, <3>2
    <3>3. CASE request'[t] = [request[t] EXCEPT !.stage = "retry", !.set = Web!SetSession(g)]
      BY <2>2, <2>4, <3>3 DEF Web!OpenRequests
    <3> QED BY <1>4, <3>1, <3>2, <3>3 DEF g
  <2> QED BY <2>5 DEF WebFit, G, S, Web!OpenRequests, Web!Cookies, Web!Settings
<1>5. jar' = [b \in Web!Browsers |-> jar'[b]] BY <1>1
<1>6. /\ Web!OwnershipInv' /\ jar' \in [Web!Browsers -> Web!Cookies(DOMAIN issued', DOMAIN signIns')]
      /\ request' \in [Tabs -> Web!OpenRequests(DOMAIN issued', DOMAIN signIns')]
  BY <1>1, <1>2, <1>3, <1>4, <1>5, WebOwnership DEF Web!TypeOK
<1> QED BY <1>1, <1>2, <1>3, <1>6 DEF Web!TypeOK

\* The provider's answers.
LEMMA WebAnswers ==
    ASSUME Web!SessionAssumption, Web!IndInv,
           \/ \E t \in Tabs : Web!ExchangeAnswered(t)
           \/ \E operation \in asked : Web!RefreshAnswered(operation) \/ Web!RefreshFails(operation)
    PROVE  Web!TypeOK' /\ Web!OwnershipInv'
<1>1. /\ Web!TypeOK /\ request \in [Tabs -> Web!OpenRequests(DOMAIN issued, DOMAIN signIns)]
      /\ jar \in [Web!Browsers -> Web!Cookies(DOMAIN issued, DOMAIN signIns)]
      /\ consumed \in Seq(DOMAIN signIns) /\ exchanges \in [Web!SignIns -> Nat]
      /\ issued \in Seq(DOMAIN signIns) /\ live \subseteq DOMAIN issued /\ Web!AskedInv
  BY DEF Web!IndInv, Web!TypeOK
<1>2. jar = [b \in Web!Browsers |-> jar[b]] BY <1>1
<1>3. \A t \in Tabs : WebFit(t, request[t]) BY WebOpening
<1>4. ASSUME NEW t \in Tabs, Web!ExchangeAnswered(t) PROVE Web!TypeOK' /\ Web!OwnershipInv'
  <2> DEFINE s == request[t].sent.flow
  <2>1. signIns' = signIns /\ consumed' = consumed /\ exchanges' = exchanges /\ jar' = jar
    BY <1>4 DEF Web!ExchangeAnswered, Web!process
  <2>2. s \in Web!Begun(BrowserOf[t])
    BY <1>3, <1>4 DEF Web!ExchangeAnswered, WebFit, Web!OpenRequests, Web!Cookies
  <2>3. s \in DOMAIN signIns /\ signIns[s] = BrowserOf[t] BY <2>2 DEF Web!Begun
  <2>4. CASE s \in spent
    <3>1. /\ request' = [request EXCEPT ![t] = Web!Response(Web!ClearFlow)] /\ issued' = issued
          /\ live' = live
      BY <1>4, <2>4 DEF Web!ExchangeAnswered, Web!Answered
    <3>2. WebFit(t, Web!Response(Web!ClearFlow)) BY WebPlain
    <3>3. /\ request' = [u \in Tabs |-> request'[u]]
          /\ \A u \in Tabs : request'[u] = request[u] \/ WebFit(u, request'[u])
      BY <1>1, <3>1, <3>2
    <3> QED BY <1>1, <1>2, <2>1, <3>1, <3>3, WebQuiet
  <2>5. CASE s \notin spent
    <3>1. /\ request' = [request EXCEPT ![t] = Web!Response(Web!SignedIn(Web!NextToken))]
          /\ issued' = Append(issued, s) /\ live' = live \union {Web!NextToken}
      BY <1>4, <2>5 DEF Web!ExchangeAnswered, Web!Answered, Web!Issue
    <3>2. /\ request' = [u \in Tabs |-> request'[u]]
          /\ \A u \in Tabs : \/ request'[u] = request[u]
                             \/ u = t /\ request'[u] = Web!Response(Web!SignedIn(Web!NextToken))
      BY <1>1, <3>1
    <3> HIDE DEF s
    <3> QED BY <2>1, <2>3, <3>1, <3>2, WebIssue
  <2> QED BY <2>4, <2>5
<1>5. ASSUME NEW operation \in asked, Web!Rejected(operation), signIns' = signIns, issued' = issued,
             live' \subseteq live, consumed' = consumed, exchanges' = exchanges, jar' = jar
      PROVE  Web!TypeOK' /\ Web!OwnershipInv'
  <2>1. \A u \in Tabs : WebFit(u, Web!Response(Web!ClearSession)) BY WebPlain
  <2>2. /\ request' = [u \in Tabs |-> request'[u]]
        /\ \A u \in Tabs : request'[u] = request[u] \/ request'[u] = Web!Response(Web!ClearSession)
    BY <1>5 DEF Web!Rejected
  <2>3. \A u \in Tabs : request'[u] = request[u] \/ WebFit(u, request'[u]) BY <2>1, <2>2
  <2> QED BY <1>1, <1>2, <1>5, <2>2, <2>3, WebQuiet
<1>6. ASSUME NEW operation \in asked, Web!RefreshFails(operation) PROVE Web!TypeOK' /\ Web!OwnershipInv'
  <2>1. live' \subseteq live BY <1>6 DEF Web!RefreshFails
  <2> QED BY <1>5, <1>6, <2>1 DEF Web!RefreshFails
<1>7. ASSUME NEW operation \in asked, Web!RefreshAnswered(operation) PROVE Web!TypeOK' /\ Web!OwnershipInv'
  <2>1. signIns' = signIns /\ consumed' = consumed /\ exchanges' = exchanges /\ jar' = jar
    BY <1>7 DEF Web!RefreshAnswered
  <2>2. CASE operation.token \notin live
    <3>1. live' \subseteq live /\ issued' = issued /\ Web!Rejected(operation)
      BY <1>7, <2>2 DEF Web!RefreshAnswered
    <3> QED BY <1>5, <2>1, <3>1
  <2>3. CASE operation.token \in live
    <3> DEFINE s == issued[operation.token]
    <3>1. /\ issued' = Append(issued, s) /\ live' \subseteq live \union {Web!NextToken}
          /\ Web!Rotated(operation, Web!NextToken)
      BY <1>7, <2>3 DEF Web!RefreshAnswered, Web!Issue
    <3>2. s \in DOMAIN signIns BY <1>1, <2>3
    <3>3. ASSUME NEW t \in Web!Waiting(operation) PROVE BrowserOf[t] = signIns[s]
      <4>1. t \in Tabs /\ request[t].stage = "refresh" BY <3>3 DEF Web!Waiting
      <4>2. request[t].sent.refresh = operation.token
        <5>1. operation.key = Web!RefreshKey(operation.token) BY <1>1 DEF Web!AskedInv
        <5> QED BY <3>3, <5>1 DEF Web!Waiting, Web!RefreshKey
      <4>3. operation.token \in Web!Owned(BrowserOf[t])
        BY <1>3, <4>1, <4>2 DEF WebFit, Web!OpenRequests, Web!Cookies
      <4> QED BY <4>3 DEF Web!Owned
    <3> HIDE DEF s
    <3>4. request' = [u \in Tabs |-> request'[u]] BY <3>1 DEF Web!Rotated
    <3>5. \A t \in Tabs :
            \/ request'[t] = request[t]
            \/ /\ BrowserOf[t] = signIns[s]
               /\ \/ request'[t] = Web!Response(Web!SetSession(Web!NextToken))
                  \/ request'[t] = [request[t] EXCEPT !.stage = "retry",
                                                      !.set = Web!SetSession(Web!NextToken)]
      BY <3>1, <3>3 DEF Web!Rotated
    <3> QED BY <2>1, <3>1, <3>2, <3>4, <3>5, WebIssue
  <2> QED BY <2>2, <2>3
<1> QED BY <1>4, <1>6, <1>7

\* Every step keeps what browsers and tabs may hold.
LEMMA WebTypes ==
    ASSUME Web!SessionAssumption, Web!IndInv, [Web!Next]_(Web!vars)
    PROVE  Web!TypeOK' /\ Web!OwnershipInv'
<1>1. CASE UNCHANGED Web!vars
  BY <1>1 DEF Web!vars, Web!IndInv, Web!TypeOK, Web!OwnershipInv, Web!Owned, Web!Begun, Web!Cookies, Web!Settings, Web!OpenRequests
<1>2. CASE Web!Expire
  BY <1>2 DEF Web!Expire, Web!process, Web!IndInv, Web!TypeOK, Web!OwnershipInv, Web!Owned, Web!Begun, Web!Cookies, Web!Settings, Web!OpenRequests
<1> QED BY <1>1, <1>2, WebOneRequest, WebLogin, WebAnswers DEF Web!Next

\* A state is consumed before its code is sent, and never twice.
LEMMA WebConsumes ==
    ASSUME Web!SessionAssumption, Web!IndInv, [Web!Next]_(Web!vars)
    PROVE  Web!ConsumedInv'
<1>1. Web!ConsumedInv /\ Web!TypeOK BY DEF Web!IndInv
<1>2. CASE consumed' = consumed /\ exchanges' = exchanges BY <1>1, <1>2 DEF Web!ConsumedInv
<1>3. ASSUME NEW t \in Tabs, Web!Callback(t) PROVE Web!ConsumedInv'
  <2>1. PICK s \in DOMAIN signIns :
            IF Web!Consumable(Web!Jar(t).flow, s)
            THEN /\ consumed' = Append(Web!Pruned(consumed), s)
                 /\ \/ exchanges' = [exchanges EXCEPT ![s] = @ + 1]
                    \/ UNCHANGED exchanges
            ELSE UNCHANGED Web!process
    BY <1>3 DEF Web!Callback
  <2>2. CASE ~Web!Consumable(Web!Jar(t).flow, s) BY <1>2, <2>1, <2>2 DEF Web!process
  <2>3. CASE Web!Consumable(Web!Jar(t).flow, s)
    <3>1. consumed \in Seq(DOMAIN signIns) /\ exchanges \in [Web!SignIns -> Nat]
      BY <1>1 DEF Web!TypeOK
    <3>2. /\ consumed' = Append(consumed, s) /\ \A i \in DOMAIN consumed : consumed[i] # s
      BY <2>1, <2>3, WebRoom DEF Web!Consumable
    <3>3. /\ Len(consumed) \in Nat /\ Len(consumed) + 1 \in DOMAIN consumed'
          /\ consumed'[Len(consumed) + 1] = s /\ DOMAIN consumed \subseteq DOMAIN consumed'
          /\ \A i \in DOMAIN consumed : consumed'[i] = consumed[i]
          /\ DOMAIN consumed = 1 .. Len(consumed) /\ DOMAIN consumed' = 1 .. Len(consumed) + 1
      BY <3>1, <3>2, WebAppend
    <3>4. \A i \in DOMAIN consumed' : i \in DOMAIN consumed \/ i = Len(consumed) + 1 BY <3>3
    <3>5. \A i, j \in DOMAIN consumed' : consumed'[i] = consumed'[j] => i = j
      BY <1>1, <3>2, <3>3, <3>4 DEF Web!ConsumedInv
    <3>6. s \in Web!SignIns => exchanges[s] = 0 BY <1>1, <3>2 DEF Web!ConsumedInv
    <3>7. ASSUME NEW r \in Web!SignIns
          PROVE  \/ exchanges'[r] = 0
                 \/ exchanges'[r] = 1 /\ \E i \in DOMAIN consumed' : consumed'[i] = r
      <4>1. \/ exchanges[r] = 0
            \/ exchanges[r] = 1 /\ \E i \in DOMAIN consumed : consumed[i] = r
        BY <1>1 DEF Web!ConsumedInv
      <4>2. CASE r = s
        <5>1. exchanges'[r] = 0 \/ exchanges'[r] = 0 + 1 BY <2>1, <2>3, <3>1, <3>6, <4>2
        <5> QED BY <3>3, <4>2, <5>1
      <4>3. CASE r # s
        <5>1. exchanges'[r] = exchanges[r] BY <2>1, <2>3, <3>1, <4>3
        <5> QED BY <3>3, <4>1, <5>1
      <4> QED BY <4>2, <4>3
    <3> QED BY <3>5, <3>7 DEF Web!ConsumedInv
  <2> QED BY <2>2, <2>3
<1>4. CASE UNCHANGED Web!vars BY <1>2, <1>4 DEF Web!vars
<1> QED BY <1>2, <1>3, <1>4
        DEF Web!Next, Web!Login, Web!ExchangeAnswered, Web!ExchangeFails, Web!SessionStatus, Web!Proxy, Web!Forwarded, Web!Retried,
            Web!RetryFails, Web!Logout, Web!Receive, Web!Lose, Web!RefreshAnswered, Web!RefreshFails, Web!Expire, Web!process

\* The refreshes that are asked for are the ones remembered, and no waiting request is left
\* behind when one of them ends.
LEMMA WebRefreshes ==
    ASSUME Web!SessionAssumption, Web!IndInv, [Web!Next]_(Web!vars)
    PROVE  Web!AskedInv' /\ Web!RefreshesInFlight'
<1>1. /\ Web!AskedInv /\ Web!RefreshesInFlight
      /\ request \in [Tabs -> Web!OpenRequests(DOMAIN issued, DOMAIN signIns)]
  BY DEF Web!IndInv, Web!TypeOK
<1>2. ASSUME asked' = asked, inFlight' = inFlight,
             \A t \in Tabs : request'[t] = request[t] \/ request'[t].stage # "refresh"
      PROVE  Web!AskedInv' /\ Web!RefreshesInFlight'
  BY <1>1, <1>2 DEF Web!AskedInv, Web!RefreshesInFlight
<1>3. ASSUME NEW t \in Tabs, NEW r, request' = [request EXCEPT ![t] = r], r.stage # "refresh",
             asked' = asked, inFlight' = inFlight
      PROVE  Web!AskedInv' /\ Web!RefreshesInFlight'
  <2>1. \A u \in Tabs : request'[u] = request[u] \/ request'[u].stage # "refresh" BY <1>1, <1>3
  <2> QED BY <1>2, <1>3, <2>1
<1>4. \A set : Web!Response(set).stage = "answered" BY DEF Web!Response, Web!Idle
<1>5. ASSUME NEW t \in Tabs, NEW r, request' = [request EXCEPT ![t] = r],
             Web!StartRefresh(r.sent.refresh)
      PROVE  Web!AskedInv' /\ Web!RefreshesInFlight'
  <2> DEFINE token == r.sent.refresh
             op == [key |-> Web!RefreshKey(token), token |-> token]
  <2>0. request' = [request EXCEPT ![t] = r] BY <1>5
  <2>1. \A u \in Tabs : request'[u] = request[u] \/ (u = t /\ request'[u] = r)
    BY <1>1, <2>0
  <2>2. CASE Web!RefreshKey(token) \in inFlight
    <3>1. asked' = asked /\ inFlight' = inFlight BY <1>5, <2>2 DEF Web!StartRefresh
    <3>2. PICK o \in asked : o.key = Web!RefreshKey(token) BY <1>1, <2>2 DEF Web!RefreshesInFlight
    <3>3. o.token = token
      <4>1. o.key = Web!RefreshKey(o.token) BY <1>1 DEF Web!AskedInv
      <4> QED BY <3>2, <4>1 DEF Web!RefreshKey
    <3> HIDE DEF token
    <3>4. \A u \in Tabs : request'[u].stage = "refresh" =>
            \E operation \in asked : operation.token = request'[u].sent.refresh
      BY <1>1, <2>1, <3>3 DEF Web!RefreshesInFlight, token
    <3> QED BY <1>1, <3>1, <3>4 DEF Web!AskedInv, Web!RefreshesInFlight
  <2>3. CASE Web!RefreshKey(token) \notin inFlight
    <3>1. asked' = asked \union {op} /\ inFlight' = inFlight \union {Web!RefreshKey(token)}
      BY <1>5, <2>3 DEF Web!StartRefresh
    <3>2. op.key = Web!RefreshKey(token) /\ op.token = token
          /\ op = [key |-> Web!RefreshKey(op.token), token |-> op.token]
      OBVIOUS
    <3> HIDE DEF op
    <3>3. Web!AskedInv' BY <1>1, <3>1, <3>2 DEF Web!AskedInv
    <3>4. inFlight' = {operation.key : operation \in asked'}
      BY <1>1, <3>1, <3>2 DEF Web!RefreshesInFlight
    <3>5. \A u \in Tabs : request'[u].stage = "refresh" =>
            \E operation \in asked' : operation.token = request'[u].sent.refresh
      BY <1>1, <2>1, <3>1, <3>2 DEF Web!RefreshesInFlight
    <3> QED BY <3>3, <3>4, <3>5 DEF Web!RefreshesInFlight
  <2> QED BY <2>2, <2>3
<1>6. ASSUME NEW operation \in asked, asked' = asked \ {operation},
             inFlight' = inFlight \ {operation.key},
             \A t \in Tabs : IF t \in Web!Waiting(operation) THEN request'[t].stage # "refresh"
                             ELSE request'[t] = request[t]
      PROVE  Web!AskedInv' /\ Web!RefreshesInFlight'
  <2>1. \A o \in asked : o.key = operation.key <=> o = operation
    <3>1. \A o \in asked : o = [key |-> Web!RefreshKey(o.token), token |-> o.token]
      BY <1>1 DEF Web!AskedInv
    <3>2. ASSUME NEW o \in asked, o.key = operation.key PROVE o = operation
      <4>1. Web!RefreshKey(o.token) = Web!RefreshKey(operation.token)
        <5>1. o.key = Web!RefreshKey(o.token) /\ operation.key = Web!RefreshKey(operation.token)
          BY <3>1
        <5> QED BY <3>2, <5>1
      <4>2. o.token = operation.token BY <4>1 DEF Web!RefreshKey
      <4> QED BY <3>1, <4>2
    <3> QED BY <3>2
  <2>2. inFlight' = {o.key : o \in asked'} BY <1>1, <1>6, <2>1 DEF Web!RefreshesInFlight
  <2>3. ASSUME NEW u \in Tabs, request'[u].stage = "refresh"
        PROVE  \E o \in asked' : o.token = request'[u].sent.refresh
    <3>1. u \notin Web!Waiting(operation) /\ request'[u] = request[u] BY <1>6, <2>3
    <3>2. PICK o \in asked : o.token = request[u].sent.refresh
      BY <1>1, <2>3, <3>1 DEF Web!RefreshesInFlight
    <3>3. o # operation
      <4>1. operation.key = Web!RefreshKey(operation.token) BY <1>1 DEF Web!AskedInv
      <4> QED BY <2>3, <3>1, <3>2, <4>1 DEF Web!Waiting
    <3> QED BY <1>6, <3>1, <3>2, <3>3
  <2>4. Web!AskedInv' BY <1>1, <1>6 DEF Web!AskedInv
  <2> QED BY <2>2, <2>3, <2>4 DEF Web!RefreshesInFlight
<1>7. ASSUME NEW t \in Tabs, NEW set, Web!Answered(t, set), asked' = asked, inFlight' = inFlight
      PROVE  Web!AskedInv' /\ Web!RefreshesInFlight'
  BY <1>3, <1>4, <1>7 DEF Web!Answered
<1>8. ASSUME NEW t \in Tabs, Web!SessionStatus(t) PROVE Web!AskedInv' /\ Web!RefreshesInFlight'
  <2>1. CASE ~Web!Fresh(Web!Jar(t).access) /\ Web!Jar(t).refresh # NoCookie
    <3> DEFINE r == [kind |-> "session", stage |-> "refresh", sent |-> Web!Jar(t), set |-> Web!Keep]
    <3>1. request' = [request EXCEPT ![t] = r] /\ Web!StartRefresh(Web!Jar(t).refresh)
      BY <1>8, <2>1 DEF Web!SessionStatus, Web!Opened
    <3>2. r.sent.refresh = Web!Jar(t).refresh OBVIOUS
    <3> HIDE DEF r
    <3> QED BY <1>5, <3>1, <3>2
  <2>2. CASE ~(~Web!Fresh(Web!Jar(t).access) /\ Web!Jar(t).refresh # NoCookie)
    BY <1>7, <1>8, <2>2 DEF Web!SessionStatus, Web!OpenedAndAnswered
  <2> QED BY <2>1, <2>2
<1>9. ASSUME NEW t \in Tabs, Web!Forwarded(t) PROVE Web!AskedInv' /\ Web!RefreshesInFlight'
  <2>1. CASE Web!Fresh(request[t].sent.access) \/ request[t].sent.refresh = NoCookie
    BY <1>7, <1>9, <2>1 DEF Web!Forwarded
  <2>2. CASE ~(Web!Fresh(request[t].sent.access) \/ request[t].sent.refresh = NoCookie)
    <3> DEFINE r == [request[t] EXCEPT !.stage = "refresh"]
    <3>1. request' = [request EXCEPT ![t] = r] /\ Web!StartRefresh(request[t].sent.refresh)
      BY <1>1, <1>9, <2>2 DEF Web!Forwarded
    <3>2. r.sent.refresh = request[t].sent.refresh BY <1>1 DEF Web!OpenRequests
    <3> HIDE DEF r
    <3> QED BY <1>5, <3>1, <3>2
  <2> QED BY <2>1, <2>2
<1>10. ASSUME NEW t \in Tabs, NEW kind, NEW stage \in {"exchange", "forward"}, Web!Opened(t, kind, stage),
              asked' = asked, inFlight' = inFlight
       PROVE  Web!AskedInv' /\ Web!RefreshesInFlight'
  <2> DEFINE r == [kind |-> kind, stage |-> stage, sent |-> Web!Jar(t), set |-> Web!Keep]
  <2>1. request' = [request EXCEPT ![t] = r] /\ r.stage # "refresh" BY <1>10 DEF Web!Opened
  <2> HIDE DEF r
  <2> QED BY <1>3, <1>10, <2>1
<1>11. ASSUME NEW t \in Tabs, Web!Callback(t) PROVE Web!AskedInv' /\ Web!RefreshesInFlight'
  <2>1. asked' = asked /\ inFlight' = inFlight BY <1>11 DEF Web!Callback, Web!process
  <2>2. Web!Opened(t, "callback", "exchange") \/ Web!Answered(t, Web!ClearFlow)
    BY <1>11 DEF Web!Callback, Web!OpenedAndAnswered
  <2> QED BY <1>7, <1>10, <2>1, <2>2
<1>12. ASSUME NEW t \in Tabs, request' = [request EXCEPT ![t] = Web!Idle], asked' = asked,
              inFlight' = inFlight
       PROVE  Web!AskedInv' /\ Web!RefreshesInFlight'
  <2>1. Web!Idle.stage # "refresh" BY DEF Web!Idle
  <2> QED BY <1>3, <1>12, <2>1
<1>13. ASSUME NEW operation \in asked, Web!RefreshAnswered(operation) \/ Web!RefreshFails(operation)
       PROVE  Web!AskedInv' /\ Web!RefreshesInFlight'
  <2>1. asked' = asked \ {operation} /\ inFlight' = inFlight \ {operation.key}
    BY <1>13 DEF Web!RefreshAnswered, Web!RefreshFails, Web!Forgotten
  <2>2. ASSUME Web!Rejected(operation), NEW t \in Tabs
        PROVE  IF t \in Web!Waiting(operation) THEN request'[t].stage # "refresh"
               ELSE request'[t] = request[t]
    BY <1>4, <2>2 DEF Web!Rejected
  <2>3. ASSUME NEW g, Web!Rotated(operation, g), NEW t \in Tabs
        PROVE  IF t \in Web!Waiting(operation) THEN request'[t].stage # "refresh"
               ELSE request'[t] = request[t]
    <3>1. [request[t] EXCEPT !.stage = "retry", !.set = Web!SetSession(g)].stage = "retry"
      BY <1>1 DEF Web!OpenRequests
    <3> QED BY <1>4, <2>3, <3>1 DEF Web!Rotated
  <2>4. Web!Rejected(operation) \/ Web!Rotated(operation, Web!NextToken)
    BY <1>13 DEF Web!RefreshAnswered, Web!RefreshFails
  <2> QED BY <1>6, <2>1, <2>2, <2>3, <2>4
<1>14. CASE UNCHANGED Web!vars BY <1>2, <1>14 DEF Web!vars
<1>15. CASE Web!Expire BY <1>2, <1>15 DEF Web!Expire, Web!process
<1> QED BY <1>7, <1>8, <1>9, <1>10, <1>11, <1>12, <1>13, <1>14, <1>15
        DEF Web!Next, Web!Login, Web!ExchangeAnswered, Web!ExchangeFails, Web!Proxy, Web!Retried, Web!RetryFails, Web!Logout,
            Web!Receive, Web!Lose, Web!OpenedAndAnswered, Web!process

\* The invariant holds before anybody signs in.
LEMMA WebStarts == ASSUME Web!SessionAssumption, Web!Init PROVE Web!IndInv
<1>1. /\ signIns = <<>> /\ issued = <<>> /\ live = {} /\ consumed = <<>> /\ inFlight = {}
      /\ asked = {} /\ exchanges = [s \in Web!SignIns |-> 0] /\ jar = [b \in Web!Browsers |-> Web!NoCookies]
      /\ request = [t \in Tabs |-> Web!Idle]
  BY DEF Web!Init
<1>2. \A G, S : Web!NoCookies \in Web!Cookies(G, S) BY DEF Web!NoCookies, Web!Cookies
<1>3. \A G, S : Web!Keep \in Web!Settings(G, S) BY DEF Web!Keep, Web!Settings
<1>4. \A G, S : Web!Idle \in Web!OpenRequests(G, S) BY <1>2, <1>3 DEF Web!Idle, Web!OpenRequests
<1>5. Web!Idle.stage = "idle" BY DEF Web!Idle
<1>6. Web!TypeOK BY <1>1, <1>2, <1>4 DEF Web!TypeOK, Web!SessionAssumption
<1>7. Web!OwnershipInv BY <1>1, <1>2, <1>4, <1>5 DEF Web!OwnershipInv
<1>8. Web!ConsumedInv BY <1>1 DEF Web!ConsumedInv
<1>9. Web!AskedInv /\ Web!RefreshesInFlight BY <1>1, <1>5 DEF Web!AskedInv, Web!RefreshesInFlight
<1> QED BY <1>6, <1>7, <1>8, <1>9 DEF Web!IndInv

\* The web tier's sessions, of any number of browsers, tabs and tokens.
THEOREM SessionInvariance == Web!SessionAssumption => (Web!Spec => []Web!IndInv)
<1> SUFFICES ASSUME Web!SessionAssumption PROVE Web!Spec => []Web!IndInv OBVIOUS
<1>1. Web!Init => Web!IndInv BY WebStarts
<1>2. Web!IndInv /\ [Web!Next]_(Web!vars) => Web!IndInv'
  BY WebTypes, WebConsumes, WebRefreshes DEF Web!IndInv
<1> QED BY <1>1, <1>2, PTL DEF Web!Spec

\* Tokens reach only the browser that began their sign-in, a code is exchanged at most once
\* (consumeAuthorizationFlow), and refreshesInFlight names exactly the refreshes in flight, for
\* any number of browsers, tabs and token pairs, as long as fewer sign-ins are begun than
\* consumedStates holds.
THEOREM SessionSafety == Web!SessionAssumption => (Web!Spec => []Web!SessionsAreSafe)
<1> SUFFICES ASSUME Web!SessionAssumption PROVE Web!Spec => []Web!SessionsAreSafe OBVIOUS
<1>1. Web!Spec => []Web!IndInv BY SessionInvariance
<1>2. ASSUME Web!IndInv PROVE Web!SessionsAreSafe
  <2>1. Web!SessionsStayApart
    <3> SUFFICES ASSUME NEW b \in Web!Browsers, NEW g \in {jar[b].access, jar[b].refresh} \ {NoCookie}
                 PROVE  signIns[issued[g]] = b
      BY DEF Web!SessionsStayApart
    <3>1. jar[b] \in Web!Cookies(Web!Owned(b), Web!Begun(b))
      BY <1>2 DEF Web!IndInv, Web!OwnershipInv
    <3>2. g \in Web!Owned(b) BY <3>1 DEF Web!Cookies
    <3> QED BY <3>2 DEF Web!Owned
  <2>2. Web!EachSignInExchangedOnce
    BY <1>2 DEF Web!IndInv, Web!ConsumedInv, Web!EachSignInExchangedOnce
  <2> QED BY <1>2, <2>1, <2>2 DEF Web!IndInv, Web!SessionsAreSafe
<1> QED BY <1>1, <1>2, PTL

-----------------------------------------------------------------------------
(* Shares. *)

(* Lemmas *)

\* One row is rewritten: its source and its key stay, its version does not fall, and while it
\* is active its secret is that of its epoch.
ShareRewrites(s, row) ==
    /\ Share!Exists(s) /\ row \in Share!Rows /\ shares' = [shares EXCEPT ![s] = row]
    /\ row.source = shares[s].source /\ row.key = shares[s].key
    /\ row.version >= shares[s].version
    /\ row.status = "active" => row.secret.epoch = row.epoch

\* What a recorded command adds to the journal.
LEMMA ShareRecording ==
    ASSUME NEW o, NEW s, NEW e, NEW r, Share!Record(o, s, e, r)
    PROVE  /\ DOMAIN journal' = DOMAIN journal \cup {o}
           /\ journal'[o].share = s /\ journal'[o].request = r
           /\ \A p \in DOMAIN journal : p # o => journal'[p] = journal[p]
BY DEF Share!Record

\* What does not depend on the journal and on the guesses survives a rewritten row.
LEMMA ShareRewriting ==
    ASSUME Share!ShareAssumption, Share!IndInv, NEW s \in Shares, NEW row, ShareRewrites(s, row)
    PROVE  /\ shares' \in [Shares -> Share!Rows \cup {None}]
           /\ \A t \in Shares : Share!Active(t)' => shares'[t].secret.epoch = shares'[t].epoch
           /\ \A t \in Shares : Share!Exists(t)' <=> Share!Exists(t)
           /\ \A t \in Shares : Share!Exists(t) => /\ shares'[t].source = shares[t].source
                                                   /\ shares'[t].key = shares[t].key
                                                   /\ shares'[t].version >= shares[t].version
           /\ shares'[s] = row /\ \A t \in Shares \ {s} : shares'[t] = shares[t]
<1>1. /\ shares \in [Shares -> Share!Rows \cup {None}] /\ None \notin Share!Rows
      /\ \A t \in Shares : Share!Active(t) => shares[t].secret.epoch = shares[t].epoch
  BY DEF Share!IndInv, Share!TypeOK, Share!CapabilityInv, Share!ShareAssumption
<1>2. shares'[s] = row /\ row # None /\ \A t \in Shares \ {s} : shares'[t] = shares[t]
  BY <1>1 DEF ShareRewrites
<1>3. \A t \in Shares : Share!Exists(t) => shares[t].version >= shares[t].version
  BY <1>1 DEF Share!Exists, Share!Rows
<1> QED BY <1>1, <1>2, <1>3 DEF ShareRewrites, Share!Exists, Share!Active

\* The keys of the shares stay reserved when a row is rewritten and at most a change is
\* recorded.
LEMMA KeysStay ==
    ASSUME Share!ShareAssumption, Share!IndInv, NEW s \in Shares, NEW row, ShareRewrites(s, row),
           \/ UNCHANGED journal
           \/ \E o, e, r : o.op # "create" /\ Share!Record(o, s, e, r)
    PROVE  Share!KeyInv'
<1>1. ASSUME NEW t \in Shares, Share!Exists(t)'
      PROVE  /\ Share!Reserved(shares[t].key)' /\ shares'[t].key = shares[t].key
             /\ journal'[Share!Command("create", None, shares[t].key)].share = t
  <2> DEFINE o == Share!Command("create", None, shares[t].key)
  <2>1. Share!Exists(t) /\ shares'[t].key = shares[t].key BY <1>1, ShareRewriting
  <2>2. o \in DOMAIN journal /\ journal[o].share = t
    BY <2>1 DEF Share!IndInv, Share!KeyInv, Share!Reserved
  <2>3. o.op = "create" BY DEF Share!Command
  <2> HIDE DEF o
  <2>4. o \in DOMAIN journal' /\ journal'[o] = journal[o] BY <2>2, <2>3, ShareRecording
  <2> QED BY <2>1, <2>2, <2>4 DEF o, Share!Reserved
<1> QED BY <1>1 DEF Share!KeyInv, Share!Reserved

\* The guesses are counted in the row that is rewritten, and other rows keep their count.
LEMMA GuessesStay ==
    ASSUME Share!ShareAssumption, Share!IndInv, NEW s \in Shares, NEW row, ShareRewrites(s, row),
           guessed' \in [Shares -> Nat], \A t \in Shares \ {s} : guessed'[t] = guessed[t],
           IF row.window THEN /\ guessed'[s] = row.failed /\ row.failed <= MaxAttempts
                              /\ row.failed = MaxAttempts => row.blocked
                         ELSE guessed'[s] = 0
    PROVE  Share!GuessInv'
<1>1. ASSUME NEW t \in Shares
      PROVE  IF Share!Exists(t)' /\ shares'[t].window
             THEN /\ guessed'[t] = shares'[t].failed /\ shares'[t].failed <= MaxAttempts
                  /\ shares'[t].failed = MaxAttempts => shares'[t].blocked
             ELSE guessed'[t] = 0
  <2>1. CASE t = s BY <2>1, ShareRewriting DEF ShareRewrites
  <2>2. CASE t # s BY <2>2, ShareRewriting DEF Share!IndInv, Share!GuessInv
  <2> QED BY <2>1, <2>2
<1> QED BY <1>1 DEF Share!GuessInv

\* A rewritten row without a record in the journal leaves the recorded changes behind as
\* before.
LEMMA VersionsStay ==
    ASSUME Share!ShareAssumption, Share!IndInv, NEW s \in Shares, NEW row, ShareRewrites(s, row), UNCHANGED journal
    PROVE  Share!VersionInv' /\ Share!ChangesFollowVersions'
<1>1. Share!ChangesFollowVersions' BY DEF Share!IndInv, Share!ChangesFollowVersions
<1>2. ASSUME NEW o \in DOMAIN journal, o.op \in {"rotate", "revoke"}
      PROVE  /\ o.share \in Shares /\ Share!Exists(o.share)' /\ journal[o].request \in Nat
             /\ journal[o].request < shares'[o.share].version
  <2>1. /\ o.share \in Shares /\ Share!Exists(o.share)
        /\ journal[o].request \in Nat /\ journal[o].request < shares[o.share].version
    BY <1>2 DEF Share!IndInv, Share!VersionInv
  <2>2. Share!Exists(o.share)' /\ shares'[o.share].version >= shares[o.share].version
    BY <2>1, ShareRewriting
  <2>3. shares'[o.share].version \in Nat /\ shares[o.share].version \in Nat
    BY <2>1, <2>2, ShareRewriting DEF Share!IndInv, Share!TypeOK, Share!Rows, Share!Exists
  <2> QED BY <2>1, <2>2, <2>3
<1> QED BY <1>1, <1>2 DEF Share!VersionInv

\* A change at the share's current version is recorded once, and leaves that version behind.
LEMMA VersionsGrow ==
    ASSUME Share!ShareAssumption, Share!IndInv, NEW s \in Shares, NEW row, ShareRewrites(s, row),
           NEW op, NEW key, NEW e,
           Share!Command(op, s, key) \notin DOMAIN journal,
           row.version > shares[s].version,
           Share!Record(Share!Command(op, s, key), s, e, shares[s].version)
    PROVE  Share!VersionInv' /\ Share!ChangesFollowVersions'
<1> DEFINE n == Share!Command(op, s, key)
<1>1. /\ DOMAIN journal' = DOMAIN journal \cup {n}
      /\ journal'[n].request = shares[s].version
      /\ \A p \in DOMAIN journal : journal'[p] = journal[p]
  BY ShareRecording
<1>2. n.share = s BY DEF Share!Command
<1> HIDE DEF n
<1>3. ASSUME NEW o \in DOMAIN journal, o.op \in {"rotate", "revoke"}
      PROVE  /\ o.share \in Shares /\ Share!Exists(o.share) /\ Share!Exists(o.share)'
             /\ journal[o].request \in Nat
             /\ journal[o].request < shares[o.share].version
             /\ journal[o].request < shares'[o.share].version
  <2>1. /\ o.share \in Shares /\ Share!Exists(o.share)
        /\ journal[o].request \in Nat /\ journal[o].request < shares[o.share].version
    BY <1>3 DEF Share!IndInv, Share!VersionInv
  <2>2. Share!Exists(o.share)' /\ shares'[o.share].version >= shares[o.share].version
    BY <2>1, ShareRewriting
  <2>3. shares'[o.share].version \in Nat /\ shares[o.share].version \in Nat
    BY <2>1, <2>2, ShareRewriting DEF Share!IndInv, Share!TypeOK, Share!Rows, Share!Exists
  <2> QED BY <2>1, <2>2, <2>3
<1>4. /\ Share!Exists(s)' /\ shares[s].version \in Nat
      /\ shares[s].version < shares'[s].version
  <2>1. shares[s].version \in Nat /\ row.version \in Nat
    BY DEF Share!IndInv, Share!TypeOK, Share!Rows, Share!Exists, ShareRewrites
  <2> QED BY <2>1, ShareRewriting DEF ShareRewrites
<1>5. Share!VersionInv' BY <1>1, <1>2, <1>3, <1>4 DEF Share!VersionInv
<1>6. Share!ChangesFollowVersions'
  <2> SUFFICES ASSUME NEW o \in DOMAIN journal', NEW p \in DOMAIN journal', o # p,
                      o.op \in {"rotate", "revoke"}, p.op \in {"rotate", "revoke"},
                      o.share = p.share
               PROVE  journal'[o].request # journal'[p].request
    BY DEF Share!ChangesFollowVersions
  <2>1. CASE o = n BY <1>1, <1>2, <1>3, <1>4, <2>1
  <2>2. CASE p = n BY <1>1, <1>2, <1>3, <1>4, <2>2
  <2>3. CASE o # n /\ p # n
    <3>1. o \in DOMAIN journal /\ p \in DOMAIN journal BY <1>1, <2>3
    <3>2. {o.op, p.op} \subseteq {"rotate", "revoke"} OBVIOUS
    <3> QED BY <1>1, <3>1, <3>2 DEF Share!IndInv, Share!ChangesFollowVersions
  <2> QED BY <2>1, <2>2, <2>3
<1> QED BY <1>5, <1>6

-----------------------------------------------------------------------------
(* Share!Rows *)

\* A rotation rewrites one row: a later version, the next epoch and that epoch's secret.
LEMMA RotatedRow ==
    ASSUME Share!ShareAssumption, Share!IndInv, NEW s \in Shares, NEW key \in ChangeKeys, NEW v, Share!Rotate(s, key, v)
    PROVE  /\ ShareRewrites(s, Share!Rotated(s, key)) /\ ~Share!Rotated(s, key).window
           /\ Share!Rotated(s, key).version > shares[s].version
<1> DEFINE row == Share!Rotated(s, key)
           old == shares[s]
           secret == Share!Secret("rotate", key, s, old.epoch + 1)
<1>1. Share!Exists(s) /\ old \in Share!Rows
  BY DEF Share!Rotate, Share!Exists, Share!IndInv, Share!TypeOK
<1>2. /\ old.version \in Nat /\ old.epoch \in Nat
      /\ old.version + 1 \in Nat /\ old.epoch + 1 \in Nat
  BY <1>1 DEF Share!Rows
<1>3. secret \in Share!Secrets /\ secret.epoch = old.epoch + 1
  BY <1>2 DEF Share!Secret, Share!Secrets
<1>4. row = [old EXCEPT !.version = @ + 1, !.epoch = @ + 1, !.secret = secret,
                        !.failed = 0, !.window = FALSE, !.blocked = FALSE]
  BY DEF Share!Rotated
<1>5. shares' = [shares EXCEPT ![s] = row] BY DEF Share!Rotate
<1> HIDE DEF row, old, secret
<1>6. row \in Share!Rows BY <1>1, <1>2, <1>3, <1>4 DEF Share!Rows
<1>7. /\ row.version = old.version + 1 /\ row.epoch = old.epoch + 1
      /\ row.secret = secret /\ row.window = FALSE
      /\ row.source = old.source /\ row.key = old.key
  BY <1>1, <1>4 DEF Share!Rows
<1>8. row.version > old.version /\ row.version >= old.version BY <1>2, <1>7
<1> QED BY <1>1, <1>3, <1>5, <1>6, <1>7, <1>8 DEF ShareRewrites, row, old

\* A revocation rewrites one row to a later version and keeps what it counts.
LEMMA RevokedRow ==
    ASSUME Share!ShareAssumption, Share!IndInv, NEW s \in Shares, NEW key, NEW v, Share!Revoke(s, key, v)
    PROVE  \E row : /\ ShareRewrites(s, row) /\ row.version > shares[s].version
                    /\ row.window = shares[s].window /\ row.failed = shares[s].failed
                    /\ row.blocked = shares[s].blocked
<1> DEFINE old == shares[s]
           row == [old EXCEPT !.status = "revoked", !.version = @ + 1, !.epoch = @ + 1]
<1>1. Share!Exists(s) /\ old \in Share!Rows
  BY DEF Share!Revoke, Share!Exists, Share!IndInv, Share!TypeOK
<1>2. /\ old.version \in Nat /\ old.epoch \in Nat
      /\ old.version + 1 \in Nat /\ old.epoch + 1 \in Nat
  BY <1>1 DEF Share!Rows
<1>3. shares' = [shares EXCEPT ![s] = row] BY DEF Share!Revoke
<1>4. row \in Share!Rows BY <1>1, <1>2 DEF Share!Rows
<1>5. /\ row.version = old.version + 1 /\ row.status = "revoked"
      /\ row.source = old.source /\ row.key = old.key /\ row.window = old.window
      /\ row.failed = old.failed /\ row.blocked = old.blocked
  BY <1>1 DEF Share!Rows
<1>6. row.version > old.version /\ row.version >= old.version BY <1>2, <1>5
<1> HIDE DEF row
<1> QED BY <1>1, <1>3, <1>4, <1>5, <1>6 DEF ShareRewrites

\* A failure, a success or the time that passes changes what the row counts, and no more.
ShareCounts(s, n, w, b) ==
    shares' = [shares EXCEPT ![s].failed = n, ![s].window = w, ![s].blocked = b]

LEMMA CountedRow ==
    ASSUME Share!ShareAssumption, Share!IndInv, NEW s \in Shares, Share!Exists(s),
           NEW n \in Nat, NEW w \in BOOLEAN, NEW b \in BOOLEAN, ShareCounts(s, n, w, b)
    PROVE  \E row : ShareRewrites(s, row) /\ row.failed = n /\ row.window = w /\ row.blocked = b
<1> DEFINE old == shares[s]
           row == [old EXCEPT !.failed = n, !.window = w, !.blocked = b]
<1>1. old \in Share!Rows BY DEF Share!Exists, Share!IndInv, Share!TypeOK
<1>2. shares' = [shares EXCEPT ![s] = row] BY DEF ShareCounts
<1>3. /\ row \in Share!Rows /\ row.version = old.version /\ row.status = old.status
      /\ row.source = old.source /\ row.key = old.key /\ row.failed = n /\ row.window = w
      /\ row.blocked = b /\ row.epoch = old.epoch /\ row.secret = old.secret
  BY <1>1 DEF Share!Rows
<1>4. row.version >= old.version BY <1>1, <1>3 DEF Share!Rows
<1>5. row.status = "active" => row.secret.epoch = row.epoch
  BY <1>1, <1>3 DEF Share!IndInv, Share!CapabilityInv, Share!Active, Share!Exists
<1> HIDE DEF row
<1> QED BY <1>2, <1>3, <1>4, <1>5 DEF ShareRewrites

-----------------------------------------------------------------------------
(* ShareChanges *)

\* Everything but the invariants about the step's own variables follows when a row is
\* rewritten and nothing is shown.
LEMMA ShareSteps ==
    ASSUME Share!ShareAssumption, Share!IndInv, NEW s \in Shares, NEW row, ShareRewrites(s, row),
           UNCHANGED <<pointer, plans, creating>>, shown' = None,
           sessions' \subseteq Share!Sessions, \A x \in sessions' : x.secret.epoch = x.epoch,
           guessed' \in [Shares -> Nat]
    PROVE  Share!TypeOK' /\ Share!CapabilityInv' /\ Share!OldCapabilitiesDie'
<1>1. Share!TypeOK' BY ShareRewriting DEF Share!IndInv, Share!TypeOK
<1>2. Share!CapabilityInv' BY ShareRewriting DEF Share!CapabilityInv
<1> QED BY <1>1, <1>2 DEF Share!OldCapabilitiesDie

\* A step that leaves shares, journal and guesses alone.
LEMMA OtherSteps ==
    ASSUME Share!ShareAssumption, Share!IndInv, UNCHANGED <<shares, journal, guessed>>
    PROVE  Share!KeyInv' /\ Share!VersionInv' /\ Share!GuessInv' /\ Share!ChangesFollowVersions'
BY DEF Share!IndInv, Share!KeyInv, Share!VersionInv, Share!GuessInv, Share!ChangesFollowVersions, Share!Exists, Share!Reserved

\* The share that is made: its key was free, and is reserved from then on.
LEMMA ShareCreating ==
    ASSUME Share!ShareAssumption, Share!IndInv, NEW c \in Creators, NEW key \in CreateKeys,
           Share!CreateShare(c, key)
    PROVE  Share!IndInv'
<1> DEFINE sourced == creating[c]
           id   == CHOOSE s \in Shares : ~Share!Exists(s)
           row  == Share!Row(key, id, sourced)
           o    == Share!Command("create", None, key)
<1>1. /\ UNCHANGED <<pointer, plans, sessions, guessed>> /\ shown' = None
      /\ creating' = [creating EXCEPT ![c] = NoPlan]
  BY DEF Share!CreateShare
<1>2. creating' \in [Creators -> Share!Plans] /\ sourced \in Share!Plans
  BY <1>1 DEF Share!IndInv, Share!TypeOK, Share!Plans
<1>3. CASE UNCHANGED <<shares, journal>>
  <2>1. Share!TypeOK' /\ Share!CapabilityInv' /\ Share!OldCapabilitiesDie'
    BY <1>1, <1>2, <1>3 DEF Share!IndInv, Share!TypeOK, Share!CapabilityInv, Share!OldCapabilitiesDie, Share!Active, Share!Exists
  <2> QED BY <1>1, <1>3, <2>1, OtherSteps DEF Share!IndInv
<1>4. CASE /\ ~Share!Reserved(key) /\ \E s \in Shares : ~Share!Exists(s)
           /\ shares' = [shares EXCEPT ![id] = row]
           /\ Share!Record(o, id, 1, sourced)
  <2>1. id \in Shares /\ ~Share!Exists(id) BY <1>4
  <2>2. o \notin DOMAIN journal /\ o.op = "create" BY <1>4 DEF Share!Reserved, Share!Command
  <2>3. /\ DOMAIN journal' = DOMAIN journal \cup {o} /\ journal'[o].share = id
        /\ \A p \in DOMAIN journal : journal'[p] = journal[p]
    BY <1>4, <2>2, ShareRecording
  <2> HIDE DEF id, sourced
  <2>4. Share!Secret("create", key, id, 1) \in Share!Secrets /\ Share!Secret("create", key, id, 1).epoch = 1
    BY <2>1 DEF Share!Secret, Share!Secrets
  <2>5. /\ row \in Share!Rows /\ row.epoch = 1 /\ row.secret.epoch = 1 /\ row.key = key
        /\ row.window = FALSE
    BY <1>2, <2>1, <2>4 DEF Share!Row, Share!Rows
  <2> HIDE DEF row
  <2>6. /\ shares \in [Shares -> Share!Rows \cup {None}] /\ None \notin Share!Rows
        /\ shares'[id] = row /\ \A t \in Shares \ {id} : shares'[t] = shares[t]
    BY <1>4, <2>1 DEF Share!IndInv, Share!TypeOK, Share!ShareAssumption
  <2>7. Share!TypeOK' BY <1>1, <1>2, <1>4, <2>5 DEF Share!IndInv, Share!TypeOK
  <2>8. Share!CapabilityInv' /\ Share!OldCapabilitiesDie'
    BY <1>1, <2>5, <2>6 DEF Share!IndInv, Share!CapabilityInv, Share!OldCapabilitiesDie, Share!Active, Share!Exists
  <2>9. Share!KeyInv'
    <3> SUFFICES ASSUME NEW t \in Shares, Share!Exists(t)'
                 PROVE  /\ Share!Command("create", None, shares'[t].key) \in DOMAIN journal'
                        /\ journal'[Share!Command("create", None, shares'[t].key)].share = t
      BY DEF Share!KeyInv, Share!Reserved
    <3>1. CASE t = id BY <2>3, <2>5, <2>6, <3>1 DEF Share!Reserved
    <3>2. CASE t # id
      <4>1. Share!Exists(t) /\ shares'[t].key = shares[t].key BY <2>6, <3>2 DEF Share!Exists
      <4> QED BY <2>3, <4>1 DEF Share!IndInv, Share!KeyInv, Share!Reserved
    <3> QED BY <3>1, <3>2
  <2> HIDE DEF o
  <2>10. Share!VersionInv' /\ Share!ChangesFollowVersions'
    <3>1. Share!VersionInv'
      BY <2>1, <2>2, <2>3, <2>6 DEF Share!IndInv, Share!VersionInv, Share!Exists
    <3>2. ASSUME NEW p \in DOMAIN journal', NEW q \in DOMAIN journal',
                 {p.op, q.op} \subseteq {"rotate", "revoke"}
          PROVE  p \in DOMAIN journal /\ q \in DOMAIN journal
      BY <2>2, <2>3, <3>2
    <3> QED BY <2>3, <3>1, <3>2 DEF Share!IndInv, Share!ChangesFollowVersions
  <2>11. Share!GuessInv'
    BY <1>1, <2>1, <2>5, <2>6 DEF Share!IndInv, Share!GuessInv, Share!Exists
  <2> QED BY <2>7, <2>8, <2>9, <2>10, <2>11 DEF Share!IndInv
<1> QED BY <1>3, <1>4 DEF Share!CreateShare

\* The invariant survives every step.
LEMMA ShareChanges ==
    ASSUME Share!ShareAssumption, Share!IndInv, [Share!Next]_(Share!vars)
    PROVE  Share!IndInv'
<1>1. CASE Share!PublishPlan \/ Share!WithdrawPlan
  <2>1. Share!TypeOK'
    BY <1>1 DEF Share!PublishPlan, Share!WithdrawPlan, Share!IndInv, Share!TypeOK, Share!Plans
  <2>2. Share!CapabilityInv' /\ Share!OldCapabilitiesDie'
    BY <1>1 DEF Share!PublishPlan, Share!WithdrawPlan, Share!IndInv, Share!CapabilityInv, Share!OldCapabilitiesDie, Share!Active,
                Share!Exists
  <2> QED BY <1>1, <2>1, <2>2, OtherSteps DEF Share!PublishPlan, Share!WithdrawPlan, Share!IndInv
<1>2. ASSUME NEW c \in Creators, Share!ReadSource(c) PROVE Share!IndInv'
  <2>1. Share!TypeOK' BY <1>2 DEF Share!ReadSource, Share!IndInv, Share!TypeOK
  <2>2. Share!CapabilityInv' /\ Share!OldCapabilitiesDie'
    BY <1>2 DEF Share!ReadSource, Share!IndInv, Share!CapabilityInv, Share!OldCapabilitiesDie, Share!Active, Share!Exists
  <2> QED BY <1>2, <2>1, <2>2, OtherSteps DEF Share!ReadSource, Share!IndInv
<1>3. ASSUME NEW s \in Shares, NEW key \in ChangeKeys, NEW v, Share!Rotate(s, key, v) PROVE Share!IndInv'
  <2> DEFINE row == Share!Rotated(s, key)
  <2>1. ShareRewrites(s, row) /\ ~row.window /\ row.version > shares[s].version
    BY <1>3, RotatedRow
  <2> HIDE DEF row
  <2>2. /\ Share!Command("rotate", s, key) \notin DOMAIN journal /\ v = shares[s].version
        /\ Share!Record(Share!Command("rotate", s, key), s, shares[s].epoch + 1, v)
        /\ UNCHANGED <<pointer, plans, creating>> /\ shown' = None
        /\ sessions' \subseteq sessions /\ guessed' = [guessed EXCEPT ![s] = 0]
    BY <1>3 DEF Share!Rotate, Share!MayChange
  <2>3. guessed' \in [Shares -> Nat] /\ guessed'[s] = 0
        /\ \A t \in Shares \ {s} : guessed'[t] = guessed[t]
    BY <2>2 DEF Share!IndInv, Share!TypeOK
  <2>4. Share!TypeOK' /\ Share!CapabilityInv' /\ Share!OldCapabilitiesDie'
    BY <2>1, <2>2, <2>3, ShareSteps DEF Share!IndInv, Share!TypeOK, Share!CapabilityInv
  <2>5. Share!VersionInv' /\ Share!ChangesFollowVersions' BY <2>1, <2>2, VersionsGrow
  <2>6. Share!KeyInv'
    <3>1. Share!Command("rotate", s, key).op # "create" BY DEF Share!Command
    <3> QED BY <2>1, <2>2, <3>1, KeysStay
  <2>7. Share!GuessInv' BY <2>1, <2>3, GuessesStay
  <2> QED BY <2>4, <2>5, <2>6, <2>7 DEF Share!IndInv
<1>4. ASSUME NEW s \in Shares, NEW key \in ChangeKeys, NEW v, Share!Revoke(s, key, v) PROVE Share!IndInv'
  <2>1. PICK row : /\ ShareRewrites(s, row) /\ row.version > shares[s].version
                   /\ row.window = shares[s].window /\ row.failed = shares[s].failed
                   /\ row.blocked = shares[s].blocked
    BY <1>4, RevokedRow
  <2>2. /\ Share!Command("revoke", s, key) \notin DOMAIN journal /\ v = shares[s].version
        /\ Share!Record(Share!Command("revoke", s, key), s, shares[s].epoch + 1, v)
        /\ UNCHANGED <<pointer, plans, creating, guessed>> /\ shown' = None
        /\ sessions' \subseteq sessions /\ Share!Exists(s)
    BY <1>4 DEF Share!Revoke, Share!MayChange
  <2>3. guessed' \in [Shares -> Nat] /\ \A t \in Shares : guessed'[t] = guessed[t]
    BY <2>2 DEF Share!IndInv, Share!TypeOK
  <2>4. Share!TypeOK' /\ Share!CapabilityInv' /\ Share!OldCapabilitiesDie'
    BY <2>1, <2>2, <2>3, ShareSteps DEF Share!IndInv, Share!TypeOK, Share!CapabilityInv
  <2>5. Share!VersionInv' /\ Share!ChangesFollowVersions' BY <2>1, <2>2, VersionsGrow
  <2>6. Share!KeyInv'
    <3>1. Share!Command("revoke", s, key).op # "create" BY DEF Share!Command
    <3> QED BY <2>1, <2>2, <3>1, KeysStay
  <2>7. Share!GuessInv'
    <3>1. IF row.window THEN /\ guessed'[s] = row.failed /\ row.failed <= MaxAttempts
                             /\ row.failed = MaxAttempts => row.blocked
                        ELSE guessed'[s] = 0
      BY <2>1, <2>2, <2>3 DEF Share!IndInv, Share!GuessInv
    <3> QED BY <2>1, <2>3, <3>1, GuessesStay
  <2> QED BY <2>4, <2>5, <2>6, <2>7 DEF Share!IndInv
<1>5. ASSUME NEW s \in Shares, NEW n \in Nat, NEW w \in BOOLEAN, NEW b \in BOOLEAN,
             Share!Exists(s), UNCHANGED <<pointer, plans, creating, journal>>, shown' = None,
             sessions' \subseteq Share!Sessions, \A x \in sessions' : x.secret.epoch = x.epoch,
             ShareCounts(s, n, w, b),
             guessed' = [guessed EXCEPT ![s] = IF w THEN n ELSE 0],
             w => n <= MaxAttempts /\ (n = MaxAttempts => b)
      PROVE  Share!IndInv'
  <2>0. Share!Exists(s) /\ ShareCounts(s, n, w, b) BY <1>5
  <2>1. PICK row : ShareRewrites(s, row) /\ row.failed = n /\ row.window = w /\ row.blocked = b
    BY <2>0, CountedRow
  <2>2. /\ guessed' \in [Shares -> Nat] /\ guessed'[s] = IF w THEN n ELSE 0
        /\ \A t \in Shares \ {s} : guessed'[t] = guessed[t]
    BY <1>5 DEF Share!IndInv, Share!TypeOK
  <2>3. Share!TypeOK' /\ Share!CapabilityInv' /\ Share!OldCapabilitiesDie'
    BY <1>5, <2>1, <2>2, ShareSteps
  <2>4. Share!VersionInv' /\ Share!ChangesFollowVersions' BY <1>5, <2>1, VersionsStay
  <2>5. Share!KeyInv' BY <1>5, <2>1, KeysStay
  <2>6. Share!GuessInv' BY <1>5, <2>1, <2>2, GuessesStay
  <2> QED BY <2>3, <2>4, <2>5, <2>6 DEF Share!IndInv
<1>6. ASSUME NEW s \in Shares, Share!Exists(s)
      PROVE  /\ shares[s] \in Share!Rows /\ shares[s].failed \in Nat /\ shares[s].window \in BOOLEAN
             /\ shares[s].blocked \in BOOLEAN
             /\ shares[s].window => /\ guessed[s] = shares[s].failed
                                    /\ shares[s].failed <= MaxAttempts
                                    /\ shares[s].failed = MaxAttempts => shares[s].blocked
             /\ ~shares[s].window => guessed[s] = 0
  BY <1>6 DEF Share!Exists, Share!IndInv, Share!TypeOK, Share!Rows, Share!GuessInv
<1>7. /\ sessions \subseteq Share!Sessions /\ \A x \in sessions : x.secret.epoch = x.epoch
      /\ MaxAttempts \in Nat \ {0} /\ shares \in [Shares -> Share!Rows \cup {None}]
      /\ guessed \in [Shares -> Nat]
  BY DEF Share!IndInv, Share!TypeOK, Share!CapabilityInv, Share!ShareAssumption
<1>8. ASSUME NEW s \in Shares, NEW secret, Share!ExchangeRefused(s, secret) PROVE Share!IndInv'
  <2> DEFINE n == (IF shares[s].window THEN shares[s].failed ELSE 0) + 1
             b == (n >= MaxAttempts)
  <2>1. Share!Exists(s) /\ ~shares[s].blocked
    BY <1>8 DEF Share!ExchangeRefused, Share!OpenToExchange, Share!Active
  <2>2. n \in Nat /\ b \in BOOLEAN /\ n <= MaxAttempts /\ (n = MaxAttempts => b)
    BY <1>6, <1>7, <2>1
  <2>3. guessed[s] + 1 = n BY <1>6, <2>1
  <2>4. /\ shares' = [shares EXCEPT ![s].failed = n, ![s].window = TRUE, ![s].blocked = b]
        /\ UNCHANGED <<pointer, plans, creating, journal, sessions>> /\ shown' = None
    BY <1>8 DEF Share!ExchangeRefused
  <2>5. guessed' = [guessed EXCEPT ![s] = IF TRUE THEN n ELSE 0]
    <3>1. guessed' = [guessed EXCEPT ![s] = guessed[s] + 1] BY <1>8 DEF Share!ExchangeRefused
    <3> QED BY <2>3, <3>1
  <2> HIDE DEF n, b
  <2> QED BY <1>5, <1>7, <2>1, <2>2, <2>4, <2>5 DEF ShareCounts
<1>9. ASSUME NEW s \in Shares, NEW secret, Share!Exchange(s, secret) PROVE Share!IndInv'
  <2> DEFINE x == [share |-> s, epoch |-> shares[s].epoch, secret |-> secret]
  <2>1. Share!Active(s) /\ Share!Exists(s) /\ secret = shares[s].secret
    BY <1>9 DEF Share!Exchange, Share!OpenToExchange, Share!Active
  <2>2. secret.epoch = shares[s].epoch BY <2>1 DEF Share!IndInv, Share!CapabilityInv
  <2>3. secret \in Share!Secrets /\ shares[s].epoch \in Nat BY <1>6, <2>1 DEF Share!Rows
  <2>4. x \in Share!Sessions /\ x.secret.epoch = x.epoch BY <2>2, <2>3 DEF Share!Sessions
  <2>5. /\ sessions' = sessions \cup {x}
        /\ shares' = [shares EXCEPT ![s].failed = 0, ![s].window = FALSE, ![s].blocked = FALSE]
        /\ guessed' = [guessed EXCEPT ![s] = IF FALSE THEN 0 ELSE 0]
        /\ UNCHANGED <<pointer, plans, creating, journal>> /\ shown' = None
    BY <1>9 DEF Share!Exchange
  <2> HIDE DEF x
  <2> QED BY <1>5, <1>7, <2>1, <2>4, <2>5 DEF ShareCounts
<1>10. ASSUME NEW s \in Shares, Share!WindowPasses(s) PROVE Share!IndInv'
  <2> DEFINE n == shares[s].failed
             b == shares[s].blocked
  <2>1. Share!Exists(s) BY <1>10 DEF Share!WindowPasses
  <2>2. n \in Nat /\ b \in BOOLEAN BY <1>6, <2>1
  <2>3. /\ shares' = [shares EXCEPT ![s].failed = n, ![s].window = FALSE, ![s].blocked = b]
        /\ guessed' = [guessed EXCEPT ![s] = IF FALSE THEN n ELSE 0]
        /\ UNCHANGED <<pointer, plans, creating, journal, sessions>> /\ shown' = None
    <3>1. [shares[s] EXCEPT !.window = FALSE]
            = [shares[s] EXCEPT !.failed = n, !.window = FALSE, !.blocked = b]
      BY <1>6, <2>1 DEF Share!Rows
    <3> QED BY <1>10, <3>1 DEF Share!WindowPasses
  <2> HIDE DEF n, b
  <2> QED BY <1>5, <1>7, <2>1, <2>2, <2>3 DEF ShareCounts
<1>11. ASSUME NEW s \in Shares, Share!BlockEnds(s) PROVE Share!IndInv'
  <2> DEFINE n == shares[s].failed
  <2>1. Share!Exists(s) /\ ~shares[s].window BY <1>11 DEF Share!BlockEnds
  <2>2. n \in Nat /\ guessed[s] = 0 BY <1>6, <2>1
  <2>3. /\ shares' = [shares EXCEPT ![s].failed = n, ![s].window = FALSE, ![s].blocked = FALSE]
        /\ guessed' = [guessed EXCEPT ![s] = IF FALSE THEN n ELSE 0]
        /\ UNCHANGED <<pointer, plans, creating, journal, sessions>> /\ shown' = None
    <3>1. [shares[s] EXCEPT !.blocked = FALSE]
            = [shares[s] EXCEPT !.failed = n, !.window = FALSE, !.blocked = FALSE]
      BY <1>6, <2>1 DEF Share!Rows
    <3>2. guessed = [guessed EXCEPT ![s] = 0] BY <1>7, <2>2
    <3> QED BY <1>11, <3>1, <3>2 DEF Share!BlockEnds
  <2> HIDE DEF n
  <2> QED BY <1>5, <1>7, <2>1, <2>2, <2>3 DEF ShareCounts
<1>12. ASSUME NEW x \in sessions, Share!ViewSnapshot(x) PROVE Share!IndInv'
  <2>1. /\ x \in Share!Sessions /\ x.secret.epoch = x.epoch /\ shown' = x
        /\ UNCHANGED <<pointer, plans, shares, sessions, journal, creating, guessed>>
    BY <1>7, <1>12 DEF Share!ViewSnapshot
  <2>2. Share!TypeOK' BY <2>1 DEF Share!IndInv, Share!TypeOK
  <2>3. Share!CapabilityInv'
    BY <2>1 DEF Share!IndInv, Share!CapabilityInv, Share!Active, Share!Exists
  <2>4. Share!OldCapabilitiesDie'
    BY <1>12, <2>1 DEF Share!OldCapabilitiesDie, Share!ViewSnapshot, Share!Active
  <2> QED BY <2>1, <2>2, <2>3, <2>4, OtherSteps DEF Share!IndInv
<1>13. ASSUME NEW x \in sessions, Share!SessionExpires(x) PROVE Share!IndInv'
  <2>1. Share!TypeOK' BY <1>13 DEF Share!SessionExpires, Share!IndInv, Share!TypeOK
  <2>2. Share!CapabilityInv' /\ Share!OldCapabilitiesDie'
    BY <1>13 DEF Share!SessionExpires, Share!IndInv, Share!CapabilityInv, Share!OldCapabilitiesDie, Share!Active, Share!Exists
  <2> QED BY <1>13, <2>1, <2>2, OtherSteps DEF Share!SessionExpires, Share!IndInv
<1>14. CASE UNCHANGED Share!vars
  <2>1. Share!TypeOK' /\ Share!CapabilityInv' /\ Share!OldCapabilitiesDie'
    BY <1>14 DEF Share!vars, Share!IndInv, Share!TypeOK, Share!CapabilityInv, Share!OldCapabilitiesDie, Share!Active, Share!Exists
  <2> QED BY <1>14, <2>1, OtherSteps DEF Share!vars, Share!IndInv
<1> QED BY <1>1, <1>2, <1>3, <1>4, <1>8, <1>9, <1>10, <1>11, <1>12, <1>13, <1>14, ShareCreating
        DEF Share!Next

-----------------------------------------------------------------------------
(* Theorems *)

\* The inductive invariant holds in every behaviour of the share service.
THEOREM ShareInvariance == Share!ShareAssumption => (Share!Spec => []Share!IndInv)
<1> SUFFICES ASSUME Share!ShareAssumption PROVE Share!Spec => []Share!IndInv
  OBVIOUS
<1>1. Share!Init => Share!IndInv
  <2> SUFFICES ASSUME Share!Init PROVE Share!IndInv
    OBVIOUS
  <2>1. Share!TypeOK BY DEF Share!Init, Share!TypeOK, Share!Plans
  <2>2. Share!CapabilityInv /\ Share!KeyInv /\ Share!GuessInv /\ Share!OldCapabilitiesDie
    BY DEF Share!Init, Share!CapabilityInv, Share!KeyInv, Share!GuessInv, Share!OldCapabilitiesDie, Share!Active, Share!Exists
  <2>3. Share!VersionInv /\ Share!ChangesFollowVersions
    BY DEF Share!Init, Share!VersionInv, Share!ChangesFollowVersions
  <2> QED BY <2>1, <2>2, <2>3 DEF Share!IndInv
<1>2. Share!IndInv /\ [Share!Next]_(Share!vars) => Share!IndInv' BY ShareChanges
<1> QED BY <1>1, <1>2, PTL DEF Share!Spec

\* The snapshot is shown to holders of the current secret only, a key makes one share, a
\* version is changed once, and a window admits MaxAttempts wrong secrets at most.
LEMMA SharePromises ==
    ASSUME Share!ShareAssumption, Share!IndInv
    PROVE  Share!OldCapabilitiesDie /\ Share!OneSharePerKey /\ Share!ChangesFollowVersions /\ Share!GuessesAreLimited
<1>1. Share!OneSharePerKey
  <2> SUFFICES ASSUME NEW s \in Shares, NEW t \in Shares, Share!Exists(s), Share!Exists(t),
                      shares[s].key = shares[t].key
               PROVE  s = t
    BY DEF Share!OneSharePerKey
  <2>1. /\ journal[Share!Command("create", None, shares[s].key)].share = s
        /\ journal[Share!Command("create", None, shares[t].key)].share = t
    BY DEF Share!IndInv, Share!KeyInv
  <2> QED BY <2>1
<1>2. Share!GuessesAreLimited
  BY DEF Share!IndInv, Share!GuessInv, Share!GuessesAreLimited, Share!ShareAssumption
<1> QED BY <1>1, <1>2 DEF Share!IndInv

\* A share is made from the plan that is current in the transaction that inserts it, and keeps
\* its source: rotation, revocation, failures and the time that passes leave it alone.
LEMMA SourcesStay ==
    ASSUME Share!ShareAssumption, Share!IndInv, [Share!Next]_(Share!vars), NEW t \in Shares,
           shares'[t] # shares[t], shares'[t] # None
    PROVE  IF Share!Exists(t) THEN shares'[t].source = shares[t].source
                        ELSE shares'[t].source = pointer
<1> DEFINE Goal == IF Share!Exists(t) THEN shares'[t].source = shares[t].source
                                ELSE shares'[t].source = pointer
<1>1. ASSUME NEW c \in Creators, NEW key \in CreateKeys, Share!CreateShare(c, key) PROVE Goal
  <2> DEFINE id == CHOOSE s \in Shares : ~Share!Exists(s)
  <2>1. /\ \E s \in Shares : ~Share!Exists(s)
        /\ shares' = [shares EXCEPT ![id] = Share!Row(key, id, creating[c])] /\ creating[c] = pointer
    BY <1>1 DEF Share!CreateShare, Share!SourceIsCurrent
  <2>2. id \in Shares /\ ~Share!Exists(id) BY <2>1
  <2> HIDE DEF id
  <2>3. t = id /\ shares'[t] = Share!Row(key, id, creating[c])
    BY <2>1, <2>2 DEF Share!IndInv, Share!TypeOK
  <2> QED BY <2>1, <2>2, <2>3 DEF Share!Row
<1>2. ASSUME NEW s \in Shares, NEW row, ShareRewrites(s, row) PROVE Goal
  <2>1. t = s BY <1>2, ShareRewriting
  <2> QED BY <1>2, <2>1, ShareRewriting DEF ShareRewrites
<1>3. ASSUME NEW s \in Shares, NEW key \in ChangeKeys, NEW v, Share!Rotate(s, key, v) PROVE Goal
  BY <1>2, <1>3, RotatedRow
<1>4. ASSUME NEW s \in Shares, NEW key \in ChangeKeys, NEW v, Share!Revoke(s, key, v) PROVE Goal
  BY <1>2, <1>4, RevokedRow
<1>5. ASSUME NEW s \in Shares, NEW n, NEW w, NEW b, Share!Exists(s),
             shares' = [shares EXCEPT ![s].failed = n, ![s].window = w, ![s].blocked = b]
      PROVE  Goal
  <2>1. shares \in [Shares -> Share!Rows \cup {None}] /\ shares[s] \in Share!Rows
    BY <1>5 DEF Share!IndInv, Share!TypeOK, Share!Exists
  <2>2. t = s BY <1>5, <2>1
  <2> QED BY <1>5, <2>1, <2>2 DEF Share!Rows
<1>6. ASSUME NEW s \in Shares, Share!Exists(s)
      PROVE  shares[s] \in Share!Rows /\ shares \in [Shares -> Share!Rows \cup {None}]
  BY <1>6 DEF Share!IndInv, Share!TypeOK, Share!Exists
<1>7. ASSUME NEW s \in Shares, NEW secret, Share!Exchange(s, secret) \/ Share!ExchangeRefused(s, secret)
      PROVE  Goal
  <2>1. Share!Exists(s)
    BY <1>7 DEF Share!Exchange, Share!ExchangeRefused, Share!OpenToExchange, Share!Active
  <2>2. CASE Share!Exchange(s, secret) BY <1>5, <2>1, <2>2 DEF Share!Exchange
  <2>3. CASE Share!ExchangeRefused(s, secret)
    <3>1. PICK n, b :
            shares' = [shares EXCEPT ![s].failed = n, ![s].window = TRUE, ![s].blocked = b]
      BY <2>3 DEF Share!ExchangeRefused
    <3> QED BY <1>5, <2>1, <3>1
  <2> QED BY <1>7, <2>2, <2>3
<1>8. ASSUME NEW s \in Shares, Share!WindowPasses(s) \/ Share!BlockEnds(s) PROVE Goal
  <2>1. Share!Exists(s) BY <1>8 DEF Share!WindowPasses, Share!BlockEnds
  <2>2. t = s /\ Share!Exists(t) BY <1>6, <1>8, <2>1 DEF Share!WindowPasses, Share!BlockEnds
  <2> QED BY <1>6, <1>8, <2>2 DEF Share!WindowPasses, Share!BlockEnds, Share!Rows
<1> QED BY <1>1, <1>3, <1>4, <1>7, <1>8
        DEF Share!Next, Share!PublishPlan, Share!WithdrawPlan, Share!ReadSource, Share!ViewSnapshot, Share!SessionExpires, Share!vars

\* The share service keeps its promises, whatever requests cross, are retried or are guesses.
THEOREM ShareSafety == Share!ShareAssumption => (Share!Spec => Share!SharesAreSafe)
<1> SUFFICES ASSUME Share!ShareAssumption PROVE Share!Spec => Share!SharesAreSafe
  OBVIOUS
<1> DEFINE Holding == /\ Share!OldCapabilitiesDie /\ Share!OneSharePerKey /\ Share!ChangesFollowVersions
                      /\ Share!GuessesAreLimited
           Keeping == \A s \in Shares : shares'[s] # shares[s] /\ shares'[s] # None =>
                        IF Share!Exists(s) THEN shares'[s].source = shares[s].source
                                     ELSE shares'[s].source = pointer
<1>1. Share!IndInv => Holding BY SharePromises
<1>2. Share!IndInv /\ [Share!Next]_(Share!vars) => [Keeping]_(Share!vars) BY SourcesStay
<1>3. Share!Spec => []Share!IndInv BY ShareInvariance
<1>4. Share!Spec => []Holding BY <1>1, <1>3, PTL
<1>5. Share!Spec => [][Keeping]_(Share!vars) BY <1>2, <1>3, PTL DEF Share!Spec
<1> QED BY <1>4, <1>5, PTL DEF Share!SharesAreSafe, Share!SharedPlanWasCurrent

-----------------------------------------------------------------------------
(* The knowledge base. *)

\* Documents keep their scope and content.
KeepRows == \A d \in Knowledge!Stored : docs'[d] # None /\ docs'[d].scope = docs[d].scope
                                /\ docs'[d].content = docs[d].content

\* After the step d is the document of this content in this scope.
WillHold(d, scope, content) ==
    d \in Documents /\ docs'[d] # None /\ docs'[d].scope = scope /\ docs'[d].content = content

\* A document that is there comes to be published by a command only.
OnPurpose ==
    \A d \in Knowledge!Stored : ~Knowledge!Published(d) /\ Knowledge!Published(d)' =>
        \E k \in DOMAIN commands' \ DOMAIN commands :
            commands'[k] = [doc |-> d, target |-> "published", expected |-> docs[d].version]

\* The states of a transaction and of a search.
Transactions == [at : {"idle", "key", "content"} \cup Knowledge!Holding, found : Documents \cup {None}]
Searches == [at : {"idle", "vector"}, found : SUBSET Documents, since : SUBSET Documents]

\* What is known of every state.
LEMMA CorpusFacts ==
    ASSUME Knowledge!KnowledgeAssumption, Knowledge!IndInv
    PROVE  /\ docs \in [Documents -> Knowledge!DocRows \cup {None}]
           /\ \A d \in Knowledge!Stored : d \in Documents /\ docs[d] \in Knowledge!DocRows
           /\ \A p \in Operators : /\ applied[p] \in Nat \ {0} /\ Len(Bundle[p]) \in Nat
                                   /\ applied[p] + 1 \in Nat \ {0}
                                   /\ ingestion[p] \in Transactions
           /\ applied \in [Operators -> Nat \ {0}] /\ ingestion \in [Operators -> Transactions]
           /\ search \in [Tenants -> Searches]
<1>1. Knowledge!TypeOK BY DEF Knowledge!IndInv
<1>2. docs \in [Documents -> Knowledge!DocRows \cup {None}] BY <1>1 DEF Knowledge!TypeOK
<1>3. \A d \in Knowledge!Stored : d \in Documents /\ docs[d] \in Knowledge!DocRows
  BY <1>2 DEF Knowledge!Stored
<1>4. /\ applied \in [Operators -> Nat \ {0}] /\ ingestion \in [Operators -> Transactions]
      /\ search \in [Tenants -> Searches]
  BY <1>1 DEF Knowledge!TypeOK, Transactions, Searches
<1>5. \A p \in Operators : Len(Bundle[p]) \in Nat BY DEF Knowledge!KnowledgeAssumption
<1>6. \A p \in Operators : applied[p] \in Nat \ {0} /\ ingestion[p] \in Transactions BY <1>4
<1>7. \A p \in Operators : applied[p] + 1 \in Nat \ {0} BY <1>6
<1> QED BY <1>2, <1>3, <1>4, <1>5, <1>6, <1>7

\* A document that stays is still what it was known for.
LEMMA CorpusKeeps ==
    ASSUME KeepRows, NEW d, NEW scope, NEW content, Knowledge!Holds(d, scope, content)
    PROVE  WillHold(d, scope, content)
BY DEF KeepRows, Knowledge!Holds, WillHold, Knowledge!Stored

\* A step in the transaction of p, after which it is x and the operator is at document n.
LEMMA CorpusIngestion ==
    ASSUME Knowledge!KnowledgeAssumption, Knowledge!IndInv, KeepRows, NEW p \in Operators,
           docs' \in [Documents -> Knowledge!DocRows \cup {None}],
           NEW x \in Transactions, NEW n \in Nat \ {0},
           ingestion' = [ingestion EXCEPT ![p] = x], applied' = [applied EXCEPT ![p] = n],
           x.at # "idle" => n = applied[p] /\ n <= Len(Bundle[p]),
           \/ n = applied[p] \/ n = 1
           \/ n = applied[p] + 1 /\ \E d \in Documents : WillHold(d, ScopeOf[p], Knowledge!Content(p)),
           x.at \in Knowledge!Holding => ingestion[p].at \in Knowledge!Holding \/ Knowledge!ContentIsFree(p),
           x.at = "insert" => IF x.found = None THEN Knowledge!SameContent(p) = {}
                              ELSE Knowledge!Holds(x.found, ScopeOf[p], Knowledge!Content(p)),
           \A d \in Documents : docs'[d] # docs[d] =>
              /\ ingestion[p].at \in Knowledge!Holding /\ x.at = "idle"
              /\ docs'[d].content = Knowledge!Content(p) /\ docs'[d].scope = ScopeOf[p],
           \A k \in DOMAIN ingestKeys' : WillHold(ingestKeys'[k], k[1], k[3]),
           search' \in [Tenants -> Searches], Knowledge!SearchInv', found' = None
    PROVE  Knowledge!IndInv'
<1>1. /\ applied \in [Operators -> Nat \ {0}] /\ ingestion \in [Operators -> Transactions]
      /\ docs \in [Documents -> Knowledge!DocRows \cup {None}]
  BY CorpusFacts
<1>2. /\ ingestion'[p] = x /\ applied'[p] = n
      /\ \A q \in Operators : q # p => ingestion'[q] = ingestion[q] /\ applied'[q] = applied[q]
  BY <1>1
<1>3. Knowledge!TypeOK'
  <2>1. ingestion' \in [Operators -> Transactions] /\ applied' \in [Operators -> Nat \ {0}]
    BY <1>1
  <2> QED BY <2>1 DEF Knowledge!TypeOK, Transactions, Searches
<1>4. Knowledge!BundleInv'
  <2> SUFFICES ASSUME NEW q \in Operators
               PROVE  /\ ingestion'[q].at # "idle" => applied'[q] <= Len(Bundle[q])
                      /\ \A i \in 1 .. Len(Bundle[q]) : i < applied'[q] =>
                          \E d \in Documents : WillHold(d, ScopeOf[q], Bundle[q][i])
    BY DEF Knowledge!BundleInv, Knowledge!At, Knowledge!Holds, WillHold
  <2>1. /\ ingestion[q].at # "idle" => applied[q] <= Len(Bundle[q])
        /\ \A i \in 1 .. Len(Bundle[q]) : i < applied[q] =>
              \E d \in Documents : Knowledge!Holds(d, ScopeOf[q], Bundle[q][i])
    BY DEF Knowledge!IndInv, Knowledge!BundleInv, Knowledge!At
  <2>2. \A i \in 1 .. Len(Bundle[q]) : i < applied[q] =>
            \E d \in Documents : WillHold(d, ScopeOf[q], Bundle[q][i])
    BY <2>1, CorpusKeeps
  <2>3. CASE q # p BY <1>2, <2>1, <2>2, <2>3
  <2>4. CASE q = p
    <3>1. CASE n = applied[p] BY <1>2, <2>2, <2>4, <3>1
    <3>2. CASE n = 1
      <4>1. \A i \in 1 .. Len(Bundle[q]) : ~(i < 1) BY CorpusFacts
      <4> QED BY <1>2, <2>4, <3>2, <4>1
    <3>3. CASE n = applied[p] + 1 /\ \E d \in Documents : WillHold(d, ScopeOf[p], Knowledge!Content(p))
      <4>1. \A i \in 1 .. Len(Bundle[p]) : i < applied[p] + 1 => i < applied[p] \/ i = applied[p]
        BY CorpusFacts
      <4>2. n # applied[p] BY <3>3, CorpusFacts
      <4> QED BY <1>2, <2>2, <2>4, <3>3, <4>1, <4>2 DEF Knowledge!Content
    <3> QED BY <3>1, <3>2, <3>3
  <2> QED BY <2>3, <2>4
<1>5. Knowledge!KeyInv' BY DEF Knowledge!KeyInv, Knowledge!Holds, WillHold
<1>6. \A q \in Operators : ingestion'[q].at # "idle" => Knowledge!Content(q)' = Knowledge!Content(q)
  BY <1>2 DEF Knowledge!Content
<1>7. "idle" \notin Knowledge!Holding /\ "insert" \in Knowledge!Holding BY DEF Knowledge!Holding
<1>8. \A q, r \in Operators :
        /\ q # r /\ ingestion'[q].at \in Knowledge!Holding /\ ingestion'[r].at \in Knowledge!Holding
        /\ ScopeOf[q] = ScopeOf[r]
        => Knowledge!Content(q) # Knowledge!Content(r)
  <2>1. \A q, r \in Operators :
          /\ q # r /\ ingestion[q].at \in Knowledge!Holding /\ ingestion[r].at \in Knowledge!Holding
          /\ ScopeOf[q] = ScopeOf[r]
          => Knowledge!Content(q) # Knowledge!Content(r)
    BY DEF Knowledge!IndInv, Knowledge!LockInv
  <2>2. CASE x.at \in Knowledge!Holding /\ ingestion[p].at \notin Knowledge!Holding
    <3>1. \A q \in Operators : q # p /\ ingestion[q].at \in Knowledge!Holding /\ ScopeOf[q] = ScopeOf[p]
            => Knowledge!Content(q) # Knowledge!Content(p)
      BY <2>2 DEF Knowledge!ContentIsFree, Knowledge!Holding
    <3> QED BY <1>2, <2>1, <3>1
  <2>3. CASE ~(x.at \in Knowledge!Holding /\ ingestion[p].at \notin Knowledge!Holding)
    BY <1>2, <2>1, <2>3
  <2> QED BY <2>2, <2>3
<1>9. ASSUME NEW q \in Operators, ingestion'[q].at = "insert"
      PROVE  IF ingestion'[q].found = None THEN Knowledge!SameContent(q)' = {}
             ELSE WillHold(ingestion'[q].found, ScopeOf[q], Knowledge!Content(q))
  <2>1. CASE q = p
    <3>1. docs' = docs BY <1>1, <1>2, <1>9, <2>1
    <3>2. Knowledge!SameContent(q)' = Knowledge!SameContent(q)
      BY <1>6, <1>9, <3>1 DEF Knowledge!SameContent, Knowledge!Stored
    <3> QED BY <1>2, <1>9, <2>1, <3>2, CorpusKeeps
  <2>2. CASE q # p
    <3>1. /\ ingestion[q].at = "insert" /\ ingestion'[q] = ingestion[q]
          /\ IF ingestion[q].found = None THEN Knowledge!SameContent(q) = {}
             ELSE Knowledge!Holds(ingestion[q].found, ScopeOf[q], Knowledge!Content(q))
      BY <1>2, <1>9, <2>2 DEF Knowledge!IndInv, Knowledge!LockInv, Knowledge!At
    <3>2. CASE ingestion[q].found # None BY <3>1, <3>2, CorpusKeeps
    <3>3. CASE ingestion[q].found = None
      <4> SUFFICES ASSUME NEW d \in Knowledge!SameContent(q)' PROVE FALSE
        BY <3>1, <3>3
      <4>1. /\ d \in Documents /\ docs'[d] # None /\ docs'[d].scope = ScopeOf[q]
            /\ docs'[d].content = Knowledge!Content(q)
        BY <1>6, <1>9 DEF Knowledge!SameContent, Knowledge!Stored
      <4>2. CASE docs'[d] = docs[d]
        BY <3>1, <3>3, <4>1, <4>2 DEF Knowledge!SameContent, Knowledge!Stored
      <4>3. CASE docs'[d] # docs[d]
        <5>1. /\ ingestion[p].at \in Knowledge!Holding /\ Knowledge!Content(q) = Knowledge!Content(p) /\ ScopeOf[q] = ScopeOf[p]
          BY <4>1, <4>3
        <5> QED BY <1>7, <2>2, <3>1, <5>1 DEF Knowledge!IndInv, Knowledge!LockInv
      <4> QED BY <4>2, <4>3
    <3> QED BY <3>2, <3>3
  <2> QED BY <2>1, <2>2
<1>10. Knowledge!LockInv'
  <2>1. \A q, r \in Operators :
          /\ q # r /\ ingestion'[q].at \in Knowledge!Holding /\ ingestion'[r].at \in Knowledge!Holding
          /\ ScopeOf[q] = ScopeOf[r]
          => Knowledge!Content(q)' # Knowledge!Content(r)'
    BY <1>6, <1>7, <1>8
  <2>2. \A q \in Operators : ingestion'[q].at = "insert" =>
          IF ingestion'[q].found = None THEN Knowledge!SameContent(q)' = {}
          ELSE WillHold(ingestion'[q].found, ScopeOf[q], Knowledge!Content(q)')
    BY <1>6, <1>9
  <2> QED BY <2>1, <2>2 DEF Knowledge!LockInv, Knowledge!At, Knowledge!Holds, WillHold
<1>11. Knowledge!SearchShowsPublished' BY DEF Knowledge!SearchShowsPublished
<1> QED BY <1>3, <1>4, <1>5, <1>10, <1>11 DEF Knowledge!IndInv

\* The searches under way learn what becomes public.
LEMMA CorpusSearches ==
    ASSUME Knowledge!KnowledgeAssumption, Knowledge!IndInv, KeepRows,
           docs' \in [Documents -> Knowledge!DocRows \cup {None}],
           Knowledge!NowPublic(docs') \/ (docs' = docs /\ search' = search)
    PROVE  search' \in [Tenants -> Searches] /\ Knowledge!SearchInv'
<1>1. search \in [Tenants -> Searches] BY CorpusFacts
<1>2. CASE docs' = docs /\ search' = search
  BY <1>1, <1>2 DEF Knowledge!IndInv, Knowledge!SearchInv, Knowledge!Stored, Knowledge!Published, Knowledge!Visible
<1>3. CASE Knowledge!NowPublic(docs')
  <2> DEFINE P == {d \in Documents : docs'[d] # None /\ docs'[d].status = "published"}
  <2>1. \A t \in Tenants : search'[t] = IF search[t].at = "idle" THEN search[t]
                                        ELSE [search[t] EXCEPT !.since = @ \cup P]
    BY <1>3 DEF Knowledge!NowPublic
  <2>2. \A t \in Tenants :
          /\ search'[t] \in Searches
          /\ search'[t].at = search[t].at /\ search'[t].found = search[t].found
          /\ search[t].at # "idle" => search'[t].since = search[t].since \cup P
    <3> SUFFICES ASSUME NEW t \in Tenants
                 PROVE  /\ search'[t] \in Searches
                        /\ search'[t].at = search[t].at /\ search'[t].found = search[t].found
                        /\ search[t].at # "idle" => search'[t].since = search[t].since \cup P
      OBVIOUS
    <3>1. search[t] \in Searches /\ P \subseteq Documents BY <1>1
    <3> HIDE DEF P
    <3>2. CASE search[t].at = "idle" BY <2>1, <3>1, <3>2
    <3>3. CASE search[t].at # "idle"
      <4>1. search'[t] = [search[t] EXCEPT !.since = search[t].since \cup P] BY <2>1, <3>3
      <4> QED BY <3>1, <4>1 DEF Searches
    <3> QED BY <3>2, <3>3
  <2>3. search' \in [Tenants -> Searches]
    <3>1. search' = [t \in Tenants |-> search'[t]] BY <1>3 DEF Knowledge!NowPublic
    <3> QED BY <2>2, <3>1
  <2>4. Knowledge!SearchInv'
    <3> SUFFICES ASSUME NEW t \in Tenants, search'[t].at = "vector"
                 PROVE  /\ {d \in Knowledge!Stored : Knowledge!Published(d)}' \subseteq search'[t].since
                        /\ \A d \in search'[t].found :
                              d \in search'[t].since /\ d \in Knowledge!Stored' /\ Knowledge!Visible(t, d)'
      BY DEF Knowledge!SearchInv
    <3>1. search[t].at = "vector" /\ search'[t].since = search[t].since \cup P BY <2>2
    <3>2. \A d \in search'[t].found : d \in search[t].since /\ d \in Knowledge!Stored /\ Knowledge!Visible(t, d)
      BY <2>2, <3>1 DEF Knowledge!IndInv, Knowledge!SearchInv
    <3>3. {d \in Knowledge!Stored : Knowledge!Published(d)}' \subseteq P
      BY DEF Knowledge!Stored, Knowledge!Published
    <3>4. \A d \in Knowledge!Stored : Knowledge!Visible(t, d) => d \in Knowledge!Stored' /\ Knowledge!Visible(t, d)'
      BY DEF KeepRows, Knowledge!Stored, Knowledge!Visible
    <3> QED BY <3>1, <3>2, <3>3, <3>4
  <2> QED BY <2>3, <2>4
<1> QED BY <1>2, <1>3

\* A step that leaves the documents alone publishes none.
LEMMA CorpusStill ==
    ASSUME docs' = docs
    PROVE  KeepRows /\ OnPurpose
BY DEF KeepRows, OnPurpose, Knowledge!Stored, Knowledge!Published

\* The steps of an ingestion before its last.
LEMMA CorpusLocks ==
    ASSUME Knowledge!KnowledgeAssumption, Knowledge!IndInv, NEW p \in Operators,
           Knowledge!Prepare(p) \/ Knowledge!LockKey(p) \/ Knowledge!LockContent(p) \/ Knowledge!CheckContent(p) \/ Knowledge!IngestFails(p)
    PROVE  Knowledge!IndInv' /\ OnPurpose
<1>1. /\ docs' = docs /\ ingestKeys' = ingestKeys /\ search' = search /\ found' = None
      /\ docs \in [Documents -> Knowledge!DocRows \cup {None}]
  BY CorpusFacts DEF Knowledge!Prepare, Knowledge!LockKey, Knowledge!LockContent, Knowledge!CheckContent, Knowledge!IngestFails
<1>2. KeepRows /\ OnPurpose BY <1>1, CorpusStill
<1>3. search' \in [Tenants -> Searches] /\ Knowledge!SearchInv' BY <1>1, <1>2, CorpusSearches
<1>4. \A k \in DOMAIN ingestKeys' : WillHold(ingestKeys'[k], k[1], k[3])
  BY <1>1, <1>2, CorpusKeeps DEF Knowledge!IndInv, Knowledge!KeyInv
<1>5. /\ applied \in [Operators -> Nat \ {0}] /\ ingestion \in [Operators -> Transactions]
      /\ applied[p] \in Nat \ {0} /\ ingestion[p] \in Transactions
      /\ applied[p] + 1 \in Nat \ {0} /\ 1 \in Nat \ {0}
  BY CorpusFacts
<1>6. applied = [applied EXCEPT ![p] = applied[p]] BY <1>5
<1>7. ingestion[p].at # "idle" => applied[p] <= Len(Bundle[p])
  BY DEF Knowledge!IndInv, Knowledge!BundleInv, Knowledge!At
<1> DEFINE Goes(x, n) == ingestion' = [ingestion EXCEPT ![p] = x]
                         /\ applied' = [applied EXCEPT ![p] = n]
           To(where) == [ingestion[p] EXCEPT !.at = where]
           Off == [at |-> "idle", found |-> None]
<1>8. \A where \in {"idle", "key", "content"} \cup Knowledge!Holding :
        To(where) \in Transactions /\ To(where).at = where
  BY <1>5 DEF Transactions
<1>9. Off \in Transactions /\ Off.at = "idle" BY DEF Transactions
<1>10. \A where : Knowledge!Goto(p, where) => ingestion' = [ingestion EXCEPT ![p] = To(where)]
  BY DEF Knowledge!Goto
<1>11. "insert" \in Knowledge!Holding /\ "check" \in Knowledge!Holding /\ Knowledge!Holding \subseteq {"check", "insert"}
  BY DEF Knowledge!Holding
<1> HIDE DEF To, Off
<1>12. CASE Knowledge!Prepare(p)
  <2>1. Goes(To("key"), applied[p]) /\ applied[p] <= Len(Bundle[p])
    BY <1>6, <1>10, <1>12 DEF Knowledge!Prepare
  <2>2. To("key") \in Transactions /\ To("key").at = "key" BY <1>8
  <2> QED BY <1>1, <1>2, <1>3, <1>4, <1>5, <1>11, <2>1, <2>2, CorpusIngestion
<1>13. CASE Knowledge!LockKey(p)
  <2>1. CASE Knowledge!Key(p) \in DOMAIN ingestKeys
    <3>1. PICK n \in {applied[p] + 1, 1} : Goes(To("idle"), n)
      BY <1>10, <1>13, <2>1 DEF Knowledge!LockKey, Knowledge!NextDocument, Knowledge!AfterFailure
    <3>2. To("idle") \in Transactions /\ To("idle").at = "idle" BY <1>8
    <3>3. \E d \in Documents : WillHold(d, ScopeOf[p], Knowledge!Content(p))
      <4>1. Knowledge!Key(p)[1] = ScopeOf[p] /\ Knowledge!Key(p)[3] = Knowledge!Content(p)
        BY DEF Knowledge!Key
      <4>2. WillHold(ingestKeys[Knowledge!Key(p)], ScopeOf[p], Knowledge!Content(p))
        BY <1>1, <1>4, <2>1, <4>1
      <4> QED BY <4>2 DEF WillHold
    <3>4. n \in Nat \ {0} BY <1>5, <3>1
    <3> QED BY <1>1, <1>2, <1>3, <1>4, <1>11, <3>1, <3>2, <3>3, <3>4, CorpusIngestion
  <2>2. CASE Knowledge!Key(p) \notin DOMAIN ingestKeys
    <3>1. Goes(To("content"), applied[p]) /\ ingestion[p].at = "key"
      BY <1>6, <1>10, <1>13, <2>2 DEF Knowledge!LockKey, Knowledge!At
    <3>2. To("content") \in Transactions /\ To("content").at = "content" BY <1>8
    <3> QED BY <1>1, <1>2, <1>3, <1>4, <1>5, <1>7, <1>11, <3>1, <3>2, CorpusIngestion
  <2> QED BY <2>1, <2>2
<1>14. CASE Knowledge!LockContent(p)
  <2>1. Goes(To("check"), applied[p]) /\ ingestion[p].at = "content" /\ Knowledge!ContentIsFree(p)
    BY <1>6, <1>10, <1>14 DEF Knowledge!LockContent, Knowledge!At
  <2>2. To("check") \in Transactions /\ To("check").at = "check" BY <1>8, <1>11
  <2> QED BY <1>1, <1>2, <1>3, <1>4, <1>5, <1>7, <1>11, <2>1, <2>2, CorpusIngestion
<1>15. CASE Knowledge!CheckContent(p)
  <2> DEFINE f == IF Knowledge!SameContent(p) = {} THEN None ELSE CHOOSE d \in Knowledge!SameContent(p) : TRUE
             x == [at |-> "insert", found |-> f]
  <2>1. IF Knowledge!SameContent(p) = {} THEN f = None
        ELSE f \in Knowledge!SameContent(p) /\ f \in Documents /\ f # None
    BY DEF Knowledge!SameContent, Knowledge!Stored, Knowledge!KnowledgeAssumption
  <2>2. ingestion' = [ingestion EXCEPT ![p] = x] /\ applied' = applied /\ ingestion[p].at = "check"
    BY <1>15 DEF Knowledge!CheckContent, Knowledge!At
  <2> HIDE DEF f
  <2>3. x \in Transactions /\ x.at = "insert" /\ x.found = f BY <1>11, <2>1 DEF Transactions
  <2>4. IF f = None THEN Knowledge!SameContent(p) = {} ELSE Knowledge!Holds(f, ScopeOf[p], Knowledge!Content(p))
    BY <2>1 DEF Knowledge!SameContent, Knowledge!Stored, Knowledge!Holds
  <2>5. IF x.found = None THEN Knowledge!SameContent(p) = {} ELSE Knowledge!Holds(x.found, ScopeOf[p], Knowledge!Content(p))
    BY <2>3, <2>4
  <2> HIDE DEF x
  <2>6. ingestion' = [ingestion EXCEPT ![p] = x] /\ applied' = [applied EXCEPT ![p] = applied[p]]
    BY <1>6, <2>2
  <2>7. x \in Transactions /\ x.at = "insert" /\ ingestion[p].at \in Knowledge!Holding /\ x.at # "idle"
    BY <1>11, <2>2, <2>3
  <2>8. applied[p] <= Len(Bundle[p]) BY <1>7, <2>2
  <2> QED BY <1>1, <1>2, <1>3, <1>4, <1>5, <2>5, <2>6, <2>7, <2>8, CorpusIngestion
<1>16. CASE Knowledge!IngestFails(p)
  <2>1. Goes(Off, 1) BY <1>16 DEF Knowledge!IngestFails, Knowledge!AfterFailure, Off
  <2> QED BY <1>1, <1>2, <1>3, <1>4, <1>5, <1>9, <1>11, <2>1, CorpusIngestion
<1> QED BY <1>12, <1>13, <1>14, <1>15, <1>16

\* The end of an ingestion.
LEMMA CorpusInserts ==
    ASSUME Knowledge!KnowledgeAssumption, Knowledge!IndInv, NEW p \in Operators, Knowledge!Insert(p)
    PROVE  Knowledge!IndInv' /\ OnPurpose
<1> DEFINE f == ingestion[p].found
           fresh == CHOOSE d \in Documents : docs[d] = None
           off == [at |-> "idle", found |-> None]
<1>1. /\ Knowledge!At(p, "insert") /\ ingestion' = [ingestion EXCEPT ![p] = off]
      /\ Knowledge!NowPublic(docs') /\ found' = None /\ commands' = commands
      /\ \/ f # None /\ Knowledge!Record(p, f) /\ docs' = Knowledge!Existing(f) /\ Knowledge!NextDocument(p, Knowledge!Published(f))
         \/ /\ f = None /\ Knowledge!SameContent(p) = {} /\ \E d \in Documents : docs[d] = None
            /\ \E indexed \in BOOLEAN : docs' = [docs EXCEPT ![fresh] = Knowledge!NewRow(p, indexed)]
            /\ Knowledge!Record(p, fresh) /\ Knowledge!NextDocument(p, Knowledge!NewStatus(p) = "published")
  BY DEF Knowledge!Insert
<1>2. off \in Transactions /\ off.at = "idle" BY DEF Transactions
<1> HIDE DEF off, fresh
<1>3. /\ docs \in [Documents -> Knowledge!DocRows \cup {None}] /\ None \notin Knowledge!DocRows
      /\ applied[p] \in Nat \ {0} /\ applied[p] + 1 \in Nat \ {0} /\ 1 \in Nat \ {0}
      /\ ingestion[p].at \in Knowledge!Holding
  BY <1>1, CorpusFacts DEF Knowledge!KnowledgeAssumption, Knowledge!At, Knowledge!Holding
<1>4. PICK g : /\ Knowledge!Record(p, g) /\ KeepRows /\ OnPurpose
               /\ docs' \in [Documents -> Knowledge!DocRows \cup {None}]
               /\ WillHold(g, ScopeOf[p], Knowledge!Content(p))
               /\ \A d \in Documents : docs'[d] # docs[d] =>
                    docs'[d].content = Knowledge!Content(p) /\ docs'[d].scope = ScopeOf[p]
  <2>1. CASE f # None /\ Knowledge!Record(p, f) /\ docs' = Knowledge!Existing(f)
    <3>1. docs' = docs BY <2>1 DEF Knowledge!Existing
    <3>2. Knowledge!Holds(f, ScopeOf[p], Knowledge!Content(p))
      BY <1>1, <2>1 DEF Knowledge!IndInv, Knowledge!LockInv
    <3>3. KeepRows /\ OnPurpose BY <3>1, CorpusStill
    <3> QED BY <1>3, <2>1, <3>1, <3>2, <3>3, CorpusKeeps
  <2>2. ASSUME NEW indexed \in BOOLEAN, docs' = [docs EXCEPT ![fresh] = Knowledge!NewRow(p, indexed)],
               \E d \in Documents : docs[d] = None, Knowledge!Record(p, fresh)
        PROVE  /\ Knowledge!Record(p, fresh) /\ KeepRows /\ OnPurpose
               /\ docs' \in [Documents -> Knowledge!DocRows \cup {None}]
               /\ WillHold(fresh, ScopeOf[p], Knowledge!Content(p))
               /\ \A d \in Documents : docs'[d] # docs[d] =>
                    docs'[d].content = Knowledge!Content(p) /\ docs'[d].scope = ScopeOf[p]
    <3> DEFINE row == Knowledge!NewRow(p, indexed)
    <3>1. fresh \in Documents /\ docs[fresh] = None BY <2>2 DEF fresh
    <3>2. row \in Knowledge!DocRows /\ row.content = Knowledge!Content(p) /\ row.scope = ScopeOf[p]
      <4>1. Knowledge!Content(p) \in Knowledge!Listed
        <5>1. applied[p] \in 1 .. Len(Bundle[p])
          BY <1>1, CorpusFacts DEF Knowledge!IndInv, Knowledge!BundleInv, Knowledge!At
        <5> QED BY <5>1 DEF Knowledge!Content, Knowledge!Listed
      <4>2. Knowledge!NewStatus(p) \in Knowledge!Statuses
        BY DEF Knowledge!NewStatus, Knowledge!Statuses
      <4> QED BY <4>1, <4>2 DEF Knowledge!NewRow, Knowledge!DocRows
    <3> HIDE DEF row
    <3>3. docs' = [docs EXCEPT ![fresh] = row] BY <2>2 DEF row
    <3>4. /\ docs'[fresh] = row /\ row # None
          /\ \A d \in Documents : d # fresh => docs'[d] = docs[d]
      BY <1>3, <3>1, <3>2, <3>3
    <3>5. docs' \in [Documents -> Knowledge!DocRows \cup {None}] BY <1>3, <3>2, <3>3
    <3>6. \A d \in Knowledge!Stored : d # fresh /\ docs'[d] = docs[d]
      BY <3>1, <3>4 DEF Knowledge!Stored
    <3>7. KeepRows BY <3>6 DEF KeepRows, Knowledge!Stored
    <3>8. OnPurpose BY <3>6 DEF OnPurpose, Knowledge!Published
    <3>9. WillHold(fresh, ScopeOf[p], Knowledge!Content(p)) BY <3>1, <3>2, <3>4 DEF WillHold
    <3> QED BY <2>2, <3>2, <3>4, <3>5, <3>7, <3>8, <3>9
  <2> QED BY <1>1, <2>1, <2>2
<1>5. PICK n \in {applied[p] + 1, 1} : applied' = [applied EXCEPT ![p] = n]
  BY <1>1 DEF Knowledge!NextDocument, Knowledge!AfterFailure
<1>6. n \in Nat \ {0} BY <1>3, <1>5
<1>7. search' \in [Tenants -> Searches] /\ Knowledge!SearchInv' BY <1>1, <1>4, CorpusSearches
<1>8. \A k \in DOMAIN ingestKeys' : WillHold(ingestKeys'[k], k[1], k[3])
  <2>1. Knowledge!Key(p)[1] = ScopeOf[p] /\ Knowledge!Key(p)[3] = Knowledge!Content(p)
    BY DEF Knowledge!Key
  <2>2. \A k \in DOMAIN ingestKeys : WillHold(ingestKeys[k], k[1], k[3])
    BY <1>4, CorpusKeeps DEF Knowledge!IndInv, Knowledge!KeyInv
  <2> QED BY <1>4, <2>1, <2>2 DEF Knowledge!Record
<1>9. \E d \in Documents : WillHold(d, ScopeOf[p], Knowledge!Content(p)) BY <1>4 DEF WillHold
<1>10. "idle" \notin Knowledge!Holding BY DEF Knowledge!Holding
<1>11. Knowledge!IndInv'
  BY <1>1, <1>2, <1>3, <1>4, <1>5, <1>6, <1>7, <1>8, <1>9, <1>10, CorpusIngestion
<1> QED BY <1>4, <1>11

\* A status command.
LEMMA CorpusCommands ==
    ASSUME Knowledge!KnowledgeAssumption, Knowledge!IndInv, NEW d \in Documents, NEW key, NEW goal \in Knowledge!Statuses,
           NEW v, Knowledge!ChangeStatus(d, key, goal, v)
    PROVE  Knowledge!IndInv' /\ OnPurpose
<1> DEFINE id == <<docs[d].scope, key>>
           row == IF docs[d].status = goal THEN docs[d]
                  ELSE [docs[d] EXCEPT !.status = goal, !.version = @ + 1]
<1>1. /\ docs[d] # None /\ id \notin DOMAIN commands /\ docs[d].version = v
      /\ docs' = [docs EXCEPT ![d] = row] /\ Knowledge!NowPublic(docs') /\ found' = None
      /\ id \in DOMAIN commands' /\ commands'[id] = [doc |-> d, target |-> goal, expected |-> v]
      /\ ingestKeys' = ingestKeys /\ applied' = applied /\ ingestion' = ingestion
  BY DEF Knowledge!ChangeStatus, Knowledge!MayChange
<1>2. /\ docs \in [Documents -> Knowledge!DocRows \cup {None}] /\ docs[d] \in Knowledge!DocRows
      /\ None \notin Knowledge!DocRows
  BY <1>1, CorpusFacts DEF Knowledge!Stored, Knowledge!KnowledgeAssumption
<1>3. /\ row \in Knowledge!DocRows /\ row.scope = docs[d].scope /\ row.content = docs[d].content
      /\ row.status = goal
  <2>1. docs[d].version + 1 \in Nat BY <1>2 DEF Knowledge!DocRows
  <2>2. CASE docs[d].status = goal BY <1>2, <2>2
  <2>3. CASE docs[d].status # goal
    <3> DEFINE next == docs[d].version + 1
    <3>1. row = [docs[d] EXCEPT !.status = goal, !.version = next] BY <1>2, <2>3
    <3>2. next \in Nat BY <2>1
    <3> HIDE DEF next, row
    <3> QED BY <1>2, <3>1, <3>2 DEF Knowledge!DocRows
  <2> QED BY <2>2, <2>3
<1> HIDE DEF row, id
<1>4. docs' \in [Documents -> Knowledge!DocRows \cup {None}] /\ docs'[d] = row
      /\ \A e \in Documents : e # d => docs'[e] = docs[e]
  BY <1>1, <1>2, <1>3
<1>5. /\ \A e \in Documents : /\ docs[e] = None <=> docs'[e] = None
                              /\ docs[e] # None => docs'[e].scope = docs[e].scope
                                                     /\ docs'[e].content = docs[e].content
      /\ Knowledge!Stored' = Knowledge!Stored
  <2>1. \A e \in Documents : docs[e] = None <=> docs'[e] = None BY <1>1, <1>2, <1>3, <1>4
  <2> QED BY <1>3, <1>4, <2>1 DEF Knowledge!Stored
<1>6. KeepRows BY <1>5 DEF KeepRows, Knowledge!Stored
<1>7. search' \in [Tenants -> Searches] /\ Knowledge!SearchInv' BY <1>1, <1>4, <1>6, CorpusSearches
<1>8. Knowledge!TypeOK' BY <1>1, <1>4, <1>7 DEF Knowledge!IndInv, Knowledge!TypeOK, Searches
<1>9. \A e, scope, content : Knowledge!Holds(e, scope, content) => Knowledge!Holds(e, scope, content)'
  BY <1>5 DEF Knowledge!Holds
<1>10. \A p \in Operators : Knowledge!Content(p)' = Knowledge!Content(p)
  BY <1>1 DEF Knowledge!Content
<1>11. \A p \in Operators : Knowledge!SameContent(p)' = Knowledge!SameContent(p)
  BY <1>5, <1>10 DEF Knowledge!SameContent, Knowledge!Stored
<1>12. Knowledge!BundleInv' BY <1>1, <1>9 DEF Knowledge!IndInv, Knowledge!BundleInv, Knowledge!At
<1>13. Knowledge!KeyInv' BY <1>1, <1>9 DEF Knowledge!IndInv, Knowledge!KeyInv
<1>14. Knowledge!LockInv'
  <2>1. \A p \in Operators : Knowledge!Holds(ingestion[p].found, ScopeOf[p], Knowledge!Content(p)) =>
          Knowledge!Holds(ingestion[p].found, ScopeOf[p], Knowledge!Content(p))'
    BY <1>1, <1>5, <1>10 DEF Knowledge!Holds
  <2> QED BY <1>1, <1>10, <1>11, <2>1 DEF Knowledge!IndInv, Knowledge!LockInv, Knowledge!At
<1>15. Knowledge!SearchShowsPublished' BY <1>1 DEF Knowledge!SearchShowsPublished
<1>16. OnPurpose
  <2> SUFFICES ASSUME NEW e \in Knowledge!Stored, ~Knowledge!Published(e), Knowledge!Published(e)'
               PROVE  \E k \in DOMAIN commands' \ DOMAIN commands :
                        commands'[k] = [doc |-> e, target |-> "published",
                                        expected |-> docs[e].version]
    BY DEF OnPurpose
  <2>1. e = d BY <1>4 DEF Knowledge!Published, Knowledge!Stored
  <2>2. goal = "published" BY <1>3, <1>4, <2>1 DEF Knowledge!Published
  <2> QED BY <1>1, <2>1, <2>2
<1> QED BY <1>7, <1>8, <1>12, <1>13, <1>14, <1>15, <1>16 DEF Knowledge!IndInv

\* The two queries of a search.
LEMMA CorpusQueries ==
    ASSUME Knowledge!KnowledgeAssumption, Knowledge!IndInv, NEW t \in Tenants, Knowledge!SearchLexical(t) \/ Knowledge!SearchVector(t)
    PROVE  Knowledge!IndInv' /\ OnPurpose
<1>1. /\ docs' = docs /\ ingestKeys' = ingestKeys /\ applied' = applied
      /\ ingestion' = ingestion /\ commands' = commands
      /\ search \in [Tenants -> Searches] /\ search[t] \in Searches
      /\ Knowledge!Stored \subseteq Documents
  BY CorpusFacts DEF Knowledge!SearchLexical, Knowledge!SearchVector, Knowledge!ingestVars, Knowledge!Stored
<1>2. OnPurpose BY <1>1, CorpusStill
<1>3. Knowledge!BundleInv' /\ Knowledge!KeyInv' /\ Knowledge!LockInv'
  BY <1>1 DEF Knowledge!IndInv, Knowledge!BundleInv, Knowledge!KeyInv, Knowledge!LockInv, Knowledge!At, Knowledge!Holds, Knowledge!Content, Knowledge!SameContent, Knowledge!Stored
<1>4. /\ Knowledge!Stored' = Knowledge!Stored /\ \A d : Knowledge!Published(d)' = Knowledge!Published(d) /\ Knowledge!Visible(t, d)' = Knowledge!Visible(t, d)
      /\ \A u \in Tenants : u # t => \A d : Knowledge!Visible(u, d)' = Knowledge!Visible(u, d)
  BY <1>1 DEF Knowledge!Stored, Knowledge!Published, Knowledge!Visible
<1>5. ASSUME NEW x \in Searches, search' = [search EXCEPT ![t] = x],
             x.at = "vector" =>
               /\ {d \in Knowledge!Stored : Knowledge!Published(d)} \subseteq x.since
               /\ \A d \in x.found : d \in x.since /\ d \in Knowledge!Stored /\ Knowledge!Visible(t, d)
      PROVE  Knowledge!TypeOK' /\ Knowledge!SearchInv'
  <2>1. search' \in [Tenants -> Searches] /\ search'[t] = x
        /\ \A u \in Tenants : u # t => search'[u] = search[u]
    BY <1>1, <1>5
  <2>2. Knowledge!TypeOK' BY <1>1, <2>1 DEF Knowledge!IndInv, Knowledge!TypeOK, Searches
  <2>3. Knowledge!SearchInv' BY <1>4, <1>5, <2>1 DEF Knowledge!IndInv, Knowledge!SearchInv
  <2> QED BY <2>2, <2>3
<1>6. CASE Knowledge!SearchLexical(t)
  <2>1. PICK hits \in SUBSET Knowledge!Lexical(t) :
          search' = [search EXCEPT ![t] = [at |-> "vector", found |-> hits,
                                           since |-> {d \in Knowledge!Stored : Knowledge!Published(d)}]]
    BY <1>6 DEF Knowledge!SearchLexical
  <2> DEFINE x == [at |-> "vector", found |-> hits, since |-> {d \in Knowledge!Stored : Knowledge!Published(d)}]
  <2>2. \A d \in hits : d \in Knowledge!Stored /\ Knowledge!Published(d) /\ Knowledge!Visible(t, d)
    BY DEF Knowledge!Lexical
  <2>3. x \in Searches BY <1>1, <2>2 DEF Searches
  <2>4. Knowledge!TypeOK' /\ Knowledge!SearchInv' BY <1>5, <2>1, <2>2, <2>3
  <2>5. Knowledge!SearchShowsPublished'
    BY <1>6 DEF Knowledge!SearchLexical, Knowledge!SearchShowsPublished
  <2> QED BY <1>2, <1>3, <2>4, <2>5 DEF Knowledge!IndInv
<1>7. CASE Knowledge!SearchVector(t)
  <2>1. PICK hits \in SUBSET Knowledge!Vectors(t) :
          /\ search' = [search EXCEPT ![t] = [@ EXCEPT !.at = "idle", !.found = {}, !.since = {}]]
          /\ found' = [tenant |-> t, found |-> search[t].found \cup hits, since |-> search[t].since]
    BY <1>7 DEF Knowledge!SearchVector
  <2> DEFINE x == [search[t] EXCEPT !.at = "idle", !.found = {}, !.since = {}]
  <2>2. x \in Searches /\ x.at = "idle" BY <1>1 DEF Searches
  <2>3. search' = [search EXCEPT ![t] = x] BY <2>1
  <2> HIDE DEF x
  <2>4. Knowledge!TypeOK' /\ Knowledge!SearchInv' BY <1>5, <2>2, <2>3
  <2>5. Knowledge!SearchShowsPublished'
    <3>1. search[t].at = "vector" BY <1>7 DEF Knowledge!SearchVector
    <3>2. \A d \in hits : d \in Knowledge!Stored /\ Knowledge!Published(d) /\ Knowledge!Visible(t, d)
      BY DEF Knowledge!Vectors
    <3>3. \A d \in search[t].found \cup hits : d \in search[t].since /\ Knowledge!Visible(t, d)
      BY <3>1, <3>2 DEF Knowledge!IndInv, Knowledge!SearchInv
    <3> QED BY <1>1, <2>1, <3>3 DEF Knowledge!SearchShowsPublished, Knowledge!Visible
  <2> QED BY <1>2, <1>3, <2>4, <2>5 DEF Knowledge!IndInv
<1> QED BY <1>6, <1>7

\* Every step keeps the invariant, and publishes on purpose only.
LEMMA CorpusSteps ==
    ASSUME Knowledge!KnowledgeAssumption, Knowledge!IndInv, [Knowledge!Next]_(Knowledge!vars)
    PROVE  Knowledge!IndInv' /\ [OnPurpose]_(Knowledge!vars)
<1>1. CASE UNCHANGED Knowledge!vars
  <2>1. UNCHANGED <<docs, ingestKeys, commands, applied, ingestion, search, found>>
    BY <1>1 DEF Knowledge!vars
  <2>2. Knowledge!TypeOK' BY <2>1 DEF Knowledge!IndInv, Knowledge!TypeOK
  <2>3. Knowledge!BundleInv' /\ Knowledge!KeyInv'
    BY <2>1 DEF Knowledge!IndInv, Knowledge!BundleInv, Knowledge!KeyInv, Knowledge!At, Knowledge!Holds
  <2>4. Knowledge!LockInv'
    BY <2>1 DEF Knowledge!IndInv, Knowledge!LockInv, Knowledge!At, Knowledge!Holds, Knowledge!Content, Knowledge!SameContent, Knowledge!Stored
  <2>5. Knowledge!SearchInv' /\ Knowledge!SearchShowsPublished'
    BY <2>1 DEF Knowledge!IndInv, Knowledge!SearchInv, Knowledge!SearchShowsPublished, Knowledge!Stored, Knowledge!Published, Knowledge!Visible
  <2> QED BY <1>1, <2>2, <2>3, <2>4, <2>5 DEF Knowledge!IndInv
<1>2. CASE Knowledge!Next
  BY <1>2, CorpusLocks, CorpusInserts, CorpusCommands, CorpusQueries DEF Knowledge!Next
<1> QED BY <1>1, <1>2

\* An empty knowledge base.
LEMMA CorpusInit ==
    ASSUME Knowledge!KnowledgeAssumption, Knowledge!Init
    PROVE  Knowledge!IndInv
<1>1. Knowledge!TypeOK BY DEF Knowledge!Init, Knowledge!TypeOK
<1>2. /\ \A p \in Operators : applied[p] = 1 /\ ingestion[p].at = "idle"
      /\ \A t \in Tenants : search[t].at = "idle"
  BY DEF Knowledge!Init
<1>3. Knowledge!BundleInv
  <2>1. \A p \in Operators : \A i \in 1 .. Len(Bundle[p]) : ~(i < 1)
    BY DEF Knowledge!KnowledgeAssumption
  <2> QED BY <1>2, <2>1 DEF Knowledge!BundleInv, Knowledge!At
<1>4. Knowledge!KeyInv BY DEF Knowledge!Init, Knowledge!KeyInv
<1>5. Knowledge!LockInv BY <1>2 DEF Knowledge!LockInv, Knowledge!At, Knowledge!Holding
<1>6. Knowledge!SearchInv /\ Knowledge!SearchShowsPublished
  BY <1>2 DEF Knowledge!Init, Knowledge!SearchInv, Knowledge!SearchShowsPublished
<1> QED BY <1>1, <1>3, <1>4, <1>5, <1>6 DEF Knowledge!IndInv

\* What follows from the invariant.
LEMMA CorpusPromises ==
    ASSUME Knowledge!KnowledgeAssumption, Knowledge!IndInv
    PROVE  Knowledge!InsertNeverCollides /\ Knowledge!SearchShowsPublished /\ Knowledge!AppliedIsComplete
<1>1. Knowledge!InsertNeverCollides
  BY DEF Knowledge!IndInv, Knowledge!LockInv, Knowledge!InsertNeverCollides
<1>2. Knowledge!AppliedIsComplete
  <2> SUFFICES ASSUME NEW p \in Operators, applied[p] > Len(Bundle[p]),
                      NEW i \in 1 .. Len(Bundle[p])
               PROVE  \E d \in Knowledge!Stored : docs[d].scope = ScopeOf[p] /\ docs[d].content = Bundle[p][i]
    BY DEF Knowledge!AppliedIsComplete
  <2>1. i < applied[p] BY CorpusFacts
  <2> QED BY <2>1 DEF Knowledge!IndInv, Knowledge!BundleInv, Knowledge!Holds, Knowledge!Stored
<1> QED BY <1>1, <1>2 DEF Knowledge!IndInv

\* The inductive invariant of the knowledge base.
THEOREM CorpusInvariance == Knowledge!KnowledgeAssumption => (Knowledge!Spec => []Knowledge!IndInv)
<1> SUFFICES ASSUME Knowledge!KnowledgeAssumption PROVE Knowledge!Spec => []Knowledge!IndInv
  OBVIOUS
<1>1. Knowledge!Init => Knowledge!IndInv BY CorpusInit
<1>2. Knowledge!IndInv /\ [Knowledge!Next]_(Knowledge!vars) => Knowledge!IndInv' BY CorpusSteps
<1> QED BY <1>1, <1>2, PTL DEF Knowledge!Spec

\* Concurrent and repeated ingestion neither fails on the unique index nor publishes what was
\* withdrawn, a bundle reported as applied is complete, and no search serves what was withdrawn
\* before it began (ingest, change_document_status, search), for any operators, bundles, tenants,
\* documents and commands.
THEOREM CorpusSafety == Knowledge!KnowledgeAssumption => (Knowledge!Spec => Knowledge!CorpusIsSafe)
<1> SUFFICES ASSUME Knowledge!KnowledgeAssumption PROVE Knowledge!Spec => Knowledge!CorpusIsSafe
  OBVIOUS
<1>1. Knowledge!Spec => []Knowledge!IndInv BY CorpusInvariance
<1>2. Knowledge!IndInv => Knowledge!InsertNeverCollides /\ Knowledge!SearchShowsPublished /\ Knowledge!AppliedIsComplete
  BY CorpusPromises
<1>3. Knowledge!IndInv /\ [Knowledge!Next]_(Knowledge!vars) =>
        [\A d \in Knowledge!Stored : ~Knowledge!Published(d) /\ Knowledge!Published(d)' =>
          \E k \in DOMAIN commands' \ DOMAIN commands :
            commands'[k] = [doc |-> d, target |-> "published", expected |-> docs[d].version]]_(Knowledge!vars)
  BY CorpusSteps DEF OnPurpose
<1> QED
  BY <1>1, <1>2, <1>3, PTL DEF Knowledge!Spec, Knowledge!CorpusIsSafe, Knowledge!PublishedOnPurpose

-----------------------------------------------------------------------------
(* The import of historical trips. *)

\* What a step may not do to the trips of the target.
KeepsEdits ==
    \A k \in Import!Cursors : target[k] # None =>
        target'[k] # None /\ (target[k].edit # "none" => target'[k].edit # "none")

\* What a verification that passes has seen.
Seen ==
    verdict # "passed" /\ verdict' = "passed" =>
        \A k \in DOMAIN inventory.records :
            /\ target[k] # None
            /\ target[k].content = inventory.records[k]
            /\ target[k].owner = inventory.mapping[k]

\* The running backfill.
Jobs == [selected : SUBSET Import!Cursors, cursor : Nat, request : {inventory.id},
         manifest : [Import!Cursors -> Import!Entries \cup {None}], stage : Import!Stages]

\* A set of numbers up to n that is not empty has a greatest element.
LEMMA ImportGreatest ==
    ASSUME NEW n \in Nat, NEW S \in SUBSET (1 .. n), S # {}
    PROVE  \E m \in S : \A j \in S : j <= m
<1> DEFINE R == OpToRel(<, Nat)
           T == {n - k : k \in S}
<1>1. IsWellFoundedOn(R, Nat) BY NatLessThanWellFounded
<1>2. \A x, y \in Nat : <<x, y>> \in R <=> x < y BY DEF OpToRel
<1>3. T \subseteq Nat /\ T # {}
  <2>1. \A k \in S : n - k \in Nat OBVIOUS
  <2>2. PICK k \in S : TRUE OBVIOUS
  <2>3. n - k \in T BY <2>2
  <2> QED BY <2>1, <2>3
<1> HIDE DEF R
<1>4. PICK x \in T : \A y \in T : ~(<<y, x>> \in R) BY <1>1, <1>3, WFMin
<1>5. PICK m \in S : x = n - m BY <1>4
<1>6. \A j \in S : ~(n - j < n - m) BY <1>2, <1>3, <1>4, <1>5
<1> QED BY <1>6

\* The instance's notion of size is the usual one.
LEMMA ImportSizes == \A S : Import!Cardinality(S) = Cardinality(S)
BY DEF Import!Cardinality, Cardinality, Import!IsFiniteSet, IsFiniteSet

\* The next batch has a last record, and leaves out no pending record before it.
LEMMA ImportBatch ==
    ASSUME Import!ImportAssumption, NEW pending \in SUBSET Import!Cursors, Import!Batch(pending) # {}
    PROVE  /\ Import!Last(Import!Batch(pending)) \in Import!Batch(pending) /\ Import!Batch(pending) \subseteq pending
           /\ \A k \in pending : k <= Import!Last(Import!Batch(pending)) => k \in Import!Batch(pending)
           /\ \A k \in Import!Batch(pending) : k <= Import!Last(Import!Batch(pending))
<1> DEFINE B == Import!Batch(pending)
           m == Import!Last(B)
           Upto(k) == {j \in pending : j <= k}
<1>1. B \subseteq pending /\ \A k \in pending : k \in B <=> Cardinality(Upto(k)) <= BatchSize
  BY ImportSizes DEF Import!Batch
<1>2. B \in SUBSET (1 .. Records) /\ Records \in Nat
  BY <1>1 DEF Import!Cursors, Import!ImportAssumption
<1> HIDE DEF B
<1>3. \E x \in B : \A j \in B : j <= x BY <1>2, ImportGreatest DEF B
<1>4. m \in B /\ \A j \in B : j <= m BY <1>3 DEF Import!Last
<1> HIDE DEF m
<1>5. ASSUME NEW k \in pending, k <= m PROVE k \in B
  <2>1. m \in pending /\ k \in Int /\ m \in Int /\ \A j \in pending : j \in Int
    BY <1>1, <1>4 DEF Import!Cursors
  <2>2. Upto(k) \subseteq Upto(m)
    <3> SUFFICES ASSUME NEW j \in pending, j <= k PROVE j <= m
      OBVIOUS
    <3>1. j \in Int /\ k \in Int /\ m \in Int BY <2>1
    <3> QED BY <1>5, <3>1
  <2>3. IsFiniteSet(Upto(m))
    <3>1. IsFiniteSet(1 .. Records) BY <1>2, FS_Interval
    <3>2. Upto(m) \in SUBSET (1 .. Records) BY DEF Import!Cursors
    <3> QED BY <3>1, <3>2, FS_Subset
  <2>4. /\ Cardinality(Upto(k)) <= Cardinality(Upto(m))
        /\ Cardinality(Upto(k)) \in Nat /\ Cardinality(Upto(m)) \in Nat
    <3>1. IsFiniteSet(Upto(k)) /\ Cardinality(Upto(k)) <= Cardinality(Upto(m))
      BY <2>2, <2>3, FS_Subset
    <3> QED BY <2>3, <3>1, FS_CardinalityType
  <2>5. Cardinality(Upto(m)) <= BatchSize /\ BatchSize \in Nat
    BY <1>1, <1>4, <2>1 DEF Import!ImportAssumption
  <2> HIDE DEF Upto
  <2>6. Cardinality(Upto(k)) <= BatchSize BY <2>4, <2>5
  <2> QED BY <1>1, <2>6
<1> QED BY <1>1, <1>4, <1>5 DEF B, m

\* What the sources say of a record is one of the contents.
LEMMA ImportLoads ==
    ASSUME Import!TypeOK, NEW k \in DOMAIN Import!Loaded
    PROVE  k \in Import!Cursors /\ Import!Loaded[k] \in Contents
<1>1. k \in Import!Cursors /\ Import!Versions(k) # {} /\ Import!Loaded[k] = CHOOSE c \in Contents : c \in Import!Versions(k)
  BY DEF Import!Loaded
<1>2. Import!Versions(k) \subseteq Contents BY <1>1 DEF Import!Versions, Import!TypeOK
<1> QED BY <1>1, <1>2

\* A step that changes neither trips nor manifest, state file, inventory, sources and mapping.
LEMMA ImportStill ==
    ASSUME Import!IndInv, UNCHANGED <<source, mapping, inventory, target, manifest, progress>>,
           job' = job \/ job' = None
    PROVE  Import!IndInv' /\ KeepsEdits
<1>1. /\ Import!SnapshotStands' = Import!SnapshotStands /\ Import!CursorIsCovered' = Import!CursorIsCovered
      /\ Import!ImportedAsInventoried' = Import!ImportedAsInventoried
  BY DEF Import!SnapshotStands, Import!Loaded, Import!Versions, Import!CursorIsCovered, Import!ImportedAsInventoried
<1>2. CASE job' = None
  <2>1. Import!TypeOK' BY <1>2 DEF Import!IndInv, Import!TypeOK
  <2>2. Import!JobInv' /\ Import!DoneInv' /\ Import!FilesInv'
    BY <1>2 DEF Import!JobInv, Import!DoneInv, Import!FilesInv
  <2>3. Import!CursorIsCovered' /\ Import!ImportedAsInventoried' BY <1>1 DEF Import!IndInv
  <2> QED BY <2>1, <2>2, <2>3 DEF Import!IndInv, KeepsEdits
<1>3. CASE job' = job
  <2>1. Import!TypeOK' BY <1>3 DEF Import!IndInv, Import!TypeOK
  <2>2. Import!JobInv' /\ Import!DoneInv' /\ Import!FilesInv'
    BY <1>1, <1>3 DEF Import!IndInv, Import!JobInv, Import!DoneInv, Import!FilesInv
  <2>3. Import!CursorIsCovered' /\ Import!ImportedAsInventoried' BY <1>1 DEF Import!IndInv
  <2> QED BY <2>1, <2>2, <2>3 DEF Import!IndInv, KeepsEdits
<1> QED BY <1>2, <1>3

\* A step without a running backfill.
LEMMA ImportOutside ==
    ASSUME Import!ImportAssumption, Import!IndInv,
           Import!Inventory \/ Import!SourceChanges \/ Import!MappingChanges \/ Import!Verify \/ Import!Crash
    PROVE  Import!IndInv' /\ KeepsEdits /\ Seen
<1>1. CASE Import!Inventory
  <2>1. /\ job = None /\ job' = None /\ progress' = None /\ verdict' = "none"
        /\ UNCHANGED <<source, mapping, target, manifest>> /\ inventory'.records = Import!Loaded
    BY <1>1 DEF Import!Inventory
  <2>2. DOMAIN inventory'.records \subseteq Import!Cursors BY <2>1 DEF Import!Loaded
  <2>3. Import!TypeOK' BY <2>1, <2>2 DEF Import!IndInv, Import!TypeOK
  <2> QED
    BY <2>1, <2>3 DEF Import!IndInv, Import!JobInv, Import!DoneInv, Import!FilesInv, Import!CursorIsCovered,
                            Import!ImportedAsInventoried, KeepsEdits, Seen
<1>2. CASE Import!SourceChanges
  <2>1. /\ job = None /\ job' = None /\ verdict' = verdict
        /\ UNCHANGED <<mapping, inventory, target, manifest, progress>>
    BY <1>2 DEF Import!SourceChanges
  <2>2. PICK c \in Copies, k \in Import!Cursors, x \in Contents \union {None} :
           source' = [source EXCEPT ![c][k] = x]
    BY <1>2 DEF Import!SourceChanges
  <2>3. source' \in [Copies -> [Import!Cursors -> Contents \cup {None}]]
    <3>1. source \in [Copies -> [Import!Cursors -> Contents \cup {None}]]
      BY DEF Import!IndInv, Import!TypeOK
    <3> DEFINE row == [source[c] EXCEPT ![k] = x]
    <3>2. row \in [Import!Cursors -> Contents \cup {None}] BY <3>1
    <3>3. source' = [source EXCEPT ![c] = row] BY <2>2
    <3> QED BY <3>1, <3>2, <3>3
  <2>4. Import!TypeOK' BY <2>1, <2>3 DEF Import!IndInv, Import!TypeOK
  <2> QED
    BY <2>1, <2>4 DEF Import!IndInv, Import!JobInv, Import!DoneInv, Import!FilesInv, Import!CursorIsCovered,
                            Import!ImportedAsInventoried, KeepsEdits, Seen
<1>3. CASE Import!MappingChanges
  <2>1. /\ job = None /\ job' = None /\ verdict' = verdict
        /\ UNCHANGED <<source, inventory, target, manifest, progress>>
        /\ \E k \in Import!Cursors, o \in Owners : mapping' = [mapping EXCEPT ![k] = o]
    BY <1>3 DEF Import!MappingChanges
  <2>2. Import!TypeOK' BY <2>1 DEF Import!IndInv, Import!TypeOK
  <2> QED
    BY <2>1, <2>2 DEF Import!IndInv, Import!JobInv, Import!DoneInv, Import!FilesInv, Import!CursorIsCovered,
                            Import!ImportedAsInventoried, KeepsEdits, Seen
<1>4. CASE Import!Verify
  <2>1. /\ UNCHANGED <<source, mapping, inventory, target, manifest, progress>> /\ job' = job
        /\ Import!SnapshotStands /\ mapping = inventory.mapping
        /\ verdict' = "passed" => \A k \in DOMAIN inventory.records : Import!Reconciled(k)
    BY <1>4 DEF Import!Verify, Import!inputs
  <2>2. Seen BY <2>1 DEF Seen, Import!Reconciled, Import!SnapshotStands
  <2> QED BY <2>1, <2>2, ImportStill
<1>5. CASE Import!Crash
  <2>1. /\ UNCHANGED <<source, mapping, inventory, target, manifest, progress>> /\ job' = None
        /\ verdict' = verdict
    BY <1>5 DEF Import!Crash, Import!inputs
  <2> QED BY <2>1, ImportStill DEF Seen
<1> QED BY <1>1, <1>2, <1>3, <1>4, <1>5

\* An owner changes a trip.
LEMMA ImportEdits ==
    ASSUME Import!ImportAssumption, Import!IndInv, Import!OwnerEdits
    PROVE  Import!IndInv' /\ KeepsEdits /\ Seen
<1>1. /\ UNCHANGED <<source, mapping, inventory, manifest, progress>> /\ job' = job
      /\ verdict' = verdict
  BY DEF Import!OwnerEdits, Import!inputs
<1>2. PICK k \in Import!Cursors, edit \in {"renamed", "replanned"} :
         target[k] # None /\ target' = [target EXCEPT ![k].edit = edit]
  BY DEF Import!OwnerEdits
<1>3. target \in [Import!Cursors -> Import!Trips \cup {None}] BY DEF Import!IndInv, Import!TypeOK
<1> DEFINE row == [target[k] EXCEPT !.edit = edit]
<1>4. /\ row \in Import!Trips /\ row.content = target[k].content /\ row.owner = target[k].owner
      /\ row.edit # "none"
  BY <1>2, <1>3 DEF Import!Trips
<1>5. target' = [target EXCEPT ![k] = row] BY <1>2
<1> HIDE DEF row
<1>6. /\ target' \in [Import!Cursors -> Import!Trips \cup {None}] /\ target'[k] = row
      /\ \A j \in Import!Cursors : j # k => target'[j] = target[j]
  BY <1>3, <1>4, <1>5
<1>7. \A j \in Import!Cursors : target[j] # None =>
         /\ target'[j] # None /\ target'[j].content = target[j].content
         /\ target'[j].owner = target[j].owner
         /\ target[j].edit # "none" => target'[j].edit # "none"
  BY <1>4, <1>6 DEF Import!ImportAssumption
<1>8. \A j \in Import!Cursors : target'[j] # None => target[j] # None BY <1>2, <1>6
<1>9. Import!TypeOK' BY <1>1, <1>6 DEF Import!IndInv, Import!TypeOK
<1>10. Import!JobInv'
  <2>1. Import!SnapshotStands' = Import!SnapshotStands
    BY <1>1 DEF Import!SnapshotStands, Import!Loaded, Import!Versions
  <2> QED BY <1>1, <2>1 DEF Import!IndInv, Import!JobInv
<1>11. Import!DoneInv'
  <2>1. job # None => job.selected \subseteq Import!Cursors BY DEF Import!IndInv, Import!TypeOK
  <2> QED BY <1>1, <1>7, <2>1 DEF Import!IndInv, Import!DoneInv
<1>12. Import!FilesInv' BY <1>1 DEF Import!IndInv, Import!FilesInv
<1>13. Import!CursorIsCovered' /\ Import!ImportedAsInventoried'
  <2> SUFFICES ASSUME progress # None, NEW j \in DOMAIN inventory.records, j <= progress.cursor
               PROVE  /\ target'[j] # None /\ manifest[j] # None
                      /\ target'[j].content = inventory.records[j]
                      /\ target'[j].owner = inventory.mapping[j]
    BY <1>1 DEF Import!CursorIsCovered, Import!ImportedAsInventoried
  <2>1. /\ target[j] # None /\ manifest[j] # None
        /\ target[j].content = inventory.records[j] /\ target[j].owner = inventory.mapping[j]
    BY DEF Import!IndInv, Import!CursorIsCovered, Import!ImportedAsInventoried
  <2>2. j \in Import!Cursors BY DEF Import!IndInv, Import!TypeOK
  <2> QED BY <1>7, <2>1, <2>2
<1> QED BY <1>1, <1>7, <1>9, <1>10, <1>11, <1>12, <1>13 DEF Import!IndInv, KeepsEdits, Seen

\* A backfill begins, goes on from the manifest it has written, or ends.
LEMMA ImportFiles ==
    ASSUME Import!ImportAssumption, Import!IndInv,
           Import!Backfill \/ Import!WriteManifest \/ Import!WriteProgress \/ Import!Complete \/ Import!Close
    PROVE  Import!IndInv' /\ KeepsEdits /\ Seen
<1>1. /\ UNCHANGED <<source, mapping, inventory, target>> /\ verdict' = verdict
      /\ Import!SnapshotStands' = Import!SnapshotStands
  <2>1. UNCHANGED <<source, mapping, inventory, target>> /\ verdict' = verdict
    BY DEF Import!Backfill, Import!WriteManifest, Import!WriteProgress, Import!Complete, Import!Close, Import!inputs
  <2> QED BY <2>1 DEF Import!SnapshotStands, Import!Loaded, Import!Versions
<1>2. KeepsEdits /\ Seen BY <1>1 DEF KeepsEdits, Seen
<1>3. /\ manifest \in [Import!Cursors -> Import!Entries \cup {None}]
      /\ progress # None => /\ progress.cursor \in Nat
                              /\ \A k \in DOMAIN inventory.records : k <= progress.cursor =>
                                    /\ target[k] # None /\ manifest[k] # None
                                    /\ target[k].content = inventory.records[k]
                                    /\ target[k].owner = inventory.mapping[k]
  BY DEF Import!IndInv, Import!TypeOK, Import!CursorIsCovered, Import!ImportedAsInventoried
<1>4. job # None =>
        /\ job \in Jobs /\ inventory # None /\ job.selected = DOMAIN inventory.records
        /\ job.cursor \in Nat /\ job.manifest \in [Import!Cursors -> Import!Entries \cup {None}]
        /\ job.selected \subseteq Import!Cursors
  BY DEF Import!IndInv, Import!TypeOK, Jobs
<1>5. CASE Import!Backfill
  <2> DEFINE c == IF progress = None THEN 0 ELSE progress.cursor
             new == [selected |-> DOMAIN inventory.records, cursor |-> c, manifest |-> manifest,
                     request |-> inventory.id, stage |-> "batch"]
  <2>1. /\ job' = new /\ UNCHANGED <<manifest, progress>> /\ inventory # None /\ Import!SnapshotStands
        /\ mapping = inventory.mapping
        /\ \A k \in DOMAIN inventory.records : mapping[k] # None
    BY <1>5 DEF Import!Backfill, Import!Admissible
  <2>2. c \in Nat /\ DOMAIN inventory.records \subseteq Import!Cursors
    BY <1>3, <2>1 DEF Import!IndInv, Import!TypeOK
  <2>3. \A k \in DOMAIN inventory.records : k <= c =>
          /\ target[k] # None /\ manifest[k] # None
          /\ target[k].content = inventory.records[k] /\ target[k].owner = inventory.mapping[k]
    <3>1. CASE progress # None BY <1>3, <3>1
    <3>2. CASE progress = None
      <4>1. \A k \in Import!Cursors : ~(k <= 0) BY DEF Import!Cursors, Import!ImportAssumption
      <4> QED BY <2>2, <3>2, <4>1
    <3> QED BY <3>1, <3>2
  <2> HIDE DEF c
  <2>4. /\ new \in Jobs /\ new.selected = DOMAIN inventory.records /\ new.cursor = c
        /\ new.manifest = manifest
    BY <1>3, <2>2 DEF Jobs, Import!Stages
  <2> HIDE DEF new
  <2>5. Import!TypeOK' BY <1>1, <2>1, <2>4 DEF Import!IndInv, Import!TypeOK, Jobs
  <2>6. Import!JobInv' BY <1>1, <2>1, <2>4 DEF Import!JobInv
  <2>7. Import!DoneInv' BY <1>1, <2>1, <2>3, <2>4 DEF Import!DoneInv
  <2>8. Import!FilesInv' BY <2>1, <2>4 DEF Import!FilesInv
  <2>9. Import!CursorIsCovered' /\ Import!ImportedAsInventoried'
    BY <1>1, <2>1 DEF Import!IndInv, Import!CursorIsCovered, Import!ImportedAsInventoried
  <2> QED BY <1>2, <2>5, <2>6, <2>7, <2>8, <2>9 DEF Import!IndInv
<1>6. CASE Import!WriteManifest
  <2> DEFINE new == [job EXCEPT !.stage = "progress"]
  <2>1. job # None /\ manifest' = job.manifest /\ job' = new /\ progress' = progress
    BY <1>6 DEF Import!WriteManifest, Import!After, Import!RecordingOrder
  <2>2. /\ new \in Jobs /\ new.selected = job.selected /\ new.cursor = job.cursor
        /\ new.manifest = job.manifest
    BY <1>4, <2>1 DEF Jobs, Import!Stages
  <2> HIDE DEF new
  <2>3. Import!TypeOK' BY <1>1, <1>4, <2>1, <2>2 DEF Import!IndInv, Import!TypeOK, Jobs
  <2>4. Import!JobInv' BY <1>1, <2>1, <2>2 DEF Import!IndInv, Import!JobInv
  <2>5. Import!DoneInv' BY <1>1, <2>1, <2>2 DEF Import!IndInv, Import!DoneInv
  <2>6. Import!FilesInv' BY <2>1, <2>2 DEF Import!FilesInv
  <2>7. Import!CursorIsCovered' /\ Import!ImportedAsInventoried'
    <3>1. \A k \in Import!Cursors : manifest[k] # None => job.manifest[k] # None
      BY <2>1 DEF Import!IndInv, Import!FilesInv
    <3> QED
      BY <1>1, <1>4, <2>1, <3>1 DEF Import!IndInv, Import!CursorIsCovered, Import!ImportedAsInventoried
  <2> QED BY <1>2, <2>3, <2>4, <2>5, <2>6, <2>7 DEF Import!IndInv
<1>7. CASE Import!WriteProgress \/ Import!Complete
  <2>1. PICK stage \in Import!Stages : /\ stage # "manifest" /\ job' = [job EXCEPT !.stage = stage]
                               /\ job # None /\ job.stage # "manifest"
                               /\ manifest' = manifest /\ progress'.cursor = job.cursor
    BY <1>7 DEF Import!WriteProgress, Import!Complete, Import!After, Import!RecordingOrder, Import!Stages
  <2> DEFINE new == [job EXCEPT !.stage = stage]
  <2>2. /\ new \in Jobs /\ new.selected = job.selected /\ new.cursor = job.cursor
        /\ new.manifest = job.manifest /\ job' = new
    BY <1>4, <2>1 DEF Jobs
  <2> HIDE DEF new
  <2>3. Import!TypeOK' BY <1>1, <1>3, <1>4, <2>1, <2>2 DEF Import!IndInv, Import!TypeOK, Jobs
  <2>4. Import!JobInv' BY <1>1, <2>1, <2>2 DEF Import!IndInv, Import!JobInv
  <2>5. Import!DoneInv' BY <1>1, <2>1, <2>2 DEF Import!IndInv, Import!DoneInv
  <2>6. manifest = job.manifest BY <2>1 DEF Import!IndInv, Import!FilesInv
  <2>7. Import!FilesInv' BY <2>1, <2>2, <2>6 DEF Import!FilesInv
  <2>8. Import!CursorIsCovered' /\ Import!ImportedAsInventoried'
    BY <1>1, <1>4, <2>1, <2>6 DEF Import!IndInv, Import!DoneInv, Import!CursorIsCovered, Import!ImportedAsInventoried
  <2> QED BY <1>2, <2>3, <2>4, <2>5, <2>7, <2>8 DEF Import!IndInv
<1>8. CASE Import!Close
  <2>1. /\ job # None /\ job.stage = "close" /\ manifest' = job.manifest /\ job' = None
        /\ progress' = progress
    BY <1>8 DEF Import!Close
  <2>2. manifest = job.manifest BY <2>1 DEF Import!IndInv, Import!FilesInv
  <2> QED BY <1>1, <1>2, <2>1, <2>2, ImportStill
<1> QED BY <1>5, <1>6, <1>7, <1>8

\* A batch.
LEMMA ImportCommits ==
    ASSUME Import!ImportAssumption, Import!IndInv, Import!CommitBatch
    PROVE  Import!IndInv' /\ KeepsEdits /\ Seen
<1> DEFINE pending == Import!Pending(job.selected, job.cursor)
           batch == Import!Batch(pending)
           m == Import!Last(batch)
<1>1. /\ job # None /\ batch # {} /\ UNCHANGED <<source, mapping, inventory, manifest, progress>>
      /\ verdict' = verdict /\ Import!SnapshotStands' = Import!SnapshotStands
  <2>1. /\ job # None /\ batch # {} /\ verdict' = verdict
        /\ UNCHANGED <<source, mapping, inventory, manifest, progress>>
    BY DEF Import!CommitBatch, Import!inputs
  <2> QED BY <2>1 DEF Import!SnapshotStands, Import!Loaded, Import!Versions
<1>2. /\ job \in Jobs /\ inventory # None /\ job.selected = DOMAIN inventory.records
      /\ job.cursor \in Nat /\ job.manifest \in [Import!Cursors -> Import!Entries \cup {None}]
      /\ job.selected \subseteq Import!Cursors /\ target \in [Import!Cursors -> Import!Trips \cup {None}]
  BY <1>1 DEF Import!IndInv, Import!TypeOK, Jobs
<1>3. /\ pending \in SUBSET Import!Cursors /\ pending \subseteq job.selected
      /\ \A k \in job.selected : k <= job.cursor \/ k \in pending
  BY <1>2 DEF Import!Pending, Import!Cursors
<1>4. /\ m \in batch /\ batch \subseteq pending
      /\ \A k \in pending : k <= m => k \in batch
  BY <1>1, <1>3, ImportBatch
<1>5. CASE \E k \in batch : Import!Conflicts(k)
  <2>1. job' = None /\ target' = target BY <1>5 DEF Import!CommitBatch
  <2> QED BY <1>1, <2>1, ImportStill DEF Seen
<1>6. CASE ~\E k \in batch : Import!Conflicts(k)
  <2> DEFINE entry(k) == [source |-> Import!Loaded[k], target |-> Import!Loaded[k]]
             files == [k \in Import!Cursors |-> IF k \in batch THEN entry(k) ELSE job.manifest[k]]
             new == [job EXCEPT !.cursor = m, !.stage = "manifest", !.manifest = files]
  <2>1. /\ target' = [k \in Import!Cursors |-> IF k \in batch THEN Import!Rows(k) ELSE target[k]]
        /\ job' = new
    BY <1>6 DEF Import!CommitBatch, Import!RecordingOrder
  <2>2. ASSUME NEW k \in batch
        PROVE  /\ k \in Import!Cursors /\ Import!Rows(k) \in Import!Trips /\ Import!Rows(k).edit = "none"
               /\ Import!Rows(k).content = inventory.records[k] /\ Import!Rows(k).owner = inventory.mapping[k]
               /\ entry(k) \in Import!Entries
    <3>1. /\ k \in DOMAIN Import!Loaded /\ Import!Loaded[k] = inventory.records[k]
          /\ mapping = inventory.mapping /\ mapping[k] # None /\ k \in Import!Cursors
      BY <1>1, <1>2, <1>3, <1>4 DEF Import!IndInv, Import!JobInv, Import!SnapshotStands
    <3>2. Import!Loaded[k] \in Contents /\ mapping[k] \in Owners
      BY <3>1, ImportLoads DEF Import!IndInv, Import!TypeOK
    <3> QED BY <3>1, <3>2 DEF Import!Rows, Import!Trips, Import!Entries
  <2> HIDE DEF entry, batch, m, pending
  <2>3. /\ files \in [Import!Cursors -> Import!Entries \cup {None}]
        /\ \A k \in Import!Cursors : files[k] = IF k \in batch THEN entry(k) ELSE job.manifest[k]
    BY <1>2, <2>2
  <2> HIDE DEF files
  <2>4. m \in Nat BY <1>4, <2>2 DEF Import!Cursors
  <2>5. /\ new \in Jobs /\ new.selected = job.selected /\ new.cursor = m /\ new.manifest = files
        /\ new.stage = "manifest"
    BY <1>2, <2>3, <2>4 DEF Jobs, Import!Stages
  <2> HIDE DEF new
  <2>6. /\ \A k \in Import!Cursors : target'[k] = IF k \in batch THEN Import!Rows(k) ELSE target[k]
        /\ target' \in [Import!Cursors -> Import!Trips \cup {None}]
    BY <1>2, <2>1, <2>2
  <2>7. None \notin Import!Trips /\ None \notin Import!Entries BY DEF Import!ImportAssumption
  <2>8. Import!TypeOK' BY <1>1, <1>2, <2>1, <2>5, <2>6 DEF Import!IndInv, Import!TypeOK, Jobs
  <2>9. Import!JobInv' BY <1>1, <2>1, <2>5 DEF Import!IndInv, Import!JobInv
  <2>10. Import!DoneInv'
    <3> SUFFICES ASSUME NEW k \in job.selected, k <= m
                 PROVE  /\ target'[k] # None /\ files[k] # None
                        /\ target'[k].content = inventory.records[k]
                        /\ target'[k].owner = inventory.mapping[k]
      BY <1>1, <2>1, <2>5 DEF Import!DoneInv
    <3>1. CASE k \in batch BY <2>2, <2>3, <2>6, <2>7, <3>1
    <3>2. CASE k \notin batch
      <4>1. k <= job.cursor /\ k \in Import!Cursors BY <1>2, <1>3, <1>4, <3>2
      <4> QED BY <1>1, <2>3, <2>6, <3>2, <4>1 DEF Import!IndInv, Import!DoneInv
    <3> QED BY <3>1, <3>2
  <2>11. Import!FilesInv'
    <3>1. \A k \in Import!Cursors : manifest[k] # None => files[k] # None
      BY <1>1, <2>2, <2>3, <2>7 DEF Import!IndInv, Import!FilesInv
    <3> QED BY <1>1, <2>1, <2>5, <3>1 DEF Import!FilesInv
  <2>12. Import!CursorIsCovered' /\ Import!ImportedAsInventoried'
    <3> SUFFICES ASSUME progress # None, NEW k \in DOMAIN inventory.records, k <= progress.cursor
                 PROVE  /\ target'[k] # None /\ manifest[k] # None
                        /\ target'[k].content = inventory.records[k]
                        /\ target'[k].owner = inventory.mapping[k]
      BY <1>1 DEF Import!CursorIsCovered, Import!ImportedAsInventoried
    <3>1. /\ target[k] # None /\ manifest[k] # None /\ k \in Import!Cursors
          /\ target[k].content = inventory.records[k] /\ target[k].owner = inventory.mapping[k]
      BY <1>2 DEF Import!IndInv, Import!CursorIsCovered, Import!ImportedAsInventoried
    <3> QED BY <2>2, <2>6, <2>7, <3>1
  <2>13. KeepsEdits
    <3> SUFFICES ASSUME NEW k \in Import!Cursors, target[k] # None
                 PROVE  target'[k] # None /\ (target[k].edit # "none" => target'[k].edit # "none")
      BY DEF KeepsEdits
    <3>1. CASE k \in batch
      <4>1. target[k] = Import!Rows(k) BY <1>6, <3>1 DEF Import!Conflicts
      <4> QED BY <2>6, <3>1, <4>1
    <3>2. CASE k \notin batch BY <2>6, <3>2
    <3> QED BY <3>1, <3>2
  <2> QED BY <1>1, <2>8, <2>9, <2>10, <2>11, <2>12, <2>13 DEF Import!IndInv, Seen
<1> QED BY <1>5, <1>6

\* Every step keeps the invariant and the owners' edits, and passes only what it has seen.
LEMMA ImportSteps ==
    ASSUME Import!ImportAssumption, Import!IndInv, [Import!Next]_(Import!vars)
    PROVE  Import!IndInv' /\ [KeepsEdits]_(Import!vars) /\ [Seen]_(Import!vars)
<1>1. CASE UNCHANGED Import!vars
  <2>1. UNCHANGED <<source, mapping, inventory, target, manifest, progress>> /\ job' = job
    BY <1>1 DEF Import!vars
  <2> QED BY <1>1, <2>1, ImportStill
<1>2. CASE Import!Next
  BY <1>2, ImportOutside, ImportEdits, ImportFiles, ImportCommits DEF Import!Next
<1> QED BY <1>1, <1>2

\* Nothing has been imported.
LEMMA ImportInit ==
    ASSUME Import!Init
    PROVE  Import!IndInv
<1>1. /\ source \in [Copies -> [Import!Cursors -> Contents \cup {None}]]
      /\ mapping \in [Import!Cursors -> Owners \cup {None}]
  BY DEF Import!Init
<1> QED
  BY <1>1 DEF Import!Init, Import!IndInv, Import!TypeOK, Import!JobInv, Import!DoneInv, Import!FilesInv, Import!CursorIsCovered,
                    Import!ImportedAsInventoried

\* The inductive invariant of the import.
THEOREM ImportInvariance == Import!ImportAssumption => (Import!Spec => []Import!IndInv)
<1> SUFFICES ASSUME Import!ImportAssumption PROVE Import!Spec => []Import!IndInv
  OBVIOUS
<1>1. Import!Init => Import!IndInv BY ImportInit
<1>2. Import!IndInv /\ [Import!Next]_(Import!vars) => Import!IndInv' BY ImportSteps
<1> QED BY <1>1, <1>2, PTL DEF Import!Spec

\* An import that dies between its transaction, its manifest and its state file skips nothing when
\* it is resumed, imports what was inventoried, passes its verification only then, and overwrites no
\* owner's work (core.py: backfill, verify), for any number of records and any batch size.
THEOREM ImportSafety == Import!ImportAssumption => (Import!Spec => Import!ImportIsFaithful)
<1> SUFFICES ASSUME Import!ImportAssumption PROVE Import!Spec => Import!ImportIsFaithful
  OBVIOUS
<1>1. Import!Spec => []Import!IndInv BY ImportInvariance
<1>2. Import!IndInv => Import!CursorIsCovered /\ Import!ImportedAsInventoried BY DEF Import!IndInv
<1>3. Import!IndInv /\ [Import!Next]_(Import!vars) =>
        /\ [\A k \in Import!Cursors : target[k] # None =>
              target'[k] # None /\ (target[k].edit # "none" => target'[k].edit # "none")]_(Import!vars)
        /\ [verdict # "passed" /\ verdict' = "passed" =>
              \A k \in DOMAIN inventory.records :
                /\ target[k] # None
                /\ target[k].content = inventory.records[k]
                /\ target[k].owner = inventory.mapping[k]]_(Import!vars)
  BY ImportSteps DEF KeepsEdits, Seen
<1> QED
  BY <1>1, <1>2, <1>3, PTL DEF Import!Spec, Import!ImportIsFaithful, Import!PassedMeansImported, Import!EditsSurvive

-----------------------------------------------------------------------------
(* Planning, replanning and answering. *)

\* The instance's notion of size is the usual one.
LEMMA AgentSizes == \A S : Agents!Cardinality(S) = Cardinality(S)
BY DEF Agents!Cardinality, Cardinality, Agents!IsFiniteSet, IsFiniteSet

\* A set of numbers that is not empty has a least element.
LEMMA AgentLeast ==
    ASSUME NEW T \in SUBSET Nat, T # {}
    PROVE  \E x \in T : \A y \in T : x <= y
<1> DEFINE R == OpToRel(<, Nat)
<1>1. IsWellFoundedOn(R, Nat) BY NatLessThanWellFounded
<1>2. \A x, y \in Nat : <<x, y>> \in R <=> x < y BY DEF OpToRel
<1> HIDE DEF R
<1>3. PICK x \in T : \A y \in T : ~(<<y, x>> \in R) BY <1>1, WFMin
<1>4. \A y \in T : y \in Nat /\ x \in Nat /\ ~(y < x) BY <1>2, <1>3
<1> QED BY <1>4

\* Among n numbers, each count up to the size of I is reached at an element of I.
LEMMA CountIsReached ==
    ASSUME NEW n \in Nat, NEW I \in SUBSET (1 .. n)
    PROVE  /\ IsFiniteSet(I) /\ Cardinality(I) \in Nat
           /\ \A k \in 1 .. Cardinality(I) :
                \E i \in I : Cardinality({j \in I : j <= i}) = k
<1> DEFINE Upto(m) == {j \in I : j <= m}
<1>1. IsFiniteSet(I) /\ Cardinality(I) \in Nat
  <2>1. IsFiniteSet(1 .. n) BY FS_Interval
  <2> QED BY <2>1, FS_Subset, FS_CardinalityType
<1>2. \A m \in Nat : IsFiniteSet(Upto(m)) /\ Cardinality(Upto(m)) \in Nat
  <2>1. \A m \in Nat : Upto(m) \in SUBSET I OBVIOUS
  <2> QED BY <1>1, <2>1, FS_Subset, FS_CardinalityType
<1>3. Upto(n) = I /\ Upto(0) = {}
  <2>1. \A j \in I : j \in Nat /\ j <= n /\ ~(j <= 0) OBVIOUS
  <2> QED BY <2>1
<1>4. \A m \in Nat \ {0} : /\ m \notin I => Upto(m) = Upto(m - 1)
                           /\ m \in I => Upto(m) = Upto(m - 1) \cup {m}
                           /\ m \notin Upto(m - 1)
  <2> TAKE m \in Nat \ {0}
  <2>1. \A j \in I : j \in Nat OBVIOUS
  <2>2. \A j \in Nat : j <= m <=> j <= m - 1 \/ j = m OBVIOUS
  <2>3. ~(m <= m - 1) OBVIOUS
  <2> QED BY <2>1, <2>2, <2>3
<1> HIDE DEF Upto
<1>5. ASSUME NEW k \in Nat, 1 <= k, k <= Cardinality(I) PROVE \E i \in I : Cardinality(Upto(i)) = k
  <2> DEFINE S == {m \in Nat : Cardinality(Upto(m)) >= k}
  <2>1. n \in S BY <1>1, <1>3, <1>5
  <2>2. PICK m \in S : \A y \in S : m <= y BY <2>1, AgentLeast
  <2>3. m # 0 BY <1>3, <1>5, FS_EmptySet
  <2>4. m \in Nat \ {0} /\ m - 1 \in Nat /\ m - 1 \notin S
    <3>1. m \in Nat \ {0} BY <2>2, <2>3
    <3>2. m - 1 \in Nat /\ ~(m <= m - 1) BY <3>1
    <3> QED BY <2>2, <3>1, <3>2
  <2>5. /\ Cardinality(Upto(m)) \in Nat /\ Cardinality(Upto(m - 1)) \in Nat
        /\ Cardinality(Upto(m)) >= k /\ ~(Cardinality(Upto(m - 1)) >= k)
    BY <1>2, <2>2, <2>4
  <2>6. m \in I BY <1>4, <2>4, <2>5
  <2>7. Cardinality(Upto(m)) = Cardinality(Upto(m - 1)) + 1
    BY <1>2, <1>4, <2>4, <2>6, FS_AddElement
  <2> HIDE DEF S
  <2> QED BY <2>5, <2>6, <2>7
<1>6. \A k \in 1 .. Cardinality(I) : k \in Nat /\ 1 <= k /\ k <= Cardinality(I) BY <1>1
<1> QED BY <1>1, <1>5, <1>6 DEF Upto

\* What is picked from a sequence is a sequence of its elements.
LEMMA PickedIsSeq ==
    ASSUME NEW T, NEW s \in Seq(T), NEW I \in SUBSET (DOMAIN s)
    PROVE  Agents!Picked(s, I) \in Seq(T)
<1> DEFINE pos(k) == CHOOSE i \in I : Agents!Cardinality({j \in I : j <= i}) = k
<1>1. Len(s) \in Nat /\ DOMAIN s = 1 .. Len(s) /\ \A i \in DOMAIN s : s[i] \in T OBVIOUS
<1>2. /\ Cardinality(I) \in Nat
      /\ \A k \in 1 .. Cardinality(I) : \E i \in I : Cardinality({j \in I : j <= i}) = k
  BY <1>1, CountIsReached
<1>3. \A k \in 1 .. Cardinality(I) : pos(k) \in I
  <2> TAKE k \in 1 .. Cardinality(I)
  <2>1. \E i \in I : Agents!Cardinality({j \in I : j <= i}) = k BY <1>2, AgentSizes
  <2> HIDE DEF pos
  <2> QED BY <2>1 DEF pos
<1>4. Agents!Picked(s, I) = [k \in 1 .. Cardinality(I) |-> s[pos(k)]]
  BY AgentSizes DEF Agents!Picked
<1> HIDE DEF pos
<1>5. [k \in 1 .. Cardinality(I) |-> s[pos(k)]] \in [1 .. Cardinality(I) -> T] BY <1>1, <1>3
<1> QED BY <1>2, <1>4, <1>5

\* Repeating a sequence n times, position by position.
LEMMA CycleIsSeq ==
    ASSUME NEW T, NEW s \in Seq(T), NEW n \in Nat
    PROVE  [i \in 1 .. n * Len(s) |-> s[((i - 1) % Len(s)) + 1]] \in Seq(T)
<1> DEFINE m == n * Len(s)
<1>1. Len(s) \in Nat /\ m \in Nat /\ \A i \in 1 .. Len(s) : s[i] \in T OBVIOUS
<1>2. ASSUME NEW i \in 1 .. m PROVE s[((i - 1) % Len(s)) + 1] \in T
  <2>1. Len(s) # 0
    <3>1. CASE Len(s) = 0
      <4>1. m = 0 BY <3>1
      <4> QED BY <4>1
    <3> QED BY <3>1
  <2>2. i - 1 \in Nat BY <1>1
  <2>3. (i - 1) % Len(s) \in 0 .. Len(s) - 1 BY <1>1, <2>1, <2>2
  <2>4. ((i - 1) % Len(s)) + 1 \in 1 .. Len(s) BY <1>1, <2>3
  <2> QED BY <1>1, <2>4
<1> HIDE DEF m
<1>3. [i \in 1 .. m |-> s[((i - 1) % Len(s)) + 1]] \in [1 .. m -> T] BY <1>2
<1> QED BY <1>1, <1>3 DEF m

\* The planner's pool holds candidates only.
LEMMA PoolIsSeq ==
    ASSUME NEW T, NEW cs \in Seq(T), NEW b, NEW C, b.constraints \in Seq(C)
    PROVE  Agents!PlanningCandidates(b, cs) \in Seq(T)
<1> DEFINE E == Agents!Eligible(b, cs)
           V == {i \in DOMAIN b.constraints : b.constraints[i].type = "visit"}
           visits == Agents!Picked(b.constraints, V)
           nth == [n \in 1 .. Len(visits) * Len(E) |-> E[((n - 1) % Len(E)) + 1]]
           H == {n \in DOMAIN nth : nth[n].place \in Matches[visits[((n - 1) \div Len(E)) + 1].term]}
           N == {i \in DOMAIN E : ~Agents!Named(E[i].place, Agents!Terms(b, "visit"))}
<1>1. E \in Seq(T) BY PickedIsSeq DEF Agents!Eligible
<1>2. visits \in Seq(C) BY PickedIsSeq
<1>3. Len(visits) \in Nat BY <1>2
<1> HIDE DEF E, visits
<1>4. nth \in Seq(T) BY <1>1, <1>3, CycleIsSeq
<1> HIDE DEF nth
<1>5. Agents!Picked(nth, H) \in Seq(T)
  <2>1. H \in SUBSET (DOMAIN nth) OBVIOUS
  <2> HIDE DEF H
  <2> QED BY <1>4, <2>1, PickedIsSeq
<1>6. Agents!Picked(E, N) \in Seq(T)
  <2>1. N \in SUBSET (DOMAIN E) OBVIOUS
  <2> HIDE DEF N
  <2> QED BY <1>1, <2>1, PickedIsSeq
<1>7. Agents!PlanningCandidates(b, cs) = Agents!Picked(nth, H) \o Agents!Picked(E, N)
  BY DEF Agents!PlanningCandidates, Agents!Retained, E, visits, nth
<1> QED BY <1>5, <1>6, <1>7

\* A visit whose clock times are in order lasts as long as it takes.
LEMMA VisitLasts ==
    ASSUME NEW a \in Nat, NEW n \in 1 .. 240, ~((a + n) % 1440 <= a % 1440)
    PROVE  ((a + n) % 1440) - (a % 1440) = n
<1>1. n \in Nat /\ n <= 240 OBVIOUS
<1> QED BY <1>1, SMTT(30)

\* A visit that does not start before the one before it leaves time for its route, unless the
\* route goes round the clock.
LEMMA RouteFits ==
    ASSUME NEW clock \in Nat, NEW leg \in Nat, NEW s \in Nat, (clock % 1440) - s <= 240,
           ~((clock + (leg + Agents!Buffer)) % 1440 < s), leg < Agents!RoundTheClock
    PROVE  ((clock + (leg + Agents!Buffer)) % 1440) - (clock % 1440) >= leg
<1>1. leg < 1185 BY DEF Agents!Buffer, Agents!RoundTheClock
<1>2. ~((clock + (leg + 15)) % 1440 < s) BY DEF Agents!Buffer
<1>3. ((clock + (leg + 15)) % 1440) - (clock % 1440) >= leg BY <1>1, <1>2, SMTT(30)
<1> QED BY <1>3 DEF Agents!Buffer

\* How long a visit may take.
LEMMA VisitLength ==
    /\ \A x \in 1 .. 240 : x \in Nat /\ x <= 240
    /\ \A x \in Nat \ {0} : (IF x > 240 THEN 240 ELSE x) \in 1 .. 240
OBVIOUS

\* Sums of times.
LEMMA AgentSums ==
    /\ \A x, y, z \in Nat : y - x = z => x <= y
    /\ \A x, y, z, u \in Nat : x <= y /\ y + z <= u => x + z <= u
OBVIOUS

\* A day starts empty.
LEMMA NewDayInv == ASSUME NEW cursor \in Nat PROVE Agents!DayInv(Agents!NewDay(cursor))
<1>1. <<>> \in Seq(Agents!Drafts) OBVIOUS
<1>2. Agents!DayStart \in Nat BY DEF Agents!DayStart
<1>3. Agents!NewDay(cursor) \in [cursor : Nat, clock : Nat, blocks : Seq(Agents!Drafts), over : BOOLEAN, broken : BOOLEAN]
  BY <1>1, <1>2 DEF Agents!NewDay
<1>4. Agents!NewDay(cursor).blocks = <<>> BY DEF Agents!NewDay
<1>5. Agents!Timed(<<>>) BY DEF Agents!Timed
<1> QED BY <1>3, <1>4, <1>5 DEF Agents!DayInv

\* How a day's schedule grows by a visit that is not refused.
LEMMA TimedGrows ==
    ASSUME NEW bs \in Seq(Agents!Drafts), NEW x \in Agents!Drafts, Agents!Timed(bs), x.end - x.start = x.minutes,
           bs # <<>> => \/ ~(x.leg < Agents!RoundTheClock)
                        \/ x.start - Agents!Last(bs).end >= x.leg
    PROVE  Agents!Timed(Append(bs, x))
<1> DEFINE s == Append(bs, x)
<1>1. /\ Len(bs) \in Nat /\ Len(s) = Len(bs) + 1 /\ s[Len(bs) + 1] = x
      /\ \A i \in 1 .. Len(bs) : s[i] = bs[i]
  OBVIOUS
<1>2. DOMAIN s = 1 .. Len(bs) + 1 /\ DOMAIN bs = 1 .. Len(bs) OBVIOUS
<1>3. bs # <<>> => Agents!Last(bs) = bs[Len(bs)] /\ Len(bs) # 0 BY DEF Agents!Last
<1> HIDE DEF s
<1>4. \A i \in DOMAIN s : s[i].end - s[i].start = s[i].minutes BY <1>1, <1>2 DEF Agents!Timed
<1>5. ASSUME NEW i \in 1 .. Len(s) - 1, s[i + 1].leg < Agents!RoundTheClock
      PROVE  s[i + 1].start - s[i].end >= s[i + 1].leg
  <2>1. i \in 1 .. Len(bs) BY <1>1
  <2>2. CASE i = Len(bs) BY <1>1, <1>3, <1>5, <2>1, <2>2
  <2>3. CASE i # Len(bs)
    <3>1. i \in 1 .. Len(bs) - 1 /\ i + 1 \in 1 .. Len(bs) BY <1>1, <2>1, <2>3
    <3>2. s[i] = bs[i] /\ s[i + 1] = bs[i + 1] BY <1>1, <2>1, <3>1
    <3> QED BY <1>5, <3>1, <3>2 DEF Agents!Timed
  <2> QED BY <2>2, <2>3
<1> QED BY <1>4, <1>5 DEF Agents!Timed, s

\* One more block of a day keeps its schedule feasible, or the day is refused.
LEMMA BlockInv ==
    ASSUME Agents!BundleInv, NEW b, NEW pool \in Seq(Agents!Offered), Len(pool) # 0,
           NEW route \in [Agents!Stops \X Agents!Stops -> Nat], NEW d, Agents!DayInv(d)
    PROVE  Agents!DayInv(Agents!WithBlock(b, d, pool, route))
<1> DEFINE D == [cursor : Nat, clock : Nat, blocks : Seq(Agents!Drafts), over : BOOLEAN, broken : BOOLEAN]
           c     == pool[(d.cursor % Len(pool)) + 1]
           first == d.blocks = <<>>
           leg   == IF first THEN 0 ELSE route[Agents!Last(d.blocks).place, c.place]
           start == d.clock + (IF first THEN 0 ELSE leg + Agents!Buffer)
           long  == IF c.minutes = None THEN Agents!DefaultDuration ELSE IF c.minutes > 240 THEN 240 ELSE c.minutes
           end   == start + long
           block == [place |-> c.place, start |-> start % 1440, end |-> end % 1440, minutes |-> long,
                     leg |-> leg, refs |-> c.refs, cost |-> c.cost]
           bad   == \/ block.end <= block.start
                    \/ ~first /\ block.start < Agents!Last(d.blocks).start
                    \/ c.currency \notin {None, b.currency}
           Lasts(a, n) == ~((a + n) % 1440 <= a % 1440) => ((a + n) % 1440) - (a % 1440) = n
           dropped == [d EXCEPT !.cursor = @ + 1, !.over = TRUE]
           added   == [d EXCEPT !.cursor = @ + 1, !.clock = end, !.blocks = Append(@, block), !.broken = bad]
<1>1. d \in D BY DEF Agents!DayInv
<1>2. d.cursor \in Nat /\ d.clock \in Nat /\ d.blocks \in Seq(Agents!Drafts) BY <1>1
<1>3. c \in Agents!Offered
  <2>1. Len(pool) \in Nat /\ \A i \in 1 .. Len(pool) : pool[i] \in Agents!Offered OBVIOUS
  <2>2. (d.cursor % Len(pool)) + 1 \in 1 .. Len(pool) BY <1>2, <2>1
  <2> QED BY <2>1, <2>2
<1>4. c.minutes = None \/ c.minutes \in Nat \ {0} BY <1>3 DEF Agents!BundleInv
<1>b. leg \in Nat
  <2>1. CASE first BY <2>1
  <2>2. CASE ~first
    <3> DEFINE p == Agents!Last(d.blocks)
    <3>1. p \in Agents!Drafts BY <1>2, <2>2 DEF Agents!Last
    <3>2. p.place \in {x.place : x \in Agents!Offered} BY <3>1 DEF Agents!Drafts
    <3>3. p.place \in Agents!Stops /\ c.place \in Agents!Stops BY <1>3, <3>2 DEF Agents!BundleInv
    <3> HIDE DEF p, c
    <3>4. route[p.place, c.place] \in Nat BY <3>3
    <3> QED BY <2>2, <3>4 DEF p
  <2> QED BY <2>1, <2>2
<1> HIDE DEF c, Lasts, leg
<1>5. long \in 1 .. 240
  <2>1. Agents!DefaultDuration \in 1 .. 240 BY DEF Agents!DefaultDuration
  <2>2. CASE c.minutes = None BY <2>1, <2>2
  <2>3. CASE c.minutes # None
    <3>1. c.minutes \in Nat \ {0} /\ long = IF c.minutes > 240 THEN 240 ELSE c.minutes BY <1>4, <2>3
    <3> HIDE DEF long
    <3> QED BY <3>1, VisitLength, Zenon
  <2> QED BY <2>2, <2>3
<1>6. start \in Nat BY <1>b, <1>2 DEF Agents!Buffer
<1> HIDE DEF long, start
<1>7. end \in Nat /\ start % 1440 \in Nat /\ end % 1440 \in Nat BY <1>5, <1>6
<1>8. block \in Agents!Drafts BY <1>b, <1>3, <1>5, <1>7 DEF Agents!Drafts
<1>9. Agents!WithBlock(b, d, pool, route) = IF d.over \/ d.broken THEN d
                                  ELSE IF ~first /\ (end % 1440) \div 60 >= Agents!DayEndHour THEN dropped ELSE added
  BY DEF Agents!WithBlock, c, long, start, leg
<1>10. CASE Agents!WithBlock(b, d, pool, route) = d BY <1>10
<1>11. CASE Agents!WithBlock(b, d, pool, route) = dropped
  <2>1. dropped \in D
    <3>1. d.cursor + 1 \in Nat BY <1>2
    <3> QED BY <1>1, <3>1
  <2>2. dropped.broken = d.broken /\ dropped.blocks = d.blocks /\ dropped.clock = d.clock BY <1>1
  <2> HIDE DEF dropped
  <2> QED BY <1>11, <2>1, <2>2 DEF Agents!DayInv
<1>12. CASE Agents!WithBlock(b, d, pool, route) = added /\ ~d.broken
  <2>1. bad \in BOOLEAN OBVIOUS
  <2>2. block.start = start % 1440 /\ block.end = end % 1440 /\ block.minutes = long
        /\ block.leg = leg
    OBVIOUS
  <2> HIDE DEF block
  <2>3. Append(d.blocks, block) \in Seq(Agents!Drafts) BY <1>2, <1>8
  <2>4. /\ added.broken = bad /\ added.blocks = Append(d.blocks, block) /\ added.clock = end
        /\ added.cursor = d.cursor + 1 /\ added.over = d.over
    BY <1>1
  <2>5. added \in D
    <3>1. d.cursor + 1 \in Nat /\ end \in Nat BY <1>2, <1>7
    <3> HIDE DEF bad, end
    <3> QED BY <1>1, <2>1, <2>3, <3>1
  <2>6. Agents!Last(Append(d.blocks, block)) = block /\ Append(d.blocks, block) # <<>>
    BY <1>2, <1>8 DEF Agents!Last
  <2>7. ASSUME ~bad PROVE Agents!Timed(Append(d.blocks, block))
    <3>1. Agents!Timed(d.blocks) /\ (~first => Agents!Last(d.blocks).end = d.clock % 1440)
      BY <1>12 DEF Agents!DayInv
    <3>2. block.end - block.start = block.minutes
      <4>1. ~(block.end <= block.start) BY <2>7
      <4>2. block.start = start % 1440 /\ block.end = (start + long) % 1440 BY <2>2
      <4>3. ~((start + long) % 1440 <= start % 1440) BY <4>1, <4>2
      <4>4. \A a \in Nat, n \in 1 .. 240 : Lasts(a, n) BY VisitLasts DEF Lasts
      <4>5. Lasts(start, long) BY <1>5, <1>6, <4>4, Zenon
      <4> QED BY <2>2, <4>2, <4>3, <4>5 DEF Lasts
    <3>3. ASSUME ~first, leg < Agents!RoundTheClock PROVE block.start - Agents!Last(d.blocks).end >= leg
      <4> DEFINE p == Agents!Last(d.blocks)
      <4>1. p \in Agents!Drafts /\ p.end - p.start = p.minutes
        <5>1. Len(d.blocks) \in DOMAIN d.blocks /\ p = d.blocks[Len(d.blocks)]
          BY <1>2, <3>3 DEF Agents!Last
        <5> QED BY <1>2, <3>1, <5>1 DEF Agents!Timed
      <4>2. p.start \in Nat /\ p.end \in Nat /\ p.minutes \in 1 .. 240 BY <4>1 DEF Agents!Drafts
      <4>3. p.end = d.clock % 1440 BY <3>1, <3>3
      <4>4. ~(block.start < p.start) BY <2>7, <3>3
      <4> HIDE DEF p
      <4>5. (d.clock % 1440) - p.start <= 240
        <5>1. p.minutes \in Nat /\ p.minutes <= 240 BY <4>2, VisitLength, Zenon
        <5>2. p.end - p.start <= 240 BY <4>1, <5>1
        <5> QED BY <4>3, <5>2
      <4>6. block.start = (d.clock + (leg + Agents!Buffer)) % 1440 BY <2>2, <3>3 DEF start
      <4>7. block.start - p.end >= leg BY <1>b, <1>2, <3>3, <4>2, <4>3, <4>4, <4>5, <4>6, RouteFits
      <4> QED BY <4>7 DEF p
    <3>4. ~first => block.leg = leg BY <2>2
    <3> QED BY <1>2, <1>8, <3>1, <3>2, <3>3, <3>4, TimedGrows
  <2> HIDE DEF added, bad
  <2>8. ~added.broken => Agents!Timed(added.blocks) /\ Agents!Last(added.blocks).end = added.clock % 1440
    BY <2>2, <2>4, <2>6, <2>7
  <2> QED BY <1>12, <2>5, <2>8 DEF Agents!DayInv
<1> QED BY <1>9, <1>10, <1>11, <1>12

\* Counting up to n reaches every number up to n.
LEMMA CountingUp ==
    ASSUME NEW n \in Nat, NEW G, 0 \in G, \A i \in 1 .. n : i - 1 \in G => i \in G
    PROVE  \A i \in 0 .. n : i \in G
<1> DEFINE T == {i \in 0 .. n : i \notin G}
<1>1. ASSUME T # {} PROVE FALSE
  <2>1. T \in SUBSET Nat OBVIOUS
  <2>2. PICK m \in T : \A y \in T : m <= y BY <1>1, <2>1, AgentLeast
  <2>3. m \in Nat /\ m <= n /\ m # 0 /\ m \notin G OBVIOUS
  <2>4. m - 1 \in 0 .. n /\ m \in 1 .. n /\ ~(m <= m - 1) BY <2>3
  <2>5. m - 1 \in G BY <2>2, <2>4
  <2> QED BY <2>3, <2>4, <2>5
<1> QED BY <1>1

\* A step repeated n times: what a recursive function of 0 .. n is made of exists.
LEMMA Repeated ==
    ASSUME NEW S, NEW a \in S, NEW g \in [S -> S], NEW n \in Nat
    PROVE  \E f \in [0 .. n -> S] : f[0] = a /\ \A i \in 1 .. n : f[i] = g[f[i - 1]]
<1> DEFINE Is(f, m) == f[0] = a /\ \A i \in 1 .. m : f[i] = g[f[i - 1]]
           G == {m \in Nat : \E f \in [0 .. m -> S] : Is(f, m)}
<1>1. 0 \in G
  <2> DEFINE f == [i \in 0 .. 0 |-> a]
  <2>1. f \in [0 .. 0 -> S] /\ f[0] = a OBVIOUS
  <2>2. \A i \in 1 .. 0 : f[i] = g[f[i - 1]] OBVIOUS
  <2> QED BY <2>1, <2>2
<1>2. ASSUME NEW m \in 1 .. n, m - 1 \in G PROVE m \in G
  <2>1. m \in Nat /\ m - 1 \in Nat /\ m # 0 OBVIOUS
  <2>2. PICK f \in [0 .. m - 1 -> S] : Is(f, m - 1) BY <1>2
  <2> DEFINE h == [i \in 0 .. m |-> IF i = m THEN g[f[m - 1]] ELSE f[i]]
  <2>3. m - 1 \in 0 .. m - 1 /\ 0 \in 0 .. m - 1 /\ 0 \in 0 .. m /\ m \in 0 .. m BY <2>1
  <2>4. g[f[m - 1]] \in S BY <2>3
  <2>5. \A i \in 0 .. m : i # m => i \in 0 .. m - 1 BY <2>1
  <2>6. h \in [0 .. m -> S] BY <2>4, <2>5
  <2>7. h[0] = a BY <2>1, <2>2, <2>3
  <2>8. ASSUME NEW i \in 1 .. m PROVE h[i] = g[h[i - 1]]
    <3>1. i \in 0 .. m /\ i - 1 \in 0 .. m /\ i - 1 # m BY <2>1
    <3>2. h[i - 1] = f[i - 1] BY <3>1
    <3>3. CASE i = m BY <3>1, <3>2, <3>3
    <3>4. CASE i # m
      <4>1. i \in 1 .. m - 1 BY <2>1, <3>4
      <4> QED BY <2>2, <3>1, <3>2, <3>4, <4>1
    <3> QED BY <3>3, <3>4
  <2> HIDE DEF h
  <2>9. Is(h, m) BY <2>7, <2>8
  <2> QED BY <2>1, <2>6, <2>9
<1> HIDE DEF G
<1>3. \A i \in 0 .. n : i \in G BY <1>1, <1>2, CountingUp
<1>4. n \in G BY <1>3
<1> QED BY <1>4 DEF G

\* A day's schedule keeps what each of its blocks keeps.
LEMMA PlanDayInv ==
    ASSUME Agents!BundleInv, NEW b, NEW pool \in Seq(Agents!Offered), NEW route \in [Agents!Stops \X Agents!Stops -> Nat], NEW cursor \in Nat
    PROVE  Agents!DayInv(Agents!PlanDay(b, cursor, pool, route))
<1> DEFINE n == IF Len(pool) < Agents!MaxBlocks THEN Len(pool) ELSE Agents!MaxBlocks
           D == [cursor : Nat, clock : Nat, blocks : Seq(Agents!Drafts), over : BOOLEAN, broken : BOOLEAN]
           S == {d \in D : Agents!DayInv(d)}
           g == [d \in S |-> IF Len(pool) = 0 THEN d ELSE Agents!WithBlock(b, d, pool, route)]
           Is(f) == f = [i \in 0 .. n |-> IF i = 0 THEN Agents!NewDay(cursor) ELSE Agents!WithBlock(b, f[i - 1], pool, route)]
           day == CHOOSE f : Is(f)
<1>1. n \in Nat /\ (Len(pool) = 0 => n = 0) BY DEF Agents!MaxBlocks
<1>2. \A d : Agents!DayInv(d) => d \in S BY DEF Agents!DayInv
<1>3. Agents!NewDay(cursor) \in S BY <1>2, NewDayInv
<1>4. \A d \in S : Agents!DayInv(d) OBVIOUS
<1>5. Len(pool) # 0 => \A d \in S : Agents!WithBlock(b, d, pool, route) \in S
  BY <1>2, <1>4, BlockInv
<1> HIDE DEF S, n
<1>6. g \in [S -> S] BY <1>5
<1>7. PICK f \in [0 .. n -> S] : f[0] = Agents!NewDay(cursor) /\ \A i \in 1 .. n : f[i] = g[f[i - 1]]
  <2> DEFINE Can(T, x, h, m) == \E f \in [0 .. m -> T] : f[0] = x /\ \A i \in 1 .. m : f[i] = h[f[i - 1]]
  <2>1. \A T : \A x \in T, h \in [T -> T], m \in Nat : Can(T, x, h, m) BY Repeated
  <2> HIDE DEF g, Can
  <2>2. Can(S, Agents!NewDay(cursor), g, n) BY <1>1, <1>3, <1>6, <2>1, Zenon
  <2> QED BY <2>2 DEF Can
<1>8. Is(f)
  <2>1. ASSUME NEW i \in 0 .. n
        PROVE  f[i] = IF i = 0 THEN Agents!NewDay(cursor) ELSE Agents!WithBlock(b, f[i - 1], pool, route)
    <3>1. CASE i = 0 BY <1>7, <3>1
    <3>2. CASE i # 0
      <4>1. i \in 1 .. n /\ i - 1 \in 0 .. n /\ Len(pool) # 0 BY <1>1, <3>2
      <4>2. f[i - 1] \in S BY <1>7, <4>1
      <4> QED BY <1>7, <3>2, <4>1, <4>2
    <3> QED BY <3>1, <3>2
  <2> QED BY <2>1
<1>9. Is(day)
  <2> HIDE DEF Is
  <2> QED BY <1>8
<1>10. Agents!PlanDay(b, cursor, pool, route) = day[n] BY DEF Agents!PlanDay, n
<1> HIDE DEF day
<1>11. \A i \in 0 .. n : day[i] \in S
  <2> DEFINE G == {i \in 0 .. n : day[i] \in S}
  <2>1. 0 \in G BY <1>1, <1>3, <1>9
  <2>2. ASSUME NEW i \in 1 .. n, i - 1 \in G PROVE i \in G
    <3>1. i \in 0 .. n /\ i # 0 /\ Len(pool) # 0 BY <1>1
    <3>2. day[i] = Agents!WithBlock(b, day[i - 1], pool, route) BY <1>9, <3>1
    <3> QED BY <1>5, <2>2, <3>1, <3>2
  <2> HIDE DEF G
  <2>3. \A i \in 0 .. n : i \in G BY <1>1, <2>1, <2>2, CountingUp
  <2> QED BY <2>3 DEF G
<1> QED BY <1>1, <1>4, <1>10, <1>11

\* A schedule keeps what each of its days keeps, one day after the other.
LEMMA WithDayInv ==
    ASSUME Agents!BundleInv, NEW b, b.start \in Int, NEW pool \in Seq(Agents!Offered),
           NEW route \in [Agents!Stops \X Agents!Stops -> Nat], NEW days, Agents!DaysInv(b, days)
    PROVE  /\ Agents!DaysInv(b, Agents!WithDay(b, days, pool, route))
           /\ Len(Agents!WithDay(b, days, pool, route)) = Len(days) + 1
<1> DEFINE E == [date : Int, cursor : Nat, blocks : Seq(Agents!Drafts), broken : BOOLEAN]
           cursor == IF days = <<>> THEN 0 ELSE Agents!Last(days).cursor
           d == Agents!PlanDay(b, cursor, pool, route)
           e == [date |-> b.start + Len(days), cursor |-> d.cursor, blocks |-> d.blocks, broken |-> d.broken]
<1>1. days \in Seq(E) BY DEF Agents!DaysInv
<1>2. cursor \in Nat
  <2>1. CASE days = <<>> BY <2>1
  <2>2. CASE days # <<>>
    <3>1. Agents!Last(days) \in E
      <4> HIDE DEF E
      <4> QED BY <1>1, <2>2 DEF Agents!Last
    <3> QED BY <2>2, <3>1
  <2> QED BY <2>1, <2>2
<1> HIDE DEF cursor
<1>3. Agents!DayInv(d) BY <1>2, PlanDayInv
<1> HIDE DEF d
<1>4. d.cursor \in Nat /\ d.blocks \in Seq(Agents!Drafts) /\ d.broken \in BOOLEAN /\ (d.broken \/ Agents!Timed(d.blocks))
  BY <1>3 DEF Agents!DayInv
<1>5. Len(days) \in Nat /\ b.start + Len(days) \in Int BY <1>1
<1>6. e \in E BY <1>4, <1>5
<1>7. e.date = b.start + Len(days) /\ (e.broken \/ Agents!Timed(e.blocks)) BY <1>4
<1>8. Agents!WithDay(b, days, pool, route) = Append(days, e) BY DEF Agents!WithDay, d, cursor
<1> HIDE DEF e
<1> DEFINE s == Append(days, e)
<1>9. s \in Seq(E) /\ Len(s) = Len(days) + 1 BY <1>1, <1>6
<1>10. s[Len(days) + 1] = e /\ (\A i \in 1 .. Len(days) : s[i] = days[i]) BY <1>1, <1>6
<1>11. DOMAIN s = 1 .. Len(days) + 1 /\ DOMAIN days = 1 .. Len(days) BY <1>1, <1>6
<1> HIDE DEF s, E
<1>12. ASSUME NEW i \in DOMAIN s PROVE s[i].date = b.start + i - 1 /\ (s[i].broken \/ Agents!Timed(s[i].blocks))
  <2>1. CASE i = Len(days) + 1
    <3>1. b.start + Len(days) = b.start + i - 1 BY <1>5, <2>1
    <3> QED BY <1>7, <1>10, <2>1, <3>1
  <2>2. CASE i # Len(days) + 1
    <3>1. i \in 1 .. Len(days) BY <1>5, <1>11, <2>2
    <3> QED BY <1>10, <1>11, <3>1 DEF Agents!DaysInv
  <2> QED BY <2>1, <2>2
<1> QED BY <1>8, <1>9, <1>12 DEF Agents!DaysInv, s, E

\* A schedule has one day for every date of the window, in order.
LEMMA ScheduleInv ==
    ASSUME Agents!BundleInv, NEW b, b.start \in Int, b.end \in Int, b.start <= b.end,
           NEW pool \in Seq(Agents!Offered), NEW route \in [Agents!Stops \X Agents!Stops -> Nat]
    PROVE  /\ Agents!DaysInv(b, Agents!Schedule(b, pool, route))
           /\ Len(Agents!Schedule(b, pool, route)) = (b.end - b.start) + 1
<1> DEFINE n == (b.end - b.start) + 1
           E == [date : Int, cursor : Nat, blocks : Seq(Agents!Drafts), broken : BOOLEAN]
           S == {x \in Seq(E) : Agents!DaysInv(b, x)}
           g == [x \in S |-> Agents!WithDay(b, x, pool, route)]
           Is(f) == f = [i \in 0 .. n |-> IF i = 0 THEN <<>> ELSE Agents!WithDay(b, f[i - 1], pool, route)]
           days == CHOOSE f : Is(f)
<1>1. n \in Nat OBVIOUS
<1>2. \A x : Agents!DaysInv(b, x) => x \in S BY DEF Agents!DaysInv
<1>3. <<>> \in S
  <2>1. Agents!DaysInv(b, <<>>) BY DEF Agents!DaysInv
  <2> QED BY <1>2, <2>1
<1>4. \A x \in S : Agents!DaysInv(b, x) OBVIOUS
<1>5. \A x \in S : Agents!WithDay(b, x, pool, route) \in S /\ Len(Agents!WithDay(b, x, pool, route)) = Len(x) + 1
  <2> TAKE x \in S
  <2>1. Agents!DaysInv(b, x) BY <1>4
  <2> HIDE DEF S
  <2>2. Agents!DaysInv(b, Agents!WithDay(b, x, pool, route)) /\ Len(Agents!WithDay(b, x, pool, route)) = Len(x) + 1
    BY <2>1, WithDayInv
  <2> QED BY <1>2, <2>2
<1> HIDE DEF S, n
<1>6. g \in [S -> S] BY <1>5
<1>7. PICK f \in [0 .. n -> S] : f[0] = <<>> /\ \A i \in 1 .. n : f[i] = g[f[i - 1]]
  <2> DEFINE Can(T, x, h, m) == \E f \in [0 .. m -> T] : f[0] = x /\ \A i \in 1 .. m : f[i] = h[f[i - 1]]
  <2>1. \A T : \A x \in T, h \in [T -> T], m \in Nat : Can(T, x, h, m) BY Repeated
  <2> HIDE DEF g, Can
  <2>2. Can(S, <<>>, g, n) BY <1>1, <1>3, <1>6, <2>1, Zenon
  <2> QED BY <2>2 DEF Can
<1>8. Is(f)
  <2>1. ASSUME NEW i \in 0 .. n
        PROVE  f[i] = IF i = 0 THEN <<>> ELSE Agents!WithDay(b, f[i - 1], pool, route)
    <3>1. CASE i = 0 BY <1>7, <3>1
    <3>2. CASE i # 0
      <4>1. i \in 1 .. n /\ i - 1 \in 0 .. n BY <1>1, <3>2
      <4>2. f[i - 1] \in S BY <1>7, <4>1
      <4> QED BY <1>7, <3>2, <4>1, <4>2
    <3> QED BY <3>1, <3>2
  <2> QED BY <2>1
<1>9. Is(days)
  <2> HIDE DEF Is
  <2> QED BY <1>8
<1>10. Agents!Schedule(b, pool, route) = days[n] BY DEF Agents!Schedule, n
<1> HIDE DEF days
<1>11. \A i \in 0 .. n : days[i] \in S /\ Len(days[i]) = i
  <2> DEFINE G == {i \in 0 .. n : days[i] \in S /\ Len(days[i]) = i}
  <2>1. 0 \in G
    <3>1. days[0] = <<>> /\ Len(<<>>) = 0 BY <1>1, <1>9
    <3> QED BY <1>1, <1>3, <3>1
  <2>2. ASSUME NEW i \in 1 .. n, i - 1 \in G PROVE i \in G
    <3>1. i \in 0 .. n /\ i # 0 /\ (i - 1) + 1 = i BY <1>1
    <3>2. days[i] = Agents!WithDay(b, days[i - 1], pool, route) BY <1>9, <3>1
    <3> QED BY <1>5, <2>2, <3>1, <3>2
  <2> HIDE DEF G
  <2>3. \A i \in 0 .. n : i \in G BY <1>1, <2>1, <2>2, CountingUp
  <2> QED BY <2>3 DEF G
<1>12. n \in 0 .. n BY <1>1
<1>13. days[n] \in S /\ Len(days[n]) = n BY <1>11, <1>12
<1> QED BY <1>4, <1>10, <1>13 DEF n

\* The planner makes a plan of the whole window, or refuses.
LEMMA PlanIsFeasible ==
    ASSUME Agents!AgentAssumption, Agents!BundleInv, Agents!BriefInv(brief, wishes), NEW route \in Routes,
           Agents!BuildCandidate(brief, bundle.candidates, route) # None
    PROVE  LET days == Agents!BuildCandidate(brief, bundle.candidates, route)
           IN  /\ Agents!DaysInv(brief, days) /\ Len(days) = (brief.end - brief.start) + 1
               /\ \A i \in DOMAIN days : ~days[i].broken
<1> DEFINE pool == Agents!PlanningCandidates(brief, bundle.candidates)
           days == Agents!Schedule(brief, pool, route)
<1>1. route \in [Agents!Stops \X Agents!Stops -> Nat] BY DEF Agents!AgentAssumption
<1>2. brief.start \in Int /\ brief.end \in Int /\ brief.start <= brief.end BY DEF Agents!BriefInv
<1>3. pool \in Seq(Agents!Offered)
  <2>1. bundle.candidates \in Seq(Agents!Offered) BY DEF Agents!BundleInv
  <2>2. brief.constraints \in Seq([type : {"avoid", "visit"}, term : Agents!Wished])
    BY DEF Agents!BriefInv
  <2> QED BY <2>1, <2>2, PoolIsSeq
<1>4. Agents!BuildCandidate(brief, bundle.candidates, route)
        = IF Agents!Eligible(brief, bundle.candidates) = <<>>
                \/ (\E i \in DOMAIN days : days[i].broken \/ days[i].blocks = <<>>)
          THEN None ELSE days
  BY DEF Agents!BuildCandidate
<1> HIDE DEF pool
<1>5. Agents!DaysInv(brief, days) /\ Len(days) = (brief.end - brief.start) + 1
  BY <1>1, <1>2, <1>3, ScheduleInv
<1> HIDE DEF days
<1>6. Agents!BuildCandidate(brief, bundle.candidates, route) = days /\ \A i \in DOMAIN days : ~days[i].broken
  BY <1>4
<1> QED BY <1>5, <1>6

\* The candidates of the bundle cite its evidence.
LEMMA ResearchInv ==
    ASSUME Agents!AgentAssumption, NEW b, NEW w, ~Agents!NoSource(b, w), NEW ev, NEW cs, cs = Agents!Candidates(b, w),
           ev = Agents!RagEvidence(w) \cup Agents!ProviderEvidence(w) \cup Agents!CatalogEvidence(b, w)
                  \cup Agents!WeatherEvidence(w) \cup Agents!OpeningEvidence(w)
    PROVE  /\ cs \in Seq(Agents!ToSet(cs))
           /\ \A c \in Agents!ToSet(cs) : /\ c.refs # {} /\ c.refs \subseteq {e.id : e \in ev} /\ c.place \in Agents!Stops
                                          /\ c.minutes = None \/ c.minutes \in Nat \ {0}
<1> DEFINE Good(c) == /\ c.refs # {} /\ c.refs \subseteq {e.id : e \in ev} /\ c.place \in Agents!Stops
                      /\ c.minutes = None \/ c.minutes \in Nat \ {0}
           open == Agents!CatalogPlaces(b)
<1>0. Agents!ToSet(cs) = {cs[i] : i \in DOMAIN cs} BY DEF Agents!ToSet
<1>a. open \in Seq(DOMAIN Duration)
  <2> DEFINE I == {i \in DOMAIN Catalog : b.start \notin ClosedOn[Catalog[i]]}
  <2>1. Catalog \in Seq(DOMAIN Duration) /\ I \in SUBSET (DOMAIN Catalog)
    BY DEF Agents!AgentAssumption
  <2> QED BY <2>1, PickedIsSeq DEF Agents!CatalogPlaces, Agents!OpenPlaces
<1>1. CASE Agents!HasPlaces(w)
  <2>1. cs = Agents!ProviderCandidates BY <1>1 DEF Agents!Candidates
  <2>2. LivePlaces \in Seq(DOMAIN Duration) BY DEF Agents!AgentAssumption
  <2>3. DOMAIN cs = DOMAIN LivePlaces /\ DOMAIN LivePlaces = 1 .. Len(LivePlaces) /\ Len(LivePlaces) \in Nat
    BY <2>1, <2>2 DEF Agents!ProviderCandidates
  <2>4. ASSUME NEW i \in DOMAIN cs PROVE Good(cs[i])
    <3>1. cs[i] = [place |-> LivePlaces[i], refs |-> {<<"provider", i>>}, minutes |-> None, cost |-> 0, currency |-> None]
      BY <2>1, <2>3 DEF Agents!ProviderCandidates
    <3>2. [id |-> <<"provider", i>>, place |-> LivePlaces[i], fresh |-> TRUE] \in ev
      BY <1>1, <2>3 DEF Agents!ProviderEvidence
    <3>3. <<"provider", i>> \in {e.id : e \in ev} BY <3>2
    <3>4. LivePlaces[i] \in Agents!Stops BY <2>2, <2>3 DEF Agents!Stops
    <3> QED BY <3>1, <3>3, <3>4
  <2>5. cs = [i \in 1 .. Len(LivePlaces) |-> cs[i]] BY <2>1, <2>3 DEF Agents!ProviderCandidates
  <2>6. cs \in Seq(Agents!ToSet(cs)) BY <1>0, <2>3, <2>5
  <2> QED BY <1>0, <2>4, <2>6
<1>2. CASE ~Agents!HasPlaces(w) /\ open # <<>>
  <2>1. cs = Agents!CatalogCandidates(b) BY <1>2 DEF Agents!Candidates
  <2>3. DOMAIN cs = DOMAIN open /\ DOMAIN open = 1 .. Len(open) /\ Len(open) \in Nat
    BY <1>a, <2>1 DEF Agents!CatalogCandidates
  <2>4. ASSUME NEW i \in DOMAIN cs PROVE Good(cs[i])
    <3>1. cs[i] = [place |-> open[i], refs |-> {<<"catalog", i>>}, minutes |-> Duration[open[i]],
                   cost |-> Cost[open[i]], currency |-> "CNY"]
      BY <2>1, <2>3 DEF Agents!CatalogCandidates
    <3>2. [id |-> <<"catalog", i>>, place |-> open[i], fresh |-> FALSE] \in ev
      BY <1>2, <2>3 DEF Agents!CatalogEvidence
    <3>3. <<"catalog", i>> \in {e.id : e \in ev} BY <3>2
    <3>4. open[i] \in DOMAIN Duration BY <1>a, <2>3
    <3>5. Duration[open[i]] \in Nat \ {0} BY <3>4 DEF Agents!AgentAssumption
    <3>6. open[i] \in Agents!Stops BY <3>4 DEF Agents!Stops
    <3>7. cs[i].refs = {<<"catalog", i>>} /\ cs[i].place = open[i] /\ cs[i].minutes = Duration[open[i]]
      BY <3>1
    <3> QED BY <3>3, <3>5, <3>6, <3>7
  <2>5. cs = [i \in 1 .. Len(open) |-> cs[i]] BY <2>1, <2>3 DEF Agents!CatalogCandidates
  <2>6. cs \in Seq(Agents!ToSet(cs)) BY <1>0, <2>3, <2>5
  <2> QED BY <1>0, <2>4, <2>6
<1>3. CASE ~Agents!HasPlaces(w) /\ open = <<>>
  <2>1. cs = Agents!AreaCandidate(w) BY <1>3 DEF Agents!Candidates
  <2>2. Agents!HasItems(w) BY <1>3 DEF Agents!NoSource
  <2> DEFINE r == [id |-> <<"rag", 1>>, place |-> None, fresh |-> w.rag # "stale"]
             x == [place |-> City, refs |-> {e.id : e \in Agents!RagEvidence(w)}, minutes |-> None, cost |-> 0,
                   currency |-> None]
  <2>3. Agents!RagEvidence(w) = {r} BY <2>2 DEF Agents!RagEvidence
  <2>4. cs = <<x>> BY <2>1 DEF Agents!AreaCandidate
  <2>5. x.refs = {r.id} /\ r \in ev /\ x.minutes = None /\ x.place \in Agents!Stops
    BY <2>3 DEF Agents!Stops
  <2> HIDE DEF x, r
  <2>6. Good(x) BY <2>5
  <2>7. Agents!ToSet(cs) = {x} BY <1>0, <2>4
  <2>8. cs \in Seq(Agents!ToSet(cs)) BY <2>4, <2>7
  <2> QED BY <2>6, <2>7, <2>8
<1> QED BY <1>1, <1>2, <1>3

\* What a plan that was made consists of.
LEMMA PlanParts ==
    ASSUME Agents!PlanInv
    PROVE  /\ plan \in Seq([date : Int, cursor : Nat, blocks : Seq(Agents!Drafts), broken : BOOLEAN])
           /\ Agents!ToSet(plan) = {plan[i] : i \in DOMAIN plan}
           /\ \A i \in DOMAIN plan : /\ plan[i].blocks \in Seq(Agents!Drafts) /\ Agents!Timed(plan[i].blocks)
                                     /\ plan[i].date = brief.start + i - 1
           /\ \A x \in Agents!Blocks(plan) : x \in Agents!Drafts /\ x.end - x.start = x.minutes
<1>1. plan \in Seq([date : Int, cursor : Nat, blocks : Seq(Agents!Drafts), broken : BOOLEAN])
  BY DEF Agents!PlanInv, Agents!DaysInv
<1>2. \A i \in DOMAIN plan : /\ plan[i].blocks \in Seq(Agents!Drafts) /\ Agents!Timed(plan[i].blocks)
                             /\ plan[i].date = brief.start + i - 1
  <2> TAKE i \in DOMAIN plan
  <2> DEFINE E == [date : Int, cursor : Nat, blocks : Seq(Agents!Drafts), broken : BOOLEAN]
  <2>1. plan[i] \in E
    <3>1. plan \in Seq(E) BY <1>1
    <3> HIDE DEF E
    <3> QED BY <3>1
  <2>2. plan[i].blocks \in Seq(Agents!Drafts) BY <2>1
  <2> QED BY <2>2 DEF Agents!PlanInv, Agents!DaysInv
<1>3. ASSUME NEW x \in Agents!Blocks(plan) PROVE x \in Agents!Drafts /\ x.end - x.start = x.minutes
  <2>1. PICK i \in DOMAIN plan : x \in Agents!ToSet(plan[i].blocks) BY DEF Agents!Blocks
  <2>2. PICK j \in DOMAIN plan[i].blocks : x = plan[i].blocks[j] BY <2>1 DEF Agents!ToSet
  <2>3. plan[i].blocks \in Seq(Agents!Drafts) /\ Agents!Timed(plan[i].blocks) BY <1>2
  <2>4. plan[i].blocks[j] \in Agents!Drafts BY <2>3
  <2> QED BY <2>2, <2>3, <2>4 DEF Agents!Timed
<1> QED BY <1>1, <1>2, <1>3 DEF Agents!ToSet

\* The planner's citations are known, so the coverage is complete.
LEMMA PlanIsCovered ==
    ASSUME Agents!BundleInv, Agents!PlanInv
    PROVE  /\ \A x \in Agents!Blocks(plan) : x.refs \subseteq Agents!Known
           /\ Agents!Risks(plan) \subseteq {"conflict"}
<1>1. \A x \in Agents!Drafts : x.refs # {} /\ x.refs \subseteq Agents!Known
  <2> TAKE x \in Agents!Drafts
  <2>1. PICK c \in Agents!Offered : x.refs = c.refs BY DEF Agents!Drafts
  <2> QED BY <2>1 DEF Agents!BundleInv
<1>2. \A x \in Agents!Blocks(plan) : x.refs \subseteq Agents!Known BY <1>1, PlanParts
<1>3. Agents!Supported(plan) = Agents!Spots(plan)
  <2>1. ASSUME NEW s \in Agents!Spots(plan)
        PROVE  LET refs == plan[s[1]].blocks[s[2]].refs IN refs # {} /\ refs \subseteq Agents!Known
    <3>1. PICK i \in DOMAIN plan : s \in {i} \X DOMAIN plan[i].blocks BY DEF Agents!Spots
    <3>2. s[1] = i /\ s[2] \in DOMAIN plan[i].blocks BY <3>1
    <3>3. plan[i].blocks \in Seq(Agents!Drafts) BY PlanParts
    <3>4. plan[i].blocks[s[2]] \in Agents!Drafts BY <3>2, <3>3
    <3> QED BY <1>1, <3>2, <3>4
  <2> QED BY <2>1 DEF Agents!Supported
<1>4. Agents!Cardinality(Agents!Spots(plan)) \in Nat
  <2> DEFINE part(i) == {i} \X DOMAIN plan[i].blocks
             parts == {part(i) : i \in DOMAIN plan}
  <2>1. IsFiniteSet(DOMAIN plan)
    <3>1. Len(plan) \in Nat /\ DOMAIN plan = 1 .. Len(plan) BY PlanParts
    <3>2. IsFiniteSet(1 .. Len(plan)) BY <3>1, FS_Interval
    <3> QED BY <3>1, <3>2
  <2>2. ASSUME NEW i \in DOMAIN plan PROVE IsFiniteSet(part(i))
    <3> DEFINE bs == plan[i].blocks
    <3>1. bs \in Seq(Agents!Drafts) BY PlanParts
    <3>2. Len(bs) \in Nat /\ DOMAIN bs = 1 .. Len(bs) BY <3>1
    <3>3. IsFiniteSet(1 .. Len(bs)) BY <3>2, FS_Interval
    <3>4. IsFiniteSet({i}) BY FS_Singleton
    <3> HIDE DEF bs
    <3>5. IsFiniteSet({i} \X DOMAIN bs) BY <3>2, <3>3, <3>4, FS_Product
    <3> QED BY <3>5 DEF bs
  <2> HIDE DEF part
  <2>3. IsFiniteSet(parts)
    <3> DEFINE f == [i \in DOMAIN plan |-> part(i)]
    <3>1. f \in Surjection(DOMAIN plan, parts) BY DEF Surjection
    <3> HIDE DEF f, parts
    <3> QED BY <2>1, <3>1, FS_Surjection
  <2>4. \A S \in parts : IsFiniteSet(S) BY <2>2
  <2> HIDE DEF parts
  <2>5. IsFiniteSet(UNION parts) BY <2>3, <2>4, FS_UNION
  <2>6. Agents!Spots(plan) = UNION parts BY DEF Agents!Spots, parts, part
  <2>7. Cardinality(Agents!Spots(plan)) \in Nat BY <2>5, <2>6, FS_CardinalityType
  <2> QED BY <2>7, AgentSizes
<1>5. ~(10 * Agents!Cardinality(Agents!Supported(plan)) < 9 * Agents!Cardinality(Agents!Spots(plan)))
  <2> DEFINE n == Agents!Cardinality(Agents!Spots(plan))
  <2>1. n \in Nat BY <1>4
  <2> HIDE DEF n
  <2>2. ~(10 * n < 9 * n) BY <2>1
  <2> QED BY <1>3, <2>2 DEF n
<1> QED BY <1>2, <1>5 DEF Agents!Risks

\* The planner's dates and times pass the validator's checks; its routes do too, short of one
\* that goes round the clock.
LEMMA PlanPasses ==
    ASSUME Agents!BundleInv, Agents!PlanInv, Agents!BriefInv(brief, wishes)
    PROVE  /\ Agents!Failed(brief, plan) \cap {"dates", "time", "references"} = {}
           /\ "route" \in Agents!Failed(brief, plan) => \E x \in Agents!Blocks(plan) : x.leg >= Agents!RoundTheClock
<1>1. Agents!DatesInWindow(brief, plan)
  <2>1. brief.start \in Int /\ brief.end \in Int /\ brief.start <= brief.end BY DEF Agents!BriefInv
  <2>2. Len(plan) = (brief.end - brief.start) + 1 /\ DOMAIN plan = 1 .. Len(plan)
    BY PlanParts DEF Agents!PlanInv
  <2>3. plan # <<>>
    <3>1. Len(plan) # 0 BY <2>1, <2>2
    <3> QED BY <3>1
  <2>4. ASSUME NEW i \in DOMAIN plan PROVE brief.start <= plan[i].date /\ plan[i].date <= brief.end
    <3>1. plan[i].date = brief.start + i - 1 BY PlanParts
    <3>2. i \in 1 .. (brief.end - brief.start) + 1 BY <2>2
    <3>3. i \in Int /\ 1 <= i /\ i <= (brief.end - brief.start) + 1 BY <2>1, <3>2
    <3> QED BY <2>1, <3>1, <3>3
  <2> QED BY <2>3, <2>4 DEF Agents!DatesInWindow
<1>2. \A x \in Agents!Blocks(plan) : x.end - x.start = x.minutes BY PlanParts
<1>3. \A x \in Agents!Blocks(plan) : x.refs \subseteq Agents!Known BY PlanIsCovered
<1> DEFINE Routed == \A d \in Agents!ToSet(plan) : \A i \in 1 .. Len(d.blocks) - 1 :
                       d.blocks[i + 1].start - d.blocks[i].end >= d.blocks[i + 1].leg
<1>4. ASSUME ~Routed PROVE \E x \in Agents!Blocks(plan) : x.leg >= Agents!RoundTheClock
  <2>1. PICK d \in Agents!ToSet(plan) : \E i \in 1 .. Len(d.blocks) - 1 :
               ~(d.blocks[i + 1].start - d.blocks[i].end >= d.blocks[i + 1].leg)
    BY <1>4
  <2>2. PICK i \in 1 .. Len(d.blocks) - 1 : ~(d.blocks[i + 1].start - d.blocks[i].end >= d.blocks[i + 1].leg)
    BY <2>1
  <2>3. PICK k \in DOMAIN plan : d = plan[k] BY PlanParts
  <2>4. d.blocks \in Seq(Agents!Drafts) /\ Agents!Timed(d.blocks) BY <2>3, PlanParts
  <2> DEFINE x == d.blocks[i + 1]
  <2>5. ~(x.leg < Agents!RoundTheClock) BY <2>2, <2>4 DEF Agents!Timed
  <2>6. i + 1 \in DOMAIN d.blocks
    <3>1. Len(d.blocks) \in Nat /\ DOMAIN d.blocks = 1 .. Len(d.blocks) BY <2>4
    <3> QED BY <3>1
  <2>7. x \in Agents!Blocks(plan) BY <2>3, <2>6 DEF Agents!Blocks, Agents!ToSet
  <2>8. x.leg \in Nat BY <2>7, PlanParts DEF Agents!Drafts
  <2>9. Agents!RoundTheClock \in Nat BY DEF Agents!RoundTheClock, Agents!Buffer
  <2>10. x.leg >= Agents!RoundTheClock BY <2>5, <2>8, <2>9
  <2> QED BY <2>7, <2>10
<1>5. Agents!Failed(brief, plan) \cap {"dates", "time", "references"} = {}
  BY <1>1, <1>2, <1>3 DEF Agents!Failed
<1>6. "route" \in Agents!Failed(brief, plan) => ~Routed BY DEF Agents!Failed
<1> QED BY <1>4, <1>5, <1>6

\* The invariant implies that the planner is feasible.
LEMMA FeasiblePlans == ASSUME Agents!IndInv PROVE Agents!PlannerIsFeasible
<1> SUFFICES ASSUME report # None PROVE Agents!PlannerIsFeasible BY DEF Agents!PlannerIsFeasible
<1>1. at \in {"verification", "policy"} BY DEF Agents!IndInv
<1>2. Agents!BundleInv /\ Agents!PlanInv /\ Agents!BriefInv(brief, wishes) BY <1>1 DEF Agents!IndInv
<1>3. report = [failed |-> Agents!Failed(brief, plan), warned |-> Agents!Warned(plan),
                risks |-> IF at = "policy" THEN Agents!Risks(plan) ELSE {}]
  BY <1>1 DEF Agents!IndInv
<1>4. report.failed = Agents!Failed(brief, plan) /\ report.risks \subseteq Agents!Risks(plan)
  BY <1>3
<1> QED BY <1>2, <1>4, PlanPasses, PlanIsCovered DEF Agents!PlannerIsFeasible

\* On a day whose routes fit, every visit ends before each later one can be reached.
LEMMA DayIsInOrder ==
    ASSUME NEW bs \in Seq(Agents!Drafts), Agents!Timed(bs),
           \A i \in 1 .. Len(bs) - 1 : bs[i + 1].start - bs[i].end >= bs[i + 1].leg
    PROVE  \A i, j \in DOMAIN bs : i < j => bs[i].end + bs[j].leg <= bs[j].start
<1>1. Len(bs) \in Nat /\ DOMAIN bs = 1 .. Len(bs) OBVIOUS
<1>2. ASSUME NEW i \in DOMAIN bs
      PROVE  /\ bs[i].start \in Nat /\ bs[i].end \in Nat /\ bs[i].leg \in Nat
             /\ bs[i].start <= bs[i].end
  <2>1. bs[i] \in Agents!Drafts OBVIOUS
  <2>2. bs[i].start \in Nat /\ bs[i].end \in Nat /\ bs[i].leg \in Nat /\ bs[i].minutes \in 1 .. 240
    BY <2>1 DEF Agents!Drafts
  <2>3. bs[i].minutes \in Nat BY <2>2, VisitLength
  <2>4. bs[i].end - bs[i].start = bs[i].minutes BY DEF Agents!Timed
  <2> QED BY <2>2, <2>3, <2>4, AgentSums
<1>3. ASSUME NEW k \in DOMAIN bs, k + 1 \in DOMAIN bs PROVE bs[k].end + bs[k + 1].leg <= bs[k + 1].start
  <2>1. k \in 1 .. Len(bs) - 1 BY <1>1, <1>3
  <2>2. bs[k + 1].start - bs[k].end >= bs[k + 1].leg BY <2>1
  <2> QED BY <1>2, <1>3, <2>2
<1>4. ASSUME NEW i \in DOMAIN bs, NEW j \in DOMAIN bs, i <= j PROVE bs[i].end <= bs[j].end
  <2> DEFINE G == {k \in Nat : i + k \in DOMAIN bs => bs[i].end <= bs[i + k].end}
  <2>1. 0 \in G
    <3>1. i + 0 = i BY <1>1
    <3> QED BY <1>2, <3>1
  <2>2. ASSUME NEW k \in 1 .. Len(bs), k - 1 \in G PROVE k \in G
    <3>1. SUFFICES ASSUME i + k \in DOMAIN bs PROVE bs[i].end <= bs[i + k].end BY <1>1
    <3> DEFINE m == i + (k - 1)
    <3>2. m \in DOMAIN bs /\ m + 1 = i + k /\ k - 1 \in Nat BY <1>1, <3>1
    <3>3. bs[i].end <= bs[m].end BY <2>2, <3>2
    <3> HIDE DEF m
    <3>4. bs[m].end + bs[m + 1].leg <= bs[m + 1].start BY <1>3, <3>1, <3>2
    <3>5. bs[m].end <= bs[m + 1].end BY <1>2, <3>1, <3>2, <3>4
    <3>6. bs[i].end <= bs[m + 1].end BY <1>2, <3>1, <3>2, <3>3, <3>5
    <3> QED BY <3>2, <3>6
  <2> HIDE DEF G
  <2>3. \A k \in 0 .. Len(bs) : k \in G BY <1>1, <2>1, <2>2, CountingUp
  <2>4. j - i \in 0 .. Len(bs) /\ i + (j - i) = j BY <1>1, <1>4
  <2>5. j - i \in G BY <2>3, <2>4
  <2> QED BY <2>4, <2>5 DEF G
<1>5. ASSUME NEW i \in DOMAIN bs, NEW j \in DOMAIN bs, i < j
      PROVE  bs[i].end + bs[j].leg <= bs[j].start
  <2>1. j - 1 \in DOMAIN bs /\ i <= j - 1 /\ (j - 1) + 1 = j BY <1>1, <1>5
  <2>2. bs[i].end <= bs[j - 1].end BY <1>4, <2>1
  <2>3. bs[j - 1].end + bs[j].leg <= bs[j].start BY <1>3, <2>1
  <2>4. bs[i].end \in Nat /\ bs[j].leg \in Nat /\ bs[j - 1].end \in Nat /\ bs[j].start \in Nat
    BY <1>2, <2>1
  <2>5. ASSUME NEW x \in Nat, NEW y \in Nat, NEW z \in Nat, NEW u \in Nat, x <= y, y + z <= u
        PROVE  x + z <= u
    BY <2>5
  <2> DEFINE p == bs[j - 1].end
  <2>6. bs[i].end <= p /\ p + bs[j].leg <= bs[j].start /\ p \in Nat BY <2>2, <2>3, <2>4
  <2> HIDE DEF p
  <2> QED BY <2>4, <2>5, <2>6
<1> QED BY <1>5

\* What the validator's verdict says of the planner's days.
LEMMA PassedIsSound ==
    ASSUME Agents!PlanInv, Agents!BriefInv(brief, wishes), Agents!Failed(brief, plan) = {}
    PROVE  /\ \A d \in Agents!ToSet(plan) : \A i, j \in DOMAIN d.blocks :
                i < j => /\ d.blocks[i].end + d.blocks[j].leg <= d.blocks[j].start
                         /\ d.blocks[i].place # d.blocks[j].place
           /\ Agents!PlanCost(plan) <= brief.budget
           /\ Agents!ConstraintsHold(brief, plan)
<1>1. /\ \A d \in Agents!ToSet(plan) : Agents!PlacesOncePerDay(d)
      /\ \A d \in Agents!ToSet(plan) : \A i \in 1 .. Len(d.blocks) - 1 :
           d.blocks[i + 1].start - d.blocks[i].end >= d.blocks[i + 1].leg
      /\ Agents!PlanCost(plan) <= brief.budget
      /\ Agents!ConstraintsHold(brief, plan)
  <2>1. "repeated" \notin Agents!Failed(brief, plan) /\ "route" \notin Agents!Failed(brief, plan)
        /\ "budget" \notin Agents!Failed(brief, plan) /\ "constraint" \notin Agents!Failed(brief, plan)
    OBVIOUS
  <2>2. \A d \in Agents!ToSet(plan) : Agents!PlacesOncePerDay(d) BY <2>1 DEF Agents!Failed
  <2>3. \A d \in Agents!ToSet(plan) : \A i \in 1 .. Len(d.blocks) - 1 :
           d.blocks[i + 1].start - d.blocks[i].end >= d.blocks[i + 1].leg
    BY <2>1 DEF Agents!Failed
  <2>4. Agents!PlanCost(plan) <= brief.budget BY <2>1 DEF Agents!Failed
  <2>5. Agents!ConstraintsHold(brief, plan) BY <2>1 DEF Agents!Failed
  <2> QED BY <2>2, <2>3, <2>4, <2>5
<1>2. ASSUME NEW d \in Agents!ToSet(plan), NEW i \in DOMAIN d.blocks, NEW j \in DOMAIN d.blocks, i < j
      PROVE  /\ d.blocks[i].end + d.blocks[j].leg <= d.blocks[j].start
             /\ d.blocks[i].place # d.blocks[j].place
  <2>1. PICK k \in DOMAIN plan : d = plan[k] BY PlanParts
  <2>2. d.blocks \in Seq(Agents!Drafts) /\ Agents!Timed(d.blocks) BY <2>1, PlanParts
  <2>3. d.blocks[i].end + d.blocks[j].leg <= d.blocks[j].start BY <1>1, <1>2, <2>2, DayIsInOrder
  <2>4. i \in Nat /\ j \in Nat BY <2>2
  <2>5. i # j BY <1>2, <2>4
  <2> QED BY <1>1, <2>3, <2>5 DEF Agents!PlacesOncePerDay
<1> QED BY <1>1, <1>2

\* The elements of a sequence that grew by one.
LEMMA ToSetAppend ==
    ASSUME NEW T, NEW s \in Seq(T), NEW x \in T
    PROVE  Agents!ToSet(Append(s, x)) = Agents!ToSet(s) \cup {x}
<1> DEFINE a == Append(s, x)
<1>1. /\ Len(s) \in Nat /\ DOMAIN s = 1 .. Len(s) /\ DOMAIN a = 1 .. Len(s) + 1
      /\ a[Len(s) + 1] = x /\ \A i \in 1 .. Len(s) : a[i] = s[i]
  OBVIOUS
<1>2. \A i \in DOMAIN a : i \in DOMAIN s \/ i = Len(s) + 1 BY <1>1
<1>3. \A i \in DOMAIN s : i \in DOMAIN a BY <1>1
<1>4. Len(s) + 1 \in DOMAIN a BY <1>1
<1> HIDE DEF a
<1>5. Agents!ToSet(a) = {a[i] : i \in DOMAIN a} /\ Agents!ToSet(s) = {s[i] : i \in DOMAIN s}
  BY DEF Agents!ToSet
<1> QED BY <1>1, <1>2, <1>3, <1>4, <1>5 DEF a

\* A place that is added is asked for or avoided, unless it was mentioned before.
LEMMA WithPlaceTerms ==
    ASSUME NEW C, NEW cs \in Seq(C), NEW type, NEW term, [type |-> type, term |-> term] \in C
    PROVE  /\ Agents!WithPlace(cs, type, term) \in Seq(C)
           /\ \/ /\ \E c \in Agents!ToSet(cs) : c.term = term
                 /\ Agents!ToSet(Agents!WithPlace(cs, type, term)) = Agents!ToSet(cs)
              \/ Agents!ToSet(Agents!WithPlace(cs, type, term)) = Agents!ToSet(cs) \cup {[type |-> type, term |-> term]}
<1> DEFINE x == [type |-> type, term |-> term]
<1>1. x \in C OBVIOUS
<1>2. Agents!WithPlace(cs, type, term) = IF \E c \in Agents!ToSet(cs) : c.term = term THEN cs ELSE Append(cs, x)
  BY DEF Agents!WithPlace
<1> HIDE DEF x
<1>3. Append(cs, x) \in Seq(C) /\ Agents!ToSet(Append(cs, x)) = Agents!ToSet(cs) \cup {x}
  BY <1>1, ToSetAppend
<1> QED BY <1>2, <1>3 DEF x

\* A patch keeps the brief in step with the patches.
LEMMA PatchedInv ==
    ASSUME Agents!AgentAssumption, NEW b, NEW ws, Agents!BriefInv(b, ws), NEW p \in Patches
    PROVE  Agents!BriefInv(Agents!Patched(b, p), Append(ws, p))
<1> DEFINE C == [type : {"avoid", "visit"}, term : Agents!Wished]
           n == Agents!Patched(b, p)
           a == Append(ws, p)
<1>1. p = [kind |-> p.kind, value |-> p.value] /\ p.kind \in {"dates", "budget", "exclude", "retain"}
  BY DEF Agents!AgentAssumption
<1>2. /\ b = [start |-> b.start, end |-> b.end, budget |-> b.budget, currency |-> b.currency,
              constraints |-> b.constraints]
      /\ b.start \in Int /\ b.end \in Int /\ b.start <= b.end
      /\ b.constraints \in Seq(C) /\ ws \in Seq(Patches)
  BY DEF Agents!BriefInv
<1>3. /\ Len(ws) \in Nat /\ DOMAIN ws = 1 .. Len(ws) /\ DOMAIN a = 1 .. Len(ws) + 1
      /\ a[Len(ws) + 1] = p /\ \A i \in DOMAIN ws : a[i] = ws[i] /\ i \in DOMAIN a
      /\ a \in Seq(Patches)
  BY <1>2
<1> HIDE DEF a
<1> DEFINE cs == n.constraints
           V(x) == {c \in Agents!ToSet(x) : c.type = "visit"}
           A(x) == {c \in Agents!ToSet(x) : c.type = "avoid"}
<1>4. /\ \A t \in Agents!Terms(b, "visit") : \E j \in DOMAIN a : a[j] = [kind |-> "retain", value |-> t]
      /\ \A i \in DOMAIN ws : Agents!Unasked(a, i) => a[i].value \in Agents!Terms(b, "avoid")
  <2>1. \A t \in Agents!Terms(b, "visit") : \E j \in DOMAIN ws : ws[j] = [kind |-> "retain", value |-> t]
    BY DEF Agents!BriefInv
  <2>2. ASSUME NEW i \in DOMAIN ws, Agents!Unasked(a, i) PROVE a[i].value \in Agents!Terms(b, "avoid")
    <3>1. \A j \in 1 .. i : j \in DOMAIN ws BY <1>3
    <3>2. Agents!Unasked(ws, i) BY <1>3, <2>2, <3>1 DEF Agents!Unasked
    <3>3. ws[i].value \in Agents!Terms(b, "avoid") BY <3>2 DEF Agents!BriefInv
    <3> QED BY <1>3, <3>3
  <2> QED BY <1>3, <2>1, <2>2
<1>5. \A i \in DOMAIN a : i \in DOMAIN ws \/ i = Len(ws) + 1 BY <1>3
<1>6. ASSUME p.kind \in {"dates", "budget"} PROVE Agents!BriefInv(n, a)
  <2>1. /\ n = [start |-> n.start, end |-> n.end, budget |-> n.budget, currency |-> n.currency,
                constraints |-> n.constraints]
        /\ n.constraints = b.constraints /\ n.start \in Int /\ n.end \in Int /\ n.start <= n.end
    <3>1. CASE p.kind = "dates"
      <4>1. n = [b EXCEPT !.start = p.value[1], !.end = p.value[2]] BY <3>1 DEF Agents!Patched
      <4>2. p.value[1] \in Int /\ p.value[2] \in Int /\ p.value[1] <= p.value[2]
        BY <3>1 DEF Agents!AgentAssumption
      <4>3. n = [start |-> p.value[1], end |-> p.value[2], budget |-> b.budget, currency |-> b.currency,
                 constraints |-> b.constraints]
        BY <1>2, <4>1
      <4> HIDE DEF n
      <4>4. n.start = p.value[1] /\ n.end = p.value[2] BY <4>3
      <4> QED BY <4>2, <4>3, <4>4
    <3>2. CASE p.kind = "budget"
      <4> DEFINE paid == IF p.value.currency = None THEN b.currency ELSE p.value.currency
      <4>1. n = [b EXCEPT !.budget = p.value.max, !.currency = paid]
        BY <3>2 DEF Agents!Patched, Agents!WithBudget
      <4> HIDE DEF n, paid
      <4>2. n = [start |-> b.start, end |-> b.end, budget |-> p.value.max, currency |-> paid,
                 constraints |-> b.constraints]
        BY <1>2, <4>1
      <4>3. n.start = b.start /\ n.end = b.end BY <4>2
      <4> QED BY <1>2, <4>2, <4>3
    <3> QED BY <1>6, <3>1, <3>2
  <2> HIDE DEF n
  <2>2. Agents!Terms(n, "visit") = Agents!Terms(b, "visit") /\ Agents!Terms(n, "avoid") = Agents!Terms(b, "avoid")
    BY <2>1 DEF Agents!Terms
  <2>3. ASSUME NEW i \in DOMAIN a, Agents!Unasked(a, i) PROVE a[i].value \in Agents!Terms(n, "avoid")
    <3>1. i # Len(ws) + 1 BY <1>3, <1>6, <2>3 DEF Agents!Unasked
    <3> QED BY <1>4, <1>5, <2>2, <2>3, <3>1
  <2>4. Agents!BriefInv(n, a) BY <1>2, <1>3, <1>4, <2>1, <2>2, <2>3 DEF Agents!BriefInv
  <2> QED BY <2>4
<1>7. ASSUME NEW type \in {"avoid", "visit"}, p.kind = IF type = "avoid" THEN "exclude" ELSE "retain"
      PROVE  Agents!BriefInv(n, a)
  <2> DEFINE W == Agents!WithPlace(b.constraints, type, p.value)
             x == [type |-> type, term |-> p.value]
  <2>1. x \in C BY <1>7 DEF Agents!Wished
  <2>2. /\ W \in Seq(C)
        /\ \/ (\E c \in Agents!ToSet(b.constraints) : c.term = p.value) /\ Agents!ToSet(W) = Agents!ToSet(b.constraints)
           \/ Agents!ToSet(W) = Agents!ToSet(b.constraints) \cup {x}
    <3> HIDE DEF C
    <3> QED BY <1>2, <2>1, WithPlaceTerms
  <2>3. n = [b EXCEPT !.constraints = W] BY <1>7 DEF Agents!Patched
  <2> HIDE DEF n, W
  <2>4. n = [start |-> b.start, end |-> b.end, budget |-> b.budget, currency |-> b.currency,
             constraints |-> W]
    BY <1>2, <2>3
  <2>5. n.start = b.start /\ n.end = b.end /\ n.constraints = W /\ n.budget = b.budget /\ n.currency = b.currency
    BY <2>4
  <2>6. ASSUME NEW t \in Agents!Terms(n, "visit") PROVE \E j \in DOMAIN a : a[j] = [kind |-> "retain", value |-> t]
    <3>1. PICK c \in Agents!ToSet(W) : c.type = "visit" /\ t = c.term BY <2>5 DEF Agents!Terms
    <3>2. CASE c \in Agents!ToSet(b.constraints)
      <4>1. t \in Agents!Terms(b, "visit") BY <3>1, <3>2 DEF Agents!Terms
      <4> QED BY <1>4, <4>1
    <3>3. CASE c = x
      <4>1. type = "visit" /\ t = p.value BY <3>1, <3>3
      <4>2. p = [kind |-> "retain", value |-> t] BY <1>1, <1>7, <4>1
      <4>3. Len(ws) + 1 \in DOMAIN a BY <1>3
      <4> QED BY <1>3, <4>2, <4>3
    <3> QED BY <2>2, <3>2, <3>3
  <2>7. Agents!Terms(b, "avoid") \subseteq Agents!Terms(n, "avoid") BY <2>2, <2>5 DEF Agents!Terms
  <2>8. ASSUME NEW i \in DOMAIN a, Agents!Unasked(a, i) PROVE a[i].value \in Agents!Terms(n, "avoid")
    <3>1. CASE i \in DOMAIN ws BY <1>4, <2>7, <2>8, <3>1
    <3>2. CASE i = Len(ws) + 1
      <4>1. a[i] = p /\ type = "avoid" BY <1>3, <1>7, <2>8, <3>2 DEF Agents!Unasked
      <4>2. CASE Agents!ToSet(W) = Agents!ToSet(b.constraints) \cup {x}
        <5>1. x \in Agents!ToSet(n.constraints) /\ x.type = "avoid" /\ x.term = p.value
          BY <2>5, <4>1, <4>2
        <5> HIDE DEF x
        <5>2. p.value \in Agents!Terms(n, "avoid") BY <5>1 DEF Agents!Terms
        <5> QED BY <4>1, <5>2
      <4>3. CASE (\E c \in Agents!ToSet(b.constraints) : c.term = p.value) /\ Agents!ToSet(W) = Agents!ToSet(b.constraints)
        <5>1. PICK c \in Agents!ToSet(b.constraints) : c.term = p.value BY <4>3
        <5>2. c.type \in {"avoid", "visit"}
          <6>1. c \in C
            <7> HIDE DEF C
            <7> QED BY <1>2 DEF Agents!ToSet
          <6> QED BY <6>1
        <5>3. c.type # "visit"
          <6>1. SUFFICES ASSUME c.type = "visit" PROVE FALSE OBVIOUS
          <6>2. p.value \in Agents!Terms(b, "visit") BY <5>1, <6>1 DEF Agents!Terms
          <6>3. PICK j \in DOMAIN ws : ws[j] = [kind |-> "retain", value |-> p.value]
            BY <6>2 DEF Agents!BriefInv
          <6>4. j \in 1 .. i /\ a[j] = ws[j] BY <1>3, <3>2
          <6>5. [p EXCEPT !.kind = "retain"] = [kind |-> "retain", value |-> p.value] BY <1>1
          <6> QED BY <2>8, <4>1, <6>3, <6>4, <6>5 DEF Agents!Unasked
        <5>4. p.value \in Agents!Terms(n, "avoid") BY <2>5, <4>3, <5>1, <5>2, <5>3 DEF Agents!Terms
        <5> QED BY <4>1, <5>4
      <4> QED BY <2>2, <4>2, <4>3
    <3> QED BY <1>5, <3>1, <3>2
  <2>9. n = [start |-> n.start, end |-> n.end, budget |-> n.budget, currency |-> n.currency,
             constraints |-> n.constraints]
    BY <2>4, <2>5
  <2> QED BY <1>2, <1>3, <2>2, <2>5, <2>6, <2>8, <2>9 DEF Agents!BriefInv
<1> HIDE DEF n
<1>8. Agents!BriefInv(n, a)
  <2>1. CASE p.kind = "exclude"
    <3>1. p.kind = IF "avoid" = "avoid" THEN "exclude" ELSE "retain" BY <2>1
    <3> QED BY <1>7, <3>1
  <2>2. CASE p.kind = "retain"
    <3>1. p.kind = IF "visit" = "avoid" THEN "exclude" ELSE "retain" BY <2>2
    <3> QED BY <1>7, <3>1
  <2> QED BY <1>1, <1>6, <2>1, <2>2
<1> QED BY <1>8 DEF a, n

\* What is sent to the model is a sequence of evidence.
LEMMA SentIsSeq ==
    ASSUME Agents!AgentAssumption, NEW q, NEW w
    PROVE  Agents!Sent(q, w) \in Seq({"rag", "catalog", "provider"} \X Nat)
<1> DEFINE T == {"rag", "catalog", "provider"} \X Nat
           open == Agents!OpenPlaces(q.today)
           r == IF Agents!HasItems(w) THEN <<<<"rag", 1>>>> ELSE <<>>
           c == IF q.hint THEN [i \in DOMAIN open |-> <<"catalog", i>>] ELSE <<>>
           v == IF q.hint /\ Agents!HasPlaces(w) THEN [i \in DOMAIN LivePlaces |-> <<"provider", i>>] ELSE <<>>
<1>1. open \in Seq(DOMAIN Duration) /\ LivePlaces \in Seq(DOMAIN Duration)
  <2> DEFINE I == {i \in DOMAIN Catalog : q.today \notin ClosedOn[Catalog[i]]}
  <2>1. Catalog \in Seq(DOMAIN Duration) /\ I \in SUBSET (DOMAIN Catalog)
    BY DEF Agents!AgentAssumption
  <2> QED BY <2>1, PickedIsSeq DEF Agents!OpenPlaces, Agents!AgentAssumption
<1> HIDE DEF open
<1>2. r \in Seq(T) /\ c \in Seq(T) /\ v \in Seq(T)
  <2>1. \A i \in Nat : <<"rag", i>> \in T /\ <<"catalog", i>> \in T /\ <<"provider", i>> \in T OBVIOUS
  <2>2. /\ Len(open) \in Nat /\ DOMAIN open = 1 .. Len(open)
        /\ Len(LivePlaces) \in Nat /\ DOMAIN LivePlaces = 1 .. Len(LivePlaces)
    BY <1>1
  <2>3. r \in Seq(T)
    <3>1. PICK e \in T : e = <<"rag", 1>> BY <2>1
    <3> HIDE DEF T
    <3>2. <<e>> \in Seq(T) /\ <<>> \in Seq(T) OBVIOUS
    <3> QED BY <3>1, <3>2
  <2> HIDE DEF T
  <2>4. <<>> \in Seq(T) OBVIOUS
  <2>5. c \in Seq(T)
    <3> DEFINE f == [i \in 1 .. Len(open) |-> <<"catalog", i>>]
    <3>0. \A i \in 1 .. Len(open) : i \in Nat BY <2>2
    <3>1. \A i \in 1 .. Len(open) : <<"catalog", i>> \in T BY <2>1, <3>0, Zenon
    <3>2. f \in [1 .. Len(open) -> T] BY <3>1
    <3>3. c = IF q.hint THEN f ELSE <<>> BY <2>2
    <3> HIDE DEF f, c
    <3>4. f \in Seq(T) BY <2>2, <3>2
    <3> QED BY <2>4, <3>3, <3>4
  <2>6. v \in Seq(T)
    <3> DEFINE f == [i \in 1 .. Len(LivePlaces) |-> <<"provider", i>>]
    <3>0. \A i \in 1 .. Len(LivePlaces) : i \in Nat BY <2>2
    <3>1. \A i \in 1 .. Len(LivePlaces) : <<"provider", i>> \in T BY <2>1, <3>0, Zenon
    <3>2. f \in [1 .. Len(LivePlaces) -> T] BY <3>1
    <3>3. v = IF q.hint /\ Agents!HasPlaces(w) THEN f ELSE <<>> BY <2>2
    <3> HIDE DEF f, v
    <3>4. f \in Seq(T) BY <2>2, <3>2
    <3> QED BY <2>4, <3>3, <3>4
  <2> QED BY <2>3, <2>5, <2>6
<1>3. Agents!AnswerEvidence(q, w) = r \o c \o v BY DEF Agents!AnswerEvidence, open
<1> HIDE DEF r, c, v, T
<1> DEFINE ids == Agents!AnswerEvidence(q, w)
<1>4. ids \in Seq(T) BY <1>2, <1>3
<1> HIDE DEF ids
<1> DEFINE J == {j \in DOMAIN ids : \A i \in 1 .. j - 1 : Statement[ids[i]] # Statement[ids[j]]}
<1>5. J \in SUBSET (DOMAIN ids) OBVIOUS
<1>6. Agents!Unique(ids) = Agents!Picked(ids, J) BY DEF Agents!Unique
<1> HIDE DEF J
<1>7. Agents!Unique(ids) \in Seq(T) BY <1>4, <1>5, <1>6, PickedIsSeq
<1> DEFINE u == Agents!Unique(ids)
<1> HIDE DEF u
<1>8. u \in Seq(T) BY <1>7 DEF u
<1>9. Agents!FirstOf(Agents!MaxSent, u) \in Seq(T) BY <1>8 DEF Agents!FirstOf, Agents!MaxSent
<1> QED BY <1>9 DEF Agents!Sent, u, ids, T

\* The first of some elements are among them, and are none only of none.
LEMMA FirstOfMany ==
    ASSUME NEW T, NEW s \in Seq(T), NEW n \in Nat \ {0}
    PROVE  /\ Agents!ToSet(Agents!FirstOf(n, s)) \subseteq Agents!ToSet(s)
           /\ Agents!ToSet(Agents!FirstOf(n, s)) = {} <=> s = <<>>
<1> DEFINE m == IF Len(s) < n THEN Len(s) ELSE n
           f == SubSeq(s, 1, m)
<1>1. Len(s) \in Nat /\ DOMAIN s = 1 .. Len(s) /\ m \in 0 .. Len(s) OBVIOUS
<1>2. m = 0 <=> Len(s) = 0 BY <1>1
<1>3. s = <<>> <=> Len(s) = 0 OBVIOUS
<1> HIDE DEF m
<1>4. f = [i \in 1 .. m |-> s[i]]
  <2>1. m \in Nat /\ (m - 1) + 1 = m BY <1>1
  <2>2. Len(f) = m /\ DOMAIN f = 1 .. m BY <1>1, <2>1
  <2>3. \A i \in 1 .. m : f[i] = s[i] BY <1>1, <2>1
  <2>4. f \in Seq(T) BY <1>1, <2>1
  <2> QED BY <2>2, <2>3, <2>4
<1>5. Agents!FirstOf(n, s) = f BY DEF Agents!FirstOf, m
<1> HIDE DEF f
<1>6. Agents!ToSet(f) = {s[i] : i \in 1 .. m} /\ Agents!ToSet(s) = {s[i] : i \in DOMAIN s}
  BY <1>4 DEF Agents!ToSet
<1>7. \A i \in 1 .. m : i \in DOMAIN s BY <1>1
<1>8. m # 0 => 1 \in 1 .. m BY <1>1
<1>9. m = 0 => 1 .. m = {} OBVIOUS
<1> QED BY <1>2, <1>3, <1>5, <1>6, <1>7, <1>8, <1>9

\* Every answer is grounded, whatever the model cited.
LEMMA AnswerStep ==
    ASSUME Agents!AgentAssumption, NEW q, NEW w, NEW refs, Agents!Answer(q, w, refs)
    PROVE  Agents!AnswerIsGrounded'
<1> DEFINE s == Agents!Sent(q, w)
           T == {"rag", "catalog", "provider"} \X Nat
<1>1. s \in Seq(T) BY SentIsSeq
<1>2. answer' = [status |-> IF s = <<>> THEN "insufficient_evidence" ELSE "answered",
                 evidence |-> Agents!ToSet(s),
                 cited |-> IF s # <<>> /\ Agents!Usable(refs, q, w) THEN refs ELSE Agents!ToSet(Agents!FirstOf(4, s))]
  BY DEF Agents!Answer
<1>3. Agents!Usable(refs, q, w) <=> refs # {} /\ refs \subseteq Agents!ToSet(s) BY DEF Agents!Usable
<1> HIDE DEF s, T
<1>4. Agents!ToSet(Agents!FirstOf(4, s)) \subseteq Agents!ToSet(s) /\ (Agents!ToSet(Agents!FirstOf(4, s)) = {} <=> s = <<>>)
  BY <1>1, FirstOfMany
<1>5. /\ answer'.status = IF s = <<>> THEN "insufficient_evidence" ELSE "answered"
      /\ answer'.evidence = Agents!ToSet(s)
      /\ answer'.cited = IF s # <<>> /\ Agents!Usable(refs, q, w) THEN refs ELSE Agents!ToSet(Agents!FirstOf(4, s))
  BY <1>2
<1>6. answer'.cited \subseteq answer'.evidence BY <1>3, <1>4, <1>5
<1>7. answer'.status = "answered" <=> s # <<>> BY <1>5
<1>8. answer'.cited # {} <=> s # <<>> BY <1>3, <1>4, <1>5
<1> QED BY <1>6, <1>7, <1>8 DEF Agents!AnswerIsGrounded

\* A stage that leaves brief, bundle and plan alone leaves what is said of them alone.
LEMMA SameBundle ==
    ASSUME bundle' = bundle
    PROVE  (Agents!BundleInv => Agents!BundleInv') /\ Agents!Known' = Agents!Known /\ Agents!Drafts' = Agents!Drafts
BY DEF Agents!BundleInv, Agents!Offered, Agents!Known, Agents!Drafts

\* Nor does the validators' verdict change while brief, bundle and plan stay.
LEMMA SamePlan ==
    ASSUME bundle' = bundle, plan' = plan, brief' = brief
    PROVE  /\ Agents!PlanInv => Agents!PlanInv'
           /\ Agents!Failed(brief, plan)' = Agents!Failed(brief, plan)
           /\ Agents!Warned(plan)' = Agents!Warned(plan) /\ Agents!Risks(plan)' = Agents!Risks(plan)
<1>1. Agents!PlanInv => Agents!PlanInv'
  BY DEF Agents!PlanInv, Agents!DaysInv, Agents!Drafts, Agents!Offered
<1>2. Agents!Failed(brief, plan)' = Agents!Failed(brief, plan) BY DEF Agents!Failed, Agents!Known
<1>3. Agents!Warned(plan)' = Agents!Warned(plan) BY DEF Agents!Warned, Agents!Fresh
<1>4. Agents!Risks(plan)' = Agents!Risks(plan) BY DEF Agents!Risks, Agents!Known, Agents!Supported
<1> QED BY <1>1, <1>2, <1>3, <1>4

\* The promises about the snapshot and the answer depend on nothing else.
LEMMA SamePromises ==
    /\ snapshot' = snapshot =>
         /\ Agents!PublishedPlanIsSound => Agents!PublishedPlanIsSound'
         /\ Agents!ExcludedStaysOut => Agents!ExcludedStaysOut'
         /\ Agents!NoConflictIsPublished => Agents!NoConflictIsPublished'
    /\ answer' = answer /\ Agents!AnswerIsGrounded => Agents!AnswerIsGrounded'
BY DEF Agents!PublishedPlanIsSound, Agents!ExcludedStaysOut, Agents!NoConflictIsPublished, Agents!AnswerIsGrounded

\* The first attempt starts from the request.
LEMMA AgentInit == ASSUME Agents!AgentAssumption, Agents!Init PROVE Agents!IndInv
<1>1. at \in {"research", "question"} /\ snapshot = None /\ report = None /\ answer = None
      /\ wishes = <<>> /\ brief \in Requests
  BY DEF Agents!Init
<1>2. Agents!BriefInv(brief, wishes)
  <2>1. /\ brief = [start |-> brief.start, end |-> brief.end, budget |-> brief.budget,
                    currency |-> brief.currency, constraints |-> <<>>]
        /\ brief.start \in Int /\ brief.end \in Int /\ brief.start <= brief.end
    BY <1>1 DEF Agents!AgentAssumption
  <2>2. brief.constraints = <<>> BY <2>1
  <2>3. Agents!ToSet(brief.constraints) = {} BY <2>2 DEF Agents!ToSet
  <2>4. Agents!Terms(brief, "visit") = {} BY <2>3 DEF Agents!Terms
  <2>5. <<>> \in Seq(Patches) /\ DOMAIN wishes = {} BY <1>1
  <2>6. <<>> \in Seq([type : {"avoid", "visit"}, term : Agents!Wished]) OBVIOUS
  <2> QED BY <1>1, <2>1, <2>2, <2>4, <2>5, <2>6 DEF Agents!BriefInv
<1> QED
  BY <1>1, <1>2 DEF Agents!IndInv, Agents!PublishedPlanIsSound, Agents!ExcludedStaysOut, Agents!NoConflictIsPublished, Agents!AnswerIsGrounded

\* Research leaves candidates that cite the bundle's evidence, or gives up.
LEMMA ResearchStep == ASSUME Agents!AgentAssumption, Agents!IndInv, NEW w \in Worlds, Agents!Research(w) PROVE Agents!IndInv'
<1>1. at = "research" /\ UNCHANGED <<brief, plan, report, snapshot, wishes, answer>>
  BY DEF Agents!Research
<1>2. report = None BY <1>1 DEF Agents!IndInv
<1>3. at' \in {"failed", "planning"} /\ (at' = "planning" => Agents!BundleInv')
  <2>1. CASE Agents!NoSource(brief, w) BY <2>1 DEF Agents!Research
  <2>2. CASE ~Agents!NoSource(brief, w)
    <3> DEFINE ev == Agents!RagEvidence(w) \cup Agents!ProviderEvidence(w) \cup Agents!CatalogEvidence(brief, w)
                       \cup Agents!WeatherEvidence(w) \cup Agents!OpeningEvidence(w)
               cs == Agents!Candidates(brief, w)
    <3>1. at' = "planning" /\ bundle' = [evidence |-> ev, candidates |-> cs, notes |-> Agents!Degraded(w),
                                         conflict |-> w.rag = "conflict"]
      BY <2>2 DEF Agents!Research
    <3>2. /\ cs \in Seq(Agents!ToSet(cs))
          /\ \A c \in Agents!ToSet(cs) : /\ c.refs # {} /\ c.refs \subseteq {e.id : e \in ev} /\ c.place \in Agents!Stops
                                         /\ c.minutes = None \/ c.minutes \in Nat \ {0}
      BY <2>2, ResearchInv
    <3> HIDE DEF ev, cs
    <3>3. bundle'.evidence = ev /\ bundle'.candidates = cs BY <3>1
    <3>4. Agents!BundleInv' BY <3>2, <3>3 DEF Agents!BundleInv, Agents!Offered, Agents!Known
    <3> QED BY <3>1, <3>4
  <2> QED BY <2>1, <2>2
<1>4. Agents!BriefInv(brief, wishes)' /\ (snapshot # None => Agents!BriefInv(snapshot.brief, snapshot.wishes))'
  BY <1>1 DEF Agents!IndInv
<1>5. (Agents!PublishedPlanIsSound /\ Agents!ExcludedStaysOut /\ Agents!NoConflictIsPublished /\ Agents!AnswerIsGrounded)'
  BY <1>1, SamePromises DEF Agents!IndInv
<1> QED BY <1>1, <1>2, <1>3, <1>4, <1>5 DEF Agents!IndInv

\* The planner leaves a feasible plan, or gives up.
LEMMA PlanStep == ASSUME Agents!AgentAssumption, Agents!IndInv, NEW route \in Routes, Agents!Plan(route) PROVE Agents!IndInv'
<1> DEFINE days == Agents!BuildCandidate(brief, bundle.candidates, route)
<1>1. at = "planning" /\ UNCHANGED <<brief, report, snapshot, wishes, answer>> /\ plan' = days
  BY DEF Agents!Plan
<1>2. report = None /\ Agents!BundleInv /\ Agents!BriefInv(brief, wishes) BY <1>1 DEF Agents!IndInv
<1>3. at' = (IF plan' = None THEN "failed" ELSE "validation") /\ (plan' # None => bundle' = bundle)
  BY DEF Agents!Plan
<1>4. ASSUME plan' # None PROVE Agents!BundleInv' /\ Agents!PlanInv'
  <2>1. bundle' = bundle /\ days # None BY <1>1, <1>3, <1>4
  <2>2. Agents!BundleInv' BY <1>2, <2>1, SameBundle
  <2>3. /\ Agents!DaysInv(brief, days) /\ Len(days) = (brief.end - brief.start) + 1
        /\ \A i \in DOMAIN days : ~days[i].broken
    BY <1>2, <2>1, PlanIsFeasible
  <2> HIDE DEF days
  <2>4. Agents!Drafts' = Agents!Drafts BY <2>1, SameBundle
  <2>5. Agents!PlanInv' BY <1>1, <2>3, <2>4 DEF Agents!PlanInv, Agents!DaysInv
  <2> QED BY <2>2, <2>5
<1> HIDE DEF days
<1>5. Agents!BriefInv(brief, wishes)' /\ (snapshot # None => Agents!BriefInv(snapshot.brief, snapshot.wishes))'
  BY <1>1 DEF Agents!IndInv
<1>6. (Agents!PublishedPlanIsSound /\ Agents!ExcludedStaysOut /\ Agents!NoConflictIsPublished /\ Agents!AnswerIsGrounded)'
  BY <1>1, SamePromises DEF Agents!IndInv
<1> QED BY <1>1, <1>2, <1>3, <1>4, <1>5, <1>6 DEF Agents!IndInv

\* The validator reports on the plan it was given.
LEMMA ValidateStep == ASSUME Agents!IndInv, Agents!Validate PROVE Agents!IndInv'
<1>1. at = "validation" /\ UNCHANGED <<brief, bundle, plan, snapshot, wishes, answer>> /\ at' = "verification"
      /\ report' = [failed |-> Agents!Failed(brief, plan), warned |-> Agents!Warned(plan), risks |-> {}]
  BY DEF Agents!Validate
<1>2. Agents!BundleInv' /\ Agents!PlanInv' BY <1>1, SameBundle, SamePlan DEF Agents!IndInv
<1>3. report' = [failed |-> Agents!Failed(brief, plan)', warned |-> Agents!Warned(plan)', risks |-> {}]
  BY <1>1, SamePlan
<1>4. Agents!BriefInv(brief, wishes)' /\ (snapshot # None => Agents!BriefInv(snapshot.brief, snapshot.wishes))'
  BY <1>1 DEF Agents!IndInv
<1>5. (Agents!PublishedPlanIsSound /\ Agents!ExcludedStaysOut /\ Agents!NoConflictIsPublished /\ Agents!AnswerIsGrounded)'
  BY <1>1, SamePromises DEF Agents!IndInv
<1> QED BY <1>1, <1>2, <1>3, <1>4, <1>5 DEF Agents!IndInv

\* The verifier adds the risks of the same plan.
LEMMA VerifyStep == ASSUME Agents!IndInv, Agents!Verify PROVE Agents!IndInv'
<1>1. at = "verification" /\ UNCHANGED <<brief, bundle, plan, snapshot, wishes, answer>> /\ at' = "policy"
      /\ report' = [report EXCEPT !.risks = Agents!Risks(plan)]
  BY DEF Agents!Verify
<1>2. Agents!BundleInv' /\ Agents!PlanInv' BY <1>1, SameBundle, SamePlan DEF Agents!IndInv
<1>3. report' = [failed |-> Agents!Failed(brief, plan)', warned |-> Agents!Warned(plan)', risks |-> Agents!Risks(plan)']
  <2>1. report = [failed |-> Agents!Failed(brief, plan), warned |-> Agents!Warned(plan), risks |-> {}]
    BY <1>1 DEF Agents!IndInv
  <2>2. report' = [failed |-> Agents!Failed(brief, plan), warned |-> Agents!Warned(plan), risks |-> Agents!Risks(plan)]
    BY <1>1, <2>1
  <2> QED BY <1>1, <2>2, SamePlan
<1>4. Agents!BriefInv(brief, wishes)' /\ (snapshot # None => Agents!BriefInv(snapshot.brief, snapshot.wishes))'
  BY <1>1 DEF Agents!IndInv
<1>5. (Agents!PublishedPlanIsSound /\ Agents!ExcludedStaysOut /\ Agents!NoConflictIsPublished /\ Agents!AnswerIsGrounded)'
  BY <1>1, SamePromises DEF Agents!IndInv
<1> QED BY <1>1, <1>2, <1>3, <1>4, <1>5 DEF Agents!IndInv

\* Only a plan that passed is published, and it keeps every promise.
LEMMA CombineStep == ASSUME Agents!IndInv, Agents!Combine PROVE Agents!IndInv'
<1>1. at = "policy" /\ UNCHANGED <<brief, wishes, answer>> /\ report' = None BY DEF Agents!Combine
<1>2. Agents!AnswerIsGrounded' BY <1>1, SamePromises DEF Agents!IndInv
<1>3. Agents!BriefInv(brief, wishes) /\ Agents!BriefInv(brief, wishes)' BY <1>1 DEF Agents!IndInv
<1>4. CASE ~Agents!Publishable(report)
  <2>1. at' = "blocked" /\ snapshot' = snapshot BY <1>4 DEF Agents!Combine
  <2>2. (snapshot # None => Agents!BriefInv(snapshot.brief, snapshot.wishes))'
    BY <2>1 DEF Agents!IndInv
  <2>3. (Agents!PublishedPlanIsSound /\ Agents!ExcludedStaysOut /\ Agents!NoConflictIsPublished)'
    BY <2>1, SamePromises DEF Agents!IndInv
  <2> QED BY <1>1, <1>2, <1>3, <2>1, <2>2, <2>3 DEF Agents!IndInv
<1>5. CASE Agents!Publishable(report)
  <2> DEFINE s == snapshot'
  <2>1. at' = "published" /\ s = [brief |-> brief, plan |-> plan, wishes |-> wishes, conflict |-> bundle.conflict]
    BY <1>5 DEF Agents!Combine
  <2>2. s.brief = brief /\ s.plan = plan /\ s.wishes = wishes /\ s.conflict = bundle.conflict
    BY <2>1
  <2>3. Agents!PlanInv /\ Agents!BundleInv BY <1>1 DEF Agents!IndInv
  <2>4. Agents!Failed(brief, plan) = {} /\ Agents!Risks(plan) = {}
    <3>1. report = [failed |-> Agents!Failed(brief, plan), warned |-> Agents!Warned(plan), risks |-> Agents!Risks(plan)]
      BY <1>1 DEF Agents!IndInv
    <3>2. report.failed = Agents!Failed(brief, plan) /\ report.risks = Agents!Risks(plan) BY <3>1
    <3> QED BY <1>5, <3>2 DEF Agents!Publishable
  <2>5. Agents!PublishedPlanIsSound'
    <3>1. /\ \A d \in Agents!ToSet(plan) : \A i, j \in DOMAIN d.blocks :
               i < j => /\ d.blocks[i].end + d.blocks[j].leg <= d.blocks[j].start
                        /\ d.blocks[i].place # d.blocks[j].place
          /\ Agents!PlanCost(plan) <= brief.budget
          /\ Agents!ConstraintsHold(brief, plan)
      BY <1>3, <2>3, <2>4, PassedIsSound
    <3>2. /\ \A t \in Agents!Terms(brief, "visit") : Agents!Mentioned(t, plan)
          /\ \A t \in Agents!Terms(brief, "avoid") : ~Agents!Mentioned(t, plan)
      BY <3>1 DEF Agents!ConstraintsHold
    <3> QED BY <2>2, <3>1, <3>2 DEF Agents!PublishedPlanIsSound
  <2>6. Agents!ExcludedStaysOut'
    <3>1. Agents!ConstraintsHold(brief, plan) BY <1>3, <2>3, <2>4, PassedIsSound
    <3>2. ASSUME NEW i \in DOMAIN wishes, Agents!Unasked(wishes, i) PROVE Matches[wishes[i].value] \cap Agents!Places(plan) = {}
      <4>1. wishes[i].value \in Agents!Terms(brief, "avoid") BY <1>3, <3>2 DEF Agents!BriefInv
      <4>2. ~Agents!Mentioned(wishes[i].value, plan) BY <3>1, <4>1 DEF Agents!ConstraintsHold
      <4> QED BY <4>2 DEF Agents!Mentioned
    <3> QED BY <2>2, <3>2 DEF Agents!ExcludedStaysOut, Agents!Unasked
  <2>7. Agents!NoConflictIsPublished'
    <3>1. ~bundle.conflict BY <2>4 DEF Agents!Risks
    <3> QED BY <2>2, <3>1 DEF Agents!NoConflictIsPublished
  <2>8. (snapshot # None => Agents!BriefInv(snapshot.brief, snapshot.wishes))' BY <1>3, <2>2
  <2> QED BY <1>1, <1>2, <1>3, <2>1, <2>5, <2>6, <2>7, <2>8 DEF Agents!IndInv
<1> QED BY <1>4, <1>5

\* A replan starts from the published brief, not from that of a failed attempt.
LEMMA ReplanStep == ASSUME Agents!AgentAssumption, Agents!IndInv, NEW p \in Patches, Agents!Replan(p) PROVE Agents!IndInv'
<1>1. /\ at \in {"published", "blocked", "failed"} /\ snapshot # None /\ at' = "research"
      /\ brief' = Agents!Patched(snapshot.brief, p) /\ wishes' = Append(snapshot.wishes, p)
      /\ UNCHANGED <<bundle, plan, report, snapshot, answer>>
  BY DEF Agents!Replan
<1>2. report = None BY <1>1 DEF Agents!IndInv
<1>3. Agents!BriefInv(snapshot.brief, snapshot.wishes) BY <1>1 DEF Agents!IndInv
<1>4. Agents!BriefInv(brief', wishes') BY <1>1, <1>3, PatchedInv
<1>5. Agents!BriefInv(brief, wishes)' /\ (snapshot # None => Agents!BriefInv(snapshot.brief, snapshot.wishes))'
  BY <1>1, <1>3, <1>4
<1>6. (Agents!PublishedPlanIsSound /\ Agents!ExcludedStaysOut /\ Agents!NoConflictIsPublished /\ Agents!AnswerIsGrounded)'
  BY <1>1, SamePromises DEF Agents!IndInv
<1> QED BY <1>1, <1>2, <1>5, <1>6 DEF Agents!IndInv

\* Answering a question touches no plan.
LEMMA AnsweringStep ==
    ASSUME Agents!AgentAssumption, Agents!IndInv, NEW q, NEW w, NEW refs, Agents!Answer(q, w, refs)
    PROVE  Agents!IndInv'
<1>1. at = "question" /\ at' = "answered" /\ UNCHANGED <<brief, bundle, plan, report, snapshot, wishes>>
  BY DEF Agents!Answer
<1>2. report = None BY <1>1 DEF Agents!IndInv
<1>3. Agents!BriefInv(brief, wishes)' /\ (snapshot # None => Agents!BriefInv(snapshot.brief, snapshot.wishes))'
  BY <1>1 DEF Agents!IndInv
<1>4. (Agents!PublishedPlanIsSound /\ Agents!ExcludedStaysOut /\ Agents!NoConflictIsPublished)'
  BY <1>1, SamePromises DEF Agents!IndInv
<1>5. Agents!AnswerIsGrounded' BY AnswerStep
<1> QED BY <1>1, <1>2, <1>3, <1>4, <1>5 DEF Agents!IndInv

\* While other services act, the agents' state stays.
LEMMA AgentIdle == ASSUME Agents!IndInv, UNCHANGED Agents!vars PROVE Agents!IndInv'
<1>1. UNCHANGED <<at, brief, bundle, plan, report, snapshot, wishes, answer>> BY DEF Agents!vars
<1>2. (Agents!BundleInv => Agents!BundleInv') /\ (Agents!PlanInv => Agents!PlanInv')
  BY <1>1, SameBundle, SamePlan
<1>3. Agents!Failed(brief, plan)' = Agents!Failed(brief, plan) /\ Agents!Warned(plan)' = Agents!Warned(plan) /\ Agents!Risks(plan)' = Agents!Risks(plan)
  BY <1>1, SamePlan
<1>4. Agents!BriefInv(brief, wishes)' /\ (snapshot # None => Agents!BriefInv(snapshot.brief, snapshot.wishes))'
  BY <1>1 DEF Agents!IndInv
<1>5. (Agents!PublishedPlanIsSound /\ Agents!ExcludedStaysOut /\ Agents!NoConflictIsPublished /\ Agents!AnswerIsGrounded)'
  BY <1>1, SamePromises DEF Agents!IndInv
<1> QED BY <1>1, <1>2, <1>3, <1>4, <1>5 DEF Agents!IndInv

\* The invariant is inductive.
LEMMA AgentNext == ASSUME Agents!AgentAssumption, Agents!IndInv, [Agents!Next]_(Agents!vars) PROVE Agents!IndInv'
BY ResearchStep, PlanStep, ValidateStep, VerifyStep, CombineStep, ReplanStep, AnsweringStep, AgentIdle DEF Agents!Next

\* The invariant implies what the agents promise.
LEMMA AgentPromises == ASSUME Agents!IndInv PROVE Agents!PlansAreSound
BY FeasiblePlans DEF Agents!PlansAreSound, Agents!IndInv

\* Whatever the sources hold and however long the routes are, the stages of planning keep the
\* invariant behind the agents' promises.
THEOREM AgentInvariance == Agents!AgentAssumption => (Agents!Spec => []Agents!IndInv)
<1> SUFFICES ASSUME Agents!AgentAssumption PROVE Agents!Spec => []Agents!IndInv OBVIOUS
<1>1. Agents!Init => Agents!IndInv BY AgentInit
<1>2. Agents!IndInv /\ [Agents!Next]_(Agents!vars) => Agents!IndInv' BY AgentNext
<1> QED BY <1>1, <1>2, PTL DEF Agents!Spec

\* Plans pass the validator's checks or are not published, what was excluded stays out of every
\* later plan, no conflict is published, and answers cite what they show.
THEOREM AgentSafety == Agents!AgentAssumption => (Agents!Spec => []Agents!PlansAreSound)
<1>1. Agents!IndInv => Agents!PlansAreSound BY AgentPromises
<1> QED BY <1>1, AgentInvariance, PTL

-----------------------------------------------------------------------------
(* The services together. *)

\* A step of the services is one of each service, or leaves it as it is.
LEMMA OneService ==
    [Next]_vars => /\ [Web!Next]_(Web!vars) /\ [Share!Next]_(Share!vars)
                   /\ [Knowledge!Next]_(Knowledge!vars) /\ [Import!Next]_(Import!vars)
                   /\ [Agents!Next]_(Agents!vars)
<1> SUFFICES ASSUME [Next]_vars
             PROVE  /\ [Web!Next]_(Web!vars) /\ [Share!Next]_(Share!vars)
                    /\ [Knowledge!Next]_(Knowledge!vars) /\ [Import!Next]_(Import!vars)
                    /\ [Agents!Next]_(Agents!vars)
  OBVIOUS
<1>1. Web!Next \/ UNCHANGED webVars BY DEF Next, vars
<1>2. Share!Next \/ UNCHANGED shareVars BY DEF Next, vars
<1>3. Knowledge!Next \/ UNCHANGED knowledgeVars BY DEF Next, vars
<1>4. Import!Next \/ UNCHANGED importVars BY DEF Next, vars
<1>5. Agents!Next \/ UNCHANGED agentVars BY DEF Next, vars
<1> QED
  BY <1>1, <1>2, <1>3, <1>4, <1>5
  DEF webVars, Web!vars, shareVars, Share!vars, knowledgeVars, Knowledge!vars, importVars,
      Import!vars, agentVars, Agents!vars

\* Sessions of browsers stay apart, a code is exchanged once, and refreshesInFlight names exactly
\* the refreshes in flight (oidc.ts, proxy.ts).
THEOREM SessionsCorrect == Spec => []SessionsAreSafe
<1>1. Spec => Web!Spec
  <2>1. Init => Web!Init BY DEF Init
  <2> QED BY <2>1, OneService, PTL DEF Spec, Web!Spec
<1>2. Web!Spec => []Web!SessionsAreSafe BY SessionConstants, SessionSafety
<1> QED BY <1>1, <1>2, PTL DEF SessionsAreSafe

\* Old secrets and sessions die, a key makes one share, changes follow versions, guesses are
\* limited, and a shared plan was current (ShareService).
THEOREM SharesCorrect == Spec => SharesAreSafe
<1>1. Spec => Share!Spec
  <2>1. Init => Share!Init BY DEF Init
  <2> QED BY <2>1, OneService, PTL DEF Spec, Share!Spec
<1>2. Share!Spec => Share!SharesAreSafe BY ShareConstants, ShareSafety
<1> QED BY <1>1, <1>2 DEF SharesAreSafe

\* No race or retry of ingestion fails or republishes, an applied bundle is complete, and no
\* search serves what was withdrawn before it began (rag: ingest, status commands, search).
THEOREM CorpusCorrect == Spec => CorpusIsSafe
<1>1. Spec => Knowledge!Spec
  <2>1. Init => Knowledge!Init BY DEF Init
  <2> QED BY <2>1, OneService, PTL DEF Spec, Knowledge!Spec
<1>2. Knowledge!Spec => Knowledge!CorpusIsSafe BY KnowledgeConstants, CorpusSafety
<1> QED BY <1>1, <1>2 DEF CorpusIsSafe

\* An interrupted import loses nothing and overwrites nothing (migration_v1: backfill, verify).
THEOREM ImportCorrect == Spec => ImportIsFaithful
<1>1. Spec => Import!Spec
  <2>1. Init => Import!Init BY DEF Init
  <2> QED BY <2>1, OneService, PTL DEF Spec, Import!Spec
<1>2. Import!Spec => Import!ImportIsFaithful BY ImportConstants, ImportSafety
<1> QED BY <1>1, <1>2 DEF ImportIsFaithful

\* Schedules pass the validator's checks, only sound plans are published, what a replan excluded
\* stays out, and answers cite what they show (planning, validation, replanning, a2a_executors).
THEOREM PlansCorrect == Spec => []PlansAreSound
<1>1. Spec => Agents!Spec
  <2>1. Init => Agents!Init BY DEF Init
  <2> QED BY <2>1, OneService, PTL DEF Spec, Agents!Spec
<1>2. Agents!Spec => []Agents!PlansAreSound BY AgentConstants, AgentSafety
<1> QED BY <1>1, <1>2, PTL DEF PlansAreSound
=============================================================================
