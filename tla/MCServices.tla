----------------------------- MODULE MCServices -----------------------------
(***************************************************************************)
(* Values for TLC of the services' constants.                               *)
(***************************************************************************)
EXTENDS Services, TLC

(* Two operators with one bundle, of a suspicious document, and one whose bundle has it and
   another. *)
MCBundle    == [o1 |-> <<"blog">>, o2 |-> <<"blog">>, o3 |-> <<"blog", "guide">>]
MCBundleId  == [o1 |-> "b1", o2 |-> "b1", o3 |-> "b2"]
MCScopeOf   == [o1 |-> "t1", o2 |-> "t1", o3 |-> "t1"]
MCDocuments == 1 .. 3

(* Three places, one closed on day 2, one dear, two with a common part of their names, and a term
   that is read only across two names; every combination of what knowledge base and provider
   may return. *)
Brief(last, currency) ==
    [start |-> 1, end |-> last, budget |-> 150, currency |-> currency, constraints |-> <<>>]
World(rag, provider) ==
    [rag |-> rag, provider |-> provider, opening |-> rag = "items",
     weather |-> IF provider = "places" THEN "found"
                 ELSE IF rag = "items" THEN "weather" ELSE "weather_out_of_window"]

MCRequests  == {Brief(1, "CNY"), Brief(2, "CNY"), Brief(1, "USD")}
MCPatches   == [kind : {"exclude"}, value : {"p1", "old", "gap"}]
               \cup [kind : {"retain"}, value : {"p3", "old", "gap"}]
               \cup [kind : {"budget"}, value : [max : {250}, currency : {None, "USD"}]]
               \cup {[kind |-> "dates", value |-> <<2, 3>>]}
MCMatches   == [p1 |-> {"p1"}, p3 |-> {"p3"}, old |-> {"p1", "p2"}, gap |-> {}]
MCSpans     == [p1 |-> {}, p3 |-> {}, old |-> {}, gap |-> {<<"p1", "p3">>}]
MCCatalog   == <<"p2", "p1", "p3">>
MCClosedOn  == [p1 |-> {}, p2 |-> {2}, p3 |-> {}]
MCDuration  == [p1 |-> 180, p2 |-> 240, p3 |-> 120]
MCCost      == [p1 |-> 34, p2 |-> 60, p3 |-> 0]
MCLivePlaces == <<"p3", "p1">>
\* Everywhere as far, or far away from p1 or p3 only.
Routing(all, p, n) ==
    [s \in {"p1", "p2", "p3", "city"} \X {"p1", "p2", "p3", "city"} |->
        IF p \in {s[1], s[2]} THEN n ELSE all]
MCRoutes    == {Routing(20, "p1", 20), Routing(150, "p1", 150), Routing(300, "p1", 300),
                Routing(20, "p3", 300), Routing(20, "p1", 1185)}
MCWorlds    == {World(r, p) : r \in {"down", "empty", "items", "stale", "conflict"},
                              p \in {"off", "down", "places"}}
MCQuestions == [hint : BOOLEAN, today : {2}]
MCStatement == (<<"rag", 1>> :> "a") @@ (<<"catalog", 1>> :> "b") @@ (<<"catalog", 2>> :> "c")
               @@ (<<"provider", 1>> :> "b") @@ (<<"provider", 2>> :> "d")

(* Two tabs of one browser and one of another. *)
MCBrowserOf == [a1 |-> "a", a2 |-> "a", b1 |-> "b"]

-----------------------------------------------------------------------------

\* A service that is not looked at starts in one of its initial states only.
MCInit ==
    /\ Init
    /\ service # "agents" => at = "question" /\ brief = Brief(1, "CNY")
    /\ service # "import" => source["file"][2] = "c1" /\ mapping[2] = "u1"

MCSpec == MCInit /\ [][Next]_vars
=============================================================================
