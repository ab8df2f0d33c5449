---------------------------- MODULE TravelAgents ----------------------------
(***************************************************************************)
(* What the professional agents compute: research turns its sources into    *)
(* evidence and candidates, the planner schedules candidates, the validator *)
(* and the semantic verifier report, the policy decides, and a replan edits *)
(* the brief of the published plan and starts over.  The answering agent    *)
(* works from the same sources.                                             *)
(*                                                                          *)
(* A place's name is the place; a term of a constraint is a string, of      *)
(* which it matters in which names it occurs, and in which names written    *)
(* one after the other.  Dates are days, times are minutes of the day.      *)
(* Wording, maps and money apart from its maximum are left out.  How the    *)
(* agents' Tasks are dispatched is Orchestrator's subject.                  *)
(***************************************************************************)
EXTENDS Integers, Sequences, FiniteSets, SequencesExt

CONSTANTS
    Requests,       \* TripBriefs built from requests: start, end, budget, currency, and the
                    \* constraints apart from dates and budget, of which a request has none
    Patches,        \* one-field ReplanPatches: kind, value
    Matches,        \* term -> the places whose name contains it
    Spans,          \* term -> the sequences of places whose names, joined by blanks, contain it
                    \* from the first to the last of them
    City,           \* the destination itself, as a place
    Catalog,        \* the reviewed places of the destination, in order
    ClosedOn,       \* catalog place -> the days it is closed
    Duration, Cost, \* catalog place -> recommended minutes, maximal cost
    LivePlaces,     \* what the place provider finds
    Routes,         \* what the route service may answer: how long it takes from place to place
    Worlds,         \* states of the sources: rag, provider, weather ("found", "weather",
                    \* "weather_out_of_window"), opening
    Questions,      \* TravelQuestions: hint (names the destination), today
    Statement,      \* evidence id -> its statement
    MaxReplans,
    None

VARIABLES
    at,             \* the stage, or how the attempt ended
    brief, bundle, plan,
    report,         \* what validator and verifier found: failed, warned, risks
    snapshot,       \* the published brief and plan, and the patches they result from
    wishes,         \* the patches the brief results from, in order
    answer          \* the last TravelAnswer

vars == <<at, brief, bundle, plan, report, snapshot, wishes, answer>>

\* Where candidates are, and routes begin and end.
Stops == DOMAIN Duration \cup {City}

\* A date window does not end before it starts (TripDateRange), a visit takes some time
\* (Candidate), and there are four kinds of patches.
AgentAssumption ==
    /\ \A b \in Requests :
         /\ b = [start |-> b.start, end |-> b.end, budget |-> b.budget, currency |-> b.currency,
                 constraints |-> <<>>]
         /\ b.start \in Int /\ b.end \in Int /\ b.start <= b.end
    /\ \A p \in Patches :
         /\ p = [kind |-> p.kind, value |-> p.value]
         /\ p.kind \in {"dates", "budget", "exclude", "retain"}
         /\ p.kind = "dates" =>
              p.value[1] \in Int /\ p.value[2] \in Int /\ p.value[1] <= p.value[2]
    /\ Catalog \in Seq(DOMAIN Duration) /\ LivePlaces \in Seq(DOMAIN Duration)
    /\ \A p \in DOMAIN Duration : Duration[p] \in Nat \ {0}
    /\ Routes \subseteq [Stops \X Stops -> Nat]

-----------------------------------------------------------------------------
(* The elements of a sequence at the positions in I, in their order. *)
Picked(s, I) ==
    [k \in 1 .. Cardinality(I) |-> s[CHOOSE i \in I : Cardinality({j \in I : j <= i}) = k]]

-----------------------------------------------------------------------------

Init ==
    /\ at \in {"research", "question"} /\ brief \in Requests
    /\ bundle = None /\ plan = None /\ report = None /\ snapshot = None
    /\ wishes = <<>> /\ answer = None

-----------------------------------------------------------------------------
(* Research *)

HasItems(w)  == w.rag \in {"items", "stale", "conflict"}
HasPlaces(w) == w.provider = "places" /\ LivePlaces # <<>>

\* ApprovedPlaceCatalog.search: the places that are open on the first day.
OpenPlaces(date) == Picked(Catalog, {i \in DOMAIN Catalog : date \notin ClosedOn[Catalog[i]]})
CatalogPlaces(b) == OpenPlaces(b.start)

\* The calls made: research gives up only when nothing is left to work from.
NoSource(b, w) ==
    \/ w.rag = "down" /\ w.provider = "off"
    \/ w.provider = "down" /\ ~HasItems(w) /\ CatalogPlaces(b) = <<>>
    \/ ~HasItems(w) /\ ~HasPlaces(w) /\ CatalogPlaces(b) = <<>>

\* Evidence by source; evidence of places that are scheduled carries their candidates.
RagEvidence(w) ==
    IF HasItems(w) THEN {[id |-> <<"rag", 1>>, place |-> None, fresh |-> w.rag # "stale"]} ELSE {}
ProviderEvidence(w) ==
    IF HasPlaces(w)
    THEN {[id |-> <<"provider", i>>, place |-> LivePlaces[i], fresh |-> TRUE] : i \in DOMAIN LivePlaces}
    ELSE {}
CatalogEvidence(b, w) ==
    IF HasPlaces(w) THEN {}
    ELSE {[id |-> <<"catalog", i>>, place |-> CatalogPlaces(b)[i], fresh |-> FALSE] :
            i \in DOMAIN CatalogPlaces(b)}
WeatherEvidence(w) ==
    IF w.provider # "off" /\ w.weather = "found"
    THEN {[id |-> <<"weather", 1>>, place |-> City, fresh |-> TRUE]} ELSE {}
OpeningEvidence(w) ==
    IF HasPlaces(w) /\ w.opening
    THEN {[id |-> <<"opening", i>>, place |-> LivePlaces[i], fresh |-> TRUE] : i \in DOMAIN LivePlaces}
    ELSE {}

ProviderCandidates ==
    [i \in DOMAIN LivePlaces |->
        [place |-> LivePlaces[i], refs |-> {<<"provider", i>>}, minutes |-> None, cost |-> 0,
         currency |-> None]]
\* Mutant: the evidence is numbered before closed places are left out.
CatalogCandidatesShifted(b) ==
    [i \in DOMAIN CatalogPlaces(b) |->
        LET p == CatalogPlaces(b)[i]
            n == CHOOSE k \in DOMAIN Catalog : Catalog[k] = p
        IN  [place |-> p, refs |-> {<<"catalog", n>>}, minutes |-> Duration[p], cost |-> Cost[p],
             currency |-> "CNY"]]
CatalogCandidates(b) ==
    [i \in DOMAIN CatalogPlaces(b) |->
        LET p == CatalogPlaces(b)[i] IN
        [place |-> p, refs |-> {<<"catalog", i>>}, minutes |-> Duration[p], cost |-> Cost[p],
         currency |-> "CNY"]]

AreaCandidate(w) ==
    <<[place |-> City, refs |-> {e.id : e \in RagEvidence(w)}, minutes |-> None, cost |-> 0,
       currency |-> None]>>

\* _convert: live places, or else the catalog, or else the destination as a whole.
Candidates(b, w) ==
    IF HasPlaces(w) THEN ProviderCandidates
    ELSE IF CatalogPlaces(b) # <<>> THEN CatalogCandidates(b)
    ELSE AreaCandidate(w)

\* What is declared as degraded: nothing that was asked of a provider is missing in silence.
Degraded(w) ==
    IF w.provider = "off" THEN {}
    ELSE ({w.weather} \ {"found"})
         \cup (IF HasPlaces(w) /\ w.opening THEN {} ELSE {"opening_hours"})
         \cup (IF w.provider = "down" THEN {"place_search"} ELSE {})

Research(w) ==
    /\ at = "research"
    /\ IF NoSource(brief, w)
       THEN at' = "failed" /\ UNCHANGED bundle
       ELSE /\ at' = "planning"
            /\ bundle' = [evidence |-> RagEvidence(w) \cup ProviderEvidence(w)
                                \cup CatalogEvidence(brief, w) \cup WeatherEvidence(w)
                                \cup OpeningEvidence(w),
                          candidates |-> Candidates(brief, w), notes |-> Degraded(w),
                          conflict |-> w.rag = "conflict"]
    /\ UNCHANGED <<brief, plan, report, snapshot, wishes, answer>>

-----------------------------------------------------------------------------
(* Planning *)

DayStart == 540
DayEndHour == 20
MaxBlocks == 4
DefaultDuration == 120
Buffer == 15

Terms(b, type) == {c.term : c \in {x \in ToSet(b.constraints) : x.type = type}}
Named(place, terms) == \E t \in terms : place \in Matches[t]

\* The candidates no hard constraint avoids; those to be retained come first, once for every
\* visit term that names them.
Eligible(b, cs) == Picked(cs, {i \in DOMAIN cs : ~Named(cs[i].place, Terms(b, "avoid"))})
Retained(b, cs) ==
    LET visits == Picked(b.constraints, {i \in DOMAIN b.constraints : b.constraints[i].type = "visit"})
        pool   == Eligible(b, cs)
        nth    == [n \in 1 .. Len(visits) * Len(pool) |-> pool[((n - 1) % Len(pool)) + 1]]
    IN  Picked(nth, {n \in DOMAIN nth :
                       nth[n].place \in Matches[visits[((n - 1) \div Len(pool)) + 1].term]})
PlanningCandidates(b, cs) ==
    LET pool == Eligible(b, cs)
    IN  Retained(b, cs)
          \o Picked(pool, {i \in DOMAIN pool : ~Named(pool[i].place, Terms(b, "visit"))})

\* One more block of a day: d holds cursor, clock, blocks, and whether the day is over or is
\* refused, because of its clock times (ZonedTimeRange, PlanDay) or a currency.
WithBlock(b, d, pool, route) ==
    LET c     == pool[(d.cursor % Len(pool)) + 1]
        first == d.blocks = <<>>
        leg   == IF first THEN 0 ELSE route[Last(d.blocks).place, c.place]
        start == d.clock + (IF first THEN 0 ELSE leg + Buffer)
        long  == IF c.minutes = None THEN DefaultDuration ELSE IF c.minutes > 240 THEN 240 ELSE c.minutes
        end   == start + long
        block == [place |-> c.place, start |-> start % 1440, end |-> end % 1440, minutes |-> long,
                  leg |-> leg, refs |-> c.refs, cost |-> c.cost]
    IN  IF d.over \/ d.broken THEN d
        ELSE IF ~first /\ (end % 1440) \div 60 >= DayEndHour
        THEN [d EXCEPT !.cursor = @ + 1, !.over = TRUE]
        ELSE [d EXCEPT !.cursor = @ + 1, !.clock = end, !.blocks = Append(@, block),
                       !.broken = \/ block.end <= block.start
                                  \/ ~first /\ block.start < Last(d.blocks).start
                                  \/ c.currency \notin {None, b.currency}]

NewDay(cursor) ==
    [cursor |-> cursor, clock |-> DayStart, blocks |-> <<>>, over |-> FALSE, broken |-> FALSE]

\* A day has at most MaxBlocks visits, and no more than there are candidates.
PlanDay(b, cursor, pool, route) ==
    LET n == IF Len(pool) < MaxBlocks THEN Len(pool) ELSE MaxBlocks
        day[i \in 0 .. n] ==
            IF i = 0 THEN NewDay(cursor) ELSE WithBlock(b, day[i - 1], pool, route)
    IN  day[n]

\* The next day goes on with the candidates where the one before it stopped.
WithDay(b, days, pool, route) ==
    LET d == PlanDay(b, IF days = <<>> THEN 0 ELSE Last(days).cursor, pool, route)
    IN  Append(days, [date |-> b.start + Len(days), cursor |-> d.cursor, blocks |-> d.blocks,
                      broken |-> d.broken])

Schedule(b, pool, route) ==
    LET n == (b.end - b.start) + 1
        days[i \in 0 .. n] == IF i = 0 THEN <<>> ELSE WithDay(b, days[i - 1], pool, route)
    IN  days[n]

\* build_candidate: nothing to schedule, or a day that is refused or empty, is an error.
BuildCandidate(b, cs, route) ==
    LET days == Schedule(b, PlanningCandidates(b, cs), route)
    IN  IF Eligible(b, cs) = <<>> \/ (\E i \in DOMAIN days : days[i].broken \/ days[i].blocks = <<>>)
        THEN None ELSE days

Plan(route) ==
    /\ at = "planning"
    /\ plan' = BuildCandidate(brief, bundle.candidates, route)
    /\ at' = IF plan' = None THEN "failed" ELSE "validation"
    /\ bundle' = IF plan' = None THEN None ELSE bundle
    /\ UNCHANGED <<brief, report, snapshot, wishes, answer>>

Blocks(days)  == UNION {ToSet(days[i].blocks) : i \in DOMAIN days}
Places(days)  == {x.place : x \in Blocks(days)}
Titles(days)  == FlattenSeq([i \in DOMAIN days |->
                    [j \in DOMAIN days[i].blocks |-> days[i].blocks[j].place]])
DayCost(day)  == FoldLeft(LAMBDA n, x : n + x.cost, 0, day.blocks)
PlanCost(days) == FoldLeft(LAMBDA n, d : n + DayCost(d), 0, days)

-----------------------------------------------------------------------------
(* Validation *)

Known == {e.id : e \in bundle.evidence}

DatesInWindow(b, days) ==
    days # <<>> /\ \A i \in DOMAIN days : b.start <= days[i].date /\ days[i].date <= b.end
HasConcretePlace(days) == \E p \in Places(days) : p # City
PlacesOncePerDay(day) ==
    \A i, j \in DOMAIN day.blocks : day.blocks[i].place = day.blocks[j].place => i = j

\* The titles of all blocks, joined by blanks, contain the term: in one title, or across some
\* that follow each other.
Mentioned(t, days) ==
    \/ Places(days) \cap Matches[t] # {}
    \/ \E s \in Spans[t] : \E i \in 0 .. Len(Titles(days)) - Len(s) :
            SubSeq(Titles(days), i + 1, i + Len(s)) = s

\* Mutant: one of the places to visit is enough.
ConstraintsHoldInPart(b, days) ==
    /\ Terms(b, "visit") = {} \/ \E t \in Terms(b, "visit") : Mentioned(t, days)
    /\ \A t \in Terms(b, "avoid") : ~Mentioned(t, days)
ConstraintsHold(b, days) ==
    /\ \A t \in Terms(b, "visit") : Mentioned(t, days)
    /\ \A t \in Terms(b, "avoid") : ~Mentioned(t, days)

\* DeterministicConstraintValidator.validate: the checks that fail.
Failed(b, days) ==
    (IF DatesInWindow(b, days) THEN {} ELSE {"dates"})
    \cup (IF HasConcretePlace(days) THEN {} ELSE {"concrete"})
    \cup (IF \A d \in ToSet(days) : PlacesOncePerDay(d) THEN {} ELSE {"repeated"})
    \cup (IF \A x \in Blocks(days) : x.end - x.start = x.minutes THEN {} ELSE {"time"})
    \cup (IF \A d \in ToSet(days) : \A i \in 1 .. Len(d.blocks) - 1 :
                d.blocks[i + 1].start - d.blocks[i].end >= d.blocks[i + 1].leg THEN {} ELSE {"route"})
    \cup (IF \A x \in Blocks(days) : x.refs \subseteq Known THEN {} ELSE {"references"})
    \cup (IF PlanCost(days) <= b.budget THEN {} ELSE {"budget"})
    \cup (IF ConstraintsHold(b, days) THEN {} ELSE {"constraint"})

Fresh(refs) == \A e \in bundle.evidence : e.id \in refs => e.fresh
Warned(days) == {x.place : x \in {y \in Blocks(days) : ~(y.refs # {} /\ Fresh(y.refs))}}

Validate ==
    /\ at = "validation"
    /\ report' = [failed |-> Failed(brief, plan), warned |-> Warned(plan), risks |-> {}]
    /\ at' = "verification"
    /\ UNCHANGED <<brief, bundle, plan, snapshot, wishes, answer>>

\* DeterministicSemanticVerifier.verify: the coverage, and the risks by severity.
Spots(days) == UNION {{i} \X DOMAIN days[i].blocks : i \in DOMAIN days}
Supported(days) ==
    {s \in Spots(days) : LET refs == days[s[1]].blocks[s[2]].refs
                         IN  refs # {} /\ refs \subseteq Known}
Risks(days) ==
    (IF \E x \in Blocks(days) : ~(x.refs \subseteq Known) THEN {"unknown_evidence"} ELSE {})
    \cup (IF bundle.conflict THEN {"conflict"} ELSE {})
    \cup (IF 10 * Cardinality(Supported(days)) < 9 * Cardinality(Spots(days))
          THEN {"coverage"} ELSE {})

Verify ==
    /\ at = "verification"
    /\ report' = [report EXCEPT !.risks = Risks(plan)]
    /\ at' = "policy"
    /\ UNCHANGED <<brief, bundle, plan, snapshot, wishes, answer>>

\* ValidationPolicyService.combine: a failed check or a high risk blocks; what is only stale
\* or unknown warns.
\* Mutant: the semantic report does not block.
PublishableByConstraints(r) == r.failed = {}
Publishable(r) == r.failed = {} /\ r.risks = {}

Combine ==
    /\ at = "policy"
    /\ IF Publishable(report)
       THEN at' = "published" /\ snapshot' = [brief |-> brief, plan |-> plan, wishes |-> wishes,
                                                     conflict |-> bundle.conflict]
       ELSE at' = "blocked" /\ UNCHANGED snapshot
    /\ bundle' = None /\ plan' = None /\ report' = None
    /\ UNCHANGED <<brief, wishes, answer>>

-----------------------------------------------------------------------------
(* apply_replan_patch on the published brief *)

\* A place is added as a constraint unless some constraint has its description already.
WithPlace(cs, type, term) ==
    IF \E c \in ToSet(cs) : c.term = term THEN cs ELSE Append(cs, [type |-> type, term |-> term])

\* A budget may name another currency.
WithBudget(b, money) ==
    [b EXCEPT !.budget = money.max, !.currency = IF money.currency = None THEN @ ELSE money.currency]

\* Mutant: new dates discard the other constraints with the old ones.
PatchedAnew(b, p) ==
    CASE p.kind = "dates"   -> [b EXCEPT !.start = p.value[1], !.end = p.value[2], !.constraints = <<>>]
      [] p.kind = "budget"  -> WithBudget(b, p.value)
      [] p.kind = "exclude" -> [b EXCEPT !.constraints = WithPlace(@, "avoid", p.value)]
      [] p.kind = "retain"  -> [b EXCEPT !.constraints = WithPlace(@, "visit", p.value)]
Patched(b, p) ==
    CASE p.kind = "dates"   -> [b EXCEPT !.start = p.value[1], !.end = p.value[2]]
      [] p.kind = "budget"  -> WithBudget(b, p.value)
      [] p.kind = "exclude" -> [b EXCEPT !.constraints = WithPlace(@, "avoid", p.value)]
      [] p.kind = "retain"  -> [b EXCEPT !.constraints = WithPlace(@, "visit", p.value)]

\* create_run of a replan: from the published plan, also after an attempt that did not make it.
Replan(p) ==
    /\ at \in {"published", "blocked", "failed"} /\ snapshot # None
    /\ Len(snapshot.wishes) < MaxReplans
    /\ brief' = Patched(snapshot.brief, p)
    /\ wishes' = Append(snapshot.wishes, p)
    /\ at' = "research"
    /\ UNCHANGED <<bundle, plan, report, snapshot, answer>>

-----------------------------------------------------------------------------
(* Answering *)

\* The evidence found, by source; a source that is down contributes nothing, and without a
\* destination only the knowledge base is asked.
AnswerEvidence(q, w) ==
    (IF HasItems(w) THEN <<<<"rag", 1>>>> ELSE <<>>)
        \o (IF q.hint THEN [i \in DOMAIN OpenPlaces(q.today) |-> <<"catalog", i>>] ELSE <<>>)
        \o (IF q.hint /\ HasPlaces(w) THEN [i \in DOMAIN LivePlaces |-> <<"provider", i>>] ELSE <<>>)

\* The first of those with the same statement, and of these the first MaxSent.
Unique(ids) ==
    Picked(ids, {j \in DOMAIN ids : \A i \in 1 .. j - 1 : Statement[ids[i]] # Statement[ids[j]]})
MaxSent == 12
FirstOf(n, ids) == SubSeq(ids, 1, IF Len(ids) < n THEN Len(ids) ELSE n)
Sent(q, w) == FirstOf(MaxSent, Unique(AnswerEvidence(q, w)))

\* The model's sections are used when they cite only evidence that was sent to it.
\* Mutant: evidence that was found but not sent may be cited too.
UsableFound(refs, q, w) == refs # {} /\ refs \subseteq ToSet(AnswerEvidence(q, w))
Usable(refs, q, w) == refs # {} /\ refs \subseteq ToSet(Sent(q, w))

\* AnsweringA2AExecutor.execute: otherwise, or with no model (refs = {}), the first of the
\* evidence is quoted.
Answer(q, w, refs) ==
    /\ at = "question" /\ at' = "answered"
    /\ answer' = [status |-> IF Sent(q, w) = <<>> THEN "insufficient_evidence" ELSE "answered",
                  evidence |-> ToSet(Sent(q, w)),
                  cited |-> IF Sent(q, w) # <<>> /\ Usable(refs, q, w) THEN refs
                            ELSE ToSet(FirstOf(4, Sent(q, w)))]
    /\ UNCHANGED <<brief, bundle, plan, report, snapshot, wishes>>

-----------------------------------------------------------------------------

Next ==
    \/ \E w \in Worlds : Research(w)
    \/ \E route \in Routes : Plan(route)
    \/ Validate \/ Verify \/ Combine
    \/ \E p \in Patches : Replan(p)
    \/ \E q \in Questions, w \in Worlds, refs \in SUBSET DOMAIN Statement : Answer(q, w, refs)

-----------------------------------------------------------------------------
(* Properties *)

\* The shortest route that can bring a visit of the full 240 minutes round to the same hours of
\* the next day; TransitLeg allows routes of up to a week.
RoundTheClock == 1440 - 240 - Buffer

\* The planner's schedule and citations always pass the validator's checks of dates, times and
\* references, from whichever sources the candidates came: what it cannot schedule within a day
\* it drops or refuses.  So are routes, except that the clock times of a day do not show that a
\* route went round the clock: that is left to the validator.
PlannerIsFeasible ==
    report # None =>
        /\ report.failed \cap {"dates", "time", "references"} = {}
        /\ "route" \in report.failed => \E x \in Blocks(plan) : x.leg >= RoundTheClock
        /\ report.risks \subseteq {"conflict"}

\* The planner does not try to meet a budget, and a candidate that does not fit its day is
\* dropped even when it must be visited; only validator and policy keep such plans from being
\* published.
PublishedPlanIsSound ==
    snapshot # None =>
        /\ \A d \in ToSet(snapshot.plan) : \A i, j \in DOMAIN d.blocks :
                i < j => /\ d.blocks[i].end + d.blocks[j].leg <= d.blocks[j].start
                         /\ d.blocks[i].place # d.blocks[j].place
        /\ PlanCost(snapshot.plan) <= snapshot.brief.budget
        /\ \A t \in Terms(snapshot.brief, "visit") : Mentioned(t, snapshot.plan)
        /\ \A t \in Terms(snapshot.brief, "avoid") : ~Mentioned(t, snapshot.plan)

\* "Preserving every unmodified base constraint" (apply_replan_patch): a place that a replan
\* excluded, and none had asked for before, is in no plan that follows from it, whatever else
\* was patched in between.
ExcludedStaysOut ==
    snapshot # None =>
        \A i \in DOMAIN snapshot.wishes :
            LET p == snapshot.wishes[i] IN
            /\ p.kind = "exclude"
            /\ \A j \in 1 .. i : snapshot.wishes[j] # [p EXCEPT !.kind = "retain"]
            => Matches[p.value] \cap Places(snapshot.plan) = {}

\* A conflict between sources that nobody has resolved is never published.
NoConflictIsPublished == snapshot # None => ~snapshot.conflict

\* An answer cites evidence it shows, and is called answered exactly when it has some,
\* whatever the model returned.
AnswerIsGrounded ==
    answer # None =>
        /\ answer.cited \subseteq answer.evidence
        /\ answer.status = "answered" <=> answer.cited # {}

\* The agents' promises: schedules that pass the validator, publication only of sound plans
\* that keep what was excluded out and hide no conflict, and grounded answers.
PlansAreSound ==
    /\ PlannerIsFeasible /\ PublishedPlanIsSound /\ ExcludedStaysOut
    /\ NoConflictIsPublished /\ AnswerIsGrounded
-----------------------------------------------------------------------------
(* The inductive invariant behind the promises. *)

Spec == Init /\ [][Next]_vars

\* What a brief asks for follows from the patches: visits were to be retained, and what was
\* excluded is avoided unless it was to be retained before.
Unasked(ws, i) ==
    /\ ws[i].kind = "exclude"
    /\ \A j \in 1 .. i : ws[j] # [ws[i] EXCEPT !.kind = "retain"]
Wished == {p.value : p \in {q \in Patches : q.kind \in {"exclude", "retain"}}}
BriefInv(b, ws) ==
    /\ b = [start |-> b.start, end |-> b.end, budget |-> b.budget, currency |-> b.currency,
            constraints |-> b.constraints]
    /\ b.start \in Int /\ b.end \in Int /\ b.start <= b.end
    /\ b.constraints \in Seq([type : {"avoid", "visit"}, term : Wished])
    /\ ws \in Seq(Patches)
    /\ \A t \in Terms(b, "visit") : \E j \in DOMAIN ws : ws[j] = [kind |-> "retain", value |-> t]
    /\ \A i \in DOMAIN ws : Unasked(ws, i) => ws[i].value \in Terms(b, "avoid")

\* Every candidate can be scheduled and cites evidence of the bundle.
Offered == ToSet(bundle.candidates)
BundleInv ==
    /\ bundle.candidates \in Seq(Offered)
    /\ \A c \in Offered : /\ c.refs # {} /\ c.refs \subseteq Known /\ c.place \in Stops
                          /\ c.minutes = None \/ c.minutes \in Nat \ {0}

\* What the planner makes of them, whether or not its clock times pass.
Drafts == [place : {c.place : c \in Offered}, start : Nat, end : Nat, minutes : 1 .. 240,
           leg : Nat, refs : {c.refs : c \in Offered}, cost : {c.cost : c \in Offered}]
Timed(blocks) ==
    /\ \A i \in DOMAIN blocks : blocks[i].end - blocks[i].start = blocks[i].minutes
    /\ \A i \in 1 .. Len(blocks) - 1 :
         blocks[i + 1].leg < RoundTheClock
            => blocks[i + 1].start - blocks[i].end >= blocks[i + 1].leg
DayInv(d) ==
    /\ d \in [cursor : Nat, clock : Nat, blocks : Seq(Drafts), over : BOOLEAN, broken : BOOLEAN]
    /\ ~d.broken => /\ Timed(d.blocks)
                    /\ d.blocks # <<>> => Last(d.blocks).end = d.clock % 1440
DaysInv(b, days) ==
    /\ days \in Seq([date : Int, cursor : Nat, blocks : Seq(Drafts), broken : BOOLEAN])
    /\ \A i \in DOMAIN days : /\ days[i].date = b.start + i - 1
                              /\ days[i].broken \/ Timed(days[i].blocks)
PlanInv ==
    /\ DaysInv(brief, plan) /\ Len(plan) = (brief.end - brief.start) + 1
    /\ \A i \in DOMAIN plan : ~plan[i].broken

IndInv ==
    /\ BriefInv(brief, wishes)
    /\ snapshot # None => BriefInv(snapshot.brief, snapshot.wishes)
    /\ at \in {"planning", "validation", "verification", "policy"} => BundleInv
    /\ at \in {"validation", "verification", "policy"} => PlanInv
    /\ at \in {"verification", "policy"} =>
         report = [failed |-> Failed(brief, plan), warned |-> Warned(plan),
                   risks |-> IF at = "policy" THEN Risks(plan) ELSE {}]
    /\ report # None => at \in {"verification", "policy"}
    /\ PublishedPlanIsSound /\ ExcludedStaysOut /\ NoConflictIsPublished /\ AnswerIsGrounded
=============================================================================
