------------------------ MODULE TripArtifactsProofs ------------------------
(***************************************************************************)
(* Proofs about TripArtifacts, for any set of Runs and any number of        *)
(* versions: the pointer and the statuses of the versions always agree.     *)
(***************************************************************************)
EXTENDS TripArtifacts, TLAPS


\* The result of a Run is one of its artifacts, and never a report.
LEMMA ResultIsArtifact ==
    ASSUME NEW r \in Runs
    PROVE  /\ ResultOf(r) \in Artifacts /\ ResultOf(r)[1] = r
           /\ Type(ResultOf(r)) \in {"snapshot", "answer"}
BY DEF ResultOf, Artifacts, Types, Type

\* The version a publication or an insert speaks of is one of the versions.
LEMMA FirstVersion ==
    ASSUME NEW a \in Artifacts
    PROVE  <<a, 1>> \in Artifacts \X (1..MaxVersion)
BY MaxVersionAssumption

\* Inserting version 1 of an artifact keeps latest and status in step.
LEMMA CreateTypes ==
    ASSUME TypeOK, NEW a \in Artifacts, NEW s \in Statuses, CreateArtifact(a, s)
    PROVE  /\ latest' \in [Artifacts -> 0..MaxVersion]
           /\ status' \in [Artifacts \X (1..MaxVersion) -> Statuses \cup {None}]
           /\ \A b \in Artifacts, n \in 1..MaxVersion :
                 status'[<<b, n>>] = None <=> n > latest'[b]
<1> USE MaxVersionAssumption, NoneAssumption, FirstVersion DEF TypeOK, CreateArtifact
<1>1. latest' \in [Artifacts -> 0..MaxVersion] OBVIOUS
<1>2. status' \in [Artifacts \X (1..MaxVersion) -> Statuses \cup {None}] OBVIOUS
<1>3. ASSUME NEW b \in Artifacts, NEW n \in 1..MaxVersion
      PROVE  status'[<<b, n>>] = None <=> n > latest'[b]
  <2>1. CASE <<b, n>> = <<a, 1>> BY <2>1
  <2>2. CASE b = a /\ n # 1
    <3>1. status'[<<b, n>>] = status[<<b, n>>] BY <2>2
    <3> QED BY <2>2, <3>1
  <2>3. CASE b # a
    <3>1. status'[<<b, n>>] = status[<<b, n>>] /\ latest'[b] = latest[b] BY <2>3
    <3> QED BY <3>1
  <2> QED BY <2>1, <2>2, <2>3
<1> QED BY <1>1, <1>2, <1>3

\* Every transaction keeps the columns well-typed and the versions contiguous.
LEMMA TypeStep == TypeOK /\ [Next]_vars => TypeOK'
<1> SUFFICES ASSUME TypeOK, [Next]_vars PROVE TypeOK'
  OBVIOUS
<1> USE MaxVersionAssumption, NoneAssumption
<1>1. ASSUME NEW r \in Runs, CreateRun(r) PROVE TypeOK'
  BY <1>1 DEF TypeOK, CreateRun
<1>2. ASSUME NEW r \in Runs, SaveReport(r) PROVE TypeOK'
  <2>1. <<r, "report">> \in Artifacts BY DEF Artifacts, Types
  <2> QED BY <1>2, <2>1, CreateTypes DEF TypeOK, SaveReport, Statuses
<1>3. ASSUME NEW r \in Runs, SaveResult(r) PROVE TypeOK'
  BY <1>3, ResultIsArtifact, CreateTypes DEF TypeOK, SaveResult, Statuses
<1>4. ASSUME NEW r \in Runs, PublishResult(r) PROVE TypeOK'
  <2>1. <<ResultOf(r), 1>> \in Artifacts \X (1..MaxVersion) BY ResultIsArtifact, FirstVersion
  <2>2. latest[ResultOf(r)] >= 1 BY <1>4 DEF PublishResult
  <2>3. status' \in [Artifacts \X (1..MaxVersion) -> Statuses \cup {None}]
    BY <1>4 DEF TypeOK, PublishResult, Statuses
  <2>4. \A v \in DOMAIN status : status'[v] = None <=> status[v] = None
    BY <1>4, <2>1, <2>2, ResultIsArtifact DEF TypeOK, PublishResult, Statuses
  <2> QED BY <1>4, <2>1, <2>3, <2>4 DEF TypeOK, PublishResult
<1>5. ASSUME NEW r \in Runs, EndRun(r) PROVE TypeOK'
  BY <1>5 DEF TypeOK, EndRun
<1>6. ASSUME NEW a \in Artifacts, NEW c \in {"select", "publish", "revoke"},
             CommandArtifact(a, c)
      PROVE  TypeOK'
  <2>1. <<a, latest[a]>> \in Artifacts \X (1..MaxVersion) /\ Target(c) \in Statuses
    BY <1>6 DEF TypeOK, CommandArtifact, Target, Statuses
  <2>2. status' \in [Artifacts \X (1..MaxVersion) -> Statuses \cup {None}]
    BY <1>6, <2>1 DEF TypeOK, CommandArtifact, StatusAfter, Statuses
  <2>3. \A v \in DOMAIN status : status'[v] = None <=> status[v] = None
    BY <1>6, <2>1 DEF TypeOK, CommandArtifact, StatusAfter, Statuses
  <2> QED BY <1>6, <2>1, <2>2, <2>3 DEF TypeOK, CommandArtifact
<1>7. ASSUME NEW a \in Artifacts, PatchArtifact(a) PROVE TypeOK'
  <2>1. latest[a] + 1 \in 1..MaxVersion /\ "candidate" \in Statuses
    BY <1>7 DEF TypeOK, PatchArtifact, Statuses
  <2>2. latest' \in [Artifacts -> 0..MaxVersion] BY <1>7, <2>1 DEF TypeOK, PatchArtifact
  <2>3. status' \in [Artifacts \X (1..MaxVersion) -> Statuses \cup {None}]
    BY <1>7, <2>1 DEF TypeOK, PatchArtifact
  <2>4. ASSUME NEW b \in Artifacts, NEW n \in 1..MaxVersion
        PROVE  status'[<<b, n>>] = None <=> n > latest'[b]
    <3>1. CASE b = a /\ n = latest[a] + 1
      <4>1. status'[<<b, n>>] = "candidate" /\ latest'[b] = n
        BY <1>7, <2>1, <3>1 DEF TypeOK, PatchArtifact
      <4> QED BY <4>1, <2>1
    <3>2. CASE b = a /\ n # latest[a] + 1
      <4>1. status'[<<b, n>>] = status[<<b, n>>] /\ latest'[b] = latest[b] + 1
        BY <1>7, <3>2 DEF TypeOK, PatchArtifact
      <4> QED BY <3>2, <4>1 DEF TypeOK
    <3>3. CASE b # a
      <4>1. status'[<<b, n>>] = status[<<b, n>>] /\ latest'[b] = latest[b]
        BY <1>7, <3>3 DEF TypeOK, PatchArtifact
      <4> QED BY <4>1 DEF TypeOK
    <3> QED BY <3>1, <3>2, <3>3
  <2> QED BY <1>7, <2>2, <2>3, <2>4 DEF TypeOK, PatchArtifact
<1>8. CASE SetTripStatus BY <1>8 DEF TypeOK, SetTripStatus
<1>9. CASE UNCHANGED vars BY <1>9 DEF TypeOK, vars
<1> QED BY <1>1, <1>2, <1>3, <1>4, <1>5, <1>6, <1>7, <1>8, <1>9 DEF Next

-----------------------------------------------------------------------------
(* The rest of the invariant. *)

\* Publishing a result: it was a draft; a snapshot takes the pointer and retires the
\* version that had it; an answer changes nothing else.
LEMMA PublishEffect ==
    ASSUME IndInv, NEW r \in Runs, PublishResult(r), NEW v, v = <<ResultOf(r), 1>>
    PROVE  /\ v \in DOMAIN status /\ DOMAIN status' = DOMAIN status
           /\ status[v] \in {"candidate", "selected"} /\ status'[v] = "published"
           /\ current # v
           /\ Type(v[1]) = "snapshot" =>
                /\ current' = v
                /\ \A u \in DOMAIN status : u # v =>
                     status'[u] = IF u = current THEN "superseded" ELSE status[u]
           /\ Type(v[1]) # "snapshot" =>
                /\ current' = current
                /\ \A u \in DOMAIN status : u # v => status'[u] = status[u]
<1>1. v \in Artifacts \X (1..MaxVersion) /\ v[1] = ResultOf(r)
  BY ResultIsArtifact, FirstVersion
<1>2. DOMAIN status = Artifacts \X (1..MaxVersion) BY DEF IndInv, TypeOK
<1>3. latest[ResultOf(r)] >= 1 /\ r \in running BY DEF PublishResult
<1>4. status[v] # None
  BY <1>1, <1>3, ResultIsArtifact, MaxVersionAssumption DEF IndInv, TypeOK
<1>5. status[v] \in {"candidate", "selected"} BY <1>3, <1>4 DEF IndInv, ResultsAreDrafts
<1>6. current # v BY <1>5, <1>1, NoneAssumption DEF IndInv, PointerIsPublished, Versions
<1>7. current # None => status[current] = "published" BY DEF IndInv, PointerIsPublished
<1>8. /\ DOMAIN status' = DOMAIN status /\ status'[v] = "published"
      /\ Type(v[1]) = "snapshot" => current' = v
      /\ Type(v[1]) # "snapshot" => current' = current
  BY <1>1, <1>2 DEF PublishResult
<1>9. ASSUME NEW u \in DOMAIN status, u # v
      PROVE  status'[u] = IF Type(v[1]) = "snapshot" /\ u = current
                          THEN "superseded" ELSE status[u]
  <2>1. u # None BY <1>2, NoneAssumption, MaxVersionAssumption DEF Versions
  <2> QED BY <1>1, <1>2, <1>6, <1>7, <1>9, <2>1 DEF PublishResult
<1> QED BY <1>1, <1>2, <1>5, <1>6, <1>8, <1>9

\* A command on the latest version of an artifact: only a report can be published by hand.
LEMMA CommandEffect ==
    ASSUME IndInv, NEW a \in Artifacts, NEW c \in {"select", "publish", "revoke"},
           CommandArtifact(a, c), NEW v, v = <<a, latest[a]>>
    PROVE  /\ v \in DOMAIN status /\ DOMAIN status' = DOMAIN status
           /\ status[v] = Required(c) /\ status'[v] = Target(c)
           /\ c = "publish" => Type(v[1]) = "report"
           /\ \A u \in DOMAIN status : u # v =>
                status'[u] = IF c = "publish" /\ status[u] = "published"
                             THEN "superseded" ELSE status[u]
           /\ current' = IF c = "publish" THEN v
                         ELSE IF c = "revoke" /\ current = v THEN None ELSE current
<1>1. v \in DOMAIN status /\ DOMAIN status = Artifacts \X (1..MaxVersion)
  BY MaxVersionAssumption DEF CommandArtifact, IndInv, TypeOK
<1>2. status[v] = Required(c) /\ status' = StatusAfter(c, v) BY DEF CommandArtifact
<1>3. c = "publish" => Type(v[1]) = "report"
  BY <1>1, <1>2 DEF Required, IndInv, ValidatedAreReports
<1> QED BY <1>1, <1>2, <1>3 DEF StatusAfter, CommandArtifact

\* A new version is a candidate, and nothing else changes.
LEMMA InsertEffect ==
    ASSUME IndInv, NEW a \in Artifacts,
           \/ \E s \in {"validated", "candidate"} :
                CreateArtifact(a, s) /\ (Type(a) # "report" => s = "candidate")
           \/ PatchArtifact(a)
    PROVE  \E v \in DOMAIN status :
              /\ DOMAIN status' = DOMAIN status
              /\ status[v] = None /\ v[1] = a
              /\ status'[v] \in {"validated", "candidate"}
              /\ Type(a) # "report" => status'[v] = "candidate"
              /\ \A u \in DOMAIN status : u # v => status'[u] = status[u]
<1> USE MaxVersionAssumption
<1>1. DOMAIN status = Artifacts \X (1..MaxVersion) BY DEF IndInv, TypeOK
<1>2. CASE PatchArtifact(a)
  <2> <<a, latest[a] + 1>> \in DOMAIN status /\ status[<<a, latest[a] + 1>>] = None
    BY <1>1, <1>2 DEF PatchArtifact, IndInv, TypeOK
  <2> WITNESS <<a, latest[a] + 1>> \in DOMAIN status
  <2> QED BY <1>1, <1>2 DEF PatchArtifact, IndInv, TypeOK
<1>3. ASSUME NEW s \in {"validated", "candidate"}, CreateArtifact(a, s),
             Type(a) # "report" => s = "candidate"
      PROVE  \E v \in DOMAIN status :
              /\ DOMAIN status' = DOMAIN status
              /\ status[v] = None /\ v[1] = a
              /\ status'[v] \in {"validated", "candidate"}
              /\ Type(a) # "report" => status'[v] = "candidate"
              /\ \A u \in DOMAIN status : u # v => status'[u] = status[u]
  <2> <<a, 1>> \in DOMAIN status /\ status[<<a, 1>>] = None
    BY <1>1, <1>3 DEF CreateArtifact, IndInv, TypeOK
  <2> WITNESS <<a, 1>> \in DOMAIN status
  <2> QED BY <1>1, <1>3 DEF CreateArtifact, IndInv, TypeOK
<1> QED BY <1>2, <1>3

\* The pointer and the plan, through an insert that leaves the pointer alone.
LEMMA InsertKeepsPointer ==
    ASSUME IndInv, UNCHANGED current, NEW v \in DOMAIN status,
           DOMAIN status' = DOMAIN status, status[v] = None,
           status'[v] \in {"validated", "candidate"},
           Type(v[1]) # "report" => status'[v] = "candidate",
           \A u \in DOMAIN status : u # v => status'[u] = status[u]
    PROVE  PointerIsPublished' /\ OnePublishedPlan' /\ ValidatedAreReports'
<1>1. current # v
  BY NoneAssumption, MaxVersionAssumption
  DEF IndInv, TypeOK, PointerIsPublished, Statuses, Versions
<1>2. current # None => current \in DOMAIN status BY DEF IndInv, TypeOK
<1> QED BY <1>1, <1>2
    DEF IndInv, PointerIsPublished, OnePublishedPlan, ValidatedAreReports

\* Every transaction keeps pointer and statuses in agreement.
LEMMA PointerStep ==
    ASSUME IndInv, [Next]_vars
    PROVE  PointerIsPublished' /\ OnePublishedPlan' /\ ValidatedAreReports'
<1> USE DEF PointerIsPublished, OnePublishedPlan, ValidatedAreReports
<1>1. ASSUME NEW r \in Runs, CreateRun(r) \/ EndRun(r)
      PROVE  PointerIsPublished' /\ OnePublishedPlan' /\ ValidatedAreReports'
  BY <1>1 DEF IndInv, CreateRun, EndRun
<1>2. ASSUME NEW r \in Runs, SaveReport(r) \/ SaveResult(r)
      PROVE  PointerIsPublished' /\ OnePublishedPlan' /\ ValidatedAreReports'
  <2>1. PICK a \in Artifacts, s \in {"validated", "candidate"} :
           CreateArtifact(a, s) /\ (Type(a) # "report" => s = "candidate")
    <3>1. CASE SaveReport(r) BY <3>1 DEF SaveReport, Type, Artifacts, Types
    <3>2. CASE SaveResult(r) BY <3>2, ResultIsArtifact DEF SaveResult
    <3> QED BY <1>2, <3>1, <3>2
  <2> HIDE DEF PointerIsPublished, OnePublishedPlan, ValidatedAreReports
  <2> QED BY <1>2, <2>1, InsertEffect, InsertKeepsPointer DEF SaveReport, SaveResult
<1>3. ASSUME NEW r \in Runs, PublishResult(r)
      PROVE  PointerIsPublished' /\ OnePublishedPlan' /\ ValidatedAreReports'
  <2>1. PICK v : v = <<ResultOf(r), 1>> OBVIOUS
  <2>2. Type(v[1]) \in {"snapshot", "answer"} BY <2>1, ResultIsArtifact
  <2>3. current # None => current \in DOMAIN status BY DEF IndInv, TypeOK
  <2>4. CASE Type(v[1]) = "snapshot"
    <3>1. /\ current' = v /\ status'[v] = "published" /\ DOMAIN status' = DOMAIN status
          /\ \A u \in DOMAIN status : u # v =>
                status'[u] = IF u = current THEN "superseded" ELSE status[u]
      BY <1>3, <2>1, <2>4, PublishEffect
    <3> QED BY <2>3, <2>4, <3>1 DEF IndInv
  <2>5. CASE Type(v[1]) = "answer"
    <3>1. /\ current' = current /\ status'[v] = "published" /\ DOMAIN status' = DOMAIN status
          /\ \A u \in DOMAIN status : u # v => status'[u] = status[u]
          /\ current # v
      BY <1>3, <2>1, <2>5, PublishEffect
    <3> QED BY <2>3, <2>5, <3>1 DEF IndInv
  <2> QED BY <2>2, <2>4, <2>5
<1>4. ASSUME NEW a \in Artifacts, NEW c \in {"select", "publish", "revoke"},
             CommandArtifact(a, c)
      PROVE  PointerIsPublished' /\ OnePublishedPlan' /\ ValidatedAreReports'
  <2>1. PICK v : v = <<a, latest[a]>> OBVIOUS
  <2>2. /\ v \in DOMAIN status /\ DOMAIN status' = DOMAIN status
        /\ status[v] = Required(c) /\ status'[v] = Target(c)
        /\ \A u \in DOMAIN status : u # v =>
             status'[u] = IF c = "publish" /\ status[u] = "published"
                          THEN "superseded" ELSE status[u]
        /\ current' = IF c = "publish" THEN v
                      ELSE IF c = "revoke" /\ current = v THEN None ELSE current
    BY <1>4, <2>1, CommandEffect
  <2>3. current # None => current \in DOMAIN status BY DEF IndInv, TypeOK
  <2>4. CASE c = "publish" BY <2>2, <2>4 DEF IndInv, Target
  <2>5. CASE c # "publish" BY <2>2, <2>3, <2>5 DEF IndInv, Target, Required
  <2> QED BY <2>4, <2>5
<1>5. ASSUME NEW a \in Artifacts, PatchArtifact(a)
      PROVE  PointerIsPublished' /\ OnePublishedPlan' /\ ValidatedAreReports'
  <2> HIDE DEF PointerIsPublished, OnePublishedPlan, ValidatedAreReports
  <2> QED BY <1>5, InsertEffect, InsertKeepsPointer DEF PatchArtifact
<1>6. CASE SetTripStatus BY <1>6 DEF IndInv, SetTripStatus
<1>7. CASE UNCHANGED vars BY <1>7 DEF IndInv, vars
<1> QED BY <1>1, <1>2, <1>3, <1>4, <1>5, <1>6, <1>7 DEF Next

\* Every transaction leaves the results of the Runs in work unpublished.
LEMMA DraftStep ==
    ASSUME IndInv, [Next]_vars
    PROVE  ResultsAreDrafts' /\ NothingBeforeCreation'
<1> USE NoneAssumption, MaxVersionAssumption
    DEF ResultsAreDrafts, NothingBeforeCreation, IndInv
<1>1. ASSUME NEW r \in Runs, CreateRun(r) PROVE ResultsAreDrafts' /\ NothingBeforeCreation'
  <2>1. \A t \in Types : latest[<<r, t>>] = 0 BY <1>1 DEF CreateRun
  <2>2. ASSUME NEW t \in Types PROVE status[<<<<r, t>>, 1>>] = None
    <3>1. <<r, t>> \in Artifacts /\ 1 \in 1..MaxVersion BY DEF Artifacts
    <3>2. latest[<<r, t>>] = 0 BY <2>1
    <3> QED BY <3>1, <3>2 DEF TypeOK
  <2>3. command'[r] \in Commands /\ \A q \in Runs \ {r} : command'[q] = command[q]
    BY <1>1 DEF CreateRun, TypeOK
  <2>4. \A q \in Runs \ {r} : ResultOf(q)' = ResultOf(q) BY <2>3 DEF ResultOf
  <2>5. \E t \in Types : ResultOf(r)' = <<r, t>> BY DEF ResultOf, Types
  <2>6. UNCHANGED <<status, latest>> /\ running' = running \cup {r} BY <1>1 DEF CreateRun
  <2>7. running \subseteq Runs BY DEF TypeOK
  <2>8. ResultsAreDrafts' BY <2>2, <2>3, <2>4, <2>5, <2>6, <2>7
  <2>9. NothingBeforeCreation' BY <2>3, <2>6
  <2> QED BY <2>8, <2>9
<1>2. ASSUME NEW r \in Runs, SaveReport(r) PROVE ResultsAreDrafts' /\ NothingBeforeCreation'
  <2>1. PICK s \in {"validated", "candidate"} : CreateArtifact(<<r, "report">>, s)
    BY <1>2 DEF SaveReport
  <2>2. \A q \in Runs : <<ResultOf(q), 1>> # <<<<r, "report">>, 1>>
    BY ResultIsArtifact DEF Type
  <2>3. \A q \in Runs : status'[<<ResultOf(q), 1>>] = status[<<ResultOf(q), 1>>]
    BY <2>1, <2>2, ResultIsArtifact, FirstVersion DEF CreateArtifact, TypeOK
  <2>4. \A q \in Runs : ResultOf(q)' = ResultOf(q) BY <1>2 DEF SaveReport, ResultOf
  <2>5. running \subseteq Runs BY DEF TypeOK
  <2>6. ResultsAreDrafts' BY <1>2, <2>3, <2>4, <2>5 DEF SaveReport
  <2>7. NothingBeforeCreation'
    BY <1>2, <2>1 DEF SaveReport, CreateArtifact, TypeOK, Artifacts, Types
  <2> QED BY <2>6, <2>7
<1>3. ASSUME NEW r \in Runs, SaveResult(r) PROVE ResultsAreDrafts' /\ NothingBeforeCreation'
  <2>1. CreateArtifact(ResultOf(r), "candidate") BY <1>3 DEF SaveResult
  <2>2. \A q \in Runs : status'[<<ResultOf(q), 1>>] \in {status[<<ResultOf(q), 1>>], "candidate"}
    BY <2>1, ResultIsArtifact, FirstVersion DEF CreateArtifact, TypeOK
  <2>3. \A q \in Runs : ResultOf(q)' = ResultOf(q) BY <1>3 DEF SaveResult, ResultOf
  <2>4. running \subseteq Runs BY DEF TypeOK
  <2>5. ResultsAreDrafts' BY <1>3, <2>2, <2>3, <2>4 DEF SaveResult
  <2>6. command[r] # None /\ ResultOf(r)[1] = r /\ ResultOf(r) \in Artifacts
    BY <1>3, ResultIsArtifact DEF SaveResult
  <2>7. \A q \in Runs : q # r => \A t \in Types : latest'[<<q, t>>] = latest[<<q, t>>]
    BY <2>1, <2>6 DEF CreateArtifact, TypeOK, Artifacts
  <2>8. NothingBeforeCreation' BY <1>3, <2>6, <2>7 DEF SaveResult
  <2> QED BY <2>5, <2>8
<1>4. ASSUME NEW r \in Runs, PublishResult(r) PROVE ResultsAreDrafts' /\ NothingBeforeCreation'
  <2>1. PICK v : v = <<ResultOf(r), 1>> OBVIOUS
  <2>2. /\ current # v
        /\ \A u \in DOMAIN status : u # v =>
             status'[u] = status[u] \/ (u = current /\ status'[u] = "superseded")
    BY <1>4, <2>1, PublishEffect
  <2>3. \A q \in running \ {r} : status'[<<ResultOf(q), 1>>] = status[<<ResultOf(q), 1>>]
    <3>1. SUFFICES ASSUME NEW q \in running \ {r}
                   PROVE  status'[<<ResultOf(q), 1>>] = status[<<ResultOf(q), 1>>]
      OBVIOUS
    <3>2. q \in Runs BY DEF TypeOK
    <3>3. <<ResultOf(q), 1>> \in DOMAIN status /\ <<ResultOf(q), 1>> # v
      BY <2>1, <3>2, ResultIsArtifact, FirstVersion DEF TypeOK
    <3>4. <<ResultOf(q), 1>> # current
      BY <3>2, <3>3 DEF PointerIsPublished, TypeOK, Versions, Statuses
    <3> QED BY <2>2, <3>3, <3>4
  <2>4. \A q \in Runs : ResultOf(q)' = ResultOf(q) BY <1>4 DEF PublishResult, ResultOf
  <2>5. running \subseteq Runs BY DEF TypeOK
  <2>6. ResultsAreDrafts' BY <1>4, <2>3, <2>4, <2>5 DEF PublishResult
  <2>7. NothingBeforeCreation' BY <1>4 DEF PublishResult
  <2> QED BY <2>6, <2>7
<1>5. ASSUME NEW r \in Runs, EndRun(r) PROVE ResultsAreDrafts' /\ NothingBeforeCreation'
  BY <1>5 DEF EndRun, ResultOf
<1>6. ASSUME NEW a \in Artifacts, NEW c \in {"select", "publish", "revoke"},
             CommandArtifact(a, c)
      PROVE  ResultsAreDrafts' /\ NothingBeforeCreation'
  <2>1. PICK v : v = <<a, latest[a]>> OBVIOUS
  <2>2. /\ v \in DOMAIN status /\ status[v] = Required(c) /\ status'[v] = Target(c)
        /\ c = "publish" => Type(v[1]) = "report"
        /\ \A u \in DOMAIN status : u # v =>
             status'[u] = status[u] \/ (status[u] = "published" /\ status'[u] = "superseded")
    BY <1>6, <2>1, CommandEffect
  <2>3. ASSUME NEW q \in running
        PROVE  status'[<<ResultOf(q), 1>>] \in {None, "candidate", "selected"}
    <3>1. <<ResultOf(q), 1>> \in DOMAIN status /\ Type(ResultOf(q)) # "report"
      BY ResultIsArtifact, FirstVersion DEF TypeOK
    <3>2. CASE <<ResultOf(q), 1>> = v
      BY <2>2, <3>1, <3>2 DEF Required, Target, Statuses
    <3>3. CASE <<ResultOf(q), 1>> # v BY <2>2, <3>1, <3>3 DEF Statuses
    <3> QED BY <3>2, <3>3
  <2>4. ResultsAreDrafts' BY <1>6, <2>3 DEF CommandArtifact, ResultOf
  <2>5. NothingBeforeCreation' BY <1>6 DEF CommandArtifact
  <2> QED BY <2>4, <2>5
<1>7. ASSUME NEW a \in Artifacts, PatchArtifact(a)
      PROVE  ResultsAreDrafts' /\ NothingBeforeCreation'
  <2>1. latest[a] \in Nat /\ latest[a] >= 1 BY <1>7 DEF PatchArtifact, TypeOK
  <2>2. ASSUME NEW b \in Artifacts PROVE status'[<<b, 1>>] = status[<<b, 1>>]
    <3>1. <<b, 1>> # <<a, latest[a] + 1>> BY <2>1
    <3> QED BY <1>7, <3>1, FirstVersion DEF PatchArtifact, TypeOK
  <2>3. ResultsAreDrafts' BY <1>7, <2>2, ResultIsArtifact DEF PatchArtifact, ResultOf, TypeOK
  <2>4. NothingBeforeCreation' BY <1>7, <2>1 DEF PatchArtifact, TypeOK, Artifacts
  <2> QED BY <2>3, <2>4
<1>8. CASE SetTripStatus BY <1>8 DEF SetTripStatus, ResultOf
<1>9. CASE UNCHANGED vars BY <1>9 DEF vars, ResultOf
<1> QED BY <1>1, <1>2, <1>3, <1>4, <1>5, <1>6, <1>7, <1>8, <1>9 DEF Next

\* IndInv holds throughout every history of a Trip.
THEOREM Invariance == Spec => []IndInv
<1>1. Init => IndInv
  <2> SUFFICES ASSUME Init PROVE IndInv
    OBVIOUS
  <2> USE MaxVersionAssumption, NoneAssumption DEF Init
  <2>1. TypeOK BY DEF TypeOK, Commands
  <2>2. PointerIsPublished /\ OnePublishedPlan /\ ValidatedAreReports
    BY DEF PointerIsPublished, OnePublishedPlan, ValidatedAreReports, Statuses
  <2>3. ResultsAreDrafts /\ NothingBeforeCreation
    BY DEF ResultsAreDrafts, NothingBeforeCreation, Artifacts
  <2> QED BY <2>1, <2>2, <2>3 DEF IndInv
<1>2. IndInv /\ [Next]_vars => IndInv'
  BY TypeStep, PointerStep, DraftStep DEF IndInv
<1> QED BY <1>1, <1>2, PTL DEF Spec

-----------------------------------------------------------------------------
(* What the Trip promises. *)

\* The columns of a Trip and its artifacts are well-typed, and versions are contiguous.
THEOREM TypeCorrect == Spec => []TypeOK
<1>1. IndInv => TypeOK BY DEF IndInv
<1> QED BY <1>1, Invariance, PTL

\* The current-artifact pointer always designates a version that is published.
THEOREM PointerCorrect == Spec => []PointerIsPublished
<1>1. IndInv => PointerIsPublished BY DEF IndInv
<1> QED BY <1>1, Invariance, PTL

\* A Trip has at most one published plan, the one its pointer designates.
THEOREM OnePlan == Spec => []OnePublishedPlan
<1>1. IndInv => OnePublishedPlan BY DEF IndInv
<1> QED BY <1>1, Invariance, PTL

\* One step: retired versions stay retired, published ones are only retired, and the
\* pointer moves together with the statuses.
LEMMA HistoryStep ==
    ASSUME IndInv, Next
    PROVE  KeepsHistory /\ MovesWithPublication
<1> USE NoneAssumption DEF IndInv, KeepsHistory, MovesWithPublication
<1>0. /\ current # None => current \in DOMAIN status /\ status[current] = "published"
      /\ \A v \in DOMAIN status : v # None
  BY MaxVersionAssumption DEF TypeOK, PointerIsPublished, Versions
<1>1. ASSUME NEW a \in Artifacts, UNCHANGED current,
             \E s \in {"validated", "candidate"} :
                CreateArtifact(a, s) /\ (Type(a) # "report" => s = "candidate")
      PROVE  KeepsHistory /\ MovesWithPublication
  BY <1>1, InsertEffect DEF Statuses
<1>2. ASSUME NEW r \in Runs, CreateRun(r) \/ EndRun(r)
      PROVE  KeepsHistory /\ MovesWithPublication
  BY <1>2 DEF CreateRun, EndRun
<1>3. ASSUME NEW r \in Runs, SaveReport(r) PROVE KeepsHistory /\ MovesWithPublication
  <2>1. <<r, "report">> \in Artifacts /\ Type(<<r, "report">>) = "report"
    BY DEF Artifacts, Types, Type
  <2> QED BY <1>1, <1>3, <2>1 DEF SaveReport
<1>4. ASSUME NEW r \in Runs, SaveResult(r) PROVE KeepsHistory /\ MovesWithPublication
  BY <1>1, <1>4, ResultIsArtifact DEF SaveResult
<1>5. ASSUME NEW r \in Runs, PublishResult(r) PROVE KeepsHistory /\ MovesWithPublication
  <2>1. PICK v : v = <<ResultOf(r), 1>> OBVIOUS
  <2>2. Type(v[1]) \in {"snapshot", "answer"} BY <2>1, ResultIsArtifact
  <2>3. /\ v \in DOMAIN status /\ status[v] \in {"candidate", "selected"}
        /\ status'[v] = "published" /\ current # v
    BY <1>5, <2>1, PublishEffect
  <2>4. CASE Type(v[1]) = "snapshot"
    <3>1. current' = v /\ \A u \in DOMAIN status : u # v =>
             status'[u] = IF u = current THEN "superseded" ELSE status[u]
      BY <1>5, <2>1, <2>4, PublishEffect
    <3> QED BY <1>0, <2>3, <2>4, <3>1
  <2>5. CASE Type(v[1]) = "answer"
    <3>1. current' = current /\ \A u \in DOMAIN status : u # v => status'[u] = status[u]
      BY <1>5, <2>1, <2>5, PublishEffect
    <3> QED BY <2>3, <3>1
  <2> QED BY <2>2, <2>4, <2>5
<1>6. ASSUME NEW a \in Artifacts, NEW c \in {"select", "publish", "revoke"},
             CommandArtifact(a, c)
      PROVE  KeepsHistory /\ MovesWithPublication
  <2>1. PICK v : v = <<a, latest[a]>> OBVIOUS
  <2>2. /\ v \in DOMAIN status /\ status[v] = Required(c) /\ status'[v] = Target(c)
        /\ c = "publish" => Type(v[1]) = "report"
        /\ \A u \in DOMAIN status : u # v =>
             status'[u] = IF c = "publish" /\ status[u] = "published"
                          THEN "superseded" ELSE status[u]
        /\ current' = IF c = "publish" THEN v
                      ELSE IF c = "revoke" /\ current = v THEN None ELSE current
    BY <1>6, <2>1, CommandEffect
  <2>3. CASE c = "publish" BY <1>0, <2>2, <2>3 DEF Required, Target
  <2>4. CASE c = "revoke" BY <1>0, <2>2, <2>4 DEF Required, Target
  <2>5. CASE c = "select" BY <1>0, <2>2, <2>5 DEF Required, Target
  <2> QED BY <2>3, <2>4, <2>5
<1>7. ASSUME NEW a \in Artifacts, PatchArtifact(a) PROVE KeepsHistory /\ MovesWithPublication
  BY <1>7, InsertEffect DEF PatchArtifact, Statuses
<1>8. CASE SetTripStatus BY <1>8 DEF SetTripStatus
<1> QED BY <1>2, <1>3, <1>4, <1>5, <1>6, <1>7, <1>8 DEF Next

\* No transaction revives a superseded or revoked version or demotes a published one.
THEOREM HistoryCorrect == Spec => HistoryIsKept
<1>1. IndInv /\ [Next]_vars => [KeepsHistory]_vars BY HistoryStep
<1> QED BY <1>1, Invariance, PTL DEF Spec, HistoryIsKept

\* The pointer moves only with the publication, supersession or revocation it stands for.
THEOREM PointerMovesCorrect == Spec => PointerFollowsPublication
<1>1. IndInv /\ [Next]_vars => [MovesWithPublication]_vars BY HistoryStep
<1> QED BY <1>1, Invariance, PTL DEF Spec, PointerFollowsPublication
=============================================================================
