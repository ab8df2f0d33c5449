--------------------------- MODULE ProgressProofs ---------------------------
(****************************************************************************)
(* Proofs about the tab that submits commands and follows a Run              *)
(* (RunFollower), the Run that goes through the agents (Orchestrator), the   *)
(* Run that the API process executes itself (LocalRun) and the streams of an *)
(* A2A Task (TaskStream).  Each component is taken by itself first, and the  *)
(* results are then stated of the specification that TLC checks.             *)
(****************************************************************************)
EXTENDS Progress, FiniteSetTheorems, SequenceTheorems, TLAPS

-----------------------------------------------------------------------------
(* The tab that follows a Run. *)

\* The server's side only grows: Runs keep their key and input, and lose no event.
TabGrows ==
    /\ runs' \in Seq(Follower!Runs) /\ Len(runs') <= MaxRuns /\ Len(runs) <= Len(runs')
    /\ \A r \in Follower!RunIds : /\ runs'[r].key = runs[r].key /\ runs'[r].input = runs[r].input
                                  /\ Len(runs[r].log) <= Len(runs'[r].log)

\* A request of the next state that is answered for the Run it is about.
TabSound(k) ==
    /\ requests'[k] \in Follower!Requests(k)
    /\ k # "submit" => /\ requests'[k].run \in Follower!RunIds
                       /\ 1 .. requests'[k].seq \subseteq applied[requests'[k].run]
    /\ requests'[k].at \in {"finish", "done"} =>
        /\ requests'[k].view # None /\ requests'[k].view.run \in 1 .. Len(runs')
        /\ k # "submit" => requests'[k].view.run = requests'[k].run
        /\ k = "submit" => runs'[requests'[k].view.run].key = requests'[k].key

\* What a step must see to, for the invariant to be kept.
LEMMA TabStep ==
    ASSUME Follower!FollowerAssumption, Follower!IndInv, TabGrows, Follower!TripOK',
           keys' \in Nat, asked' \in Nat, breaks' \in Nat,
           applied' \in [Follower!Ids -> SUBSET Nat], \A r \in Follower!Ids : applied[r] \subseteq applied'[r],
           pending' \in Follower!Reserved \cup {None}, doubtful' \subseteq Follower!Ids,
           \/ ui' = ui
           \/ /\ ui' \in Follower!States
              /\ IF ui'.run = None THEN ui'.life = "idle"
                 ELSE ui'.run \in Follower!RunIds' /\ 1 .. ui'.seq \subseteq applied'[ui'.run],
           \/ cursor' = cursor
           \/ ui' \in Follower!States /\ ui'.run # None /\ cursor' = [run |-> ui'.run, seq |-> ui'.seq],
           requests' = [k \in Follower!Kinds |-> requests'[k]],
           \A k \in Follower!Kinds : requests'[k] = requests[k] \/ requests'[k] = None \/ TabSound(k),
           stream' \in Follower!Streams \cup {None}, stream' # None => stream'.run \in Follower!RunIds',
           Follower!StreamInv', Follower!KeyInv'
    PROVE  Follower!IndInv'
<1>1. Follower!TypeOK /\ Follower!KnownInv /\ Follower!SeenInv BY DEF Follower!IndInv
<1>2. /\ runs \in Seq(Follower!Runs) /\ Len(runs) <= MaxRuns /\ Len(runs) \in Nat /\ MaxRuns \in Nat
      /\ runs' \in Seq(Follower!Runs) /\ Len(runs') <= MaxRuns /\ Len(runs') \in Nat /\ Len(runs) <= Len(runs')
  BY <1>1 DEF Follower!TypeOK, TabGrows, Follower!FollowerAssumption
<1>3. Follower!RunIds \subseteq Follower!RunIds' /\ Follower!RunIds' \subseteq Follower!Ids /\ Follower!RunIds \subseteq Follower!Ids
      /\ Follower!RunIds' = 1 .. Len(runs')
  BY <1>2 DEF Follower!RunIds, Follower!Ids
<1>4. ui' \in Follower!States /\ IF ui'.run = None THEN ui'.life = "idle"
                                 ELSE ui'.run \in Follower!RunIds' /\ 1 .. ui'.seq \subseteq applied'[ui'.run]
  <2>1. CASE ui' = ui
    BY <1>1, <1>3, <2>1 DEF Follower!TypeOK, Follower!KnownInv, Follower!SeenInv, Follower!Shown
  <2> QED BY <2>1
<1>5. cursor' \in Follower!Cursors \cup {None} /\ (cursor' # None =>
        cursor'.run \in Follower!RunIds' /\ 1 .. cursor'.seq \subseteq applied'[cursor'.run])
  <2>1. CASE cursor' = cursor
    BY <1>1, <1>3, <2>1 DEF Follower!TypeOK, Follower!KnownInv, Follower!SeenInv, Follower!Shown
  <2>2. CASE ui'.run # None /\ cursor' = [run |-> ui'.run, seq |-> ui'.seq]
    <3>1. ui'.run \in Follower!RunIds' /\ ui'.run \in Follower!Ids /\ ui'.seq \in Nat
      BY <1>3, <1>4, <2>2 DEF Follower!States
    <3> QED BY <1>4, <2>2, <3>1 DEF Follower!Cursors
  <2> QED BY <2>1, <2>2
<1>6. ASSUME NEW k \in Follower!Kinds, requests'[k] # None
      PROVE  /\ requests'[k] \in Follower!Requests(k)
             /\ k # "submit" => /\ requests'[k].run \in Follower!RunIds'
                                /\ 1 .. requests'[k].seq \subseteq applied'[requests'[k].run]
             /\ requests'[k].at \in {"finish", "done"} =>
                 /\ requests'[k].view # None /\ requests'[k].view.run \in Follower!RunIds'
                 /\ k # "submit" => requests'[k].view.run = requests'[k].run
                 /\ k = "submit" => runs'[requests'[k].view.run].key = requests'[k].key
  <2>1. CASE requests'[k] = requests[k]
    <3>1. requests[k] \in Follower!Requests(k) BY <1>1, <1>6, <2>1 DEF Follower!TypeOK
    <3>2. k # "submit" => requests[k].run \in Follower!RunIds /\ 1 .. requests[k].seq \subseteq applied[requests[k].run]
      BY <1>1, <1>6, <2>1 DEF Follower!KnownInv, Follower!SeenInv, Follower!Shown
    <3>3. requests[k].at \in {"finish", "done"} =>
                 /\ requests[k].view # None /\ requests[k].view.run \in Follower!RunIds
                 /\ k # "submit" => requests[k].view.run = requests[k].run
                 /\ k = "submit" => runs[requests[k].view.run].key = requests[k].key
      BY <1>1, <1>6, <2>1 DEF Follower!KnownInv
    <3> QED BY <1>3, <2>1, <3>1, <3>2, <3>3 DEF TabGrows
  <2>2. CASE TabSound(k) BY <1>3, <2>2 DEF TabSound
  <2> QED BY <1>6, <2>1, <2>2
<1>7. Follower!TypeOK'
  <2>1. \A k \in Follower!Kinds : requests'[k] \in Follower!Requests(k) \cup {None} BY <1>6
  <2>2. \A k \in Follower!Kinds : requests'[k] \in Follower!Submissions \cup Follower!Commands \cup Follower!Loads \cup {None}
    BY <2>1 DEF Follower!Requests
  <2>3. requests' \in [Follower!Kinds -> Follower!Submissions \cup Follower!Commands \cup Follower!Loads \cup {None}]
    BY <2>2
  <2> QED BY <1>2, <1>4, <1>5, <2>1, <2>3 DEF Follower!TypeOK
<1>8. Follower!KnownInv' BY <1>4, <1>5, <1>6 DEF Follower!KnownInv
<1>9. Follower!SeenInv' BY <1>4, <1>5, <1>6 DEF Follower!SeenInv, Follower!Shown
<1> QED BY <1>7, <1>8, <1>9 DEF Follower!IndInv

\* The stream is left alone, and so is the Run that the tab shows.
LEMMA TabStreamKept ==
    ASSUME Follower!IndInv, TabGrows, stream' = stream, ui'.run = ui.run, \A r \in Follower!Ids : applied[r] \subseteq applied'[r],
           \/ requests'["cancel"] = requests["cancel"] \/ requests'["cancel"] = None
           \/ requests["cancel"] # None /\ requests'["cancel"].run = requests["cancel"].run
           \/ requests'["cancel"].run = ui.run
    PROVE  Follower!StreamInv'
<1> SUFFICES ASSUME stream # None PROVE Follower!StreamInv'
  BY DEF Follower!StreamInv
<1>1. stream \in Follower!Streams /\ stream.run \in Follower!RunIds /\ Follower!StreamInv
  BY DEF Follower!IndInv, Follower!TypeOK, Follower!KnownInv
<1>2. Len(stream.wire) \in Nat /\ stream.run \in Follower!Ids /\ stream.sent \in Nat
  BY <1>1 DEF Follower!Streams
<1>3. Len(runs[stream.run].log) <= Len(runs'[stream.run].log) BY <1>1 DEF TabGrows
<1>4. Len(runs[stream.run].log) \in Nat /\ Len(runs'[stream.run].log) \in Nat
  <2>1. stream.run \in 1 .. Len(runs) /\ stream.run \in 1 .. Len(runs')
        /\ runs \in Seq(Follower!Runs) /\ runs' \in Seq(Follower!Runs)
    BY <1>1, <1>2 DEF Follower!RunIds, TabGrows, Follower!IndInv, Follower!TypeOK
  <2>2. runs[stream.run] \in Follower!Runs /\ runs'[stream.run] \in Follower!Runs BY <2>1
  <2> QED BY <2>2 DEF Follower!Runs
<1>5. \A i \in 1 .. Len(stream.wire) :
        /\ stream.wire[i] = (stream.sent - Len(stream.wire)) + i
        /\ stream.wire[i] \in 1 .. Len(runs'[stream.run].log)
  <2> SUFFICES ASSUME NEW i \in 1 .. Len(stream.wire)
               PROVE  /\ stream.wire[i] = (stream.sent - Len(stream.wire)) + i
                      /\ stream.wire[i] \in 1 .. Len(runs'[stream.run].log)
    OBVIOUS
  <2>1. /\ stream.wire[i] = (stream.sent - Len(stream.wire)) + i
        /\ stream.wire[i] \in 1 .. Len(runs[stream.run].log)
    BY <1>1 DEF Follower!StreamInv
  <2> QED BY <1>3, <1>4, <2>1
<1>6. IF ui'.run = stream.run
      THEN stream.at # "backoff" =>
            1 .. stream.sent - Len(stream.wire) \subseteq applied'[stream.run]
      ELSE requests'["cancel"] # None => requests'["cancel"].run # stream.run
  <2>1. CASE ui.run = stream.run
    <3>1. stream.at # "backoff" => 1 .. stream.sent - Len(stream.wire) \subseteq applied[stream.run]
      BY <1>1, <2>1 DEF Follower!StreamInv, Follower!Shown
    <3> QED BY <1>2, <2>1, <3>1
  <2>2. CASE ui.run # stream.run
    <3>1. requests["cancel"] # None => requests["cancel"].run # stream.run
      BY <1>1, <2>2 DEF Follower!StreamInv
    <3> QED BY <2>2, <3>1
  <2> QED BY <2>1, <2>2
<1> QED BY <1>5, <1>6 DEF Follower!StreamInv, Follower!Shown

\* No Run is created, and the reserved key stays.
LEMMA TabKeysKept ==
    ASSUME Follower!IndInv, TabGrows, Len(runs') = Len(runs), pending' = pending, storage' = storage,
           doubtful' \subseteq doubtful,
           \/ requests'["submit"] = requests["submit"] \/ requests'["submit"] = None
           \/ /\ requests["submit"] # None
              /\ requests'["submit"].key = requests["submit"].key
              /\ requests'["submit"].input = requests["submit"].input
    PROVE  Follower!KeyInv'
<1>1. Follower!KeyInv /\ Follower!RunIds' = Follower!RunIds BY DEF Follower!IndInv, Follower!RunIds
<1>2. \A r, s \in Follower!RunIds : runs'[r].key = runs'[s].key => r = s
  BY <1>1 DEF Follower!KeyInv, TabGrows
<1>3. doubtful' \subseteq Follower!RunIds BY <1>1 DEF Follower!KeyInv
<1>4. ASSUME storage, NEW r \in doubtful'
      PROVE  pending' = [command |-> Follower!Fingerprint(runs'[r].input), key |-> runs'[r].key]
  <2>1. /\ r \in Follower!RunIds
        /\ pending = [command |-> Follower!Fingerprint(runs[r].input), key |-> runs[r].key]
    BY <1>1, <1>4 DEF Follower!KeyInv
  <2> QED BY <2>1 DEF TabGrows
<1>5. storage /\ requests'["submit"] # None =>
        pending' = [command |-> Follower!Fingerprint(requests'["submit"].input),
                    key |-> requests'["submit"].key]
  BY <1>1 DEF Follower!KeyInv
<1> QED BY <1>1, <1>2, <1>3, <1>4, <1>5 DEF Follower!KeyInv, Follower!Fingerprint

\* The Trip and the tab's copy of it are left alone.
LEMMA TabTrip ==
    ASSUME Follower!IndInv, trip' = trip, known' = known, storage' = storage
    PROVE  Follower!TripOK'
BY DEF Follower!IndInv, Follower!TypeOK, Follower!TripOK

\* What is known of every state.
LEMMA TabFacts ==
    ASSUME Follower!FollowerAssumption, Follower!IndInv
    PROVE  /\ runs \in Seq(Follower!Runs) /\ Len(runs) \in Nat /\ Len(runs) <= MaxRuns /\ MaxRuns \in Nat
           /\ Follower!RunIds \subseteq Follower!Ids /\ Follower!TripOK /\ ui \in Follower!States
           /\ pending \in Follower!Reserved \cup {None} /\ stream \in Follower!Streams \cup {None}
           /\ requests \in [Follower!Kinds -> Follower!Submissions \cup Follower!Commands \cup Follower!Loads \cup {None}]
           /\ requests = [k \in Follower!Kinds |-> requests[k]]
           /\ \A k \in Follower!Kinds : requests[k] # None => requests[k] \in Follower!Requests(k)
           /\ keys \in Nat /\ asked \in Nat /\ breaks \in Nat /\ keys + 1 \in Nat
           /\ asked + 1 \in Nat /\ breaks + 1 \in Nat
           /\ applied \in [Follower!Ids -> SUBSET Nat] /\ doubtful \subseteq Follower!Ids
           /\ \A r \in Follower!RunIds : runs[r] \in Follower!Runs /\ Len(runs[r].log) \in Nat
           /\ stream # None => stream.run \in Follower!RunIds
<1>1. Follower!TypeOK /\ Follower!KnownInv BY DEF Follower!IndInv
<1>2. runs \in Seq(Follower!Runs) /\ Len(runs) \in Nat /\ Len(runs) <= MaxRuns /\ MaxRuns \in Nat
  BY <1>1 DEF Follower!TypeOK, Follower!FollowerAssumption
<1>3. \A r \in Follower!RunIds : runs[r] \in Follower!Runs BY <1>2 DEF Follower!RunIds
<1>6. \A r \in Follower!RunIds : Len(runs[r].log) \in Nat BY <1>3 DEF Follower!Runs
<1>4. Follower!RunIds \subseteq Follower!Ids BY <1>2 DEF Follower!RunIds, Follower!Ids
<1>5. keys + 1 \in Nat /\ asked + 1 \in Nat /\ breaks + 1 \in Nat BY <1>1 DEF Follower!TypeOK
<1> QED BY <1>1, <1>2, <1>3, <1>4, <1>5, <1>6 DEF Follower!TypeOK, Follower!KnownInv

\* Nothing happens on the server.
LEMMA TabIdle ==
    ASSUME Follower!FollowerAssumption, Follower!IndInv, runs' = runs
    PROVE  TabGrows /\ Len(runs') = Len(runs) /\ Follower!RunIds' = Follower!RunIds
<1>1. /\ runs \in Seq(Follower!Runs) /\ Len(runs) \in Nat /\ Len(runs) <= MaxRuns /\ MaxRuns \in Nat
      /\ \A r \in Follower!RunIds : Len(runs[r].log) \in Nat
  BY TabFacts
<1> QED BY <1>1 DEF TabGrows, Follower!RunIds

\* mutate_run adds an event to one Run.
LEMMA TabEvent ==
    ASSUME Follower!FollowerAssumption, Follower!IndInv, NEW r \in Follower!RunIds, NEW event \in Follower!Lives \cup Follower!Notes,
           runs' = Follower!WithEvent(r, event)
    PROVE  TabGrows /\ Len(runs') = Len(runs) /\ Follower!RunIds' = Follower!RunIds
<1> DEFINE x == runs[r]
           y == [x EXCEPT !.log = Append(@, event), !.life = IF event \in Follower!Notes THEN @ ELSE event]
<1>1. /\ runs \in Seq(Follower!Runs) /\ Len(runs) \in Nat /\ Len(runs) <= MaxRuns /\ MaxRuns \in Nat
      /\ \A s \in Follower!RunIds : runs[s] \in Follower!Runs /\ Len(runs[s].log) \in Nat
  BY TabFacts
<1>2. x \in Follower!Runs /\ x.log \in Seq(Follower!Lives \cup Follower!Notes) /\ x.life \in Follower!Lives
  BY <1>1 DEF Follower!Runs
<1>3. /\ Append(x.log, event) \in Seq(Follower!Lives \cup Follower!Notes)
      /\ Len(x.log) <= Len(Append(x.log, event))
  BY <1>2
<1>4. /\ y \in Follower!Runs /\ y.key = x.key /\ y.input = x.input /\ y.log = Append(x.log, event)
  BY <1>2, <1>3 DEF Follower!Runs
<1>5. runs' = [runs EXCEPT ![r] = y] BY <1>1, <1>2 DEF Follower!WithEvent, Follower!Runs
<1> HIDE DEF x, y
<1>6. r \in 1 .. Len(runs) BY DEF Follower!RunIds
<1>7. runs' \in Seq(Follower!Runs) /\ Len(runs') = Len(runs) BY <1>1, <1>4, <1>5, <1>6
<1>8. runs'[r] = y /\ \A s \in Follower!RunIds : s # r => runs'[s] = runs[s]
  BY <1>1, <1>5, <1>6 DEF Follower!RunIds
<1>9. \A s \in Follower!RunIds : /\ runs'[s].key = runs[s].key /\ runs'[s].input = runs[s].input
                                 /\ Len(runs[s].log) <= Len(runs'[s].log)
  BY <1>1, <1>3, <1>4, <1>8 DEF x
<1> QED BY <1>1, <1>7, <1>9 DEF TabGrows, Follower!RunIds

\* The API answers one request, and the tab is not concerned yet.
LEMMA TabServed ==
    ASSUME Follower!FollowerAssumption, Follower!IndInv, TabGrows, Len(runs') = Len(runs), Follower!TripOK',
           UNCHANGED Follower!tabVars, doubtful' = doubtful, NEW k \in Follower!Kinds, requests[k] # None, NEW q,
           requests' = [requests EXCEPT ![k] = q], q \in Follower!Requests(k),
           q.at \in {"finish", "done"} =>
                /\ q.view # None /\ q.view.run \in Follower!RunIds
                /\ k # "submit" => q.view.run = q.run
                /\ k = "submit" => runs'[q.view.run].key = q.key,
           k # "submit" => q.run = requests[k].run /\ q.seq = requests[k].seq,
           k = "submit" => q.key = requests[k].key /\ q.input = requests[k].input
    PROVE  Follower!IndInv'
<1>1. /\ requests \in [Follower!Kinds -> Follower!Submissions \cup Follower!Commands \cup Follower!Loads \cup {None}]
      /\ Follower!TripOK /\ keys \in Nat /\ asked \in Nat /\ breaks \in Nat
      /\ applied \in [Follower!Ids -> SUBSET Nat] /\ doubtful \subseteq Follower!Ids
      /\ pending \in Follower!Reserved \cup {None} /\ stream \in Follower!Streams \cup {None}
      /\ stream # None => stream.run \in Follower!RunIds
  BY TabFacts
<1>2. /\ ui' = ui /\ cursor' = cursor /\ pending' = pending /\ stream' = stream /\ keys' = keys
      /\ asked' = asked /\ breaks' = breaks /\ applied' = applied /\ storage' = storage
  BY DEF Follower!tabVars, Follower!tripVars
<1>3. requests'[k] = q /\ \A j \in Follower!Kinds : j # k => requests'[j] = requests[j] BY <1>1
<1>4. requests' = [j \in Follower!Kinds |-> requests'[j]] BY <1>1
<1>5. Follower!RunIds' = Follower!RunIds /\ Follower!RunIds = 1 .. Len(runs') BY DEF Follower!RunIds
<1>6. TabSound(k)
  <2>1. k # "submit" => requests[k].run \in Follower!RunIds /\ 1 .. requests[k].seq \subseteq applied[requests[k].run]
    BY DEF Follower!IndInv, Follower!KnownInv, Follower!SeenInv, Follower!Shown
  <2> QED BY <1>3, <1>5, <2>1 DEF TabSound
<1>7. Follower!StreamInv'
  <2>1. \/ requests'["cancel"] = requests["cancel"]
        \/ requests["cancel"] # None /\ requests'["cancel"].run = requests["cancel"].run
    <3>1. "cancel" \in Follower!Kinds BY DEF Follower!Kinds
    <3> QED BY <1>3, <3>1
  <2> QED BY <1>2, <2>1, TabStreamKept
<1>8. Follower!KeyInv'
  <2>1. \/ requests'["submit"] = requests["submit"]
        \/ /\ requests["submit"] # None
           /\ requests'["submit"].key = requests["submit"].key
           /\ requests'["submit"].input = requests["submit"].input
    <3>1. "submit" \in Follower!Kinds BY DEF Follower!Kinds
    <3> QED BY <1>3, <3>1
  <2> QED BY <1>2, <2>1, TabKeysKept
<1>9. \A j \in Follower!Kinds : requests'[j] = requests[j] \/ TabSound(j) BY <1>3, <1>6
<1> QED BY <1>1, <1>2, <1>4, <1>5, <1>7, <1>8, <1>9, TabStep

\* Reply and Refuse change where a request is, and the view it carries.
LEMMA TabReplied ==
    ASSUME Follower!FollowerAssumption, Follower!IndInv, TabGrows, Len(runs') = Len(runs), Follower!TripOK',
           UNCHANGED Follower!tabVars, doubtful' = doubtful, NEW k \in Follower!Kinds, requests[k] # None,
           \/ /\ k # "load" /\ Follower!Refuse(k)
           \/ \E view \in Follower!Views :
                /\ \/ Follower!Reply(k, view)
                   \/ /\ k \in {"cancel", "resume"}
                      /\ requests' = [requests EXCEPT ![k].at = "finish", ![k].view = view]
                /\ view.run \in Follower!RunIds
                /\ k # "submit" => view.run = requests[k].run
                /\ k = "submit" => runs'[view.run].key = requests[k].key
    PROVE  Follower!IndInv'
<1>1. /\ requests \in [Follower!Kinds -> Follower!Submissions \cup Follower!Commands \cup Follower!Loads \cup {None}]
      /\ requests[k] \in Follower!Requests(k)
  BY TabFacts
<1>2. None \notin Follower!Views BY DEF Follower!FollowerAssumption
<1>3. ASSUME k # "load", Follower!Refuse(k) PROVE Follower!IndInv'
  <2> DEFINE q == [requests[k] EXCEPT !.at = "refused"]
  <2>1. requests' = [requests EXCEPT ![k] = q] BY <1>1, <1>3 DEF Follower!Refuse
  <2>2. q \in Follower!Requests(k) /\ q.at = "refused"
    BY <1>1, <1>3 DEF Follower!Requests, Follower!Submissions, Follower!Commands
  <2>3. k # "submit" => q.run = requests[k].run /\ q.seq = requests[k].seq
    BY <1>1, <1>3 DEF Follower!Requests, Follower!Submissions, Follower!Commands
  <2>4. k = "submit" => q.key = requests[k].key /\ q.input = requests[k].input
    BY <1>1, <1>3 DEF Follower!Requests, Follower!Submissions, Follower!Commands
  <2> HIDE DEF q
  <2> QED BY <2>1, <2>2, <2>3, <2>4, TabServed
<1>4. ASSUME NEW view \in Follower!Views, NEW at \in {"finish", "done"},
             at = "finish" => k \in {"cancel", "resume"},
             requests' = [requests EXCEPT ![k].at = at, ![k].view = view],
             view.run \in Follower!RunIds, k # "submit" => view.run = requests[k].run,
             k = "submit" => runs'[view.run].key = requests[k].key
      PROVE  Follower!IndInv'
  <2> DEFINE q == [requests[k] EXCEPT !.at = at, !.view = view]
  <2>1. requests' = [requests EXCEPT ![k] = q] BY <1>1, <1>4
  <2>2. q \in Follower!Requests(k) /\ q.at = at /\ q.view = view
    BY <1>1, <1>4 DEF Follower!Requests, Follower!Submissions, Follower!Commands, Follower!Loads
  <2>3. k # "submit" => q.run = requests[k].run /\ q.seq = requests[k].seq
    BY <1>1 DEF Follower!Requests, Follower!Submissions, Follower!Commands, Follower!Loads
  <2>4. k = "submit" => q.key = requests[k].key /\ q.input = requests[k].input
    BY <1>1 DEF Follower!Requests, Follower!Submissions, Follower!Commands
  <2> HIDE DEF q
  <2> QED BY <1>2, <1>4, <2>1, <2>2, <2>3, <2>4, TabServed
<1>5. ASSUME NEW view \in Follower!Views, Follower!Reply(k, view), view.run \in Follower!RunIds,
             k # "submit" => view.run = requests[k].run,
             k = "submit" => runs'[view.run].key = requests[k].key
      PROVE  Follower!IndInv'
  BY <1>4, <1>5 DEF Follower!Reply
<1> QED BY <1>3, <1>4, <1>5

\* RunView
LEMMA TabView ==
    ASSUME Follower!FollowerAssumption, Follower!IndInv, NEW r \in Follower!RunIds
    PROVE  Follower!View(r) \in Follower!Views /\ Follower!View(r).run = r
<1>1. r \in Follower!Ids /\ runs[r] \in Follower!Runs /\ Len(runs[r].log) \in Nat BY TabFacts
<1>2. runs[r].life \in Follower!Lives BY <1>1 DEF Follower!Runs
<1> QED BY <1>1, <1>2 DEF Follower!View, Follower!Views

\* create_run makes a Run of a key that no Run has, so that none is doubtful already.
LEMMA TabCreates ==
    ASSUME Follower!FollowerAssumption, Follower!IndInv, Follower!CreateRun
    PROVE  Follower!IndInv'
<1> DEFINE q == requests["submit"]
           n == Len(runs) + 1
           new == [input |-> q.input, key |-> q.key, life |-> "queued", log |-> <<"queued">>]
           view == [run |-> n, life |-> "queued", version |-> 1]
<1>1. /\ runs \in Seq(Follower!Runs) /\ Len(runs) \in Nat /\ Len(runs) <= MaxRuns /\ MaxRuns \in Nat
      /\ Follower!RunIds \subseteq Follower!Ids
      /\ requests \in [Follower!Kinds -> Follower!Submissions \cup Follower!Commands \cup Follower!Loads \cup {None}]
      /\ Follower!TripOK /\ keys \in Nat /\ asked \in Nat /\ breaks \in Nat
      /\ applied \in [Follower!Ids -> SUBSET Nat] /\ doubtful \subseteq Follower!Ids
      /\ pending \in Follower!Reserved \cup {None} /\ stream \in Follower!Streams \cup {None}
      /\ stream # None => stream.run \in Follower!RunIds
      /\ \A k \in Follower!Kinds : requests[k] # None => requests[k] \in Follower!Requests(k)
      /\ \A r \in Follower!RunIds : Len(runs[r].log) \in Nat
  BY TabFacts
<1>2. /\ "submit" \in Follower!Kinds /\ "cancel" \in Follower!Kinds /\ q # None /\ trip' = trip
      /\ UNCHANGED Follower!tabVars
  BY DEF Follower!CreateRun, Follower!Sent, Follower!Kinds
<1>3. q \in Follower!Submissions BY <1>1, <1>2 DEF Follower!Requests
<1>0. Follower!TripOK' /\ storage' = storage
  BY <1>2, TabTrip DEF Follower!tabVars, Follower!tripVars
<1>4. CASE Follower!Refuse("submit") /\ UNCHANGED <<runs, doubtful>>
  <2>1. TabGrows /\ Len(runs') = Len(runs) BY <1>4, TabIdle
  <2> QED BY <1>0, <1>2, <1>4, <2>1, TabReplied
<1>5. ASSUME NEW r \in Follower!RunIds, runs[r].key = q.key, Follower!Reply("submit", Follower!View(r)),
             UNCHANGED <<runs, doubtful>>
      PROVE  Follower!IndInv'
  <2>1. TabGrows /\ Len(runs') = Len(runs) BY <1>5, TabIdle
  <2>2. Follower!View(r) \in Follower!Views /\ Follower!View(r).run = r BY TabView
  <2>3. runs'[r].key = q.key BY <1>5
  <2> QED BY <1>0, <1>2, <1>5, <2>1, <2>2, <2>3, TabReplied
<1>6. ASSUME \A r \in Follower!RunIds : runs[r].key # q.key, Len(runs) < MaxRuns,
             runs' = Append(runs, new), Follower!Reply("submit", view), doubtful' = doubtful \cup {n}
      PROVE  Follower!IndInv'
  <2>1. q.key \in Nat /\ q.input \in Follower!Inputs BY <1>3 DEF Follower!Submissions
  <2>2. <<"queued">> \in Seq(Follower!Lives \cup Follower!Notes) /\ "queued" \in Follower!Lives
    BY DEF Follower!Lives
  <2>3. new \in Follower!Runs /\ new.key = q.key /\ new.input = q.input
    BY <2>1, <2>2 DEF Follower!Runs
  <2>4. n \in Follower!Ids /\ n \in Nat /\ 1 \in Nat BY <1>1, <1>6 DEF Follower!Ids
  <2>5. view \in Follower!Views /\ view.run = n BY <2>2, <2>4 DEF Follower!Views
  <2> HIDE DEF new, view
  <2>6. /\ runs' \in Seq(Follower!Runs) /\ Len(runs') = n /\ runs'[n] = new
        /\ \A r \in 1 .. Len(runs) : runs'[r] = runs[r]
    BY <1>1, <1>6, <2>3
  <2>7. TabGrows
    <3>1. Len(runs) <= Len(runs') /\ Len(runs') <= MaxRuns BY <1>1, <1>6, <2>6
    <3>2. \A r \in Follower!RunIds : runs'[r] = runs[r] BY <2>6 DEF Follower!RunIds
    <3>3. \A r \in Follower!RunIds : Len(runs[r].log) <= Len(runs'[r].log) BY <1>1, <3>2
    <3> QED BY <2>6, <3>1, <3>2, <3>3 DEF TabGrows
  <2>8. Follower!RunIds' = Follower!RunIds \cup {n} /\ n \notin Follower!RunIds /\ n \in 1 .. Len(runs')
    BY <1>1, <2>6 DEF Follower!RunIds
  <2> DEFINE p == [q EXCEPT !.at = "done", !.view = view]
  <2>9. requests' = [requests EXCEPT !["submit"] = p] BY <1>1, <1>2, <1>6 DEF Follower!Reply
  <2>10. /\ p \in Follower!Submissions /\ p.view = view /\ p.key = q.key /\ p.input = q.input
    BY <1>3, <2>5 DEF Follower!Submissions
  <2> HIDE DEF p, q
  <2>11. /\ requests'["submit"] = p /\ \A j \in Follower!Kinds : j # "submit" => requests'[j] = requests[j]
         /\ requests' = [j \in Follower!Kinds |-> requests'[j]]
    BY <1>1, <1>2, <2>9
  <2>12. TabSound("submit")
    <3>1. None \notin Follower!Views BY DEF Follower!FollowerAssumption
    <3> QED BY <2>3, <2>5, <2>6, <2>8, <2>10, <2>11, <3>1 DEF TabSound, Follower!Requests
  <2>13. /\ ui' = ui /\ cursor' = cursor /\ pending' = pending /\ stream' = stream /\ keys' = keys
         /\ asked' = asked /\ breaks' = breaks /\ applied' = applied
    BY <1>2 DEF Follower!tabVars
  <2>14. Follower!StreamInv'
    <3>1. requests'["cancel"] = requests["cancel"] BY <1>2, <2>11
    <3> QED BY <2>7, <2>13, <3>1, TabStreamKept
  <2>15. storage => pending = [command |-> Follower!Fingerprint(q.input), key |-> q.key]
    BY <1>2 DEF Follower!IndInv, Follower!KeyInv, q
  <2>16. storage => doubtful = {}
    <3>1. ASSUME storage, NEW r \in doubtful PROVE FALSE
      <4>1. /\ r \in Follower!RunIds
            /\ pending = [command |-> Follower!Fingerprint(runs[r].input), key |-> runs[r].key]
        BY <3>1 DEF Follower!IndInv, Follower!KeyInv
      <4>2. runs[r].key = q.key BY <2>15, <3>1, <4>1
      <4> QED BY <1>6, <4>1, <4>2 DEF q
    <3> QED BY <3>1
  <2>17. Follower!KeyInv'
    <3>1. \A r \in Follower!RunIds : runs'[r] = runs[r] BY <2>6 DEF Follower!RunIds
    <3>2. \A r, s \in Follower!RunIds : runs[r].key = runs[s].key => r = s
      BY DEF Follower!IndInv, Follower!KeyInv
    <3>3. \A r \in Follower!RunIds : runs[r].key # q.key BY <1>6 DEF q
    <3>4. \A r, s \in Follower!RunIds' : runs'[r].key = runs'[s].key => r = s
      BY <2>3, <2>6, <2>8, <3>1, <3>2, <3>3
    <3>5. storage => doubtful' = {n} BY <1>6, <2>16
    <3>6. storage => pending' = [command |-> Follower!Fingerprint(runs'[n].input), key |-> runs'[n].key]
      BY <2>3, <2>6, <2>13, <2>15
    <3>7. storage => pending' = [command |-> Follower!Fingerprint(requests'["submit"].input),
                                 key |-> requests'["submit"].key]
      BY <2>10, <2>11, <2>13, <2>15
    <3>8. doubtful' \subseteq Follower!RunIds'
      <4>1. doubtful \subseteq Follower!RunIds BY DEF Follower!IndInv, Follower!KeyInv
      <4> QED BY <1>6, <2>8, <4>1
    <3> QED BY <1>0, <3>4, <3>5, <3>6, <3>7, <3>8 DEF Follower!KeyInv, Follower!Fingerprint
  <2>18. \A k \in Follower!Kinds : requests'[k] = requests[k] \/ TabSound(k) BY <2>11, <2>12
  <2>19. doubtful' \subseteq Follower!Ids BY <1>1, <1>6, <2>4
  <2>20. stream' # None => stream'.run \in Follower!RunIds' BY <1>1, <2>8, <2>13
  <2> QED BY <1>0, <1>1, <1>2, <2>7, <2>11, <2>13, <2>14, <2>17, <2>18, <2>19, <2>20, TabStep
<1> QED BY <1>4, <1>5, <1>6 DEF Follower!CreateRun

\* The other handlers of the API, and what the Run does by itself.
LEMMA TabServer ==
    ASSUME Follower!FollowerAssumption, Follower!IndInv,
           \/ Follower!ResumeRun \/ Follower!RequestCancel \/ Follower!FinishCancel \/ Follower!GetRun
           \/ \E r \in Follower!RunIds, event \in {"running", "waiting_input"} \cup Follower!Notes \cup Follower!Terminal :
                Follower!Advance(r, event)
    PROVE  Follower!IndInv'
<1>1. /\ requests \in [Follower!Kinds -> Follower!Submissions \cup Follower!Commands \cup Follower!Loads \cup {None}]
      /\ Follower!TripOK /\ keys \in Nat /\ asked \in Nat /\ breaks \in Nat
      /\ applied \in [Follower!Ids -> SUBSET Nat] /\ doubtful \subseteq Follower!Ids
      /\ pending \in Follower!Reserved \cup {None} /\ stream \in Follower!Streams \cup {None}
      /\ stream # None => stream.run \in Follower!RunIds
      /\ \A k \in Follower!Kinds : requests[k] # None => requests[k] \in Follower!Requests(k)
      /\ requests = [k \in Follower!Kinds |-> requests[k]]
      /\ Follower!RunIds \subseteq Follower!Ids
  BY TabFacts
<1>2. "resume" \in Follower!Kinds /\ "cancel" \in Follower!Kinds /\ "load" \in Follower!Kinds
  BY DEF Follower!Kinds
<1>3. \A k \in {"resume", "cancel", "load"} : requests[k] # None => requests[k].run \in Follower!RunIds
  BY <1>2 DEF Follower!IndInv, Follower!KnownInv
<1>4. Follower!Terminal \subseteq Follower!Lives /\ {"queued", "cancel_requested", "running", "waiting_input"} \subseteq Follower!Lives
  BY DEF Follower!Lives
<1>5. ASSUME TabGrows, Len(runs') = Len(runs), Follower!RunIds' = Follower!RunIds, Follower!TripOK',
             UNCHANGED <<Follower!tabVars, requests, doubtful>>
      PROVE  Follower!IndInv'
  <2>1. /\ ui' = ui /\ cursor' = cursor /\ pending' = pending /\ stream' = stream /\ keys' = keys
        /\ asked' = asked /\ breaks' = breaks /\ applied' = applied /\ requests' = requests
        /\ doubtful' = doubtful /\ storage' = storage
    BY <1>5 DEF Follower!tabVars, Follower!tripVars
  <2>2. Follower!StreamInv' BY <1>5, <2>1, TabStreamKept
  <2>3. Follower!KeyInv' BY <1>5, <2>1, TabKeysKept
  <2> QED BY <1>1, <1>5, <2>1, <2>2, <2>3, TabStep
<1>7. ASSUME NEW r \in Follower!RunIds, NEW event \in {"running", "waiting_input"} \cup Follower!Notes \cup Follower!Terminal,
             Follower!Advance(r, event)
      PROVE  Follower!IndInv'
  <2>1. event \in Follower!Lives \cup Follower!Notes BY <1>4
  <2>2. TabGrows /\ Len(runs') = Len(runs) /\ Follower!RunIds' = Follower!RunIds
    BY <1>7, <2>1, TabEvent DEF Follower!Advance
  <2>3. r \in Nat /\ 1 \in Nat BY DEF Follower!RunIds
  <2>4. trip \in Follower!TripRows /\ known' = known /\ storage' = storage
    BY <1>7 DEF Follower!Advance, Follower!tabVars, Follower!tripVars, Follower!IndInv, Follower!TypeOK, Follower!TripOK
  <2>5. trip' = trip \/ trip' = [trip EXCEPT !.plan = r, !.version = 1] BY <1>7 DEF Follower!Advance
  <2>6. trip' \in Follower!TripRows BY <2>3, <2>4, <2>5 DEF Follower!TripRows
  <2>7. Follower!TripOK' BY <2>4, <2>6 DEF Follower!IndInv, Follower!TypeOK, Follower!TripOK
  <2> QED BY <1>5, <1>7, <2>2, <2>7 DEF Follower!Advance
<1>8. CASE Follower!GetRun
  <2>1. requests["load"] # None /\ Follower!Reply("load", Follower!View(requests["load"].run))
    BY <1>8 DEF Follower!GetRun, Follower!Sent
  <2>2. TabGrows /\ Len(runs') = Len(runs) BY <1>8, TabIdle DEF Follower!GetRun, Follower!serverVars
  <2>3. Follower!View(requests["load"].run) \in Follower!Views /\ Follower!View(requests["load"].run).run = requests["load"].run
    BY <1>2, <1>3, <2>1, TabView
  <2>4. UNCHANGED Follower!tabVars /\ doubtful' = doubtful /\ Follower!TripOK'
    BY <1>8, TabTrip DEF Follower!GetRun, Follower!serverVars, Follower!tabVars, Follower!tripVars
  <2> QED BY <1>2, <1>3, <2>1, <2>2, <2>3, <2>4, TabReplied
<1>9. CASE Follower!ResumeRun
  <2> DEFINE q == requests["resume"]
             view == [run |-> q.run, life |-> "queued", version |-> q.version + 1]
  <2>1. q # None /\ UNCHANGED Follower!tabVars /\ doubtful' = doubtful /\ Follower!TripOK'
    BY <1>9, TabTrip DEF Follower!ResumeRun, Follower!Sent, Follower!tabVars, Follower!tripVars
  <2>2. q.run \in Follower!RunIds /\ q \in Follower!Commands
    BY <1>1, <1>2, <1>3, <2>1 DEF Follower!Requests
  <2>3. CASE Follower!Refuse("resume") /\ UNCHANGED runs
    <3>1. TabGrows /\ Len(runs') = Len(runs) BY <2>3, TabIdle
    <3> QED BY <1>2, <2>1, <2>3, <3>1, TabReplied
  <2>4. CASE runs' = Follower!WithEvent(q.run, "queued") /\ Follower!Reply("resume", view)
    <3>1. TabGrows /\ Len(runs') = Len(runs) BY <1>4, <2>2, <2>4, TabEvent
    <3>2. q.version + 1 \in Nat /\ q.run \in Follower!Ids BY <2>2 DEF Follower!Commands
    <3>3. view \in Follower!Views /\ view.run = q.run BY <1>4, <3>2 DEF Follower!Views
    <3> HIDE DEF view
    <3> QED BY <1>2, <2>1, <2>2, <2>4, <3>1, <3>3, TabReplied
  <2> QED BY <1>9, <2>3, <2>4 DEF Follower!ResumeRun
<1>10. CASE Follower!RequestCancel
  <2> DEFINE q == requests["cancel"]
             view == [run |-> q.run, life |-> "cancel_requested", version |-> q.version + 1]
  <2>1. q # None /\ UNCHANGED Follower!tabVars /\ doubtful' = doubtful /\ Follower!TripOK'
    BY <1>10, TabTrip DEF Follower!RequestCancel, Follower!Sent, Follower!tabVars, Follower!tripVars
  <2>2. q.run \in Follower!RunIds /\ q \in Follower!Commands
    BY <1>1, <1>2, <1>3, <2>1 DEF Follower!Requests
  <2>3. Follower!View(q.run) \in Follower!Views /\ Follower!View(q.run).run = q.run BY <2>2, TabView
  <2>4. CASE UNCHANGED runs
    <3>1. TabGrows /\ Len(runs') = Len(runs) BY <2>4, TabIdle
    <3>2. \/ Follower!Reply("cancel", Follower!View(q.run)) \/ Follower!Refuse("cancel")
          \/ requests' = [requests EXCEPT !["cancel"].at = "finish", !["cancel"].view = Follower!View(q.run)]
          \/ runs' = Follower!WithEvent(q.run, "cancel_requested")
      BY <1>10 DEF Follower!RequestCancel
    <3>3. CASE Follower!Reply("cancel", Follower!View(q.run))
      BY <1>2, <2>1, <2>2, <2>3, <3>1, <3>3, TabReplied
    <3>4. CASE Follower!Refuse("cancel")
      BY <1>2, <2>1, <3>1, <3>4, TabReplied
    <3>5. CASE requests' = [requests EXCEPT !["cancel"].at = "finish", !["cancel"].view = Follower!View(q.run)]
      BY <1>2, <2>1, <2>2, <2>3, <3>1, <3>5, TabReplied
    <3>6. CASE ~Follower!Reply("cancel", Follower!View(q.run)) /\ ~Follower!Refuse("cancel")
               /\ requests' # [requests EXCEPT !["cancel"].at = "finish", !["cancel"].view = Follower!View(q.run)]
      <4>1. /\ runs' = Follower!WithEvent(q.run, "cancel_requested")
            /\ requests' = [requests EXCEPT !["cancel"].at = "finish", !["cancel"].view = view]
        BY <1>10, <3>6 DEF Follower!RequestCancel
      <4>2. q.version + 1 \in Nat /\ q.run \in Follower!Ids BY <2>2 DEF Follower!Commands
      <4>3. view \in Follower!Views /\ view.run = q.run BY <1>4, <4>2 DEF Follower!Views
      <4> HIDE DEF view
      <4> QED BY <1>2, <2>1, <2>2, <3>1, <4>1, <4>3, TabReplied
    <3> QED BY <3>3, <3>4, <3>5, <3>6
  <2>5. CASE runs' # runs
    <3>1. /\ runs' = Follower!WithEvent(q.run, "cancel_requested")
          /\ requests' = [requests EXCEPT !["cancel"].at = "finish", !["cancel"].view = view]
      BY <1>10, <2>5 DEF Follower!RequestCancel
    <3>2. TabGrows /\ Len(runs') = Len(runs) BY <1>4, <2>2, <3>1, TabEvent
    <3>3. q.version + 1 \in Nat /\ q.run \in Follower!Ids BY <2>2 DEF Follower!Commands
    <3>4. view \in Follower!Views /\ view.run = q.run BY <1>4, <3>3 DEF Follower!Views
    <3> HIDE DEF view
    <3> QED BY <1>2, <2>1, <2>2, <3>1, <3>2, <3>4, TabReplied
  <2> QED BY <2>4, <2>5
<1>11. CASE Follower!FinishCancel
  <2> DEFINE q == requests["cancel"]
  <2>1. /\ q # None /\ q.at = "finish" /\ UNCHANGED Follower!tabVars /\ doubtful' = doubtful
        /\ Follower!TripOK'
    BY <1>11, TabTrip DEF Follower!FinishCancel, Follower!tabVars, Follower!tripVars
  <2>2. q.run \in Follower!RunIds /\ q \in Follower!Commands
    BY <1>1, <1>2, <1>3, <2>1 DEF Follower!Requests
  <2>3. q.view # None /\ q.view.run = q.run BY <1>2, <2>1 DEF Follower!IndInv, Follower!KnownInv
  <2>4. q.view \in Follower!Views BY <2>2, <2>3 DEF Follower!Commands
  <2>5. TabGrows /\ Len(runs') = Len(runs)
    <3>1. runs' = runs \/ runs' = Follower!WithEvent(q.run, "canceled")
      BY <1>11 DEF Follower!FinishCancel
    <3>2. "canceled" \in Follower!Lives \cup Follower!Notes BY DEF Follower!Lives, Follower!Terminal
    <3> QED BY <2>2, <3>1, <3>2, TabIdle, TabEvent
  <2>6. Follower!Reply("cancel", q.view) \/ Follower!Refuse("cancel")
    BY <1>11 DEF Follower!FinishCancel
  <2> QED BY <1>2, <2>1, <2>2, <2>3, <2>4, <2>5, <2>6, TabReplied
<1> QED BY <1>7, <1>8, <1>9, <1>10, <1>11

\* The tab sends, gives up or has been answered a request, and nothing else of it changes.
LEMMA TabRequest ==
    ASSUME Follower!FollowerAssumption, Follower!IndInv, UNCHANGED <<Follower!serverVars, ui, cursor, stream, applied>>,
           keys' \in Nat, asked' \in Nat, breaks' \in Nat, pending' \in Follower!Reserved \cup {None},
           known' = known, storage' \in BOOLEAN, doubtful' \subseteq doubtful, NEW k \in Follower!Kinds, NEW q,
           requests' = [requests EXCEPT ![k] = q],
           \/ q = None
           \/ /\ q \in Follower!Requests(k) /\ q.at = "sent"
              /\ k # "submit" => q.run = ui.run /\ q.seq = ui.seq /\ ui.run # None,
           Follower!KeyInv'
    PROVE  Follower!IndInv'
<1>1. /\ requests \in [Follower!Kinds -> Follower!Submissions \cup Follower!Commands \cup Follower!Loads \cup {None}]
      /\ Follower!TripOK /\ applied \in [Follower!Ids -> SUBSET Nat] /\ doubtful \subseteq Follower!Ids
      /\ stream \in Follower!Streams \cup {None} /\ (stream # None => stream.run \in Follower!RunIds)
  BY TabFacts
<1>2. /\ runs' = runs /\ ui' = ui /\ cursor' = cursor /\ stream' = stream
      /\ applied' = applied /\ Follower!TripOK'
  BY DEF Follower!serverVars, Follower!IndInv, Follower!TypeOK, Follower!TripOK
<1>3. TabGrows /\ Follower!RunIds' = Follower!RunIds BY <1>2, TabIdle
<1>4. /\ requests'[k] = q /\ \A j \in Follower!Kinds : j # k => requests'[j] = requests[j]
      /\ requests' = [j \in Follower!Kinds |-> requests'[j]]
  BY <1>1
<1>5. ui.run # None => ui.run \in Follower!RunIds /\ 1 .. ui.seq \subseteq applied[ui.run]
  BY DEF Follower!IndInv, Follower!KnownInv, Follower!SeenInv, Follower!Shown
<1>6. requests'[k] = None \/ TabSound(k) BY <1>4, <1>5 DEF TabSound
<1>7. \A j \in Follower!Kinds : requests'[j] = requests[j] \/ requests'[j] = None \/ TabSound(j)
  BY <1>4, <1>6
<1>8. Follower!StreamInv'
  <2>1. \/ requests'["cancel"] = requests["cancel"] \/ requests'["cancel"] = None
        \/ requests'["cancel"].run = ui.run
    <3>1. CASE k = "cancel"
      <4>1. q = None \/ q.run = ui.run BY <3>1
      <4> QED BY <1>4, <3>1, <4>1
    <3>2. CASE k # "cancel" BY <1>4, <3>2 DEF Follower!Kinds
    <3> QED BY <3>1, <3>2
  <2> QED BY <1>2, <1>3, <2>1, TabStreamKept
<1>9. doubtful' \subseteq Follower!Ids BY <1>1
<1> QED BY <1>1, <1>2, <1>3, <1>4, <1>7, <1>8, <1>9, TabStep

\* A command asked again keeps its key, and one that is not makes no Run doubtful.
LEMMA TabSubmit ==
    ASSUME Follower!FollowerAssumption, Follower!IndInv, NEW q \in Questions, Follower!Submit(q)
    PROVE  Follower!IndInv'
<1> DEFINE input == Follower!RunInput(q)
           command == Follower!Fingerprint(input)
           key == Follower!ReservedKey(command)
           req == [at |-> "sent", input |-> input, key |-> key, view |-> None]
           p == [command |-> command, key |-> key]
<1>1. /\ requests \in [Follower!Kinds -> Follower!Submissions \cup Follower!Commands \cup Follower!Loads \cup {None}]
      /\ pending \in Follower!Reserved \cup {None} /\ keys \in Nat /\ keys + 1 \in Nat
      /\ asked + 1 \in Nat /\ breaks \in Nat /\ breaks + 1 \in Nat
  BY TabFacts
<1>0. known \in Follower!TripRows /\ storage \in BOOLEAN
  BY DEF Follower!IndInv, Follower!TypeOK, Follower!TripOK
<1>11. input \in Follower!Inputs
  <2>1. known.title \in Titles /\ known.plan \in Nat /\ known.version \in Nat /\ 0 \in Nat
    BY <1>0 DEF Follower!TripRows
  <2> QED BY <2>1 DEF Follower!RunInput, Follower!Inputs
<1> HIDE DEF input
<1>12. command \in Follower!Prints
  BY <1>11 DEF Follower!Fingerprint, Follower!Inputs, Follower!Prints
<1>13. command = Follower!Fingerprint(input) OBVIOUS
<1> HIDE DEF command
<1>2. key \in Nat BY <1>1 DEF Follower!ReservedKey, Follower!Reserved
<1>3. p \in Follower!Reserved /\ p.command = command /\ p.key = key
  BY <1>2, <1>12 DEF Follower!Reserved
<1>4. req \in Follower!Submissions /\ req.at = "sent" /\ req.input = input /\ req.key = key
  BY <1>2, <1>11 DEF Follower!Submissions
<1>5. /\ \/ pending' = p /\ UNCHANGED <<storage, breaks>>
         \/ pending' = pending /\ storage' = FALSE /\ breaks' = breaks + 1
      /\ requests' = [requests EXCEPT !["submit"] = req]
      /\ keys' = (IF key > keys THEN key ELSE keys) /\ asked' = asked + 1
      /\ doubtful' = {r \in doubtful : Follower!Fingerprint(runs[r].input) = command}
      /\ UNCHANGED <<Follower!serverVars, known, ui, cursor, stream, applied>>
  BY DEF Follower!Submit, Follower!Send, input, command
<1>6. ASSUME storage, NEW r \in doubtful'
      PROVE  Follower!Fingerprint(runs[r].input) = command /\ runs[r].key = key
  <2>1. r \in doubtful /\ Follower!Fingerprint(runs[r].input) = command BY <1>5
  <2>2. r \in Follower!RunIds /\ pending = [command |-> Follower!Fingerprint(runs[r].input), key |-> runs[r].key]
    BY <1>6, <2>1 DEF Follower!IndInv, Follower!KeyInv
  <2>3. pending.command = command /\ pending.key = runs[r].key BY <2>1, <2>2
  <2>4. runs[r] \in Follower!Runs BY <2>2, TabFacts
  <2>5. pending \in Follower!Reserved
    BY <1>12, <2>1, <2>2, <2>4 DEF Follower!Runs, Follower!Reserved
  <2>6. pending # None BY <2>5 DEF Follower!FollowerAssumption
  <2>7. key = pending.key BY <2>3, <2>6 DEF Follower!ReservedKey
  <2> QED BY <2>1, <2>3, <2>7
<1> HIDE DEF key, req, p
<1>7. "submit" \in Follower!Kinds /\ requests'["submit"] = req BY <1>1, <1>5 DEF Follower!Kinds
<1>8. Follower!KeyInv'
  <2>1. runs' = runs /\ Follower!RunIds' = Follower!RunIds
    BY <1>5 DEF Follower!serverVars, Follower!RunIds
  <2>2. \A r, s \in Follower!RunIds : runs[r].key = runs[s].key => r = s
    BY DEF Follower!IndInv, Follower!KeyInv
  <2>3. storage' => storage /\ pending' = [command |-> command, key |-> key] BY <1>5 DEF p
  <2>4. doubtful' \subseteq Follower!RunIds BY <1>5 DEF Follower!IndInv, Follower!KeyInv
  <2>5. storage' => \A r \in doubtful' :
            pending' = [command |-> Follower!Fingerprint(runs'[r].input), key |-> runs'[r].key]
    BY <1>6, <2>1, <2>3
  <2>6. storage' => pending' = [command |-> Follower!Fingerprint(requests'["submit"].input),
                                key |-> requests'["submit"].key]
    BY <1>4, <1>7, <1>13, <2>3
  <2> QED BY <2>1, <2>2, <2>4, <2>5, <2>6 DEF Follower!KeyInv, Follower!Fingerprint
<1>9. req \in Follower!Requests("submit") BY <1>4 DEF Follower!Requests
<1>10. /\ keys' \in Nat /\ asked' \in Nat /\ breaks' \in Nat /\ pending' \in Follower!Reserved \cup {None}
       /\ doubtful' \subseteq doubtful /\ UNCHANGED <<Follower!serverVars, ui, cursor, stream, applied>>
       /\ known' = known /\ storage' \in BOOLEAN
  BY <1>0, <1>1, <1>2, <1>3, <1>5
<1> QED BY <1>4, <1>5, <1>7, <1>8, <1>9, <1>10, TabRequest

\* The other requests of the user, and the loss of any.
LEMMA TabAsks ==
    ASSUME Follower!FollowerAssumption, Follower!IndInv, Follower!Resume \/ Follower!Cancel \/ \E kind \in Follower!Kinds : Follower!Lose(kind)
    PROVE  Follower!IndInv'
<1> DEFINE req == [at |-> "sent", run |-> ui.run, version |-> ui.version, seq |-> ui.seq, view |-> None]
<1>1. /\ requests \in [Follower!Kinds -> Follower!Submissions \cup Follower!Commands \cup Follower!Loads \cup {None}]
      /\ pending \in Follower!Reserved \cup {None} /\ keys \in Nat /\ asked \in Nat /\ breaks \in Nat
      /\ asked + 1 \in Nat /\ breaks + 1 \in Nat /\ ui \in Follower!States
  BY TabFacts
<1>2. "submit" \in Follower!Kinds /\ "resume" \in Follower!Kinds /\ "cancel" \in Follower!Kinds
  BY DEF Follower!Kinds
<1>0. storage \in BOOLEAN BY DEF Follower!IndInv, Follower!TypeOK, Follower!TripOK
<1>3. ASSUME runs' = runs, pending' = pending, doubtful' = doubtful, storage' = storage,
             \/ requests'["submit"] = requests["submit"] \/ requests'["submit"] = None
      PROVE  Follower!KeyInv'
  <2>1. TabGrows /\ Len(runs') = Len(runs) BY <1>3, TabIdle
  <2> QED BY <1>3, <2>1, TabKeysKept
<1>4. ASSUME Follower!Resume \/ Follower!Cancel PROVE Follower!IndInv'
  <2>1. ui.life # "idle" BY <1>4 DEF Follower!Resume, Follower!Cancel, Follower!Busy
  <2>2. ui.run # None /\ ui.run \in Follower!RunIds BY <2>1 DEF Follower!IndInv, Follower!KnownInv
  <2>3. ui.run \in Follower!Ids /\ ui.version \in Nat /\ ui.seq \in Nat
    BY <1>1, <2>2 DEF Follower!States
  <2>4. req \in Follower!Commands /\ req.at = "sent" /\ req.run = ui.run /\ req.seq = ui.seq
    BY <2>3 DEF Follower!Commands
  <2> HIDE DEF req
  <2>5. /\ asked' = asked + 1
        /\ UNCHANGED <<Follower!serverVars, ui, cursor, pending, stream, keys, breaks, applied, doubtful>>
        /\ known' = known /\ storage' = storage
    BY <1>4 DEF Follower!Resume, Follower!Cancel, Follower!tripVars
  <2>6. PICK k \in {"resume", "cancel"} : requests' = [requests EXCEPT ![k] = req]
    BY <1>4 DEF Follower!Resume, Follower!Cancel, Follower!Send, req
  <2>7. k \in Follower!Kinds /\ k # "submit" /\ req \in Follower!Requests(k)
    BY <1>2, <2>4 DEF Follower!Requests
  <2>8. requests'["submit"] = requests["submit"] BY <1>1, <1>2, <2>6, <2>7
  <2>9. Follower!KeyInv' BY <1>3, <2>5, <2>8 DEF Follower!serverVars
  <2> QED BY <1>0, <1>1, <2>2, <2>4, <2>5, <2>6, <2>7, <2>9, TabRequest
<1>5. ASSUME NEW kind \in Follower!Kinds, Follower!Lose(kind) PROVE Follower!IndInv'
  <2>1. /\ requests' = [requests EXCEPT ![kind] = None] /\ breaks' = breaks + 1
        /\ UNCHANGED <<Follower!serverVars, ui, cursor, pending, stream, keys, asked, applied, doubtful>>
        /\ known' = known /\ storage' = storage
    BY <1>5 DEF Follower!Lose, Follower!Done, Follower!tripVars
  <2>2. requests'["submit"] = requests["submit"] \/ requests'["submit"] = None
    BY <1>1, <1>2, <2>1
  <2>3. Follower!KeyInv' BY <1>3, <2>1, <2>2 DEF Follower!serverVars
  <2> QED BY <1>0, <1>1, <2>1, <2>3, TabRequest
<1> QED BY <1>4, <1>5

\* After a reload the stored cursor is the tab's.
LEMMA TabReload ==
    ASSUME Follower!FollowerAssumption, Follower!IndInv, Follower!Reload
    PROVE  Follower!IndInv'
<1> DEFINE req == [at |-> "sent", run |-> cursor.run, seq |-> cursor.seq, view |-> None]
<1>1. /\ Follower!TripOK /\ keys \in Nat /\ asked \in Nat /\ breaks + 1 \in Nat
      /\ applied \in [Follower!Ids -> SUBSET Nat] /\ doubtful \subseteq Follower!Ids
      /\ pending \in Follower!Reserved \cup {None} /\ Follower!RunIds \subseteq Follower!Ids
  BY TabFacts
<1>0. Follower!TripOK'
  BY DEF Follower!Reload, Follower!serverVars, Follower!IndInv, Follower!TypeOK, Follower!TripOK
<1>2. /\ runs' = runs /\ storage' = storage /\ keys' = keys /\ asked' = asked
      /\ breaks' = breaks + 1 /\ applied' = applied /\ doubtful' = doubtful /\ pending' = pending
      /\ ui' = Follower!EmptyUi /\ stream' = None
      /\ requests' = [k \in Follower!Kinds |-> IF k = "load" /\ cursor # None THEN req ELSE None]
  BY DEF Follower!Reload, Follower!serverVars, Follower!Dispatch
<1>3. cursor' = cursor BY DEF Follower!Reload, Follower!Dispatch, Follower!EmptyUi
<1>4. ui' \in Follower!States /\ ui'.run = None /\ ui'.life = "idle"
  BY <1>2 DEF Follower!EmptyUi, Follower!States
<1>5. TabGrows /\ Len(runs') = Len(runs) /\ Follower!RunIds' = Follower!RunIds BY <1>2, TabIdle
<1>6. ASSUME cursor # None PROVE TabSound("load")
  <2>1. /\ cursor \in Follower!Cursors /\ cursor.run \in Follower!RunIds
        /\ 1 .. cursor.seq \subseteq applied[cursor.run]
    BY <1>6 DEF Follower!IndInv, Follower!TypeOK, Follower!KnownInv, Follower!SeenInv, Follower!Shown
  <2>2. cursor.run \in Follower!Ids /\ cursor.seq \in Nat BY <2>1 DEF Follower!Cursors
  <2>3. req \in Follower!Loads /\ req.at = "sent" /\ req.run = cursor.run /\ req.seq = cursor.seq
    BY <2>2 DEF Follower!Loads
  <2>4. requests'["load"] = req BY <1>2, <1>6 DEF Follower!Kinds
  <2> HIDE DEF req
  <2> QED BY <2>1, <2>3, <2>4 DEF TabSound, Follower!Requests
<1>7. \A k \in Follower!Kinds : requests'[k] = None \/ TabSound(k) BY <1>2, <1>6
<1>8. requests' = [k \in Follower!Kinds |-> requests'[k]] BY <1>2
<1>9. Follower!StreamInv' BY <1>2 DEF Follower!StreamInv
<1>10. Follower!KeyInv'
  <2>1. requests'["submit"] = None BY <1>2 DEF Follower!Kinds
  <2> QED BY <1>2, <1>5, <2>1, TabKeysKept
<1> QED BY <1>0, <1>1, <1>2, <1>3, <1>4, <1>5, <1>7, <1>8, <1>9, <1>10, TabStep

\* Editing changes the Trip, and perhaps the tab's copy of it.
LEMMA TabEdits ==
    ASSUME Follower!FollowerAssumption, Follower!IndInv, \E t \in Follower!Trips : Follower!Edit(t)
    PROVE  Follower!IndInv'
<1> PICK t \in Follower!Trips : Follower!Edit(t) OBVIOUS
<1>1. /\ requests = [k \in Follower!Kinds |-> requests[k]] /\ asked + 1 \in Nat /\ keys \in Nat
      /\ breaks \in Nat /\ applied \in [Follower!Ids -> SUBSET Nat] /\ doubtful \subseteq Follower!Ids
      /\ pending \in Follower!Reserved \cup {None} /\ stream \in Follower!Streams \cup {None}
      /\ stream # None => stream.run \in Follower!RunIds
  BY TabFacts
<1>2. /\ runs' = runs /\ storage' = storage /\ ui' = ui /\ cursor' = cursor /\ pending' = pending
      /\ stream' = stream /\ requests' = requests /\ keys' = keys /\ breaks' = breaks
      /\ applied' = applied /\ doubtful' = doubtful /\ asked' = asked + 1 /\ trip' = t
      /\ known' \in {t, known}
  BY DEF Follower!Edit
<1>3. t \in Follower!TripRows
  <2>1. Follower!Published \subseteq Nat BY DEF Follower!Published, Follower!RunIds
  <2>2. Versions \subseteq Nat BY DEF Follower!FollowerAssumption
  <2>3. CASE t \in [title : Titles, plan : {0}, version : {0}] BY <2>3 DEF Follower!TripRows
  <2>4. CASE t \in [title : Titles, plan : Follower!Published, version : Versions]
    <3> HIDE DEF Follower!Published
    <3> QED BY <2>1, <2>2, <2>4 DEF Follower!TripRows
  <2> QED BY <2>3, <2>4 DEF Follower!Trips
<1>4. Follower!TripOK' BY <1>2, <1>3 DEF Follower!IndInv, Follower!TypeOK, Follower!TripOK
<1>5. TabGrows /\ Len(runs') = Len(runs) /\ Follower!RunIds' = Follower!RunIds BY <1>2, TabIdle
<1>6. Follower!StreamInv' BY <1>2, <1>5, TabStreamKept
<1>7. Follower!KeyInv' BY <1>2, <1>5, TabKeysKept
<1> QED BY <1>1, <1>2, <1>4, <1>5, <1>6, <1>7, TabStep

\* startStream: the tab shows the Run of the view, and its stream has nothing on its way.
LEMMA TabStart ==
    ASSUME Follower!FollowerAssumption, Follower!IndInv, NEW view \in Follower!Views, view.run \in Follower!RunIds, NEW seq \in Nat,
           Follower!StartStream(view, seq)
    PROVE  /\ ui' \in Follower!States /\ ui'.run = view.run /\ ui'.run # None /\ ui'.seq = seq
           /\ cursor' = [run |-> ui'.run, seq |-> ui'.seq]
           /\ stream' \in Follower!Streams \cup {None} /\ Follower!StreamInv'
           /\ stream' # None => stream'.run = view.run
<1> DEFINE u == [run |-> view.run, life |-> view.life, seq |-> seq, version |-> view.version,
                 closed |-> (ui.run = view.run /\ ui.closed) \/ view.life \in Follower!Terminal]
           s == [run |-> view.run, at |-> "backoff", sent |-> 0, listed |-> FALSE, wire |-> <<>>]
<1>1. view.run \in Follower!Ids /\ view.life \in Follower!Lives /\ view.version \in Nat
  BY DEF Follower!Views
<1>2. view.run # None BY <1>1 DEF Follower!Ids, Follower!FollowerAssumption
<1>3. u \in Follower!States /\ u.run = view.run /\ u.seq = seq BY <1>1 DEF Follower!States
<1>4. s \in Follower!Streams /\ s.run = view.run /\ s.at = "backoff" /\ s.wire = <<>> /\ Len(s.wire) = 0
  BY <1>1 DEF Follower!Streams
<1>5. ui' = u BY DEF Follower!StartStream, Follower!Dispatch, Follower!Snapshot
<1>6. cursor' = [run |-> u.run, seq |-> u.seq]
  BY <1>2, <1>3, <1>5 DEF Follower!StartStream, Follower!Dispatch
<1>7. stream' = None \/ stream' = s BY DEF Follower!StartStream
<1> HIDE DEF u, s
<1>8. Follower!StreamInv' BY <1>3, <1>4, <1>5, <1>7 DEF Follower!StreamInv
<1> QED BY <1>2, <1>3, <1>4, <1>5, <1>6, <1>7, <1>8

\* A request has been answered, and the tab shows what the answer says.
LEMMA TabTaken ==
    ASSUME Follower!FollowerAssumption, Follower!IndInv, UNCHANGED <<Follower!serverVars, Follower!tripVars, Follower!bounds, applied>>,
           NEW k \in Follower!Kinds, requests' = [requests EXCEPT ![k] = None],
           ui' \in Follower!States, ui'.run \in Follower!RunIds, ui'.run # None,
           1 .. ui'.seq \subseteq applied[ui'.run],
           cursor' = [run |-> ui'.run, seq |-> ui'.seq],
           pending' \in Follower!Reserved \cup {None}, doubtful' \subseteq doubtful,
           stream' \in Follower!Streams \cup {None}, stream' # None => stream'.run \in Follower!RunIds,
           Follower!StreamInv', Follower!KeyInv'
    PROVE  Follower!IndInv'
<1>1. /\ requests \in [Follower!Kinds -> Follower!Submissions \cup Follower!Commands \cup Follower!Loads \cup {None}]
      /\ Follower!TripOK /\ keys \in Nat /\ asked \in Nat /\ breaks \in Nat
      /\ applied \in [Follower!Ids -> SUBSET Nat] /\ doubtful \subseteq Follower!Ids
  BY TabFacts
<1>2. /\ runs' = runs /\ Follower!TripOK' /\ keys' = keys /\ asked' = asked
      /\ breaks' = breaks /\ applied' = applied
  BY TabTrip DEF Follower!serverVars, Follower!tripVars, Follower!bounds
<1>3. TabGrows /\ Follower!RunIds' = Follower!RunIds BY <1>2, TabIdle
<1>4. /\ \A j \in Follower!Kinds : requests'[j] = requests[j] \/ requests'[j] = None
      /\ requests' = [j \in Follower!Kinds |-> requests'[j]]
  BY <1>1
<1>5. doubtful' \subseteq Follower!Ids BY <1>1
<1> QED BY <1>1, <1>2, <1>3, <1>4, <1>5, TabStep

\* An answer that was refused changes only what the tab waits for.
LEMMA TabRefused ==
    ASSUME Follower!FollowerAssumption, Follower!IndInv, NEW k \in Follower!Kinds, requests' = [requests EXCEPT ![k] = None],
           UNCHANGED <<Follower!serverVars, Follower!tripVars, ui, cursor, pending, stream, Follower!bounds, applied, doubtful>>
    PROVE  Follower!IndInv'
<1>1. /\ requests \in [Follower!Kinds -> Follower!Submissions \cup Follower!Commands \cup Follower!Loads \cup {None}]
      /\ pending \in Follower!Reserved \cup {None} /\ keys \in Nat /\ asked \in Nat /\ breaks \in Nat
  BY TabFacts
<1>2. requests'["submit"] = requests["submit"] \/ requests'["submit"] = None
  BY <1>1 DEF Follower!Kinds
<1>3. TabGrows /\ Len(runs') = Len(runs) BY TabIdle DEF Follower!serverVars
<1>4. Follower!KeyInv' BY <1>2, <1>3, TabKeysKept DEF Follower!tripVars
<1>5. storage' \in BOOLEAN /\ known' = known
  BY DEF Follower!tripVars, Follower!IndInv, Follower!TypeOK, Follower!TripOK
<1> QED BY <1>1, <1>4, <1>5, TabRequest DEF Follower!bounds

\* The answers.
LEMMA TabAnswers ==
    ASSUME Follower!FollowerAssumption, Follower!IndInv, Follower!AnswerSubmit \/ Follower!AnswerResume \/ Follower!AnswerCancel \/ Follower!AnswerLoad
    PROVE  Follower!IndInv'
<1>1. /\ requests \in [Follower!Kinds -> Follower!Submissions \cup Follower!Commands \cup Follower!Loads \cup {None}]
      /\ \A k \in Follower!Kinds : requests[k] # None => requests[k] \in Follower!Requests(k)
      /\ pending \in Follower!Reserved \cup {None} /\ stream \in Follower!Streams \cup {None}
      /\ (stream # None => stream.run \in Follower!RunIds) /\ Follower!RunIds \subseteq Follower!Ids
      /\ applied \in [Follower!Ids -> SUBSET Nat]
  BY TabFacts
<1>2. "submit" \in Follower!Kinds /\ "resume" \in Follower!Kinds /\ "cancel" \in Follower!Kinds /\ "load" \in Follower!Kinds
  BY DEF Follower!Kinds
<1>3. ASSUME NEW k \in Follower!Kinds \ {"submit"}, requests[k] # None, requests[k].at = "done"
      PROVE  /\ requests[k].view \in Follower!Views /\ requests[k].view.run \in Follower!RunIds
             /\ requests[k].view.run = requests[k].run
             /\ requests[k].seq \in Nat
             /\ 1 .. requests[k].seq \subseteq applied[requests[k].run]
  <2>1. requests[k] \in Follower!Commands \cup Follower!Loads BY <1>1, <1>3 DEF Follower!Requests
  <2>2. requests[k].seq \in Nat /\ requests[k].view \in Follower!Views \cup {None}
    BY <2>1 DEF Follower!Commands, Follower!Loads
  <2>3. /\ requests[k].view # None /\ requests[k].view.run \in Follower!RunIds
        /\ requests[k].view.run = requests[k].run
    BY <1>3 DEF Follower!IndInv, Follower!KnownInv
  <2>4. 1 .. requests[k].seq \subseteq applied[requests[k].run]
    BY <1>3 DEF Follower!IndInv, Follower!SeenInv, Follower!Shown
  <2> QED BY <2>2, <2>3, <2>4
<1>4. ASSUME runs' = runs, pending' = pending, doubtful' = doubtful, storage' = storage, NEW k \in Follower!Kinds,
             requests' = [requests EXCEPT ![k] = None]
      PROVE  Follower!KeyInv'
  <2>1. TabGrows /\ Len(runs') = Len(runs) BY <1>4, TabIdle
  <2>2. requests'["submit"] = requests["submit"] \/ requests'["submit"] = None
    BY <1>1, <1>2, <1>4
  <2> QED BY <1>4, <2>1, <2>2, TabKeysKept
<1>5. ASSUME NEW k \in {"resume", "load"}, requests[k] # None, requests[k].at = "done",
             requests' = [requests EXCEPT ![k] = None], Follower!StartStream(requests[k].view, requests[k].seq),
             UNCHANGED <<Follower!serverVars, Follower!tripVars, pending, Follower!bounds, applied, doubtful>>
      PROVE  Follower!IndInv'
  <2>1. k \in Follower!Kinds \ {"submit"} BY <1>2
  <2> DEFINE q == requests[k]
  <2>2. /\ q.view \in Follower!Views /\ q.view.run \in Follower!RunIds /\ q.view.run = q.run /\ q.seq \in Nat
        /\ 1 .. q.seq \subseteq applied[q.run]
    BY <1>3, <1>5, <2>1
  <2> HIDE DEF q
  <2>3. /\ ui' \in Follower!States /\ ui'.run = q.view.run /\ ui'.run # None /\ ui'.seq = q.seq
        /\ cursor' = [run |-> ui'.run, seq |-> ui'.seq]
        /\ stream' \in Follower!Streams \cup {None} /\ Follower!StreamInv'
        /\ stream' # None => stream'.run = q.view.run
    BY <1>5, <2>2, TabStart DEF q
  <2>4. Follower!KeyInv' BY <1>4, <1>5, <2>1 DEF Follower!serverVars, Follower!tripVars
  <2>5. /\ UNCHANGED <<Follower!serverVars, Follower!tripVars, Follower!bounds, applied>> /\ pending' \in Follower!Reserved \cup {None}
        /\ doubtful' \subseteq doubtful /\ 1 .. ui'.seq \subseteq applied[ui'.run]
        /\ ui'.run \in Follower!RunIds /\ (stream' # None => stream'.run \in Follower!RunIds)
    BY <1>1, <1>5, <2>2, <2>3
  <2> QED BY <1>5, <2>1, <2>3, <2>4, <2>5, TabTaken
<1>6. CASE Follower!AnswerLoad
  <2>1. requests["load"] # None /\ requests["load"].at \in {"done", "refused"}
    BY <1>6 DEF Follower!AnswerLoad, Follower!Answered
  <2>2. requests["load"] \in Follower!Loads BY <1>1, <1>2, <2>1 DEF Follower!Requests
  <2>3. requests["load"].at = "done" BY <2>1, <2>2 DEF Follower!Loads
  <2> QED BY <1>5, <1>6, <2>1, <2>3 DEF Follower!AnswerLoad, Follower!Done
<1>7. CASE Follower!AnswerResume
  <2>1. requests["resume"] # None /\ requests' = [requests EXCEPT !["resume"] = None]
        /\ UNCHANGED <<Follower!serverVars, Follower!tripVars, pending, Follower!bounds, applied, doubtful>>
    BY <1>7 DEF Follower!AnswerResume, Follower!Answered, Follower!Done
  <2>2. CASE requests["resume"].at = "done" /\ Follower!StartStream(requests["resume"].view, requests["resume"].seq)
    BY <1>5, <2>1, <2>2
  <2>3. CASE UNCHANGED <<ui, cursor, stream>> BY <1>2, <2>1, <2>3, TabRefused
  <2> QED BY <1>7, <2>2, <2>3 DEF Follower!AnswerResume
<1>8. CASE Follower!AnswerCancel
  <2> DEFINE q == requests["cancel"]
             u == Follower!Snapshot(q.view, q.seq)
  <2>1. q # None /\ requests' = [requests EXCEPT !["cancel"] = None]
        /\ UNCHANGED <<Follower!serverVars, Follower!tripVars, pending, stream, Follower!bounds, applied, doubtful>>
    BY <1>8 DEF Follower!AnswerCancel, Follower!Answered, Follower!Done
  <2>2. CASE UNCHANGED <<ui, cursor>> BY <1>2, <2>1, <2>2, TabRefused
  <2>3. CASE q.at = "done" /\ Follower!Dispatch(u)
    <3>1. /\ q.view \in Follower!Views /\ q.view.run \in Follower!RunIds /\ q.view.run = q.run /\ q.seq \in Nat
          /\ 1 .. q.seq \subseteq applied[q.run]
      BY <1>2, <1>3, <2>1, <2>3
    <3>2. q.view.run \in Follower!Ids /\ q.view.life \in Follower!Lives /\ q.view.version \in Nat
      BY <3>1 DEF Follower!Views
    <3>3. q.view.run # None BY <3>2 DEF Follower!Ids, Follower!FollowerAssumption
    <3>4. ui.closed \in BOOLEAN BY TabFacts DEF Follower!States
    <3>5. u \in Follower!States /\ u.run = q.run /\ u.seq = q.seq
      BY <3>1, <3>2, <3>4 DEF Follower!Snapshot, Follower!States
    <3> HIDE DEF u
    <3>6. ui' = u /\ cursor' = [run |-> u.run, seq |-> u.seq] /\ u.run # None
      BY <2>3, <3>1, <3>3, <3>5 DEF Follower!Dispatch
    <3>7. requests'["cancel"] = None BY <1>1, <1>2, <2>1
    <3>8. Follower!StreamInv'
      <4> SUFFICES ASSUME stream # None PROVE Follower!StreamInv' BY <2>1 DEF Follower!StreamInv
      <4>1. Follower!StreamInv /\ stream' = stream /\ runs' = runs /\ applied' = applied
        BY <2>1 DEF Follower!IndInv, Follower!serverVars
      <4>2. q.run = stream.run => ui.run = stream.run BY <2>1, <4>1 DEF Follower!StreamInv
      <4>3. ui'.run = stream.run => (stream.at # "backoff" => Follower!Shown(stream.run, stream.sent - Len(stream.wire)))
        BY <3>5, <3>6, <4>1, <4>2 DEF Follower!StreamInv
      <4>4. \A i \in 1 .. Len(stream.wire) :
            /\ stream.wire[i] = (stream.sent - Len(stream.wire)) + i
            /\ stream.wire[i] \in 1 .. Len(runs[stream.run].log)
        BY <4>1 DEF Follower!StreamInv
      <4> QED BY <3>7, <4>1, <4>3, <4>4 DEF Follower!StreamInv, Follower!Shown
    <3>9. Follower!KeyInv' BY <1>2, <1>4, <2>1 DEF Follower!serverVars, Follower!tripVars
    <3>10. /\ UNCHANGED <<Follower!serverVars, Follower!tripVars, Follower!bounds, applied>> /\ pending' \in Follower!Reserved \cup {None}
           /\ doubtful' \subseteq doubtful /\ 1 .. ui'.seq \subseteq applied[ui'.run]
           /\ ui' \in Follower!States /\ ui'.run # None /\ cursor' = [run |-> ui'.run, seq |-> ui'.seq]
           /\ ui'.run \in Follower!RunIds /\ (stream' # None => stream'.run \in Follower!RunIds)
           /\ stream' \in Follower!Streams \cup {None}
      BY <1>1, <2>1, <3>1, <3>5, <3>6
    <3> HIDE DEF q
    <3> QED BY <1>2, <2>1, <3>8, <3>9, <3>10, TabTaken
  <2> QED BY <1>8, <2>2, <2>3 DEF Follower!AnswerCancel
<1>9. CASE Follower!AnswerSubmit
  <2> DEFINE q == requests["submit"]
  <2>1. q # None /\ requests' = [requests EXCEPT !["submit"] = None]
        /\ UNCHANGED <<Follower!serverVars, Follower!tripVars, Follower!bounds, applied>>
    BY <1>9 DEF Follower!AnswerSubmit, Follower!Answered, Follower!Done
  <2>2. CASE UNCHANGED <<ui, cursor, stream, pending, doubtful>>
    BY <1>2, <2>1, <2>2, TabRefused
  <2>3. CASE /\ q.at = "done" /\ Follower!StartStream(q.view, 0)
             /\ pending' = (IF pending # None /\ pending.key = q.key THEN None ELSE pending)
             /\ doubtful' = doubtful \ {q.view.run}
    <3>1. q \in Follower!Submissions BY <1>1, <1>2, <2>1 DEF Follower!Requests
    <3>2. q.view # None /\ q.view.run \in Follower!RunIds /\ runs[q.view.run].key = q.key
      BY <1>2, <2>1, <2>3 DEF Follower!IndInv, Follower!KnownInv
    <3>3. q.view \in Follower!Views /\ q.view.run \in Follower!Ids
      BY <1>1, <3>1, <3>2 DEF Follower!Submissions
    <3>4. storage => pending = [command |-> Follower!Fingerprint(q.input), key |-> q.key]
      BY <2>1 DEF Follower!IndInv, Follower!KeyInv
    <3>5. storage => doubtful' = {}
      <4>1. ASSUME storage, NEW r \in doubtful PROVE r = q.view.run
        <5>1. /\ r \in Follower!RunIds
              /\ pending = [command |-> Follower!Fingerprint(runs[r].input), key |-> runs[r].key]
          BY <4>1 DEF Follower!IndInv, Follower!KeyInv
        <5>2. runs[r].key = runs[q.view.run].key BY <3>2, <3>4, <4>1, <5>1
        <5> QED BY <3>2, <5>1, <5>2 DEF Follower!IndInv, Follower!KeyInv
      <4> QED BY <2>3, <4>1
    <3>6. Follower!KeyInv'
      <4>1. requests'["submit"] = None BY <1>1, <1>2, <2>1
      <4>2. \A r, s \in Follower!RunIds : runs[r].key = runs[s].key => r = s
        BY DEF Follower!IndInv, Follower!KeyInv
      <4>3. runs' = runs /\ Follower!RunIds' = Follower!RunIds /\ storage' = storage
        BY <2>1 DEF Follower!serverVars, Follower!tripVars, Follower!RunIds
      <4>4. doubtful' \subseteq Follower!RunIds BY <2>3 DEF Follower!IndInv, Follower!KeyInv
      <4> QED BY <3>5, <4>1, <4>2, <4>3, <4>4 DEF Follower!KeyInv
    <3>7. pending' \in Follower!Reserved \cup {None} BY <1>1, <2>3
    <3> HIDE DEF q
    <3>8. /\ ui' \in Follower!States /\ ui'.run = q.view.run /\ ui'.run # None /\ ui'.seq = 0
          /\ cursor' = [run |-> ui'.run, seq |-> ui'.seq]
          /\ stream' \in Follower!Streams \cup {None} /\ Follower!StreamInv'
          /\ stream' # None => stream'.run = q.view.run
      BY <2>3, <3>2, <3>3, TabStart
    <3>9. /\ doubtful' \subseteq doubtful /\ 1 .. ui'.seq \subseteq applied[ui'.run]
          /\ ui'.run \in Follower!RunIds /\ (stream' # None => stream'.run \in Follower!RunIds)
      BY <2>3, <3>2, <3>8
    <3> QED BY <1>2, <2>1, <3>6, <3>7, <3>8, <3>9, TabTaken
  <2> QED BY <1>9, <2>2, <2>3 DEF Follower!AnswerSubmit
<1> QED BY <1>6, <1>7, <1>8, <1>9

\* A step of the stream: the requests and the commands are not concerned.
LEMMA TabFollows ==
    ASSUME Follower!FollowerAssumption, Follower!IndInv, UNCHANGED Follower!streamVars, known' \in Follower!TripRows, breaks' \in Nat,
           applied' \in [Follower!Ids -> SUBSET Nat], \A r \in Follower!Ids : applied[r] \subseteq applied'[r],
           \/ ui' = ui /\ cursor' = cursor
           \/ /\ Follower!Dispatch(ui') /\ ui' \in Follower!States /\ ui'.run = ui.run
              /\ IF ui'.run = None THEN ui'.life = "idle" ELSE 1 .. ui'.seq \subseteq applied'[ui'.run],
           stream # None, stream' = None \/ (stream' \in Follower!Streams /\ stream'.run = stream.run),
           Follower!StreamInv'
    PROVE  Follower!IndInv'
<1>1. /\ requests \in [Follower!Kinds -> Follower!Submissions \cup Follower!Commands \cup Follower!Loads \cup {None}]
      /\ Follower!TripOK /\ keys \in Nat /\ asked \in Nat /\ doubtful \subseteq Follower!Ids
      /\ pending \in Follower!Reserved \cup {None} /\ requests = [k \in Follower!Kinds |-> requests[k]]
      /\ stream.run \in Follower!RunIds
  BY TabFacts
<1>2. /\ runs' = runs /\ pending' = pending /\ requests' = requests
      /\ keys' = keys /\ asked' = asked /\ doubtful' = doubtful /\ storage' = storage /\ Follower!TripOK'
  BY DEF Follower!streamVars, Follower!serverVars, Follower!IndInv, Follower!TypeOK, Follower!TripOK
<1>3. TabGrows /\ Len(runs') = Len(runs) /\ Follower!RunIds' = Follower!RunIds BY <1>2, TabIdle
<1>4. Follower!KeyInv' BY <1>2, <1>3, TabKeysKept
<1>5. ui.run # None => ui.run \in Follower!RunIds BY DEF Follower!IndInv, Follower!KnownInv
<1>6. \/ ui' = ui
      \/ /\ ui' \in Follower!States
         /\ IF ui'.run = None THEN ui'.life = "idle"
            ELSE ui'.run \in Follower!RunIds' /\ 1 .. ui'.seq \subseteq applied'[ui'.run]
  BY <1>3, <1>5
<1>7. \/ cursor' = cursor
      \/ ui' \in Follower!States /\ ui'.run # None /\ cursor' = [run |-> ui'.run, seq |-> ui'.seq]
  BY DEF Follower!Dispatch
<1>8. stream' \in Follower!Streams \cup {None} /\ (stream' # None => stream'.run \in Follower!RunIds')
  BY <1>1, <1>3
<1> QED BY <1>1, <1>2, <1>3, <1>4, <1>6, <1>7, <1>8, TabStep

\* Closing or opening the view of a stream moves no cursor.
LEMMA TabClosed ==
    ASSUME Follower!FollowerAssumption, Follower!IndInv, NEW b \in BOOLEAN, Follower!Dispatch([ui EXCEPT !.closed = b])
    PROVE  /\ ui' \in Follower!States /\ ui'.run = ui.run /\ ui'.seq = ui.seq /\ Follower!Dispatch(ui')
           /\ IF ui'.run = None THEN ui'.life = "idle" ELSE 1 .. ui'.seq \subseteq applied[ui'.run]
<1>1. ui \in Follower!States BY TabFacts
<1>2. ui' = [ui EXCEPT !.closed = b] /\ Follower!Dispatch(ui') BY DEF Follower!Dispatch
<1>3. ui' \in Follower!States /\ ui'.run = ui.run /\ ui'.seq = ui.seq /\ ui'.life = ui.life
  BY <1>1, <1>2 DEF Follower!States
<1>4. IF ui.run = None THEN ui.life = "idle" ELSE 1 .. ui.seq \subseteq applied[ui.run]
  BY DEF Follower!IndInv, Follower!KnownInv, Follower!SeenInv, Follower!Shown
<1> QED BY <1>2, <1>3, <1>4

\* followRunEvents' loop, and what happens to its connection.
LEMMA TabLoop ==
    ASSUME Follower!FollowerAssumption, Follower!IndInv, Follower!Connect \/ Follower!CheckRun \/ Follower!EndOfStream \/ Follower!Break
    PROVE  Follower!IndInv'
<1>1. stream # None /\ UNCHANGED Follower!streamVars /\ applied' = applied /\ runs' = runs
      /\ requests' = requests /\ known' = known
  BY DEF Follower!Connect, Follower!CheckRun, Follower!EndOfStream, Follower!Break, Follower!Open, Follower!streamVars, Follower!serverVars
<1>0. known' \in Follower!TripRows BY <1>1 DEF Follower!IndInv, Follower!TypeOK, Follower!TripOK
<1>2. /\ stream \in Follower!Streams /\ stream.run \in Follower!RunIds /\ breaks \in Nat /\ breaks + 1 \in Nat
      /\ applied \in [Follower!Ids -> SUBSET Nat] /\ ui \in Follower!States
  BY <1>1, TabFacts
<1>3. ui.seq \in Nat /\ TRUE \in BOOLEAN /\ FALSE \in BOOLEAN BY <1>2 DEF Follower!States
<1>4. /\ \A i \in 1 .. Len(stream.wire) :
            /\ stream.wire[i] = (stream.sent - Len(stream.wire)) + i
            /\ stream.wire[i] \in 1 .. Len(runs[stream.run].log)
      /\ ui.run = stream.run =>
            (stream.at # "backoff" => 1 .. stream.sent - Len(stream.wire) \subseteq applied[stream.run])
      /\ ui.run # stream.run => (requests["cancel"] # None => requests["cancel"].run # stream.run)
  BY <1>1 DEF Follower!IndInv, Follower!StreamInv, Follower!Shown
<1>5. breaks' \in Nat
  BY <1>2 DEF Follower!Connect, Follower!CheckRun, Follower!EndOfStream, Follower!Break
<1>6. CASE stream' = None
  <2>1. Follower!Dispatch([ui EXCEPT !.closed = TRUE])
    <3>1. <<>> \in Seq(Nat) OBVIOUS
    <3>2. \A s : s \in Follower!Streams => s # None BY DEF Follower!FollowerAssumption
    <3>3. \A x \in {"list", "ended", "backoff"} : [stream EXCEPT !.at = x] # None
      BY <1>2, <3>2 DEF Follower!Streams
    <3>4. [stream EXCEPT !.at = "backoff", !.wire = <<>>] # None
      BY <1>2, <3>1, <3>2 DEF Follower!Streams
    <3>5. [stream EXCEPT !.at = "list", !.sent = ui.seq, !.wire = <<>>] # None
      BY <1>2, <1>3, <3>1, <3>2 DEF Follower!Streams
    <3> QED
      BY <1>6, <3>3, <3>4, <3>5 DEF Follower!Connect, Follower!CheckRun, Follower!EndOfStream, Follower!Break
  <2>2. /\ ui' \in Follower!States /\ ui'.run = ui.run /\ Follower!Dispatch(ui')
        /\ IF ui'.run = None THEN ui'.life = "idle" ELSE 1 .. ui'.seq \subseteq applied[ui'.run]
    BY <1>3, <2>1, TabClosed
  <2>3. Follower!StreamInv' BY <1>6 DEF Follower!StreamInv
  <2> QED BY <1>0, <1>1, <1>2, <1>5, <1>6, <2>2, <2>3, TabFollows
<1>7. ASSUME UNCHANGED <<ui, cursor>>, NEW at \in {"backoff", "list", "ended"},
             at = "backoff" \/ stream.at # "backoff", stream' = [stream EXCEPT !.at = at]
      PROVE  Follower!IndInv'
  <2>1. /\ stream' \in Follower!Streams /\ stream'.run = stream.run /\ stream'.wire = stream.wire
        /\ stream'.sent = stream.sent /\ stream'.at = at
    BY <1>2, <1>7 DEF Follower!Streams
  <2>2. Follower!StreamInv' BY <1>1, <1>4, <1>7, <2>1 DEF Follower!StreamInv, Follower!Shown
  <2>3. ui' = ui /\ cursor' = cursor BY <1>7
  <2> QED BY <1>0, <1>1, <1>2, <1>5, <2>1, <2>2, <2>3, TabFollows
<1>8. CASE Follower!Break
  <2>1. stream' = [stream EXCEPT !.at = "backoff", !.wire = <<>>] /\ ui' = ui /\ cursor' = cursor
    BY <1>8 DEF Follower!Break
  <2>2. /\ stream' \in Follower!Streams /\ stream'.run = stream.run /\ stream'.wire = <<>>
        /\ stream'.at = "backoff"
    <3>1. <<>> \in Seq(Nat) OBVIOUS
    <3> QED BY <1>2, <2>1, <3>1 DEF Follower!Streams
  <2>3. Len(stream'.wire) = 0 BY <2>2
  <2>4. Follower!StreamInv' BY <1>1, <1>4, <2>1, <2>2, <2>3 DEF Follower!StreamInv
  <2> QED BY <1>0, <1>1, <1>2, <1>5, <2>1, <2>2, <2>4, TabFollows
<1>9. CASE Follower!Connect /\ stream' # None
  <2>1. stream' = [stream EXCEPT !.at = "list", !.sent = ui.seq, !.wire = <<>>]
        /\ Follower!Dispatch([ui EXCEPT !.closed = FALSE])
    BY <1>9 DEF Follower!Connect
  <2>2. /\ stream' \in Follower!Streams /\ stream'.run = stream.run /\ stream'.wire = <<>>
        /\ stream'.sent = ui.seq
    <3>1. <<>> \in Seq(Nat) OBVIOUS
    <3> QED BY <1>2, <1>3, <2>1, <3>1 DEF Follower!Streams
  <2>3. /\ ui' \in Follower!States /\ ui'.run = ui.run /\ ui'.seq = ui.seq /\ Follower!Dispatch(ui')
        /\ IF ui'.run = None THEN ui'.life = "idle" ELSE 1 .. ui'.seq \subseteq applied[ui'.run]
    BY <1>3, <2>1, TabClosed
  <2>4. Len(stream'.wire) = 0 /\ stream'.sent - 0 = ui.seq BY <1>3, <2>2
  <2>5. stream.run \in Follower!Ids BY <1>2 DEF Follower!Streams
  <2>6. stream.run # None BY <2>5 DEF Follower!Ids, Follower!FollowerAssumption
  <2>7. ui'.run = stream.run => 1 .. ui.seq \subseteq applied[stream.run] BY <2>3, <2>6
  <2>8. Follower!StreamInv'
    BY <1>1, <1>4, <2>2, <2>3, <2>4, <2>7 DEF Follower!StreamInv, Follower!Shown
  <2> QED BY <1>0, <1>1, <1>2, <1>5, <2>2, <2>3, <2>8, TabFollows
<1>10. CASE Follower!CheckRun
  <2>1. UNCHANGED <<ui, cursor>> /\ stream.at = "check"
        /\ \E at \in {"ended", "list"} : stream' = [stream EXCEPT !.at = at]
    BY <1>10 DEF Follower!CheckRun
  <2> QED BY <1>7, <2>1
<1>11. CASE Follower!EndOfStream /\ stream' # None
  <2>1. UNCHANGED <<ui, cursor>> /\ stream' = [stream EXCEPT !.at = "backoff"]
    BY <1>11 DEF Follower!EndOfStream
  <2> QED BY <1>7, <2>1
<1> QED BY <1>6, <1>8, <1>9, <1>10, <1>11

\* What is added to the wire comes after what is on it.
LEMMA TabWire ==
    ASSUME NEW s \in Seq(Nat), NEW t \in Seq(Nat)
    PROVE  /\ s \o t \in Seq(Nat) /\ Len(s \o t) = Len(s) + Len(t)
           /\ \A i \in 1 .. Len(s) + Len(t) : (s \o t)[i] = IF i <= Len(s) THEN s[i] ELSE t[i - Len(s)]
OBVIOUS

\* list_events: the events after the last one sent, in order.
LEMMA TabLists ==
    ASSUME Follower!FollowerAssumption, Follower!IndInv, Follower!ListEvents
    PROVE  Follower!IndInv'
<1> DEFINE n == Len(runs[stream.run].log)
           m == Len(stream.wire)
           new == IF stream.sent < n THEN n - stream.sent ELSE 0
           rows == [i \in 1 .. new |-> stream.sent + i]
           wire == stream.wire \o rows
<1>1. /\ stream # None /\ stream.at = "list" /\ UNCHANGED Follower!streamVars /\ UNCHANGED <<ui, cursor>>
      /\ breaks' = breaks /\ applied' = applied /\ runs' = runs /\ requests' = requests
      /\ known' = known
      /\ stream' = [stream EXCEPT !.at = "check", !.listed = new > 0, !.sent = @ + new, !.wire = wire]
  BY DEF Follower!ListEvents, Follower!Open, Follower!streamVars, Follower!serverVars
<1>2. /\ stream \in Follower!Streams /\ stream.run \in Follower!RunIds /\ breaks \in Nat /\ n \in Nat
      /\ applied \in [Follower!Ids -> SUBSET Nat]
  BY <1>1, TabFacts
<1>3. stream.sent \in Nat /\ stream.wire \in Seq(Nat) /\ m \in Nat BY <1>2 DEF Follower!Streams
<1>4. /\ new \in Nat /\ stream.sent + new \in Nat /\ (new > 0) \in BOOLEAN
      /\ new > 0 => stream.sent + new = n
  <2> HIDE DEF n
  <2>1. new \in Nat BY <1>2, <1>3
  <2>2. stream.sent + new \in Nat BY <1>3, <2>1
  <2>3. new > 0 => stream.sent + new = n BY <1>2, <1>3
  <2>4. (new > 0) \in BOOLEAN OBVIOUS
  <2> QED BY <2>1, <2>2, <2>3, <2>4
<1> HIDE DEF new
<1>5. rows \in Seq(Nat) /\ Len(rows) = new /\ \A i \in 1 .. new : rows[i] = stream.sent + i
  <2>1. \A i \in 1 .. new : stream.sent + i \in Nat BY <1>3, <1>4
  <2>2. rows \in [1 .. new -> Nat] BY <2>1
  <2> QED BY <1>4, <2>2
<1> HIDE DEF rows
<1>6. /\ wire \in Seq(Nat) /\ Len(wire) = m + new
      /\ \A i \in 1 .. m + new : wire[i] = IF i <= m THEN stream.wire[i] ELSE rows[i - m]
  BY <1>3, <1>5, TabWire
<1> HIDE DEF wire
<1>7. /\ stream' \in Follower!Streams /\ stream'.run = stream.run /\ stream'.wire = wire
      /\ stream'.sent = stream.sent + new
  BY <1>1, <1>2, <1>4, <1>6 DEF Follower!Streams
<1>8. /\ \A i \in 1 .. m : stream.wire[i] = (stream.sent - m) + i /\ stream.wire[i] \in 1 .. n
      /\ ui.run = stream.run => 1 .. stream.sent - m \subseteq applied[stream.run]
      /\ ui.run # stream.run => (requests["cancel"] # None => requests["cancel"].run # stream.run)
  BY <1>1 DEF Follower!IndInv, Follower!StreamInv, Follower!Shown
<1> HIDE DEF m
<1>9. ASSUME NEW i \in 1 .. m + new
      PROVE  wire[i] = ((stream.sent + new) - (m + new)) + i /\ wire[i] \in 1 .. n
  <2>1. CASE i <= m
    <3>1. i \in 1 .. m BY <1>3, <1>4, <2>1
    <3>2. wire[i] = stream.wire[i] BY <1>6, <2>1
    <3>3. wire[i] = (stream.sent - m) + i /\ wire[i] \in 1 .. n BY <1>8, <3>1, <3>2
    <3> QED BY <1>3, <1>4, <3>3
  <2>2. CASE i > m
    <3>1. i - m \in 1 .. new /\ new > 0 /\ ~(i <= m) BY <1>3, <1>4, <2>2
    <3>2. wire[i] = stream.sent + (i - m) BY <1>5, <1>6, <3>1
    <3>3. n = stream.sent + new BY <1>4, <3>1
    <3> HIDE DEF n
    <3>4. wire[i] = ((stream.sent + new) - (m + new)) + i
      <4>1. i \in Nat /\ stream.sent \in Nat /\ m \in Nat /\ new \in Nat BY <1>3, <1>4
      <4>2. \A a, b, c, d \in Nat : a + (b - c) = ((a + d) - (c + d)) + b OBVIOUS
      <4>3. stream.sent + (i - m) = ((stream.sent + new) - (m + new)) + i BY <4>1, <4>2
      <4> QED BY <3>2, <4>3
    <3>5. wire[i] \in 1 .. n BY <1>2, <1>3, <1>4, <3>1, <3>2, <3>3
    <3> QED BY <3>4, <3>5
  <2> QED BY <1>3, <1>4, <2>1, <2>2
<1>10. (stream.sent + new) - (m + new) = stream.sent - m BY <1>3, <1>4
<1>11. Follower!StreamInv'
  <2>1. \A i \in 1 .. Len(stream'.wire) :
            /\ stream'.wire[i] = (stream'.sent - Len(stream'.wire)) + i
            /\ stream'.wire[i] \in 1 .. Len(runs'[stream'.run].log)
    BY <1>1, <1>6, <1>7, <1>9
  <2>2. stream'.sent - Len(stream'.wire) = stream.sent - m BY <1>6, <1>7, <1>10
  <2>3. ui'.run = stream'.run => 1 .. stream'.sent - Len(stream'.wire) \subseteq applied'[stream'.run]
    BY <1>1, <1>7, <1>8, <2>2
  <2>4. ui'.run # stream'.run => (requests'["cancel"] # None => requests'["cancel"].run # stream'.run)
    BY <1>1, <1>7, <1>8
  <2> QED BY <2>1, <2>3, <2>4 DEF Follower!StreamInv, Follower!Shown
<1>12. ui' = ui /\ cursor' = cursor /\ breaks' \in Nat BY <1>1, <1>2
<1>13. known' \in Follower!TripRows BY <1>1 DEF Follower!IndInv, Follower!TypeOK, Follower!TripOK
<1> QED BY <1>1, <1>2, <1>7, <1>11, <1>12, <1>13, TabFollows

\* What is left of the wire when its first event has been delivered.
LEMMA TabRest ==
    ASSUME NEW w \in Seq(Nat), w # <<>>
    PROVE  /\ Tail(w) \in Seq(Nat) /\ Len(w) \in Nat /\ Len(w) >= 1 /\ Head(w) = w[1]
           /\ Len(Tail(w)) = Len(w) - 1 /\ \A i \in 1 .. Len(w) - 1 : Tail(w)[i] = w[i + 1]
OBVIOUS

\* onEvent: the event comes next, or the tab has shown it already.
LEMMA TabDelivers ==
    ASSUME Follower!FollowerAssumption, Follower!IndInv, Follower!Deliver
    PROVE  Follower!IndInv'
<1> DEFINE w == stream.wire
           m == Len(w)
           n == Head(w)
           r == stream.run
<1>1. /\ stream # None /\ stream.at # "backoff" /\ w # <<>> /\ UNCHANGED Follower!streamVars
      /\ breaks' = breaks /\ runs' = runs /\ requests' = requests
      /\ Follower!Dispatch(Follower!ApplyEvent(r, n)) /\ stream' = [stream EXCEPT !.wire = Tail(w)]
      /\ applied' = IF ui' = ui THEN applied ELSE [applied EXCEPT ![r] = @ \cup {n}]
  BY DEF Follower!Deliver, Follower!Open, Follower!streamVars, Follower!serverVars
<1>0. known' \in Follower!TripRows
  BY DEF Follower!Deliver, Follower!IndInv, Follower!TypeOK, Follower!TripOK
<1>2. /\ stream \in Follower!Streams /\ r \in Follower!RunIds /\ breaks \in Nat /\ ui \in Follower!States
      /\ applied \in [Follower!Ids -> SUBSET Nat] /\ runs[r] \in Follower!Runs
  BY <1>1, TabFacts
<1>3. r \in Follower!Ids /\ w \in Seq(Nat) /\ stream.sent \in Nat BY <1>2 DEF Follower!Streams
<1>4. /\ Tail(w) \in Seq(Nat) /\ m \in Nat /\ m >= 1 /\ n = w[1] /\ Len(Tail(w)) = m - 1
      /\ \A i \in 1 .. m - 1 : Tail(w)[i] = w[i + 1]
  BY <1>1, <1>3, TabRest
<1>5. /\ \A i \in 1 .. m : w[i] = (stream.sent - m) + i /\ w[i] \in 1 .. Len(runs[r].log)
      /\ ui.run = r => 1 .. stream.sent - m \subseteq applied[r]
      /\ ui.run # r => (requests["cancel"] # None => requests["cancel"].run # r)
  BY <1>1 DEF Follower!IndInv, Follower!StreamInv, Follower!Shown
<1>6. stream' \in Follower!Streams /\ stream'.run = r /\ stream'.wire = Tail(w) /\ stream'.sent = stream.sent
  BY <1>1, <1>2, <1>4 DEF Follower!Streams
<1>7. IF ui.run = None THEN ui.life = "idle" ELSE 1 .. ui.seq \subseteq applied[ui.run]
  BY DEF Follower!IndInv, Follower!KnownInv, Follower!SeenInv, Follower!Shown
<1>8. runs[r].log \in Seq(Follower!Lives \cup Follower!Notes) BY <1>2 DEF Follower!Runs
<1>9. ui.seq \in Nat /\ ui.version \in Nat /\ ui.closed \in BOOLEAN /\ ui.life \in Follower!Lives \cup {"idle"}
  BY <1>2 DEF Follower!States
<1> HIDE DEF w, m, n, r
<1>10. n \in 1 .. Len(runs[r].log) /\ n = (stream.sent - m) + 1
  <2>1. 1 \in 1 .. m BY <1>4
  <2> QED BY <1>4, <1>5, <2>1
<1>11. n \in Nat /\ runs[r].log[n] \in Follower!Lives \cup Follower!Notes BY <1>8, <1>10
<1>12. \A i \in 1 .. Len(Tail(w)) : /\ Tail(w)[i] = (stream.sent - Len(Tail(w))) + i
                                    /\ Tail(w)[i] \in 1 .. Len(runs[r].log)
  <2> SUFFICES ASSUME NEW i \in 1 .. m - 1
               PROVE  Tail(w)[i] = (stream.sent - (m - 1)) + i /\ Tail(w)[i] \in 1 .. Len(runs[r].log)
    BY <1>4
  <2>1. i + 1 \in 1 .. m /\ i \in Nat BY <1>4
  <2>2. Tail(w)[i] = (stream.sent - m) + (i + 1) /\ Tail(w)[i] \in 1 .. Len(runs[r].log)
    BY <1>4, <1>5, <2>1
  <2>3. (stream.sent - m) + (i + 1) = (stream.sent - (m - 1)) + i
    <3>1. stream.sent \in Nat /\ m \in Nat /\ i \in Nat BY <1>3, <1>4, <2>1
    <3>2. \A a, b, c \in Nat : (a - b) + (c + 1) = (a - (b - 1)) + c OBVIOUS
    <3> QED BY <3>1, <3>2
  <2> QED BY <2>2, <2>3
<1>13. stream.sent - Len(Tail(w)) = n BY <1>3, <1>4, <1>10
<1>14. CASE ui.run # r \/ n <= ui.seq
  <2>1. ui' = ui /\ applied' = applied BY <1>1, <1>14 DEF Follower!Dispatch, Follower!ApplyEvent
  <2>2. ui' \in Follower!States /\ ui'.run = ui.run /\ Follower!Dispatch(ui')
    BY <1>1, <1>2, <1>14, <2>1 DEF Follower!Dispatch, Follower!ApplyEvent
  <2>3. ui.run = r => 1 .. n \subseteq applied[r]
    <3>1. ASSUME ui.run = r PROVE 1 .. n \subseteq 1 .. ui.seq BY <1>9, <1>11, <1>14, <3>1
    <3>2. r # None BY <1>3 DEF Follower!Ids, Follower!FollowerAssumption
    <3> QED BY <1>7, <3>1, <3>2
  <2>4. Follower!StreamInv'
    BY <1>1, <1>5, <1>6, <1>12, <1>13, <2>1, <2>3 DEF Follower!StreamInv, Follower!Shown
  <2>5. breaks' \in Nat /\ applied' \in [Follower!Ids -> SUBSET Nat] /\ \A x \in Follower!Ids : applied[x] \subseteq applied'[x]
    BY <1>1, <1>2, <2>1
  <2>6. stream' \in Follower!Streams /\ stream'.run = stream.run BY <1>6 DEF r
  <2>7. IF ui'.run = None THEN ui'.life = "idle" ELSE 1 .. ui'.seq \subseteq applied'[ui'.run]
    BY <1>7, <2>1
  <2> QED BY <1>0, <1>1, <2>2, <2>4, <2>5, <2>6, <2>7, TabFollows
<1>15. CASE ui.run = r /\ ~(n <= ui.seq)
  <2> DEFINE event == runs[r].log[n]
             later == IF n > ui.version THEN n ELSE ui.version
             life == IF event \in Follower!Notes THEN ui.life ELSE event
             closed == ui.closed \/ event \in Follower!Terminal
             u == [ui EXCEPT !.seq = n, !.version = later, !.life = life, !.closed = closed]
  <2>1. later \in Nat BY <1>9, <1>11
  <2>2. life \in Follower!Lives \cup {"idle"} BY <1>9, <1>11
  <2>3. closed \in BOOLEAN BY <1>9
  <2>4. Follower!ApplyEvent(r, n) = u BY <1>2, <1>15 DEF Follower!ApplyEvent, Follower!States
  <2> HIDE DEF later, life, closed, event
  <2>5. u \in Follower!States /\ u.run = ui.run /\ u.seq = n
    BY <1>2, <1>11, <2>1, <2>2, <2>3 DEF Follower!States
  <2> HIDE DEF u
  <2>6. ui' = u /\ Follower!Dispatch(ui') BY <1>1, <2>4 DEF Follower!Dispatch
  <2>7. ui' # ui BY <1>9, <1>11, <1>15, <2>5, <2>6
  <2>8. applied' = [applied EXCEPT ![r] = @ \cup {n}] BY <1>1, <2>7
  <2>9. /\ applied' \in [Follower!Ids -> SUBSET Nat] /\ \A x \in Follower!Ids : applied[x] \subseteq applied'[x]
        /\ applied'[r] = applied[r] \cup {n}
    BY <1>2, <1>3, <1>11, <2>8
  <2>10. 1 .. n \subseteq applied'[r]
    <3>1. 1 .. n \subseteq (1 .. stream.sent - m) \cup {n} BY <1>3, <1>4, <1>10
    <3> QED BY <1>5, <1>15, <2>9, <3>1
  <2>11. Follower!StreamInv'
    BY <1>1, <1>6, <1>12, <1>13, <1>15, <2>5, <2>6, <2>10 DEF Follower!StreamInv, Follower!Shown
  <2>12. r # None BY <1>3 DEF Follower!Ids, Follower!FollowerAssumption
  <2>13. /\ ui' \in Follower!States /\ ui'.run = ui.run
         /\ IF ui'.run = None THEN ui'.life = "idle" ELSE 1 .. ui'.seq \subseteq applied'[ui'.run]
    BY <1>15, <2>5, <2>6, <2>10, <2>12
  <2>14. breaks' \in Nat BY <1>1, <1>2
  <2>15. stream' \in Follower!Streams /\ stream'.run = stream.run BY <1>6 DEF r
  <2> QED BY <1>0, <1>1, <2>6, <2>9, <2>11, <2>13, <2>14, <2>15, TabFollows
<1> QED BY <1>14, <1>15

LEMMA TabInit ==
    ASSUME Follower!FollowerAssumption, Follower!Init
    PROVE  Follower!IndInv
<1>1. runs = <<>> /\ Len(runs) = 0 /\ Follower!RunIds = {} /\ runs \in Seq(Follower!Runs)
  BY DEF Follower!Init, Follower!RunIds
<1>2. ui \in Follower!States /\ ui.run = None /\ ui.life = "idle"
  BY DEF Follower!Init, Follower!EmptyUi, Follower!States
<1>3. \A k \in Follower!Kinds : requests[k] = None BY DEF Follower!Init
<1>4. requests \in [Follower!Kinds -> Follower!Submissions \cup Follower!Commands \cup Follower!Loads \cup {None}]
  BY DEF Follower!Init
<1>5. applied \in [Follower!Ids -> SUBSET Nat] /\ doubtful = {} BY DEF Follower!Init, Follower!Ids
<1>6. /\ cursor = None /\ pending = None /\ stream = None
      /\ keys \in Nat /\ asked \in Nat /\ breaks \in Nat
  BY DEF Follower!Init
<1>0. Follower!TripOK
  <2>1. trip \in [title : Titles, plan : {0}, version : {0}] /\ known = trip /\ storage = TRUE
    BY DEF Follower!Init
  <2> QED BY <2>1 DEF Follower!TripOK, Follower!TripRows
<1>7. Follower!TypeOK
  BY <1>0, <1>1, <1>2, <1>3, <1>4, <1>5, <1>6 DEF Follower!TypeOK, Follower!FollowerAssumption
<1>8. Follower!KnownInv BY <1>2, <1>3, <1>6 DEF Follower!KnownInv
<1>9. Follower!SeenInv BY <1>2, <1>3, <1>6 DEF Follower!SeenInv
<1>10. Follower!StreamInv BY <1>6 DEF Follower!StreamInv
<1>11. Follower!KeyInv BY <1>1, <1>3, <1>5 DEF Follower!KeyInv, Follower!Kinds
<1> QED BY <1>7, <1>8, <1>9, <1>10, <1>11 DEF Follower!IndInv

\* A step that changes nothing.
LEMMA TabStutters ==
    ASSUME Follower!FollowerAssumption, Follower!IndInv, UNCHANGED Follower!vars
    PROVE  Follower!IndInv'
BY DEF Follower!vars, Follower!IndInv, Follower!TypeOK, Follower!TripOK, Follower!KnownInv,
       Follower!SeenInv, Follower!StreamInv, Follower!KeyInv, Follower!Fingerprint,
       Follower!Shown, Follower!RunIds

\* The inductive invariant of a tab and the API it talks to.
THEOREM FollowerInvariance == Follower!FollowerAssumption => (Follower!Spec => []Follower!IndInv)
<1> SUFFICES ASSUME Follower!FollowerAssumption PROVE Follower!Spec => []Follower!IndInv
  OBVIOUS
<1>1. Follower!Init => Follower!IndInv BY TabInit
<1>2. Follower!IndInv /\ [Follower!Next]_(Follower!vars) => Follower!IndInv'
  <2> SUFFICES ASSUME Follower!IndInv, [Follower!Next]_(Follower!vars) PROVE Follower!IndInv'
    OBVIOUS
  <2>1. ASSUME NEW q \in Questions, Follower!Submit(q) PROVE Follower!IndInv' BY <2>1, TabSubmit
  <2>2. CASE Follower!Resume \/ Follower!Cancel \/ \E kind \in Follower!Kinds : Follower!Lose(kind)
    BY <2>2, TabAsks
  <2>3. CASE Follower!Reload BY <2>3, TabReload
  <2>4. CASE Follower!CreateRun BY <2>4, TabCreates
  <2>5. CASE \/ Follower!ResumeRun \/ Follower!RequestCancel \/ Follower!FinishCancel \/ Follower!GetRun
             \/ \E r \in Follower!RunIds, event \in {"running", "waiting_input"} \cup Follower!Notes \cup Follower!Terminal :
                    Follower!Advance(r, event)
    BY <2>5, TabServer
  <2>6. CASE Follower!AnswerSubmit \/ Follower!AnswerResume \/ Follower!AnswerCancel \/ Follower!AnswerLoad
    BY <2>6, TabAnswers
  <2>7. CASE Follower!Connect \/ Follower!CheckRun \/ Follower!EndOfStream \/ Follower!Break
    BY <2>7, TabLoop
  <2>8. CASE Follower!ListEvents BY <2>8, TabLists
  <2>9. CASE Follower!Deliver BY <2>9, TabDelivers
  <2>10. CASE UNCHANGED Follower!vars BY <2>10, TabStutters
  <2>11. CASE \E t \in Follower!Trips : Follower!Edit(t) BY <2>11, TabEdits
  <2> QED BY <2>1, <2>2, <2>3, <2>4, <2>5, <2>6, <2>7, <2>8, <2>9, <2>10, <2>11 DEF Follower!Next
<1> QED BY <1>1, <1>2, PTL DEF Follower!Spec

\* Whatever answers are lost, streams broken, pages reloaded and Trips edited, a command that is
\* submitted again with the same fingerprint makes no second Run as long as the storage keeps its
\* key (create_run, reserveRunSubmission), and the cursor of the tab never passes an event it has
\* not shown (useRunStream), for any number of Runs, events, requests and faults.
THEOREM FollowerSafety == Follower!FollowerAssumption => (Follower!Spec => []Follower!FollowerIsSafe)
<1>1. ASSUME Follower!IndInv PROVE Follower!FollowerIsSafe
  <2>1. Follower!NothingSkipped
    BY <1>1 DEF Follower!IndInv, Follower!SeenInv, Follower!Shown, Follower!NothingSkipped
  <2>2. ASSUME storage PROVE Cardinality(doubtful) <= 1
    <3>1. ASSUME NEW r \in doubtful, NEW s \in doubtful PROVE r = s
      <4>1. /\ r \in Follower!RunIds /\ s \in Follower!RunIds
            /\ pending = [command |-> Follower!Fingerprint(runs[r].input), key |-> runs[r].key]
            /\ pending = [command |-> Follower!Fingerprint(runs[s].input), key |-> runs[s].key]
        BY <1>1, <2>2 DEF Follower!IndInv, Follower!KeyInv
      <4>2. runs[r].key = runs[s].key BY <4>1
      <4> QED BY <1>1, <4>1, <4>2 DEF Follower!IndInv, Follower!KeyInv
    <3>2. CASE doubtful = {} BY <3>2, FS_EmptySet
    <3>3. CASE doubtful # {}
      <4>1. PICK r \in doubtful : TRUE BY <3>3
      <4>2. doubtful = {r} BY <3>1, <4>1
      <4>3. Cardinality(doubtful) = 1 BY <4>2, FS_Singleton
      <4> QED BY <4>3
    <3> QED BY <3>2, <3>3
  <2>3. Follower!Cardinality(doubtful) = Cardinality(doubtful)
    BY DEF Follower!Cardinality, Cardinality, Follower!IsFiniteSet, IsFiniteSet
  <2> QED BY <2>1, <2>2, <2>3 DEF Follower!FollowerIsSafe, Follower!OneRunPerCommand
<1> QED BY <1>1, FollowerInvariance, PTL

-----------------------------------------------------------------------------
(* The Run that goes through the agents. *)

\* Where an execution may be after a dispatch that came too late.
RunPast == {"wait", "progress", "over", "acked", "crashed"}

\* A Task keeps what it was made of, and ends once.
RunKeeps(i) ==
    tasks[i] # None =>
        /\ tasks'[i] # None /\ tasks'[i].input = tasks[i].input /\ tasks'[i].by = tasks[i].by
        /\ tasks'[i].late = tasks[i].late
        /\ tasks'[i].state = tasks[i].state \/ tasks[i].state = "open"

\* What every step does: Tasks and ended Runs stay, executions stop or go on in order.
RunProceeds ==
    /\ mode' = mode /\ publishable' = publishable /\ failures' \in Nat /\ failures <= failures'
    /\ run' \in Run!RunRows /\ workers' \in Seq(Run!Workers) /\ Len(workers') = Len(workers)
    /\ tasks' \in [Run!Interfaces -> Run!Tasks \cup {None}]
    /\ run.life \notin {"queued", "running"} => run'.life \notin {"queued", "running"}
    /\ run'.life = "queued" => run.life = "queued"
    /\ \A i \in Run!Interfaces : RunKeeps(i)
    /\ \A a \in Run!Attempts : /\ workers'[a].input = workers[a].input
                               /\ \/ workers'[a].at \in RunPast \/ workers[a].at \notin RunPast
                                  \/ run.life \in {"queued", "running"}

\* The stages of a Run.
LEMMA RunStages ==
    /\ Len(Run!Stages) \in Nat /\ DOMAIN Run!Stages = 1 .. Len(Run!Stages)
    /\ \A n \in 1 .. Len(Run!Stages) : Run!Stages[n] \in Run!Interfaces
    /\ "planner" \in Run!Interfaces /\ "research" \in Run!Interfaces
    /\ mode = "ask" => Len(Run!Stages) = 1 /\ Run!Stages[1] = "answering"
    /\ mode # "ask" => /\ Len(Run!Stages) = 4 /\ Run!Stages[1] = "research" /\ Run!Stages[2] = "planner"
                       /\ Run!Stages[3] = "validation" /\ Run!Stages[4] = "semantic-verifier"
<1>1. CASE mode = "ask"
  <2>1. Run!Stages = <<"answering">> BY <1>1 DEF Run!Stages
  <2> QED BY <1>1, <2>1 DEF Run!Interfaces
<1>2. CASE mode # "ask"
  <2>1. Run!Stages = <<"research", "planner", "validation", "semantic-verifier">>
    BY <1>2 DEF Run!Stages
  <2>2. Len(Run!Stages) = 4 /\ DOMAIN Run!Stages = 1 .. 4 BY <2>1
  <2>3. \A n \in 1 .. 4 : n = 1 \/ n = 2 \/ n = 3 \/ n = 4 OBVIOUS
  <2>4. /\ Run!Stages[1] = "research" /\ Run!Stages[2] = "planner"
        /\ Run!Stages[3] = "validation" /\ Run!Stages[4] = "semantic-verifier"
    BY <2>1
  <2>5. \A n \in 1 .. 4 : Run!Stages[n] \in Run!Interfaces BY <2>3, <2>4 DEF Run!Interfaces
  <2> QED BY <1>2, <2>2, <2>4, <2>5 DEF Run!Interfaces
<1> QED BY <1>1, <1>2

\* What is known of every state.
LEMMA RunFacts ==
    ASSUME Run!IndInv
    PROVE  /\ mode \in {"brief", "request", "ask"} /\ publishable \in BOOLEAN /\ run \in Run!RunRows
           /\ workers \in Seq(Run!Workers) /\ Len(workers) \in Nat
           /\ tasks \in [Run!Interfaces -> Run!Tasks \cup {None}]
           /\ cancel \in [at : {"idle", "list", "each", "done"}, left : SUBSET (DOMAIN Run!Stages)]
           /\ failures \in Nat /\ failures + 1 \in Nat
           /\ \A a \in Run!Attempts : workers[a] \in Run!Workers
           /\ \A i \in Run!Interfaces : tasks[i] # None => tasks[i] \in Run!Tasks
<1>1. Run!TypeOK BY DEF Run!IndInv
<1>2. workers \in Seq(Run!Workers) /\ Len(workers) \in Nat BY <1>1 DEF Run!TypeOK
<1>3. \A a \in Run!Attempts : workers[a] \in Run!Workers BY <1>2 DEF Run!Attempts
<1>5. failures \in Nat BY <1>1 DEF Run!TypeOK
<1>6. failures + 1 \in Nat BY <1>5
<1> QED BY <1>1, <1>2, <1>3, <1>6 DEF Run!TypeOK

\* An execution that stays in its stage still has completed Tasks behind it.
LEMMA RunPlaced ==
    ASSUME Run!IndInv, RunProceeds, NEW a \in Run!Attempts, workers'[a].stage = workers[a].stage,
           workers'[a].at \in {"dispatch", "send", "wait"} => workers[a].stage <= Len(Run!Stages),
           workers'[a].at \in {"save", "publish"} => workers[a].stage > Len(Run!Stages),
           workers'[a].at = "wait" => tasks'[Run!StageOf(a)] # None
    PROVE  Run!OnStage(a)'
<1>1. workers[a].stage \in Nat /\ Run!OnStage(a)
  BY RunFacts DEF Run!Workers, Run!IndInv, Run!StageInv
<1>2. Run!Stages' = Run!Stages BY DEF RunProceeds, Run!Stages
<1>3. Run!StageOf(a)' = Run!StageOf(a) BY <1>2 DEF Run!StageOf
<1>4. \A i \in Run!Interfaces : RunKeeps(i) BY DEF RunProceeds
<1>5. ASSUME NEW n \in 1 .. workers[a].stage - 1
      PROVE  tasks'[Run!Stages[n]] # None /\ tasks'[Run!Stages[n]].state = "completed"
  <2>1. tasks[Run!Stages[n]] # None /\ tasks[Run!Stages[n]].state = "completed"
    BY <1>1 DEF Run!OnStage
  <2>2. workers[a].stage \in 1 .. Len(Run!Stages) + 1 BY <1>1 DEF Run!OnStage
  <2>3. n \in 1 .. Len(Run!Stages) BY <1>1, <2>2, RunStages
  <2>4. RunKeeps(Run!Stages[n]) BY <1>4, <2>3, RunStages
  <2> QED BY <2>1, <2>4 DEF RunKeeps
<1>6. workers[a].stage > Len(Run!Stages) => Run!SnapshotIsValid(a)'
  <2>1. CASE mode = "ask" BY <2>1 DEF Run!SnapshotIsValid, RunProceeds
  <2>2. ASSUME mode # "ask", workers[a].stage > Len(Run!Stages) PROVE Run!SnapshotIsValid(a)'
    <3>1. Len(Run!Stages) = 4 /\ Run!Stages[2] = "planner" BY <2>2, RunStages
    <3>2. 2 \in 1 .. workers[a].stage - 1 BY <1>1, <2>2, <3>1
    <3>3. tasks["planner"] # None BY <1>1, <3>1, <3>2 DEF Run!OnStage
    <3>4. tasks["planner"].input = workers[a].input
      BY <1>1, <2>2 DEF Run!OnStage, Run!SnapshotIsValid
    <3>5. tasks'["planner"].input = tasks["planner"].input BY <1>4, <3>3, RunStages DEF RunKeeps
    <3>6. workers'[a].input = workers[a].input BY DEF RunProceeds
    <3> QED BY <3>4, <3>5, <3>6 DEF Run!SnapshotIsValid
  <2> QED BY <2>1, <2>2
<1>7. workers[a].stage \in 1 .. Len(Run!Stages) + 1 BY <1>1 DEF Run!OnStage
<1> QED BY <1>2, <1>3, <1>5, <1>6, <1>7 DEF Run!OnStage

\* The conjuncts of the invariant that a step keeps if it proceeds.
LEMMA RunStep ==
    ASSUME Run!OrchestratorAssumption, Run!IndInv, RunProceeds,
           cancel' \in [at : {"idle", "list", "each", "done"}, left : SUBSET (DOMAIN Run!Stages)],
           cancel.at \in {"each", "done"} => cancel'.at \in {"each", "done"},
           \A a \in Run!Attempts : workers'[a] = workers[a] \/ Run!OnStage(a)',
           \A i \in Run!Interfaces :
                \/ tasks'[i] = tasks[i] \/ Run!OnTask(i)'
                \/ tasks[i] # None /\ tasks'[i].state = tasks[i].state,
           \A i \in Run!Interfaces : tasks[i] = None /\ mode = "brief" /\ tasks'[i] # None => tasks'[i].input = 0,
           run'.result = run.result \/ Run!ResultInv', Run!PinnedRunsRecover', Run!FencedInv', Run!LateInv'
    PROVE  Run!IndInv'
<1>1. /\ workers \in Seq(Run!Workers) /\ Len(workers) \in Nat /\ mode \in {"brief", "request", "ask"}
      /\ publishable \in BOOLEAN /\ failures \in Nat /\ run \in Run!RunRows
      /\ \A a \in Run!Attempts : workers[a] \in Run!Workers
  BY RunFacts
<1>2. Run!Attempts' = Run!Attempts /\ Run!Stages' = Run!Stages
  BY DEF RunProceeds, Run!Attempts, Run!Stages
<1>3. Run!TypeOK' BY <1>1, <1>2 DEF Run!TypeOK, RunProceeds
<1>4. \A i \in Run!Interfaces : RunKeeps(i) BY DEF RunProceeds
<1>5. ASSUME NEW a \in Run!Attempts PROVE Run!OnStage(a)'
  <2>1. CASE workers'[a] = workers[a]
    <3>1. Run!OnStage(a) BY DEF Run!IndInv, Run!StageInv
    <3>2. workers[a].at = "wait" => Run!StageOf(a) \in Run!Interfaces /\ tasks[Run!StageOf(a)] # None
      <4>1. ASSUME workers[a].at = "wait" PROVE workers[a].stage \in 1 .. Len(Run!Stages)
        <5>1. workers[a].stage \in Nat BY <1>1 DEF Run!Workers
        <5> QED BY <3>1, <4>1, <5>1, RunStages DEF Run!OnStage
      <4> QED BY <3>1, <4>1, RunStages DEF Run!OnStage, Run!StageOf
    <3>3. workers[a].at = "wait" => tasks'[Run!StageOf(a)] # None BY <1>4, <3>2 DEF RunKeeps
    <3> QED BY <2>1, <3>1, <3>3, RunPlaced DEF Run!OnStage
  <2> QED BY <2>1
<1>6. Run!StageInv' BY <1>2, <1>5 DEF Run!StageInv
<1>7. ASSUME NEW i \in Run!Interfaces, tasks'[i] # None PROVE Run!OnTask(i)'
  <2>1. CASE tasks[i] # None /\ tasks'[i].state = tasks[i].state
    <3>1. Run!OnTask(i) BY <1>7, <2>1 DEF Run!IndInv, Run!TaskInv
    <3>2. RunKeeps("research") /\ RunKeeps(i) BY <1>4, RunStages
    <3>3. i = "planner" => /\ tasks'["research"] # None
                           /\ tasks'[i].state = "completed" => tasks'["research"].input = tasks'[i].input
      BY <2>1, <3>1, <3>2 DEF Run!OnTask, RunKeeps
    <3>4. tasks'[i].state = "failed" => failures' > 0 \/ mode' = "request"
      BY <1>1, <2>1, <3>1 DEF Run!OnTask, RunProceeds
    <3>5. tasks'[i].state = "canceled" => cancel'.at \in {"each", "done"}
      BY <2>1, <3>1 DEF Run!OnTask
    <3>6. \E n \in DOMAIN Run!Stages : Run!Stages[n] = i BY <3>1 DEF Run!OnTask
    <3> QED BY <1>2, <3>3, <3>4, <3>5, <3>6 DEF Run!OnTask
  <2> QED BY <1>7, <2>1
<1>8. Run!TaskInv' BY <1>7 DEF Run!TaskInv
<1>9. Run!PinnedInv'
  <2>1. ASSUME mode = "brief" PROVE /\ \A a \in Run!Attempts : workers'[a].input = 0
                                    /\ \A i \in Run!Interfaces : tasks'[i] # None => tasks'[i].input = 0
    BY <1>4, <2>1 DEF Run!IndInv, Run!PinnedInv, RunProceeds, RunKeeps
  <2> QED BY <1>2, <2>1 DEF Run!PinnedInv, RunProceeds
<1>10. Run!ResultInv'
  <2>1. CASE run'.result = run.result
    <3>1. RunKeeps("planner") BY <1>4, RunStages
    <3> QED BY <2>1, <3>1 DEF Run!IndInv, Run!ResultInv, RunProceeds, RunKeeps
  <2> QED BY <2>1
<1>11. Run!StartedInv' BY <1>2 DEF Run!IndInv, Run!StartedInv, RunProceeds
<1> QED BY <1>3, <1>6, <1>8, <1>9, <1>10, <1>11 DEF Run!IndInv

\* A step that sends nothing keeps the dispatches as late as they were.
LEMMA RunLateKept ==
    ASSUME Run!IndInv, RunProceeds, \A i \in Run!Interfaces : tasks[i] = None => tasks'[i] = None
    PROVE  Run!LateInv'
<1>1. Run!Attempts' = Run!Attempts BY DEF RunProceeds, Run!Attempts
<1>2. \A i \in Run!Interfaces : RunKeeps(i) BY DEF RunProceeds
<1>3. \A i \in Run!Interfaces : tasks'[i] # None =>
        tasks[i] # None /\ tasks'[i].by = tasks[i].by /\ tasks'[i].late = tasks[i].late
  BY <1>2 DEF RunKeeps
<1>4. \A i \in Run!Interfaces : tasks'[i] # None /\ tasks'[i].late =>
        /\ run'.life \notin {"queued", "running"} /\ tasks'[i].by \in Run!Attempts
        /\ workers'[tasks'[i].by].at \in {"wait", "progress", "over", "acked", "crashed"}
  BY <1>3 DEF Run!IndInv, Run!LateInv, RunProceeds, RunPast
<1>5. \A i, j \in Run!Interfaces :
        /\ tasks'[i] # None /\ tasks'[i].late
        /\ tasks'[j] # None /\ tasks'[j].late /\ tasks'[i].by = tasks'[j].by
        => i = j
  BY <1>3 DEF Run!IndInv, Run!LateInv
<1> QED BY <1>1, <1>4, <1>5 DEF Run!LateInv

\* So does one that leaves the cancellation alone.
LEMMA RunFenceKept ==
    ASSUME Run!IndInv, RunProceeds, cancel' = cancel, \A i \in Run!Interfaces : tasks[i] = None => tasks'[i] = None
    PROVE  Run!FencedInv'
<1>1. Run!Stages' = Run!Stages BY DEF RunProceeds, Run!Stages
<1>2. \A i \in Run!Interfaces : RunKeeps(i) BY DEF RunProceeds
<1>3. \A n \in cancel.left : tasks'[Run!Stages[n]] # None
  <2>1. cancel.left \subseteq 1 .. Len(Run!Stages) BY RunFacts, RunStages
  <2> QED BY <1>2, <2>1, RunStages DEF Run!IndInv, Run!FencedInv, RunKeeps
<1>4. \A i \in Run!Interfaces : tasks'[i] # None /\ tasks'[i].state = "open" =>
        tasks[i] # None /\ tasks[i].state = "open" /\ tasks'[i].late = tasks[i].late
  BY <1>2 DEF RunKeeps
<1>5. cancel.at # "idle" => run'.life \notin {"queued", "running"}
  BY DEF Run!IndInv, Run!FencedInv, RunProceeds
<1>6. cancel.at \in {"each", "done"} =>
        \A i \in Run!Interfaces : tasks'[i] # None /\ tasks'[i].state = "open" =>
            tasks'[i].late \/ (cancel.at = "each" /\ \E n \in cancel.left : Run!Stages[n] = i)
  BY <1>4 DEF Run!IndInv, Run!FencedInv
<1> QED BY <1>1, <1>3, <1>5, <1>6 DEF Run!FencedInv

\* What may happen to the Run.
RunAccounts ==
    /\ run' \in Run!RunRows /\ (run'.result = run.result \/ Run!ResultInv')
    /\ run.life \notin {"queued", "running"} => run'.life \notin {"queued", "running"}
    /\ run'.life = "queued" => run.life = "queued"
    /\ mode # "request" /\ ~run'.saved =>
        (run'.life = "failed" => failures > 0 \/ run'.error = "VALIDATION_BLOCKED")

\* An execution moves within its stage, and nothing happens to the Tasks.
LEMMA RunWalks ==
    ASSUME Run!OrchestratorAssumption, Run!IndInv, NEW a \in Run!Attempts, NEW w \in Run!Workers,
           workers' = [workers EXCEPT ![a] = w],
           w.input = workers[a].input, w.stage = workers[a].stage,
           w.at \in RunPast \/ workers[a].at \notin RunPast \/ run.life \in {"queued", "running"},
           w.at \in {"dispatch", "send"} => w.stage <= Len(Run!Stages),
           w.at \in {"save", "publish"} => w.stage > Len(Run!Stages), w.at # "wait",
           UNCHANGED <<mode, publishable, tasks, cancel, failures>>, RunAccounts
    PROVE  Run!IndInv'
<1>1. /\ workers \in Seq(Run!Workers) /\ Len(workers) \in Nat /\ failures \in Nat
      /\ tasks \in [Run!Interfaces -> Run!Tasks \cup {None}]
      /\ cancel \in [at : {"idle", "list", "each", "done"}, left : SUBSET (DOMAIN Run!Stages)]
  BY RunFacts
<1>2. a \in 1 .. Len(workers) BY DEF Run!Attempts
<1>3. /\ workers' \in Seq(Run!Workers) /\ Len(workers') = Len(workers) /\ workers'[a] = w
      /\ \A b \in 1 .. Len(workers) : b # a => workers'[b] = workers[b]
  BY <1>1, <1>2
<1>4. RunProceeds
  <2>1. \A i \in Run!Interfaces : RunKeeps(i) BY DEF RunKeeps
  <2>2. \A b \in Run!Attempts : /\ workers'[b].input = workers[b].input
                                /\ \/ workers'[b].at \in RunPast \/ workers[b].at \notin RunPast
                                   \/ run.life \in {"queued", "running"}
    BY <1>3 DEF Run!Attempts
  <2> QED BY <1>1, <1>3, <2>1, <2>2 DEF RunProceeds, RunAccounts
<1>5. Run!OnStage(a)' BY <1>3, <1>4, RunPlaced
<1>6. \A b \in Run!Attempts : workers'[b] = workers[b] \/ Run!OnStage(b)'
  BY <1>3, <1>5 DEF Run!Attempts
<1>7. Run!LateInv' /\ Run!FencedInv' BY <1>4, RunLateKept, RunFenceKept
<1>8. Run!PinnedRunsRecover' BY DEF Run!PinnedRunsRecover, Run!FailsOnlyForCause, RunAccounts
<1>9. run'.result = run.result \/ Run!ResultInv' BY DEF RunAccounts
<1> QED BY <1>1, <1>4, <1>6, <1>7, <1>8, <1>9, RunStep

\* The ways in which an execution ends without a result.
LEMMA RunStops ==
    ASSUME Run!OrchestratorAssumption, Run!IndInv, NEW a \in Run!Attempts,
           \/ Run!Stop(a) \/ Run!StopCanceled(a)
           \/ (Run!Fail(a) \/ (run.life = "running" /\ Run!MarkFailed(a)))
              /\ (mode # "request" /\ ~run.saved /\ run.life = "running" => failures > 0),
           UNCHANGED <<mode, publishable, tasks, cancel, failures>>
    PROVE  Run!IndInv'
<1>0. PICK x \in {"over", "acked"} : workers' = [workers EXCEPT ![a].at = x]
  BY DEF Run!Stop, Run!StopCanceled, Run!Fail, Run!MarkFailed, Run!Goto
<1> DEFINE w == [workers[a] EXCEPT !.at = x]
<1>1. /\ workers \in Seq(Run!Workers) /\ workers[a] \in Run!Workers /\ run \in Run!RunRows
  BY RunFacts
<1>2. /\ w \in Run!Workers /\ w.at \in {"over", "acked"} /\ w.stage = workers[a].stage
      /\ w.input = workers[a].input
  BY <1>1 DEF Run!Workers
<1>3. workers' = [workers EXCEPT ![a] = w] BY <1>0, <1>1 DEF Run!Workers
<1>4. mode # "request" /\ ~run.saved =>
        (run.life = "failed" => failures > 0 \/ run.error = "VALIDATION_BLOCKED")
  BY DEF Run!IndInv, Run!PinnedRunsRecover, Run!FailsOnlyForCause
<1>5. RunAccounts
  <2>1. CASE run' = [run EXCEPT !.holder = IF @ = a THEN 0 ELSE @]
    <3>1. run.holder \in Nat /\ 0 \in Nat BY <1>1 DEF Run!RunRows
    <3>2. /\ run' \in Run!RunRows /\ run'.life = run.life /\ run'.saved = run.saved
          /\ run'.error = run.error /\ run'.result = run.result
      BY <1>1, <2>1, <3>1 DEF Run!RunRows
    <3> QED BY <1>4, <3>2 DEF RunAccounts
  <2>2. CASE run.life = "cancel_requested" /\ run' = Run!Canceled(run)
    <3>1. run' \in Run!RunRows /\ run'.life = "canceled" /\ run'.result = run.result
      BY <1>1, <2>2 DEF Run!RunRows, Run!Canceled, Run!Terminal
    <3> QED BY <3>1 DEF RunAccounts
  <2>3. CASE /\ run' = [run EXCEPT !.life = "failed", !.error = "RUN_EXECUTION_FAILED",
                                   !.holder = 0]
             /\ mode # "request" /\ ~run.saved /\ run.life = "running" => failures > 0
             /\ run.life = "running"
    <3>1. /\ run' \in Run!RunRows /\ run'.life = "failed" /\ run'.saved = run.saved
          /\ run'.result = run.result
      BY <1>1, <2>3 DEF Run!RunRows, Run!Terminal
    <3> QED BY <2>3, <3>1 DEF RunAccounts
  <2>4. CASE UNCHANGED run BY <1>1, <1>4, <2>4 DEF RunAccounts
  <2> QED BY <2>1, <2>2, <2>3, <2>4 DEF Run!Stop, Run!StopCanceled, Run!Fail, Run!MarkFailed
<1> HIDE DEF w
<1> QED BY <1>2, <1>3, <1>5, RunWalks DEF RunPast

\* _progress, the loss of the lease, and saving what came out of the Tasks.
LEMMA RunReports ==
    ASSUME Run!OrchestratorAssumption, Run!IndInv, NEW a \in Run!Attempts,
           Run!ProgressRead(a) \/ Run!ProgressWrite(a) \/ Run!LeaseLost(a) \/ Run!Save(a)
    PROVE  Run!IndInv'
<1>1. /\ workers \in Seq(Run!Workers) /\ workers[a] \in Run!Workers /\ run \in Run!RunRows
  BY RunFacts
<1>2. UNCHANGED <<mode, publishable, tasks, cancel, failures>>
  BY DEF Run!ProgressRead, Run!ProgressWrite, Run!LeaseLost, Run!Save
<1>3. Run!OnStage(a) BY DEF Run!IndInv, Run!StageInv
<1>4. mode # "request" /\ ~run.saved =>
        (run.life = "failed" => failures > 0 \/ run.error = "VALIDATION_BLOCKED")
  BY DEF Run!IndInv, Run!PinnedRunsRecover, Run!FailsOnlyForCause
<1>5. workers[a].stage \in Nat /\ workers[a].input \in Nat BY <1>1 DEF Run!Workers
<1>6. CASE Run!LeaseLost(a) BY <1>2, <1>6, RunStops DEF Run!LeaseLost
<1>7. CASE Run!ProgressRead(a)
  <2>1. CASE Run!StopCanceled(a) BY <1>2, <2>1, RunStops
  <2>2. CASE /\ Run!Continues(run) /\ UNCHANGED run
             /\ Run!Goto(a, "write")
    <3> DEFINE w == [workers[a] EXCEPT !.at = "write"]
    <3>1. w \in Run!Workers /\ w.at = "write" /\ w.stage = workers[a].stage /\ w.input = workers[a].input
      BY <1>1 DEF Run!Workers
    <3>2. workers' = [workers EXCEPT ![a] = w] BY <1>1, <2>2 DEF Run!Workers, Run!Goto
    <3>3. RunAccounts BY <1>1, <1>4, <2>2 DEF RunAccounts
    <3> HIDE DEF w
    <3>4. run.life \in {"queued", "running"} BY <1>1, <2>2 DEF Run!Continues, Run!RunRows
    <3> QED BY <1>2, <3>1, <3>2, <3>3, <3>4, RunWalks
  <2> QED BY <1>7, <2>1, <2>2 DEF Run!ProgressRead
<1>8. CASE Run!ProgressWrite(a)
  <2>1. CASE Run!Stop(a) BY <1>2, <2>1, RunStops
  <2>2. CASE Run!StopCanceled(a) BY <1>2, <2>2, RunStops
  <2>3. CASE /\ UNCHANGED run
             /\ Run!Goto(a, IF workers[a].stage > Len(Run!Stages) THEN "save" ELSE "dispatch")
    <3> DEFINE x == IF workers[a].stage > Len(Run!Stages) THEN "save" ELSE "dispatch"
               w == [workers[a] EXCEPT !.at = x]
    <3>1. w \in Run!Workers /\ w.at = x /\ w.stage = workers[a].stage /\ w.input = workers[a].input
      BY <1>1 DEF Run!Workers
    <3>2. workers' = [workers EXCEPT ![a] = w] BY <1>1, <2>3 DEF Run!Workers, Run!Goto
    <3>3. /\ run' \in Run!RunRows /\ run'.life = run.life /\ run'.saved = run.saved
          /\ run'.error = run.error /\ run'.result = run.result
      BY <1>1, <2>3 DEF Run!RunRows
    <3>4. RunAccounts BY <1>4, <3>3 DEF RunAccounts
    <3> HIDE DEF w
    <3>5. w.at \in {"dispatch", "send"} => w.stage <= Len(Run!Stages) BY <1>5, <3>1, RunStages
    <3>6. w.at \in {"save", "publish"} => w.stage > Len(Run!Stages) BY <3>1
    <3>7. w.at # "wait" /\ workers[a].at \notin RunPast
      BY <1>8, <3>1 DEF Run!ProgressWrite, Run!At, RunPast
    <3> QED BY <1>2, <3>1, <3>2, <3>4, <3>5, <3>6, <3>7, RunWalks
  <2> QED BY <1>8, <2>1, <2>2, <2>3 DEF Run!ProgressWrite
<1>9. CASE Run!Save(a)
  <2>1. CASE Run!StopCanceled(a) BY <1>2, <2>1, RunStops
  <2>2. CASE run.saved /\ run.life = "running" /\ Run!MarkFailed(a) BY <1>2, <2>2, RunStops
  <2>3. CASE run' = [run EXCEPT !.saved = TRUE] /\ Run!Goto(a, "publish")
    <3> DEFINE w == [workers[a] EXCEPT !.at = "publish"]
    <3>1. w \in Run!Workers /\ w.at = "publish" /\ w.stage = workers[a].stage /\ w.input = workers[a].input
      BY <1>1 DEF Run!Workers
    <3>2. workers' = [workers EXCEPT ![a] = w] BY <1>1, <2>3 DEF Run!Workers, Run!Goto
    <3>3. /\ run' \in Run!RunRows /\ run'.life = run.life /\ run'.saved /\ run'.result = run.result
      BY <1>1, <2>3 DEF Run!RunRows
    <3>4. RunAccounts BY <3>3 DEF RunAccounts
    <3> HIDE DEF w
    <3>5. workers[a].at = "save" BY <1>9 DEF Run!Save, Run!At
    <3>6. w.stage > Len(Run!Stages) BY <1>3, <3>1, <3>5 DEF Run!OnStage
    <3> QED BY <1>2, <3>1, <3>2, <3>4, <3>5, <3>6, RunWalks DEF RunPast
  <2> QED BY <1>9, <2>1, <2>2, <2>3 DEF Run!Save
<1> QED BY <1>6, <1>7, <1>8, <1>9

\* _task_result: an execution goes on to the next stage only when it has the result of this
\* one, and it fails only for a fault, or for a brief that was not pinned.
LEMMA RunSettles ==
    ASSUME Run!OrchestratorAssumption, Run!IndInv, NEW a \in Run!Attempts, Run!Settled(a)
    PROVE  Run!IndInv'
<1> DEFINE s == workers[a].stage
           i == Run!StageOf(a)
<1>1. /\ workers \in Seq(Run!Workers) /\ Len(workers) \in Nat /\ workers[a] \in Run!Workers /\ run \in Run!RunRows
      /\ failures \in Nat /\ tasks \in [Run!Interfaces -> Run!Tasks \cup {None}]
      /\ cancel \in [at : {"idle", "list", "each", "done"}, left : SUBSET (DOMAIN Run!Stages)]
      /\ \A j \in Run!Interfaces : tasks[j] # None => tasks[j] \in Run!Tasks
      /\ mode \in {"brief", "request", "ask"}
  BY RunFacts
<1>2. /\ workers[a].at = "wait" /\ tasks[i].state # "open"
      /\ UNCHANGED <<mode, publishable, tasks, cancel, failures>>
  BY DEF Run!Settled, Run!At
<1>3. s \in Nat /\ workers[a].input \in Nat BY <1>1 DEF Run!Workers
<1>4. Run!OnStage(a) BY DEF Run!IndInv, Run!StageInv
<1>5. s \in 1 .. Len(Run!Stages) /\ tasks[i] # None BY <1>2, <1>3, <1>4, RunStages DEF Run!OnStage
<1>6. i = Run!Stages[s] /\ i \in Run!Interfaces BY <1>5, RunStages DEF Run!StageOf
<1>7. tasks[i] \in Run!Tasks /\ Run!OnTask(i) BY <1>1, <1>5, <1>6 DEF Run!IndInv, Run!TaskInv
<1>8. ASSUME tasks[i].state = "completed", s = Len(Run!Stages) => Run!SnapshotIsValid(a),
             workers' = [workers EXCEPT ![a].at = "progress", ![a].stage = @ + 1], run' = run
      PROVE  Run!IndInv'
  <2> DEFINE w == [workers[a] EXCEPT !.at = "progress", !.stage = s + 1]
  <2>1. s + 1 \in Nat BY <1>3
  <2>2. w \in Run!Workers /\ w.at = "progress" /\ w.stage = s + 1 /\ w.input = workers[a].input
    BY <1>1, <2>1 DEF Run!Workers
  <2>3. workers' = [workers EXCEPT ![a] = w] BY <1>1, <1>8 DEF Run!Workers
  <2> HIDE DEF w
  <2>4. a \in 1 .. Len(workers) BY DEF Run!Attempts
  <2>5. /\ workers' \in Seq(Run!Workers) /\ Len(workers') = Len(workers) /\ workers'[a] = w
        /\ \A b \in 1 .. Len(workers) : b # a => workers'[b] = workers[b]
    BY <1>1, <2>2, <2>3, <2>4
  <2>6. RunProceeds
    <3>1. \A j \in Run!Interfaces : RunKeeps(j) BY <1>2 DEF RunKeeps
    <3>2. \A b \in Run!Attempts : /\ workers'[b].input = workers[b].input
                                  /\ workers'[b].at \in RunPast \/ workers[b].at \notin RunPast
      BY <2>2, <2>5 DEF Run!Attempts, RunPast
    <3>3. run' = run /\ run \in Run!RunRows /\ failures' = failures /\ failures \in Nat /\ failures <= failures
      BY <1>1, <1>2, <1>8
    <3> QED BY <1>1, <1>2, <2>5, <3>1, <3>2, <3>3 DEF RunProceeds
  <2>7. Run!OnStage(a)'
    <3>1. Run!Stages' = Run!Stages BY <1>2 DEF Run!Stages
    <3>2. s + 1 \in 1 .. Len(Run!Stages) + 1 BY <1>5, RunStages
    <3>3. ASSUME NEW n \in 1 .. (s + 1) - 1
          PROVE  tasks[Run!Stages[n]] # None /\ tasks[Run!Stages[n]].state = "completed"
      <4>1. n \in 1 .. s - 1 \/ n = s BY <1>3
      <4>2. CASE n \in 1 .. s - 1 BY <1>4, <4>2 DEF Run!OnStage
      <4>3. CASE n = s BY <1>5, <1>6, <1>8, <4>3
      <4> QED BY <4>1, <4>2, <4>3
    <3>4. s + 1 > Len(Run!Stages) => Run!SnapshotIsValid(a)'
      <4>1. s + 1 > Len(Run!Stages) => s = Len(Run!Stages) BY <1>5, RunStages
      <4>2. Run!SnapshotIsValid(a) => Run!SnapshotIsValid(a)'
        BY <1>2, <2>2, <2>5 DEF Run!SnapshotIsValid
      <4> QED BY <1>8, <4>1, <4>2
    <3> HIDE DEF s, i
    <3> QED BY <1>2, <2>2, <2>5, <3>1, <3>2, <3>3, <3>4 DEF Run!OnStage
  <2>8. \A b \in Run!Attempts : workers'[b] = workers[b] \/ Run!OnStage(b)'
    BY <2>5, <2>7 DEF Run!Attempts
  <2>9. Run!LateInv' /\ Run!FencedInv' BY <1>2, <2>6, RunLateKept, RunFenceKept
  <2>10. Run!PinnedRunsRecover'
    BY <1>2, <1>8 DEF Run!IndInv, Run!PinnedRunsRecover, Run!FailsOnlyForCause
  <2> QED BY <1>1, <1>2, <1>8, <2>6, <2>8, <2>9, <2>10, RunStep
<1>9. ASSUME ~(tasks[i].state = "completed" /\ (s = Len(Run!Stages) => Run!SnapshotIsValid(a))), Run!Fail(a)
      PROVE  Run!IndInv'
  <2>1. ASSUME mode # "request", run.life = "running" PROVE failures > 0
    <3>1. CASE tasks[i].state # "completed"
      <4>1. tasks[i].state \in {"failed", "canceled"}
        BY <1>2, <1>7, <3>1 DEF Run!Tasks, Run!Terminal
      <4>2. tasks[i].state # "canceled" BY <1>7, <2>1 DEF Run!OnTask, Run!IndInv, Run!FencedInv
      <4> QED BY <1>7, <2>1, <4>1, <4>2 DEF Run!OnTask
    <3>2. CASE s = Len(Run!Stages) /\ ~Run!SnapshotIsValid(a)
      <4>1. mode = "brief" BY <1>1, <2>1, <3>2 DEF Run!SnapshotIsValid
      <4>2. Len(Run!Stages) = 4 /\ Run!Stages[2] = "planner" BY <4>1, RunStages
      <4>3. 2 \in 1 .. s - 1 BY <3>2, <4>2
      <4>4. tasks["planner"] # None BY <1>4, <4>2, <4>3 DEF Run!OnStage
      <4>5. tasks["planner"].input = 0 /\ workers[a].input = 0
        BY <4>1, <4>4, RunStages DEF Run!IndInv, Run!PinnedInv
      <4> QED BY <3>2, <4>5 DEF Run!SnapshotIsValid
    <3> QED BY <1>9, <3>1, <3>2
  <2> QED BY <1>2, <1>9, <2>1, RunStops
<1> HIDE DEF s, i
<1> QED BY <1>8, <1>9 DEF Run!Settled, s, i

\* _execute's end publishes what the Tasks made of the brief that this execution works on.
LEMMA RunPublishes ==
    ASSUME Run!OrchestratorAssumption, Run!IndInv, NEW a \in Run!Attempts, Run!Publish(a)
    PROVE  Run!IndInv'
<1> DEFINE w == [workers[a] EXCEPT !.at = "over"]
           life == IF publishable \/ mode = "ask" THEN "completed" ELSE "failed"
           error == IF publishable \/ mode = "ask" THEN None ELSE "VALIDATION_BLOCKED"
<1>1. /\ workers \in Seq(Run!Workers) /\ workers[a] \in Run!Workers /\ run \in Run!RunRows
  BY RunFacts
<1>2. UNCHANGED <<mode, publishable, tasks, cancel, failures>> /\ workers[a].at = "publish"
  BY DEF Run!Publish, Run!At
<1>3. CASE Run!StopCanceled(a) BY <1>2, <1>3, RunStops
<1>4. CASE /\ run.life = "running" /\ Run!Goto(a, "over")
           /\ run' = [run EXCEPT !.life = life, !.error = error, !.result = workers[a].input,
                                 !.holder = 0]
  <2>1. /\ w \in Run!Workers /\ w.at = "over" /\ w.stage = workers[a].stage
        /\ w.input = workers[a].input /\ workers[a].input \in Nat /\ workers[a].stage \in Nat
    BY <1>1 DEF Run!Workers
  <2>2. workers' = [workers EXCEPT ![a] = w] BY <1>1, <1>4 DEF Run!Goto, Run!Workers
  <2>3. /\ life \in {"completed", "failed"} /\ error \in {None, "VALIDATION_BLOCKED"}
        /\ life = "failed" => error = "VALIDATION_BLOCKED"
    OBVIOUS
  <2> HIDE DEF w, life, error
  <2>4. /\ run' \in Run!RunRows /\ run'.life = life /\ run'.error = error
        /\ run'.result = workers[a].input
    BY <1>1, <1>4, <2>1, <2>3 DEF Run!RunRows, Run!Terminal
  <2>5. Run!ResultInv'
    <3>1. ASSUME mode # "ask" PROVE /\ tasks["planner"] # None /\ tasks["planner"].state = "completed"
                                   /\ tasks["planner"].input = workers[a].input
      <4>1. Run!OnStage(a) BY DEF Run!IndInv, Run!StageInv
      <4>2. Len(Run!Stages) = 4 /\ Run!Stages[2] = "planner" BY <3>1, RunStages
      <4>3. workers[a].stage > Len(Run!Stages) BY <1>2, <4>1 DEF Run!OnStage
      <4>4. 2 \in 1 .. workers[a].stage - 1 BY <2>1, <4>2, <4>3
      <4> QED BY <3>1, <4>1, <4>2, <4>3, <4>4 DEF Run!OnStage, Run!SnapshotIsValid
    <3> QED BY <1>2, <2>4, <3>1 DEF Run!ResultInv
  <2>6. RunAccounts BY <1>4, <2>3, <2>4, <2>5 DEF RunAccounts
  <2> QED BY <1>2, <2>1, <2>2, <2>6, RunWalks DEF RunPast
<1> QED BY <1>3, <1>4 DEF Run!Publish

\* A step that takes only the lease, or moves only the cancellation.
LEMMA RunRests ==
    ASSUME Run!OrchestratorAssumption, Run!IndInv, UNCHANGED <<mode, publishable, workers, tasks, failures>>,
           cancel' \in [at : {"idle", "list", "each", "done"}, left : SUBSET (DOMAIN Run!Stages)],
           cancel.at \in {"each", "done"} => cancel'.at \in {"each", "done"},
           RunAccounts, RunProceeds => Run!FencedInv'
    PROVE  Run!IndInv'
<1>1. /\ workers \in Seq(Run!Workers) /\ failures \in Nat /\ tasks \in [Run!Interfaces -> Run!Tasks \cup {None}]
  BY RunFacts
<1>2. RunProceeds
  <2>1. \A i \in Run!Interfaces : RunKeeps(i) BY DEF RunKeeps
  <2>2. failures <= failures BY <1>1
  <2> QED BY <1>1, <2>1, <2>2 DEF RunProceeds, RunAccounts
<1>3. Run!LateInv' BY <1>2, RunLateKept
<1>4. Run!PinnedRunsRecover' BY DEF Run!PinnedRunsRecover, Run!FailsOnlyForCause, RunAccounts
<1>5. run'.result = run.result \/ Run!ResultInv' BY DEF RunAccounts
<1> QED BY <1>2, <1>3, <1>4, <1>5, RunStep

\* The end of a lease, and the cancellation up to the single Tasks.
LEMMA RunCancels ==
    ASSUME Run!OrchestratorAssumption, Run!IndInv,
           \/ \E a \in 1 .. MaxAttempts : Run!LeaseExpires(a)
           \/ Run!RequestCancel \/ Run!ListTasks \/ Run!FinishCanceled
    PROVE  Run!IndInv'
<1>1. /\ run \in Run!RunRows
      /\ cancel \in [at : {"idle", "list", "each", "done"}, left : SUBSET (DOMAIN Run!Stages)]
  BY RunFacts
<1>2. UNCHANGED <<mode, publishable, workers, tasks, failures>> /\ Run!Stages' = Run!Stages
  BY DEF Run!LeaseExpires, Run!RequestCancel, Run!ListTasks, Run!FinishCanceled, Run!Stages
<1>3. mode # "request" /\ ~run.saved =>
        (run.life = "failed" => failures > 0 \/ run.error = "VALIDATION_BLOCKED")
  BY DEF Run!IndInv, Run!PinnedRunsRecover, Run!FailsOnlyForCause
<1>4. Run!FencedInv BY DEF Run!IndInv
<1>5. CASE \E a \in 1 .. MaxAttempts : Run!LeaseExpires(a)
  <2>1. run' = [run EXCEPT !.holder = 0] /\ cancel' = cancel BY <1>5 DEF Run!LeaseExpires
  <2>2. /\ run' \in Run!RunRows /\ run'.life = run.life /\ run'.saved = run.saved
        /\ run'.error = run.error /\ run'.result = run.result
    BY <1>1, <2>1 DEF Run!RunRows
  <2>3. RunAccounts BY <1>3, <2>2 DEF RunAccounts
  <2>4. RunProceeds => Run!FencedInv' BY <1>2, <2>1, RunFenceKept
  <2> QED BY <1>1, <1>2, <2>1, <2>3, <2>4, RunRests
<1>6. CASE Run!RequestCancel
  <2>1. /\ run' = [run EXCEPT !.life = "cancel_requested", !.holder = 0]
        /\ cancel' = [cancel EXCEPT !.at = "list"] /\ cancel.at = "idle"
    BY <1>6 DEF Run!RequestCancel
  <2>2. /\ run' \in Run!RunRows /\ run'.life = "cancel_requested" /\ run'.saved = run.saved
        /\ run'.error = run.error /\ run'.result = run.result
    BY <1>1, <2>1 DEF Run!RunRows
  <2>3. RunAccounts BY <2>2 DEF RunAccounts
  <2>4. /\ cancel' \in [at : {"idle", "list", "each", "done"}, left : SUBSET (DOMAIN Run!Stages)]
        /\ cancel'.at = "list" /\ cancel'.left = cancel.left
    BY <1>1, <2>1
  <2>5. Run!FencedInv' BY <1>2, <1>4, <2>2, <2>4 DEF Run!FencedInv
  <2> QED BY <1>2, <2>1, <2>3, <2>4, <2>5, RunRests
<1>7. CASE Run!ListTasks
  <2>1. cancel' = [at |-> "each", left |-> Run!RunTasks] /\ run' = run /\ cancel.at = "list"
    BY <1>7 DEF Run!ListTasks
  <2>2. Run!RunTasks \subseteq DOMAIN Run!Stages BY DEF Run!RunTasks
  <2>3. /\ cancel' \in [at : {"idle", "list", "each", "done"}, left : SUBSET (DOMAIN Run!Stages)]
        /\ cancel'.at = "each" /\ cancel'.left = Run!RunTasks
    BY <2>1, <2>2
  <2>4. RunAccounts BY <1>1, <1>3, <2>1 DEF RunAccounts
  <2>5. \A i \in Run!Interfaces : tasks[i] # None => \E n \in Run!RunTasks : Run!Stages[n] = i
    BY DEF Run!IndInv, Run!TaskInv, Run!OnTask, Run!RunTasks
  <2>6. \A n \in Run!RunTasks : tasks[Run!Stages[n]] # None BY DEF Run!RunTasks
  <2>7. Run!FencedInv' BY <1>2, <1>4, <2>1, <2>3, <2>5, <2>6 DEF Run!FencedInv
  <2> QED BY <1>2, <2>1, <2>3, <2>4, <2>7, RunRests
<1>8. CASE Run!FinishCanceled
  <2>1. /\ cancel' = [cancel EXCEPT !.at = "done"] /\ cancel.at = "each" /\ cancel.left = {}
        /\ run' = IF run.life \in Run!Terminal THEN run ELSE Run!Canceled(run)
    BY <1>8 DEF Run!FinishCanceled
  <2>2. /\ cancel' \in [at : {"idle", "list", "each", "done"}, left : SUBSET (DOMAIN Run!Stages)]
        /\ cancel'.at = "done" /\ cancel'.left = {}
    BY <1>1, <2>1
  <2>3. RunAccounts
    <3>1. CASE run' = run BY <1>1, <1>3, <3>1 DEF RunAccounts
    <3>2. CASE run' = Run!Canceled(run)
      <4>1. run' \in Run!RunRows /\ run'.life = "canceled" /\ run'.result = run.result
        BY <1>1, <3>2 DEF Run!RunRows, Run!Canceled, Run!Terminal
      <4> QED BY <4>1 DEF RunAccounts
    <3> QED BY <2>1, <3>1, <3>2
  <2>4. run'.life \notin {"queued", "running"} BY <1>4, <2>1, <2>3 DEF Run!FencedInv, RunAccounts
  <2>5. Run!FencedInv' BY <1>2, <1>4, <2>1, <2>2, <2>4 DEF Run!FencedInv
  <2> QED BY <1>2, <2>1, <2>2, <2>3, <2>5, RunRests
<1> QED BY <1>5, <1>6, <1>7, <1>8

\* A Task ends, or is left as it is.
LEMMA RunTouches ==
    ASSUME Run!OrchestratorAssumption, Run!IndInv, NEW i \in Run!Interfaces, NEW t \in Run!Tasks, tasks[i] # None,
           tasks' = [tasks EXCEPT ![i] = t], RunKeeps(i), Run!OnTask(i)',
           UNCHANGED <<mode, publishable, run, workers>>, failures' \in Nat, failures <= failures',
           cancel' \in [at : {"idle", "list", "each", "done"}, left : SUBSET (DOMAIN Run!Stages)],
           cancel.at \in {"each", "done"} => cancel'.at \in {"each", "done"},
           RunProceeds => Run!FencedInv'
    PROVE  Run!IndInv'
<1>1. /\ workers \in Seq(Run!Workers) /\ failures \in Nat /\ tasks \in [Run!Interfaces -> Run!Tasks \cup {None}]
      /\ run \in Run!RunRows
  BY RunFacts
<1>2. /\ tasks' \in [Run!Interfaces -> Run!Tasks \cup {None}] /\ tasks'[i] = t
      /\ \A j \in Run!Interfaces : j # i => tasks'[j] = tasks[j]
  BY <1>1
<1>3. RunProceeds
  <2>1. \A j \in Run!Interfaces : RunKeeps(j) BY <1>2 DEF RunKeeps
  <2> QED BY <1>1, <1>2, <2>1 DEF RunProceeds
<1>4. \A j \in Run!Interfaces : tasks[j] = None => tasks'[j] = None BY <1>2
<1>5. Run!LateInv' BY <1>3, <1>4, RunLateKept
<1>6. Run!PinnedRunsRecover' BY <1>1 DEF Run!IndInv, Run!PinnedRunsRecover, Run!FailsOnlyForCause
<1>7. \A j \in Run!Interfaces : tasks'[j] = tasks[j] \/ Run!OnTask(j)' BY <1>2
<1> QED BY <1>3, <1>4, <1>5, <1>6, <1>7, RunStep

\* An agent ends its Task with a plan of its own candidates, or for a reason.
LEMMA RunAgents ==
    ASSUME Run!OrchestratorAssumption, Run!IndInv, NEW i \in Run!Interfaces, NEW outcome \in {"completed", "failed"},
           Run!AgentEnds(i, outcome)
    PROVE  Run!IndInv'
<1> DEFINE t == [tasks[i] EXCEPT !.state = outcome, !.jobs = {}]
<1>1. /\ tasks \in [Run!Interfaces -> Run!Tasks \cup {None}] /\ failures \in Nat /\ failures + 1 \in Nat
      /\ cancel \in [at : {"idle", "list", "each", "done"}, left : SUBSET (DOMAIN Run!Stages)]
      /\ mode \in {"brief", "request", "ask"}
  BY RunFacts
<1>2. /\ tasks[i] # None /\ tasks[i].state = "open" /\ cancel' = cancel
      /\ UNCHANGED <<mode, publishable, run, workers>>
      /\ tasks' = [tasks EXCEPT ![i].state = outcome, ![i].jobs = {}]
  BY DEF Run!AgentEnds
<1>3. tasks[i] \in Run!Tasks /\ Run!OnTask(i) BY <1>1, <1>2 DEF Run!IndInv, Run!TaskInv
<1>4. /\ t \in Run!Tasks /\ t.state = outcome /\ t.input = tasks[i].input /\ t.by = tasks[i].by
      /\ t.late = tasks[i].late
  BY <1>3 DEF Run!Tasks, Run!Terminal
<1>5. tasks' = [tasks EXCEPT ![i] = t] BY <1>1, <1>2, <1>3 DEF Run!Tasks
<1> HIDE DEF t
<1>6. tasks'[i] = t /\ \A j \in Run!Interfaces : j # i => tasks'[j] = tasks[j] BY <1>1, <1>5
<1>7. t # None BY <1>4 DEF Run!OrchestratorAssumption
<1>8. RunKeeps(i) BY <1>2, <1>4, <1>6, <1>7 DEF RunKeeps
<1>9. failures' \in Nat /\ failures <= failures' BY <1>1 DEF Run!AgentEnds
<1>10. Run!OnTask(i)'
  <2>1. Run!Stages' = Run!Stages BY <1>2 DEF Run!Stages
  <2>2. \E n \in DOMAIN Run!Stages : Run!Stages[n] = i BY <1>3 DEF Run!OnTask
  <2>3. i = "planner" => tasks["research"] # None /\ tasks'["research"] = tasks["research"]
    BY <1>3, <1>6, RunStages DEF Run!OnTask
  <2>4. i = "planner" /\ outcome = "completed" => tasks["research"].input = tasks[i].input
    BY DEF Run!AgentEnds, Run!Accepts
  <2>5. outcome = "failed" => failures' > 0 \/ mode = "request"
    <3>1. CASE ~Run!Accepts(i)
      <4>1. i = "planner" /\ tasks["research"].input # tasks["planner"].input
        BY <3>1 DEF Run!Accepts
      <4>2. mode # "ask"
        <5>1. \E n \in DOMAIN Run!Stages : Run!Stages[n] = "planner" BY <2>2, <4>1
        <5> QED BY <5>1, RunStages
      <4>3. mode # "brief"
        <5>1. mode = "brief" => tasks["research"].input = 0 /\ tasks["planner"].input = 0
          BY <1>2, <2>3, <4>1, RunStages DEF Run!IndInv, Run!PinnedInv
        <5> QED BY <4>1, <5>1
      <4> QED BY <1>1, <4>2, <4>3
    <3>2. CASE Run!Accepts(i) /\ outcome = "failed"
      <4>1. failures' = failures + 1 BY <3>2 DEF Run!AgentEnds
      <4> QED BY <1>1, <4>1
    <3> QED BY <3>1, <3>2
  <2> QED BY <1>2, <1>4, <1>6, <2>1, <2>2, <2>3, <2>4, <2>5 DEF Run!OnTask
<1>11. RunProceeds => Run!FencedInv'
  <2>1. \A j \in Run!Interfaces : tasks[j] = None => tasks'[j] = None BY <1>2, <1>6
  <2> QED BY <1>2, <2>1, RunFenceKept
<1> QED BY <1>1, <1>2, <1>4, <1>5, <1>8, <1>9, <1>10, <1>11, RunTouches

\* cancel_run_tasks cancels the first of the Tasks that are left.
LEMMA RunCancelsTask ==
    ASSUME Run!OrchestratorAssumption, Run!IndInv, Run!CancelTask
    PROVE  Run!IndInv'
<1>1. /\ tasks \in [Run!Interfaces -> Run!Tasks \cup {None}] /\ failures \in Nat /\ failures <= failures
      /\ cancel \in [at : {"idle", "list", "each", "done"}, left : SUBSET (DOMAIN Run!Stages)]
  BY RunFacts
<1>2. PICK n \in cancel.left :
        /\ cancel' = [cancel EXCEPT !.left = @ \ {n}]
        /\ tasks' = [tasks EXCEPT ![Run!Stages[n]] =
                IF @.state = "open" THEN [@ EXCEPT !.state = "canceled", !.jobs = {}] ELSE @]
  BY DEF Run!CancelTask
<1>4. PICK i \in Run!Interfaces : i = Run!Stages[n] BY <1>1, <1>2, RunStages
<1> DEFINE t == IF tasks[i].state = "open" THEN [tasks[i] EXCEPT !.state = "canceled", !.jobs = {}]
                ELSE tasks[i]
<1>3. cancel.at = "each" /\ UNCHANGED <<mode, publishable, run, workers, failures>>
  BY DEF Run!CancelTask
<1>5. tasks[i] # None BY <1>2, <1>4 DEF Run!IndInv, Run!FencedInv
<1>6. tasks[i] \in Run!Tasks /\ Run!OnTask(i) BY <1>1, <1>4, <1>5 DEF Run!IndInv, Run!TaskInv
<1>7. /\ t \in Run!Tasks /\ t.input = tasks[i].input /\ t.by = tasks[i].by /\ t.late = tasks[i].late
      /\ (t.state = "canceled" /\ tasks[i].state = "open") \/ (t = tasks[i] /\ t.state # "open")
  BY <1>6 DEF Run!Tasks, Run!Terminal
<1>8. tasks' = [tasks EXCEPT ![i] = t] BY <1>1, <1>2, <1>4
<1>9. /\ cancel' \in [at : {"idle", "list", "each", "done"}, left : SUBSET (DOMAIN Run!Stages)]
      /\ cancel'.at = "each" /\ cancel'.left = cancel.left \ {n}
  BY <1>1, <1>2, <1>3
<1>10. Run!Stages' = Run!Stages BY <1>3 DEF Run!Stages
<1> HIDE DEF t
<1>11. tasks'[i] = t /\ \A j \in Run!Interfaces : j # i => tasks'[j] = tasks[j] BY <1>1, <1>4, <1>8
<1>12. t # None BY <1>7 DEF Run!OrchestratorAssumption
<1>13. RunKeeps(i) BY <1>7, <1>11, <1>12 DEF RunKeeps
<1>14. Run!OnTask(i)'
  <2>1. i = "planner" => tasks'["research"] = tasks["research"] BY <1>11, RunStages
  <2>2. t.state \in {"failed", "completed"} => t = tasks[i] BY <1>7
  <2> QED BY <1>3, <1>6, <1>7, <1>9, <1>10, <1>11, <2>1, <2>2 DEF Run!OnTask
<1>15. Run!FencedInv'
  <2>1. run.life \notin {"queued", "running"} BY <1>3 DEF Run!IndInv, Run!FencedInv
  <2>2. \A j \in Run!Interfaces : tasks[j] # None => tasks'[j] # None BY <1>11, <1>12
  <2>3. \A m \in cancel.left : Run!Stages[m] \in Run!Interfaces /\ tasks[Run!Stages[m]] # None
    BY <1>1, RunStages DEF Run!IndInv, Run!FencedInv
  <2>4. \A m \in cancel.left : tasks'[Run!Stages[m]] # None BY <2>2, <2>3
  <2>5. ASSUME NEW j \in Run!Interfaces, tasks'[j] # None, tasks'[j].state = "open", ~tasks'[j].late
        PROVE  \E m \in cancel.left \ {n} : Run!Stages[m] = j
    <3>1. j # i BY <1>7, <1>11, <2>5
    <3>2. tasks'[j] = tasks[j] BY <1>11, <3>1
    <3>3. \E m \in cancel.left : Run!Stages[m] = j BY <1>3, <2>5, <3>2 DEF Run!IndInv, Run!FencedInv
    <3> QED BY <1>4, <3>1, <3>3
  <2> QED BY <1>3, <1>9, <1>10, <2>1, <2>4, <2>5 DEF Run!FencedInv
<1> QED BY <1>1, <1>3, <1>4, <1>5, <1>7, <1>8, <1>9, <1>13, <1>14, <1>15, RunTouches

\* The process of an execution dies with its jobs.
LEMMA RunCrashes ==
    ASSUME Run!OrchestratorAssumption, Run!IndInv, NEW a \in Run!Attempts, Run!Crash(a)
    PROVE  Run!IndInv'
<1> DEFINE w == [workers[a] EXCEPT !.at = "crashed"]
<1>1. /\ workers \in Seq(Run!Workers) /\ Len(workers) \in Nat /\ workers[a] \in Run!Workers /\ run \in Run!RunRows
      /\ failures \in Nat /\ tasks \in [Run!Interfaces -> Run!Tasks \cup {None}]
      /\ cancel \in [at : {"idle", "list", "each", "done"}, left : SUBSET (DOMAIN Run!Stages)]
      /\ \A i \in Run!Interfaces : tasks[i] # None => tasks[i] \in Run!Tasks
  BY RunFacts
<1>2. UNCHANGED <<mode, publishable, cancel, failures>> BY DEF Run!Crash
<1>3. w \in Run!Workers /\ w.at = "crashed" /\ w.stage = workers[a].stage /\ w.input = workers[a].input
  BY <1>1 DEF Run!Workers
<1>4. workers' = [workers EXCEPT ![a] = w] BY <1>1 DEF Run!Crash, Run!Goto, Run!Workers
<1> HIDE DEF w
<1>5. a \in 1 .. Len(workers) BY DEF Run!Attempts
<1>6. /\ workers' \in Seq(Run!Workers) /\ Len(workers') = Len(workers) /\ workers'[a] = w
      /\ \A b \in 1 .. Len(workers) : b # a => workers'[b] = workers[b]
  BY <1>1, <1>3, <1>4, <1>5
<1>7. ASSUME NEW i \in Run!Interfaces
      PROVE  /\ tasks'[i] \in Run!Tasks \cup {None} /\ (tasks[i] = None => tasks'[i] = None) /\ RunKeeps(i)
             /\ tasks[i] # None => tasks'[i].state = tasks[i].state
  <2>1. tasks'[i] = IF tasks[i] = None THEN None ELSE [tasks[i] EXCEPT !.jobs = @ \ {a}]
    BY DEF Run!Crash
  <2>2. ASSUME tasks[i] # None
        PROVE  /\ tasks'[i] \in Run!Tasks /\ tasks'[i].state = tasks[i].state
               /\ tasks'[i].input = tasks[i].input /\ tasks'[i].by = tasks[i].by
               /\ tasks'[i].late = tasks[i].late
    <3>1. tasks[i] \in Run!Tasks BY <1>1, <2>2
    <3>2. tasks[i].jobs \ {a} \in SUBSET Nat BY <3>1 DEF Run!Tasks
    <3> QED BY <2>1, <2>2, <3>1, <3>2 DEF Run!Tasks
  <2>3. None \notin Run!Tasks BY DEF Run!OrchestratorAssumption
  <2> QED BY <2>1, <2>2, <2>3 DEF RunKeeps
<1>8. tasks' \in [Run!Interfaces -> Run!Tasks \cup {None}]
  <2>1. tasks' = [i \in Run!Interfaces |-> tasks'[i]] BY DEF Run!Crash
  <2> QED BY <1>7, <2>1
<1>9. /\ run' \in Run!RunRows /\ run'.life = run.life /\ run'.saved = run.saved
      /\ run'.error = run.error /\ run'.result = run.result
  <2>1. run.holder \in Nat /\ 0 \in Nat BY <1>1 DEF Run!RunRows
  <2> QED BY <1>1, <2>1 DEF Run!Crash, Run!RunRows
<1>10. RunProceeds
  <2>1. \A b \in Run!Attempts : /\ workers'[b].input = workers[b].input
                                /\ workers'[b].at \in RunPast \/ workers[b].at \notin RunPast
    BY <1>3, <1>6 DEF Run!Attempts, RunPast
  <2>2. failures' = failures /\ failures <= failures BY <1>1, <1>2
  <2> QED BY <1>1, <1>2, <1>6, <1>7, <1>8, <1>9, <2>1, <2>2 DEF RunProceeds
<1>11. Run!OnStage(a)' BY <1>3, <1>6, <1>10, RunPlaced
<1>12. \A b \in Run!Attempts : workers'[b] = workers[b] \/ Run!OnStage(b)'
  BY <1>6, <1>11 DEF Run!Attempts
<1>13. Run!LateInv' /\ Run!FencedInv' BY <1>2, <1>7, <1>10, RunLateKept, RunFenceKept
<1>14. Run!PinnedRunsRecover'
  BY <1>2, <1>9 DEF Run!IndInv, Run!PinnedRunsRecover, Run!FailsOnlyForCause
<1>15. \A i \in Run!Interfaces : tasks'[i] = tasks[i] \/ (tasks[i] # None /\ tasks'[i].state = tasks[i].state)
  BY <1>7
<1>16. \A i \in Run!Interfaces : tasks[i] = None => tasks'[i] = None BY <1>7
<1> QED BY <1>1, <1>2, <1>9, <1>10, <1>12, <1>13, <1>14, <1>15, <1>16, RunStep

\* An execution that finds its Task, or sends it, waits for it.
LEMMA RunWaits ==
    ASSUME Run!OrchestratorAssumption, Run!IndInv, NEW a \in Run!Attempts, workers[a].at \in {"dispatch", "send"},
           Run!Goto(a, "wait"), NEW i \in Run!Interfaces, i = Run!StageOf(a), NEW t \in Run!Tasks,
           tasks' = [tasks EXCEPT ![i] = t], RunKeeps(i),
           tasks[i] # None => t.state = tasks[i].state,
           tasks[i] = None => /\ t.state = "open" /\ t.input = workers[a].input /\ t.by = a
                              /\ t.late = (run.life # "running") /\ workers[a].at = "send",
           UNCHANGED <<mode, publishable, run, cancel, failures>>
    PROVE  Run!IndInv'
<1> DEFINE w == [workers[a] EXCEPT !.at = "wait"]
<1>1. /\ workers \in Seq(Run!Workers) /\ Len(workers) \in Nat /\ workers[a] \in Run!Workers /\ run \in Run!RunRows
      /\ failures \in Nat /\ tasks \in [Run!Interfaces -> Run!Tasks \cup {None}] /\ failures <= failures
      /\ cancel \in [at : {"idle", "list", "each", "done"}, left : SUBSET (DOMAIN Run!Stages)]
  BY RunFacts
<1>2. w \in Run!Workers /\ w.at = "wait" /\ w.stage = workers[a].stage /\ w.input = workers[a].input
  BY <1>1 DEF Run!Workers
<1>3. workers' = [workers EXCEPT ![a] = w] BY <1>1 DEF Run!Goto, Run!Workers
<1> HIDE DEF w
<1>4. a \in 1 .. Len(workers) BY DEF Run!Attempts
<1>5. /\ workers' \in Seq(Run!Workers) /\ Len(workers') = Len(workers) /\ workers'[a] = w
      /\ \A b \in 1 .. Len(workers) : b # a => workers'[b] = workers[b]
  BY <1>1, <1>2, <1>3, <1>4
<1>6. /\ tasks' \in [Run!Interfaces -> Run!Tasks \cup {None}] /\ tasks'[i] = t
      /\ \A j \in Run!Interfaces : j # i => tasks'[j] = tasks[j]
  BY <1>1
<1>7. t # None BY DEF Run!OrchestratorAssumption
<1>8. RunProceeds
  <2>1. \A j \in Run!Interfaces : RunKeeps(j) BY <1>6 DEF RunKeeps
  <2>2. \A b \in Run!Attempts : /\ workers'[b].input = workers[b].input
                                /\ workers'[b].at \in RunPast \/ workers[b].at \notin RunPast
    BY <1>2, <1>5 DEF Run!Attempts, RunPast
  <2> QED BY <1>1, <1>5, <1>6, <2>1, <2>2 DEF RunProceeds
<1>9. Run!OnStage(a) /\ workers[a].stage \in Nat BY <1>1 DEF Run!IndInv, Run!StageInv, Run!Workers
<1>10. workers[a].stage \in 1 .. Len(Run!Stages) /\ Run!Stages[workers[a].stage] = i
  BY <1>9, RunStages DEF Run!OnStage, Run!StageOf
<1>11. Run!OnStage(a)'
  <2>1. workers[a].stage <= Len(Run!Stages) /\ ~(workers[a].stage > Len(Run!Stages))
    BY <1>10, RunStages
  <2> QED BY <1>2, <1>5, <1>6, <1>7, <1>8, <2>1, RunPlaced
<1>12. \A b \in Run!Attempts : workers'[b] = workers[b] \/ Run!OnStage(b)'
  BY <1>5, <1>11 DEF Run!Attempts
<1>13. run'.result = run.result /\ Run!PinnedRunsRecover'
  BY DEF Run!IndInv, Run!PinnedRunsRecover, Run!FailsOnlyForCause
<1>14. CASE tasks[i] # None
  <2>1. \A j \in Run!Interfaces : tasks[j] = None => tasks'[j] = None BY <1>6, <1>14
  <2>2. Run!LateInv' /\ Run!FencedInv' BY <1>8, <2>1, RunLateKept, RunFenceKept
  <2>3. \A j \in Run!Interfaces : tasks'[j] = tasks[j] \/ (tasks[j] # None /\ tasks'[j].state = tasks[j].state)
    BY <1>6, <1>14
  <2> QED BY <1>1, <1>8, <1>12, <1>13, <2>1, <2>2, <2>3, RunStep
<1>15. CASE tasks[i] = None
  <2>1. /\ t.state = "open" /\ t.input = workers[a].input /\ t.by = a
        /\ t.late = (run.life # "running") /\ workers[a].at = "send"
    BY <1>15
  <2>2. Run!OnTask(i)'
    <3>1. \E n \in DOMAIN Run!Stages : Run!Stages[n] = i BY <1>10, RunStages
    <3>2. Run!Stages' = Run!Stages BY DEF Run!Stages
    <3>3. ASSUME i = "planner" PROVE tasks'["research"] # None
      <4>1. mode # "ask" BY <1>10, <3>3, RunStages
      <4>2. workers[a].stage # 1 BY <1>10, <3>3, <4>1, RunStages
      <4>3. 1 \in 1 .. workers[a].stage - 1 BY <1>9, <1>10, <4>2
      <4>4. tasks["research"] # None BY <1>9, <4>1, <4>3, RunStages DEF Run!OnStage
      <4> QED BY <1>6, <3>3, <4>4, RunStages
    <3> QED BY <1>6, <2>1, <3>1, <3>2, <3>3 DEF Run!OnTask
  <2>3. run.life # "queued" BY DEF Run!IndInv, Run!StartedInv
  <2>4. Run!FencedInv'
    <3>1. Run!Stages' = Run!Stages BY DEF Run!Stages
    <3>2. Run!FencedInv BY DEF Run!IndInv
    <3>3. \A n \in cancel.left : tasks'[Run!Stages[n]] # None
      <4>1. \A n \in cancel.left : Run!Stages[n] \in Run!Interfaces BY <1>1, RunStages
      <4> QED BY <1>6, <1>7, <3>2, <4>1 DEF Run!FencedInv
    <3>4. cancel.at \in {"each", "done"} => t.late BY <2>1, <3>2 DEF Run!FencedInv
    <3>5. cancel.at \in {"each", "done"} =>
            \A j \in Run!Interfaces : tasks'[j] # None /\ tasks'[j].state = "open" =>
                tasks'[j].late \/ (cancel.at = "each" /\ \E n \in cancel.left : Run!Stages[n] = j)
      BY <1>6, <3>2, <3>4 DEF Run!FencedInv
    <3> QED BY <3>1, <3>2, <3>3, <3>5 DEF Run!FencedInv
  <2>5. Run!LateInv'
    <3>1. Run!LateInv /\ Run!Attempts' = Run!Attempts
      BY <1>8 DEF Run!IndInv, RunProceeds, Run!Attempts
    <3>2. \A j \in Run!Interfaces : tasks[j] # None /\ tasks[j].late =>
            /\ tasks[j].by # a /\ tasks[j].by \in Run!Attempts /\ run.life \notin {"queued", "running"}
            /\ workers[tasks[j].by].at \in {"wait", "progress", "over", "acked", "crashed"}
      BY <2>1, <3>1 DEF Run!LateInv
    <3>3. \A j \in Run!Interfaces : tasks'[j] # None /\ tasks'[j].late =>
            /\ run'.life \notin {"queued", "running"} /\ tasks'[j].by \in Run!Attempts
            /\ workers'[tasks'[j].by].at \in {"wait", "progress", "over", "acked", "crashed"}
      <4> SUFFICES ASSUME NEW j \in Run!Interfaces, tasks'[j] # None, tasks'[j].late
                   PROVE  /\ run'.life \notin {"queued", "running"} /\ tasks'[j].by \in Run!Attempts
                          /\ workers'[tasks'[j].by].at \in {"wait", "progress", "over", "acked", "crashed"}
        OBVIOUS
      <4>1. CASE j = i BY <1>2, <1>5, <1>6, <2>1, <2>3, <4>1
      <4>2. CASE j # i
        <5>1. tasks'[j] = tasks[j] BY <1>6, <4>2
        <5>2. workers'[tasks[j].by] = workers[tasks[j].by] BY <1>5, <3>2, <5>1 DEF Run!Attempts
        <5> QED BY <3>2, <5>1, <5>2
      <4> QED BY <4>1, <4>2
    <3>4. \A j, k \in Run!Interfaces :
            /\ tasks'[j] # None /\ tasks'[j].late
            /\ tasks'[k] # None /\ tasks'[k].late /\ tasks'[j].by = tasks'[k].by
            => j = k
      BY <1>6, <2>1, <3>1, <3>2 DEF Run!LateInv
    <3> QED BY <3>1, <3>3, <3>4 DEF Run!LateInv
  <2>6. \A j \in Run!Interfaces : tasks'[j] = tasks[j] \/ Run!OnTask(j)' BY <1>6, <2>2
  <2>7. \A j \in Run!Interfaces : tasks[j] = None /\ mode = "brief" /\ tasks'[j] # None => tasks'[j].input = 0
    BY <1>6, <2>1 DEF Run!IndInv, Run!PinnedInv
  <2> QED BY <1>1, <1>8, <1>12, <1>13, <2>4, <2>5, <2>6, <2>7, RunStep
<1> QED BY <1>14, <1>15

\* recover_dispatch and send_message.
LEMMA RunDispatches ==
    ASSUME Run!OrchestratorAssumption, Run!IndInv, NEW a \in Run!Attempts, Run!RecoverDispatch(a) \/ Run!SendMessage(a)
    PROVE  Run!IndInv'
<1>1. /\ workers \in Seq(Run!Workers) /\ Len(workers) \in Nat /\ workers[a] \in Run!Workers /\ run \in Run!RunRows
      /\ tasks \in [Run!Interfaces -> Run!Tasks \cup {None}]
  BY RunFacts
<1>2. Run!OnStage(a) /\ workers[a].stage \in Nat /\ workers[a].input \in Nat
  BY <1>1 DEF Run!IndInv, Run!StageInv, Run!Workers
<1>3. workers[a].at \in {"dispatch", "send"} /\ UNCHANGED <<mode, publishable, run, cancel, failures>>
  BY DEF Run!RecoverDispatch, Run!SendMessage, Run!At
<1>4. workers[a].stage \in 1 .. Len(Run!Stages) BY <1>2, <1>3, RunStages DEF Run!OnStage
<1>5. PICK i \in Run!Interfaces : i = Run!StageOf(a) BY <1>4, RunStages DEF Run!StageOf
<1>6. a \in Nat BY <1>1 DEF Run!Attempts
<1>7. ASSUME tasks[i] # None, tasks' = [tasks EXCEPT ![i] = Run!Launched(@, a)], Run!Goto(a, "wait")
      PROVE  Run!IndInv'
  <2> DEFINE t == Run!Launched(tasks[i], a)
  <2>1. tasks[i] \in Run!Tasks BY <1>1, <1>7
  <2>2. tasks[i].jobs \cup {a} \in SUBSET Nat BY <1>6, <2>1 DEF Run!Tasks
  <2>3. /\ t \in Run!Tasks /\ t.state = tasks[i].state /\ t.input = tasks[i].input
        /\ t.by = tasks[i].by /\ t.late = tasks[i].late
    BY <2>1, <2>2 DEF Run!Launched, Run!Tasks
  <2>4. tasks' = [tasks EXCEPT ![i] = t] /\ tasks'[i] = t BY <1>1, <1>7
  <2> HIDE DEF t
  <2>5. RunKeeps(i)
    <3>1. t # None BY <2>3 DEF Run!OrchestratorAssumption
    <3> QED BY <2>3, <2>4, <3>1 DEF RunKeeps
  <2> QED BY <1>3, <1>5, <1>7, <2>3, <2>4, <2>5, RunWaits
<1>8. CASE Run!RecoverDispatch(a) /\ tasks[i] = None
  <2> DEFINE w == [workers[a] EXCEPT !.at = "send"]
  <2>1. w \in Run!Workers /\ w.at = "send" /\ w.stage = workers[a].stage /\ w.input = workers[a].input
    BY <1>1 DEF Run!Workers
  <2>2. Run!Goto(a, "send") /\ UNCHANGED tasks BY <1>5, <1>8 DEF Run!RecoverDispatch
  <2>3. workers' = [workers EXCEPT ![a] = w] BY <1>1, <2>2 DEF Run!Goto, Run!Workers
  <2> HIDE DEF w
  <2>4. w.stage <= Len(Run!Stages) BY <1>4, <2>1, RunStages
  <2>5. mode # "request" /\ ~run.saved =>
          (run.life = "failed" => failures > 0 \/ run.error = "VALIDATION_BLOCKED")
    BY DEF Run!IndInv, Run!PinnedRunsRecover, Run!FailsOnlyForCause
  <2>6. RunAccounts BY <1>1, <1>3, <2>5 DEF RunAccounts
  <2>7. workers[a].at \notin RunPast BY <1>3 DEF RunPast
  <2> QED BY <1>3, <2>1, <2>2, <2>3, <2>4, <2>6, <2>7, RunWalks
<1>9. CASE Run!RecoverDispatch(a) /\ tasks[i] # None
  <2>1. tasks' = [tasks EXCEPT ![i] = Run!Launched(@, a)] /\ Run!Goto(a, "wait")
    BY <1>5, <1>9 DEF Run!RecoverDispatch
  <2> QED BY <1>7, <1>9, <2>1
<1>10. CASE Run!SendMessage(a) /\ tasks[i] # None
  <2>1. tasks' = [tasks EXCEPT ![i] = Run!Launched(@, a)] /\ Run!Goto(a, "wait")
    BY <1>1, <1>5, <1>10 DEF Run!SendMessage
  <2> QED BY <1>7, <1>10, <2>1
<1>11. CASE Run!SendMessage(a) /\ tasks[i] = None
  <2> DEFINE late == run.life # "running"
             t == [state |-> "open", input |-> workers[a].input, by |-> a, jobs |-> {a}, late |-> late]
  <2>1. tasks' = [tasks EXCEPT ![i] = t] /\ Run!Goto(a, "wait") /\ workers[a].at = "send"
    BY <1>1, <1>5, <1>11 DEF Run!SendMessage, Run!At
  <2>2. late \in BOOLEAN /\ {a} \in SUBSET Nat BY <1>6
  <2>3. late = (run.life # "running") OBVIOUS
  <2> HIDE DEF late
  <2>4. /\ t \in Run!Tasks /\ t.state = "open" /\ t.input = workers[a].input /\ t.by = a /\ t.late = late
    BY <1>2, <1>6, <2>2 DEF Run!Tasks
  <2> HIDE DEF t
  <2>5. RunKeeps(i) BY <1>11 DEF RunKeeps
  <2> QED BY <1>3, <1>5, <1>11, <2>1, <2>3, <2>4, <2>5, RunWaits
<1> QED BY <1>8, <1>9, <1>10, <1>11

\* A new execution has nothing behind it, and the payload's brief if there is one.
LEMMA RunClaims ==
    ASSUME Run!OrchestratorAssumption, Run!IndInv, Run!Claim
    PROVE  Run!IndInv'
<1> DEFINE a == Len(workers) + 1
           w == [at |-> "progress", stage |-> 1, input |-> Run!Input(a)]
<1>1. /\ workers \in Seq(Run!Workers) /\ Len(workers) \in Nat /\ run \in Run!RunRows
      /\ failures \in Nat /\ tasks \in [Run!Interfaces -> Run!Tasks \cup {None}]
      /\ cancel \in [at : {"idle", "list", "each", "done"}, left : SUBSET (DOMAIN Run!Stages)]
      /\ mode \in {"brief", "request", "ask"} /\ publishable \in BOOLEAN
  BY RunFacts
<1>2. /\ run.life \in {"queued", "running"} /\ workers' = Append(workers, w)
      /\ run' = [run EXCEPT !.holder = a, !.life = "running"]
      /\ UNCHANGED <<mode, publishable, tasks, cancel, failures>>
  BY DEF Run!Claim
<1>3. a \in Nat BY <1>1
<1>4. Run!Input(a) \in Nat /\ (mode = "brief" => Run!Input(a) = 0)
  BY <1>1, <1>3 DEF Run!Input, Run!Question
<1>5. w \in Run!Workers /\ w.at = "progress" /\ w.stage = 1 /\ w.input = Run!Input(a)
  BY <1>4 DEF Run!Workers
<1>6. /\ run' \in Run!RunRows /\ run'.life = "running" /\ run'.result = run.result
      /\ run'.saved = run.saved
  BY <1>1, <1>2, <1>3 DEF Run!RunRows
<1>7. a = Len(workers) + 1 OBVIOUS
<1> HIDE DEF w, a
<1>8. /\ workers' \in Seq(Run!Workers) /\ Len(workers') = a /\ workers'[a] = w
      /\ \A b \in 1 .. Len(workers) : workers'[b] = workers[b]
  BY <1>1, <1>2, <1>5, <1>7
<1>9. Run!Attempts' = Run!Attempts \cup {a} BY <1>1, <1>7, <1>8 DEF Run!Attempts
<1>10. Run!Stages' = Run!Stages BY <1>2 DEF Run!Stages
<1>11. Run!TypeOK' BY <1>1, <1>2, <1>6, <1>8, <1>10 DEF Run!TypeOK
<1>12. Run!StageInv'
  <2>1. ASSUME NEW b \in Run!Attempts PROVE Run!OnStage(b)'
    <3>1. workers'[b] = workers[b] BY <1>8 DEF Run!Attempts
    <3>2. Run!OnStage(b) BY DEF Run!IndInv, Run!StageInv
    <3> QED BY <1>2, <1>10, <3>1, <3>2 DEF Run!OnStage, Run!StageOf, Run!SnapshotIsValid
  <2>2. workers'[a].stage = 1 /\ workers'[a].at = "progress" BY <1>5, <1>8
  <2>3. 1 \in 1 .. Len(Run!Stages) + 1 /\ ~(1 > Len(Run!Stages)) BY RunStages
  <2>4. 1 .. 1 - 1 = {} OBVIOUS
  <2>5. \A b \in {a} : Run!OnStage(b)' BY <1>10, <2>2, <2>3, <2>4 DEF Run!OnStage
  <2> QED BY <1>9, <2>1, <2>5 DEF Run!StageInv
<1>13. Run!TaskInv' BY <1>2, <1>10 DEF Run!IndInv, Run!TaskInv, Run!OnTask
<1>14. Run!PinnedInv'
  <2>1. mode = "brief" => \A b \in Run!Attempts : workers'[b].input = 0
    BY <1>8 DEF Run!IndInv, Run!PinnedInv, Run!Attempts
  <2>2. mode = "brief" => workers'[a].input = 0 BY <1>4, <1>5, <1>8
  <2>3. mode = "brief" => \A b \in Run!Attempts' : workers'[b].input = 0 BY <1>9, <2>1, <2>2
  <2> QED BY <1>2, <2>3 DEF Run!IndInv, Run!PinnedInv
<1>15. Run!FencedInv' BY <1>2, <1>10 DEF Run!IndInv, Run!FencedInv
<1>16. Run!LateInv'
  <2>1. \A i \in Run!Interfaces : tasks[i] # None => ~tasks[i].late
    BY <1>2 DEF Run!IndInv, Run!LateInv
  <2> QED BY <1>2, <2>1 DEF Run!LateInv
<1>17. Run!ResultInv' BY <1>2, <1>6 DEF Run!IndInv, Run!ResultInv
<1>18. Run!StartedInv' /\ Run!PinnedRunsRecover'
  BY <1>6 DEF Run!StartedInv, Run!PinnedRunsRecover, Run!FailsOnlyForCause
<1> QED BY <1>11, <1>12, <1>13, <1>14, <1>15, <1>16, <1>17, <1>18 DEF Run!IndInv

LEMMA RunInit ==
    ASSUME Run!OrchestratorAssumption, Run!Init
    PROVE  Run!IndInv
<1>1. /\ workers = <<>> /\ Len(workers) = 0 /\ Run!Attempts = {} /\ workers \in Seq(Run!Workers)
      /\ mode \in {"brief", "request", "ask"} /\ publishable \in BOOLEAN /\ failures \in Nat
  BY DEF Run!Init, Run!Attempts, Run!OrchestratorAssumption
<1>2. run \in Run!RunRows /\ run.life = "queued" /\ run.result = None BY DEF Run!Init, Run!RunRows
<1>3. \A i \in Run!Interfaces : tasks[i] = None BY DEF Run!Init
<1>4. tasks \in [Run!Interfaces -> Run!Tasks \cup {None}] BY DEF Run!Init
<1>5. /\ cancel \in [at : {"idle", "list", "each", "done"}, left : SUBSET (DOMAIN Run!Stages)]
      /\ cancel.at = "idle" /\ cancel.left = {}
  BY DEF Run!Init
<1>6. Run!TypeOK BY <1>1, <1>2, <1>4, <1>5 DEF Run!TypeOK
<1>7. Run!StageInv /\ Run!PinnedInv BY <1>1, <1>3 DEF Run!StageInv, Run!PinnedInv
<1>8. Run!TaskInv /\ Run!LateInv BY <1>3 DEF Run!TaskInv, Run!LateInv
<1>9. Run!FencedInv BY <1>5 DEF Run!FencedInv
<1>10. Run!ResultInv /\ Run!StartedInv /\ Run!PinnedRunsRecover
  BY <1>1, <1>2 DEF Run!ResultInv, Run!StartedInv, Run!PinnedRunsRecover, Run!FailsOnlyForCause
<1> QED BY <1>6, <1>7, <1>8, <1>9, <1>10 DEF Run!IndInv

\* A step that changes nothing.
LEMMA RunStutters ==
    ASSUME Run!IndInv, UNCHANGED Run!vars
    PROVE  Run!IndInv'
<1>1. UNCHANGED <<mode, publishable, run, workers, tasks, cancel, failures>> BY DEF Run!vars
<1>2. Run!Stages' = Run!Stages /\ Run!Attempts' = Run!Attempts BY <1>1 DEF Run!Stages, Run!Attempts
<1>3. Run!TypeOK' BY <1>1, <1>2 DEF Run!IndInv, Run!TypeOK
<1>4. Run!StageInv'
  BY <1>1, <1>2 DEF Run!IndInv, Run!StageInv, Run!OnStage, Run!StageOf, Run!SnapshotIsValid
<1>5. Run!TaskInv' BY <1>1, <1>2 DEF Run!IndInv, Run!TaskInv, Run!OnTask
<1>6. Run!PinnedInv' /\ Run!FencedInv' BY <1>1, <1>2 DEF Run!IndInv, Run!PinnedInv, Run!FencedInv
<1>7. Run!LateInv' BY <1>1, <1>2 DEF Run!IndInv, Run!LateInv
<1>8. Run!ResultInv' /\ Run!StartedInv' /\ Run!PinnedRunsRecover'
  BY <1>1, <1>2 DEF Run!IndInv, Run!ResultInv, Run!StartedInv, Run!PinnedRunsRecover, Run!FailsOnlyForCause
<1> QED BY <1>3, <1>4, <1>5, <1>6, <1>7, <1>8 DEF Run!IndInv

\* Every step keeps the invariant.
LEMMA RunSteps ==
    ASSUME Run!OrchestratorAssumption, Run!IndInv, [Run!Next]_(Run!vars)
    PROVE  Run!IndInv'
<1>1. CASE Run!Claim BY <1>1, RunClaims
<1>2. ASSUME NEW a \in 1 .. MaxAttempts, Run!WorkerStep(a) PROVE Run!IndInv'
  <2>1. a \in Run!Attempts
    BY <1>2 DEF Run!WorkerStep, Run!ProgressRead, Run!ProgressWrite, Run!RecoverDispatch, Run!SendMessage, Run!Settled,
                Run!Save, Run!Publish, Run!At
  <2> QED BY <1>2, <2>1, RunReports, RunDispatches, RunSettles, RunPublishes DEF Run!WorkerStep
<1>3. ASSUME NEW a \in 1 .. MaxAttempts, Run!Crash(a) \/ Run!LeaseLost(a) PROVE Run!IndInv'
  <2>1. a \in Run!Attempts BY <1>3 DEF Run!Crash, Run!LeaseLost
  <2> QED BY <1>3, <2>1, RunCrashes, RunReports
<1>4. CASE (\E a \in 1 .. MaxAttempts : Run!LeaseExpires(a)) \/ Run!RequestCancel \/ Run!ListTasks \/ Run!FinishCanceled
  BY <1>4, RunCancels
<1>5. ASSUME NEW i \in Run!Interfaces, NEW outcome \in {"completed", "failed"}, Run!AgentEnds(i, outcome)
      PROVE  Run!IndInv'
  BY <1>5, RunAgents
<1>6. CASE Run!CancelTask BY <1>6, RunCancelsTask
<1>7. CASE UNCHANGED Run!vars BY <1>7, RunStutters
<1> QED BY <1>1, <1>2, <1>3, <1>4, <1>5, <1>6, <1>7 DEF Run!Next, Run!CancelStep

\* What follows from the invariant.
LEMMA RunPromises ==
    ASSUME Run!IndInv
    PROVE  Run!RunIsCoherent
<1>1. Run!PinnedRunsRecover BY DEF Run!IndInv
<1>2. Run!ResultIsOneGraph
  <2>1. ASSUME run.result # None, mode # "ask"
        PROVE  tasks["research"].input = run.result /\ tasks["planner"].input = run.result
    <3>1. /\ tasks["planner"] # None /\ tasks["planner"].state = "completed"
          /\ tasks["planner"].input = run.result
      BY <2>1 DEF Run!IndInv, Run!ResultInv
    <3>2. Run!OnTask("planner") BY <3>1, RunStages DEF Run!IndInv, Run!TaskInv
    <3> QED BY <3>1, <3>2 DEF Run!OnTask
  <2> QED BY <2>1 DEF Run!ResultIsOneGraph
<1>3. Run!CancelReachesTasks BY DEF Run!IndInv, Run!FencedInv, Run!CancelReachesTasks
<1>4. Run!OneLateDispatch
  <2> SUFFICES ASSUME NEW a \in Run!Attempts
               PROVE  Run!Cardinality({i \in Run!Interfaces :
                          tasks[i] # None /\ tasks[i].late /\ tasks[i].by = a}) <= 1
    BY DEF Run!OneLateDispatch
  <2> DEFINE L == {i \in Run!Interfaces : tasks[i] # None /\ tasks[i].late /\ tasks[i].by = a}
  <2>0. Run!Cardinality(L) = Cardinality(L)
    BY DEF Run!Cardinality, Cardinality, Run!IsFiniteSet, IsFiniteSet
  <2>1. \A i, j \in L : i = j BY DEF Run!IndInv, Run!LateInv
  <2> HIDE DEF L
  <2>2. CASE L = {} BY <2>0, <2>2, FS_EmptySet DEF L
  <2>3. CASE L # {}
    <3>1. PICK i \in L : TRUE BY <2>3
    <3>2. L = {i} BY <2>1, <3>1
    <3>3. Cardinality(L) = 1 BY <3>2, FS_Singleton
    <3> QED BY <2>0, <3>3 DEF L
  <2> QED BY <2>2, <2>3
<1> QED BY <1>1, <1>2, <1>3, <1>4 DEF Run!RunIsCoherent

\* The inductive invariant of a Run that goes through the agents.
THEOREM OrchestrationInvariance == Run!OrchestratorAssumption => (Run!Spec => []Run!IndInv)
<1> SUFFICES ASSUME Run!OrchestratorAssumption PROVE Run!Spec => []Run!IndInv
  OBVIOUS
<1>1. Run!Init => Run!IndInv BY RunInit
<1>2. Run!IndInv /\ [Run!Next]_(Run!vars) => Run!IndInv' BY RunSteps
<1> QED BY <1>1, <1>2, PTL DEF Run!Spec

\* However the executions of a Run, its Tasks and a cancellation cross: a Run of a pinned brief
\* fails only for a cause, a published result is about one brief (build_candidate), the
\* cancellation reaches every Task that was not sent after it (cancel_run_tasks), and an
\* execution sends at most one such (_progress), for any number of executions and faults.
THEOREM OrchestrationSafety == Run!OrchestratorAssumption => (Run!Spec => []Run!RunIsCoherent)
<1>1. Run!IndInv => Run!RunIsCoherent BY RunPromises
<1> QED BY <1>1, OrchestrationInvariance, PTL

-----------------------------------------------------------------------------
(* The Run that the API process executes. *)

\* A requested cancellation is not overtaken.
LocalYields == inline.life = "cancel_requested" => inline'.life \in {"cancel_requested", "canceled"}

\* What is known of every state.
LEMMA LocalFacts ==
    ASSUME Local!IndInv
    PROVE  /\ inline \in Local!Runs /\ inline.version \in Nat /\ inline.version + 1 \in Nat
           /\ threads \in Seq(Local!Tasks) /\ Len(threads) \in Nat /\ DOMAIN threads = Local!TaskIds
           /\ \A t \in Local!TaskIds : /\ threads[t] \in Local!Tasks /\ threads[t].at \in Local!Places
                                       /\ threads[t].seen \in Nat /\ threads[t].canceled \in BOOLEAN
           /\ entry \in 0 .. Len(threads) /\ forgets \in Nat /\ errors \in Nat
           /\ forgets + 1 \in Nat /\ errors + 1 \in Nat
           /\ caller \in [at : {"idle", "propagate", "lookup", "read", "write"}, ok : BOOLEAN,
                          seen : Nat]
           /\ access \in BOOLEAN /\ process \in {"up", "closing", "down"}
<1>1. Local!TypeOK BY DEF Local!IndInv
<1>2. inline \in Local!Runs /\ inline.version \in Nat /\ inline.version + 1 \in Nat
  BY <1>1 DEF Local!TypeOK, Local!Runs
<1>3. threads \in Seq(Local!Tasks) /\ Len(threads) \in Nat /\ DOMAIN threads = Local!TaskIds
  BY <1>1 DEF Local!TypeOK, Local!TaskIds
<1>4. \A t \in Local!TaskIds : threads[t] \in Local!Tasks BY <1>3
<1>5. \A x \in Local!Tasks : x.at \in Local!Places /\ x.seen \in Nat /\ x.canceled \in BOOLEAN
  BY DEF Local!Tasks
<1> QED BY <1>1, <1>2, <1>3, <1>4, <1>5 DEF Local!TypeOK

\* Task t goes on to x.
LEMMA LocalTask ==
    ASSUME Local!IndInv, NEW t \in Local!TaskIds, NEW where \in Local!Places, NEW seen \in Nat, Local!Move(t, where, seen)
    PROVE  /\ threads' \in Seq(Local!Tasks) /\ Len(threads') = Len(threads) /\ Local!TaskIds' = Local!TaskIds
           /\ forgets' \in Nat
           /\ threads'[t].at = where /\ threads'[t].seen = seen /\ threads'[t].canceled = FALSE
           /\ \A u \in Local!TaskIds : u # t => threads'[u] = threads[u]
<1> DEFINE x == [at |-> where, seen |-> seen, canceled |-> FALSE]
<1>1. x \in Local!Tasks /\ x.at = where /\ x.seen = seen /\ x.canceled = FALSE BY DEF Local!Tasks
<1>2. threads' = [threads EXCEPT ![t] = x] BY DEF Local!Move
<1> HIDE DEF x
<1>3. threads \in Seq(Local!Tasks) /\ t \in DOMAIN threads /\ DOMAIN threads = Local!TaskIds
  BY LocalFacts
<1>4. threads' \in Seq(Local!Tasks) /\ Len(threads') = Len(threads) BY <1>1, <1>2, <1>3
<1>5. Local!TaskIds' = Local!TaskIds BY <1>4 DEF Local!TaskIds
<1>6. threads'[t] = x /\ \A u \in Local!TaskIds : u # t => threads'[u] = threads[u] BY <1>2, <1>3
<1>7. forgets' \in Nat BY LocalFacts DEF Local!Move
<1> QED BY <1>1, <1>4, <1>5, <1>6, <1>7

\* A step of a task that does not write the Run.
LEMMA LocalMoves ==
    ASSUME Local!IndInv, NEW t \in Local!TaskIds, NEW where \in Local!Places, NEW seen \in Nat, Local!Move(t, where, seen),
           inline' = inline, entry' = entry, caller' = caller, access' = access, process' = process,
           errors' \in Nat,
           where \in Local!InHand => threads[t].at \in Local!InHand,
           inline.life = "queued" => where \notin Local!Body \ {"start", "begin", "leave"},
           where \in Local!Writes => seen = inline.version /\ inline.life \in Local!Working,
           where \in Local!InHand \/ threads[t].at \notin Local!InHand \/ process # "up" \/ ~access
             \/ inline.life \notin Local!Working
    PROVE  Local!IndInv' /\ LocalYields
<1>1. /\ threads' \in Seq(Local!Tasks) /\ Len(threads') = Len(threads) /\ Local!TaskIds' = Local!TaskIds /\ forgets' \in Nat
      /\ threads'[t].at = where /\ threads'[t].seen = seen /\ threads'[t].canceled = FALSE
      /\ \A u \in Local!TaskIds : u # t => threads'[u] = threads[u]
  BY LocalTask
<1>2. inline.version \in Nat BY LocalFacts
<1>3. Local!TypeOK' BY <1>1 DEF Local!IndInv, Local!TypeOK
<1>4. Local!HandInv' BY <1>1 DEF Local!IndInv, Local!HandInv
<1>5. Local!VersionInv' BY <1>1, <1>2 DEF Local!IndInv, Local!VersionInv
<1>6. Local!StopInv' BY <1>1 DEF Local!IndInv, Local!StopInv
<1>7. Local!WorkInv' BY <1>1 DEF Local!IndInv, Local!WorkInv
<1> QED BY <1>3, <1>4, <1>5, <1>6, <1>7 DEF Local!IndInv, LocalYields

\* The Run is written, at the version that was read or to cancel it.
LEMMA LocalChanges ==
    ASSUME Local!IndInv, NEW t \in Local!TaskIds, NEW where \in Local!Places, NEW seen \in Nat, Local!Move(t, where, seen),
           NEW new \in Local!Runs, new.version = inline.version, Local!Changed(new),
           entry' = entry, caller' = caller, access' = access, process' = process,
           errors' = errors, new.life # "queued",
           \/ /\ threads[t].at \in Local!Writes /\ threads[t].seen = inline.version
              /\ IF where \in Local!InHand
                 THEN new.life = "running" /\ (where \in Local!Writes => seen = inline.version + 1)
                 ELSE new.life \notin Local!Working /\ where \notin Local!Writes
           \/ new.life = "canceled" /\ where \notin Local!InHand /\ where \notin Local!Writes
    PROVE  Local!IndInv' /\ LocalYields
<1>1. /\ threads' \in Seq(Local!Tasks) /\ Len(threads') = Len(threads) /\ Local!TaskIds' = Local!TaskIds /\ forgets' \in Nat
      /\ threads'[t].at = where /\ threads'[t].seen = seen /\ threads'[t].canceled = FALSE
      /\ \A u \in Local!TaskIds : u # t => threads'[u] = threads[u]
  BY LocalTask
<1>2. /\ inline.version \in Nat /\ inline'.version = inline.version + 1 /\ inline'.life = new.life
      /\ inline' \in Local!Runs
  BY LocalFacts DEF Local!Changed, Local!Runs
<1>3. Local!TypeOK' BY <1>1, <1>2 DEF Local!IndInv, Local!TypeOK
<1>4. Local!Writes \subseteq Local!InHand BY DEF Local!Writes, Local!InHand, Local!Body
<1>5. threads[t].at \in Local!Writes /\ threads[t].seen = inline.version => inline.life \in Local!Working
  BY DEF Local!IndInv, Local!VersionInv
<1>6. \/ /\ threads[t].at \in Local!InHand /\ inline.life \in Local!Working
         /\ \A u \in Local!TaskIds : u # t => threads[u].at \notin Local!InHand
      \/ new.life = "canceled" /\ where \notin Local!InHand
  BY <1>4, <1>5 DEF Local!IndInv, Local!HandInv
<1>7. Local!HandInv' BY <1>1, <1>2, <1>6 DEF Local!IndInv, Local!HandInv, Local!Working
<1>8. Local!VersionInv'
  <2> SUFFICES ASSUME NEW u \in Local!TaskIds, threads'[u].at \in Local!Writes
               PROVE  /\ threads'[u].seen <= inline'.version
                      /\ threads'[u].seen = inline'.version <=> inline'.life \in Local!Working
    BY <1>1 DEF Local!VersionInv
  <2>1. CASE u = t BY <1>1, <1>2, <1>4, <2>1 DEF Local!Working
  <2>2. CASE u # t
    <3>1. threads'[u] = threads[u] /\ threads[u].at \in Local!InHand BY <1>1, <1>4, <2>2
    <3>2. new.life = "canceled" BY <1>6, <2>2, <3>1
    <3>3. threads[u].seen <= inline.version /\ threads[u].seen \in Nat
      BY <3>1, LocalFacts DEF Local!IndInv, Local!VersionInv
    <3> QED BY <1>2, <3>1, <3>2, <3>3 DEF Local!Working
  <2> QED BY <2>1, <2>2
<1>9. inline.life \in Local!Stopped => inline'.life \in Local!Stopped
  BY <1>2, <1>6 DEF Local!Working, Local!Stopped, Local!Terminal
<1>10. Local!StopInv' BY <1>1, <1>9 DEF Local!IndInv, Local!StopInv
<1>11. Local!WorkInv'
  <2>1. inline'.life \in Local!Working => where \in Local!InHand BY <1>2, <1>6 DEF Local!Working
  <2> QED BY <1>1, <2>1 DEF Local!WorkInv
<1>12. LocalYields BY <1>2, <1>6 DEF LocalYields, Local!Working
<1> QED BY <1>3, <1>7, <1>8, <1>10, <1>11, <1>12 DEF Local!IndInv

\* mutate_run by a task, at the version it has read.
LEMMA LocalWrites ==
    ASSUME Local!IndInv, NEW t \in Local!TaskIds, threads[t].at \in Local!Writes, UNCHANGED Local!others,
           NEW new \in Local!Runs, new.version = inline.version, NEW next \in Local!Places, Local!Write(t, new, next),
           inline.life \in Local!Working =>
             /\ new.life # "queued"
             /\ IF next \in Local!InHand THEN new.life = "running"
                ELSE new.life \notin Local!Working /\ next \notin Local!Writes
    PROVE  Local!IndInv' /\ LocalYields
<1>1. /\ entry' = entry /\ caller' = caller /\ access' = access /\ process' = process
      /\ errors' = errors /\ errors \in Nat /\ inline.version + 1 \in Nat
  BY LocalFacts DEF Local!others
<1>2. inline.version = threads[t].seen <=> inline.life \in Local!Working
  BY DEF Local!IndInv, Local!VersionInv
<1>3. CASE inline.version = threads[t].seen /\ Local!Changed(new) /\ Local!Move(t, next, inline.version + 1)
  <2>1. /\ new.life # "queued"
        /\ IF next \in Local!InHand THEN new.life = "running"
           ELSE new.life \notin Local!Working /\ next \notin Local!Writes
    BY <1>2, <1>3
  <2> QED BY <1>1, <1>3, <2>1, LocalChanges
<1>4. CASE inline.version # threads[t].seen /\ Local!Move(t, "conflict", 0) /\ UNCHANGED inline
  <2>1. /\ "conflict" \in Local!Places /\ "conflict" \notin Local!InHand /\ "conflict" \notin Local!Body
        /\ "conflict" \notin Local!Writes
    BY DEF Local!Places, Local!InHand, Local!Body, Local!Writes
  <2> QED BY <1>1, <1>2, <1>4, <2>1, LocalMoves
<1> QED BY <1>3, <1>4 DEF Local!Write

\* Reads, the executor's return, and what interrupts a task.
LEMMA LocalReads ==
    ASSUME Local!IndInv, NEW t \in Local!TaskIds,
           \/ Local!Start(t) \/ Local!Progress(t) \/ Local!Work(t) \/ Local!Check(t) \/ Local!Leave(t) \/ Local!Interrupted(t)
           \/ Local!Denied(t) \/ Local!CancelRead(t) \/ Local!Conflict(t) \/ Local!FailRead(t)
    PROVE  Local!IndInv' /\ LocalYields
<1> DEFINE Goes(where, seen) ==
      /\ Local!Move(t, where, seen)
      /\ where \in Local!Places /\ seen \in Nat /\ (where \in Local!InHand => threads[t].at \in Local!InHand)
      /\ (inline.life = "queued" => where \notin Local!Body \ {"start", "begin", "leave"})
      /\ (where \in Local!Writes => seen = inline.version /\ inline.life \in Local!Working)
      /\ (\/ where \in Local!InHand \/ threads[t].at \notin Local!InHand \/ process # "up" \/ ~access
          \/ inline.life \notin Local!Working)
<1>1. /\ inline.version \in Nat /\ errors \in Nat /\ errors + 1 \in Nat
      /\ inline.life \in Local!Working \cup {"waiting_input"} \cup Local!Stopped
      /\ threads[t].at \in Local!Places
  BY LocalFacts DEF Local!Runs
<1>2. /\ inline.life = "queued" => threads[t].at \notin Local!Body \ {"start", "begin", "leave"}
      /\ inline.life = "waiting_input" => threads[t].at \notin Local!InHand
      /\ threads[t].canceled => process # "up" \/ inline.life \in Local!Stopped
  BY DEF Local!IndInv, Local!HandInv, Local!StopInv
<1>3. /\ inline' = inline /\ entry' = entry /\ caller' = caller /\ access' = access
      /\ process' = process /\ errors' \in Nat
  BY <1>1 DEF Local!others, Local!Start, Local!Progress, Local!Work, Local!Check, Local!Leave, Local!Interrupted, Local!Denied, Local!CancelRead, Local!Conflict,
              Local!FailRead
<1>4. ASSUME NEW where, NEW seen, Goes(where, seen) PROVE Local!IndInv' /\ LocalYields
  BY <1>3, <1>4, LocalMoves
<1> USE DEF Local!Places, Local!InHand, Local!Body, Local!Writes, Local!Working, Local!Stopped, Local!Terminal
<1>5. CASE Local!Start(t)
  <2>1. /\ threads[t].at = "start"
        /\ Local!Move(t, CASE inline.life = "queued"  -> "begin"
                     [] inline.life = "running" -> "progress"
                     [] OTHER                -> "done", inline.version)
    BY <1>5 DEF Local!Start, Local!Served, Local!At
  <2>2. CASE inline.life = "queued"
    <3>1. Goes("begin", inline.version) BY <1>1, <2>1, <2>2
    <3> QED BY <1>4, <3>1
  <2>3. CASE inline.life = "running"
    <3>1. Goes("progress", inline.version) BY <1>1, <2>1, <2>3
    <3> QED BY <1>4, <3>1
  <2>4. CASE inline.life \notin Local!Working
    <3>1. Goes("done", inline.version) BY <1>1, <2>1, <2>4
    <3> QED BY <1>4, <3>1
  <2> QED BY <2>2, <2>3, <2>4
<1>6. CASE Local!Progress(t)
  <2>1. /\ threads[t].at = "progress"
        /\ Local!Move(t, IF inline.life \in Local!Terminal \cup {"cancel_requested"} THEN "cancelRead" ELSE "report",
                inline.version)
    BY <1>6 DEF Local!Progress, Local!Served, Local!At
  <2>2. CASE inline.life \in Local!Stopped
    <3>1. Goes("cancelRead", inline.version) BY <1>1, <2>1, <2>2
    <3> QED BY <1>4, <3>1
  <2>3. CASE inline.life \notin Local!Stopped
    <3>1. Goes("report", inline.version) BY <1>1, <1>2, <2>1, <2>3
    <3> QED BY <1>4, <3>1
  <2> QED BY <2>2, <2>3
<1>7. CASE Local!Work(t)
  <2>1. threads[t].at = "work" /\ (Local!Move(t, "check", 0) \/ Local!Move(t, "failRead", 0))
    BY <1>7 DEF Local!Work, Local!At
  <2>2. Goes("check", 0) \/ Goes("failRead", 0) BY <1>1, <1>2, <2>1
  <2> QED BY <1>4, <2>2
<1>8. CASE Local!Check(t)
  <2>1. /\ threads[t].at = "check"
        /\ Local!Move(t, IF inline.life = "running" THEN "publish" ELSE "cancelRead", inline.version)
    BY <1>8 DEF Local!Check, Local!Served, Local!At
  <2>2. CASE inline.life = "running"
    <3>1. Goes("publish", inline.version) BY <1>1, <2>1, <2>2
    <3> QED BY <1>4, <3>1
  <2>3. CASE inline.life # "running"
    <3>1. Goes("cancelRead", inline.version) BY <1>1, <1>2, <2>1, <2>3
    <3> QED BY <1>4, <3>1
  <2> QED BY <2>2, <2>3
<1>9. CASE Local!Leave(t)
  <2>1. Goes("done", 0) BY <1>9 DEF Local!Leave, Local!At
  <2> QED BY <1>4, <2>1
<1>10. CASE Local!Interrupted(t)
  <2>1. threads[t].canceled /\ (Local!Move(t, "cancelRead", 0) \/ Local!Move(t, "done", 0))
    BY <1>10 DEF Local!Interrupted
  <2>2. Goes("cancelRead", 0) \/ Goes("done", 0) BY <1>1, <1>2, <2>1
  <2> QED BY <1>4, <2>2
<1>11. CASE Local!Denied(t)
  <2>1. /\ threads[t].at \notin {"work", "leave", "done"} /\ ~access
        /\ Local!Move(t, IF threads[t].at \in Local!Body THEN "failRead" ELSE "done", 0)
    BY <1>11 DEF Local!Denied
  <2>2. CASE threads[t].at \in Local!Body
    <3>1. Goes("failRead", 0) BY <2>1, <2>2
    <3> QED BY <1>4, <3>1
  <2>3. CASE threads[t].at \notin Local!Body
    <3>1. Goes("done", 0) BY <2>1, <2>3
    <3> QED BY <1>4, <3>1
  <2> QED BY <2>2, <2>3
<1>12. CASE Local!CancelRead(t)
  <2>1. /\ threads[t].at = "cancelRead"
        /\ Local!Move(t, IF inline.life \in Local!Terminal THEN "done" ELSE "cancelWrite", inline.version)
    BY <1>12 DEF Local!CancelRead, Local!Served, Local!At
  <2>2. Goes("done", inline.version) \/ Goes("cancelWrite", inline.version) BY <1>1, <2>1
  <2> QED BY <1>4, <2>2
<1>13. CASE Local!Conflict(t)
  <2>1. /\ threads[t].at = "conflict"
        /\ Local!Move(t, IF inline.life = "cancel_requested" THEN "cancelRead" ELSE "done", 0)
    BY <1>13 DEF Local!Conflict, Local!Served, Local!At
  <2>2. Goes("cancelRead", 0) \/ Goes("done", 0) BY <2>1
  <2> QED BY <1>4, <2>2
<1>14. CASE Local!FailRead(t)
  <2>1. /\ threads[t].at = "failRead"
        /\ Local!Move(t, CASE Local!Failable(inline.life)      -> "failWrite"
                     [] inline.life \in Local!Terminal   -> "done"
                     [] OTHER                   -> "cancelRead", inline.version)
    BY <1>14 DEF Local!FailRead, Local!Served, Local!At
  <2>2. CASE inline.life \notin Local!Stopped
    <3>1. Local!Failable(inline.life) /\ inline.life \notin Local!Terminal
      BY <2>2 DEF Local!Failable
    <3>2. Goes("failWrite", inline.version) BY <1>1, <1>2, <2>1, <2>2, <3>1
    <3> QED BY <1>4, <3>2
  <2>3. CASE inline.life \in Local!Terminal
    <3>1. ~Local!Failable(inline.life) BY <2>3 DEF Local!Failable
    <3>2. Goes("done", inline.version) BY <1>1, <2>1, <2>3, <3>1
    <3> QED BY <1>4, <3>2
  <2>4. CASE inline.life = "cancel_requested"
    <3>1. ~Local!Failable(inline.life) BY <2>4 DEF Local!Failable
    <3>2. Goes("cancelRead", inline.version) BY <1>1, <2>1, <2>4, <3>1
    <3> QED BY <1>4, <3>2
  <2> QED BY <1>1, <2>2, <2>3, <2>4
<1> QED BY <1>5, <1>6, <1>7, <1>8, <1>9, <1>10, <1>11, <1>12, <1>13, <1>14

\* Writes.
LEMMA LocalStores ==
    ASSUME Local!IndInv, NEW t \in Local!TaskIds,
           \/ Local!Begin(t) \/ Local!Ask(t) \/ Local!Report(t) \/ Local!Publish(t) \/ Local!Complete(t) \/ Local!CancelWrite(t)
           \/ Local!FailWrite(t)
    PROVE  Local!IndInv' /\ LocalYields
<1>1. /\ inline \in Local!Runs /\ inline.version \in Nat /\ inline.version + 1 \in Nat
      /\ UNCHANGED Local!others
  BY LocalFacts DEF Local!Begin, Local!Ask, Local!Report, Local!Publish, Local!Complete, Local!CancelWrite, Local!FailWrite
<1>2. /\ entry' = entry /\ caller' = caller /\ access' = access /\ process' = process
      /\ errors' = errors /\ errors \in Nat
  BY <1>1, LocalFacts DEF Local!others
<1>3. inline.life = "queued" => threads[t].at \notin Local!Body \ {"start", "begin", "leave"}
  BY DEF Local!IndInv, Local!HandInv
<1>4. \A life \in {"running", "waiting_input", "completed", "failed", "canceled"} :
        LET new == [inline EXCEPT !.life = life] IN
        new \in Local!Runs /\ new.version = inline.version /\ new.life = life
  BY <1>1 DEF Local!Runs, Local!Working, Local!Stopped, Local!Terminal
<1>5. LET new == [inline EXCEPT !.published = TRUE] IN
      new \in Local!Runs /\ new.version = inline.version /\ new.life = inline.life
  BY <1>1 DEF Local!Runs
<1>6. threads[t].at \in {"ask", "report", "publish", "complete", "block"} /\ inline.life \in Local!Working
        => inline.life = "running"
  BY <1>3 DEF Local!Body, Local!Working
<1>7. /\ {"ask", "progress", "work", "complete", "block"} \subseteq Local!Places \cap Local!InHand
      /\ "leave" \in Local!Places /\ "leave" \notin Local!InHand /\ "leave" \notin Local!Writes
      /\ "done" \in Local!Places /\ "done" \notin Local!InHand /\ "done" \notin Local!Writes
      /\ {"begin", "ask", "report", "publish", "complete", "block", "failWrite"} \subseteq Local!Writes
      /\ "cancelWrite" \notin Local!InHand
  BY DEF Local!Places, Local!InHand, Local!Body, Local!Writes
<1>8. CASE Local!Begin(t)
  <2>1. threads[t].at = "begin" /\ Local!Write(t, [inline EXCEPT !.life = "running"], IF inline.asks THEN "ask" ELSE "progress")
    BY <1>8 DEF Local!Begin, Local!Served, Local!At
  <2>2. (IF inline.asks THEN "ask" ELSE "progress") \in Local!Places \cap Local!InHand BY <1>7
  <2> QED BY <1>1, <1>4, <1>7, <2>1, <2>2, LocalWrites
<1>9. CASE Local!Ask(t)
  <2>1. threads[t].at = "ask" /\ Local!Write(t, [inline EXCEPT !.life = "waiting_input"], "leave")
    BY <1>9 DEF Local!Ask, Local!Served, Local!At
  <2> QED BY <1>1, <1>4, <1>7, <2>1, LocalWrites DEF Local!Working
<1>10. CASE Local!Report(t)
  <2>1. threads[t].at = "report" /\ Local!Write(t, inline, "work")
    BY <1>10 DEF Local!Report, Local!Served, Local!At
  <2> QED BY <1>1, <1>6, <1>7, <2>1, LocalWrites
<1>11. CASE Local!Publish(t)
  <2>1. /\ threads[t].at = "publish"
        /\ \/ Local!Write(t, [inline EXCEPT !.published = TRUE], "complete")
           \/ Local!Write(t, inline, "block")
    BY <1>11 DEF Local!Publish, Local!Served, Local!At
  <2> QED BY <1>1, <1>5, <1>6, <1>7, <2>1, LocalWrites
<1>12. CASE Local!Complete(t)
  <2>1. \/ threads[t].at = "complete" /\ Local!Write(t, [inline EXCEPT !.life = "completed"], "leave")
        \/ threads[t].at = "block" /\ Local!Write(t, [inline EXCEPT !.life = "failed"], "leave")
    BY <1>12 DEF Local!Complete, Local!Served, Local!At
  <2>2. {"completed", "failed"} \cap Local!Working = {} BY DEF Local!Working
  <2> QED BY <1>1, <1>4, <1>7, <2>1, <2>2, LocalWrites
<1>13. CASE Local!CancelWrite(t)
  <2>1. /\ threads[t].at = "cancelWrite" /\ Local!Move(t, "done", 0)
        /\ IF inline.version = threads[t].seen THEN Local!Changed([inline EXCEPT !.life = "canceled"])
           ELSE UNCHANGED inline
    BY <1>13 DEF Local!CancelWrite, Local!Served, Local!At
  <2>2. CASE inline' = inline BY <1>2, <1>7, <2>1, <2>2, LocalMoves DEF Local!Body
  <2>3. CASE Local!Changed([inline EXCEPT !.life = "canceled"])
    BY <1>2, <1>4, <1>7, <2>1, <2>3, LocalChanges
  <2> QED BY <2>1, <2>2, <2>3
<1>14. CASE Local!FailWrite(t)
  <2>1. /\ threads[t].at = "failWrite" /\ Local!Move(t, "done", 0)
        /\ IF inline.version = threads[t].seen THEN Local!Changed([inline EXCEPT !.life = "failed"])
           ELSE UNCHANGED inline
    BY <1>14 DEF Local!FailWrite, Local!Served, Local!At
  <2>2. inline.version = threads[t].seen <=> inline.life \in Local!Working
    BY <1>7, <2>1 DEF Local!IndInv, Local!VersionInv
  <2>3. CASE inline.version # threads[t].seen
    BY <1>2, <1>7, <2>1, <2>2, <2>3, LocalMoves DEF Local!Body
  <2>4. CASE inline.version = threads[t].seen
    <3>1. "failed" \notin Local!Working BY DEF Local!Working
    <3> QED BY <1>2, <1>4, <1>7, <2>1, <2>4, <3>1, LocalChanges
  <2> QED BY <2>3, <2>4
<1> QED BY <1>8, <1>9, <1>10, <1>11, <1>12, <1>13, <1>14

\* A row that gets another life keeps its type, and its version moves on.
LEMMA LocalRows ==
    ASSUME inline \in Local!Runs, inline.version + 1 \in Nat,
           NEW life \in Local!Working \cup {"waiting_input"} \cup Local!Stopped,
           Local!Changed([inline EXCEPT !.life = life])
    PROVE  inline' \in Local!Runs /\ inline'.version = inline.version + 1 /\ inline'.life = life
<1> DEFINE next == inline.version + 1
<1>1. inline' = [[inline EXCEPT !.life = life] EXCEPT !.version = next]
  BY DEF Local!Changed, Local!Runs
<1>2. next \in Nat OBVIOUS
<1> HIDE DEF next
<1>3. inline' \in Local!Runs /\ inline'.version = next /\ inline'.life = life
  BY <1>1, <1>2 DEF Local!Runs
<1> QED BY <1>3 DEF next

\* A step of the coordinator or of a caller of cancel, which leaves the tasks where they are.
LEMMA LocalCoordinates ==
    ASSUME Local!IndInv, threads' \in Seq(Local!Tasks), Len(threads') = Len(threads),
           \A t \in Local!TaskIds : threads'[t].at = threads[t].at /\ threads'[t].seen = threads[t].seen,
           entry' \in 0 .. Len(threads), forgets' \in Nat, errors' \in Nat, caller' \in
             [at : {"idle", "propagate", "lookup", "read", "write"}, ok : BOOLEAN, seen : Nat],
           access' \in BOOLEAN, access' => access,
           process' \in {"up", "closing", "down"}, process' = "up" => process = "up",
           \/ inline' = inline
           \/ \E life \in {"cancel_requested", "canceled"} :
                Local!Changed([inline EXCEPT !.life = life]) /\ (inline.life = "cancel_requested" => life = "canceled"),
           Local!StopInv'
    PROVE  Local!IndInv' /\ LocalYields
<1>1. inline \in Local!Runs /\ inline.version \in Nat /\ Local!TaskIds' = Local!TaskIds
  BY LocalFacts DEF Local!TaskIds
<1>2. \/ inline' = inline
      \/ /\ inline' \in Local!Runs /\ inline'.version = inline.version + 1
         /\ inline'.life \in {"cancel_requested", "canceled"}
  <2> SUFFICES ASSUME NEW life \in {"cancel_requested", "canceled"},
                      Local!Changed([inline EXCEPT !.life = life])
               PROVE  /\ inline' \in Local!Runs /\ inline'.version = inline.version + 1
                      /\ inline'.life \in {"cancel_requested", "canceled"}
    OBVIOUS
  <2>1. inline.version + 1 \in Nat BY <1>1
  <2>2. life \in Local!Working \cup {"waiting_input"} \cup Local!Stopped
    BY DEF Local!Working, Local!Stopped, Local!Terminal
  <2> QED BY <1>1, <2>1, <2>2, LocalRows DEF Local!Changed
<1>3. Local!TypeOK' BY <1>1, <1>2 DEF Local!IndInv, Local!TypeOK
<1>4. Local!HandInv' BY <1>1, <1>2 DEF Local!IndInv, Local!HandInv
<1>5. Local!VersionInv'
  <2> SUFFICES ASSUME NEW t \in Local!TaskIds, threads'[t].at \in Local!Writes
               PROVE  /\ threads'[t].seen <= inline'.version
                      /\ threads'[t].seen = inline'.version <=> inline'.life \in Local!Working
    BY <1>1 DEF Local!VersionInv
  <2>1. /\ threads'[t].seen = threads[t].seen /\ threads[t].seen \in Nat /\ threads[t].seen <= inline.version
        /\ threads[t].seen = inline.version <=> inline.life \in Local!Working
    BY LocalFacts DEF Local!IndInv, Local!VersionInv
  <2>2. CASE inline' = inline BY <2>1, <2>2
  <2>3. CASE inline' # inline
    <3>1. threads[t].seen <= inline.version + 1 /\ threads[t].seen # inline.version + 1
      BY <1>1, <2>1
    <3> QED BY <1>2, <2>1, <2>3, <3>1 DEF Local!Working
  <2> QED BY <2>2, <2>3
<1>6. Local!WorkInv' BY <1>1, <1>2 DEF Local!IndInv, Local!WorkInv, Local!Working
<1>7. LocalYields BY <1>2 DEF LocalYields
<1> QED BY <1>3, <1>4, <1>5, <1>6, <1>7 DEF Local!IndInv

\* The registered task, if there is one, is told to stop.
LEMMA LocalStops ==
    ASSUME Local!IndInv,
           threads' = IF entry = 0 THEN threads
                    ELSE [threads EXCEPT ![entry].canceled = @ \/ threads[entry].at # "done"]
    PROVE  /\ threads' \in Seq(Local!Tasks) /\ Len(threads') = Len(threads) /\ Local!TaskIds' = Local!TaskIds
           /\ \A t \in Local!TaskIds : threads'[t].at = threads[t].at /\ threads'[t].seen = threads[t].seen
<1>1. threads \in Seq(Local!Tasks) /\ entry \in 0 .. Len(threads) /\ Len(threads) \in Nat
      /\ DOMAIN threads = Local!TaskIds
  BY LocalFacts
<1>2. CASE entry = 0 BY <1>1, <1>2 DEF Local!TaskIds
<1>3. CASE entry # 0
  <2> DEFINE x == [threads[entry] EXCEPT !.canceled = @ \/ threads[entry].at # "done"]
  <2>1. entry \in Local!TaskIds BY <1>1, <1>3 DEF Local!TaskIds
  <2>2. x \in Local!Tasks /\ x.at = threads[entry].at /\ x.seen = threads[entry].seen
    <3>1. threads[entry] \in Local!Tasks BY <1>1, <2>1
    <3> QED BY <3>1 DEF Local!Tasks
  <2>3. threads' = [threads EXCEPT ![entry] = x] BY <1>3
  <2> HIDE DEF x
  <2>4. threads' \in Seq(Local!Tasks) /\ Len(threads') = Len(threads) BY <1>1, <2>1, <2>2, <2>3
  <2>5. \A t \in Local!TaskIds : threads'[t].at = threads[t].at /\ threads'[t].seen = threads[t].seen
    BY <1>1, <2>1, <2>2, <2>3
  <2> QED BY <2>4, <2>5 DEF Local!TaskIds
<1> QED BY <1>2, <1>3

\* resume: the new task is the only one with the Run in hand.
LEMMA LocalResumes ==
    ASSUME Local!IndInv, NEW replayed \in BOOLEAN, Local!Resume(replayed)
    PROVE  Local!IndInv' /\ LocalYields
<1>1. /\ inline \in Local!Runs /\ inline.version \in Nat /\ threads \in Seq(Local!Tasks) /\ Len(threads) \in Nat
      /\ entry \in 0 .. Len(threads) /\ forgets \in Nat /\ errors \in Nat
  BY LocalFacts
<1>2. CASE replayed
  <2>1. UNCHANGED Local!vars BY <1>2 DEF Local!Resume, Local!Starts, Local!vars
  <2>2. Local!IndInv'
    BY <2>1 DEF Local!vars, Local!IndInv, Local!TypeOK, Local!HandInv, Local!VersionInv, Local!StopInv, Local!WorkInv, Local!TaskIds
  <2> QED BY <2>1, <2>2 DEF Local!vars, LocalYields
<1>3. CASE ~replayed
  <2> DEFINE n == Len(threads) + 1
  <2>1. /\ inline.life = "waiting_input" /\ Local!Changed([inline EXCEPT !.life = "queued", !.asks = FALSE])
        /\ threads' = Append(threads, Local!NewTask) /\ entry' = n /\ forgets' = forgets /\ caller' = caller
        /\ access' = access /\ process' = process /\ errors' = errors
    BY <1>3 DEF Local!Resume, Local!Starts, Local!StartTask
  <2>2. inline' \in Local!Runs /\ inline'.life = "queued"
    <3>1. [inline EXCEPT !.asks = FALSE] \in Local!Runs BY <1>1 DEF Local!Runs
    <3>2. "queued" \in Local!Working \cup {"waiting_input"} \cup Local!Stopped BY DEF Local!Working
    <3>3. inline' = [[[inline EXCEPT !.asks = FALSE] EXCEPT !.life = "queued"]
                    EXCEPT !.version = inline.version + 1]
      BY <1>1, <2>1 DEF Local!Changed, Local!Runs
    <3>4. inline.version + 1 \in Nat BY <1>1
    <3> QED BY <3>1, <3>2, <3>3, <3>4 DEF Local!Runs
  <2>3. Local!NewTask \in Local!Tasks /\ Local!NewTask.at = "start" /\ Local!NewTask.canceled = FALSE
    BY DEF Local!NewTask, Local!Tasks, Local!Places, Local!Body
  <2>4. /\ threads' \in Seq(Local!Tasks) /\ Len(threads') = n /\ threads'[n] = Local!NewTask
        /\ \A t \in 1 .. Len(threads) : threads'[t] = threads[t]
    BY <1>1, <2>1, <2>3
  <2>5. Local!TaskIds' = Local!TaskIds \cup {n} BY <1>1, <2>4 DEF Local!TaskIds
  <2>6. \A t \in Local!TaskIds : threads'[t] = threads[t] /\ threads[t].at \notin Local!InHand
    BY <2>1, <2>4 DEF Local!IndInv, Local!HandInv, Local!TaskIds
  <2>7. Local!TypeOK'
    <3>1. entry' \in 0 .. Len(threads') BY <1>1, <2>1, <2>4
    <3> QED BY <2>1, <2>2, <2>4, <3>1 DEF Local!IndInv, Local!TypeOK
  <2> HIDE DEF n
  <2>8. \A t \in Local!TaskIds' : t = n \/ (t \in Local!TaskIds /\ threads'[t].at \notin Local!InHand)
    BY <2>5, <2>6
  <2>9. Local!HandInv'
    <3>1. \A w \in Local!Body \ {"start", "begin", "leave"} : w \in Local!InHand /\ w # "start"
      BY DEF Local!InHand, Local!Body
    <3> QED BY <2>2, <2>3, <2>4, <2>8, <3>1 DEF Local!HandInv
  <2>10. Local!VersionInv'
    <3>1. Local!Writes \subseteq Local!InHand /\ "start" \notin Local!Writes
      BY DEF Local!Writes, Local!InHand, Local!Body
    <3> QED BY <2>3, <2>4, <2>8, <3>1 DEF Local!VersionInv
  <2>11. Local!StopInv'
    <3>1. "waiting_input" \notin Local!Stopped BY DEF Local!Stopped, Local!Terminal
    <3>2. caller.at = "idle" BY <2>1, <3>1 DEF Local!IndInv, Local!StopInv
    <3>3. \A t \in Local!TaskIds : threads[t].canceled => process # "up"
      BY <2>1, <3>1 DEF Local!IndInv, Local!StopInv
    <3> QED BY <2>1, <2>3, <2>4, <2>5, <2>6, <3>2, <3>3 DEF Local!StopInv
  <2>12. Local!WorkInv'
    <3>1. n \in Local!TaskIds' /\ threads'[n].at \in Local!InHand
      BY <2>3, <2>4, <2>5 DEF Local!InHand, Local!Body
    <3> QED BY <3>1 DEF Local!WorkInv
  <2>13. LocalYields BY <2>1 DEF LocalYields
  <2> QED BY <2>7, <2>9, <2>10, <2>11, <2>12, <2>13 DEF Local!IndInv
<1> QED BY <1>2, <1>3

\* The rest of the coordinator.
LEMMA LocalCloses ==
    ASSUME Local!IndInv, Local!Forget \/ Local!RemoveMember \/ Local!Close \/ Local!Exit
    PROVE  Local!IndInv' /\ LocalYields
<1>1. /\ inline \in Local!Runs /\ threads \in Seq(Local!Tasks) /\ Len(threads) \in Nat
      /\ entry \in 0 .. Len(threads) /\ 0 \in 0 .. Len(threads) /\ forgets \in Nat /\ errors \in Nat
      /\ caller \in [at : {"idle", "propagate", "lookup", "read", "write"}, ok : BOOLEAN, seen : Nat]
      /\ access \in BOOLEAN /\ process \in {"up", "closing", "down"}
  BY LocalFacts
<1>2. CASE Local!Forget
  <2>1. /\ forgets > 0 /\ forgets' = forgets - 1 /\ entry' = 0
        /\ UNCHANGED <<inline, threads, caller, access, process, gathered, errors>>
    BY <1>2 DEF Local!Forget, Local!DropEntry
  <2>2. forgets' \in Nat BY <1>1, <2>1
  <2>3. Local!StopInv' BY <2>1 DEF Local!IndInv, Local!StopInv, Local!TaskIds
  <2> QED BY <1>1, <2>1, <2>2, <2>3, LocalCoordinates
<1>3. CASE Local!RemoveMember
  <2>1. access' = FALSE /\ UNCHANGED <<inline, threads, entry, forgets, caller, process, gathered, errors>>
    BY <1>3 DEF Local!RemoveMember
  <2>2. Local!StopInv' BY <2>1 DEF Local!IndInv, Local!StopInv, Local!TaskIds
  <2> QED BY <1>1, <2>1, <2>2, LocalCoordinates
<1>4. CASE Local!Close
  <2>1. /\ process' = "closing" /\ UNCHANGED <<inline, entry, forgets, caller, access, errors>>
        /\ threads' = IF entry = 0 THEN threads
                    ELSE [threads EXCEPT ![entry].canceled = @ \/ threads[entry].at # "done"]
    BY <1>4 DEF Local!Close
  <2>2. /\ threads' \in Seq(Local!Tasks) /\ Len(threads') = Len(threads)
        /\ \A t \in Local!TaskIds : threads'[t].at = threads[t].at /\ threads'[t].seen = threads[t].seen
    BY <2>1, LocalStops
  <2>3. Local!StopInv' BY <2>1 DEF Local!IndInv, Local!StopInv
  <2> QED BY <1>1, <2>1, <2>2, <2>3, LocalCoordinates
<1>5. CASE Local!Exit
  <2>1. process' = "down" /\ UNCHANGED <<inline, threads, entry, forgets, caller, access, gathered, errors>>
    BY <1>5 DEF Local!Exit
  <2>2. Local!StopInv' BY <2>1 DEF Local!IndInv, Local!StopInv
  <2> QED BY <1>1, <2>1, <2>2, LocalCoordinates
<1> QED BY <1>2, <1>3, <1>4, <1>5

\* cancel.
LEMMA LocalCancels ==
    ASSUME Local!IndInv, Local!RequestCancel \/ Local!CallerStep
    PROVE  Local!IndInv' /\ LocalYields
<1> DEFINE CallerStates == [at : {"idle", "propagate", "lookup", "read", "write"}, ok : BOOLEAN, seen : Nat]
<1>1. /\ inline \in Local!Runs /\ inline.version \in Nat /\ threads \in Seq(Local!Tasks) /\ Len(threads) \in Nat
      /\ entry \in 0 .. Len(threads) /\ forgets \in Nat /\ errors \in Nat /\ errors + 1 \in Nat
      /\ caller \in CallerStates /\ access \in BOOLEAN /\ process \in {"up", "closing", "down"}
  BY LocalFacts
<1>2. /\ caller.at # "idle" => inline.life \in Local!Stopped
      /\ \A t \in Local!TaskIds : threads[t].canceled => process # "up" \/ inline.life \in Local!Stopped
  BY DEF Local!IndInv, Local!StopInv
<1>3. /\ entry' = entry /\ forgets' = forgets /\ access' = access /\ process' = process
  BY DEF Local!RequestCancel, Local!CallerStep, Local!Propagate, Local!Lookup, Local!FinishRead, Local!FinishWrite
<1>4. \A where \in {"idle", "propagate", "lookup", "read", "write"}, ok \in BOOLEAN, n \in Nat :
        /\ [caller EXCEPT !.at = where] \in CallerStates
        /\ [caller EXCEPT !.at = where, !.ok = ok] \in CallerStates
        /\ [caller EXCEPT !.at = where, !.seen = n] \in CallerStates
  BY <1>1
<1>5. \A life \in {"cancel_requested", "canceled"} :
        Local!Changed([inline EXCEPT !.life = life]) => inline'.life = life
  BY <1>1 DEF Local!Changed, Local!Runs
<1>6. {"cancel_requested", "canceled"} \subseteq Local!Stopped BY DEF Local!Stopped, Local!Terminal
<1> HIDE DEF CallerStates
<1>7. CASE Local!RequestCancel
  <2>1. /\ caller' = [caller EXCEPT !.at = "propagate"] /\ threads' = threads /\ errors' = errors
        /\ IF inline.life = "cancel_requested" THEN UNCHANGED inline
           ELSE Local!Changed([inline EXCEPT !.life = "cancel_requested"])
    BY <1>7 DEF Local!RequestCancel
  <2>2. inline'.life \in Local!Stopped BY <1>5, <1>6, <2>1
  <2>3. Local!StopInv' BY <2>2 DEF Local!StopInv
  <2>4. caller' \in CallerStates BY <1>4, <2>1
  <2> QED BY <1>1, <1>3, <2>1, <2>3, <2>4, LocalCoordinates DEF CallerStates
<1>8. CASE Local!Propagate
  <2>1. /\ caller.at = "propagate" /\ inline' = inline /\ threads' = threads
        /\ errors' \in Nat
        /\ \E ok \in BOOLEAN : caller' = [caller EXCEPT !.at = "lookup", !.ok = ok]
    BY <1>1, <1>8 DEF Local!Propagate, Local!CallerAt
  <2>2. Local!StopInv' BY <1>2, <1>3, <2>1 DEF Local!StopInv, Local!TaskIds
  <2>3. caller' \in CallerStates BY <1>4, <2>1
  <2> QED BY <1>1, <1>3, <2>1, <2>2, <2>3, LocalCoordinates DEF CallerStates
<1>9. CASE Local!Lookup
  <2>1. /\ caller.at = "lookup" /\ inline' = inline /\ errors' = errors
        /\ threads' = IF entry = 0 THEN threads
                    ELSE [threads EXCEPT ![entry].canceled = @ \/ threads[entry].at # "done"]
        /\ \E where \in {"read", "idle"} : caller' = [caller EXCEPT !.at = where]
    BY <1>9 DEF Local!Lookup, Local!CallerAt
  <2>2. /\ threads' \in Seq(Local!Tasks) /\ Len(threads') = Len(threads)
        /\ \A t \in Local!TaskIds : threads'[t].at = threads[t].at /\ threads'[t].seen = threads[t].seen
    BY <2>1, LocalStops
  <2>3. Local!StopInv' BY <1>2, <2>1 DEF Local!StopInv
  <2>4. caller' \in CallerStates BY <1>4, <2>1
  <2> QED BY <1>1, <1>3, <2>1, <2>2, <2>3, <2>4, LocalCoordinates DEF CallerStates
<1>10. CASE Local!FinishRead
  <2>1. /\ caller.at = "read" /\ inline' = inline /\ threads' = threads /\ errors' = errors
        /\ \E where \in {"write", "idle"} :
              caller' = [caller EXCEPT !.at = where, !.seen = inline.version]
    BY <1>10 DEF Local!FinishRead, Local!CallerAt
  <2>2. Local!StopInv' BY <1>2, <1>3, <2>1 DEF Local!StopInv, Local!TaskIds
  <2>3. caller' \in CallerStates
    <3>1. inline.version \in Nat BY LocalFacts
    <3>2. PICK where \in {"write", "idle"} :
             caller' = [caller EXCEPT !.at = where, !.seen = inline.version]
      BY <2>1
    <3> QED BY <1>4, <3>1, <3>2
  <2> QED BY <1>1, <1>3, <2>1, <2>2, <2>3, LocalCoordinates DEF CallerStates
<1>11. CASE Local!FinishWrite
  <2>1. /\ caller.at = "write" /\ threads' = threads /\ errors' = errors
        /\ caller' = [caller EXCEPT !.at = "idle", !.seen = 0]
        /\ IF inline.version = caller.seen THEN Local!Changed([inline EXCEPT !.life = "canceled"])
           ELSE UNCHANGED inline
    BY <1>11 DEF Local!FinishWrite, Local!CallerAt
  <2>2. inline.life \in Local!Stopped /\ inline'.life \in Local!Stopped BY <1>2, <1>5, <1>6, <2>1
  <2>3. Local!StopInv' BY <2>2 DEF Local!StopInv
  <2>4. caller' \in CallerStates BY <1>4, <2>1
  <2> QED BY <1>1, <1>3, <2>1, <2>3, <2>4, LocalCoordinates DEF CallerStates
<1> QED BY <1>7, <1>8, <1>9, <1>10, <1>11 DEF Local!CallerStep

\* Every step keeps the invariant, and yields to a cancellation.
LEMMA LocalSteps ==
    ASSUME Local!IndInv, [Local!Next]_(Local!vars)
    PROVE  Local!IndInv' /\ LocalYields
<1>1. CASE UNCHANGED Local!vars
  <2>1. Local!IndInv'
    BY <1>1 DEF Local!vars, Local!IndInv, Local!TypeOK, Local!HandInv, Local!VersionInv, Local!StopInv, Local!WorkInv, Local!TaskIds
  <2> QED BY <1>1, <2>1 DEF Local!vars, LocalYields
<1>2. ASSUME NEW t \in Local!TaskIds, Local!TaskStep(t) PROVE Local!IndInv' /\ LocalYields
  BY <1>2, LocalReads, LocalStores DEF Local!TaskStep
<1> QED BY <1>1, <1>2, LocalResumes, LocalCloses, LocalCancels DEF Local!Next

\* A Run begins in the hands of its first task.
LEMMA LocalInit ==
    ASSUME Local!LocalAssumption, Local!Init
    PROVE  Local!IndInv
<1>1. Local!NewTask \in Local!Tasks /\ Local!NewTask.at = "start" /\ Local!NewTask.canceled = FALSE
  BY DEF Local!NewTask, Local!Tasks, Local!Places, Local!Body
<1>2. /\ threads = <<Local!NewTask>> /\ threads \in Seq(Local!Tasks) /\ Len(threads) = 1 /\ threads[1] = Local!NewTask
      /\ Local!TaskIds = {1}
  BY <1>1 DEF Local!Init, Local!TaskIds
<1>3. inline \in Local!Runs /\ inline.life = "queued"
  BY DEF Local!Init, Local!LocalAssumption, Local!Runs, Local!Working
<1>4. Local!TypeOK BY <1>2, <1>3 DEF Local!Init, Local!TypeOK
<1>5. Local!HandInv BY <1>1, <1>2, <1>3 DEF Local!HandInv
<1>6. Local!VersionInv BY <1>1, <1>2 DEF Local!VersionInv, Local!Writes
<1>7. Local!StopInv BY <1>1, <1>2 DEF Local!Init, Local!StopInv
<1>8. Local!WorkInv BY <1>1, <1>2 DEF Local!WorkInv, Local!InHand, Local!Body
<1> QED BY <1>4, <1>5, <1>6, <1>7, <1>8 DEF Local!IndInv

\* What follows from the invariant.
LEMMA LocalPromises ==
    ASSUME Local!IndInv
    PROVE  Local!RunHasTask /\ Local!OneExecution
<1>1. Local!RunHasTask
  <2>1. "done" \notin Local!InHand BY DEF Local!InHand, Local!Body
  <2> QED BY <2>1 DEF Local!IndInv, Local!WorkInv, Local!RunHasTask, Local!Working
<1>2. Local!OneExecution
  <2> DEFINE E == {t \in Local!TaskIds : threads[t].at \in Local!Body \ {"start", "leave"}}
  <2>1. \A t, u \in E : t = u BY DEF Local!IndInv, Local!HandInv, Local!InHand
  <2>0. Local!Cardinality(E) = Cardinality(E)
    BY DEF Local!Cardinality, Cardinality, Local!IsFiniteSet, IsFiniteSet
  <2>2. CASE E = {} BY <2>0, <2>2, FS_EmptySet DEF Local!OneExecution
  <2>3. CASE E # {}
    <3>1. PICK t \in E : TRUE BY <2>3
    <3>2. E = {t} BY <2>1, <3>1
    <3>3. Cardinality(E) = 1 BY <3>2, FS_Singleton
    <3> QED BY <2>0, <3>3 DEF Local!OneExecution
  <2> QED BY <2>2, <2>3
<1> QED BY <1>1, <1>2

\* The inductive invariant of a Run that is executed by the API process.
THEOREM LocalInvariance == Local!LocalAssumption => (Local!Spec => []Local!IndInv)
<1> SUFFICES ASSUME Local!LocalAssumption PROVE Local!Spec => []Local!IndInv
  OBVIOUS
<1>1. Local!Init => Local!IndInv BY LocalInit
<1>2. Local!IndInv /\ [Local!Next]_(Local!vars) => Local!IndInv' BY LocalSteps
<1> QED BY <1>1, <1>2, PTL DEF Local!Spec

\* However answers are repeated, callbacks delayed and tasks interrupted: a Run that needs work
\* has exactly one task that executes it (_start, _forget), and once a cancellation is requested
\* nothing else is written (_transition, _finish_canceled), for any number of tasks and faults.
THEOREM LocalSafety == Local!LocalAssumption => (Local!Spec => Local!ExecutionIsSafe)
<1> SUFFICES ASSUME Local!LocalAssumption PROVE Local!Spec => Local!ExecutionIsSafe
  OBVIOUS
<1>1. Local!Spec => []Local!IndInv BY LocalInvariance
<1>2. Local!IndInv => Local!RunHasTask /\ Local!OneExecution BY LocalPromises
<1>3. Local!IndInv /\ [Local!Next]_(Local!vars) =>
        [inline.life = "cancel_requested" => inline'.life \in {"cancel_requested", "canceled"}]_(Local!vars)
  BY LocalSteps DEF LocalYields
<1> QED BY <1>1, <1>2, <1>3, PTL DEF Local!Spec, Local!ExecutionIsSafe, Local!CancellationWins

-----------------------------------------------------------------------------
(* The streams of a Task. *)

\* What a stream x has sent and still holds is the stretch of the log up to its cursor.
Exact(x) ==
    \E a, b \in 0 .. Len(record.log) :
        /\ a <= b /\ Stream!Marks(a, x.from) /\ Stream!Marks(b, x.cursor) /\ x.from <= x.cursor
        /\ x.got \o x.todo = SubSeq(record.log, a + 1, b)

\* What the invariant says of one stream, and of one call of a writer.
StreamFits(x) ==
    /\ x.row # None => Stream!RowFits(x.row)
    /\ x.at = "open" => /\ x.row \in Stream!TaskRows /\ Stream!RowFits(x.row)
                        /\ x.snapshot = None /\ x.got = <<>> /\ x.todo = <<>>
    /\ x.at \in Stream!Following =>
        /\ x.snapshot \in Stream!Snapshots /\ x.cursor = x.snapshot.version /\ 1 <= x.cursor
        /\ x.cursor <= record.version /\ (x.at = "wait" => x.todo = <<>>) /\ Exact(x)
CallFits(x) ==
    /\ x.row # None => Stream!RowFits(x.row)
    /\ x.at # "get" =>
        /\ x.read \in Stream!Snapshots /\ x.read.version <= record.version
        /\ x.read.version = record.version => x.read.log = record.log

\* What is known of every state.
LEMMA StreamFacts ==
    ASSUME Stream!IndInv
    PROVE  /\ record \in Stream!Snapshots /\ record.version \in Nat /\ record.version + 1 \in Nat
           /\ record.state \in Stream!States /\ record.log \in Seq(Stream!Events) /\ Len(record.log) \in Nat
           /\ DOMAIN record.log = 1 .. Len(record.log)
           /\ \A i \in DOMAIN record.log : record.log[i] \in Stream!Events /\ record.log[i].version \in Nat
           /\ writers \in [Writers -> Stream!Calls \cup {None}]
           /\ streams \in [Subscribers -> Stream!Streams \cup {None}]
           /\ Stream!LogInv
<1>1. Stream!TypeOK BY DEF Stream!IndInv
<1>2. /\ record \in Stream!Snapshots /\ record.version \in Nat /\ record.version + 1 \in Nat
      /\ record.state \in Stream!States /\ record.log \in Seq(Stream!Events)
  BY <1>1 DEF Stream!TypeOK, Stream!Snapshots
<1>3. Len(record.log) \in Nat /\ DOMAIN record.log = 1 .. Len(record.log) BY <1>2
<1>4. \A i \in DOMAIN record.log : record.log[i] \in Stream!Events BY <1>2, <1>3
<1>5. \A x \in Stream!Events : x.version \in Nat BY DEF Stream!Events
<1> QED BY <1>1, <1>2, <1>3, <1>4, <1>5 DEF Stream!TypeOK, Stream!IndInv

\* The invariant in terms of one stream and one call.
LEMMA StreamParts ==
    /\ Stream!WriterInv <=> \A w \in Writers : writers[w] # None => CallFits(writers[w])
    /\ Stream!StreamInv <=> \A s \in Subscribers : streams[s] # None => StreamFits(streams[s])
BY DEF Stream!WriterInv, Stream!StreamInv, CallFits, StreamFits, Exact

\* A place in the log is the only one of its version.
LEMMA StreamPosition ==
    ASSUME Stream!IndInv, NEW n, NEW v \in Nat, Stream!Marks(n, v)
    PROVE  Stream!Position(v) = n
<1>1. /\ n \in 0 .. Len(record.log) /\ Len(record.log) \in Nat
      /\ DOMAIN record.log = 1 .. Len(record.log)
  BY StreamFacts DEF Stream!Marks
<1>2. ASSUME NEW m \in 0 .. Len(record.log),
             \A i \in DOMAIN record.log : i <= m <=> record.log[i].version <= v
      PROVE  m = n
  <2>1. \A i \in 1 .. Len(record.log) : i <= m <=> i <= n BY <1>1, <1>2 DEF Stream!Marks
  <2>2. CASE m < n
    <3>1. n \in 1 .. Len(record.log) BY <1>1, <2>2
    <3> QED BY <1>1, <2>1, <2>2, <3>1
  <2>3. CASE n < m
    <3>1. m \in 1 .. Len(record.log) BY <1>1, <2>3
    <3> QED BY <1>1, <2>1, <2>3, <3>1
  <2> QED BY <1>1, <2>2, <2>3
<1>3. \A i \in DOMAIN record.log : i <= n <=> record.log[i].version <= v BY DEF Stream!Marks
<1> QED BY <1>1, <1>2, <1>3 DEF Stream!Position

\* The row that is read now fits; events that fit a row were read with it.
LEMMA StreamRows ==
    ASSUME Stream!IndInv
    PROVE  /\ Stream!TaskRow \in Stream!TaskRows /\ Stream!RowFits(Stream!TaskRow)
           /\ \A row \in Stream!TaskRows : Stream!RowFits(row) /\ Stream!Consistent(row) =>
                row.version = record.version /\ row.count = Len(record.log)
           /\ \A row \in Stream!TaskRows : Stream!Loaded(row) \in Stream!Snapshots
                                    /\ Stream!Loaded(row).version = row.version /\ Stream!Loaded(row).log = record.log
<1>1. Stream!TaskRow \in Stream!TaskRows BY StreamFacts DEF Stream!TaskRow, Stream!TaskRows
<1>2. Stream!RowFits(Stream!TaskRow)
  <2>1. Stream!TaskRow.version = record.version /\ Stream!TaskRow.count = Len(record.log)
    BY DEF Stream!TaskRow
  <2> QED BY <2>1, StreamFacts DEF Stream!RowFits, Stream!LogInv
<1>3. ASSUME NEW row \in Stream!TaskRows, Stream!RowFits(row), Stream!Consistent(row)
      PROVE  row.version = record.version /\ row.count = Len(record.log)
  <2>1. row.version \in Nat /\ row.count \in Nat BY DEF Stream!TaskRows
  <2> QED BY <1>3, <2>1, StreamFacts DEF Stream!RowFits, Stream!Consistent
<1>4. ASSUME NEW row \in Stream!TaskRows
      PROVE  /\ Stream!Loaded(row) \in Stream!Snapshots /\ Stream!Loaded(row).version = row.version
             /\ Stream!Loaded(row).log = record.log
  <2>1. row.version \in Nat /\ row.state \in Stream!States BY DEF Stream!TaskRows
  <2> QED BY <2>1, StreamFacts DEF Stream!Loaded, Stream!Snapshots
<1> QED BY <1>1, <1>2, <1>3, <1>4

\* A step in one stream.
LEMMA StreamMoves ==
    ASSUME Stream!IndInv, UNCHANGED <<record, writers>>, NEW s \in Subscribers,
           NEW x, streams' = [streams EXCEPT ![s] = x],
           x = None \/ (x \in Stream!Streams /\ StreamFits(x))
    PROVE  Stream!IndInv'
<1>1. streams \in [Subscribers -> Stream!Streams \cup {None}] BY StreamFacts
<1>2. /\ streams' \in [Subscribers -> Stream!Streams \cup {None}] /\ streams'[s] = x
      /\ \A u \in Subscribers : u # s => streams'[u] = streams[u]
  BY <1>1
<1>3. Stream!TypeOK' BY <1>2 DEF Stream!IndInv, Stream!TypeOK
<1>4. Stream!LogInv' /\ Stream!WriterInv'
  BY DEF Stream!IndInv, Stream!LogInv, Stream!WriterInv, Stream!Marks, Stream!RowFits
<1>5. \A u \in Subscribers : streams'[u] # None => StreamFits(streams'[u])
  BY <1>2, StreamParts DEF Stream!IndInv
<1>6. Stream!StreamInv'
  <2>1. record' = record OBVIOUS
  <2>2. \A y, v : (Stream!RowFits(y)' <=> Stream!RowFits(y)) /\ (Stream!Marks(y, v)' <=> Stream!Marks(y, v))
    BY <2>1 DEF Stream!RowFits, Stream!Marks
  <2>3. \A y : StreamFits(y)' <=> StreamFits(y) BY <2>1, <2>2 DEF StreamFits, Exact
  <2> QED BY <1>5, <2>1, <2>3 DEF Stream!StreamInv, StreamFits, Exact
<1> QED BY <1>3, <1>4, <1>6 DEF Stream!IndInv

\* A step in one call of a writer that leaves the Task as it is.
LEMMA StreamCalls ==
    ASSUME Stream!IndInv, UNCHANGED <<record, streams>>, NEW w \in Writers,
           NEW x, writers' = [writers EXCEPT ![w] = x],
           x = None \/ (x \in Stream!Calls /\ CallFits(x))
    PROVE  Stream!IndInv'
<1>1. writers \in [Writers -> Stream!Calls \cup {None}] BY StreamFacts
<1>2. /\ writers' \in [Writers -> Stream!Calls \cup {None}] /\ writers'[w] = x
      /\ \A u \in Writers : u # w => writers'[u] = writers[u]
  BY <1>1
<1>3. Stream!TypeOK' BY <1>2 DEF Stream!IndInv, Stream!TypeOK
<1>4. Stream!LogInv' /\ Stream!StreamInv'
  BY DEF Stream!IndInv, Stream!LogInv, Stream!StreamInv, Stream!Marks, Stream!RowFits
<1>5. \A u \in Writers : writers'[u] # None => CallFits(writers'[u])
  BY <1>2, StreamParts DEF Stream!IndInv
<1>6. Stream!WriterInv' BY <1>5 DEF Stream!WriterInv, CallFits, Stream!Marks, Stream!RowFits
<1> QED BY <1>3, <1>4, <1>6 DEF Stream!IndInv

\* The events that a change adds.
LEMMA StreamAdds ==
    ASSUME NEW v \in Nat, NEW new \in Stream!States
    PROVE  /\ Stream!NewEvents(v, new) \in Seq(Stream!Events) /\ Len(Stream!NewEvents(v, new)) \in Nat \ {0}
           /\ \A i \in 1 .. Len(Stream!NewEvents(v, new)) : Stream!NewEvents(v, new)[i].version = v
<1> DEFINE a == Stream!Event(v, "artifact")
           b == Stream!Event(v, new)
<1>1. a \in Stream!Events /\ b \in Stream!Events /\ a.version = v /\ b.version = v
  BY DEF Stream!Event, Stream!Events
<1>2. CASE new = "completed"
  <2>1. Stream!NewEvents(v, new) = <<a>> \o <<b>> BY <1>2 DEF Stream!NewEvents
  <2> HIDE DEF a, b
  <2>2. /\ <<a>> \in Seq(Stream!Events) /\ Len(<<a>>) = 1 /\ <<a>>[1] = a
        /\ <<b>> \in Seq(Stream!Events) /\ Len(<<b>>) = 1 /\ <<b>>[1] = b
    BY <1>1
  <2>3. /\ <<a>> \o <<b>> \in Seq(Stream!Events) /\ Len(<<a>> \o <<b>>) = 2
        /\ (<<a>> \o <<b>>)[1] = a /\ (<<a>> \o <<b>>)[2] = b
    BY <2>2, ConcatProperties
  <2> QED BY <1>1, <2>1, <2>3
<1>3. CASE new # "completed"
  <2>1. Stream!NewEvents(v, new) = <<>> \o <<b>> BY <1>3 DEF Stream!NewEvents
  <2> HIDE DEF b
  <2>2. <<b>> \in Seq(Stream!Events) /\ Len(<<b>>) = 1 /\ <<b>>[1] = b BY <1>1
  <2>3. <<>> \o <<b>> = <<b>> BY <2>2, ConcatEmptySeq
  <2> QED BY <1>1, <2>1, <2>2, <2>3
<1> QED BY <1>2, <1>3

\* A log of which another is the beginning.
LEMMA StreamExtends ==
    ASSUME NEW log \in Seq(Stream!Events), NEW add \in Seq(Stream!Events), Len(add) \in Nat \ {0}, NEW v,
           \A i \in 1 .. Len(add) : add[i].version = v,
           NEW all, all = log \o add
    PROVE  /\ all \in Seq(Stream!Events) /\ Len(log) < Len(all)
           /\ \A i \in 1 .. Len(log) : all[i] = log[i]
           /\ \A i \in 1 .. Len(all) : i > Len(log) => all[i].version = v
           /\ \A a, b \in 0 .. Len(log) : a <= b => SubSeq(all, a + 1, b) = SubSeq(log, a + 1, b)
<1> DEFINE m == Len(log)
           n == Len(add)
<1>1. m \in Nat /\ n \in Nat /\ n >= 1 OBVIOUS
<1>2. /\ all \in Seq(Stream!Events) /\ Len(all) = m + n
      /\ \A i \in 1 .. m + n : all[i] = IF i <= m THEN log[i] ELSE add[i - m]
  BY ConcatProperties
<1>3. \A a, b \in 0 .. m : a <= b => SubSeq(all, a + 1, b) = SubSeq(log, a + 1, b)
  <2> SUFFICES ASSUME NEW a \in 0 .. m, NEW b \in 0 .. m, a <= b
               PROVE  SubSeq(all, a + 1, b) = SubSeq(log, a + 1, b)
    OBVIOUS
  <2>1. CASE a = b
    <3>1. b < a + 1 /\ a + 1 \in Int /\ b \in Int BY <1>1, <2>1
    <3> QED BY <3>1, SubSeqEmpty
  <2>2. CASE a # b
    <3>1. a + 1 \in 1 .. Len(log) /\ b \in 1 .. Len(log) BY <1>1, <2>2
    <3> QED BY <3>1, SubSeqOfConcat1
  <2> QED BY <2>1, <2>2
<1> HIDE DEF m, n
<1>4. m < m + n BY <1>1
<1>5. \A i \in 1 .. m : i \in 1 .. m + n /\ i <= m BY <1>1
<1>6. \A i \in 1 .. m + n : i > m => i - m \in 1 .. n /\ ~(i <= m) BY <1>1
<1>7. \A i \in 1 .. m : all[i] = log[i] BY <1>2, <1>5
<1>8. \A i \in 1 .. m + n : i > m => all[i].version = v BY <1>2, <1>6 DEF n
<1> QED BY <1>2, <1>3, <1>4, <1>7, <1>8 DEF m

\* A change of the Task adds events of a new version, and leaves every place in the log.
LEMMA StreamGrows ==
    ASSUME Stream!IndInv, record' \in Stream!Snapshots, record'.version = record.version + 1,
           record'.log \in Seq(Stream!Events), Len(record.log) < Len(record'.log),
           \A i \in 1 .. Len(record.log) : record'.log[i] = record.log[i],
           \A i \in 1 .. Len(record'.log) :
                i > Len(record.log) => record'.log[i].version = record.version + 1
    PROVE  /\ Stream!LogInv'
           /\ \A n \in Nat, v \in Nat : v <= record.version /\ Stream!Marks(n, v) => Stream!Marks(n, v)'
           /\ \A row \in Stream!TaskRows : Stream!RowFits(row) => Stream!RowFits(row)'
<1> DEFINE next == record.version + 1
           k == Len(record.log)
           m == Len(record'.log)
<1>1. k \in Nat /\ m \in Nat /\ record.version \in Nat /\ next \in Nat /\ next >= 1
      /\ record.version < next /\ k < m /\ m \in 1 .. m /\ m > k /\ m > 0
  BY StreamFacts
<1>2. DOMAIN record.log = 1 .. k /\ DOMAIN record'.log = 1 .. m BY StreamFacts
<1>3. \A i \in 1 .. k : record.log[i].version \in Nat /\ record.log[i].version <= record.version
  BY <1>2, StreamFacts DEF Stream!LogInv, Stream!Marks
<1>4. /\ \A i \in 1 .. k : record'.log[i] = record.log[i]
      /\ \A i \in 1 .. m : i > k => record'.log[i].version = next
      /\ \A i \in 1 .. m : i > k \/ i \in 1 .. k
  BY <1>1
<1>5. \A v \in Nat : v <= record.version => ~(next <= v) BY <1>1
<1>6. \A i \in 1 .. k : record.log[i].version <= next BY <1>1, <1>3
<1>7. record'.version = next OBVIOUS
<1>8. \A i \in 1 .. m : i <= m /\ i \in Nat BY <1>1
<1> HIDE DEF next, k, m
<1>9. Stream!LogInv'
  <2>1. \A i \in 1 .. m : record'.log[i].version <= next BY <1>1, <1>4, <1>6
  <2>2. Stream!Marks(Len(record.log), record.version)'
    <3>1. m \in 0 .. m BY <1>1
    <3> QED BY <1>2, <1>7, <1>8, <2>1, <3>1 DEF Stream!Marks, m
  <2>3. record'.log[m].version = next BY <1>1, <1>4
  <2> QED BY <1>1, <1>7, <2>2, <2>3 DEF Stream!LogInv, m
<1>10. ASSUME NEW n \in Nat, NEW v \in Nat, v <= record.version, Stream!Marks(n, v)
       PROVE  Stream!Marks(n, v)'
  <2>1. n \in 0 .. k /\ \A i \in 1 .. k : i <= n <=> record.log[i].version <= v
    BY <1>2, <1>10 DEF Stream!Marks, k
  <2>2. \A i \in 1 .. m : i > k => ~(i <= n) BY <1>1, <2>1
  <2>3. \A i \in 1 .. m : i <= n <=> record'.log[i].version <= v
    BY <1>4, <1>5, <1>10, <2>1, <2>2
  <2>4. n \in 0 .. m BY <1>1, <2>1
  <2> QED BY <1>2, <2>3, <2>4 DEF Stream!Marks, m
<1>11. ASSUME NEW row \in Stream!TaskRows, Stream!RowFits(row) PROVE Stream!RowFits(row)'
  <2>1. row.version \in Nat /\ row.count \in Nat BY DEF Stream!TaskRows
  <2>2. /\ 1 <= row.version /\ row.version <= record.version /\ Stream!Marks(row.count, row.version)
        /\ row.count <= k
    BY <1>11 DEF Stream!RowFits, Stream!Marks, k
  <2>3. Stream!Marks(row.count, row.version)' BY <1>10, <2>1, <2>2
  <2>4. row.version <= next /\ row.count < m BY <1>1, <2>1, <2>2
  <2> QED BY <1>7, <2>2, <2>3, <2>4 DEF Stream!RowFits, m
<1> QED BY <1>9, <1>10, <1>11

\* A writer changes the Task, or has to read it again.
LEMMA StreamReplaces ==
    ASSUME Stream!IndInv, NEW w \in Writers, Stream!ReplaceTask(w)
    PROVE  Stream!IndInv'
<1>1. writers[w] # None /\ writers[w].at = "update" /\ streams' = streams BY DEF Stream!ReplaceTask
<1>2. /\ writers \in [Writers -> Stream!Calls \cup {None}] /\ writers[w] \in Stream!Calls
      /\ streams \in [Subscribers -> Stream!Streams \cup {None}]
  BY <1>1, StreamFacts
<1>3. CallFits(writers[w]) BY <1>1, StreamParts DEF Stream!IndInv
<1>4. CASE ~Stream!Unchanged(w)
  <2> DEFINE x == [writers[w] EXCEPT !.at = "get"]
  <2>1. record' = record /\ writers' = [writers EXCEPT ![w] = x] BY <1>4 DEF Stream!ReplaceTask
  <2>2. x \in Stream!Calls /\ x.at = "get" /\ x.row = writers[w].row BY <1>2 DEF Stream!Calls
  <2> HIDE DEF x
  <2>3. CallFits(x) BY <1>3, <2>2 DEF CallFits
  <2> QED BY <1>1, <2>1, <2>2, <2>3, StreamCalls
<1>5. CASE Stream!Unchanged(w)
  <2> DEFINE new == writers[w].new
             next == record.version + 1
             add == Stream!NewEvents(next, new)
             log == record.log
  <2>1. /\ writers[w].read.version = record.version /\ writers[w].read.log = record.log
        /\ new \in Stream!States
    BY <1>1, <1>2, <1>3, <1>5 DEF CallFits, Stream!Unchanged, Stream!Calls
  <2>2. /\ record' = [version |-> next, state |-> new, log |-> log \o add]
        /\ writers' = [writers EXCEPT ![w] = None]
    BY <1>5, <2>1 DEF Stream!ReplaceTask
  <2>3. /\ add \in Seq(Stream!Events) /\ Len(add) \in Nat \ {0} /\ next \in Nat /\ log \in Seq(Stream!Events)
        /\ \A i \in 1 .. Len(add) : add[i].version = next
    BY <2>1, StreamAdds, StreamFacts
  <2>4. record'.version = next /\ record'.log = log \o add BY <2>2
  <2> HIDE DEF add, log
  <2>5. /\ record'.log \in Seq(Stream!Events) /\ Len(log) < Len(record'.log)
        /\ \A i \in 1 .. Len(log) : record'.log[i] = log[i]
        /\ \A i \in 1 .. Len(record'.log) : i > Len(log) => record'.log[i].version = next
        /\ \A a, b \in 0 .. Len(log) : a <= b =>
              SubSeq(record'.log, a + 1, b) = SubSeq(log, a + 1, b)
    BY <2>3, <2>4, StreamExtends
  <2>6. record' \in Stream!Snapshots
    <3> DEFINE all == log \o add
    <3>1. record' = [version |-> next, state |-> new, log |-> all] /\ all \in Seq(Stream!Events)
      BY <2>2, <2>4, <2>5
    <3> HIDE DEF all, next, new
    <3> QED BY <2>1, <2>3, <3>1 DEF Stream!Snapshots, new
  <2>7. /\ Stream!LogInv'
        /\ \A n \in Nat, v \in Nat : v <= record.version /\ Stream!Marks(n, v) => Stream!Marks(n, v)'
        /\ \A row \in Stream!TaskRows : Stream!RowFits(row) => Stream!RowFits(row)'
    BY <2>4, <2>5, <2>6, StreamGrows DEF log
  <2> HIDE DEF new
  <2>8. record.version \in Nat /\ record.version < next /\ Len(log) \in Nat
        /\ Len(log) <= Len(record'.log) /\ Len(record'.log) \in Nat
    BY <2>5, StreamFacts DEF log
  <2>9. writers' \in [Writers -> Stream!Calls \cup {None}] /\ writers'[w] = None
        /\ \A u \in Writers : u # w => writers'[u] = writers[u]
    BY <1>2, <2>2
  <2>10. Stream!TypeOK' BY <1>1, <1>2, <2>6, <2>9 DEF Stream!TypeOK
  <2>11. Stream!WriterInv'
    <3> SUFFICES ASSUME NEW u \in Writers, writers'[u] # None
                 PROVE  /\ writers'[u].row # None => Stream!RowFits(writers[u].row)'
                        /\ writers'[u].at # "get" =>
                            /\ writers'[u].read \in Stream!Snapshots
                            /\ writers'[u].read.version <= record'.version
                            /\ writers'[u].read.version = record'.version =>
                                  writers'[u].read.log = record'.log
      BY DEF Stream!WriterInv
    <3>1. u # w /\ writers'[u] = writers[u] /\ writers[u] # None /\ writers[u] \in Stream!Calls
      BY <1>2, <2>9
    <3>2. CallFits(writers[u]) BY <3>1, StreamParts DEF Stream!IndInv
    <3>3. writers[u].row # None => writers[u].row \in Stream!TaskRows BY <3>1 DEF Stream!Calls
    <3>4. writers[u].row # None => Stream!RowFits(writers[u].row)'
      BY <2>7, <3>1, <3>2, <3>3 DEF CallFits
    <3>5. writers[u].at # "get" =>
            /\ writers[u].read \in Stream!Snapshots /\ writers[u].read.version \in Nat
            /\ writers[u].read.version <= record.version
      BY <3>2 DEF CallFits, Stream!Snapshots
    <3>6. writers[u].at # "get" => /\ writers[u].read.version <= next
                                  /\ writers[u].read.version # next
      BY <2>8, <3>5
    <3> QED BY <2>4, <3>1, <3>4, <3>5, <3>6
  <2>12. Stream!StreamInv'
    <3> SUFFICES ASSUME NEW s \in Subscribers, streams[s] # None
                 PROVE  StreamFits(streams[s])'
      BY <1>1 DEF Stream!StreamInv, StreamFits, Exact
    <3>1. streams[s] \in Stream!Streams /\ streams'[s] = streams[s] BY <1>1, <1>2
    <3>2. StreamFits(streams[s]) BY StreamParts DEF Stream!IndInv
    <3> DEFINE x == streams[s]
    <3>3. x.row # None => Stream!RowFits(x.row) /\ x.row \in Stream!TaskRows
      BY <3>1, <3>2 DEF StreamFits, Stream!Streams
    <3>4. /\ x.row # None => Stream!RowFits(x.row)'
          /\ x.at = "open" => Stream!RowFits(x.row)'
      BY <2>7, <3>1, <3>2, <3>3 DEF StreamFits
    <3>5. x.cursor \in Nat /\ x.from \in Nat BY <3>1 DEF Stream!Streams
    <3>6. x.at \in Stream!Following => x.cursor <= record'.version /\ Exact(x)'
      <4> SUFFICES ASSUME x.at \in Stream!Following PROVE x.cursor <= record'.version /\ Exact(x)'
        OBVIOUS
      <4>1. x.cursor <= record.version /\ Exact(x) BY <3>2 DEF StreamFits
      <4>2. PICK a \in 0 .. Len(log), b \in 0 .. Len(log) :
              /\ a <= b /\ Stream!Marks(a, x.from) /\ Stream!Marks(b, x.cursor) /\ x.from <= x.cursor
              /\ x.got \o x.todo = SubSeq(log, a + 1, b)
        BY <4>1 DEF Exact, log
      <4>3. a \in Nat /\ b \in Nat /\ x.from <= record.version /\ x.cursor <= next
            /\ a \in 0 .. Len(record'.log) /\ b \in 0 .. Len(record'.log)
        BY <2>8, <3>5, <4>1, <4>2
      <4>4. Stream!Marks(a, x.from)' /\ Stream!Marks(b, x.cursor)'
        BY <2>7, <3>1, <3>5, <4>1, <4>2, <4>3
      <4>5. SubSeq(record'.log, a + 1, b) = SubSeq(log, a + 1, b) BY <2>5, <4>2
      <4>6. x' = x BY <1>1
      <4> QED BY <2>4, <4>2, <4>3, <4>4, <4>5, <4>6 DEF Exact
    <3>7. x' = x BY <1>1
    <3> QED BY <2>4, <3>2, <3>4, <3>6, <3>7 DEF StreamFits
  <2> QED BY <2>7, <2>10, <2>11, <2>12 DEF Stream!IndInv
<1> QED BY <1>4, <1>5

\* A writer reads.
LEMMA StreamWrites ==
    ASSUME Stream!IndInv, NEW w \in Writers,
           \/ \E new \in Stream!Settled \cup {"working"} : Stream!Transition(w, new)
           \/ Stream!LoadRow(w) \/ Stream!LoadEvents(w)
    PROVE  Stream!IndInv'
<1>1. record' = record /\ streams' = streams
  BY DEF Stream!Transition, Stream!LoadRow, Stream!LoadEvents
<1>2. CASE \E new \in Stream!Settled \cup {"working"} : Stream!Transition(w, new)
  <2>1. PICK new \in Stream!Settled \cup {"working"} : Stream!Transition(w, new) BY <1>2
  <2> DEFINE x == [new |-> new, at |-> "get", row |-> None, read |-> None]
  <2>2. x \in Stream!Calls BY DEF Stream!Calls, Stream!States
  <2>3. CallFits(x) BY DEF CallFits
  <2>4. writers' = [writers EXCEPT ![w] = x] BY <2>1 DEF Stream!Transition
  <2> QED BY <1>1, <2>2, <2>3, <2>4, StreamCalls
<1>3. ASSUME writers[w] # None PROVE writers[w] \in Stream!Calls /\ CallFits(writers[w])
  BY <1>3, StreamFacts, StreamParts DEF Stream!IndInv
<1>4. CASE Stream!LoadRow(w)
  <2> DEFINE x == [writers[w] EXCEPT !.row = Stream!TaskRow]
  <2>1. writers[w] # None /\ writers' = [writers EXCEPT ![w] = x] BY <1>4 DEF Stream!LoadRow
  <2>2. /\ x \in Stream!Calls /\ x.row = Stream!TaskRow /\ x.at = writers[w].at /\ x.read = writers[w].read
    BY <1>3, <2>1, StreamRows DEF Stream!Calls
  <2> HIDE DEF x
  <2>3. CallFits(x) BY <1>3, <2>1, <2>2, StreamRows DEF CallFits
  <2> QED BY <1>1, <2>1, <2>2, <2>3, StreamCalls
<1>5. CASE Stream!LoadEvents(w)
  <2> DEFINE row == writers[w].row
             c == writers[w]
  <2>1. c # None /\ row # None BY <1>5 DEF Stream!LoadEvents
  <2>2. c \in Stream!Calls /\ CallFits(c) /\ row \in Stream!TaskRows BY <1>3, <2>1 DEF Stream!Calls
  <2>3. Stream!RowFits(row) BY <2>1, <2>2 DEF CallFits
  <2>4. \/ writers' = [writers EXCEPT ![w] = None]
        \/ /\ Stream!Consistent(row)
           /\ writers' = [writers EXCEPT ![w] =
                           [c EXCEPT !.at = "replace", !.row = None, !.read = Stream!Loaded(row)]]
        \/ /\ c.at # "get"
           /\ \E where \in {"update", "get"} :
                writers' = [writers EXCEPT ![w] = [c EXCEPT !.row = None, !.at = where]]
    BY <1>5 DEF Stream!LoadEvents
  <2>5. CASE writers' = [writers EXCEPT ![w] = None] BY <1>1, <2>5, StreamCalls
  <2>6. CASE /\ Stream!Consistent(row)
             /\ writers' = [writers EXCEPT ![w] =
                             [c EXCEPT !.at = "replace", !.row = None, !.read = Stream!Loaded(row)]]
    <3> DEFINE x == [c EXCEPT !.at = "replace", !.row = None, !.read = Stream!Loaded(row)]
    <3>1. Stream!Loaded(row) \in Stream!Snapshots /\ Stream!Loaded(row).log = record.log
          /\ Stream!Loaded(row).version = record.version
      BY <2>2, <2>3, <2>6, StreamRows
    <3>2. x \in Stream!Calls /\ x.row = None /\ x.read = Stream!Loaded(row)
      BY <2>2, <3>1 DEF Stream!Calls
    <3> HIDE DEF x
    <3>3. CallFits(x) BY <3>1, <3>2, StreamFacts DEF CallFits
    <3> QED BY <1>1, <2>6, <3>2, <3>3, StreamCalls DEF x
  <2>7. ASSUME c.at # "get", NEW where \in {"update", "get"},
               writers' = [writers EXCEPT ![w] = [c EXCEPT !.row = None, !.at = where]]
        PROVE  Stream!IndInv'
    <3> DEFINE x == [c EXCEPT !.row = None, !.at = where]
    <3>1. x \in Stream!Calls /\ x.row = None /\ x.read = c.read BY <2>2 DEF Stream!Calls
    <3> HIDE DEF x
    <3>2. CallFits(x) BY <2>2, <2>7, <3>1 DEF CallFits
    <3> QED BY <1>1, <2>7, <3>1, <3>2, StreamCalls DEF x
  <2> QED BY <2>4, <2>5, <2>6, <2>7
<1> QED BY <1>2, <1>4, <1>5

\* The first of what a stream holds goes to what it has sent.
LEMMA StreamYields ==
    ASSUME NEW got \in Seq(Stream!Events), NEW rest \in Seq(Stream!Events), rest # <<>>
    PROVE  /\ Append(got, Head(rest)) \in Seq(Stream!Events) /\ Tail(rest) \in Seq(Stream!Events)
           /\ Append(got, Head(rest)) \o Tail(rest) = got \o rest
<1>1. Head(rest) \in Stream!Events /\ Tail(rest) \in Seq(Stream!Events) BY HeadTailProperties
<1>2. Append(got, Head(rest)) = got \o <<Head(rest)>> BY <1>1, AppendIsConcat
<1>3. <<Head(rest)>> \o Tail(rest) = rest
  <2> DEFINE h == Head(rest)
             t == Tail(rest)
             n == Len(rest)
  <2>1. n \in Nat /\ n # 0 /\ Len(t) = n - 1 /\ h = rest[1] /\ rest = [i \in 1 .. n |-> rest[i]]
        /\ \A i \in 1 .. Len(t) : t[i] = rest[i + 1]
    BY HeadTailProperties
  <2>2. <<h>> \in Seq(Stream!Events) /\ Len(<<h>>) = 1 /\ <<h>>[1] = h BY <1>1
  <2>3. t \in Seq(Stream!Events) /\ rest \in Seq(Stream!Events) BY <1>1
  <2> HIDE DEF h, t, n
  <2>4. /\ <<h>> \o t \in Seq(Stream!Events) /\ Len(<<h>> \o t) = n
        /\ \A i \in 1 .. n : (<<h>> \o t)[i] = IF i <= 1 THEN <<h>>[i] ELSE t[i - 1]
    BY <2>1, <2>2, <2>3, ConcatProperties
  <2>5. \A i \in 1 .. n : i <= 1 => i = 1 BY <2>1
  <2>6. \A i \in 1 .. n : ~(i <= 1) => i - 1 \in 1 .. Len(t) /\ i - 1 + 1 = i BY <2>1
  <2>7. \A i \in 1 .. n : (<<h>> \o t)[i] = rest[i] BY <2>1, <2>2, <2>4, <2>5, <2>6
  <2> QED BY <2>3, <2>4, <2>7, SeqEqual DEF h, t, n
<1>4. <<Head(rest)>> \in Seq(Stream!Events) BY <1>1
<1> QED BY <1>1, <1>2, <1>3, <1>4, ConcatAssociative

\* The end of a log continues what was sent of it.
LEMMA StreamContinues ==
    ASSUME NEW log \in Seq(Stream!Events), NEW a \in Nat, NEW b \in Nat, a <= b, b < Len(log),
           NEW got \in Seq(Stream!Events), got = SubSeq(log, a + 1, b)
    PROVE  LET rest == SubSeq(log, b + 1, Len(log)) IN
           /\ rest \in Seq(Stream!Events) /\ got \o rest = SubSeq(log, a + 1, Len(log))
           /\ rest[Len(rest)] = log[Len(log)]
<1> DEFINE n == Len(log)
           rest == SubSeq(log, b + 1, Len(log))
<1>1. n \in Nat /\ b + 1 \in 1 .. n + 1 /\ n \in b .. n /\ b + 1 \in 1 .. n /\ n \in 1 .. n
  OBVIOUS
<1>2. a + 1 \in 1 .. n + 1 /\ b \in a .. n /\ a + 1 <= b + 1 /\ a + 1 \in 1 .. n BY <1>1
<1>3. got = SubSeq(log, a + 1, b) OBVIOUS
<1>4. /\ rest \in Seq(Stream!Events) /\ Len(rest) = n - b
      /\ \A i \in 1 .. n - b : rest[i] = log[b + i]
  <2>1. \A i \in b + 1 .. n : log[i] \in Stream!Events BY <1>1
  <2>2. b + 1 \in Int /\ n \in Int /\ b + 1 <= n + 1 BY <1>1
  <2>3. /\ rest \in Seq(Stream!Events)
        /\ Len(rest) = IF b + 1 <= n THEN n - (b + 1) + 1 ELSE 0
        /\ \A i \in 1 .. (n - (b + 1) + 1) : rest[i] = log[b + 1 + i - 1]
    BY <2>1, <2>2, SubSeqProperties
  <2> HIDE DEF n
  <2>4. b + 1 <= n /\ n - (b + 1) + 1 = n - b /\ \A i \in 1 .. n - b : b + 1 + i - 1 = b + i
    BY <1>1
  <2> QED BY <2>3, <2>4
<1>5. n - b \in 1 .. n - b /\ b + (n - b) = n BY <1>1
<1>6. got \o rest = SubSeq(log, a + 1, n)
  <2> DEFINE m == a + 1
  <2>1. m \in 1 .. Len(log) + 1 /\ b \in m - 1 .. Len(log) /\ n \in b .. Len(log) BY <1>1, <1>2
  <2> HIDE DEF m, n
  <2>2. SubSeq(log, m, b) \o SubSeq(log, b + 1, n) = SubSeq(log, m, n)
    BY <2>1, ConcatAdjacentSubSeq
  <2> QED BY <1>3, <2>2 DEF m, n
<1> QED BY <1>4, <1>5, <1>6

\* A stream sends, waits, polls and wakes.
LEMMA StreamServes ==
    ASSUME Stream!IndInv, NEW s \in Subscribers,
           (\E sending \in BOOLEAN : Stream!Subscribe(s, sending)) \/ Stream!StreamStep(s) \/ Stream!Leave(s)
    PROVE  Stream!IndInv'
<1>1. record' = record /\ writers' = writers
  BY DEF Stream!Subscribe, Stream!StreamStep, Stream!Open, Stream!Yield, Stream!EndOrWait, Stream!Poll, Stream!WaitForChange, Stream!Leave
<1> DEFINE c == streams[s]
<1>2. ASSUME c # None PROVE c \in Stream!Streams /\ StreamFits(c)
  BY <1>2, StreamFacts, StreamParts DEF Stream!IndInv
<1>3. CASE Stream!Leave(s) BY <1>1, <1>3, StreamMoves DEF Stream!Leave
<1>4. CASE \E sending \in BOOLEAN : Stream!Subscribe(s, sending)
  <2> DEFINE x == [at |-> "open", row |-> Stream!TaskRow, from |-> 0, cursor |-> 0, snapshot |-> None,
                   todo |-> <<>>, got |-> <<>>]
  <2>1. streams' = [streams EXCEPT ![s] = x] BY <1>4 DEF Stream!Subscribe
  <2>2. Stream!TaskRow \in Stream!TaskRows /\ Stream!RowFits(Stream!TaskRow) BY StreamRows
  <2>3. <<>> \in Seq(Stream!Events) OBVIOUS
  <2>4. x \in Stream!Streams BY <2>2, <2>3 DEF Stream!Streams
  <2>5. StreamFits(x) BY <2>2 DEF StreamFits, Stream!Following
  <2> QED BY <1>1, <2>1, <2>4, <2>5, StreamMoves
<1>5. CASE Stream!Open(s)
  <2>1. c # None /\ c.at = "open" BY <1>5 DEF Stream!Open
  <2>2. c \in Stream!Streams /\ c.row \in Stream!TaskRows /\ c.got = <<>> /\ c.todo = <<>> /\ StreamFits(c)
    BY <1>2, <2>1 DEF StreamFits
  <2>3. CASE ~Stream!Consistent(c.row) BY <1>1, <1>5, <2>3, StreamMoves DEF Stream!Open
  <2>4. CASE Stream!Consistent(c.row)
    <3> DEFINE row == c.row
               x == [c EXCEPT !.at = "emit", !.row = None, !.from = row.version,
                              !.cursor = row.version, !.snapshot = Stream!Loaded(row)]
    <3>1. Stream!RowFits(row) BY <2>1, <2>2 DEF StreamFits
    <3>2. /\ row.version = record.version /\ Stream!Loaded(row) \in Stream!Snapshots
          /\ Stream!Loaded(row).version = row.version /\ row.version \in Nat
      BY <2>2, <2>4, <3>1, StreamRows DEF Stream!TaskRows
    <3>3. /\ x \in Stream!Streams /\ x.at = "emit" /\ x.row = None /\ x.from = row.version
          /\ x.cursor = row.version /\ x.snapshot = Stream!Loaded(row) /\ x.got = <<>> /\ x.todo = <<>>
      BY <2>2, <3>2 DEF Stream!Streams, Stream!Following
    <3>4. streams' = [streams EXCEPT ![s] = x] BY <1>5, <2>4 DEF Stream!Open
    <3> HIDE DEF x
    <3>5. Exact(x)
      <4> DEFINE n == Len(record.log)
      <4>1. n \in Nat /\ n \in 0 .. n /\ n <= n /\ Stream!Marks(n, record.version)
        BY StreamFacts DEF Stream!LogInv
      <4>2. SubSeq(record.log, n + 1, n) = <<>>
        <5>1. n + 1 \in Int /\ n \in Int /\ n < n + 1 BY <4>1
        <5> QED BY <5>1, SubSeqEmpty
      <4>3. x.got \o x.todo = <<>> BY <3>3
      <4>4. x.from <= x.cursor BY <3>2, <3>3
      <4> QED BY <3>2, <3>3, <4>1, <4>2, <4>3, <4>4 DEF Exact
    <3>6. 1 <= x.cursor /\ x.cursor <= record.version BY <3>2, <3>3, StreamFacts DEF Stream!LogInv
    <3>7. StreamFits(x) BY <3>2, <3>3, <3>5, <3>6 DEF StreamFits
    <3> QED BY <1>1, <3>3, <3>4, <3>7, StreamMoves
  <2> QED BY <2>3, <2>4
<1>6. CASE Stream!Yield(s)
  <2> DEFINE x == [c EXCEPT !.todo = Tail(@), !.got = Append(@, Head(c.todo))]
  <2>1. /\ c # None /\ c.at = "emit" /\ c.todo # <<>> /\ streams' = [streams EXCEPT ![s] = x]
    BY <1>6 DEF Stream!Yield
  <2>2. c \in Stream!Streams /\ StreamFits(c) /\ c.got \in Seq(Stream!Events) /\ c.todo \in Seq(Stream!Events)
    BY <1>2, <2>1 DEF Stream!Streams
  <2>3. /\ Append(c.got, Head(c.todo)) \in Seq(Stream!Events) /\ Tail(c.todo) \in Seq(Stream!Events)
        /\ Append(c.got, Head(c.todo)) \o Tail(c.todo) = c.got \o c.todo
    BY <2>1, <2>2, StreamYields
  <2>4. x \in Stream!Streams BY <2>2, <2>3 DEF Stream!Streams
  <2>5. /\ x.at = c.at /\ x.row = c.row /\ x.from = c.from /\ x.cursor = c.cursor
        /\ x.snapshot = c.snapshot /\ x.todo = Tail(c.todo) /\ x.got = Append(c.got, Head(c.todo))
    BY <2>2 DEF Stream!Streams
  <2> HIDE DEF x, c
  <2>6. x.got \o x.todo = c.got \o c.todo BY <2>3, <2>5
  <2>7. StreamFits(x) BY <2>1, <2>2, <2>5, <2>6 DEF StreamFits, Exact, Stream!Following
  <2> QED BY <1>1, <2>1, <2>4, <2>7, StreamMoves
<1>7. CASE Stream!EndOrWait(s)
  <2>1. PICK where \in {"ended", "wait"} : streams' = [streams EXCEPT ![s] = [c EXCEPT !.at = where]]
    BY <1>7 DEF Stream!EndOrWait
  <2> DEFINE x == [c EXCEPT !.at = where]
  <2>2. c # None /\ c.at = "emit" /\ c.todo = <<>> BY <1>7 DEF Stream!EndOrWait
  <2>3. c \in Stream!Streams /\ StreamFits(c) BY <1>2, <2>2
  <2>4. /\ x \in Stream!Streams /\ x.at = where /\ x.row = c.row /\ x.from = c.from
        /\ x.cursor = c.cursor /\ x.snapshot = c.snapshot /\ x.todo = c.todo /\ x.got = c.got
    BY <2>3 DEF Stream!Streams, Stream!Following
  <2> HIDE DEF x, c
  <2>5. StreamFits(x) BY <2>2, <2>3, <2>4 DEF StreamFits, Exact, Stream!Following
  <2> QED BY <1>1, <2>1, <2>4, <2>5, StreamMoves DEF x
<1>8. CASE Stream!Poll(s)
  <2> DEFINE x == [c EXCEPT !.row = Stream!TaskRow]
  <2>1. c # None /\ c.at = "wait" /\ streams' = [streams EXCEPT ![s] = x] BY <1>8 DEF Stream!Poll
  <2>2. c \in Stream!Streams /\ StreamFits(c) BY <1>2, <2>1
  <2>3. Stream!TaskRow \in Stream!TaskRows /\ Stream!RowFits(Stream!TaskRow) BY StreamRows
  <2>4. /\ x \in Stream!Streams /\ x.at = c.at /\ x.row = Stream!TaskRow /\ x.from = c.from
        /\ x.cursor = c.cursor /\ x.snapshot = c.snapshot /\ x.todo = c.todo /\ x.got = c.got
    BY <2>2, <2>3 DEF Stream!Streams
  <2> HIDE DEF x, c
  <2>5. StreamFits(x) BY <2>1, <2>2, <2>3, <2>4 DEF StreamFits, Exact, Stream!Following
  <2> QED BY <1>1, <2>1, <2>4, <2>5, StreamMoves
<1>9. CASE Stream!WaitForChange(s)
  <2> DEFINE row == c.row
             rest == SubSeq(record.log, Stream!Position(c.cursor) + 1, Len(record.log))
  <2>1. c # None /\ c.at = "wait" /\ row # None BY <1>9 DEF Stream!WaitForChange
  <2>2. c \in Stream!Streams /\ StreamFits(c) /\ row \in Stream!TaskRows
    BY <1>2, <2>1 DEF Stream!Streams
  <2>3. \/ \E where \in {"broken", "wait"} :
             streams' = [streams EXCEPT ![s] = [c EXCEPT !.at = where, !.row = None]]
        \/ /\ Stream!Consistent(row) /\ Stream!Wakes(s)
           /\ streams' = [streams EXCEPT ![s] =
                [c EXCEPT !.at = "emit", !.row = None, !.snapshot = Stream!Loaded(row),
                          !.todo = rest, !.cursor = rest[Len(rest)].version]]
    <3>1. CASE ~Stream!Consistent(row) BY <1>9, <3>1 DEF Stream!WaitForChange
    <3>2. CASE Stream!Consistent(row) /\ Stream!Wakes(s) BY <1>9, <3>2 DEF Stream!WaitForChange
    <3>3. CASE Stream!Consistent(row) /\ ~Stream!Wakes(s)
      <4>1. streams' = [streams EXCEPT ![s] = [c EXCEPT !.row = None]]
        BY <1>9, <3>3 DEF Stream!WaitForChange
      <4>2. [c EXCEPT !.row = None] = [c EXCEPT !.at = "wait", !.row = None]
        BY <2>1, <2>2 DEF Stream!Streams
      <4> QED BY <4>1, <4>2
    <3> QED BY <3>1, <3>2, <3>3
  <2>4. ASSUME NEW where \in {"broken", "wait"},
               streams' = [streams EXCEPT ![s] = [c EXCEPT !.at = where, !.row = None]]
        PROVE  Stream!IndInv'
    <3> DEFINE x == [c EXCEPT !.at = where, !.row = None]
    <3>1. /\ x \in Stream!Streams /\ x.at = where /\ x.row = None /\ x.from = c.from
          /\ x.cursor = c.cursor /\ x.snapshot = c.snapshot /\ x.todo = c.todo /\ x.got = c.got
      BY <2>2 DEF Stream!Streams, Stream!Following
    <3> HIDE DEF x, c
    <3>2. StreamFits(x) BY <2>1, <2>2, <3>1 DEF StreamFits, Exact, Stream!Following
    <3> QED BY <1>1, <2>4, <3>1, <3>2, StreamMoves DEF x
  <2>5. CASE /\ Stream!Consistent(row) /\ Stream!Wakes(s)
             /\ streams' = [streams EXCEPT ![s] =
                  [c EXCEPT !.at = "emit", !.row = None, !.snapshot = Stream!Loaded(row),
                            !.todo = rest, !.cursor = rest[Len(rest)].version]]
    <3> DEFINE log == record.log
    <3>1. /\ row.version = record.version /\ row.version > c.cursor
          /\ Stream!Loaded(row) \in Stream!Snapshots /\ Stream!Loaded(row).version = record.version
      BY <2>1, <2>2, <2>5, StreamRows DEF StreamFits, Stream!Wakes
    <3>2. /\ 1 <= c.cursor /\ c.cursor \in Nat /\ c.from \in Nat /\ c.todo = <<>>
          /\ c.got \in Seq(Stream!Events) /\ Exact(c)
      BY <2>1, <2>2 DEF StreamFits, Stream!Streams, Stream!Following
    <3>3. PICK a \in 0 .. Len(log), b \in 0 .. Len(log) :
            /\ a <= b /\ Stream!Marks(a, c.from) /\ Stream!Marks(b, c.cursor) /\ c.from <= c.cursor
            /\ c.got \o c.todo = SubSeq(log, a + 1, b)
      BY <3>2 DEF Exact
    <3>4. Stream!Position(c.cursor) = b BY <3>2, <3>3, StreamPosition
    <3>5. /\ record.version \in Nat /\ Len(log) \in Nat /\ log \in Seq(Stream!Events)
          /\ DOMAIN log = 1 .. Len(log) /\ record.version > 1
      BY <3>1, <3>2, StreamFacts
    <3>6. /\ Len(log) \in 1 .. Len(log) /\ log[Len(log)].version = record.version
          /\ Stream!Marks(Len(log), record.version)
      BY <3>5, StreamFacts DEF Stream!LogInv
    <3>7. b < Len(log) /\ a \in Nat /\ b \in Nat
      <4>1. ~(record.version <= c.cursor) BY <3>1, <3>2, <3>5
      <4>2. ~(Len(log) <= b) BY <3>3, <3>5, <3>6, <4>1 DEF Stream!Marks
      <4> QED BY <3>3, <3>5, <4>2
    <3>8. /\ rest \in Seq(Stream!Events) /\ c.got \o rest = SubSeq(log, a + 1, Len(log))
          /\ rest[Len(rest)] = log[Len(log)]
      <4>1. rest = SubSeq(log, b + 1, Len(log)) BY <3>4
      <4>2. c.got \o <<>> = SubSeq(log, a + 1, b) BY <3>2, <3>3
      <4> DEFINE got == c.got
      <4>3. got \in Seq(Stream!Events) /\ got = SubSeq(log, a + 1, b) BY <3>2, <4>2, ConcatEmptySeq
      <4>4. a <= b BY <3>3
      <4> HIDE DEF rest, log, c, got
      <4>5. /\ rest \in Seq(Stream!Events) /\ got \o rest = SubSeq(log, a + 1, Len(log))
            /\ rest[Len(rest)] = log[Len(log)]
        BY ONLY <3>5, <3>7, <4>1, <4>3, <4>4, StreamContinues
      <4> QED BY <4>5 DEF got
    <3> HIDE DEF rest, log
    <3> DEFINE x == [c EXCEPT !.at = "emit", !.row = None, !.snapshot = Stream!Loaded(row),
                              !.todo = rest, !.cursor = record.version]
    <3>9. streams' = [streams EXCEPT ![s] = x] BY <2>5, <3>6, <3>8
    <3>10. /\ x \in Stream!Streams /\ x.at = "emit" /\ x.row = None /\ x.from = c.from
           /\ x.cursor = record.version /\ x.snapshot = Stream!Loaded(row) /\ x.todo = rest
           /\ x.got = c.got
      BY <2>2, <3>1, <3>5, <3>8 DEF Stream!Streams, Stream!Following
    <3> HIDE DEF x, c
    <3>11. c.from <= record.version /\ a <= Len(log) /\ Len(log) \in 0 .. Len(log)
           /\ 1 <= record.version /\ record.version <= record.version
      BY <3>1, <3>2, <3>3, <3>5, <3>7
    <3>12. x.got \o x.todo = SubSeq(log, a + 1, Len(log)) BY <3>8, <3>10
    <3>13. Exact(x) BY <3>3, <3>6, <3>10, <3>11, <3>12 DEF Exact, log
    <3>14. StreamFits(x) BY <3>1, <3>10, <3>11, <3>13 DEF StreamFits
    <3> QED BY <1>1, <3>9, <3>10, <3>14, StreamMoves
  <2> QED BY <2>3, <2>4, <2>5
<1> QED BY <1>3, <1>4, <1>5, <1>6, <1>7, <1>8, <1>9 DEF Stream!StreamStep

LEMMA StreamInit ==
    ASSUME Stream!Init
    PROVE  Stream!IndInv
<1>1. /\ record = [version |-> 1, state |-> "submitted", log |-> <<>>]
      /\ writers = [w \in Writers |-> None] /\ streams = [s \in Subscribers |-> None]
  BY DEF Stream!Init
<1>2. <<>> \in Seq(Stream!Events) /\ Len(<<>>) = 0 /\ DOMAIN <<>> = {} OBVIOUS
<1>3. record \in Stream!Snapshots BY <1>1, <1>2 DEF Stream!Snapshots, Stream!States
<1>4. record.version = 1 /\ record.log = <<>> BY <1>1
<1>5. Stream!TypeOK BY <1>1, <1>3 DEF Stream!TypeOK
<1>6. Stream!LogInv BY <1>2, <1>4 DEF Stream!LogInv, Stream!Marks
<1>7. Stream!WriterInv /\ Stream!StreamInv BY <1>1 DEF Stream!WriterInv, Stream!StreamInv
<1> QED BY <1>5, <1>6, <1>7 DEF Stream!IndInv

LEMMA StreamSteps ==
    ASSUME Stream!IndInv, [Stream!Next]_(Stream!vars)
    PROVE  Stream!IndInv'
<1>1. CASE UNCHANGED Stream!vars
  BY <1>1 DEF Stream!vars, Stream!IndInv, Stream!TypeOK, Stream!LogInv, Stream!WriterInv, Stream!StreamInv, Stream!RowFits, Stream!Marks
<1>2. CASE Stream!Next
  <2>1. ASSUME NEW w \in Writers,
               \/ \E new \in Stream!Settled \cup {"working"} : Stream!Transition(w, new)
               \/ Stream!LoadRow(w) \/ Stream!LoadEvents(w)
        PROVE  Stream!IndInv'
    BY <2>1, StreamWrites
  <2>2. ASSUME NEW w \in Writers, Stream!ReplaceTask(w) PROVE Stream!IndInv' BY <2>2, StreamReplaces
  <2>3. ASSUME NEW s \in Subscribers,
               (\E sending \in BOOLEAN : Stream!Subscribe(s, sending)) \/ Stream!StreamStep(s) \/ Stream!Leave(s)
        PROVE  Stream!IndInv'
    BY <2>3, StreamServes
  <2> QED BY <1>2, <2>1, <2>2, <2>3 DEF Stream!Next
<1> QED BY <1>1, <1>2

\* The places of a stream's two versions are those of the property.
LEMMA StreamPromise ==
    ASSUME Stream!IndInv
    PROVE  Stream!StreamIsExact
<1> SUFFICES ASSUME NEW s \in Subscribers, streams[s] # None, streams[s].snapshot # None
             PROVE  streams[s].got \o streams[s].todo
                        = Stream!Between(streams[s].from, streams[s].snapshot.version)
  BY DEF Stream!StreamIsExact
<1> DEFINE x == streams[s]
<1>1. x \in Stream!Streams /\ StreamFits(x) BY StreamFacts, StreamParts DEF Stream!IndInv
<1>2. x.at \in Stream!Following BY <1>1 DEF StreamFits, Stream!Streams
<1>3. Exact(x) /\ x.cursor = x.snapshot.version /\ x.cursor \in Nat /\ x.from \in Nat
  BY <1>1, <1>2 DEF StreamFits, Stream!Streams
<1>4. PICK a, b \in 0 .. Len(record.log) :
        /\ Stream!Marks(a, x.from) /\ Stream!Marks(b, x.cursor)
        /\ x.got \o x.todo = SubSeq(record.log, a + 1, b)
  BY <1>3 DEF Exact
<1>5. Stream!Position(x.from) = a /\ Stream!Position(x.cursor) = b BY <1>3, <1>4, StreamPosition
<1> QED BY <1>3, <1>4, <1>5 DEF Stream!Between

\* The invariant of a Task's log and of the streams that follow it.
THEOREM StreamInvariance == Stream!Spec => []Stream!IndInv
<1>1. Stream!Init => Stream!IndInv BY StreamInit
<1>2. Stream!IndInv /\ [Stream!Next]_(Stream!vars) => Stream!IndInv' BY StreamSteps
<1> QED BY <1>1, <1>2, PTL DEF Stream!Spec

\* What a client was sent, and is about to be sent, is exactly the Task's events since it
\* subscribed.
THEOREM StreamSafety == Stream!Spec => []Stream!StreamIsExact
<1>1. Stream!IndInv => Stream!StreamIsExact BY StreamPromise
<1> QED BY <1>1, StreamInvariance, PTL

-----------------------------------------------------------------------------
(* The services together. *)

\* A step of the services is one of each service, or leaves it as it is.
LEMMA OneService ==
    [Next]_vars => /\ [Follower!Next]_(Follower!vars) /\ [Run!Next]_(Run!vars)
                   /\ [Local!Next]_(Local!vars) /\ [Stream!Next]_(Stream!vars)
<1> SUFFICES ASSUME [Next]_vars
             PROVE  /\ [Follower!Next]_(Follower!vars) /\ [Run!Next]_(Run!vars)
                    /\ [Local!Next]_(Local!vars) /\ [Stream!Next]_(Stream!vars)
  OBVIOUS
<1>1. Follower!Next \/ UNCHANGED followerVars BY DEF Next, vars
<1>2. Run!Next \/ UNCHANGED runVars BY DEF Next, vars
<1>3. Local!Next \/ UNCHANGED localVars BY DEF Next, vars
<1>4. Stream!Next \/ UNCHANGED streamVars BY DEF Next, vars
<1> QED
  BY <1>1, <1>2, <1>3, <1>4
  DEF followerVars, Follower!vars, runVars, Run!vars, localVars, Local!vars, streamVars, Stream!vars

\* As long as sessionStorage takes what is written to it, a command that is asked again while it
\* says the same makes no second Run, and no cursor passes an event the tab has not shown
\* (run-submission.ts, idempotency.ts, useRunStream).
THEOREM FollowerCorrect == Spec => []FollowerIsSafe
<1>1. Spec => Follower!Spec
  <2>1. Init => Follower!Init BY DEF Init
  <2> QED BY <2>1, OneService, PTL DEF Spec, Follower!Spec
<1>2. Follower!Spec => []Follower!FollowerIsSafe BY FollowerConstants, FollowerSafety
<1> QED BY <1>1, <1>2, PTL DEF FollowerIsSafe

\* A Run of a pinned brief fails only for a cause, a result is about one brief, and a cancellation
\* reaches every Task but one late dispatch of each execution (orchestrator.py, cancel_run_tasks).
THEOREM OrchestrationCorrect == Spec => []RunIsCoherent
<1>1. Init => Run!IndInv
  <2>1. Idle => Run!IndInv
    <3> SUFFICES ASSUME Idle PROVE Run!IndInv
      OBVIOUS
    <3>1. Run!Attempts = {} /\ Len(workers) = 0 BY DEF Idle, Run!Attempts
    <3>2. /\ run \in Run!RunRows /\ run.life = "canceled" /\ run.result = None
          /\ run.error = None
      BY DEF Idle, Run!RunRows, Run!Terminal
    <3>3. \A i \in Run!Interfaces : tasks[i] = None BY DEF Idle
    <3>4. Run!TypeOK
      <4>1. workers \in Seq(Run!Workers) BY DEF Idle
      <4>2. tasks \in [Run!Interfaces -> Run!Tasks \cup {None}] BY DEF Idle
      <4> QED BY <3>2, <4>1, <4>2 DEF Run!TypeOK, Idle
    <3>5. Run!StageInv /\ Run!PinnedInv /\ Run!StartedInv
      BY <3>1, <3>2, <3>3 DEF Run!StageInv, Run!PinnedInv, Run!StartedInv
    <3>6. Run!TaskInv /\ Run!LateInv BY <3>3 DEF Run!TaskInv, Run!LateInv
    <3>7. Run!FencedInv BY <3>3 DEF Idle, Run!FencedInv
    <3>8. Run!ResultInv /\ Run!PinnedRunsRecover
      BY <3>2 DEF Run!ResultInv, Run!PinnedRunsRecover, Run!FailsOnlyForCause
    <3> QED BY <3>4, <3>5, <3>6, <3>7, <3>8 DEF Run!IndInv
  <2>2. Run!Init => Run!IndInv BY OrchestrationConstants, RunInit
  <2> QED BY <2>1, <2>2 DEF Init
<1>2. Run!IndInv /\ [Next]_vars => Run!IndInv'
  BY OrchestrationConstants, OneService, RunSteps
<1>3. Run!IndInv => RunIsCoherent BY RunPromises DEF RunIsCoherent
<1> QED BY <1>1, <1>2, <1>3, PTL DEF Spec

\* A Run that the API process executes has one task while it needs one, and nothing overtakes a
\* requested cancellation (RunCoordinator: _start, _forget, resume, cancel, close).
THEOREM ExecutionCorrect == Spec => ExecutionIsSafe
<1>1. Init => Local!IndInv
  <2>1. Down => Local!IndInv
    <3> SUFFICES ASSUME Down PROVE Local!IndInv
      OBVIOUS
    <3>1. Local!TaskIds = {} /\ Len(threads) = 0 BY DEF Down, Local!TaskIds
    <3>2. inline \in Local!Runs /\ inline.life = "canceled"
      BY DEF Down, Local!Runs, Local!Working, Local!Stopped, Local!Terminal
    <3>3. Local!TypeOK
      <4>1. threads \in Seq(Local!Tasks) BY DEF Down
      <4> QED BY <3>1, <3>2, <4>1 DEF Local!TypeOK, Down
    <3>4. Local!HandInv /\ Local!VersionInv BY <3>1, <3>2 DEF Local!HandInv, Local!VersionInv
    <3>5. Local!StopInv BY <3>1 DEF Down, Local!StopInv
    <3>6. Local!WorkInv BY <3>2 DEF Local!WorkInv, Local!Working
    <3> QED BY <3>3, <3>4, <3>5, <3>6 DEF Local!IndInv
  <2>2. Local!Init => Local!IndInv BY LocalConstants, LocalInit
  <2> QED BY <2>1, <2>2 DEF Init
<1>2. Local!IndInv /\ [Next]_vars => Local!IndInv' BY OneService, LocalSteps
<1>3. Local!IndInv => Local!RunHasTask /\ Local!OneExecution BY LocalPromises
<1>4. Local!IndInv /\ [Next]_vars =>
        [inline.life = "cancel_requested" =>
            inline'.life \in {"cancel_requested", "canceled"}]_(Local!vars)
  BY OneService, LocalSteps DEF LocalYields
<1> QED
  BY <1>1, <1>2, <1>3, <1>4, PTL
  DEF Spec, ExecutionIsSafe, Local!ExecutionIsSafe, Local!CancellationWins

\* What a client of an A2A Task was sent, and is about to be sent, is exactly the Task's events
\* since it subscribed (TaskService.subscribe, PostgresAgentTaskStore: load, replace, wait).
THEOREM StreamsCorrect == Spec => []StreamIsExact
<1>1. Spec => Stream!Spec
  <2>1. Init => Stream!Init BY DEF Init
  <2> QED BY <2>1, OneService, PTL DEF Spec, Stream!Spec
<1>2. Stream!Spec => []Stream!StreamIsExact BY StreamSafety
<1> QED BY <1>1, <1>2, PTL DEF StreamIsExact
=============================================================================
