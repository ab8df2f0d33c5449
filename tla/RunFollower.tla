---------------------------- MODULE RunFollower ----------------------------
(***************************************************************************)
(* One browser tab that submits commands, follows a Run's event stream and  *)
(* survives lost answers, broken streams and reloads; and the API's side of *)
(* it: the journal of submitted commands, the event log and the stream.     *)
(*                                                                          *)
(* A Run is its event log: mutate_run commits a lifecycle change and its    *)
(* event together, and an event's seq is the Run's control_version.  How a  *)
(* Run advances is RunExecution's subject; here it advances arbitrarily.    *)
(*                                                                          *)
(* A request is sent, handled, and answered in separate steps, and may be   *)
(* lost in between.  The tab's code runs to completion between awaits, so   *)
(* each callback is one step.                                               *)
(***************************************************************************)
EXTENDS Integers, Sequences, FiniteSets

CONSTANTS
    Questions,      \* what the user may submit
    Plans,          \* of these, the sentences sent as planning commands
    Titles,         \* the Trip's possible titles
    Versions,       \* the versions a plan may have
    MaxRuns,        \* bound on the Runs created
    MaxEvents,      \* bound on a Run's events before its last
    MaxRequests,    \* bound on what the user submits, resumes, cancels and edits
    MaxFaults,      \* bound on lost answers and writes, broken streams and reloads
    None

VARIABLES
    runs,           \* the Runs in order of creation: input, key, life, log
    trip,           \* the Trip's title, the Run that made its current plan and the plan's version
    known,          \* the tab's copy of it
    storage,        \* sessionStorage has kept what was written to it
    ui,             \* RunUiState: run, life, seq, version, closed
    cursor,         \* saveRunCursor: the run and seq in localStorage
    pending,        \* reserveRunSubmission: fingerprint and key in sessionStorage
    stream,         \* followRunEvents: run, at, sent, listed, wire
    requests,       \* the outstanding request of each kind
    keys, asked, faults,
    applied,        \* the events of each Run that this tab has ever shown
    doubtful        \* Runs whose creation is unanswered while only their command is submitted

vars == <<runs, trip, known, storage, ui, cursor, pending, stream, requests,
          keys, asked, faults, applied, doubtful>>

RunIds == 1 .. Len(runs)
Kinds == {"submit", "resume", "cancel", "load"}
Terminal == {"completed", "failed", "canceled"}
Busy(life) == life \in {"queued", "running", "cancel_requested"}

\* RunView: what an answer says of a Run.
View(r) == [run |-> r, life |-> runs[r].life, version |-> Len(runs[r].log)]

\* Events that leave the Run's lifecycle as it is.
Notes == {"progress", "published"}
\* mutate_run: the change and its event.
WithEvent(r, event) ==
    [runs EXCEPT ![r].log = Append(@, event), ![r].life = IF event \in Notes THEN @ ELSE event]

EmptyUi == [run |-> None, life |-> "idle", seq |-> 0, version |-> 0, closed |-> FALSE]

Init ==
    /\ runs = <<>>
    /\ trip \in [title : Titles, plan : {0}, version : {0}] /\ known = trip
    /\ storage = TRUE
    /\ ui = EmptyUi /\ cursor = None /\ pending = None /\ stream = None
    /\ requests = [k \in Kinds |-> None]
    /\ keys = 0 /\ asked = 0 /\ faults = 0
    /\ applied = [r \in 1 .. MaxRuns |-> {}] /\ doubtful = {}

serverVars == <<runs, trip>>
tripVars == <<known, storage>>
bounds == <<keys, asked, faults>>

-----------------------------------------------------------------------------
(* The tab's state *)

\* dispatch saves the cursor after every action.
Dispatch(u) ==
    /\ ui' = u
    /\ cursor' = IF u.run = None THEN cursor ELSE [run |-> u.run, seq |-> u.seq]

\* The reducer's "snapshot".
Snapshot(view, seq) ==
    [run |-> view.run, life |-> view.life, seq |-> seq, version |-> view.version,
     closed |-> ui.run = view.run /\ ui.closed]

\* applyEvent: another Run's event or one already seen is ignored.
ApplyEvent(r, n) ==
    LET event == runs[r].log[n]
        later == IF n > ui.version THEN n ELSE ui.version
    IN IF r # ui.run \/ n <= ui.seq THEN ui
       ELSE [ui EXCEPT !.seq = n, !.version = later,
                       !.life = IF event \in Notes THEN @ ELSE event,
                       !.closed = @ \/ event \in Terminal]

\* Mutant: the events up to the Run's version are taken for seen.
StartStreamAtVersion(view, seq) ==
    /\ Dispatch([Snapshot(view, view.version) EXCEPT !.closed = view.life \in Terminal])
    /\ stream' = IF view.life \in Terminal THEN None
                 ELSE [run |-> view.run, at |-> "backoff", sent |-> 0, listed |-> FALSE, wire |-> <<>>]
\* startStream: the stream before it is aborted; an ended Run needs none.
StartStream(view, seq) ==
    /\ Dispatch([Snapshot(view, seq) EXCEPT !.closed = @ \/ view.life \in Terminal])
    /\ stream' = IF view.life \in Terminal THEN None
                 ELSE [run |-> view.run, at |-> "backoff", sent |-> 0, listed |-> FALSE, wire |-> <<>>]

-----------------------------------------------------------------------------
(* The user *)

Send(kind, fields) == requests' = [requests EXCEPT ![kind] = fields]
Sent(kind) == requests[kind] # None /\ requests[kind].at = "sent"
Answered(kind) == requests[kind] # None /\ requests[kind].at \in {"done", "refused"}

\* buildQuestionRunInput and buildPlanningRunInput: what a sentence is sent as.  The title is
\* the tab's; a planning command is based on the plan the tab has, if any.
RunInput(q) ==
    [question |-> q, title |-> known.title,
     plan |-> IF q \in Plans THEN known.plan ELSE 0,
     version |-> IF q \in Plans THEN known.version ELSE 0]
\* commandFingerprint: the base's version, and not which plan it is a version of.
Fingerprint(input) ==
    [question |-> input.question, title |-> input.title, version |-> input.version]

\* Mutant: every submission takes a new key.
ReservedKeyAlwaysNew(command) == keys + 1
\* reserveRunSubmission: the same command again keeps its key until it is answered.
ReservedKey(command) ==
    IF pending # None /\ pending.command = command THEN pending.key ELSE keys + 1

\* submitCommand and submitQuestion.  The storage may fail to keep the key, which is used all
\* the same.
Submit(q) ==
    LET input   == RunInput(q)
        command == Fingerprint(input)
        key     == ReservedKey(command)
    IN
    /\ requests["submit"] = None /\ ~Busy(ui.life) /\ asked < MaxRequests
    /\ \/ pending' = [command |-> command, key |-> key] /\ UNCHANGED <<storage, faults>>
       \/ /\ faults < MaxFaults /\ faults' = faults + 1
          /\ storage' = FALSE /\ UNCHANGED pending
    /\ keys' = IF key > keys THEN key ELSE keys
    /\ Send("submit", [at |-> "sent", input |-> input, key |-> key, view |-> None])
    /\ doubtful' = {r \in doubtful : Fingerprint(runs[r].input) = command}
    /\ asked' = asked + 1
    /\ UNCHANGED <<serverVars, known, ui, cursor, stream, applied>>

\* resumeRun, with what the tab shows when the user answers.
Resume ==
    /\ requests["resume"] = None /\ requests["submit"] = None
    /\ ui.life = "waiting_input" /\ asked < MaxRequests
    /\ Send("resume", [at |-> "sent", run |-> ui.run, version |-> ui.version, seq |-> ui.seq,
                       view |-> None])
    /\ asked' = asked + 1
    /\ UNCHANGED <<serverVars, tripVars, ui, cursor, pending, stream, keys, faults, applied, doubtful>>

\* cancelRun: version and cursor are read before the request is sent.
Cancel ==
    /\ requests["cancel"] = None /\ Busy(ui.life) /\ asked < MaxRequests
    /\ Send("cancel", [at |-> "sent", run |-> ui.run, version |-> ui.version, seq |-> ui.seq,
                       view |-> None])
    /\ asked' = asked + 1
    /\ UNCHANGED <<serverVars, tripVars, ui, cursor, pending, stream, keys, faults, applied, doubtful>>

\* load after a reload: what the page showed and the answers are gone, the stored cursor and
\* key are not; the Trip and its artifacts are read again.  Events before the cursor, and with
\* them their activities and risks, are not shown a second time.
Reload ==
    /\ faults < MaxFaults /\ faults' = faults + 1
    /\ Dispatch(EmptyUi) /\ stream' = None /\ known' = trip
    /\ requests' = [k \in Kinds |-> IF k = "load" /\ cursor # None
                                      THEN [at |-> "sent", run |-> cursor.run, seq |-> cursor.seq,
                                            view |-> None]
                                      ELSE None]
    /\ UNCHANGED <<serverVars, storage, pending, keys, asked, applied, doubtful>>

\* The title changes, or the plan by a command on an artifact (TripArtifacts): a published plan
\* of another Run or version, or none.  The tab knows if it was its own change.
Edit(t) ==
    /\ asked < MaxRequests /\ asked' = asked + 1
    /\ t # trip /\ trip' = t
    /\ known' \in {t, known}
    /\ UNCHANGED <<runs, storage, ui, cursor, pending, stream, requests, keys,
                   faults, applied, doubtful>>
Published == {r \in RunIds : runs[r].input.question \in Plans
                                /\ \E n \in 1 .. Len(runs[r].log) : runs[r].log[n] = "published"}
Trips == [title : Titles, plan : {0}, version : {0}]
            \cup [title : Titles, plan : Published, version : Versions]

-----------------------------------------------------------------------------
(* The API *)

Reply(kind, view) == requests' = [requests EXCEPT ![kind].at = "done", ![kind].view = view]
Refuse(kind) == requests' = [requests EXCEPT ![kind].at = "refused"]
tabVars == <<tripVars, ui, cursor, pending, stream, keys, asked, faults, applied>>

\* A plan where one is published, or a replan of another base than the current one.
Outdated(input) ==
    input.question \in Plans /\ <<input.plan, input.version>> # <<trip.plan, trip.version>>

\* create_run: an archived Trip is refused before the key is looked up, a key of another request
\* and an outdated base after it.  A Trip may be archived and restored at any time, so that a
\* request may always meet an archived one.
CreateRun ==
    LET q == requests["submit"]
        prior == {r \in RunIds : runs[r].key = q.key}
    IN
    /\ Sent("submit")
    /\ \/ Refuse("submit") /\ UNCHANGED <<runs, doubtful>>
       \/ /\ \E r \in prior : runs[r].input = q.input /\ Reply("submit", View(r))
          /\ UNCHANGED <<runs, doubtful>>
       \/ /\ prior = {} /\ ~Outdated(q.input) /\ Len(runs) < MaxRuns
          /\ runs' = Append(runs, [input |-> q.input, key |-> q.key,
                                   life |-> "queued", log |-> <<"queued">>])
          /\ Reply("submit", [run |-> Len(runs) + 1, life |-> "queued", version |-> 1])
          /\ doubtful' = doubtful \cup {Len(runs) + 1}
    /\ UNCHANGED <<trip, tabVars>>

\* resume_run
ResumeRun ==
    LET q == requests["resume"] IN
    /\ Sent("resume")
    /\ \/ /\ runs[q.run].life = "waiting_input" /\ Len(runs[q.run].log) = q.version
          /\ runs' = WithEvent(q.run, "queued")
          /\ Reply("resume", [run |-> q.run, life |-> "queued", version |-> q.version + 1])
       \/ /\ ~(runs[q.run].life = "waiting_input" /\ Len(runs[q.run].log) = q.version)
          /\ Refuse("resume") /\ UNCHANGED runs
    /\ UNCHANGED <<trip, tabVars, doubtful>>

\* RunCoordinator.cancel, up to the propagation to the agents' tasks.
RequestCancel ==
    LET q == requests["cancel"]
        life == runs[q.run].life
    IN
    /\ Sent("cancel")
    /\ \/ life \in Terminal /\ Reply("cancel", View(q.run)) /\ UNCHANGED runs
       \/ /\ life = "cancel_requested" /\ UNCHANGED runs
          /\ requests' = [requests EXCEPT !["cancel"].at = "finish", !["cancel"].view = View(q.run)]
       \/ /\ life \notin Terminal \cup {"cancel_requested"} /\ Len(runs[q.run].log) = q.version
          /\ runs' = WithEvent(q.run, "cancel_requested")
          /\ requests' = [requests EXCEPT !["cancel"].at = "finish", !["cancel"].view =
                [run |-> q.run, life |-> "cancel_requested", version |-> q.version + 1]]
       \/ /\ life \notin Terminal \cup {"cancel_requested"} /\ Len(runs[q.run].log) # q.version
          /\ Refuse("cancel") /\ UNCHANGED runs
    /\ UNCHANGED <<trip, tabVars, doubtful>>

\* The rest of it: _finish_canceled unless a local task does it, or the propagation failed;
\* the answer is the Run as it was when the cancellation was requested.
FinishCancel ==
    LET q == requests["cancel"] IN
    /\ q # None /\ q.at = "finish"
    /\ \/ /\ Reply("cancel", q.view)
          /\ runs' = IF runs[q.run].life \in Terminal THEN runs ELSE WithEvent(q.run, "canceled")
       \/ Reply("cancel", q.view) /\ UNCHANGED runs
       \/ Refuse("cancel") /\ UNCHANGED runs
    /\ UNCHANGED <<trip, tabVars, doubtful>>

\* get_run for the reloaded tab.
GetRun ==
    /\ Sent("load") /\ Reply("load", View(requests["load"].run))
    /\ UNCHANGED <<serverVars, tabVars, doubtful>>

\* The executor, the worker and its deadlines (RunExecution).  Publication makes a plan the
\* Trip's current one, and the Run's end follows it.
Advance(r, event) ==
    LET log == runs[r].log IN
    /\ \/ runs[r].life = "queued" /\ event \in {"running", "failed"}
       \/ /\ runs[r].life = "running" /\ log[Len(log)] # "published"
          /\ event \in {"progress", "waiting_input", "published", "failed"}
       \/ /\ runs[r].life = "running" /\ log[Len(log)] = "published"
          /\ event \in {"completed", "failed"}
       \/ runs[r].life = "cancel_requested" /\ event = "canceled"
    /\ event \in Terminal \/ Len(log) < MaxEvents
    /\ runs' = WithEvent(r, event)
    /\ trip' = IF event = "published" /\ runs[r].input.question \in Plans
                 THEN [trip EXCEPT !.plan = r, !.version = 1] ELSE trip
    /\ UNCHANGED <<tabVars, requests, doubtful>>

-----------------------------------------------------------------------------
(* Answers *)

Done(kind) == requests' = [requests EXCEPT ![kind] = None]

\* clearRunSubmission and the stream of the new Run; after an error the key is kept.
AnswerSubmit ==
    LET q == requests["submit"] IN
    /\ Answered("submit") /\ Done("submit")
    /\ \/ /\ q.at = "done" /\ StartStream(q.view, 0)
          /\ pending' = IF pending # None /\ pending.key = q.key THEN None ELSE pending
          /\ doubtful' = doubtful \ {q.view.run}
       \/ q.at = "refused" /\ UNCHANGED <<ui, cursor, stream, pending, doubtful>>
    /\ UNCHANGED <<serverVars, tripVars, bounds, applied>>

AnswerResume ==
    LET q == requests["resume"] IN
    /\ Answered("resume") /\ Done("resume")
    /\ \/ q.at = "done" /\ StartStream(q.view, q.seq)
       \/ q.at = "refused" /\ UNCHANGED <<ui, cursor, stream>>
    /\ UNCHANGED <<serverVars, tripVars, pending, bounds, applied, doubtful>>

\* The answer of a cancellation replaces what the tab shows, at the cursor of the request.
AnswerCancel ==
    LET q == requests["cancel"] IN
    /\ Answered("cancel") /\ Done("cancel")
    /\ \/ q.at = "done" /\ Dispatch(Snapshot(q.view, q.seq))
       \/ q.at = "refused" /\ UNCHANGED <<ui, cursor>>
    /\ UNCHANGED <<serverVars, tripVars, pending, stream, bounds, applied, doubtful>>

AnswerLoad ==
    LET q == requests["load"] IN
    /\ Answered("load") /\ Done("load") /\ StartStream(q.view, q.seq)
    /\ UNCHANGED <<serverVars, tripVars, pending, bounds, applied, doubtful>>

\* A request or its answer is lost; the handler may or may not have run.
Lose(kind) ==
    /\ requests[kind] # None /\ requests[kind].at # "finish"
    /\ faults < MaxFaults /\ faults' = faults + 1 /\ Done(kind)
    /\ UNCHANGED <<serverVars, tripVars, ui, cursor, pending, stream, keys, asked, applied, doubtful>>

-----------------------------------------------------------------------------
(* The stream *)

Open == stream # None /\ stream.at # "backoff"
streamVars == <<serverVars, storage, pending, requests, keys, asked, doubtful>>

\* followRunEvents: the loop's condition, and the request with the cursor it has then.
Connect ==
    /\ stream # None /\ stream.at = "backoff"
    /\ \/ ui.life \in Terminal /\ stream' = None /\ Dispatch([ui EXCEPT !.closed = TRUE])
       \/ /\ ui.life \notin Terminal /\ Dispatch([ui EXCEPT !.closed = FALSE])
          /\ stream' = [stream EXCEPT !.at = "list", !.sent = ui.seq, !.wire = <<>>]
    /\ UNCHANGED <<streamVars, known, faults, applied>>

\* _stream_events: list_events, whose rows are sent in order.
ListEvents ==
    LET n == Len(runs[stream.run].log)
        new == IF stream.sent < n THEN n - stream.sent ELSE 0
    IN
    /\ Open /\ stream.at = "list"
    /\ stream' = [stream EXCEPT !.at = "check", !.listed = new > 0, !.sent = @ + new,
                                !.wire = @ \o [i \in 1 .. new |-> stream.sent + i]]
    /\ UNCHANGED <<streamVars, known, ui, cursor, faults, applied>>

\* get_run and wait_for_events: the stream ends once an ended Run has nothing listed.
CheckRun ==
    /\ Open /\ stream.at = "check"
    /\ stream' = [stream EXCEPT !.at =
            IF runs[stream.run].life \in Terminal /\ ~stream.listed THEN "ended" ELSE "list"]
    /\ UNCHANGED <<streamVars, known, ui, cursor, faults, applied>>

\* onEvent and the reducer.  At a publication or completion refreshArtifacts reads the Trip again,
\* at once or, if it fails, not at all.
Deliver ==
    LET n == Head(stream.wire) IN
    /\ Open /\ stream.wire # <<>>
    /\ Dispatch(ApplyEvent(stream.run, n))
    /\ applied' = IF ui' = ui THEN applied ELSE [applied EXCEPT ![stream.run] = @ \cup {n}]
    /\ \/ UNCHANGED known
       \/ /\ stream.run = ui.run /\ runs[stream.run].log[n] \in {"published", "completed"}
          /\ known' = trip
    /\ stream' = [stream EXCEPT !.wire = Tail(@)]
    /\ UNCHANGED <<streamVars, faults>>

\* Mutant: a stream that ends is taken for complete.
EndOfStreamFinal ==
    /\ Open /\ stream.at = "ended" /\ stream.wire = <<>>
    /\ stream' = None /\ Dispatch([ui EXCEPT !.closed = TRUE])
    /\ UNCHANGED <<streamVars, known, faults, applied>>
\* The response ends: the follower stops only if it has seen the Run end.
EndOfStream ==
    /\ Open /\ stream.at = "ended" /\ stream.wire = <<>>
    /\ \/ ui.life \in Terminal /\ stream' = None /\ Dispatch([ui EXCEPT !.closed = TRUE])
       \/ /\ ui.life \notin Terminal /\ stream' = [stream EXCEPT !.at = "backoff"]
          /\ UNCHANGED <<ui, cursor>>
    /\ UNCHANGED <<streamVars, known, faults, applied>>

\* The connection breaks and what was on its way is lost; or the session's rights changed.
Break ==
    /\ Open /\ faults < MaxFaults /\ faults' = faults + 1
    /\ stream' = [stream EXCEPT !.at = "backoff", !.wire = <<>>]
    /\ UNCHANGED <<streamVars, known, ui, cursor, applied>>

Next ==
    \/ \E q \in Questions : Submit(q)
    \/ Resume \/ Cancel \/ Reload
    \/ \E t \in Trips : Edit(t)
    \/ CreateRun \/ ResumeRun \/ RequestCancel \/ FinishCancel \/ GetRun
    \/ \E r \in RunIds, event \in {"running", "waiting_input"} \cup Notes \cup Terminal :
            Advance(r, event)
    \/ AnswerSubmit \/ AnswerResume \/ AnswerCancel \/ AnswerLoad
    \/ \E kind \in Kinds : Lose(kind)
    \/ Connect \/ ListEvents \/ CheckRun \/ Deliver \/ EndOfStream \/ Break

Spec == Init /\ [][Next]_vars

\* The follower retries for ever and the API polls; nothing makes the user or the Run act.
Fairness == WF_vars(ListEvents \/ CheckRun) /\ WF_vars(Connect \/ Deliver \/ EndOfStream)

-----------------------------------------------------------------------------
(* Properties *)

\* A submission whose answer was lost may be repeated without making a second Run
\* (TripWorkspace.tsx: "submitting the same sentence again creates no duplicate Run"): whatever
\* answers were lost, reloads happened or editing went on, at most one Run is unknown to a tab
\* that keeps submitting one command, if its storage works.  The command is the sentence with
\* the Trip's title and the version of its plan: once the first Run has published a plan and the
\* tab has read it, the same sentence is another command, and makes a second Run.
OneRunPerCommand == storage => Cardinality(doubtful) <= 1

\* "Only the missing events are read" after a disconnection (docs/development/api-guide.md):
\* the cursor never passes an event the tab has not shown, so broken streams, reloads and answers
\* that move the cursor make it skip none.
NothingSkipped == ui.run # None => 1 .. ui.seq \subseteq applied[ui.run]

\* The tab shows a Run as going on that has ended.
Behind == ui.run # None /\ runs[ui.run].life \in Terminal /\ ui.life \notin Terminal

\* The answer of a cancellation came after the Run's end was shown, or after another Run's
\* stream took the place of its own: the tab shows "cancel_requested", and no stream will change
\* it, only a reload (TripWorkspace.tsx, cancelRun).
PutBack == ui.life = "cancel_requested" /\ (stream = None \/ stream.run # ui.run)

\* But for that case a tab never stays behind: the end of its Run reaches it, although the stream
\* may close between the listing of the events and the look at the Run, before the last event was
\* sent, or break, or be replaced when an answer arrives.
FollowerCatchesUp == []<>(~Behind \/ PutBack)

\* What a tab's user relies on: asking again makes no second Run, and no event is missed.
FollowerIsSafe == OneRunPerCommand /\ NothingSkipped
-----------------------------------------------------------------------------
(* The inductive invariant: what the safety properties rest on. *)

Ids    == 1 .. MaxRuns
Lives  == {"queued", "running", "waiting_input", "cancel_requested"} \cup Terminal
Inputs == [question : Questions, title : Titles, plan : Nat, version : Nat]
Prints == [question : Questions, title : Titles, version : Nat]
Runs   == [input : Inputs, key : Nat, life : Lives, log : Seq(Lives \cup Notes)]
Views  == [run : Ids, life : Lives, version : Nat]
States == [run : Ids \cup {None}, life : Lives \cup {"idle"}, seq : Nat, version : Nat,
           closed : BOOLEAN]
Streams == [run : Ids, at : {"backoff", "list", "check", "ended"}, sent : Nat, listed : BOOLEAN,
            wire : Seq(Nat)]
Submissions == [at : {"sent", "done", "refused"}, input : Inputs, key : Nat,
                view : Views \cup {None}]
Commands == [at : {"sent", "finish", "done", "refused"}, run : Ids, version : Nat, seq : Nat,
             view : Views \cup {None}]
Loads    == [at : {"sent", "done"}, run : Ids, seq : Nat, view : Views \cup {None}]
Requests(kind) == IF kind = "submit" THEN Submissions ELSE IF kind = "load" THEN Loads ELSE Commands
Reserved == [command : Prints, key : Nat]
Cursors  == [run : Ids, seq : Nat]

\* None is none of the values it stands in for.
FollowerAssumption ==
    /\ MaxRuns \in Nat /\ Versions \subseteq Nat
    /\ None \notin Nat \cup Views \cup Streams \cup Submissions \cup Commands \cup Loads
                       \cup Reserved \cup Cursors

TripRows == [title : Titles, plan : Nat, version : Nat]
TripOK == trip \in TripRows /\ known \in TripRows /\ storage \in BOOLEAN
TypeOK ==
    /\ runs \in Seq(Runs) /\ Len(runs) <= MaxRuns
    /\ TripOK
    /\ ui \in States /\ cursor \in Cursors \cup {None} /\ pending \in Reserved \cup {None}
    /\ stream \in Streams \cup {None}
    /\ requests \in [Kinds -> Submissions \cup Commands \cup Loads \cup {None}]
    /\ \A k \in Kinds : requests[k] \in Requests(k) \cup {None}
    /\ keys \in Nat /\ asked \in Nat /\ faults \in Nat
    /\ applied \in [Ids -> SUBSET Nat] /\ doubtful \subseteq Ids

\* What refers to a Run refers to one that was created, and an answer to the Run it was asked
\* of.
KnownInv ==
    /\ IF ui.run = None THEN ui.life = "idle" ELSE ui.run \in RunIds
    /\ cursor # None => cursor.run \in RunIds
    /\ stream # None => stream.run \in RunIds
    /\ \A k \in Kinds : requests[k] # None =>
        /\ k # "submit" => requests[k].run \in RunIds
        /\ requests[k].at \in {"finish", "done"} =>
            /\ requests[k].view # None /\ requests[k].view.run \in RunIds
            /\ k # "submit" => requests[k].view.run = requests[k].run
            /\ k = "submit" => runs[requests[k].view.run].key = requests[k].key

\* The tab has shown the first n events of Run r.
Shown(r, n) == 1 .. n \subseteq applied[r]
\* So it has up to every cursor it may come back to.
SeenInv ==
    /\ ui.run # None => Shown(ui.run, ui.seq)
    /\ cursor # None => Shown(cursor.run, cursor.seq)
    /\ \A k \in Kinds \ {"submit"} : requests[k] # None => Shown(requests[k].run, requests[k].seq)

\* The events on their way follow each other, up to the last one sent.  If the tab shows the
\* stream's Run, it has shown all that came before; if the answer of an old cancellation put
\* another Run in its place, no later one brings the stream's Run back.
StreamInv ==
    stream # None =>
        /\ \A i \in 1 .. Len(stream.wire) :
            /\ stream.wire[i] = (stream.sent - Len(stream.wire)) + i
            /\ stream.wire[i] \in 1 .. Len(runs[stream.run].log)
        /\ IF ui.run = stream.run
           THEN stream.at # "backoff" => Shown(stream.run, stream.sent - Len(stream.wire))
           ELSE requests["cancel"] # None => requests["cancel"].run # stream.run

\* Keys are used once, and the key of a Run that the tab does not know of is still reserved, if
\* the storage keeps it.
KeyInv ==
    /\ \A r, s \in RunIds : runs[r].key = runs[s].key => r = s
    /\ doubtful \subseteq RunIds
    /\ storage => \A r \in doubtful :
        pending = [command |-> Fingerprint(runs[r].input), key |-> runs[r].key]
    /\ storage /\ requests["submit"] # None =>
        pending = [command |-> Fingerprint(requests["submit"].input), key |-> requests["submit"].key]

IndInv == TypeOK /\ KnownInv /\ SeenInv /\ StreamInv /\ KeyInv
=============================================================================
