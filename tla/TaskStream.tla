----------------------------- MODULE TaskStream -----------------------------
(***************************************************************************)
(* The event log of one A2A Task and the streams that follow it.            *)
(*                                                                          *)
(* PostgresAgentTaskStore keeps a row per Task (state, version, number of   *)
(* events) and a row per event.  It loads a record with two SELECTs, each   *)
(* of which sees what is committed when it runs, and replaces one by a      *)
(* compare-and-swap on the version that also inserts the new events.  A     *)
(* subscriber works on a snapshot: it yields the events after its cursor    *)
(* and polls for a newer one.  Who may write when is AgentTask's subject;   *)
(* here any writer may.                                                     *)
(***************************************************************************)
EXTENDS Integers, Sequences

CONSTANTS
    Writers,        \* calls that change the Task
    Subscribers,    \* clients
    MaxVersion,     \* bound on the record's version
    None

VARIABLES
    record,         \* version, state, log
    writers,        \* calls of _transition: new, at, row, read
    streams         \* each client's stream: at, row, from, cursor, snapshot, todo, got

vars == <<record, writers, streams>>

\* "rejected" is set by nobody, and "auth_required" is to streams what "input_required" is.
Terminal == {"completed", "failed", "canceled"}
Settled  == Terminal \cup {"input_required"}
Event(version, what) == [version |-> version, what |-> what]

Init ==
    /\ record = [version |-> 1, state |-> "submitted", log |-> <<>>]
    /\ writers = [w \in Writers |-> None] /\ streams = [s \in Subscribers |-> None]

-----------------------------------------------------------------------------
(* _load_tx *)

TaskRow == [version |-> record.version, state |-> record.state, count |-> Len(record.log)]

\* Mutant: the events are taken as they are.
ConsistentAlways(row) == TRUE
\* The events found fit the row that was read before.
Consistent(row) ==
    /\ Len(record.log) = row.count
    /\ \A i \in DOMAIN record.log : record.log[i].version <= row.version

Loaded(row) == [version |-> row.version, state |-> row.state, log |-> record.log]

-----------------------------------------------------------------------------
(* Writers *)

\* The states a transition or an answer may start from.
Allowed(state, new) ==
    \/ new = "working" /\ state \in {"submitted", "input_required"}
    \/ new \in {"completed", "input_required"} /\ state = "working"
    \/ new = "failed" /\ state \in {"submitted", "working"}
    \/ new = "canceled" /\ state \notin Terminal

Transition(w, new) ==
    /\ writers[w] = None /\ record.version < MaxVersion /\ Allowed(record.state, new)
    /\ writers' = [writers EXCEPT ![w] = [new |-> new, at |-> "get", row |-> None, read |-> None]]
    /\ UNCHANGED <<record, streams>>

\* get, and then again in replace.
LoadRow(w) ==
    /\ writers[w] # None /\ writers[w].at \in {"get", "replace"} /\ writers[w].row = None
    /\ writers' = [writers EXCEPT ![w].row = TaskRow]
    /\ UNCHANGED <<record, streams>>

\* The call raises if they do not fit; a state that forbids it ends it, and a version that
\* has changed since get sends it back.
LoadEvents(w) ==
    LET row == writers[w].row
        next ==
            CASE ~Consistent(row) -> None
              [] Consistent(row) /\ writers[w].at = "get" ->
                    IF Allowed(row.state, writers[w].new) /\ row.version < MaxVersion
                    THEN [writers[w] EXCEPT !.at = "replace", !.row = None, !.read = Loaded(row)]
                    ELSE None
              [] OTHER ->
                    [writers[w] EXCEPT !.row = None,
                        !.at = IF row.version = writers[w].read.version THEN "update" ELSE "get"]
    IN
    /\ writers[w] # None /\ row # None
    /\ writers' = [writers EXCEPT ![w] = next]
    /\ UNCHANGED <<record, streams>>

\* A result's artifacts and the new status are events of one version.
NewEvents(version, new) ==
    (IF new = "completed" THEN <<Event(version, "artifact")>> ELSE <<>>) \o <<Event(version, new)>>

\* Mutant: the version is not compared again.
UnchangedAlways(w) == TRUE
Unchanged(w) == record.version = writers[w].read.version

\* The UPDATE of replace and its inserts.
ReplaceTask(w) ==
    LET read == writers[w].read
        new  == writers[w].new
    IN
    /\ writers[w] # None /\ writers[w].at = "update"
    /\ \/ /\ Unchanged(w)
          /\ record' = [version |-> read.version + 1, state |-> new,
                        log |-> read.log \o NewEvents(read.version + 1, new)]
          /\ writers' = [writers EXCEPT ![w] = None]
       \/ /\ ~Unchanged(w) /\ UNCHANGED record
          /\ writers' = [writers EXCEPT ![w].at = "get"]
    /\ UNCHANGED streams

-----------------------------------------------------------------------------
(* Streams *)

\* on_message_send_stream, and on_subscribe_to_task, which refuses a Task that has ended:
\* the Task as it is, then what follows.
Subscribe(s, sending) ==
    /\ streams[s] = None /\ (sending \/ record.state \notin Terminal)
    /\ streams' = [streams EXCEPT ![s] =
            [at |-> "open", row |-> TaskRow, from |-> 0, cursor |-> 0, snapshot |-> None,
             todo |-> <<>>, got |-> <<>>]]
    /\ UNCHANGED <<record, writers>>

Open(s) ==
    LET row == streams[s].row IN
    /\ streams[s] # None /\ streams[s].at = "open"
    /\ streams' = [streams EXCEPT ![s] =
            IF Consistent(row)
            THEN [@ EXCEPT !.at = "emit", !.row = None, !.from = row.version,
                           !.cursor = row.version, !.snapshot = Loaded(row)]
            ELSE None]
    /\ UNCHANGED <<record, writers>>

Yield(s) ==
    /\ streams[s] # None /\ streams[s].at = "emit" /\ streams[s].todo # <<>>
    /\ streams' = [streams EXCEPT ![s].todo = Tail(@), ![s].got = Append(@, Head(streams[s].todo))]
    /\ UNCHANGED <<record, writers>>

\* The snapshot's events are out: the stream ends with a settled snapshot, or waits.
EndOrWait(s) ==
    /\ streams[s] # None /\ streams[s].at = "emit" /\ streams[s].todo = <<>>
    /\ streams' = [streams EXCEPT ![s].at =
            IF streams[s].snapshot.state \in Settled THEN "ended" ELSE "wait"]
    /\ UNCHANGED <<record, writers>>

\* wait_for_change polls.
Poll(s) ==
    /\ streams[s] # None /\ streams[s].at = "wait" /\ streams[s].row = None
    /\ streams' = [streams EXCEPT ![s].row = TaskRow]
    /\ UNCHANGED <<record, writers>>

\* Mutant: the newest version is taken for seen.
WakesLate(s) == streams[s].row.version > streams[s].cursor + 1
Wakes(s) == streams[s].row.version > streams[s].cursor

\* The events that a client at this version has seen are the first ones, since the log is in
\* the order of the versions.
Position(version) ==
    CHOOSE n \in 0 .. Len(record.log) :
        \A i \in DOMAIN record.log : i <= n <=> record.log[i].version <= version

\* An inconsistent load breaks the stream; a newer one is sent from the cursor on, and moves
\* the cursor to the last version among its events.
WaitForChange(s) ==
    LET row  == streams[s].row
        todo == SubSeq(record.log, Position(streams[s].cursor) + 1, Len(record.log))
        new  ==
            CASE ~Consistent(row) -> [streams[s] EXCEPT !.at = "broken", !.row = None]
              [] Consistent(row) /\ Wakes(s) ->
                    [streams[s] EXCEPT !.at = "emit", !.row = None, !.snapshot = Loaded(row),
                                       !.todo = todo, !.cursor = todo[Len(todo)].version]
              [] OTHER -> [streams[s] EXCEPT !.row = None]
    IN
    /\ streams[s] # None /\ streams[s].at = "wait" /\ row # None
    /\ streams' = [streams EXCEPT ![s] = new]
    /\ UNCHANGED <<record, writers>>

\* The client goes, after the end or before.
Leave(s) ==
    /\ streams[s] # None /\ streams' = [streams EXCEPT ![s] = None]
    /\ UNCHANGED <<record, writers>>

StreamStep(s) == Open(s) \/ Yield(s) \/ EndOrWait(s) \/ Poll(s) \/ WaitForChange(s)

Next ==
    \/ \E w \in Writers :
        \/ \E new \in Settled \cup {"working"} : Transition(w, new)
        \/ LoadRow(w) \/ LoadEvents(w) \/ ReplaceTask(w)
    \/ \E s \in Subscribers :
        \/ \E sending \in BOOLEAN : Subscribe(s, sending)
        \/ StreamStep(s) \/ Leave(s)

Spec == Init /\ [][Next]_vars

\* The server polls and yields; nothing makes a writer or a client act.
Fairness == \A s \in Subscribers : WF_vars(StreamStep(s))

-----------------------------------------------------------------------------
(* Properties *)

Between(low, high) == SubSeq(record.log, Position(low) + 1, Position(high))

\* What a client was sent, and is about to be sent, is exactly the Task's events since it
\* subscribed: none is lost by writers that replace the record at the same time or by
\* changes between the two reads of a poll, and none is sent twice.
StreamIsExact ==
    \A s \in Subscribers : streams[s] # None /\ streams[s].snapshot # None =>
        streams[s].got \o streams[s].todo = Between(streams[s].from, streams[s].snapshot.version)

\* No stream of a Task that has ended stays open.
StreamsEnd ==
    \A s \in Subscribers :
        []<>~(/\ record.state \in Terminal
              /\ streams[s] # None /\ streams[s].at \notin {"ended", "broken"})

\* A stream is never broken by a Task whose history is intact ("SSE replay works across API
\* processes", the A2A README).  The code does not have this property: the Task may change
\* between the row and the events of one poll.
StreamsAreNotBroken ==
    \A s \in Subscribers : streams[s] # None => streams[s].at # "broken"

-----------------------------------------------------------------------------
(* The inductive invariant: what StreamIsExact rests on. *)

States    == Settled \cup {"submitted", "working"}
Events    == [version : Nat, what : States \cup {"artifact"}]
TaskRows  == [version : Nat, state : States, count : Nat]
Snapshots == [version : Nat, state : States, log : Seq(Events)]
Calls     == [new : States, at : {"get", "replace", "update"}, row : TaskRows \cup {None},
              read : Snapshots \cup {None}]
Following == {"emit", "wait", "ended", "broken"}
Streams   == [at : {"open"} \cup Following, row : TaskRows \cup {None}, from : Nat, cursor : Nat,
              snapshot : Snapshots \cup {None}, todo : Seq(Events), got : Seq(Events)]

TypeOK ==
    /\ record \in Snapshots
    /\ writers \in [Writers -> Calls \cup {None}]
    /\ streams \in [Subscribers -> Streams \cup {None}]

\* n of the Task's events have at most this version, and they are its first ones.
Marks(n, version) ==
    /\ n \in 0 .. Len(record.log)
    /\ \A i \in DOMAIN record.log : i <= n <=> record.log[i].version <= version

\* The last event has the Task's version.
LogInv ==
    /\ record.version >= 1 /\ Marks(Len(record.log), record.version)
    /\ record.version > 1 => /\ Len(record.log) > 0
                             /\ record.log[Len(record.log)].version = record.version

\* A row that was read counts the events of its version; there are more since it changed.
RowFits(row) ==
    /\ 1 <= row.version /\ row.version <= record.version /\ Marks(row.count, row.version)
    /\ row.version < record.version => row.count < Len(record.log)

\* What a writer has read is the Task, unless the version tells.
WriterInv ==
    \A w \in Writers : writers[w] # None =>
        /\ writers[w].row # None => RowFits(writers[w].row)
        /\ writers[w].at # "get" =>
            /\ writers[w].read \in Snapshots /\ writers[w].read.version <= record.version
            /\ writers[w].read.version = record.version => writers[w].read.log = record.log

\* A stream's cursor is the version of its snapshot, and a place in the log.
StreamInv ==
    \A s \in Subscribers : streams[s] # None =>
        /\ streams[s].row # None => RowFits(streams[s].row)
        /\ streams[s].at = "open" =>
            /\ streams[s].row \in TaskRows /\ RowFits(streams[s].row)
            /\ streams[s].snapshot = None /\ streams[s].got = <<>> /\ streams[s].todo = <<>>
        /\ streams[s].at \in Following =>
            /\ streams[s].snapshot \in Snapshots
            /\ streams[s].cursor = streams[s].snapshot.version /\ 1 <= streams[s].cursor
            /\ streams[s].cursor <= record.version
            /\ streams[s].at = "wait" => streams[s].todo = <<>>
            /\ \E a, b \in 0 .. Len(record.log) :
                /\ a <= b /\ Marks(a, streams[s].from) /\ Marks(b, streams[s].cursor)
                /\ streams[s].from <= streams[s].cursor
                /\ streams[s].got \o streams[s].todo = SubSeq(record.log, a + 1, b)

IndInv == TypeOK /\ LogInv /\ WriterInv /\ StreamInv
=============================================================================
