--------------------------- MODULE KnowledgeBase ---------------------------
(***************************************************************************)
(* Knowledge documents: bundles deployed by operators, ingestion under      *)
(* advisory locks, status commands by administrators, and searches made of  *)
(* two separate queries.                                                    *)
(*                                                                          *)
(* An ingestion is one transaction that takes two advisory locks and holds  *)
(* them to its end, so its reads and its insert are separate steps between  *)
(* which other transactions commit.  A status command locks the document's  *)
(* row and is one step.  A search reads in one transaction per query.       *)
(*                                                                          *)
(* A document stands for its row and chunks.  Source, source version and    *)
(* corpus revision are part of its content; ranking is a choice of any of   *)
(* the rows that qualify.                                                   *)
(***************************************************************************)
EXTENDS Integers, Sequences, FiniteSets

CONSTANTS
    Operators,      \* operators who apply a bundle
    Bundle,         \* the contents an operator's bundle lists, in order
    BundleId,       \* the id of an operator's bundle: several may apply the same one
    ScopeOf,        \* the scope an operator ingests into: a tenant or "public"
    Suspicious,     \* contents the sanitizer marks as a suspected injection
    Tenants, Documents,
    CommandKeys,    \* Idempotency-Keys of status commands
    MaxVersion,     \* bound on a document's version
    MaxFailures,    \* bound on failed ingestions
    Absent

VARIABLES
    docs,           \* documents rows: content, scope, status, version, vectors
    ingestKeys,     \* ingestion_keys rows: the content and document of each key
    commands,       \* document_commands rows
    progress,       \* the bundle document each operator is at; one past the end: applied
    ingestion,      \* each operator's transaction: at, found
    search,         \* each tenant's search: at, found, and what was public since it began
    answer,         \* the documents the last step returned, and to which search
    failures

vars == <<docs, ingestKeys, commands, progress, ingestion, search, answer, failures>>
ingestVars == <<docs, ingestKeys, progress, ingestion, failures>>
Statuses == {"published", "quarantined", "tombstoned"}

Content(p) == Bundle[p][progress[p]]
\* ingestion_idempotency_key: the bundle and the content; keys are unique per scope.
Key(p) == <<ScopeOf[p], BundleId[p], Content(p)>>
Stored == {d \in Documents : docs[d] # Absent}
SameContent(p) == {d \in Stored : docs[d].scope = ScopeOf[p] /\ docs[d].content = Content(p)}
Published(d) == docs[d] # Absent /\ docs[d].status = "published"

Init ==
    /\ docs = [d \in Documents |-> Absent]
    /\ ingestKeys = [k \in {} |-> Absent] /\ commands = [k \in {} |-> Absent]
    /\ progress = [p \in Operators |-> 1]
    /\ ingestion = [p \in Operators |-> [at |-> "idle", found |-> Absent]]
    /\ search = [t \in Tenants |-> [at |-> "idle", found |-> {}, since |-> {}]]
    /\ answer = Absent /\ failures = 0

-----------------------------------------------------------------------------
(* Ingestion *)

At(p, where) == ingestion[p].at = where
Goto(p, where) == ingestion' = [ingestion EXCEPT ![p].at = where]
Record(p, d) ==
    ingestKeys' = [k \in DOMAIN ingestKeys \cup {Key(p)} |-> IF k = Key(p) THEN d ELSE ingestKeys[k]]

\* Mutant: the operator goes on with the next document after an error.
AfterFailureSkipping(p) == progress' = [progress EXCEPT ![p] = @ + 1]
\* The script stops; the operator starts it again from the first document.
AfterFailure(p) == progress' = [progress EXCEPT ![p] = 1]
Failure == failures < MaxFailures /\ failures' = failures + 1

\* apply_bundle goes on with the next document only if this one is published; the script's
\* request may have timed out before the answer.
NextDocument(p, published) ==
    \/ progress' = [progress EXCEPT ![p] = IF published THEN @ + 1 ELSE 1] /\ UNCHANGED failures
    \/ AfterFailure(p) /\ Failure

\* prepare_ingestion and the embedding of the chunks, before the transaction.
Prepare(p) ==
    /\ At(p, "idle") /\ progress[p] <= Len(Bundle[p])
    /\ Goto(p, "key") /\ answer' = Absent
    /\ UNCHANGED <<docs, ingestKeys, commands, progress, search, failures>>

\* The lock on the idempotency key; a key that was used is replayed.
LockKey(p) ==
    /\ At(p, "key")
    /\ ~\E q \in Operators \ {p} : ingestion[q].at \in {"content", "check", "insert"} /\ Key(q) = Key(p)
    /\ \/ /\ Key(p) \in DOMAIN ingestKeys
          /\ Goto(p, "idle") /\ NextDocument(p, Published(ingestKeys[Key(p)]))
       \/ /\ Key(p) \notin DOMAIN ingestKeys
          /\ Goto(p, "content") /\ UNCHANGED <<progress, failures>>
    /\ answer' = Absent
    /\ UNCHANGED <<docs, ingestKeys, commands, search>>

\* Mutant: nothing keeps two ingestions of one content apart.
ContentIsFreeAlways(p) == TRUE
\* The lock on scope, source, version, revision and content hash is free.
ContentIsFree(p) ==
    ~\E q \in Operators \ {p} : /\ ingestion[q].at \in {"check", "insert"}
                                /\ ScopeOf[q] = ScopeOf[p] /\ Content(q) = Content(p)

LockContent(p) ==
    /\ At(p, "content") /\ ContentIsFree(p) /\ Goto(p, "check") /\ answer' = Absent
    /\ UNCHANGED <<docs, ingestKeys, commands, progress, search, failures>>

\* _upsert_source, and the search for a document with this content.
CheckContent(p) ==
    /\ At(p, "check") /\ answer' = Absent
    /\ ingestion' = [ingestion EXCEPT ![p] =
            [at |-> "insert", found |-> IF SameContent(p) = {} THEN Absent
                                        ELSE CHOOSE d \in SameContent(p) : TRUE]]
    /\ UNCHANGED <<docs, ingestKeys, commands, progress, search, failures>>

NewStatus(p) == IF Content(p) \in Suspicious THEN "quarantined" ELSE "published"
NewRow(p, indexed) == [content |-> Content(p), scope |-> ScopeOf[p], status |-> NewStatus(p),
                       version |-> 1, vectors |-> indexed]
NowPublic(rows) ==
    search' = [t \in Tenants |-> IF search[t].at = "idle" THEN search[t] ELSE
                [search[t] EXCEPT !.since = @ \cup {d \in Documents : rows[d] # Absent
                                                        /\ rows[d].status = "published"}]]

\* Mutant: a document that is ingested again is published again.
ExistingRepublished(d) == [docs EXCEPT ![d].status = "published"]
\* _existing_result only reads.
Existing(d) == docs

\* The insert of document, chunks, vectors and key, and the commit.
Insert(p) ==
    LET found == ingestion[p].found
        fresh == CHOOSE d \in Documents : docs[d] = Absent
    IN
    /\ At(p, "insert")
    /\ \/ found # Absent /\ Record(p, found) /\ docs' = Existing(found)
          /\ NextDocument(p, Published(found))
       \/ /\ found = Absent /\ SameContent(p) = {} /\ \E d \in Documents : docs[d] = Absent
          /\ \E indexed \in BOOLEAN : docs' = [docs EXCEPT ![fresh] = NewRow(p, indexed)]
          /\ Record(p, fresh)
          /\ NextDocument(p, NewStatus(p) = "published")
    /\ ingestion' = [ingestion EXCEPT ![p] = [at |-> "idle", found |-> Absent]]
    /\ NowPublic(docs') /\ answer' = Absent
    /\ UNCHANGED commands

\* The request fails or the API process dies: the transaction is rolled back.  (One that goes on
\* after its operator's request timed out is that of another operator with the same bundle.)
IngestFails(p) ==
    /\ ~At(p, "idle") /\ Failure
    /\ ingestion' = [ingestion EXCEPT ![p] = [at |-> "idle", found |-> Absent]]
    /\ AfterFailure(p) /\ answer' = Absent
    /\ UNCHANGED <<docs, ingestKeys, commands, search>>

-----------------------------------------------------------------------------
(* Administration *)

\* change_document_status: a key is used once per scope, and the version must be current.
MayChange(d, key, target, expected) ==
    <<docs[d].scope, key>> \notin DOMAIN commands /\ docs[d].version = expected

ChangeStatus(d, key, target, expected) ==
    LET id == <<docs[d].scope, key>>
        row == IF docs[d].status = target THEN docs[d]
               ELSE [docs[d] EXCEPT !.status = target, !.version = @ + 1]
        entry == [doc |-> d, target |-> target, expected |-> expected]
    IN
    /\ docs[d] # Absent /\ expected <= docs[d].version /\ docs[d].version < MaxVersion
    /\ MayChange(d, key, target, expected)
    /\ docs' = [docs EXCEPT ![d] = row]
    /\ commands' = [k \in DOMAIN commands \cup {id} |-> IF k = id THEN entry ELSE commands[k]]
    /\ NowPublic(docs') /\ answer' = Absent
    /\ UNCHANGED <<ingestKeys, progress, ingestion, failures>>

-----------------------------------------------------------------------------
(* Search *)

\* _filter_sql and the status condition of both queries.
Visible(t, d) == docs[d].scope \in {t, "public"}
Lexical(t) == {d \in Stored : Published(d) /\ Visible(t, d)}
\* Mutant: the vector query does not join the document's status.
VectorsOfAll(t) == {d \in Stored : docs[d].vectors /\ Visible(t, d)}
Vectors(t) == {d \in Stored : docs[d].vectors /\ Published(d) /\ Visible(t, d)}

SearchLexical(t) ==
    /\ search[t].at = "idle"
    /\ \E hits \in SUBSET Lexical(t) :
        search' = [search EXCEPT ![t] = [at |-> "vector", found |-> hits,
                                         since |-> {d \in Stored : Published(d)}]]
    /\ answer' = Absent /\ UNCHANGED <<ingestVars, commands>>

\* embed_query, the vector query or its failure, _fuse_rows and the answer.
SearchVector(t) ==
    /\ search[t].at = "vector"
    /\ \E hits \in SUBSET Vectors(t) :
        /\ search' = [search EXCEPT ![t] = [@ EXCEPT !.at = "idle", !.found = {}, !.since = {}]]
        /\ answer' = [tenant |-> t, found |-> search[t].found \cup hits, since |-> search[t].since]
    /\ UNCHANGED <<ingestVars, commands>>

Next ==
    \/ \E p \in Operators : \/ Prepare(p) \/ LockKey(p) \/ LockContent(p) \/ CheckContent(p)
                            \/ Insert(p) \/ IngestFails(p)
    \/ \E d \in Documents, key \in CommandKeys, target \in Statuses, v \in 1 .. MaxVersion :
            ChangeStatus(d, key, target, v)
    \/ \E t \in Tenants : SearchLexical(t) \/ SearchVector(t)

Spec == Init /\ [][Next]_vars

-----------------------------------------------------------------------------
(* Properties *)

\* The insert never meets the unique index on a content: of two operators who ingest the
\* same content under different keys, the second finds the first one's document and replays
\* it instead of failing with an integrity error.
InsertNeverCollides ==
    \A p \in Operators : At(p, "insert") /\ ingestion[p].found = Absent => SameContent(p) = {}

\* What a search returns was published, and visible to its tenant, at some moment since the
\* search began: a document that was quarantined or tombstoned before is never served,
\* whatever happens between the lexical and the vector query.
SearchShowsPublished ==
    answer # Absent =>
        \A d \in answer.found : d \in answer.since /\ docs[d].scope \in {answer.tenant, "public"}

\* A document leaves quarantine, or comes back from its tombstone, only by a command of an
\* administrator who saw its current version; ingesting it again never publishes it.
PublishedOnPurpose ==
    [][\A d \in Stored : ~Published(d) /\ Published(d)' =>
         \E k \in DOMAIN commands' \ DOMAIN commands :
            commands'[k] = [doc |-> d, target |-> "published", expected |-> docs[d].version]]_vars

\* An operator's script that ends with success has ingested every document of its bundle,
\* however many times it failed in between.
AppliedIsComplete ==
    \A p \in Operators : progress[p] > Len(Bundle[p]) =>
        \A i \in 1 .. Len(Bundle[p]) :
            \E d \in Stored : docs[d].scope = ScopeOf[p] /\ docs[d].content = Bundle[p][i]

\* The knowledge base's promises together: concurrent and repeated ingestion neither fails nor
\* publishes what was withdrawn, and no search serves it.
CorpusIsSafe ==
    /\ [](InsertNeverCollides /\ SearchShowsPublished /\ AppliedIsComplete)
    /\ PublishedOnPurpose

-----------------------------------------------------------------------------
(* The inductive invariant: what the promises rest on. *)

Listed  == UNION {{Bundle[p][i] : i \in 1 .. Len(Bundle[p])} : p \in Operators}
DocRows == [content : Listed, scope : {ScopeOf[p] : p \in Operators}, status : Statuses,
            version : Nat, vectors : BOOLEAN]
Holding == {"check", "insert"}      \* where an ingestion holds the lock on its content

KnowledgeAssumption ==
    /\ \A p \in Operators : Bundle[p] \in Seq(Listed)
    /\ Absent \notin Documents /\ Absent \notin DocRows

TypeOK ==
    /\ docs \in [Documents -> DocRows \cup {Absent}]
    /\ progress \in [Operators -> Nat \ {0}]
    /\ ingestion \in [Operators -> [at : {"idle", "key", "content"} \cup Holding,
                                    found : Documents \cup {Absent}]]
    /\ search \in [Tenants -> [at : {"idle", "vector"}, found : SUBSET Documents,
                               since : SUBSET Documents]]

\* Row d is the document of this content in this scope.
Holds(d, scope, content) ==
    d \in Documents /\ docs[d] # Absent /\ docs[d].scope = scope /\ docs[d].content = content

\* An operator at work is at a document of its bundle; those before it have been ingested.
BundleInv ==
    \A p \in Operators :
        /\ ~At(p, "idle") => progress[p] <= Len(Bundle[p])
        /\ \A i \in 1 .. Len(Bundle[p]) : i < progress[p] =>
            \E d \in Documents : Holds(d, ScopeOf[p], Bundle[p][i])
\* A key stands for a document of its content.
KeyInv == \A k \in DOMAIN ingestKeys : Holds(ingestKeys[k], k[1], k[3])
\* One ingestion at a time holds the lock on a content, and what it found is still true.
LockInv ==
    /\ \A p, q \in Operators :
        /\ p # q /\ ingestion[p].at \in Holding /\ ingestion[q].at \in Holding
        /\ ScopeOf[p] = ScopeOf[q]
        => Content(p) # Content(q)
    /\ \A p \in Operators : At(p, "insert") =>
        IF ingestion[p].found = Absent THEN SameContent(p) = {}
        ELSE Holds(ingestion[p].found, ScopeOf[p], Content(p))
\* A search has found what was published since it began, and that includes what is so now.
SearchInv ==
    \A t \in Tenants : search[t].at = "vector" =>
        /\ {d \in Stored : Published(d)} \subseteq search[t].since
        /\ \A d \in search[t].found : d \in search[t].since /\ d \in Stored /\ Visible(t, d)

IndInv == TypeOK /\ BundleInv /\ KeyInv /\ LockInv /\ SearchInv /\ SearchShowsPublished
=============================================================================
