------------------------------- MODULE Intake -------------------------------
(***************************************************************************)
(* From a submission to the status of its document: api/ingest.py,         *)
(* ingestion/intake/validator.py and producer.py, and what the workers     *)
(* that consume the message do to the status.                              *)
(*                                                                         *)
(* A submission looks its URL up and registers it in two statements, then  *)
(* ingests inline or publishes a message every worker group handles.  The  *)
(* message names the URL: a worker fetches the content again.  Submissions *)
(* and workers interleave freely, and each can stop anywhere.  A store is  *)
(* one step here; StorageWriter is about what happens inside.              *)
(*                                                                         *)
(* A definition named ...Mutant is a plausible bug of the definition that  *)
(* follows it; no specification uses it.                                   *)
(***************************************************************************)
EXTENDS Naturals

CONSTANTS
    Requests,  \* submissions
    Web,       \* URLs a worker can fetch and whose content can change
    Uploads,   \* file:// URLs of the directory for queued uploads
    Texts,     \* text:// URLs and others no worker can fetch
    Contents,  \* contents of documents, named by their hashes
    Refused,   \* those that are empty or too large to be accepted
    Groups,    \* worker groups
    None

Urls == Web \cup Uploads \cup Texts

Statuses == {"pending", "indexed", "failed"}
Rows == [hash : Contents, status : Statuses]

ASSUME IntakeAssumption ==
    /\ Refused \subseteq Contents
    /\ None \notin Contents \cup Urls \cup Requests
    /\ None \notin Rows

VARIABLES
    row,        \* the documents row of a URL: content_hash and status
    source,     \* what fetching a URL returns
    url,        \* the URL of a request
    bytes,      \* its content
    direct,     \* whether it asks for inline ingestion
    pc,         \* where a request stands, or how it was answered
    work,       \* what a group has made of the message of a request
    fetched,    \* the content a group has fetched for it
    stored,     \* the content of the store that finished last, per URL
    registrant, \* history: the request that registered a URL last
    overlapped, \* history: URLs of which two ingestions have been under way at once
    drifted     \* history: URLs of which a worker fetched other than the registered content

request == <<url, bytes, direct>>
history == <<registrant, overlapped, drifted>>
vars == <<row, source, url, bytes, direct, pc, work, fetched, stored,
          registrant, overlapped, drifted>>

\* The phases of an ingestion.  In "tagging", which is not one of them, the store
\* is done and only the tags and the answer are to come.
Running == {"check", "insert", "update", "publish", "inline", "failing"}
Answers == {"refused", "duplicate", "conflict", "queued", "unpublished", "indexed", "failed"}
Outcomes == {"none", "due", "busy", "stored", "given_up"}

TypeOK ==
    /\ row \in [Urls -> Rows \cup {None}]
    /\ source \in [Urls -> Contents \cup {None}]
    /\ url \in [Requests -> Urls \cup {None}]
    /\ bytes \in [Requests -> Contents \cup {None}]
    /\ direct \in [Requests -> BOOLEAN]
    /\ pc \in [Requests -> {"new", "tagging", "crashed"} \cup Running \cup Answers]
    /\ work \in [Requests -> [Groups -> Outcomes]]
    /\ fetched \in [Requests -> [Groups -> Contents \cup {None}]]
    /\ stored \in [Urls -> Contents \cup {None}]
    /\ registrant \in [Urls -> Requests \cup {None}]
    /\ overlapped \subseteq Urls
    /\ drifted \subseteq Urls

Init ==
    /\ row = [u \in Urls |-> None]
    /\ source \in {s \in [Urls -> Contents \cup {None}] :
                      \A u \in Urls : s[u] = None <=> u \notin Web}
    /\ url = [r \in Requests |-> None]
    /\ bytes = [r \in Requests |-> None]
    /\ direct = [r \in Requests |-> FALSE]
    /\ pc = [r \in Requests |-> "new"]
    /\ work = [r \in Requests |-> [g \in Groups |-> "none"]]
    /\ fetched = [r \in Requests |-> [g \in Groups |-> None]]
    /\ stored = [u \in Urls |-> None]
    /\ registrant = [u \in Urls |-> None]
    /\ overlapped = {}
    /\ drifted = {}

\* A request, or a worker for its message, is still at work.
InProgress(r) ==
    \/ pc[r] \in Running
    \/ \E g \in Groups : work[r][g] \in {"due", "busy"}

\* Marks a URL that request r works on while another one does.
Overlap(r, u) ==
    overlapped' = IF \E q \in Requests \ {r} : url[q] = u /\ InProgress(q)
                  THEN overlapped \cup {u} ELSE overlapped

-----------------------------------------------------------------------------
(* The endpoints. *)

Submit(r, u, c, d) ==
    /\ pc[r] = "new"
    /\ url' = [url EXCEPT ![r] = u]
    /\ bytes' = [bytes EXCEPT ![r] = c]
    /\ direct' = [direct EXCEPT ![r] = d]
    /\ pc' = [pc EXCEPT ![r] = "check"]
    /\ Overlap(r, u)
    /\ UNCHANGED <<row, work, fetched, stored, registrant, drifted>>

\* ingest_url(): the API has fetched the content.
IngestUrl(r) ==
    /\ \E u \in Web, d \in BOOLEAN : Submit(r, u, source[u], d)
    /\ UNCHANGED source

\* ingest_file(): a queued upload is written to its file before it is validated;
\* a direct one has a URL nobody can fetch.
IngestFile(r) ==
    \E c \in Contents :
        \/ \E u \in Uploads : /\ Submit(r, u, c, FALSE)
                              /\ source' = [source EXCEPT ![u] = c]
        \/ \E u \in Texts : Submit(r, u, c, TRUE) /\ UNCHANGED source

\* ingest_text(): the caller gives the content and any URL.
IngestText(r) ==
    /\ \E u \in Urls, c \in Contents, d \in BOOLEAN : Submit(r, u, c, d)
    /\ UNCHANGED source

\* A page is edited.
Edit(u) ==
    /\ \E c \in Contents : source' = [source EXCEPT ![u] = c]
    /\ UNCHANGED <<row, request, pc, work, fetched, stored, history>>

-----------------------------------------------------------------------------
(* IntakeValidator.validate(). *)

At(r, phase) == pc[r] = phase

Goto(r, phase) == pc' = [pc EXCEPT ![r] = phase]

\* Mutant: a document that is not indexed is taken to be new.
CheckedMutant(r) ==
    LET doc == row[url[r]] IN
        IF doc = None \/ doc.status # "indexed" THEN "insert"
        ELSE IF doc.hash = bytes[r] THEN "duplicate" ELSE "update"

\* _check_duplicate(): the status is read and not looked at.
Checked(r) ==
    LET doc == row[url[r]] IN
        IF doc = None THEN "insert"
        ELSE IF doc.hash = bytes[r] THEN "duplicate" ELSE "update"

Validate(r) ==
    /\ At(r, "check")
    /\ Goto(r, IF bytes[r] \in Refused THEN "refused" ELSE Checked(r))
    /\ UNCHANGED <<row, source, request, work, fetched, stored, history>>

\* Mutant: an update keeps the status of the row.
RegisteredMutant(r) ==
    [hash |-> bytes[r],
     status |-> IF row[url[r]] = None THEN "pending" ELSE row[url[r]].status]

\* Mutant: a status of doc_status for messages on Kafka.
RegisteredQueuedMutant(r) ==
    [hash |-> bytes[r], status |-> IF direct[r] THEN "pending" ELSE "queued"]

Registered(r) == [hash |-> bytes[r], status |-> "pending"]

\* _register_document() returns; the caller ingests inline or publishes.
Register(r) ==
    /\ row' = [row EXCEPT ![url[r]] = Registered(r)]
    /\ registrant' = [registrant EXCEPT ![url[r]] = r]
    /\ Goto(r, IF direct[r] THEN "inline" ELSE "publish")
    /\ UNCHANGED <<source, request, work, fetched, stored, overlapped, drifted>>

\* INSERT: the unique index on source_url refuses a second row.
Insert(r) ==
    /\ At(r, "insert")
    /\ \/ row[url[r]] = None /\ Register(r)
       \/ /\ row[url[r]] # None
          /\ Goto(r, "conflict")
          /\ UNCHANGED <<row, source, request, work, fetched, stored, history>>

Update(r) == At(r, "update") /\ Register(r)

-----------------------------------------------------------------------------
(* _ingest_bytes() after the validation. *)

Deliver(r) == work' = [work EXCEPT ![r] = [g \in Groups |-> "due"]]

\* Mutant: the caller does not wait for the delivery.
PublishedMutant(r) == Deliver(r) \/ UNCHANGED work

Published(r) == Deliver(r)

\* publish() waits for the delivery report.  An error, or no report within 30
\* seconds, does not tell whether the message is in the topic.
Publish(r) ==
    /\ At(r, "publish")
    /\ \/ Published(r) /\ Goto(r, "queued")
       \/ (Deliver(r) \/ UNCHANGED work) /\ Goto(r, "unpublished")
    /\ UNCHANGED <<row, source, request, fetched, stored, history>>

\* StorageWriter.store() gets to its end.
Store(u, c) ==
    /\ row' = [row EXCEPT ![u].status = "indexed"]
    /\ stored' = [stored EXCEPT ![u] = c]

\* The request ingests its bytes itself.
Inline(r) ==
    /\ At(r, "inline")
    /\ \/ Store(url[r], bytes[r]) /\ Goto(r, "tagging")
       \/ Goto(r, "failing") /\ UNCHANGED <<row, stored>>
    /\ UNCHANGED <<source, request, work, fetched, history>>

\* Mutant: an error of the tagger reaches the except clause.
AnswerMutant(r) ==
    /\ At(r, "tagging")
    /\ Goto(r, "indexed") \/ Goto(r, "failing")
    /\ UNCHANGED <<row, source, request, work, fetched, stored, history>>

\* store() awaits the tags, whose errors it catches, and the request is answered.
Answer(r) ==
    /\ At(r, "tagging")
    /\ Goto(r, "indexed")
    /\ UNCHANGED <<row, source, request, work, fetched, stored, history>>

\* The UPDATE of the except clause, which can fail as well; the answer is 500.
RecordFailure(r) ==
    /\ At(r, "failing")
    /\ \/ row' = [row EXCEPT ![url[r]].status = "failed"]
       \/ UNCHANGED row
    /\ Goto(r, "failed")
    /\ UNCHANGED <<source, request, work, fetched, stored, history>>

\* The API process dies: a message just produced may be in the topic, a document
\* just marked stays 'indexed'.
Crash(r) ==
    /\ pc[r] \in Running \cup {"tagging"}
    /\ Goto(r, "crashed")
    /\ \/ UNCHANGED work
       \/ At(r, "publish") /\ Deliver(r)
    /\ UNCHANGED <<row, source, request, fetched, stored, history>>

-----------------------------------------------------------------------------
(* The workers: PDFWorker and HTMLWorker, and the loop around them. *)

\* After a transient failure, or when the worker dies, the message is handled
\* again from here; the loop counts the retries.
Fetch(r, g) ==
    /\ work[r][g] \in {"due", "busy"}
    /\ source[url[r]] # None
    /\ work' = [work EXCEPT ![r][g] = "busy"]
    /\ fetched' = [fetched EXCEPT ![r][g] = source[url[r]]]
    /\ drifted' = IF source[url[r]] # bytes[r] THEN drifted \cup {url[r]} ELSE drifted
    /\ UNCHANGED <<row, source, request, pc, stored, registrant, overlapped>>

\* Parsed, embedded and stored; a worker that dies after that, while it tags the
\* document or before it commits, has its message redelivered.
Finish(r, g) ==
    /\ work[r][g] = "busy"
    /\ Store(url[r], fetched[r][g])
    /\ work' = [work EXCEPT ![r][g] = "stored"]
    /\ fetched' = [fetched EXCEPT ![r][g] = None]
    /\ UNCHANGED <<source, request, pc, history>>

\* Dead-lettered, at once or after its retries, or lost with a producer's buffer.
GiveUp(r, g) ==
    /\ work[r][g] \in {"due", "busy"}
    /\ work' = [work EXCEPT ![r][g] = "given_up"]
    /\ fetched' = [fetched EXCEPT ![r][g] = None]
    /\ UNCHANGED <<row, source, request, pc, stored, history>>

\* The offset was not committed, or a retry was duplicated: handled once more.
Redeliver(r, g) ==
    /\ work[r][g] \in {"stored", "given_up"}
    /\ work' = [work EXCEPT ![r][g] = "due"]
    /\ overlapped' = IF registrant[url[r]] # r \/ \E q \in Requests \ {r} :
                            url[q] = url[r] /\ InProgress(q)
                     THEN overlapped \cup {url[r]} ELSE overlapped
    /\ UNCHANGED <<row, source, request, pc, fetched, stored, registrant, drifted>>

-----------------------------------------------------------------------------
Step(r) ==
    \/ Validate(r) \/ Insert(r) \/ Update(r)
    \/ Publish(r) \/ Inline(r) \/ Answer(r) \/ RecordFailure(r) \/ Crash(r)

Handle(r, g) == Fetch(r, g) \/ Finish(r, g) \/ GiveUp(r, g) \/ Redeliver(r, g)

Next ==
    \/ \E u \in Web : Edit(u)
    \/ \E r \in Requests :
           \/ IngestUrl(r) \/ IngestFile(r) \/ IngestText(r)
           \/ Step(r)
           \/ \E g \in Groups : Handle(r, g)

Spec == Init /\ [][Next]_vars

-----------------------------------------------------------------------------
(* Properties. *)

Has(u, status) == row[u] # None /\ row[u].status = status

\* A document that stays 'pending' does so for a reason: the request that
\* registered it last is under way, its caller was told of an error or its
\* process died, or every worker group gave up or lost its message.
\* No order of submissions and stores leaves a document pending otherwise.
PendingHasReason ==
    \A u \in Urls : Has(u, "pending") =>
        LET r == registrant[u] IN
            \/ InProgress(r)
            \/ pc[r] \in {"unpublished", "crashed", "failed"}
            \/ \A g \in Groups : work[r][g] = "given_up"

\* The status of a URL agrees with what has become of a request.  A process that
\* dies between the store and the answer leaves an 'indexed' document whose caller
\* was not told so.
Agrees(u, r) ==
    /\ row[u].status = "failed" => pc[r] = "failed"
    /\ row[u].status = "indexed" =>
           \/ pc[r] \in {"tagging", "indexed"}
           \/ direct[r] /\ pc[r] = "crashed"
           \/ \E g \in Groups : work[r][g] # "none"
    /\ pc[r] \in {"tagging", "indexed"} \/ (\E g \in Groups : work[r][g] = "stored") =>
           row[u].status = "indexed"

\* While the ingestions of a URL do not overlap, its status is that of the last
\* registration: what the outcome says about the request, the row says.
StatusIsOutcome ==
    \A u \in Urls \ overlapped : row[u] # None => Agrees(u, registrant[u])

\* While they do not overlap, an 'indexed' document was stored with the content
\* whose hash its row has, unless its source changed before a worker fetched it.
IndexedIsRegistered ==
    \A u \in Urls \ overlapped :
        Has(u, "indexed") => stored[u] = row[u].hash \/ u \in drifted

\* An INSERT refused by the unique index, which the API answers with an
\* unexplained 500, takes two submissions of one URL at once.
ConflictIsARace == \A r \in Requests : pc[r] = "conflict" => url[r] \in overlapped

\* The except clause of _ingest_bytes() overwrites 'indexed' with 'failed' only
\* when another ingestion of the URL has been under way with it.
FailureKeepsIndexed ==
    [][\A u \in Urls :
          Has(u, "indexed") /\ Has(u, "failed")' => u \in overlapped]_vars

-----------------------------------------------------------------------------
(* What the documentation says, and a failure breaks. *)

\* DuplicateDocumentError: "an identical document (same hash) is already
\* indexed".  A URL whose submission is answered with "duplicate", after all that
\* were made before it have come to their ends, has at least once been stored.
DuplicateMeansIndexed ==
    \A r \in Requests : pc[r] = "duplicate" /\ url[r] \notin overlapped =>
        stored[url[r]] # None
=============================================================================
