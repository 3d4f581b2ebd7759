---------------------------- MODULE IntakeProofs ----------------------------
(***************************************************************************)
(* Proofs about Intake, for every set of submissions, URLs, contents and   *)
(* worker groups.                                                          *)
(***************************************************************************)
EXTENDS Intake, TLAPS

-----------------------------------------------------------------------------
(* The inductive invariant, first the part that holds however ingestions of  *)
(* a URL overlap.                                                            *)

\* Where a request can stand once it has registered its URL.
PastRegister == {"publish", "inline", "tagging", "failing", "queued", "unpublished", "crashed",
                 "indexed", "failed"}

\* Only a request that asked for it is ingested inline.
Submitted ==
    \A r \in Requests :
        /\ pc[r] # "new" => url[r] \in Urls /\ bytes[r] \in Contents
        /\ pc[r] \in {"inline", "tagging"} => direct[r]

\* A page always has a content.
WebServed == \A u \in Web : source[u] \in Contents

\* A message exists only for a request that has published it.
WorkPublished ==
    \A r \in Requests : \A g \in Groups :
        work[r][g] # "none" => pc[r] \in {"queued", "unpublished", "crashed"}

\* Requests that write to their row have one.
Registrations ==
    \A r \in Requests :
        \/ pc[r] \in {"publish", "inline", "failing"}
        \/ \E g \in Groups : work[r][g] # "none"
        => row[url[r]] # None

BusyFetched ==
    \A r \in Requests : \A g \in Groups : work[r][g] = "busy" => fetched[r][g] \in Contents

HasRegistrant ==
    \A u \in Urls : row[u] # None =>
        /\ registrant[u] \in Requests
        /\ url[registrant[u]] = u
        /\ pc[registrant[u]] \in PastRegister

QueuedDelivered ==
    \A r \in Requests : pc[r] = "queued" => \A g \in Groups : work[r][g] # "none"

\* The registrant of a pending document has not stored it.
PendingUnstored ==
    \A u \in Urls : Has(u, "pending") =>
        /\ pc[registrant[u]] \notin {"tagging", "indexed"}
        /\ \A g \in Groups : work[registrant[u]][g] # "stored"

Basics == Submitted /\ WebServed /\ WorkPublished /\ Registrations /\ BusyFetched

RegistryInv == TypeOK /\ Basics /\ HasRegistrant /\ QueuedDelivered /\ PendingUnstored

-----------------------------------------------------------------------------

\* The initial state is well typed and has no work in it.
LEMMA RegistryInit == Init => RegistryInv
<1> SUFFICES ASSUME Init PROVE RegistryInv
  OBVIOUS
<1>1. TypeOK
  BY DEF Init, TypeOK, Outcomes
<1>2. Basics
  BY DEF Init, Basics, Submitted, WebServed, WorkPublished, Registrations, BusyFetched, Urls
<1>3. HasRegistrant /\ QueuedDelivered /\ PendingUnstored
  BY DEF Init, HasRegistrant, QueuedDelivered, PendingUnstored, Has
<1>4. QED
  BY <1>1, <1>2, <1>3 DEF RegistryInv

\* What a submission does at its endpoint.
LEMMA SubmitStep ==
    ASSUME TypeOK, WebServed, NEW r \in Requests,
           IngestUrl(r) \/ IngestFile(r) \/ IngestText(r)
    PROVE  /\ \E u \in Urls, c \in Contents, d \in BOOLEAN : Submit(r, u, c, d)
           /\ source' \in [Urls -> Contents \cup {None}]
           /\ WebServed'
<1> USE DEF TypeOK, WebServed, Urls
<1>1. CASE IngestUrl(r)
  BY <1>1 DEF IngestUrl
<1>2. CASE IngestFile(r)
  BY <1>2 DEF IngestFile
<1>3. CASE IngestText(r)
  BY <1>3 DEF IngestText
<1>4. QED
  BY <1>1, <1>2, <1>3

\* An UPDATE of the status leaves a row.
LEMMA StatusUpdate ==
    ASSUME NEW f \in [Urls -> Rows \cup {None}], NEW u \in Urls, f[u] # None,
           NEW status \in Statuses
    PROVE  [f EXCEPT ![u].status = status] \in [Urls -> Rows \cup {None}]
<1>1. f[u] \in Rows
  OBVIOUS
<1>2. [f[u] EXCEPT !.status = status] \in Rows
  BY <1>1 DEF Rows
<1>3. QED
  BY <1>2

\* A delivered message is due in every group.
LEMMA DeliverType ==
    ASSUME work \in [Requests -> [Groups -> Outcomes]], NEW r \in Requests, Deliver(r)
    PROVE  work' \in [Requests -> [Groups -> Outcomes]]
<1>1. [g \in Groups |-> "due"] \in [Groups -> Outcomes]
  BY DEF Outcomes
<1>2. QED
  BY <1>1 DEF Deliver

\* Every step keeps the types.
LEMMA TypeStep == TypeOK /\ Basics /\ [Next]_vars => TypeOK'
<1> SUFFICES ASSUME TypeOK, Basics, [Next]_vars PROVE TypeOK'
  OBVIOUS
<1> USE DEF TypeOK, Rows, Statuses, Running, Answers, Outcomes, request, history, At, Goto
<1>1. ASSUME NEW u \in Web, Edit(u) PROVE TypeOK'
  BY <1>1 DEF Edit
<1>2. ASSUME NEW r \in Requests, IngestUrl(r) \/ IngestFile(r) \/ IngestText(r) PROVE TypeOK'
  <2>1. PICK u \in Urls, c \in Contents, d \in BOOLEAN : Submit(r, u, c, d)
    BY <1>2, SubmitStep DEF Basics
  <2>2. source' \in [Urls -> Contents \cup {None}]
    BY <1>2, SubmitStep DEF Basics
  <2>3. overlapped' \in {overlapped, overlapped \cup {u}}
    BY <2>1 DEF Submit, Overlap
  <2>4. QED
    BY <2>1, <2>2, <2>3 DEF Submit
<1>3. ASSUME NEW r \in Requests, Validate(r) PROVE TypeOK'
  BY <1>3 DEF Validate, Checked
<1>4. ASSUME NEW r \in Requests, Insert(r) \/ Update(r) PROVE TypeOK'
  <2>1. CASE Register(r)
    <3>1. url[r] \in Urls /\ bytes[r] \in Contents
      BY <1>4 DEF Insert, Update, Basics, Submitted
    <3>2. Registered(r) \in Rows
      BY <3>1 DEF Registered
    <3>3. QED
      BY <2>1, <3>1, <3>2 DEF Register
  <2>2. CASE ~Register(r)
    BY <1>4, <2>2 DEF Insert, Update
  <2>3. QED
    BY <2>1, <2>2
<1>5. ASSUME NEW r \in Requests, Publish(r) PROVE TypeOK'
  <2>1. work' \in [Requests -> [Groups -> Outcomes]]
    BY <1>5, DeliverType DEF Publish, Published
  <2>2. QED
    BY <1>5, <2>1 DEF Publish
<1>6. ASSUME NEW r \in Requests, Inline(r) PROVE TypeOK'
  <2>1. url[r] \in Urls /\ bytes[r] \in Contents /\ row[url[r]] # None
    BY <1>6 DEF Inline, Basics, Submitted, Registrations
  <2>2. row' \in [Urls -> Rows \cup {None}]
    <3>1. row \in [Urls -> Rows \cup {None}] /\ "indexed" \in Statuses
      OBVIOUS
    <3>2. [row EXCEPT ![url[r]].status = "indexed"] \in [Urls -> Rows \cup {None}]
      BY ONLY <2>1, <3>1, StatusUpdate
    <3>3. QED
      BY ONLY <1>6, <3>1, <3>2 DEF Inline, Store
  <2>3. QED
    BY <1>6, <2>1, <2>2 DEF Inline, Store
<1>7. ASSUME NEW r \in Requests, RecordFailure(r) PROVE TypeOK'
  <2>1. url[r] \in Urls /\ row[url[r]] # None
    BY <1>7 DEF RecordFailure, Basics, Submitted, Registrations
  <2>2. row' \in [Urls -> Rows \cup {None}]
    <3>1. row \in [Urls -> Rows \cup {None}] /\ "failed" \in Statuses
      OBVIOUS
    <3>2. [row EXCEPT ![url[r]].status = "failed"] \in [Urls -> Rows \cup {None}]
      BY ONLY <2>1, <3>1, StatusUpdate
    <3>3. QED
      BY ONLY <1>7, <3>1, <3>2 DEF RecordFailure
  <2>3. QED
    BY <1>7, <2>2 DEF RecordFailure
<1>8. ASSUME NEW r \in Requests, Crash(r) PROVE TypeOK'
  <2>1. work' \in [Requests -> [Groups -> Outcomes]]
    BY <1>8, DeliverType DEF Crash
  <2>2. QED
    BY <1>8, <2>1 DEF Crash
<1>9. ASSUME NEW r \in Requests, Answer(r) PROVE TypeOK'
  BY <1>9 DEF Answer
<1>10. ASSUME NEW r \in Requests, NEW g \in Groups, Fetch(r, g) PROVE TypeOK'
  BY <1>10 DEF Fetch, Basics, Submitted, WorkPublished
<1>11. ASSUME NEW r \in Requests, NEW g \in Groups, Finish(r, g) PROVE TypeOK'
  <2>1. url[r] \in Urls /\ fetched[r][g] \in Contents /\ row[url[r]] # None
    BY <1>11 DEF Finish, Basics, Submitted, WorkPublished, Registrations, BusyFetched
  <2>2. row' \in [Urls -> Rows \cup {None}]
    <3>1. row \in [Urls -> Rows \cup {None}] /\ "indexed" \in Statuses
      OBVIOUS
    <3>2. [row EXCEPT ![url[r]].status = "indexed"] \in [Urls -> Rows \cup {None}]
      BY ONLY <2>1, <3>1, StatusUpdate
    <3>3. QED
      BY ONLY <1>11, <3>1, <3>2 DEF Finish, Store
  <2>3. stored' \in [Urls -> Contents \cup {None}]
    BY <1>11, <2>1 DEF Finish, Store
  <2>4. work' \in [Requests -> [Groups -> Outcomes]]
    <3>1. \E o \in Outcomes : work' = [work EXCEPT ![r][g] = o]
      BY <1>11 DEF Finish
    <3>2. QED
      BY <3>1
  <2>5. fetched' \in [Requests -> [Groups -> Contents \cup {None}]]
    BY <1>11 DEF Finish
  <2>6. QED
    BY <1>11, <2>2, <2>3, <2>4, <2>5 DEF Finish
<1>12. ASSUME NEW r \in Requests, NEW g \in Groups, GiveUp(r, g) PROVE TypeOK'
  BY <1>12 DEF GiveUp
<1>13. ASSUME NEW r \in Requests, NEW g \in Groups, Redeliver(r, g) PROVE TypeOK'
  <2>1. url[r] \in Urls
    BY <1>13 DEF Redeliver, Basics, Submitted, WorkPublished
  <2>2. overlapped' \in SUBSET Urls
    BY <1>13, <2>1 DEF Redeliver
  <2>3. work' \in [Requests -> [Groups -> Outcomes]]
    BY <1>13 DEF Redeliver
  <2>4. QED
    BY <1>13, <2>2, <2>3 DEF Redeliver
<1>14. CASE UNCHANGED vars
  BY <1>14 DEF vars
<1>15. QED
  BY <1>1, <1>2, <1>3, <1>4, <1>5, <1>6, <1>7, <1>8, <1>9, <1>10, <1>11, <1>12, <1>13, <1>14
  DEF Next, Step, Handle
-----------------------------------------------------------------------------
(* What the steps do, entry by entry. *)

PcSet(r, phase) == \A q \in Requests : pc'[q] = IF q = r THEN phase ELSE pc[q]

WorkSet(r, g, o) ==
    \A q \in Requests : \A h \in Groups :
        work'[q][h] = IF q = r /\ h = g THEN o ELSE work[q][h]

FetchedSet(r, g, c) ==
    \A q \in Requests : \A h \in Groups :
        fetched'[q][h] = IF q = r /\ h = g THEN c ELSE fetched[q][h]

WorkDue(r) ==
    \A q \in Requests : \A h \in Groups : work'[q][h] = IF q = r THEN "due" ELSE work[q][h]

StatusSet(u, status) ==
    /\ \A v \in Urls \ {u} : row'[v] = row[v]
    /\ row'[u] # None
    /\ row'[u].status = status
    /\ row'[u].hash = row[u].hash

StoredSet(u, c) == \A v \in Urls : stored'[v] = IF v = u THEN c ELSE stored[v]

\* Goto() sets one entry.
LEMMA GotoEffect == ASSUME TypeOK, NEW r \in Requests, NEW p, Goto(r, p) PROVE PcSet(r, p)
  BY DEF TypeOK, Goto, PcSet

\* An update of the work of a group sets one entry.
LEMMA WorkEffect ==
    ASSUME TypeOK, NEW r \in Requests, NEW g \in Groups, NEW o,
           work' = [work EXCEPT ![r][g] = o]
    PROVE  WorkSet(r, g, o)
<1>1. work \in [Requests -> [Groups -> Outcomes]]
  BY DEF TypeOK
<1>2. QED
  BY ONLY <1>1, work' = [work EXCEPT ![r][g] = o], r \in Requests, g \in Groups DEF WorkSet

\* So does an update of what a group has fetched.
LEMMA FetchedEffect ==
    ASSUME TypeOK, NEW r \in Requests, NEW g \in Groups, NEW c,
           fetched' = [fetched EXCEPT ![r][g] = c]
    PROVE  FetchedSet(r, g, c)
<1>1. fetched \in [Requests -> [Groups -> Contents \cup {None}]]
  BY DEF TypeOK
<1>2. QED
  BY ONLY <1>1, fetched' = [fetched EXCEPT ![r][g] = c], r \in Requests, g \in Groups
  DEF FetchedSet

\* A delivery makes one request due in every group.
LEMMA DeliverEffect == ASSUME TypeOK, NEW r \in Requests, Deliver(r) PROVE WorkDue(r)
  BY DEF TypeOK, Deliver, WorkDue

\* The points of a URL are replaced by those of the content.
LEMMA StoredEffect ==
    ASSUME TypeOK, NEW u \in Urls, NEW c, stored' = [stored EXCEPT ![u] = c]
    PROVE  StoredSet(u, c)
  BY DEF TypeOK, StoredSet

\* An UPDATE of the status of a row changes nothing else.
LEMMA StatusEffect ==
    ASSUME TypeOK, NEW u \in Urls, row[u] # None, NEW s \in Statuses,
           row' = [row EXCEPT ![u].status = s]
    PROVE  StatusSet(u, s)
<1>1. row[u] \in Rows /\ row \in [Urls -> Rows \cup {None}]
  BY DEF TypeOK
<1>2. row'[u] = [row[u] EXCEPT !.status = s]
  BY ONLY <1>1, row' = [row EXCEPT ![u].status = s], u \in Urls
<1>3. row'[u] \in Rows /\ row'[u].status = s /\ row'[u].hash = row[u].hash
  BY ONLY <1>1, <1>2, s \in Statuses DEF Rows
<1>4. \A v \in Urls \ {u} : row'[v] = row[v]
  BY ONLY <1>1, row' = [row EXCEPT ![u].status = s], u \in Urls
<1>5. QED
  BY <1>3, <1>4, IntakeAssumption DEF StatusSet

\* A request that writes to its row has a URL, a content and a row.
LEMMA Written ==
    ASSUME Basics, NEW r \in Requests,
           \/ pc[r] \in {"publish", "inline", "failing"}
           \/ \E g \in Groups : work[r][g] # "none"
    PROVE  url[r] \in Urls /\ bytes[r] \in Contents /\ row[url[r]] # None
  BY DEF Basics, Submitted, WorkPublished, Registrations

-----------------------------------------------------------------------------
(* The steps.  A registration is that of an Insert or an Update; Conflict is *)
(* the INSERT that the unique index refuses.                                 *)

\* An edit of a page changes what a worker fetches.
EditEffect(u) ==
    /\ source'[u] \in Contents /\ \A v \in Urls \ {u} : source'[v] = source[v]
    /\ UNCHANGED <<row, url, bytes, direct, pc, work, fetched, stored, history>>

\* Edit has this effect.
LEMMA EditDoes ==
    ASSUME RegistryInv, NEW u \in Web, Edit(u)
    PROVE  EditEffect(u)
<1>1. source'[u] \in Contents /\ \A v \in Urls \ {u} : source'[v] = source[v]
  BY DEF Edit, RegistryInv, TypeOK, Urls
<1>2. UNCHANGED <<row, url, bytes, direct, pc, work, fetched, stored, history>>
  BY DEF Edit, request
<1>3. QED
  BY <1>1, <1>2 DEF EditEffect

\* A submission begins with no work and no row of its own, and notes the overlap.
SubmitEffect(r, u, c) ==
    /\ WebServed'
    /\ pc[r] = "new" /\ PcSet(r, "check")
    /\ \A q \in Requests : url'[q] = IF q = r THEN u ELSE url[q]
    /\ \A q \in Requests : bytes'[q] = IF q = r THEN c ELSE bytes[q]
    /\ \A q \in Requests \ {r} : direct'[q] = direct[q]
    /\ \A v \in overlapped : v \in overlapped'
    /\ \A q \in Requests \ {r} : url[q] = u /\ InProgress(q) => u \in overlapped'
    /\ UNCHANGED <<row, work, fetched, stored, registrant, drifted>>

\* Each endpoint has this effect.
LEMMA SubmitDoes ==
    ASSUME RegistryInv, NEW r \in Requests, IngestUrl(r) \/ IngestFile(r) \/ IngestText(r)
    PROVE  \E u \in Urls, c \in Contents :
               SubmitEffect(r, u, c)
<1>1. PICK u \in Urls, c \in Contents, d \in BOOLEAN : Submit(r, u, c, d)
  BY SubmitStep DEF RegistryInv, Basics
<1>2. WebServed'
  BY SubmitStep DEF RegistryInv, Basics
<1>3. pc[r] = "new" /\ PcSet(r, "check")
  BY <1>1 DEF Submit, PcSet, RegistryInv, TypeOK
<1>4. \A q \in Requests : url'[q] = IF q = r THEN u ELSE url[q]
  BY <1>1 DEF Submit, RegistryInv, TypeOK
<1>5. /\ \A q \in Requests : bytes'[q] = IF q = r THEN c ELSE bytes[q]
      /\ \A q \in Requests \ {r} : direct'[q] = direct[q]
  BY <1>1 DEF Submit, RegistryInv, TypeOK
<1>6. \A v \in overlapped : v \in overlapped'
  BY <1>1 DEF Submit, Overlap
<1>7. \A q \in Requests \ {r} : url[q] = u /\ InProgress(q) => u \in overlapped'
  BY <1>1 DEF Submit, Overlap
<1>8. UNCHANGED <<row, work, fetched, stored, registrant, drifted>>
  BY <1>1 DEF Submit
<1>9. QED
  BY <1>1, <1>2, <1>3, <1>4, <1>5, <1>6, <1>7, <1>8 DEF SubmitEffect

\* The validation leaves the row alone.
ValidateEffect(r, p) ==
    /\ pc[r] = "check" /\ PcSet(r, p)
    /\ p = "insert" => row[url[r]] = None
    /\ UNCHANGED <<row, source, url, bytes, direct, work, fetched, stored, history>>

\* Validate has this effect.
LEMMA ValidateDoes ==
    ASSUME RegistryInv, NEW r \in Requests, Validate(r)
    PROVE  \E p \in {"refused", "insert", "duplicate", "update"} :
               ValidateEffect(r, p)
<1>1. PICK p \in {"refused", "insert", "duplicate", "update"} :
          Goto(r, p) /\ (p = "insert" => row[url[r]] = None)
  BY DEF Validate, Checked
<1>2. pc[r] = "check" /\ PcSet(r, p)
  BY <1>1, GotoEffect DEF Validate, At, RegistryInv
<1>3. p = "insert" => row[url[r]] = None
  BY <1>1
<1>4. UNCHANGED <<row, source, url, bytes, direct, work, fetched, stored, history>>
  BY DEF Validate, request
<1>5. QED
  BY <1>1, <1>2, <1>3, <1>4 DEF ValidateEffect

\* A registration makes the request the registrant of its URL.
RegisterEffect(r, p) ==
    /\ url[r] \in Urls /\ bytes[r] \in Contents
    /\ PcSet(r, p) /\ (p = "inline" => direct[r])
    /\ \A v \in Urls : row'[v] = IF v = url[r] THEN Registered(r) ELSE row[v]
    /\ \A v \in Urls : registrant'[v] = IF v = url[r] THEN r ELSE registrant[v]
    /\ Registered(r) # None /\ Registered(r).status = "pending" /\ Registered(r).hash = bytes[r]
    /\ UNCHANGED <<source, url, bytes, direct, work, fetched, stored, overlapped, drifted>>

\* Register has this effect.
LEMMA RegisterDoes ==
    ASSUME RegistryInv, NEW r \in Requests, Register(r), pc[r] \in {"insert", "update"}
    PROVE  \E p \in {"inline", "publish"} :
               RegisterEffect(r, p)
<1>1. PICK p \in {"inline", "publish"} : Goto(r, p) /\ (p = "inline" => direct[r])
  BY DEF Register
<1>2. url[r] \in Urls /\ bytes[r] \in Contents
  BY DEF RegistryInv, Basics, Submitted
<1>3. PcSet(r, p) /\ (p = "inline" => direct[r])
  BY <1>1, GotoEffect DEF RegistryInv
<1>4. \A v \in Urls : row'[v] = IF v = url[r] THEN Registered(r) ELSE row[v]
  BY <1>2 DEF Register, RegistryInv, TypeOK
<1>5. \A v \in Urls : registrant'[v] = IF v = url[r] THEN r ELSE registrant[v]
  BY <1>2 DEF Register, RegistryInv, TypeOK
<1>6. Registered(r) # None /\ Registered(r).status = "pending" /\ Registered(r).hash = bytes[r]
  BY <1>2, IntakeAssumption DEF Registered, Rows, Statuses
<1>7. UNCHANGED <<source, url, bytes, direct, work, fetched, stored, overlapped, drifted>>
  BY DEF Register, request
<1>8. QED
  BY <1>1, <1>2, <1>3, <1>4, <1>5, <1>6, <1>7 DEF RegisterEffect

\* A refused INSERT answers and changes nothing else.
ConflictEffect(r) ==
    /\ pc[r] = "insert" /\ PcSet(r, "conflict") /\ row[url[r]] # None
    /\ UNCHANGED <<row, source, url, bytes, direct, work, fetched, stored, history>>

\* An INSERT that does not register has this effect.
LEMMA ConflictDoes ==
    ASSUME RegistryInv, NEW r \in Requests, Insert(r), ~Register(r)
    PROVE  ConflictEffect(r)
<1>1. pc[r] = "insert" /\ PcSet(r, "conflict") /\ row[url[r]] # None
  BY GotoEffect DEF Insert, At, RegistryInv
<1>2. UNCHANGED <<row, source, url, bytes, direct, work, fetched, stored, history>>
  BY DEF Insert, request
<1>3. QED
  BY <1>1, <1>2 DEF ConflictEffect

\* A publication delivers a message, unless the caller is told of an error.
PublishEffect(r) ==
    /\ pc[r] = "publish"
    /\ \/ PcSet(r, "queued") /\ WorkDue(r)
       \/ PcSet(r, "unpublished") /\ (WorkDue(r) \/ UNCHANGED work)
    /\ UNCHANGED <<row, source, url, bytes, direct, fetched, stored, history>>

\* Publish has this effect.
LEMMA PublishDoes ==
    ASSUME RegistryInv, NEW r \in Requests, Publish(r)
    PROVE  PublishEffect(r)
<1>1. pc[r] = "publish"
  BY DEF Publish, At
<1>2. \/ PcSet(r, "queued") /\ WorkDue(r)
      \/ PcSet(r, "unpublished") /\ (WorkDue(r) \/ UNCHANGED work)
  BY GotoEffect, DeliverEffect DEF Publish, Published, RegistryInv
<1>3. UNCHANGED <<row, source, url, bytes, direct, fetched, stored, history>>
  BY DEF Publish, request
<1>4. QED
  BY <1>1, <1>2, <1>3 DEF PublishEffect

\* A crash stops a request; the message of one that publishes may be delivered.
CrashEffect(r) ==
    /\ pc[r] \in Running \cup {"tagging"} /\ PcSet(r, "crashed")
    /\ \/ UNCHANGED work
       \/ pc[r] = "publish" /\ WorkDue(r)
    /\ UNCHANGED <<row, source, url, bytes, direct, fetched, stored, history>>

\* Crash has this effect.
LEMMA CrashDoes ==
    ASSUME RegistryInv, NEW r \in Requests, Crash(r)
    PROVE  CrashEffect(r)
<1>1. pc[r] \in Running \cup {"tagging"} /\ PcSet(r, "crashed")
  BY GotoEffect DEF Crash, RegistryInv
<1>2. \/ UNCHANGED work
      \/ pc[r] = "publish" /\ WorkDue(r)
  <2>1. UNCHANGED work \/ (At(r, "publish") /\ Deliver(r))
    BY DEF Crash
  <2>2. ASSUME Deliver(r) PROVE WorkDue(r)
    BY <2>2, DeliverEffect DEF RegistryInv
  <2>3. QED
    BY <2>1, <2>2 DEF At
<1>3. UNCHANGED <<row, source, url, bytes, direct, fetched, stored, history>>
  BY DEF Crash, request
<1>4. QED
  BY <1>1, <1>2, <1>3 DEF CrashEffect

\* An inline ingestion stores the document or is about to record a failure.
InlineEffect(r) ==
    /\ pc[r] = "inline"
    /\ url[r] \in Urls /\ row[url[r]] # None
    /\ \/ /\ PcSet(r, "tagging")
          /\ StatusSet(url[r], "indexed") /\ StoredSet(url[r], bytes[r])
       \/ PcSet(r, "failing") /\ UNCHANGED <<row, stored>>
    /\ UNCHANGED <<source, url, bytes, direct, work, fetched, history>>

\* Inline has this effect.
LEMMA InlineDoes ==
    ASSUME RegistryInv, NEW r \in Requests, Inline(r)
    PROVE  InlineEffect(r)
<1>1. pc[r] = "inline"
  BY DEF Inline, At
<1>2. url[r] \in Urls /\ row[url[r]] # None
  BY <1>1, Written DEF RegistryInv
<1>3. \/ /\ PcSet(r, "tagging")
         /\ StatusSet(url[r], "indexed") /\ StoredSet(url[r], bytes[r])
      \/ PcSet(r, "failing") /\ UNCHANGED <<row, stored>>
  BY <1>2, GotoEffect, StatusEffect, StoredEffect DEF Inline, Store, RegistryInv, Statuses
<1>4. UNCHANGED <<source, url, bytes, direct, work, fetched, history>>
  BY DEF Inline, request
<1>5. QED
  BY <1>1, <1>2, <1>3, <1>4 DEF InlineEffect

\* The answer writes nothing.
AnswerEffect(r) ==
    /\ pc[r] = "tagging" /\ PcSet(r, "indexed")
    /\ UNCHANGED <<row, source, url, bytes, direct, work, fetched, stored, history>>

\* Answer has this effect.
LEMMA AnswerDoes ==
    ASSUME RegistryInv, NEW r \in Requests, Answer(r)
    PROVE  AnswerEffect(r)
<1>1. pc[r] = "tagging" /\ PcSet(r, "indexed")
  BY GotoEffect DEF Answer, At, RegistryInv
<1>2. UNCHANGED <<row, source, url, bytes, direct, work, fetched, stored, history>>
  BY DEF Answer, request
<1>3. QED
  BY <1>1, <1>2 DEF AnswerEffect

\* A failure is recorded or not, and answered.
FailureEffect(r) ==
    /\ pc[r] = "failing"
    /\ url[r] \in Urls /\ row[url[r]] # None
    /\ PcSet(r, "failed") /\ (StatusSet(url[r], "failed") \/ UNCHANGED row)
    /\ UNCHANGED <<source, url, bytes, direct, work, fetched, stored, history>>

\* RecordFailure has this effect.
LEMMA FailureDoes ==
    ASSUME RegistryInv, NEW r \in Requests, RecordFailure(r)
    PROVE  FailureEffect(r)
<1>1. pc[r] = "failing"
  BY DEF RecordFailure, At
<1>2. url[r] \in Urls /\ row[url[r]] # None
  BY <1>1, Written DEF RegistryInv
<1>3. PcSet(r, "failed") /\ (StatusSet(url[r], "failed") \/ UNCHANGED row)
  BY <1>2, GotoEffect, StatusEffect DEF RecordFailure, RegistryInv, Statuses
<1>4. UNCHANGED <<source, url, bytes, direct, work, fetched, stored, history>>
  BY DEF RecordFailure, request
<1>5. QED
  BY <1>1, <1>2, <1>3, <1>4 DEF FailureEffect

\* A worker has fetched a content, the submitted one or not.
FetchEffect(r, g) ==
    /\ work[r][g] \in {"due", "busy"}
    /\ source[url[r]] \in Contents
    /\ WorkSet(r, g, "busy") /\ FetchedSet(r, g, source[url[r]])
    /\ \A v \in drifted : v \in drifted'
    /\ source[url[r]] # bytes[r] => url[r] \in drifted'
    /\ UNCHANGED <<row, source, url, bytes, direct, pc, stored, registrant, overlapped>>

\* Fetch has this effect.
LEMMA FetchDoes ==
    ASSUME RegistryInv, NEW r \in Requests, NEW g \in Groups, Fetch(r, g)
    PROVE  FetchEffect(r, g)
<1>1. work[r][g] \in {"due", "busy"}
  BY DEF Fetch
<1>2. source[url[r]] \in Contents
  BY <1>1, Written DEF Fetch, RegistryInv, TypeOK
<1>3. WorkSet(r, g, "busy") /\ FetchedSet(r, g, source[url[r]])
  BY WorkEffect, FetchedEffect DEF Fetch, RegistryInv
<1>4. \A v \in drifted : v \in drifted'
  BY DEF Fetch
<1>5. source[url[r]] # bytes[r] => url[r] \in drifted'
  BY DEF Fetch
<1>6. UNCHANGED <<row, source, url, bytes, direct, pc, stored, registrant, overlapped>>
  BY DEF Fetch, request
<1>7. QED
  BY <1>1, <1>2, <1>3, <1>4, <1>5, <1>6 DEF FetchEffect

\* A worker stores the document.
FinishEffect(r, g) ==
    /\ work[r][g] = "busy"
    /\ url[r] \in Urls /\ row[url[r]] # None
    /\ WorkSet(r, g, "stored")
    /\ StatusSet(url[r], "indexed") /\ StoredSet(url[r], fetched[r][g])
    /\ FetchedSet(r, g, None)
    /\ UNCHANGED <<source, url, bytes, direct, pc, history>>

\* Finish has this effect.
LEMMA FinishDoes ==
    ASSUME RegistryInv, NEW r \in Requests, NEW g \in Groups, Finish(r, g)
    PROVE  FinishEffect(r, g)
<1>1. work[r][g] = "busy"
  BY DEF Finish
<1>2. url[r] \in Urls /\ row[url[r]] # None
  BY <1>1, Written DEF RegistryInv
<1>3. /\ WorkSet(r, g, "stored")
      /\ StatusSet(url[r], "indexed") /\ StoredSet(url[r], fetched[r][g])
  BY <1>2, WorkEffect, StatusEffect, StoredEffect DEF Finish, Store, RegistryInv, Statuses
<1>4. FetchedSet(r, g, None)
  BY FetchedEffect DEF Finish, RegistryInv
<1>5. UNCHANGED <<source, url, bytes, direct, pc, history>>
  BY DEF Finish, request
<1>6. QED
  BY <1>1, <1>2, <1>3, <1>4, <1>5 DEF FinishEffect

\* A group gives a message up.
GiveUpEffect(r, g) ==
    /\ work[r][g] \in {"due", "busy"}
    /\ WorkSet(r, g, "given_up") /\ FetchedSet(r, g, None)
    /\ UNCHANGED <<row, source, url, bytes, direct, pc, stored, history>>

\* GiveUp has this effect.
LEMMA GiveUpDoes ==
    ASSUME RegistryInv, NEW r \in Requests, NEW g \in Groups, GiveUp(r, g)
    PROVE  GiveUpEffect(r, g)
<1>1. work[r][g] \in {"due", "busy"}
  BY DEF GiveUp
<1>2. WorkSet(r, g, "given_up") /\ FetchedSet(r, g, None)
  BY WorkEffect, FetchedEffect DEF GiveUp, RegistryInv
<1>3. UNCHANGED <<row, source, url, bytes, direct, pc, stored, history>>
  BY DEF GiveUp, request
<1>4. QED
  BY <1>1, <1>2, <1>3 DEF GiveUpEffect

\* A message is handled once more, and the overlap noted.
RedeliverEffect(r, g) ==
    /\ work[r][g] \in {"stored", "given_up"}
    /\ WorkSet(r, g, "due")
    /\ \A v \in overlapped : v \in overlapped'
    /\ registrant[url[r]] # r => url[r] \in overlapped'
    /\ \A q \in Requests \ {r} : url[q] = url[r] /\ InProgress(q) => url[r] \in overlapped'
    /\ UNCHANGED <<row, source, url, bytes, direct, pc, fetched, stored, registrant, drifted>>

\* Redeliver has this effect.
LEMMA RedeliverDoes ==
    ASSUME RegistryInv, NEW r \in Requests, NEW g \in Groups, Redeliver(r, g)
    PROVE  RedeliverEffect(r, g)
<1>1. work[r][g] \in {"stored", "given_up"}
  BY DEF Redeliver
<1>2. WorkSet(r, g, "due")
  BY WorkEffect DEF Redeliver, RegistryInv
<1>3. \A v \in overlapped : v \in overlapped'
  BY DEF Redeliver
<1>4. registrant[url[r]] # r => url[r] \in overlapped'
  BY DEF Redeliver
<1>5. \A q \in Requests \ {r} : url[q] = url[r] /\ InProgress(q) => url[r] \in overlapped'
  BY DEF Redeliver
<1>6. UNCHANGED <<row, source, url, bytes, direct, pc, fetched, stored, registrant, drifted>>
  BY DEF Redeliver, request
<1>7. QED
  BY <1>1, <1>2, <1>3, <1>4, <1>5, <1>6 DEF RedeliverEffect

-----------------------------------------------------------------------------
(* Every step keeps the invariant of any order. *)

Registry == Basics /\ HasRegistrant /\ QueuedDelivered /\ PendingUnstored

\* The registry does not depend on what the pages are.
LEMMA EditKeeps ==
    ASSUME RegistryInv, NEW u \in Web, Edit(u)
    PROVE  Registry'
<1>1. EditEffect(u)
  BY EditDoes
<1>2. (Submitted /\ WorkPublished /\ Registrations /\ BusyFetched /\ HasRegistrant
       /\ QueuedDelivered /\ PendingUnstored)'
  BY <1>1 DEF EditEffect, RegistryInv, Basics, Submitted, WorkPublished, Registrations,
              BusyFetched, HasRegistrant, QueuedDelivered, PendingUnstored, Has, history
<1>3. WebServed'
  BY <1>1 DEF EditEffect, RegistryInv, Basics, Urls, WebServed
<1>4. QED
  BY <1>2, <1>3 DEF Registry, Basics

\* The new request is nobody's registrant yet, and has no message.
LEMMA SubmitKeeps ==
    ASSUME RegistryInv, NEW r \in Requests, IngestUrl(r) \/ IngestFile(r) \/ IngestText(r)
    PROVE  Registry'
<1>1. PICK u \in Urls, c \in Contents : SubmitEffect(r, u, c)
  BY SubmitDoes
<1>2. BusyFetched'
  BY <1>1 DEF SubmitEffect, RegistryInv, Basics, BusyFetched
<1>3. Submitted'
  BY <1>1 DEF SubmitEffect, RegistryInv, Basics, PcSet, Submitted
<1>4. WebServed'
  BY <1>1 DEF SubmitEffect
<1>5. WorkPublished'
  BY <1>1 DEF SubmitEffect, RegistryInv, Basics, PcSet, WorkPublished
<1>6. Registrations'
  BY <1>1 DEF SubmitEffect, RegistryInv, Basics, PcSet, Registrations, WorkPublished
<1>7. HasRegistrant'
  BY <1>1 DEF SubmitEffect, RegistryInv, PcSet, HasRegistrant, PastRegister
<1>8. QueuedDelivered'
  BY <1>1 DEF SubmitEffect, RegistryInv, PcSet, QueuedDelivered
<1>9. PendingUnstored'
  BY <1>1 DEF SubmitEffect, RegistryInv, PcSet, PendingUnstored, HasRegistrant, Has
<1>10. QED
  BY <1>2, <1>3, <1>4, <1>5, <1>6, <1>7, <1>8, <1>9 DEF Registry, Basics

\* The validation writes nothing.
LEMMA ValidateKeeps ==
    ASSUME RegistryInv, NEW r \in Requests, Validate(r)
    PROVE  Registry'
<1>1. PICK p \in {"refused", "insert", "duplicate", "update"} : ValidateEffect(r, p)
  BY ValidateDoes
<1>2. (WebServed /\ BusyFetched)'
  BY <1>1 DEF ValidateEffect, RegistryInv, Basics, WebServed, BusyFetched
<1>3. Submitted'
  BY <1>1 DEF ValidateEffect, RegistryInv, Basics, PcSet, Submitted
<1>4. WorkPublished'
  BY <1>1 DEF ValidateEffect, RegistryInv, Basics, PcSet, WorkPublished
<1>5. Registrations'
  BY <1>1 DEF ValidateEffect, RegistryInv, Basics, PcSet, Registrations
<1>6. HasRegistrant'
  BY <1>1 DEF ValidateEffect, RegistryInv, history, PcSet, HasRegistrant, PastRegister
<1>7. QueuedDelivered'
  BY <1>1 DEF ValidateEffect, RegistryInv, PcSet, QueuedDelivered
<1>8. PendingUnstored'
  BY <1>1 DEF ValidateEffect, RegistryInv, history, PcSet, PendingUnstored, HasRegistrant,
              Has
<1>9. QED
  BY <1>2, <1>3, <1>4, <1>5, <1>6, <1>7, <1>8 DEF Registry, Basics

\* The new registrant has no message yet, so its pending row is not stored.
LEMMA RegisterKeeps ==
    ASSUME RegistryInv, NEW r \in Requests, Register(r), pc[r] \in {"insert", "update"}
    PROVE  Registry'
<1>1. PICK p \in {"inline", "publish"} : RegisterEffect(r, p)
  BY RegisterDoes
<1>2. (WebServed /\ BusyFetched)'
  BY <1>1 DEF RegisterEffect, RegistryInv, Basics, WebServed, BusyFetched
<1>3. Submitted'
  BY <1>1 DEF RegisterEffect, RegistryInv, Basics, PcSet, Submitted
<1>4. WorkPublished'
  BY <1>1 DEF RegisterEffect, RegistryInv, Basics, PcSet, WorkPublished
<1>5. Registrations'
  BY <1>1 DEF RegisterEffect, RegistryInv, Basics, PcSet, Registrations, Submitted,
              WorkPublished
<1>6. HasRegistrant'
  <2> SUFFICES ASSUME NEW v \in Urls, row'[v] # None
               PROVE  /\ registrant'[v] \in Requests
                      /\ url[registrant'[v]] = v
                      /\ pc'[registrant'[v]] \in PastRegister
    BY <1>1 DEF RegisterEffect, HasRegistrant
  <2>1. CASE v = url[r]
    BY <2>1, <1>1 DEF RegisterEffect, PcSet, PastRegister
  <2>2. CASE v # url[r]
    <3>1. /\ registrant'[v] = registrant[v]
          /\ registrant[v] \in Requests
          /\ url[registrant[v]] = v
          /\ pc[registrant[v]] \in PastRegister
      BY <2>2, <1>1 DEF RegisterEffect, RegistryInv, HasRegistrant
    <3>2. QED
      BY <2>2, <3>1, <1>1 DEF RegisterEffect, PcSet
  <2>3. QED
    BY <2>1, <2>2
<1>7. QueuedDelivered'
  <2>1. \A q \in Requests : pc'[q] = "queued" => pc[q] = "queued"
    BY <1>1 DEF RegisterEffect, PcSet
  <2>2. QED
    BY <2>1, <1>1 DEF RegisterEffect, RegistryInv, QueuedDelivered
<1>8. PendingUnstored'
  <2> SUFFICES ASSUME NEW v \in Urls, Has(v, "pending")'
               PROVE  /\ pc'[registrant'[v]] \notin {"tagging", "indexed"}
                      /\ \A h \in Groups : work[registrant'[v]][h] # "stored"
    BY <1>1 DEF RegisterEffect, PendingUnstored
  <2>1. CASE v = url[r]
    <3>1. registrant'[v] = r /\ \A h \in Groups : work[r][h] = "none"
      BY <2>1, <1>1 DEF RegisterEffect, RegistryInv, Basics, WorkPublished
    <3>2. QED
      BY <3>1, <1>1 DEF RegisterEffect, PcSet
  <2>2. CASE v # url[r]
    <3>1. registrant'[v] = registrant[v] /\ Has(v, "pending")
      BY <2>2, <1>1 DEF RegisterEffect, Has
    <3>2. registrant[v] \in Requests /\ url[registrant[v]] = v
      BY <3>1 DEF RegistryInv, HasRegistrant, Has
    <3>3. /\ pc[registrant[v]] \notin {"tagging", "indexed"}
        /\ \A h \in Groups : work[registrant[v]][h] # "stored"
      BY <3>1 DEF RegistryInv, PendingUnstored
    <3>4. QED
      BY <2>2, <3>1, <3>2, <3>3, <1>1 DEF RegisterEffect, PcSet
  <2>3. QED
    BY <2>1, <2>2
<1>9. QED
  BY <1>2, <1>3, <1>4, <1>5, <1>6, <1>7, <1>8 DEF Registry, Basics

\* The refused request is nobody's registrant.
LEMMA ConflictKeeps ==
    ASSUME RegistryInv, NEW r \in Requests, Insert(r), ~Register(r)
    PROVE  Registry'
<1>1. ConflictEffect(r)
  BY ConflictDoes
<1>2. (WebServed /\ BusyFetched)'
  BY <1>1 DEF ConflictEffect, RegistryInv, Basics, WebServed, BusyFetched
<1>3. Submitted'
  BY <1>1 DEF ConflictEffect, RegistryInv, Basics, PcSet, Submitted
<1>4. WorkPublished'
  BY <1>1 DEF ConflictEffect, RegistryInv, Basics, PcSet, WorkPublished
<1>5. Registrations'
  BY <1>1 DEF ConflictEffect, RegistryInv, Basics, PcSet, Registrations
<1>6. HasRegistrant'
  BY <1>1 DEF ConflictEffect, RegistryInv, history, PcSet, HasRegistrant, PastRegister
<1>7. QueuedDelivered'
  BY <1>1 DEF ConflictEffect, RegistryInv, PcSet, QueuedDelivered
<1>8. PendingUnstored'
  BY <1>1 DEF ConflictEffect, RegistryInv, history, PcSet, PendingUnstored, HasRegistrant,
              Has
<1>9. QED
  BY <1>2, <1>3, <1>4, <1>5, <1>6, <1>7, <1>8 DEF Registry, Basics

\* What was queued is due in every group.
LEMMA PublishKeeps ==
    ASSUME RegistryInv, NEW r \in Requests, Publish(r)
    PROVE  Registry'
<1>1. PublishEffect(r)
  BY PublishDoes
<1>2. WebServed'
  BY <1>1 DEF PublishEffect, RegistryInv, Basics, WebServed
<1>3. Submitted'
  BY <1>1 DEF PublishEffect, RegistryInv, Basics, PcSet, Submitted
<1>4. WorkPublished'
  BY <1>1 DEF PublishEffect, RegistryInv, Basics, PcSet, WorkDue, WorkPublished
<1>5. Registrations'
  BY <1>1 DEF PublishEffect, RegistryInv, Basics, PcSet, WorkDue, Registrations
<1>6. BusyFetched'
  BY <1>1 DEF PublishEffect, RegistryInv, Basics, WorkDue, BusyFetched
<1>7. HasRegistrant'
  BY <1>1 DEF PublishEffect, RegistryInv, history, PcSet, HasRegistrant, PastRegister
<1>8. QueuedDelivered'
  BY <1>1 DEF PublishEffect, RegistryInv, PcSet, WorkDue, QueuedDelivered
<1>9. PendingUnstored'
  <2> SUFFICES ASSUME NEW v \in Urls, Has(v, "pending")'
               PROVE  /\ pc'[registrant'[v]] \notin {"tagging", "indexed"}
                      /\ \A h \in Groups : work'[registrant'[v]][h] # "stored"
    BY DEF PendingUnstored
  <2>1. Has(v, "pending")
    BY <1>1 DEF PublishEffect, Has
  <2>2. registrant[v] \in Requests /\ url[registrant[v]] = v
    BY <2>1 DEF RegistryInv, HasRegistrant, Has
  <2>3. /\ pc[registrant[v]] \notin {"tagging", "indexed"}
        /\ \A h \in Groups : work[registrant[v]][h] # "stored"
    BY <2>1 DEF RegistryInv, PendingUnstored
  <2>4. Has(v, "pending")' => row'[v].status # "indexed"
    BY DEF Has
  <2>5. QED
    BY <1>1, <2>2, <2>3, <2>4 DEF PublishEffect, PcSet, WorkDue, history
<1>10. QED
  BY <1>2, <1>3, <1>4, <1>5, <1>6, <1>7, <1>8, <1>9 DEF Registry, Basics

\* A crashed registrant stays one, with or without its message.
LEMMA CrashKeeps ==
    ASSUME RegistryInv, NEW r \in Requests, Crash(r)
    PROVE  Registry'
<1>1. CrashEffect(r)
  BY CrashDoes
<1>2. WebServed'
  BY <1>1 DEF CrashEffect, RegistryInv, Basics, WebServed
<1>3. Submitted'
  BY <1>1 DEF CrashEffect, RegistryInv, Basics, Running, PcSet, Submitted
<1>4. WorkPublished'
  BY <1>1 DEF CrashEffect, RegistryInv, Basics, PcSet, WorkDue, WorkPublished
<1>5. Registrations'
  BY <1>1 DEF CrashEffect, RegistryInv, Basics, PcSet, WorkDue, Registrations
<1>6. BusyFetched'
  BY <1>1 DEF CrashEffect, RegistryInv, Basics, WorkDue, BusyFetched
<1>7. HasRegistrant'
  BY <1>1 DEF CrashEffect, RegistryInv, history, PcSet, HasRegistrant, PastRegister
<1>8. QueuedDelivered'
  BY <1>1 DEF CrashEffect, RegistryInv, PcSet, WorkDue, QueuedDelivered
<1>9. PendingUnstored'
  BY <1>1 DEF CrashEffect, RegistryInv, history, PcSet, WorkDue, PendingUnstored,
              HasRegistrant, Has
<1>10. QED
  BY <1>2, <1>3, <1>4, <1>5, <1>6, <1>7, <1>8, <1>9 DEF Registry, Basics

\* What is stored inline is no longer pending.
LEMMA InlineKeeps ==
    ASSUME RegistryInv, NEW r \in Requests, Inline(r)
    PROVE  Registry'
<1>1. InlineEffect(r)
  BY InlineDoes
<1>2. (WebServed /\ BusyFetched)'
  BY <1>1 DEF InlineEffect, RegistryInv, Basics, WebServed, BusyFetched
<1>3. Submitted'
  BY <1>1 DEF InlineEffect, RegistryInv, Basics, PcSet, Submitted
<1>4. WorkPublished'
  BY <1>1 DEF InlineEffect, RegistryInv, Basics, PcSet, WorkPublished
<1>5. Registrations'
  BY <1>1 DEF InlineEffect, RegistryInv, Basics, PcSet, StatusSet, Registrations,
              Submitted, WorkPublished
<1>6. HasRegistrant'
  BY <1>1 DEF InlineEffect, RegistryInv, history, PcSet, StatusSet, HasRegistrant,
              PastRegister
<1>7. QueuedDelivered'
  BY <1>1 DEF InlineEffect, RegistryInv, PcSet, QueuedDelivered
<1>8. PendingUnstored'
  <2> SUFFICES ASSUME NEW v \in Urls, Has(v, "pending")'
               PROVE  /\ pc'[registrant'[v]] \notin {"tagging", "indexed"}
                      /\ \A h \in Groups : work'[registrant'[v]][h] # "stored"
    BY DEF PendingUnstored
  <2>1. Has(v, "pending")
    BY <1>1 DEF InlineEffect, Has, StatusSet
  <2>2. registrant[v] \in Requests /\ url[registrant[v]] = v
    BY <2>1 DEF RegistryInv, HasRegistrant, Has
  <2>3. /\ pc[registrant[v]] \notin {"tagging", "indexed"}
        /\ \A h \in Groups : work[registrant[v]][h] # "stored"
    BY <2>1 DEF RegistryInv, PendingUnstored
  <2>4. Has(v, "pending")' => row'[v].status # "indexed"
    BY DEF Has
  <2>5. QED
    BY <1>1, <2>2, <2>3, <2>4 DEF InlineEffect, PcSet, StatusSet, history
<1>9. QED
  BY <1>2, <1>3, <1>4, <1>5, <1>6, <1>7, <1>8 DEF Registry, Basics

\* The document is stored already.
LEMMA AnswerKeeps ==
    ASSUME RegistryInv, NEW r \in Requests, Answer(r)
    PROVE  Registry'
<1>1. AnswerEffect(r)
  BY AnswerDoes
<1>2. (WebServed /\ BusyFetched)'
  BY <1>1 DEF AnswerEffect, RegistryInv, Basics, WebServed, BusyFetched
<1>3. (Submitted /\ WorkPublished /\ Registrations)'
  BY <1>1 DEF AnswerEffect, RegistryInv, Basics, PcSet, Submitted, WorkPublished, Registrations
<1>4. (HasRegistrant /\ QueuedDelivered)'
  BY <1>1 DEF AnswerEffect, RegistryInv, history, PcSet, HasRegistrant, PastRegister,
              QueuedDelivered
<1>5. PendingUnstored'
  BY <1>1 DEF AnswerEffect, RegistryInv, history, PcSet, PendingUnstored, HasRegistrant, Has
<1>6. QED
  BY <1>2, <1>3, <1>4, <1>5 DEF Registry, Basics

\* A failed registrant stays one.
LEMMA FailureKeeps ==
    ASSUME RegistryInv, NEW r \in Requests, RecordFailure(r)
    PROVE  Registry'
<1>1. FailureEffect(r)
  BY FailureDoes
<1>2. (WebServed /\ BusyFetched)'
  BY <1>1 DEF FailureEffect, RegistryInv, Basics, WebServed, BusyFetched
<1>3. Submitted'
  BY <1>1 DEF FailureEffect, RegistryInv, Basics, PcSet, Submitted
<1>4. WorkPublished'
  BY <1>1 DEF FailureEffect, RegistryInv, Basics, PcSet, WorkPublished
<1>5. Registrations'
  BY <1>1 DEF FailureEffect, RegistryInv, Basics, PcSet, StatusSet, Registrations,
              Submitted, WorkPublished
<1>6. HasRegistrant'
  BY <1>1 DEF FailureEffect, RegistryInv, history, PcSet, StatusSet, HasRegistrant,
              PastRegister
<1>7. QueuedDelivered'
  BY <1>1 DEF FailureEffect, RegistryInv, PcSet, QueuedDelivered
<1>8. PendingUnstored'
  <2> SUFFICES ASSUME NEW v \in Urls, Has(v, "pending")'
               PROVE  /\ pc'[registrant'[v]] \notin {"tagging", "indexed"}
                      /\ \A h \in Groups : work'[registrant'[v]][h] # "stored"
    BY DEF PendingUnstored
  <2>1. Has(v, "pending")
    BY <1>1 DEF FailureEffect, Has, StatusSet
  <2>2. registrant[v] \in Requests /\ url[registrant[v]] = v
    BY <2>1 DEF RegistryInv, HasRegistrant, Has
  <2>3. /\ pc[registrant[v]] \notin {"tagging", "indexed"}
        /\ \A h \in Groups : work[registrant[v]][h] # "stored"
    BY <2>1 DEF RegistryInv, PendingUnstored
  <2>4. Has(v, "pending")' => row'[v].status # "indexed"
    BY DEF Has
  <2>5. QED
    BY <1>1, <2>2, <2>3, <2>4 DEF FailureEffect, PcSet, history
<1>9. QED
  BY <1>2, <1>3, <1>4, <1>5, <1>6, <1>7, <1>8 DEF Registry, Basics

\* A fetch touches no row.
LEMMA FetchKeeps ==
    ASSUME RegistryInv, NEW r \in Requests, NEW g \in Groups, Fetch(r, g)
    PROVE  Registry'
<1>1. FetchEffect(r, g)
  BY FetchDoes
<1>2. (Submitted /\ WebServed /\ HasRegistrant)'
  BY <1>1 DEF FetchEffect, RegistryInv, Basics, Submitted, WebServed, HasRegistrant
<1>3. WorkPublished'
  BY <1>1 DEF FetchEffect, RegistryInv, Basics, WorkSet, WorkPublished
<1>4. Registrations'
  BY <1>1 DEF FetchEffect, RegistryInv, Basics, WorkSet, Registrations
<1>5. BusyFetched'
  BY <1>1 DEF FetchEffect, RegistryInv, Basics, WorkSet, FetchedSet, BusyFetched
<1>6. QueuedDelivered'
  BY <1>1 DEF FetchEffect, RegistryInv, WorkSet, QueuedDelivered
<1>7. PendingUnstored'
  BY <1>1 DEF FetchEffect, RegistryInv, WorkSet, PendingUnstored, HasRegistrant, Has
<1>8. QED
  BY <1>2, <1>3, <1>4, <1>5, <1>6, <1>7 DEF Registry, Basics

\* What a group has stored is no longer pending.
LEMMA FinishKeeps ==
    ASSUME RegistryInv, NEW r \in Requests, NEW g \in Groups, Finish(r, g)
    PROVE  Registry'
<1>1. FinishEffect(r, g)
  BY FinishDoes
<1>2. (Submitted /\ WebServed)'
  BY <1>1 DEF FinishEffect, RegistryInv, Basics, Submitted, WebServed
<1>3. WorkPublished'
  BY <1>1 DEF FinishEffect, RegistryInv, Basics, WorkSet, WorkPublished
<1>4. Registrations'
  <2>1. \A v \in Urls : row[v] # None => row'[v] # None
    BY <1>1 DEF FinishEffect, StatusSet
  <2>2. \A q \in Requests :
          (\E h \in Groups : work'[q][h] # "none") => \E h \in Groups : work[q][h] # "none"
    BY <1>1 DEF FinishEffect, WorkSet
  <2>3. \A q \in Requests :
          pc[q] \in {"publish", "inline", "failing"} \/ (\E h \in Groups : work[q][h] # "none")
             => url[q] \in Urls /\ row[url[q]] # None
    BY Written DEF RegistryInv
  <2>4. QED
    BY <1>1, <2>1, <2>2, <2>3 DEF FinishEffect, Registrations
<1>5. BusyFetched'
  BY <1>1 DEF FinishEffect, RegistryInv, Basics, WorkSet, FetchedSet, BusyFetched
<1>6. HasRegistrant'
  BY <1>1 DEF FinishEffect, RegistryInv, history, StatusSet, HasRegistrant
<1>7. QueuedDelivered'
  BY <1>1 DEF FinishEffect, RegistryInv, WorkSet, QueuedDelivered
<1>8. PendingUnstored'
  <2> SUFFICES ASSUME NEW v \in Urls, Has(v, "pending")'
               PROVE  /\ pc'[registrant'[v]] \notin {"tagging", "indexed"}
                      /\ \A h \in Groups : work'[registrant'[v]][h] # "stored"
    BY DEF PendingUnstored
  <2>1. Has(v, "pending")
    BY <1>1 DEF FinishEffect, Has, StatusSet
  <2>2. registrant[v] \in Requests /\ url[registrant[v]] = v
    BY <2>1 DEF RegistryInv, HasRegistrant, Has
  <2>3. /\ pc[registrant[v]] \notin {"tagging", "indexed"}
        /\ \A h \in Groups : work[registrant[v]][h] # "stored"
    BY <2>1 DEF RegistryInv, PendingUnstored
  <2>4. Has(v, "pending")' => row'[v].status # "indexed"
    BY DEF Has
  <2>5. QED
    BY <1>1, <2>2, <2>3, <2>4 DEF FinishEffect, WorkSet, StatusSet, history
<1>9. QED
  BY <1>2, <1>3, <1>4, <1>5, <1>6, <1>7, <1>8 DEF Registry, Basics

\* Giving up touches no row.
LEMMA GiveUpKeeps ==
    ASSUME RegistryInv, NEW r \in Requests, NEW g \in Groups, GiveUp(r, g)
    PROVE  Registry'
<1>1. GiveUpEffect(r, g)
  BY GiveUpDoes
<1>2. (Submitted /\ WebServed /\ HasRegistrant)'
  BY <1>1 DEF GiveUpEffect, RegistryInv, Basics, Submitted, WebServed, HasRegistrant,
              history
<1>3. WorkPublished'
  BY <1>1 DEF GiveUpEffect, RegistryInv, Basics, WorkSet, WorkPublished
<1>4. Registrations'
  BY <1>1 DEF GiveUpEffect, RegistryInv, Basics, WorkSet, Registrations
<1>5. BusyFetched'
  BY <1>1 DEF GiveUpEffect, RegistryInv, Basics, WorkSet, FetchedSet, BusyFetched
<1>6. QueuedDelivered'
  BY <1>1 DEF GiveUpEffect, RegistryInv, WorkSet, QueuedDelivered
<1>7. PendingUnstored'
  <2> SUFFICES ASSUME NEW v \in Urls, Has(v, "pending")'
               PROVE  /\ pc'[registrant'[v]] \notin {"tagging", "indexed"}
                      /\ \A h \in Groups : work'[registrant'[v]][h] # "stored"
    BY DEF PendingUnstored
  <2>1. Has(v, "pending")
    BY <1>1 DEF GiveUpEffect, Has
  <2>2. registrant[v] \in Requests /\ url[registrant[v]] = v
    BY <2>1 DEF RegistryInv, HasRegistrant, Has
  <2>3. /\ pc[registrant[v]] \notin {"tagging", "indexed"}
        /\ \A h \in Groups : work[registrant[v]][h] # "stored"
    BY <2>1 DEF RegistryInv, PendingUnstored
  <2>4. Has(v, "pending")' => row'[v].status # "indexed"
    BY DEF Has
  <2>5. QED
    BY <1>1, <2>2, <2>3, <2>4 DEF GiveUpEffect, WorkSet, history
<1>8. QED
  BY <1>2, <1>3, <1>4, <1>5, <1>6, <1>7 DEF Registry, Basics

\* A message handled once more is not stored until it is finished.
LEMMA RedeliverKeeps ==
    ASSUME RegistryInv, NEW r \in Requests, NEW g \in Groups, Redeliver(r, g)
    PROVE  Registry'
<1>1. RedeliverEffect(r, g)
  BY RedeliverDoes
<1>2. (Submitted /\ WebServed /\ HasRegistrant)'
  BY <1>1 DEF RedeliverEffect, RegistryInv, Basics, Submitted, WebServed, HasRegistrant
<1>3. WorkPublished'
  BY <1>1 DEF RedeliverEffect, RegistryInv, Basics, WorkSet, WorkPublished
<1>4. Registrations'
  BY <1>1 DEF RedeliverEffect, RegistryInv, Basics, WorkSet, Registrations
<1>5. BusyFetched'
  BY <1>1 DEF RedeliverEffect, RegistryInv, Basics, WorkSet, BusyFetched
<1>6. QueuedDelivered'
  BY <1>1 DEF RedeliverEffect, RegistryInv, WorkSet, QueuedDelivered
<1>7. PendingUnstored'
  BY <1>1 DEF RedeliverEffect, RegistryInv, WorkSet, PendingUnstored, HasRegistrant, Has
<1>8. QED
  BY <1>2, <1>3, <1>4, <1>5, <1>6, <1>7 DEF Registry, Basics

-----------------------------------------------------------------------------
(* The theorems that need no assumption on the order of submissions.         *)

\* Every step preserves the invariant.
LEMMA RegistryStep == RegistryInv /\ [Next]_vars => RegistryInv'
<1> SUFFICES ASSUME RegistryInv, [Next]_vars PROVE RegistryInv'
  OBVIOUS
<1>1. TypeOK'
  BY TypeStep DEF RegistryInv
<1>2. ASSUME NEW u \in Web, Edit(u) PROVE Registry'
  BY <1>2, EditKeeps
<1>3. ASSUME NEW r \in Requests, IngestUrl(r) \/ IngestFile(r) \/ IngestText(r) PROVE Registry'
  BY <1>3, SubmitKeeps
<1>4. ASSUME NEW r \in Requests, Step(r) PROVE Registry'
  <2>1. CASE Insert(r) \/ Update(r)
    <3>1. pc[r] \in {"insert", "update"} /\ (Register(r) \/ (Insert(r) /\ ~Register(r)))
      BY <2>1 DEF Insert, Update, At
    <3>2. QED
      BY <3>1, RegisterKeeps, ConflictKeeps
  <2>2. QED
    BY <1>4, <2>1, ValidateKeeps, PublishKeeps, InlineKeeps, AnswerKeeps, FailureKeeps,
       CrashKeeps
    DEF Step
<1>5. ASSUME NEW r \in Requests, NEW g \in Groups, Handle(r, g) PROVE Registry'
  BY <1>5, FetchKeeps, FinishKeeps, GiveUpKeeps, RedeliverKeeps DEF Handle
<1>6. ASSUME UNCHANGED vars PROVE Registry'
  <2>1. (Basics /\ HasRegistrant)'
    BY <1>6 DEF vars, RegistryInv, Basics, Submitted, WebServed, WorkPublished,
                Registrations,
                BusyFetched, HasRegistrant
  <2>2. (QueuedDelivered /\ PendingUnstored)'
    BY <1>6 DEF vars, RegistryInv, QueuedDelivered, PendingUnstored, Has
  <2>3. QED
    BY <2>1, <2>2 DEF Registry
<1>7. Registry'
  BY <1>2, <1>3, <1>4, <1>5, <1>6 DEF Next
<1>8. QED
  BY <1>1, <1>7 DEF RegistryInv, Registry

\* The invariant holds in every reachable state.
LEMMA RegistryAlways == Spec => []RegistryInv
<1>1. Init => RegistryInv
  BY RegistryInit
<1>2. RegistryInv /\ [Next]_vars => RegistryInv'
  BY RegistryStep
<1>3. QED
  BY <1>1, <1>2, PTL DEF Spec

\* A registrant that is neither under way nor failed has stored the document,
\* or every group has given up its message.
LEMMA RegistryPending == RegistryInv => PendingHasReason
<1> SUFFICES ASSUME RegistryInv, NEW u \in Urls, Has(u, "pending"),
                    ~InProgress(registrant[u]),
                    pc[registrant[u]] \notin {"unpublished", "crashed", "failed"}
             PROVE  \A g \in Groups : work[registrant[u]][g] = "given_up"
  BY DEF PendingHasReason
<1> DEFINE r == registrant[u]
<1>1. r \in Requests /\ pc[r] \in PastRegister
  BY DEF RegistryInv, HasRegistrant, Has
<1>2. pc[r] \notin {"tagging", "indexed"} /\ \A g \in Groups : work[r][g] # "stored"
  BY DEF RegistryInv, PendingUnstored
<1>3. pc[r] \notin Running /\ \A g \in Groups : work[r][g] \notin {"due", "busy"}
  BY DEF InProgress
<1>4. pc[r] = "queued"
  BY <1>1, <1>2, <1>3 DEF PastRegister, Running
<1>5. \A g \in Groups : work[r][g] \in Outcomes \ {"none"}
  BY <1>1, <1>4 DEF RegistryInv, TypeOK, QueuedDelivered
<1>6. QED
  BY <1>2, <1>3, <1>5 DEF Outcomes

\* Type correctness of rows, requests and the work of the groups.
THEOREM TypeCorrect == Spec => []TypeOK
  BY RegistryAlways, PTL DEF RegistryInv

\* No order of submissions, stores, failures and crashes leaves a document
\* 'pending' unless its registrant is under way or has not come to a good end.
THEOREM PendingExplained == Spec => []PendingHasReason
  BY RegistryAlways, RegistryPending, PTL

-----------------------------------------------------------------------------
(* The invariant of URLs whose ingestions have not overlapped.               *)

\* Two requests at work on one URL have been seen to be.
Together ==
    \A q, r \in Requests :
        q # r /\ url[q] = url[r] /\ InProgress(q) /\ InProgress(r) => url[r] \in overlapped

\* A row that appears before the INSERT is that of another submission.
InsertRace ==
    \A r \in Requests : pc[r] = "insert" /\ row[url[r]] # None => url[r] \in overlapped

\* Only the registrant writes.
Latest ==
    \A r \in Requests :
        /\ \/ pc[r] \in {"publish", "inline", "failing"}
           \/ \E g \in Groups : work[r][g] \in {"due", "busy"}
        /\ url[r] \notin overlapped
        => registrant[url[r]] = r

HashRegistered == \A u \in Urls : row[u] # None => row[u].hash = bytes[registrant[u]]

BusyContent ==
    \A r \in Requests : \A g \in Groups :
        work[r][g] = "busy" => fetched[r][g] = bytes[r] \/ url[r] \in drifted

Apart ==
    /\ Together
    /\ InsertRace
    /\ ConflictIsARace
    /\ Latest
    /\ HashRegistered
    /\ BusyContent
    /\ StatusIsOutcome
    /\ IndexedIsRegistered

\* What a group has fetched is not changed by an edit.
LEMMA EditApart ==
    ASSUME RegistryInv, Apart, NEW u \in Web, Edit(u)
    PROVE  Apart'
<1>1. EditEffect(u)
  BY EditDoes
<1>2. (Together /\ InsertRace /\ ConflictIsARace /\ Latest /\ HashRegistered
       /\ BusyContent /\ StatusIsOutcome /\ IndexedIsRegistered)'
  BY <1>1 DEF EditEffect, Apart, Together, InsertRace, ConflictIsARace, Latest,
              HashRegistered, BusyContent, StatusIsOutcome, IndexedIsRegistered, Agrees,
              Has, InProgress, history
<1>3. QED
  BY <1>2 DEF Apart

\* The overlap with every request under way at the URL is noted.
LEMMA SubmitApart ==
    ASSUME RegistryInv, Apart,
           NEW r \in Requests, IngestUrl(r) \/ IngestFile(r) \/ IngestText(r)
    PROVE  Apart'
<1>1. PICK u \in Urls, c \in Contents : SubmitEffect(r, u, c)
  BY SubmitDoes
<1>2. Together'
  BY <1>1 DEF SubmitEffect, Apart, PcSet, Together, InProgress
<1>3. InsertRace'
  BY <1>1 DEF SubmitEffect, Apart, PcSet, InsertRace
<1>4. ConflictIsARace'
  BY <1>1 DEF SubmitEffect, Apart, PcSet, ConflictIsARace
<1>5. Latest'
  BY <1>1 DEF SubmitEffect, RegistryInv, Apart, PcSet, Latest, Basics, WorkPublished
<1>6. HashRegistered'
  BY <1>1 DEF SubmitEffect, RegistryInv, Apart, HashRegistered, HasRegistrant, PastRegister
<1>7. BusyContent'
  BY <1>1 DEF SubmitEffect, RegistryInv, Apart, Basics, WorkPublished, BusyContent
<1>8. StatusIsOutcome'
  BY <1>1 DEF SubmitEffect, RegistryInv, Apart, PcSet, StatusIsOutcome, Agrees,
              HasRegistrant
<1>9. IndexedIsRegistered'
  BY <1>1 DEF SubmitEffect, Apart, IndexedIsRegistered, Has
<1>10. QED
  BY <1>2, <1>3, <1>4, <1>5, <1>6, <1>7, <1>8, <1>9 DEF Apart

\* A request goes on to INSERT only when there is no row.
LEMMA ValidateApart ==
    ASSUME RegistryInv, Apart, NEW r \in Requests, Validate(r)
    PROVE  Apart'
<1>1. PICK p \in {"refused", "insert", "duplicate", "update"} : ValidateEffect(r, p)
  BY ValidateDoes
<1>2. (HashRegistered /\ BusyContent /\ IndexedIsRegistered)'
  BY <1>1 DEF ValidateEffect, Apart, HashRegistered, BusyContent, IndexedIsRegistered,
              Has, history
<1>3. Together'
  BY <1>1 DEF ValidateEffect, Apart, history, PcSet, Together, InProgress, Running
<1>4. InsertRace'
  BY <1>1 DEF ValidateEffect, Apart, history, PcSet, InsertRace
<1>5. ConflictIsARace'
  BY <1>1 DEF ValidateEffect, Apart, history, PcSet, ConflictIsARace
<1>6. Latest'
  BY <1>1 DEF ValidateEffect, Apart, history, PcSet, Latest
<1>7. StatusIsOutcome'
  BY <1>1 DEF ValidateEffect, RegistryInv, Apart, history, PcSet, StatusIsOutcome, Agrees,
              HasRegistrant
<1>8. QED
  BY <1>2, <1>3, <1>4, <1>5, <1>6, <1>7 DEF Apart

\* A request that loses its registration while it is under way has overlapped.
LEMMA RegisterApart ==
    ASSUME RegistryInv, Apart,
           NEW r \in Requests, Register(r), pc[r] \in {"insert", "update"}
    PROVE  Apart'
<1>1. PICK p \in {"inline", "publish"} : RegisterEffect(r, p)
  BY RegisterDoes
<1>2. BusyContent'
  BY <1>1 DEF RegisterEffect, Apart, BusyContent
<1>3. Together'
  BY <1>1 DEF RegisterEffect, Apart, PcSet, Together, InProgress, Running
<1>4. InsertRace'
  <2> SUFFICES ASSUME NEW q \in Requests, pc'[q] = "insert", row'[url[q]] # None
               PROVE  url[q] \in overlapped
    BY <1>1 DEF RegisterEffect, InsertRace
  <2>1. q # r /\ pc[q] = "insert" /\ url[q] \in Urls
    BY <1>1 DEF RegisterEffect, PcSet, RegistryInv, Basics, Submitted
  <2>2. CASE url[q] = url[r]
    BY <2>1, <2>2 DEF Apart, Together, InProgress, Running
  <2>3. CASE url[q] # url[r]
    BY <1>1, <2>1, <2>3 DEF RegisterEffect, Apart, InsertRace
  <2>4. QED
    BY <2>2, <2>3
<1>5. ConflictIsARace'
  BY <1>1 DEF RegisterEffect, Apart, PcSet, ConflictIsARace
<1>6. Latest'
  <2> SUFFICES ASSUME NEW q \in Requests,
                      \/ pc'[q] \in {"publish", "inline", "failing"}
                      \/ \E g \in Groups : work[q][g] \in {"due", "busy"},
                      url[q] \notin overlapped
               PROVE  registrant'[url[q]] = q
    BY <1>1 DEF RegisterEffect, Latest
  <2>1. CASE q = r
    BY <1>1, <2>1 DEF RegisterEffect
  <2>2. CASE q # r
    <3>1. \/ pc[q] \in {"publish", "inline", "failing"}
          \/ \E g \in Groups : work[q][g] \in {"due", "busy"}
      BY <1>1, <2>2 DEF RegisterEffect, PcSet
    <3>2. url[q] \in Urls /\ InProgress(q)
      BY <3>1, Written DEF RegistryInv, InProgress, Running
    <3>3. url[q] # url[r]
      BY <2>2, <3>2 DEF Apart, Together, InProgress, Running
    <3>4. QED
      BY <1>1, <3>1, <3>2, <3>3 DEF RegisterEffect, Apart, Latest
  <2>3. QED
    BY <2>1, <2>2
<1>7. HashRegistered'
  BY <1>1 DEF RegisterEffect, Apart, HashRegistered
<1>8. StatusIsOutcome'
  <2> SUFFICES ASSUME NEW v \in Urls, v \notin overlapped, row'[v] # None
               PROVE  Agrees(v, registrant[v])'
    BY <1>1 DEF RegisterEffect, StatusIsOutcome
  <2>1. CASE v = url[r]
    <3>1. \A g \in Groups : work[r][g] = "none"
      BY DEF RegistryInv, Basics, WorkPublished
    <3>2. QED
      BY <1>1, <2>1, <3>1 DEF RegisterEffect, Agrees, PcSet
  <2>2. CASE v # url[r]
    <3>1. row'[v] = row[v] /\ registrant'[v] = registrant[v]
      BY <1>1, <2>2 DEF RegisterEffect
    <3>2. registrant[v] \in Requests \ {r} /\ Agrees(v, registrant[v])
      BY <2>2, <3>1 DEF RegistryInv, HasRegistrant, Apart, StatusIsOutcome
    <3>3. QED
      BY <1>1, <3>1, <3>2 DEF RegisterEffect, Agrees, PcSet
  <2>3. QED
    BY <2>1, <2>2
<1>9. IndexedIsRegistered'
  BY <1>1 DEF RegisterEffect, Apart, IndexedIsRegistered, Has
<1>10. QED
  BY <1>2, <1>3, <1>4, <1>5, <1>6, <1>7, <1>8, <1>9 DEF Apart

\* The row that made the INSERT fail is that of a submission under way at once.
LEMMA ConflictApart ==
    ASSUME RegistryInv, Apart, NEW r \in Requests, Insert(r), ~Register(r)
    PROVE  Apart'
<1>1. ConflictEffect(r)
  BY ConflictDoes
<1>2. (HashRegistered /\ BusyContent /\ IndexedIsRegistered)'
  BY <1>1 DEF ConflictEffect, Apart, HashRegistered, BusyContent, IndexedIsRegistered,
              Has, history
<1>3. Together'
  BY <1>1 DEF ConflictEffect, Apart, history, PcSet, Together, InProgress, Running
<1>4. InsertRace'
  BY <1>1 DEF ConflictEffect, Apart, history, PcSet, InsertRace
<1>5. ConflictIsARace'
  BY <1>1 DEF ConflictEffect, Apart, InsertRace, ConflictIsARace, PcSet, history
<1>6. Latest'
  BY <1>1 DEF ConflictEffect, Apart, history, PcSet, Latest
<1>7. StatusIsOutcome'
  BY <1>1 DEF ConflictEffect, RegistryInv, Apart, history, PcSet, StatusIsOutcome, Agrees,
              HasRegistrant
<1>8. QED
  BY <1>2, <1>3, <1>4, <1>5, <1>6, <1>7 DEF Apart

\* The groups take over from the request, which was the only one under way.
LEMMA PublishApart ==
    ASSUME RegistryInv, Apart, NEW r \in Requests, Publish(r)
    PROVE  Apart'
<1>1. PublishEffect(r)
  BY PublishDoes
<1>2. (HashRegistered /\ IndexedIsRegistered)'
  BY <1>1 DEF PublishEffect, Apart, HashRegistered, IndexedIsRegistered, Has, history
<1>3. Together'
  BY <1>1 DEF PublishEffect, Apart, history, PcSet, WorkDue, Together, InProgress, Running
<1>4. InsertRace'
  BY <1>1 DEF PublishEffect, Apart, history, PcSet, InsertRace
<1>5. ConflictIsARace'
  BY <1>1 DEF PublishEffect, Apart, history, PcSet, ConflictIsARace
<1>6. Latest'
  BY <1>1 DEF PublishEffect, Apart, history, PcSet, WorkDue, Latest
<1>7. BusyContent'
  BY <1>1 DEF PublishEffect, Apart, history, WorkDue, BusyContent
<1>8. StatusIsOutcome'
  BY <1>1 DEF PublishEffect, RegistryInv, Apart, history, PcSet, WorkDue, StatusIsOutcome,
              Agrees, HasRegistrant
<1>9. QED
  BY <1>2, <1>3, <1>4, <1>5, <1>6, <1>7, <1>8 DEF Apart

\* A crash ends the request, or hands over to the groups.
LEMMA CrashApart ==
    ASSUME RegistryInv, Apart, NEW r \in Requests, Crash(r)
    PROVE  Apart'
<1>1. CrashEffect(r)
  BY CrashDoes
<1>2. (HashRegistered /\ IndexedIsRegistered)'
  BY <1>1 DEF CrashEffect, Apart, HashRegistered, IndexedIsRegistered, Has, history
<1>3. Together'
  BY <1>1 DEF CrashEffect, Apart, history, PcSet, WorkDue, Together, InProgress, Running
<1>4. InsertRace'
  BY <1>1 DEF CrashEffect, Apart, history, PcSet, InsertRace
<1>5. ConflictIsARace'
  BY <1>1 DEF CrashEffect, Apart, history, PcSet, ConflictIsARace
<1>6. Latest'
  BY <1>1 DEF CrashEffect, Apart, history, PcSet, WorkDue, Latest
<1>7. BusyContent'
  BY <1>1 DEF CrashEffect, Apart, history, WorkDue, BusyContent
<1>8. StatusIsOutcome'
  <2> SUFFICES ASSUME NEW v \in Urls, v \notin overlapped, row'[v] # None
               PROVE  Agrees(v, registrant[v])'
    BY <1>1 DEF CrashEffect, StatusIsOutcome, history
  <2>1. registrant[v] \in Requests /\ Agrees(v, registrant[v])
    BY <1>1 DEF CrashEffect, RegistryInv, HasRegistrant, Apart, StatusIsOutcome
  <2>2. pc[r] = "publish" => \A g \in Groups : work[r][g] = "none"
    BY DEF RegistryInv, Basics, WorkPublished
  <2>3. pc[r] = "tagging" => direct[r]
    BY DEF RegistryInv, Basics, Submitted
  <2>4. QED
    BY <1>1, <2>1, <2>2, <2>3 DEF CrashEffect, Agrees, PcSet, WorkDue, Running, history
<1>9. QED
  BY <1>2, <1>3, <1>4, <1>5, <1>6, <1>7, <1>8 DEF Apart

\* The request that stores is the registrant, and so is the content.
LEMMA InlineApart ==
    ASSUME RegistryInv, Apart, NEW r \in Requests, Inline(r)
    PROVE  Apart'
<1>1. InlineEffect(r)
  BY InlineDoes
<1>2. BusyContent'
  BY <1>1 DEF InlineEffect, Apart, BusyContent, history
<1>3. Together'
  BY <1>1 DEF InlineEffect, Apart, history, PcSet, Together, InProgress, Running
<1>4. InsertRace'
  BY <1>1 DEF InlineEffect, RegistryInv, Apart, history, PcSet, StatusSet, InsertRace,
              Basics, Submitted
<1>5. ConflictIsARace'
  BY <1>1 DEF InlineEffect, Apart, history, PcSet, ConflictIsARace
<1>6. Latest'
  BY <1>1 DEF InlineEffect, Apart, history, PcSet, Latest
<1>7. HashRegistered'
  BY <1>1 DEF InlineEffect, Apart, history, StatusSet, HashRegistered
<1>8. StatusIsOutcome'
  <2> SUFFICES ASSUME NEW v \in Urls, v \notin overlapped, row'[v] # None
               PROVE  Agrees(v, registrant[v])'
    BY <1>1 DEF InlineEffect, StatusIsOutcome, history
  <2>1. CASE v = url[r]
    <3>1. registrant[v] = r
      BY <1>1, <2>1 DEF InlineEffect, Apart, Latest
    <3>2. Agrees(v, r)
      BY <1>1, <2>1, <3>1 DEF InlineEffect, Apart, StatusIsOutcome
    <3>3. \A g \in Groups : work[r][g] = "none"
      BY <1>1 DEF InlineEffect, RegistryInv, Basics, WorkPublished
    <3>4. QED
      BY <1>1, <2>1, <3>1, <3>2, <3>3 DEF InlineEffect, Agrees, StatusSet, PcSet, history
  <2>2. CASE v # url[r]
    <3>1. row'[v] = row[v] /\ registrant'[v] = registrant[v]
      BY <1>1, <2>2 DEF InlineEffect, StatusSet, history
    <3>2. registrant[v] \in Requests \ {r} /\ Agrees(v, registrant[v])
      BY <2>2, <3>1 DEF RegistryInv, HasRegistrant, Apart, StatusIsOutcome
    <3>3. QED
      BY <1>1, <3>1, <3>2 DEF InlineEffect, Agrees, PcSet
  <2>3. QED
    BY <2>1, <2>2
<1>9. IndexedIsRegistered'
  <2> SUFFICES ASSUME NEW v \in Urls, v \notin overlapped, Has(v, "indexed")'
               PROVE  stored'[v] = row'[v].hash \/ v \in drifted
    BY <1>1 DEF InlineEffect, IndexedIsRegistered, history
  <2>1. CASE v = url[r]
    <3>1. registrant[v] = r
      BY <1>1, <2>1 DEF InlineEffect, Apart, Latest
    <3>2. /\ row[v].hash = bytes[r]
          /\ Has(v, "indexed") => stored[v] = row[v].hash \/ v \in drifted
      BY <1>1, <2>1, <3>1 DEF InlineEffect, Apart, HashRegistered, IndexedIsRegistered
    <3>3. QED
      BY <1>1, <2>1, <3>2 DEF InlineEffect, StatusSet, StoredSet, Has
  <2>2. CASE v # url[r]
    <3>1. row'[v] = row[v] /\ stored'[v] = stored[v]
      BY <1>1, <2>2 DEF InlineEffect, StatusSet, StoredSet
    <3>2. QED
      BY <3>1 DEF Apart, IndexedIsRegistered, Has
  <2>3. QED
    BY <2>1, <2>2
<1>10. QED
  BY <1>2, <1>3, <1>4, <1>5, <1>6, <1>7, <1>8, <1>9 DEF Apart

\* A request that is answered has stored its document before.
LEMMA AnswerApart ==
    ASSUME RegistryInv, Apart, NEW r \in Requests, Answer(r)
    PROVE  Apart'
<1>1. AnswerEffect(r)
  BY AnswerDoes
<1>2. (HashRegistered /\ BusyContent /\ IndexedIsRegistered)'
  BY <1>1 DEF AnswerEffect, Apart, HashRegistered, BusyContent, IndexedIsRegistered, Has,
              history
<1>3. Together'
  BY <1>1 DEF AnswerEffect, Apart, history, PcSet, Together, InProgress, Running
<1>4. (InsertRace /\ ConflictIsARace)'
  BY <1>1 DEF AnswerEffect, Apart, history, PcSet, InsertRace, ConflictIsARace
<1>5. Latest'
  BY <1>1 DEF AnswerEffect, Apart, history, PcSet, Latest
<1>6. StatusIsOutcome'
  BY <1>1 DEF AnswerEffect, RegistryInv, Apart, history, PcSet, StatusIsOutcome, Agrees,
              HasRegistrant
<1>7. QED
  BY <1>2, <1>3, <1>4, <1>5, <1>6 DEF Apart

\* The request whose failure is recorded is the registrant.
LEMMA FailureApart ==
    ASSUME RegistryInv, Apart, NEW r \in Requests, RecordFailure(r)
    PROVE  Apart'
<1>1. FailureEffect(r)
  BY FailureDoes
<1>2. BusyContent'
  BY <1>1 DEF FailureEffect, Apart, BusyContent, history
<1>3. Together'
  BY <1>1 DEF FailureEffect, Apart, history, PcSet, Together, InProgress, Running
<1>4. InsertRace'
  BY <1>1 DEF FailureEffect, RegistryInv, Apart, history, PcSet, StatusSet, InsertRace,
              Basics, Submitted
<1>5. ConflictIsARace'
  BY <1>1 DEF FailureEffect, Apart, history, PcSet, ConflictIsARace
<1>6. Latest'
  BY <1>1 DEF FailureEffect, Apart, history, PcSet, Latest
<1>7. HashRegistered'
  BY <1>1 DEF FailureEffect, Apart, history, StatusSet, HashRegistered
<1>8. StatusIsOutcome'
  <2> SUFFICES ASSUME NEW v \in Urls, v \notin overlapped, row'[v] # None
               PROVE  Agrees(v, registrant[v])'
    BY <1>1 DEF FailureEffect, StatusIsOutcome, history
  <2>1. CASE v = url[r]
    <3>1. registrant[v] = r
      BY <1>1, <2>1 DEF FailureEffect, Apart, Latest
    <3>2. Agrees(v, r)
      BY <1>1, <2>1, <3>1 DEF FailureEffect, Apart, StatusIsOutcome
    <3>3. \A g \in Groups : work[r][g] = "none"
      BY <1>1 DEF FailureEffect, RegistryInv, Basics, WorkPublished
    <3>4. QED
      BY <1>1, <2>1, <3>1, <3>2, <3>3 DEF FailureEffect, Agrees, StatusSet, PcSet, history
  <2>2. CASE v # url[r]
    <3>1. row'[v] = row[v] /\ registrant'[v] = registrant[v]
      BY <1>1, <2>2 DEF FailureEffect, StatusSet, history
    <3>2. registrant[v] \in Requests \ {r} /\ Agrees(v, registrant[v])
      BY <2>2, <3>1 DEF RegistryInv, HasRegistrant, Apart, StatusIsOutcome
    <3>3. QED
      BY <1>1, <3>1, <3>2 DEF FailureEffect, Agrees, PcSet
  <2>3. QED
    BY <2>1, <2>2
<1>9. IndexedIsRegistered'
  BY <1>1 DEF FailureEffect, Apart, history, StatusSet, IndexedIsRegistered, Has
<1>10. QED
  BY <1>2, <1>3, <1>4, <1>5, <1>6, <1>7, <1>8, <1>9 DEF Apart

\* What is fetched is the registered content, or has drifted.
LEMMA FetchApart ==
    ASSUME RegistryInv, Apart, NEW r \in Requests, NEW g \in Groups, Fetch(r, g)
    PROVE  Apart'
<1>1. FetchEffect(r, g)
  BY FetchDoes
<1>2. (InsertRace /\ ConflictIsARace /\ HashRegistered)'
  BY <1>1 DEF FetchEffect, Apart, InsertRace, ConflictIsARace, HashRegistered
<1>3. Together'
  BY <1>1 DEF FetchEffect, Apart, WorkSet, Together, InProgress
<1>4. Latest'
  BY <1>1 DEF FetchEffect, Apart, WorkSet, Latest
<1>5. BusyContent'
  BY <1>1 DEF FetchEffect, Apart, WorkSet, FetchedSet, BusyContent
<1>6. StatusIsOutcome'
  BY <1>1 DEF FetchEffect, RegistryInv, Apart, WorkSet, StatusIsOutcome, Agrees,
              HasRegistrant
<1>7. IndexedIsRegistered'
  BY <1>1 DEF FetchEffect, Apart, IndexedIsRegistered, Has
<1>8. QED
  BY <1>2, <1>3, <1>4, <1>5, <1>6, <1>7 DEF Apart

\* The group that stores works for the registrant.
LEMMA FinishApart ==
    ASSUME RegistryInv, Apart, NEW r \in Requests, NEW g \in Groups, Finish(r, g)
    PROVE  Apart'
<1>1. FinishEffect(r, g)
  BY FinishDoes
<1>2. ConflictIsARace'
  BY <1>1 DEF FinishEffect, Apart, ConflictIsARace, history
<1>3. Together'
  BY <1>1 DEF FinishEffect, Apart, history, WorkSet, Together, InProgress
<1>4. InsertRace'
  BY <1>1 DEF FinishEffect, RegistryInv, Apart, history, StatusSet, InsertRace, Basics,
              Submitted
<1>5. Latest'
  BY <1>1 DEF FinishEffect, Apart, history, WorkSet, Latest
<1>6. HashRegistered'
  BY <1>1 DEF FinishEffect, Apart, history, StatusSet, HashRegistered
<1>7. BusyContent'
  BY <1>1 DEF FinishEffect, Apart, history, WorkSet, FetchedSet, BusyContent
<1>8. StatusIsOutcome'
  <2> SUFFICES ASSUME NEW v \in Urls, v \notin overlapped, row'[v] # None
               PROVE  Agrees(v, registrant[v])'
    BY <1>1 DEF FinishEffect, StatusIsOutcome, history
  <2>1. CASE v = url[r]
    <3>1. registrant[v] = r
      BY <1>1, <2>1 DEF FinishEffect, Apart, Latest
    <3>2. Agrees(v, r)
      BY <1>1, <2>1, <3>1 DEF FinishEffect, Apart, StatusIsOutcome
    <3>3. QED
      BY <1>1, <2>1, <3>1, <3>2 DEF FinishEffect, Agrees, StatusSet, WorkSet, history
  <2>2. CASE v # url[r]
    <3>1. row'[v] = row[v] /\ registrant'[v] = registrant[v]
      BY <1>1, <2>2 DEF FinishEffect, StatusSet, history
    <3>2. registrant[v] \in Requests \ {r} /\ Agrees(v, registrant[v])
      BY <2>2, <3>1 DEF RegistryInv, HasRegistrant, Apart, StatusIsOutcome
    <3>3. QED
      BY <1>1, <3>1, <3>2 DEF FinishEffect, Agrees, WorkSet
  <2>3. QED
    BY <2>1, <2>2
<1>9. IndexedIsRegistered'
  <2> SUFFICES ASSUME NEW v \in Urls, v \notin overlapped, Has(v, "indexed")'
               PROVE  stored'[v] = row'[v].hash \/ v \in drifted
    BY <1>1 DEF FinishEffect, IndexedIsRegistered, history
  <2>1. CASE v = url[r]
    <3>1. registrant[v] = r
      BY <1>1, <2>1 DEF FinishEffect, Apart, Latest
    <3>2. /\ row[v].hash = bytes[r]
          /\ Has(v, "indexed") => stored[v] = row[v].hash \/ v \in drifted
      BY <1>1, <2>1, <3>1 DEF FinishEffect, Apart, HashRegistered, IndexedIsRegistered
    <3>3. fetched[r][g] = bytes[r] \/ v \in drifted
      BY <1>1, <2>1 DEF FinishEffect, Apart, BusyContent
    <3>4. QED
      BY <1>1, <2>1, <3>2, <3>3 DEF FinishEffect, StatusSet, StoredSet, Has
  <2>2. CASE v # url[r]
    <3>1. row'[v] = row[v] /\ stored'[v] = stored[v]
      BY <1>1, <2>2 DEF FinishEffect, StatusSet, StoredSet
    <3>2. QED
      BY <3>1 DEF Apart, IndexedIsRegistered, Has
  <2>3. QED
    BY <2>1, <2>2
<1>10. QED
  BY <1>2, <1>3, <1>4, <1>5, <1>6, <1>7, <1>8, <1>9 DEF Apart

\* A message given up leaves the row as it is.
LEMMA GiveUpApart ==
    ASSUME RegistryInv, Apart, NEW r \in Requests, NEW g \in Groups, GiveUp(r, g)
    PROVE  Apart'
<1>1. GiveUpEffect(r, g)
  BY GiveUpDoes
<1>2. (InsertRace /\ ConflictIsARace /\ HashRegistered /\ IndexedIsRegistered)'
  BY <1>1 DEF GiveUpEffect, Apart, InsertRace, ConflictIsARace, HashRegistered,
              IndexedIsRegistered, Has, history
<1>3. Together'
  BY <1>1 DEF GiveUpEffect, Apart, history, WorkSet, Together, InProgress
<1>4. Latest'
  BY <1>1 DEF GiveUpEffect, Apart, history, WorkSet, Latest
<1>5. BusyContent'
  BY <1>1 DEF GiveUpEffect, Apart, history, WorkSet, FetchedSet, BusyContent
<1>6. StatusIsOutcome'
  BY <1>1 DEF GiveUpEffect, RegistryInv, Apart, history, WorkSet, StatusIsOutcome, Agrees,
              HasRegistrant
<1>7. QED
  BY <1>2, <1>3, <1>4, <1>5, <1>6 DEF Apart

\* A message handled again after another registration has overlapped.
LEMMA RedeliverApart ==
    ASSUME RegistryInv, Apart, NEW r \in Requests, NEW g \in Groups, Redeliver(r, g)
    PROVE  Apart'
<1>1. RedeliverEffect(r, g)
  BY RedeliverDoes
<1>2. HashRegistered'
  BY <1>1 DEF RedeliverEffect, Apart, HashRegistered
<1>3. Together'
  BY <1>1 DEF RedeliverEffect, Apart, WorkSet, Together, InProgress
<1>4. InsertRace'
  BY <1>1 DEF RedeliverEffect, Apart, InsertRace
<1>5. ConflictIsARace'
  BY <1>1 DEF RedeliverEffect, Apart, ConflictIsARace
<1>6. Latest'
  BY <1>1 DEF RedeliverEffect, Apart, WorkSet, Latest
<1>7. BusyContent'
  BY <1>1 DEF RedeliverEffect, Apart, WorkSet, BusyContent
<1>8. StatusIsOutcome'
  BY <1>1 DEF RedeliverEffect, RegistryInv, Apart, WorkSet, StatusIsOutcome, Agrees,
              HasRegistrant
<1>9. IndexedIsRegistered'
  BY <1>1 DEF RedeliverEffect, Apart, IndexedIsRegistered, Has
<1>10. QED
  BY <1>2, <1>3, <1>4, <1>5, <1>6, <1>7, <1>8, <1>9 DEF Apart

-----------------------------------------------------------------------------
(* The theorems about URLs whose ingestions do not overlap.                  *)

ApartInv == RegistryInv /\ Apart

\* Initially nothing is under way.
LEMMA ApartInit == Init => ApartInv
<1> SUFFICES ASSUME Init PROVE ApartInv
  OBVIOUS
<1>1. Together /\ InsertRace /\ ConflictIsARace /\ Latest
  BY DEF Init, Together, InProgress, Running, InsertRace, ConflictIsARace, Latest
<1>2. HashRegistered /\ BusyContent /\ StatusIsOutcome /\ IndexedIsRegistered
  BY DEF Init, HashRegistered, BusyContent, StatusIsOutcome, IndexedIsRegistered, Has
<1>3. QED
  BY <1>1, <1>2, RegistryInit DEF ApartInv, Apart

\* Every step preserves the invariant of URLs apart.
LEMMA ApartStep == ApartInv /\ [Next]_vars => ApartInv'
<1> SUFFICES ASSUME RegistryInv, Apart, [Next]_vars PROVE ApartInv'
  BY DEF ApartInv
<1>1. RegistryInv'
  BY RegistryStep
<1>2. ASSUME NEW u \in Web, Edit(u) PROVE Apart'
  BY <1>2, EditApart
<1>3. ASSUME NEW r \in Requests, IngestUrl(r) \/ IngestFile(r) \/ IngestText(r) PROVE Apart'
  BY <1>3, SubmitApart
<1>4. ASSUME NEW r \in Requests, Step(r) PROVE Apart'
  <2>1. CASE Insert(r) \/ Update(r)
    <3>1. pc[r] \in {"insert", "update"} /\ (Register(r) \/ (Insert(r) /\ ~Register(r)))
      BY <2>1 DEF Insert, Update, At
    <3>2. QED
      BY <3>1, RegisterApart, ConflictApart
  <2>2. QED
    BY <1>4, <2>1, ValidateApart, PublishApart, InlineApart, AnswerApart, FailureApart,
       CrashApart
    DEF Step
<1>5. ASSUME NEW r \in Requests, NEW g \in Groups, Handle(r, g) PROVE Apart'
  BY <1>5, FetchApart, FinishApart, GiveUpApart, RedeliverApart DEF Handle
<1>6. ASSUME UNCHANGED vars PROVE Apart'
  <2>1. (Together /\ InsertRace /\ ConflictIsARace /\ Latest)'
    BY <1>6 DEF vars, Apart, Together, InProgress, InsertRace, ConflictIsARace, Latest
  <2>2. (HashRegistered /\ BusyContent /\ StatusIsOutcome /\ IndexedIsRegistered)'
    BY <1>6 DEF vars, Apart, HashRegistered, BusyContent, StatusIsOutcome, Agrees,
                IndexedIsRegistered, Has
  <2>3. QED
    BY <2>1, <2>2 DEF Apart
<1>7. Apart'
  BY <1>2, <1>3, <1>4, <1>5, <1>6 DEF Next
<1>8. QED
  BY <1>1, <1>7 DEF ApartInv

\* The invariant holds in every reachable state.
LEMMA ApartAlways == Spec => []ApartInv
  BY ApartInit, ApartStep, PTL DEF Spec

\* A step that turns 'indexed' into 'failed' is the failure of a request that is
\* not the registrant, which has overlapped.
LEMMA FailureStep ==
    ASSUME RegistryInv, Apart, [Next]_vars,
           NEW u \in Urls, Has(u, "indexed"), Has(u, "failed")'
    PROVE  u \in overlapped
<1>1. row'[u] # row[u] /\ row'[u].status = "failed" /\ row[u] # None
  BY DEF Has
<1>2. ASSUME NEW r \in Requests, RecordFailure(r) PROVE u \in overlapped
  <2>1. pc[r] = "failing" /\ url[r] = u
    BY <1>1, <1>2, FailureDoes DEF FailureEffect, StatusSet
  <2>2. \A g \in Groups : work[r][g] = "none"
    BY <2>1 DEF RegistryInv, Basics, WorkPublished
  <2>3. ~Agrees(u, r)
    BY <2>1, <2>2 DEF Agrees, Has
  <2>4. QED
    BY <1>1, <2>1, <2>3 DEF Apart, Latest, StatusIsOutcome
<1>3. ASSUME NEW r \in Requests, Inline(r) PROVE FALSE
  BY <1>1, <1>3, InlineDoes DEF InlineEffect, StatusSet
<1>4. ASSUME NEW r \in Requests, NEW g \in Groups, Finish(r, g) PROVE FALSE
  BY <1>1, <1>4, FinishDoes DEF FinishEffect, StatusSet
<1>5. ASSUME NEW r \in Requests, Insert(r) \/ Update(r) PROVE FALSE
  <2>1. pc[r] \in {"insert", "update"} /\ (Register(r) \/ (Insert(r) /\ ~Register(r)))
    BY <1>5 DEF Insert, Update, At
  <2>2. ~(Insert(r) /\ ~Register(r))
    BY <1>1, ConflictDoes DEF ConflictEffect
  <2>3. QED
    BY <1>1, <2>1, <2>2, RegisterDoes DEF RegisterEffect
<1>6. ASSUME NEW r \in Requests,
             \/ IngestUrl(r) \/ IngestFile(r) \/ IngestText(r)
             \/ Validate(r) \/ Publish(r) \/ Answer(r) \/ Crash(r)
      PROVE  FALSE
  BY <1>1, <1>6, SubmitDoes, ValidateDoes, PublishDoes, AnswerDoes, CrashDoes
  DEF SubmitEffect, ValidateEffect, PublishEffect, AnswerEffect, CrashEffect
<1>7. ASSUME NEW r \in Requests, NEW g \in Groups,
             Fetch(r, g) \/ GiveUp(r, g) \/ Redeliver(r, g)
      PROVE  FALSE
  BY <1>1, <1>7, FetchDoes, GiveUpDoes, RedeliverDoes
  DEF FetchEffect, GiveUpEffect, RedeliverEffect
<1>8. ~(\E v \in Web : Edit(v)) /\ ~UNCHANGED vars
  BY <1>1, EditDoes DEF EditEffect, vars
<1>9. QED
  BY <1>2, <1>3, <1>4, <1>5, <1>6, <1>7, <1>8 DEF Next, Step, Handle

\* An INSERT that the unique index refuses is a race of two submissions.
THEOREM ConflictsAreRaces == Spec => []ConflictIsARace
  BY ApartAlways, PTL DEF ApartInv, Apart

\* Without overlap, the status of a document is the outcome of its last registration.
THEOREM StatusesAreOutcomes == Spec => []StatusIsOutcome
  BY ApartAlways, PTL DEF ApartInv, Apart

\* Without overlap, an indexed document was stored with the content of its row,
\* unless the source drifted.
THEOREM IndexedAreRegistered == Spec => []IndexedIsRegistered
  BY ApartAlways, PTL DEF ApartInv, Apart

\* A recorded failure overwrites 'indexed' only after an overlap.
THEOREM FailuresKeepIndexed == Spec => FailureKeepsIndexed
<1>1. ApartInv /\ [Next]_vars =>
          [\A u \in Urls : Has(u, "indexed") /\ Has(u, "failed")' => u \in overlapped]_vars
  BY FailureStep DEF ApartInv
<1>2. QED
  BY <1>1, ApartAlways, PTL DEF Spec, FailureKeepsIndexed

=============================================================================
