----------------------------- MODULE WorkerLoop -----------------------------
(***************************************************************************)
(* The consumer loop of ingestion/workers/base_worker.py.                  *)
(*                                                                         *)
(* Every worker type is a Kafka consumer group of its own, so each group   *)
(* sees every message of the raw-documents topic.  A worker polls one      *)
(* message, processes it, hands a retry or a dead letter to its producer's *)
(* buffer, and commits the offset; librdkafka delivers the buffer later.   *)
(* ingestion/workers/worker_manager.py restarts a process that died, a     *)
(* limited number of times.  One partition is modelled: the key is the     *)
(* source type, and partitions do not affect each other.                   *)
(*                                                                         *)
(* A definition named ...Mutant is a plausible bug of the definition that  *)
(* follows it; no specification uses it.                                   *)
(***************************************************************************)
EXTENDS Integers, Sequences, FiniteSets

CONSTANTS
    Docs,         \* documents the intake publishes, once each
    Unparseable,  \* those whose message no worker can deserialise
    Groups,       \* consumer groups, one per worker type
    Workers,      \* worker processes
    GroupOf,      \* the group of a worker
    MaxRetries,   \* KAFKA_MAX_RETRIES
    MaxRestarts,  \* MAX_RESTARTS of the manager
    MaxFaults,    \* bound: rebalances, refused commits, undelivered or duplicated records
    None

ASSUME WorkerAssumption ==
    /\ Unparseable \subseteq Docs
    /\ GroupOf \in [Workers -> Groups]
    /\ MaxRetries \in Nat \ {0}
    /\ MaxRestarts \in Nat
    /\ MaxFaults \in Nat
    /\ None \notin Workers \cup Int

VARIABLES
    log,        \* the partition: a message per offset, from offset 0
    committed,  \* committed offset per group
    owner,      \* the worker the coordinator has given the partition, per group
    dlq,        \* dead letters in the ingestion-dlq topic
    up,         \* worker processes that run
    restarts,   \* how often the manager has restarted a worker
    position,   \* the next offset a worker polls; None without an assignment
    current,    \* the offset a worker is handling; None when it polls
    phase,      \* the part of _handle_message() a worker is in
    queue,      \* the producer's buffer of a worker
    stored,     \* documents for which _process() returned, per group
    faults,     \* how many faults have happened
    handled,    \* history: the offsets a group has got an outcome for
    lost        \* history: <<doc, group>> of records that left a buffer undelivered

client == <<up, position, current, phase>>
coordinator == <<committed, owner>>
vars == <<log, committed, owner, dlq, up, restarts, position, current, phase, queue,
          stored, faults, handled, lost>>

Messages == [doc : Docs, retry : Nat]
Records ==
    [topic : {"raw"}, msg : Messages, cause : {"retry"}] \cup
    [topic : {"dlq"}, msg : Messages, cause : {"exhausted", "poison"}]
DeadLetters == [msg : Messages, group : Groups, cause : {"exhausted", "poison"}]

TypeOK ==
    /\ log \in Seq(Messages)
    /\ committed \in [Groups -> Nat]
    /\ owner \in [Groups -> Workers \cup {None}]
    /\ dlq \in SUBSET DeadLetters
    /\ up \in [Workers -> BOOLEAN]
    /\ restarts \in [Workers -> 0..MaxRestarts]
    /\ position \in [Workers -> Nat \cup {None}]
    /\ current \in [Workers -> Nat \cup {None}]
    /\ phase \in [Workers -> {"poll", "process", "commit"}]
    /\ queue \in [Workers -> Seq(Records)]
    /\ stored \in [Groups -> SUBSET Docs]
    /\ faults \in 0..MaxFaults
    /\ handled \in [Groups -> SUBSET Nat]
    /\ lost \in SUBSET (Docs \X Groups)

\* The manager starts every worker; a group reads from the earliest offset.
Init ==
    /\ log = <<>>
    /\ committed = [g \in Groups |-> 0]
    /\ owner = [g \in Groups |-> None]
    /\ dlq = {}
    /\ up = [w \in Workers |-> TRUE]
    /\ restarts = [w \in Workers |-> 0]
    /\ position = [w \in Workers |-> None]
    /\ current = [w \in Workers |-> None]
    /\ phase = [w \in Workers |-> "poll"]
    /\ queue = [w \in Workers |-> <<>>]
    /\ stored = [g \in Groups |-> {}]
    /\ faults = 0
    /\ handled = [g \in Groups |-> {}]
    /\ lost = {}

Fault ==
    /\ faults < MaxFaults
    /\ faults' = faults + 1

Offsets == 0..(Len(log) - 1)
At(o) == log[o + 1]
Published(d) == \E o \in Offsets : At(o).doc = d

-----------------------------------------------------------------------------
(* The intake and the group coordinator. *)

\* KafkaDocumentProducer publishes a document's message.
Publish(d) ==
    /\ ~Published(d)
    /\ log' = Append(log, [doc |-> d, retry |-> 0])
    /\ UNCHANGED <<coordinator, dlq, client, restarts, queue, stored, faults, handled, lost>>

\* Mutant: auto.offset.reset is "latest".
StartMutant(g) == IF committed[g] = 0 THEN Len(log) ELSE committed[g]

\* Mutant: the committed offset is taken for the last one handled.
StartBeforeMutant(g) == committed[g] - 1

Start(g) == committed[g]

\* A worker that polls gets the partition nobody holds.
Assign(w) ==
    /\ up[w]
    /\ phase[w] = "poll"
    /\ owner[GroupOf[w]] = None
    /\ owner' = [owner EXCEPT ![GroupOf[w]] = w]
    /\ position' = [position EXCEPT ![w] = Start(GroupOf[w])]
    /\ UNCHANGED <<log, committed, dlq, up, restarts, current, phase, queue, stored,
                   faults, handled, lost>>

\* The coordinator takes the partition away: a member joins, or the worker is
\* too long in _process() or misses its heartbeats.  The worker does not know yet.
Evict(w) ==
    /\ Fault
    /\ owner[GroupOf[w]] = w
    /\ owner' = [owner EXCEPT ![GroupOf[w]] = None]
    /\ UNCHANGED <<log, committed, dlq, client, restarts, queue, stored, handled, lost>>

\* It learns so when it polls.
Revoke(w) ==
    /\ up[w]
    /\ phase[w] = "poll"
    /\ position[w] # None
    /\ owner[GroupOf[w]] # w
    /\ position' = [position EXCEPT ![w] = None]
    /\ UNCHANGED <<log, coordinator, dlq, up, restarts, current, phase, queue, stored,
                   faults, handled, lost>>

-----------------------------------------------------------------------------
(* run() and _handle_message(). *)

Poll(w) ==
    /\ up[w]
    /\ phase[w] = "poll"
    /\ position[w] # None
    /\ position[w] \in Offsets
    /\ current' = [current EXCEPT ![w] = position[w]]
    /\ position' = [position EXCEPT ![w] = @ + 1]
    /\ phase' = [phase EXCEPT ![w] = "process"]
    /\ UNCHANGED <<log, coordinator, dlq, up, restarts, queue, stored, faults, handled, lost>>

\* The current message has an outcome; its offset is committed next.
Handle(w) ==
    /\ up[w]
    /\ phase[w] = "process"
    /\ phase' = [phase EXCEPT ![w] = "commit"]
    /\ handled' = [handled EXCEPT ![GroupOf[w]] = @ \cup {current[w]}]
    /\ UNCHANGED <<log, coordinator, dlq, up, restarts, position, current, faults, lost>>

Message(w) == At(current[w])

\* _process() returns.
Succeed(w) ==
    /\ Handle(w)
    /\ Message(w).doc \notin Unparseable
    /\ stored' = [stored EXCEPT ![GroupOf[w]] = @ \cup {Message(w).doc}]
    /\ UNCHANGED queue

\* _republish(): the message with an incremented retry count.
Republished(m) ==
    [topic |-> "raw", msg |-> [m EXCEPT !.retry = @ + 1], cause |-> "retry"]

\* _route_to_dlq(): the message as it was consumed.
DeadLetter(m, cause) == [topic |-> "dlq", msg |-> m, cause |-> cause]

\* Mutant: the incremented retry count is incremented again before the test.
AfterRetryableMutant(m) ==
    IF m.retry + 2 >= MaxRetries THEN DeadLetter(m, "exhausted") ELSE Republished(m)

AfterRetryable(m) ==
    IF m.retry + 1 >= MaxRetries THEN DeadLetter(m, "exhausted") ELSE Republished(m)

\* Mutant: the call of produce() is missing.
ProducedMutant(w, r) == queue[w]

\* produce() puts the record into the buffer and returns.
Produced(w, r) == Append(queue[w], r)

\* _process() raises RetryableError.
FailTransiently(w) ==
    /\ Handle(w)
    /\ Message(w).doc \notin Unparseable
    /\ queue' = [queue EXCEPT ![w] = Produced(w, AfterRetryable(Message(w)))]
    /\ UNCHANGED stored

\* The message cannot be deserialised, or _process() raises anything else.
FailForGood(w) ==
    /\ Handle(w)
    /\ queue' = [queue EXCEPT ![w] = Produced(w, DeadLetter(Message(w), "poison"))]
    /\ UNCHANGED stored

\* Mutant: the offset after the message, given to an interface that adds one.
NextOffsetMutant(w) == current[w] + 2

NextOffset(w) == current[w] + 1

\* Mutant: the coordinator takes the commit of a worker it has evicted.
AcceptedMutant(w) == TRUE

\* External: a commit of a worker that lost the partition is refused.
Accepted(w) == owner[GroupOf[w]] = w

\* _commit(): a refused or failed commit is logged and forgotten.
Commit(w) ==
    /\ up[w]
    /\ phase[w] = "commit"
    /\ \/ /\ Accepted(w)
          /\ committed' = [committed EXCEPT ![GroupOf[w]] = NextOffset(w)]
          /\ UNCHANGED faults
       \/ /\ ~Accepted(w)
          /\ UNCHANGED <<committed, faults>>
       \/ /\ Accepted(w)
          /\ Fault
          /\ UNCHANGED committed
    /\ phase' = [phase EXCEPT ![w] = "poll"]
    /\ current' = [current EXCEPT ![w] = None]
    /\ UNCHANGED <<log, owner, dlq, up, restarts, position, queue, stored, handled, lost>>

-----------------------------------------------------------------------------
(* The producer's buffer, which poll(0) does not wait for. *)

\* The record reaches its topic; it may be sent again when the answer is lost.
Deliver(w) ==
    /\ up[w]
    /\ queue[w] # <<>>
    /\ LET r == Head(queue[w]) IN
           IF r.topic = "raw"
           THEN log' = Append(log, r.msg) /\ UNCHANGED dlq
           ELSE /\ dlq' = dlq \cup {[msg |-> r.msg, group |-> GroupOf[w], cause |-> r.cause]}
                /\ UNCHANGED log
    /\ \/ queue' = [queue EXCEPT ![w] = Tail(@)] /\ UNCHANGED faults
       \/ Fault /\ UNCHANGED queue
    /\ UNCHANGED <<coordinator, client, restarts, stored, handled, lost>>

\* produce() raised, or the delivery timed out: nobody looks at the report.
Drop(w) ==
    /\ up[w]
    /\ queue[w] # <<>>
    /\ Fault
    /\ lost' = lost \cup {<<Head(queue[w]).msg.doc, GroupOf[w]>>}
    /\ queue' = [queue EXCEPT ![w] = Tail(@)]
    /\ UNCHANGED <<log, coordinator, dlq, client, restarts, stored, handled>>

-----------------------------------------------------------------------------
(* Processes. *)

Buffered(w) == {queue[w][i] : i \in 1..Len(queue[w])}

\* Whose records a process takes with it.
Forgotten(w) == {<<r.msg.doc, GroupOf[w]>> : r \in Buffered(w)}

\* The process dies, an error event makes run() raise, or it is told to stop:
\* run() closes the consumer and never flushes the producer.
Stop(w) ==
    /\ up[w]
    /\ up' = [up EXCEPT ![w] = FALSE]
    /\ owner' = [owner EXCEPT ![GroupOf[w]] = IF @ = w THEN None ELSE @]
    /\ position' = [position EXCEPT ![w] = None]
    /\ current' = [current EXCEPT ![w] = None]
    /\ phase' = [phase EXCEPT ![w] = "poll"]
    /\ lost' = lost \cup Forgotten(w)
    /\ queue' = [queue EXCEPT ![w] = <<>>]
    /\ UNCHANGED <<log, committed, dlq, restarts, stored, faults, handled>>

\* WorkerManager.run() finds the process dead.
Restart(w) ==
    /\ ~up[w]
    /\ restarts[w] < MaxRestarts
    /\ up' = [up EXCEPT ![w] = TRUE]
    /\ restarts' = [restarts EXCEPT ![w] = @ + 1]
    /\ UNCHANGED <<log, coordinator, dlq, position, current, phase, queue, stored, faults,
                   handled, lost>>

-----------------------------------------------------------------------------
Run(w) ==
    Poll(w) \/ Succeed(w) \/ FailTransiently(w) \/ FailForGood(w) \/ Commit(w)

Next ==
    \/ \E d \in Docs : Publish(d)
    \/ \E w \in Workers :
           \/ Assign(w) \/ Evict(w) \/ Revoke(w) \/ Run(w)
           \/ Deliver(w) \/ Drop(w) \/ Stop(w) \/ Restart(w)

Spec == Init /\ [][Next]_vars

\* A running worker keeps running, librdkafka and the coordinator do their work,
\* and the manager looks at its processes every two seconds.
Fairness ==
    /\ \A w \in Workers : /\ WF_vars(Assign(w))
                          /\ WF_vars(Revoke(w))
                          /\ WF_vars(Run(w))
                          /\ WF_vars(Deliver(w))
                          /\ WF_vars(Restart(w))

FairSpec == Spec /\ Fairness

-----------------------------------------------------------------------------
(* Properties. *)

\* At-least-once: the loop commits no offset, and skips none, that its group
\* has not got an outcome for, through evictions, refused commits and crashes.
CommittedIsHandled ==
    \A g \in Groups : 0..(committed[g] - 1) \subseteq handled[g]

\* A group's work on a document has ended.
Settled(d, g) ==
    \/ d \in stored[g]
    \/ \E l \in dlq : l.msg.doc = d /\ l.group = g

\* A group still has something of a document to do, or to deliver.
InProgress(d, g) ==
    \/ \E o \in Offsets : At(o).doc = d /\ o >= committed[g]
    \/ \E w \in Workers : /\ GroupOf[w] = g
                          /\ \E r \in Buffered(w) : r.msg.doc = d

\* The only way to lose a document is a record that left a producer's buffer
\* undelivered: no crash, eviction or failed commit loses one by itself.
LossIsUndelivered ==
    \A d \in Docs : \A g \in Groups : Published(d) =>
        Settled(d, g) \/ InProgress(d, g) \/ <<d, g>> \in lost

\* A dead letter for exhausted retries was preceded by every retry the
\* configuration allows, whatever was delivered twice or handled twice.
GivenUpAfterRetries ==
    \A l \in dlq : l.cause = "exhausted" =>
        \A k \in 0..(MaxRetries - 1) : [l.msg EXCEPT !.retry = k] \in {At(o) : o \in Offsets}

\* A committed offset never moves back: what one worker of a group has finished
\* is not handed out again because another one is late.
CommitsMoveForward == [][\A g \in Groups : committed'[g] >= committed[g]]_vars

Dead(g) == \A w \in Workers : GroupOf[w] = g => ~up[w] /\ restarts[w] = MaxRestarts

\* Every published document comes to an end in every group, unless one of its
\* records is lost or the manager has given up the last worker of the group.
EventuallySettled ==
    \A d \in Docs : \A g \in Groups :
        Published(d) ~> (Settled(d, g) \/ <<d, g>> \in lost \/ Dead(g))

-----------------------------------------------------------------------------
(* What the documentation says, and the loop does not keep. *)

\* base_worker.py: "at-least-once delivery - never lose a document on crash".
NeverLost ==
    \A d \in Docs : \A g \in Groups : Published(d) => Settled(d, g) \/ InProgress(d, g)

\* RetryableError: "Worker will retry up to KAFKA_MAX_RETRIES times".
RetriesAreLimited ==
    \A d \in Docs : \A g \in Groups :
        Cardinality({o \in handled[g] : At(o).doc = d}) <= 1 + MaxRetries
=============================================================================
