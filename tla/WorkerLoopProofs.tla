-------------------------- MODULE WorkerLoopProofs --------------------------
(***************************************************************************)
(* Proofs about WorkerLoop, for every number of groups, workers, documents,*)
(* retries, restarts and faults.                                           *)
(***************************************************************************)
EXTENDS WorkerLoop, SequenceTheorems, TLAPS

-----------------------------------------------------------------------------
(* Types. *)

\* The records a worker produces are well formed.
LEMMA RecordTypes ==
    ASSUME NEW m \in Messages
    PROVE  /\ DeadLetter(m, "poison") \in Records
           /\ AfterRetryable(m) \in Records
           /\ AfterRetryable(m).msg.doc = m.doc
  BY WorkerAssumption DEF Messages, Records, DeadLetter, AfterRetryable, Republished

\* The records of a buffer are its first one and those behind it.
LEMMA BufferTypes ==
    ASSUME NEW q \in Seq(Records), q # <<>>
    PROVE  /\ Head(q) \in Records
           /\ Tail(q) \in Seq(Records)
           /\ {q[i] : i \in 1..Len(q)} = {Head(q)} \cup {Tail(q)[i] : i \in 1..Len(Tail(q))}
<1>1. /\ Head(q) \in Records
      /\ Tail(q) \in Seq(Records)
      /\ Len(Tail(q)) = Len(q) - 1
      /\ \A i \in 1..Len(Tail(q)) : Tail(q)[i] = q[i + 1]
  BY HeadTailProperties
<1>2. Len(q) \in Nat \ {0} /\ Head(q) = q[1]
  BY EmptySeq
<1>3. {q[i] : i \in 1..Len(q)} \subseteq {Head(q)} \cup {Tail(q)[i] : i \in 1..Len(Tail(q))}
  <2> SUFFICES ASSUME NEW i \in 1..Len(q), q[i] # Head(q)
               PROVE  \E j \in 1..Len(Tail(q)) : q[i] = Tail(q)[j]
    OBVIOUS
  <2>1. i - 1 \in 1..Len(Tail(q)) /\ q[i] = Tail(q)[i - 1]
    BY <1>1, <1>2
  <2>2. QED
    BY <2>1
<1>4. {Head(q)} \cup {Tail(q)[i] : i \in 1..Len(Tail(q))} \subseteq {q[i] : i \in 1..Len(q)}
  <2>1. \A j \in 1..Len(Tail(q)) : j + 1 \in 1..Len(q) /\ q[j + 1] = Tail(q)[j]
    BY <1>1, <1>2
  <2>2. QED
    BY <1>2, <2>1
<1>5. QED
  BY <1>1, <1>3, <1>4

\* Type correctness is inductive on its own, but for the offset of a busy worker.
Busy == \A w \in Workers : phase[w] # "poll" =>
            /\ current[w] \in Offsets
            /\ position[w] # None
            /\ position[w] = current[w] + 1

\* The initial state is well typed.
LEMMA TypeInit == Init => TypeOK /\ Busy
  BY WorkerAssumption DEF Init, TypeOK, Busy

\* Every step keeps the state well typed.
LEMMA TypeStep == TypeOK /\ Busy /\ [Next]_vars => TypeOK'
<1> SUFFICES ASSUME TypeOK, Busy, [Next]_vars PROVE TypeOK'
  OBVIOUS
<1> USE WorkerAssumption DEF TypeOK, client, coordinator, Fault
<1>1. ASSUME NEW d \in Docs, Publish(d) PROVE TypeOK'
  BY <1>1 DEF Publish, Messages
<1>2. ASSUME NEW w \in Workers, Assign(w) PROVE TypeOK'
  BY <1>2 DEF Assign, Start
<1>3. ASSUME NEW w \in Workers, Evict(w) PROVE TypeOK'
  BY <1>3 DEF Evict
<1>4. ASSUME NEW w \in Workers, Revoke(w) PROVE TypeOK'
  BY <1>4 DEF Revoke
<1>5. ASSUME NEW w \in Workers, Poll(w) PROVE TypeOK'
  BY <1>5 DEF Poll, Offsets
<1>6. ASSUME NEW w \in Workers, Handle(w)
      PROVE  /\ handled' \in [Groups -> SUBSET Nat]
             /\ phase' \in [Workers -> {"poll", "process", "commit"}]
             /\ Message(w) \in Messages
             /\ UNCHANGED <<log, committed, owner, dlq, up, restarts, position, current,
                            faults, lost>>
  BY <1>6 DEF Handle, Busy, Offsets, Message, At
<1>7. ASSUME NEW w \in Workers, Succeed(w) PROVE TypeOK'
  <2>1. Handle(w) /\ Message(w) \in Messages
    BY <1>6, <1>7 DEF Succeed
  <2>2. Message(w).doc \in Docs
    BY <2>1 DEF Messages
  <2>3. QED
    BY <1>6, <1>7, <2>1, <2>2 DEF Succeed
<1>8. ASSUME NEW w \in Workers, FailTransiently(w) \/ FailForGood(w) PROVE TypeOK'
  <2>1. Handle(w) /\ Message(w) \in Messages
    BY <1>6, <1>8 DEF FailTransiently, FailForGood
  <2> DEFINE Out(r) == queue' = [queue EXCEPT ![w] = Append(queue[w], r)]
  <2>2. stored' = stored /\ \E r \in Records : Out(r)
    BY <1>8, <2>1, RecordTypes DEF FailTransiently, FailForGood, Produced
  <2>3. PICK r \in Records : Out(r)
    BY <2>2
  <2>4. Append(queue[w], r) \in Seq(Records)
    BY AppendProperties
  <2>5. QED
    BY <1>6, <2>1, <2>2, <2>3, <2>4
<1>9. ASSUME NEW w \in Workers, Commit(w) PROVE TypeOK'
  <2>1. NextOffset(w) \in Nat
    BY <1>9 DEF Commit, NextOffset, Busy, Offsets
  <2>2. committed' \in [Groups -> Nat]
    BY <1>9, <2>1 DEF Commit
  <2>3. faults' \in 0..MaxFaults
    BY <1>9 DEF Commit
  <2>4. QED
    BY <1>9, <2>2, <2>3 DEF Commit
<1>10. ASSUME NEW w \in Workers, Deliver(w) PROVE TypeOK'
  <2> DEFINE r == Head(queue[w])
  <2>1. r \in Records /\ Tail(queue[w]) \in Seq(Records)
    BY <1>10, BufferTypes DEF Deliver
  <2>2. r.msg \in Messages /\ (r.topic # "raw" => r.cause \in {"exhausted", "poison"})
    BY <2>1 DEF Records
  <2>3. queue' \in [Workers -> Seq(Records)]
    BY <1>10, <2>1 DEF Deliver
  <2>8. faults' \in 0..MaxFaults
    BY <1>10 DEF Deliver
  <2>4. Append(log, r.msg) \in Seq(Messages)
    BY <2>2, AppendProperties
  <2>5. log' \in Seq(Messages)
    BY <1>10, <2>4 DEF Deliver
  <2>6. dlq' \in SUBSET DeadLetters
    BY <1>10, <2>2 DEF Deliver, DeadLetters
  <2>7. QED
    BY <1>10, <2>3, <2>5, <2>6, <2>8 DEF Deliver
<1>11. ASSUME NEW w \in Workers, Drop(w) PROVE TypeOK'
  <2>1. Head(queue[w]) \in Records /\ Tail(queue[w]) \in Seq(Records)
    BY <1>11, BufferTypes DEF Drop
  <2>2. Head(queue[w]).msg.doc \in Docs
    BY <2>1 DEF Records, Messages
  <2>3. QED
    BY <1>11, <2>1, <2>2, SMTT(30) DEF Drop
<1>12. ASSUME NEW w \in Workers, Stop(w) PROVE TypeOK'
  <2>1. \A r \in Buffered(w) : r \in Records
    BY ElementOfSeq DEF Buffered
  <2>2. \A r \in Records : r.msg.doc \in Docs
    BY DEF Records, Messages
  <2>3. QED
    BY <1>12, <2>1, <2>2 DEF Stop, Forgotten
<1>13. ASSUME NEW w \in Workers, Restart(w) PROVE TypeOK'
  BY <1>13 DEF Restart
<1>14. CASE UNCHANGED vars
  BY <1>14 DEF vars
<1>15. QED
  BY <1>1, <1>2, <1>3, <1>4, <1>5, <1>7, <1>8, <1>9, <1>10, <1>11, <1>12, <1>13, <1>14
  DEF Next, Run

-----------------------------------------------------------------------------
(* The inductive invariant. *)

\* Only offsets of the log have an outcome.
HandledInLog == \A g \in Groups : \A o \in handled[g] : o \in Offsets

\* Every offset a worker has been given since its assignment, but for the one it
\* is processing, has an outcome; so has every offset before the assignment.
PolledIsHandled ==
    \A w \in Workers : position[w] # None =>
        /\ position[w] <= Len(log)
        /\ \A o \in 0..(position[w] - 1) :
               o \in handled[GroupOf[w]] \/ (phase[w] = "process" /\ o = current[w])

\* The owner of the partition has got at least to the committed offset.
OwnerAhead ==
    \A w \in Workers : \A g \in Groups : owner[g] = w =>
        /\ GroupOf[w] = g
        /\ position[w] # None
        /\ committed[g] <= position[w]

LoopInv == Busy /\ HandledInLog /\ PolledIsHandled /\ OwnerAhead /\ CommittedIsHandled

\* A message appended leaves the offsets before it as they are.
LEMMA LogAppend ==
    ASSUME TypeOK, NEW m \in Messages, log' = Append(log, m)
    PROVE  /\ Len(log)' = Len(log) + 1
           /\ \E o \in Offsets' : o = Len(log) /\ At(o)' = m
           /\ \A o \in Offsets : o \in Offsets' /\ At(o)' = At(o)
<1>1. /\ Len(log') = Len(log) + 1
      /\ \A i \in 1..Len(log) : log'[i] = log[i]
      /\ log'[Len(log) + 1] = m
      /\ Len(log) \in Nat
  BY AppendProperties DEF TypeOK
<1>2. \E o \in Offsets' : o = Len(log) /\ At(o)' = m
  <2>1. Len(log) \in Offsets' /\ log'[Len(log) + 1] = m
    BY <1>1 DEF Offsets
  <2>2. QED
    BY <2>1 DEF At
<1>3. ASSUME NEW o \in Offsets PROVE o \in Offsets' /\ At(o)' = At(o)
  <2>1. o \in Offsets' /\ o + 1 \in 1..Len(log)
    BY <1>1, <1>3 DEF Offsets
  <2>2. QED
    BY <1>1, <2>1 DEF At
<1>4. QED
  BY <1>1, <1>2, <1>3

\* Every step keeps the log or appends a message to it.
LEMMA LogStep ==
    ASSUME TypeOK, [Next]_vars
    PROVE  log' = log \/ \E m \in Messages : log' = Append(log, m)
<1>1. ASSUME NEW d \in Docs, Publish(d) PROVE \E m \in Messages : log' = Append(log, m)
  BY <1>1 DEF Publish, Messages
<1>2. ASSUME NEW w \in Workers, Deliver(w)
      PROVE  log' = log \/ \E m \in Messages : log' = Append(log, m)
  <2>1. Head(queue[w]) \in Records
    BY <1>2, BufferTypes DEF Deliver, TypeOK
  <2>2. QED
    BY <1>2, <2>1 DEF Deliver, Records
<1>3. ASSUME NEW w \in Workers,
             Assign(w) \/ Evict(w) \/ Revoke(w) \/ Run(w) \/ Drop(w) \/ Stop(w) \/ Restart(w)
      PROVE  log' = log
  BY <1>3 DEF Assign, Evict, Revoke, Run, Poll, Succeed, FailTransiently, FailForGood, Handle,
     Commit, Drop, Stop, Restart
<1>4. QED
  BY <1>1, <1>2, <1>3 DEF Next, vars

\* No step takes an offset out of the log or changes its message.
LEMMA LogGrows ==
    ASSUME TypeOK, [Next]_vars
    PROVE  /\ Len(log) <= Len(log)'
           /\ Len(log) \in Nat /\ Len(log)' \in Nat
           /\ \A o \in Offsets : o \in Offsets' /\ At(o)' = At(o)
<1>1. CASE log' = log
  BY <1>1 DEF Offsets, At, TypeOK
<1>2. CASE \E m \in Messages : log' = Append(log, m)
  BY <1>2, LogAppend DEF TypeOK
<1>3. QED
  BY <1>1, <1>2, LogStep

\* The invariant holds initially.
LEMMA LoopInit == Init => LoopInv
  BY TypeInit, WorkerAssumption
  DEF Init, LoopInv, HandledInLog, PolledIsHandled, OwnerAhead, CommittedIsHandled

\* A step that leaves the loop's own state alone preserves the invariant.
LEMMA LoopFrame ==
    ASSUME TypeOK, LoopInv, [Next]_vars, UNCHANGED <<committed, owner, position, current, phase, handled>>
    PROVE  LoopInv'
<1> USE LogGrows DEF TypeOK, LoopInv
<1>1. Busy'
  BY DEF Busy
<1>2. HandledInLog'
  BY DEF HandledInLog
<1>3. PolledIsHandled'
  <2> SUFFICES ASSUME NEW w \in Workers, position[w] # None
               PROVE  /\ position[w] <= Len(log)'
                      /\ \A o \in 0..(position[w] - 1) :
                             o \in handled[GroupOf[w]] \/ (phase[w] = "process" /\ o = current[w])
    BY DEF PolledIsHandled
  <2>1. position[w] \in Nat
    OBVIOUS
  <2>2. QED
    BY <2>1 DEF PolledIsHandled
<1>4. OwnerAhead' /\ CommittedIsHandled'
  BY DEF OwnerAhead, CommittedIsHandled
<1>5. QED
  BY <1>1, <1>2, <1>3, <1>4

\* No group commits past the end of the log.
LEMMA CommittedInLog ==
    ASSUME TypeOK, HandledInLog, CommittedIsHandled, NEW g \in Groups
    PROVE  committed[g] <= Len(log)
<1>1. committed[g] \in Nat /\ Len(log) \in Nat
  BY DEF TypeOK
<1>2. CASE committed[g] # 0
  <2>1. committed[g] - 1 \in 0..(committed[g] - 1)
    BY <1>1, <1>2
  <2>2. committed[g] - 1 \in Offsets
    BY <2>1 DEF CommittedIsHandled, HandledInLog
  <2>3. QED
    BY <1>1, <2>2 DEF Offsets
<1>3. QED
  BY <1>1, <1>2

\* ... so does every step of the system.
LEMMA LoopStep == TypeOK /\ LoopInv /\ [Next]_vars => LoopInv'
<1> SUFFICES ASSUME TypeOK, LoopInv, [Next]_vars PROVE LoopInv'
  OBVIOUS
<1> USE WorkerAssumption DEF TypeOK, LoopInv, client, coordinator
<1>1. ASSUME NEW w \in Workers, Assign(w) PROVE LoopInv'
  <2> DEFINE g == GroupOf[w]
  <2>1. committed[g] <= Len(log)
    BY CommittedInLog
  <2>2. /\ UNCHANGED <<log, committed, current, phase, handled>>
        /\ phase[w] = "poll"
        /\ owner' = [owner EXCEPT ![g] = w]
        /\ position' = [position EXCEPT ![w] = committed[g]]
    BY <1>1 DEF Assign, Start
  <2>3. Busy' /\ HandledInLog' /\ CommittedIsHandled'
    BY <2>2 DEF Busy, HandledInLog, CommittedIsHandled, Offsets
  <2>4. PolledIsHandled'
    BY <2>1, <2>2 DEF PolledIsHandled, CommittedIsHandled
  <2>5. OwnerAhead'
    BY <2>2, <1>1 DEF OwnerAhead, Assign
  <2>6. QED
    BY <2>3, <2>4, <2>5
<1>2. ASSUME NEW w \in Workers, Evict(w) PROVE LoopInv'
  <2>1. /\ UNCHANGED <<log, committed, position, current, phase, handled>>
        /\ \A g \in Groups : owner'[g] # None => owner'[g] = owner[g]
    BY <1>2 DEF Evict
  <2>2. Busy' /\ HandledInLog' /\ CommittedIsHandled' /\ PolledIsHandled'
    BY <2>1 DEF Busy, HandledInLog, CommittedIsHandled, PolledIsHandled, Offsets
  <2>3. OwnerAhead'
    BY <2>1 DEF OwnerAhead
  <2>4. QED
    BY <2>2, <2>3
<1>3. ASSUME NEW w \in Workers, Revoke(w) PROVE LoopInv'
  <2>1. /\ UNCHANGED <<log, committed, owner, current, phase, handled>>
        /\ phase[w] = "poll" /\ owner[GroupOf[w]] # w
        /\ position' = [position EXCEPT ![w] = None]
    BY <1>3 DEF Revoke
  <2>2. Busy' /\ HandledInLog' /\ CommittedIsHandled' /\ PolledIsHandled'
    BY <2>1 DEF Busy, HandledInLog, CommittedIsHandled, PolledIsHandled, Offsets
  <2>3. OwnerAhead'
    BY <2>1 DEF OwnerAhead
  <2>4. QED
    BY <2>2, <2>3
<1>4. ASSUME NEW w \in Workers, Poll(w) PROVE LoopInv'
  <2>1. /\ UNCHANGED <<log, committed, owner, handled>>
        /\ phase[w] = "poll" /\ position[w] # None /\ position[w] \in Offsets
        /\ position[w] \in Nat
        /\ current' = [current EXCEPT ![w] = position[w]]
        /\ position' = [position EXCEPT ![w] = position[w] + 1]
        /\ phase' = [phase EXCEPT ![w] = "process"]
    BY <1>4 DEF Poll
  <2>2. Busy' /\ HandledInLog' /\ CommittedIsHandled'
    BY <2>1 DEF Busy, HandledInLog, CommittedIsHandled, Offsets
  <2>3. PolledIsHandled'
    <3> SUFFICES ASSUME NEW v \in Workers, position'[v] # None
                 PROVE  /\ position'[v] <= Len(log)
                        /\ \A o \in 0..(position'[v] - 1) :
                               \/ o \in handled[GroupOf[v]]
                               \/ phase'[v] = "process" /\ o = current'[v]
      BY <2>1 DEF PolledIsHandled
    <3>1. CASE v = w
      <4>1. /\ position'[v] = position[v] + 1 /\ position[v] \in Nat
            /\ position[v] < Len(log) /\ Len(log) \in Nat
            /\ phase'[v] = "process" /\ current'[v] = position[v]
        BY <3>1, <2>1 DEF Offsets
      <4>2. \A o \in 0..(position[v] - 1) : o \in handled[GroupOf[v]]
        BY <3>1, <2>1 DEF PolledIsHandled
      <4>3. QED
        BY <4>1, <4>2
    <3>2. CASE v # w
      BY <3>2, <2>1 DEF PolledIsHandled
    <3>3. QED
      BY <3>1, <3>2
  <2>4. OwnerAhead'
    BY <2>1 DEF OwnerAhead
  <2>5. QED
    BY <2>2, <2>3, <2>4
<1>5. ASSUME NEW w \in Workers, Handle(w) PROVE LoopInv'
  <2>1. /\ UNCHANGED <<log, committed, owner, position, current>>
        /\ phase[w] = "process"
        /\ phase' = [phase EXCEPT ![w] = "commit"]
        /\ handled' = [handled EXCEPT ![GroupOf[w]] = handled[GroupOf[w]] \cup {current[w]}]
    BY <1>5 DEF Handle
  <2>2. \A g \in Groups : handled[g] \subseteq handled'[g]
    BY <2>1
  <2>3. Busy' /\ OwnerAhead'
    BY <2>1 DEF Busy, OwnerAhead, Offsets
  <2>4. CommittedIsHandled'
    BY <2>1, <2>2 DEF CommittedIsHandled
  <2>7. HandledInLog'
    <3>1. current[w] \in Offsets
      BY <2>1 DEF Busy
    <3>2. \A g \in Groups : \A o \in handled'[g] : o \in handled[g] \/ o = current[w]
      BY <2>1
    <3>3. QED
      BY <2>1, <3>1, <3>2 DEF HandledInLog, Offsets
  <2>5. PolledIsHandled'
    BY <2>1, <2>2 DEF PolledIsHandled
  <2>6. QED
    BY <2>3, <2>4, <2>5, <2>7
<1>6. ASSUME NEW w \in Workers, Commit(w) PROVE LoopInv'
  <2>1. /\ UNCHANGED <<log, owner, position, handled>>
        /\ phase[w] = "commit"
        /\ phase' = [phase EXCEPT ![w] = "poll"]
        /\ current' = [current EXCEPT ![w] = None]
    BY <1>6 DEF Commit
  <2>2. \/ committed' = committed
        \/ /\ owner[GroupOf[w]] = w
           /\ committed' = [committed EXCEPT ![GroupOf[w]] = position[w]]
    BY <1>6 DEF Commit, Accepted, NextOffset, Busy
  <2>3. \A o \in 0..(position[w] - 1) : o \in handled[GroupOf[w]]
    BY <2>1 DEF Busy, PolledIsHandled
  <2>4. Busy' /\ HandledInLog'
    BY <2>1 DEF Busy, HandledInLog, Offsets
  <2>5. CommittedIsHandled'
    BY <2>1, <2>2, <2>3 DEF CommittedIsHandled
  <2>6. PolledIsHandled'
    BY <2>1 DEF PolledIsHandled
  <2>7. OwnerAhead'
    <3>1. position[w] \in Nat
      BY <2>1 DEF Busy
    <3>2. ASSUME NEW v \in Workers, NEW g \in Groups, owner[g] = v
          PROVE  committed'[g] <= position[v]
      <4>1. GroupOf[v] = g /\ committed[g] <= position[v]
        BY <3>2 DEF OwnerAhead
      <4>2. CASE committed'[g] = committed[g]
        BY <4>1, <4>2
      <4>3. CASE committed'[g] # committed[g]
        <5>1. g = GroupOf[w] /\ v = w /\ committed'[g] = position[w]
          BY <4>3, <3>2, <2>2
        <5>2. QED
          BY <5>1, <3>1
      <4>4. QED
        BY <4>2, <4>3
    <3>3. QED
      BY <2>1, <3>2 DEF OwnerAhead
  <2>8. QED
    BY <2>4, <2>5, <2>6, <2>7
<1>7. ASSUME NEW w \in Workers, Stop(w) PROVE LoopInv'
  <2>1. /\ UNCHANGED <<log, committed, handled>>
        /\ owner' = [owner EXCEPT ![GroupOf[w]] = IF owner[GroupOf[w]] = w THEN None
                                                 ELSE owner[GroupOf[w]]]
        /\ phase' = [phase EXCEPT ![w] = "poll"]
        /\ current' = [current EXCEPT ![w] = None]
        /\ position' = [position EXCEPT ![w] = None]
    BY <1>7 DEF Stop
  <2>2. Busy' /\ HandledInLog' /\ CommittedIsHandled' /\ PolledIsHandled'
    BY <2>1 DEF Busy, HandledInLog, CommittedIsHandled, PolledIsHandled, Offsets
  <2>3. OwnerAhead'
    <3>1. \A g \in Groups : owner'[g] # None => owner'[g] = owner[g]
      BY <2>1
    <3>2. \A g \in Groups : owner'[g] # w
      BY <2>1 DEF OwnerAhead
    <3>3. QED
      BY <2>1, <3>1, <3>2 DEF OwnerAhead
  <2>4. QED
    BY <2>2, <2>3
<1>8. ASSUME NEW d \in Docs, Publish(d) PROVE LoopInv'
  BY <1>8, LoopFrame DEF Publish
<1>9. ASSUME NEW w \in Workers, Deliver(w) \/ Drop(w) \/ Restart(w) PROVE LoopInv'
  BY <1>9, LoopFrame DEF Deliver, Drop, Restart
<1>10. CASE UNCHANGED vars
  BY <1>10, LoopFrame DEF vars
<1>11. QED
  BY <1>1, <1>2, <1>3, <1>4, <1>5, <1>6, <1>7, <1>8, <1>9, <1>10
  DEF Next, Run, Succeed, FailTransiently, FailForGood

\* ... so it holds of every reachable state.
LEMMA LoopAlways == Spec => [](TypeOK /\ LoopInv)
<1>1. Init => TypeOK /\ LoopInv
  BY TypeInit, LoopInit
<1>2. TypeOK /\ LoopInv /\ [Next]_vars => (TypeOK /\ LoopInv)'
  BY TypeStep, LoopStep DEF LoopInv
<1>3. QED
  BY <1>1, <1>2, PTL DEF Spec

\* Type correctness of the loop, the buffers and the broker's state.
THEOREM TypeCorrect == Spec => []TypeOK
  BY LoopAlways, PTL

\* At-least-once: base_worker.py commits no offset, and skips none, that its
\* group has not got an outcome for, however workers are evicted and stopped.
THEOREM AtLeastOnce == Spec => []CommittedIsHandled
<1>1. LoopInv => CommittedIsHandled
  BY DEF LoopInv
<1>2. QED
  BY <1>1, LoopAlways, PTL

\* No commit takes a group back, not even the late one of an evicted worker.
THEOREM CommitsNeverGoBack == Spec => CommitsMoveForward
<1>1. ASSUME TypeOK, LoopInv, [Next]_vars
      PROVE  \A g \in Groups : committed'[g] >= committed[g]
  <2> USE <1>1 DEF TypeOK, LoopInv, client, coordinator
  <2>1. ASSUME NEW w \in Workers, Commit(w)
        PROVE  \A g \in Groups : committed'[g] >= committed[g]
    <3>1. \/ committed' = committed
          \/ /\ owner[GroupOf[w]] = w
             /\ committed' = [committed EXCEPT ![GroupOf[w]] = position[w]]
      BY <2>1 DEF Commit, Accepted, NextOffset, Busy
    <3>2. position[w] \in Nat
      BY <2>1 DEF Commit, Busy
    <3>3. SUFFICES ASSUME NEW g \in Groups PROVE committed'[g] >= committed[g]
      OBVIOUS
    <3>4. CASE committed'[g] = committed[g]
      BY <3>4
    <3>5. CASE committed'[g] # committed[g]
      <4>1. owner[g] = w /\ committed'[g] = position[w]
        BY <3>1, <3>5
      <4>2. QED
        BY <4>1, <3>2 DEF OwnerAhead
    <3>6. QED
      BY <3>4, <3>5
  <2>2. CASE committed' = committed
    BY <2>2
  <2>3. QED
    BY <2>1, <2>2 DEF Next, Run, Publish, Assign, Evict, Revoke, Poll, Succeed,
       FailTransiently, FailForGood, Handle, Deliver, Drop, Stop, Restart, vars
<1>2. QED
  BY <1>1, LoopAlways, PTL DEF Spec, CommitsMoveForward

-----------------------------------------------------------------------------
(* No document is lost but by an undelivered record. *)

\* A record of the document waits in a producer's buffer of the group.
Waiting(d, g) ==
    \E w \in Workers : GroupOf[w] = g /\ \E r \in Buffered(w) : r.msg.doc = d

\* A message of the document has no outcome in the group yet.
Unhandled(d, g) == \E o \in Offsets : At(o).doc = d /\ o \notin handled[g]

\* Where a published document is, for each group.
Found(d, g) == Settled(d, g) \/ Waiting(d, g) \/ <<d, g>> \in lost \/ Unhandled(d, g)

Tracked == \A d \in Docs : \A g \in Groups : Published(d) => Found(d, g)

\* What a buffer holds after produce().
LEMMA BufferAppend ==
    ASSUME NEW q \in Seq(Records), NEW r \in Records
    PROVE  {Append(q, r)[i] : i \in 1..Len(Append(q, r))} = {q[i] : i \in 1..Len(q)} \cup {r}
<1>1. /\ Len(Append(q, r)) = Len(q) + 1
      /\ \A i \in 1..Len(q) : Append(q, r)[i] = q[i]
      /\ Append(q, r)[Len(q) + 1] = r
      /\ Len(q) \in Nat
  BY AppendProperties
<1>2. {Append(q, r)[i] : i \in 1..Len(Append(q, r))} \subseteq {q[i] : i \in 1..Len(q)} \cup {r}
  BY <1>1
<1>3. {q[i] : i \in 1..Len(q)} \cup {r} \subseteq {Append(q, r)[i] : i \in 1..Len(Append(q, r))}
  <2>1. \A i \in 1..Len(q) : i \in 1..Len(Append(q, r))
    BY <1>1
  <2>2. Len(q) + 1 \in 1..Len(Append(q, r))
    BY <1>1
  <2>3. QED
    BY <1>1, <2>1, <2>2
<1>4. QED
  BY <1>2, <1>3

\* The outcome of the current message, and nothing else, enters the buffer.
LEMMA HandleStep ==
    ASSUME TypeOK, LoopInv, NEW w \in Workers, Succeed(w) \/ FailTransiently(w) \/ FailForGood(w)
    PROVE  /\ UNCHANGED <<log, dlq, lost>>
           /\ current[w] \in Offsets
           /\ handled' = [handled EXCEPT ![GroupOf[w]] = handled[GroupOf[w]] \cup {current[w]}]
           /\ \A v \in Workers : v # w => Buffered(v)' = Buffered(v)
           /\ \/ /\ Buffered(w)' = Buffered(w)
                 /\ stored' = [stored EXCEPT ![GroupOf[w]] =
                                  stored[GroupOf[w]] \cup {At(current[w]).doc}]
              \/ /\ stored' = stored
                 /\ \E r \in {DeadLetter(At(current[w]), "poison"), AfterRetryable(At(current[w]))} :
                        Buffered(w)' = Buffered(w) \cup {r}
<1> USE DEF TypeOK
<1>1. /\ UNCHANGED <<log, dlq, lost>>
      /\ current[w] \in Offsets
      /\ handled' = [handled EXCEPT ![GroupOf[w]] = handled[GroupOf[w]] \cup {current[w]}]
  BY DEF Succeed, FailTransiently, FailForGood, Handle, LoopInv, Busy
<1>2. CASE Succeed(w)
  BY <1>1, <1>2 DEF Succeed, Message, Buffered
<1>3. CASE FailTransiently(w) \/ FailForGood(w)
  <2> DEFINE m == At(current[w])
  <2>1. m \in Messages
    BY <1>1 DEF At, Offsets
  <2>2. PICK r \in {DeadLetter(m, "poison"), AfterRetryable(m)} :
            queue' = [queue EXCEPT ![w] = Append(queue[w], r)]
    BY <1>3 DEF FailTransiently, FailForGood, Produced, Message
  <2>3. r \in Records
    BY <2>1, <2>2, RecordTypes
  <2>4. queue'[w] = Append(queue[w], r) /\ queue[w] \in Seq(Records)
    BY <2>2
  <2> DEFINE q == queue[w]
  <2>9. {Append(q, r)[i] : i \in 1..Len(Append(q, r))} = {q[i] : i \in 1..Len(q)} \cup {r}
    BY <2>3, <2>4, BufferAppend
  <2>5. Buffered(w)' = Buffered(w) \cup {r}
    BY ONLY <2>4, <2>9 DEF Buffered
  <2>6. \A v \in Workers : v # w => Buffered(v)' = Buffered(v)
    BY <2>2 DEF Buffered
  <2>7. stored' = stored
    BY <1>3 DEF FailTransiently, FailForGood
  <2>8. QED
    BY <1>1, <2>2, <2>5, <2>6, <2>7
<1>4. QED
  BY <1>2, <1>3

\* A step that takes the head out of a buffer, or leaves it there.
LEMMA HeadStep ==
    ASSUME TypeOK, NEW w \in Workers, queue[w] # <<>>,
           queue' \in {queue, [queue EXCEPT ![w] = Tail(queue[w])]}
    PROVE  /\ Head(queue[w]) \in Records
           /\ \A v \in Workers : Buffered(v)' \subseteq Buffered(v)
           /\ \A v \in Workers : \A r \in Buffered(v) :
                  r \in Buffered(v)' \/ (v = w /\ r = Head(queue[w]))
<1> USE DEF TypeOK
<1>1. /\ Head(queue[w]) \in Records
      /\ Buffered(w) = {Head(queue[w])} \cup {Tail(queue[w])[i] : i \in 1..Len(Tail(queue[w]))}
  BY BufferTypes DEF Buffered
<1>2. CASE queue' = queue
  BY <1>1, <1>2 DEF Buffered
<1>3. CASE queue' = [queue EXCEPT ![w] = Tail(queue[w])]
  <2>1. Buffered(w)' = {Tail(queue[w])[i] : i \in 1..Len(Tail(queue[w]))}
    BY <1>3 DEF Buffered
  <2>2. \A v \in Workers : v # w => Buffered(v)' = Buffered(v)
    BY <1>3 DEF Buffered
  <2>3. QED
    BY <1>1, <2>1, <2>2
<1>4. QED
  BY <1>2, <1>3

\* Every step keeps track of every published document.
LEMMA TrackedStep == TypeOK /\ LoopInv /\ Tracked /\ [Next]_vars => Tracked'
<1> SUFFICES ASSUME TypeOK, LoopInv, Tracked, [Next]_vars, NEW d \in Docs, NEW g \in Groups,
                    Published(d)'
             PROVE  Found(d, g)'
  BY DEF Tracked
<1> USE DEF client, coordinator
<1>1. ASSUME UNCHANGED <<log, dlq, queue, stored, handled, lost>> PROVE Found(d, g)'
  <2>1. Found(d, g)
    BY <1>1 DEF Tracked, Published, Offsets, At
  <2>2. Settled(d, g) => Settled(d, g)'
    BY <1>1 DEF Settled
  <2>3. Waiting(d, g) => Waiting(d, g)'
    BY <1>1 DEF Waiting, Buffered
  <2>4. Unhandled(d, g) => Unhandled(d, g)'
    BY <1>1 DEF Unhandled, Offsets, At
  <2>5. QED
    BY <1>1, <2>1, <2>2, <2>3, <2>4 DEF Found
<1>2. ASSUME Published(d), Unhandled(d, g), handled' = handled PROVE Unhandled(d, g)'
  BY <1>2, LogGrows DEF Unhandled
<1>3. ASSUME NEW e \in Docs, Publish(e) PROVE Found(d, g)'
  <2>1. UNCHANGED <<dlq, queue, stored, handled, lost>>
    BY <1>3 DEF Publish
  <2>2. CASE Published(d)
    BY <1>2, <2>1, <2>2 DEF Tracked, Found, Settled, Waiting, Buffered
  <2>3. CASE ~Published(d)
    <3>1. [doc |-> e, retry |-> 0] \in Messages
      BY DEF Messages
    <3>2. \A o \in Offsets : o \in Offsets' /\ At(o)' = At(o)
      BY LogGrows
    <3>3. PICK o \in Offsets' : At(o)'.doc = d
      BY DEF Published
    <3>4. o \notin Offsets
      BY <2>3, <3>2, <3>3 DEF Published
    <3>5. QED
      BY <2>1, <3>3, <3>4 DEF Found, Unhandled, LoopInv, HandledInLog
  <2>4. QED
    BY <2>2, <2>3
<1>4. ASSUME NEW w \in Workers, Succeed(w) \/ FailTransiently(w) \/ FailForGood(w)
      PROVE  Found(d, g)'
  <2>1. /\ UNCHANGED <<log, dlq, lost>>
        /\ handled' = [handled EXCEPT ![GroupOf[w]] = handled[GroupOf[w]] \cup {current[w]}]
        /\ \A v \in Workers : Buffered(v) \subseteq Buffered(v)'
    BY <1>4, HandleStep
  <2>2. \A h \in Groups : stored[h] \subseteq stored'[h]
    <3>1. \/ stored' = stored
          \/ stored' = [stored EXCEPT ![GroupOf[w]] = stored[GroupOf[w]] \cup {At(current[w]).doc}]
      BY <1>4, HandleStep
    <3>2. QED
      BY <3>1 DEF TypeOK
  <2>3. Found(d, g)
    BY <2>1 DEF Tracked, Published, Offsets, At
  <2>4. CASE ~Unhandled(d, g)
    BY <2>1, <2>2, <2>3, <2>4 DEF Found, Settled, Waiting
  <2>5. CASE Unhandled(d, g)
    <3>1. PICK o \in Offsets : At(o).doc = d /\ o \notin handled[g]
      BY <2>5 DEF Unhandled
    <3>2. CASE o \notin handled'[g]
      BY <2>1, <3>1, <3>2 DEF Found, Unhandled, Offsets, At
    <3>3. CASE o \in handled'[g]
      <4>1. g = GroupOf[w] /\ o = current[w]
        BY <2>1, <3>1, <3>3 DEF TypeOK
      <4>2. CASE stored' = [stored EXCEPT ![GroupOf[w]] =
                               stored[GroupOf[w]] \cup {At(current[w]).doc}]
        BY <3>1, <4>1, <4>2 DEF Found, Settled, TypeOK
      <4>3. CASE \E r \in {DeadLetter(At(current[w]), "poison"), AfterRetryable(At(current[w]))} :
                     Buffered(w)' = Buffered(w) \cup {r}
        <5>1. At(o) \in Messages
          BY DEF TypeOK, At, Offsets
        <5>2. PICK r \in Buffered(w)' : r \in {DeadLetter(At(o), "poison"), AfterRetryable(At(o))}
          BY <4>1, <4>3
        <5>5. DeadLetter(At(o), "poison").msg = At(o) /\ AfterRetryable(At(o)).msg.doc = At(o).doc
          BY <5>1, RecordTypes DEF DeadLetter
        <5>3. r.msg.doc = d
          BY <3>1, <5>2, <5>5
        <5>4. QED
          BY <4>1, <5>2, <5>3 DEF Found, Waiting
      <4>4. QED
        BY <4>2, <4>3, <1>4, HandleStep
    <3>4. QED
      BY <3>2, <3>3
  <2>6. QED
    BY <2>4, <2>5
<1>5. ASSUME NEW w \in Workers, Deliver(w) PROVE Found(d, g)'
  <2> DEFINE r == Head(queue[w])
  <2>1. /\ UNCHANGED <<stored, handled, lost>>
        /\ queue[w] # <<>>
        /\ queue' \in {queue, [queue EXCEPT ![w] = Tail(queue[w])]}
        /\ dlq \subseteq dlq'
    BY <1>5 DEF Deliver
  <2>2. /\ r \in Records
        /\ \A v \in Workers : \A q \in Buffered(v) : q \in Buffered(v)' \/ (v = w /\ q = r)
    BY <2>1, HeadStep
  <2>3. CASE r.topic = "raw"
    <3>1. log' = Append(log, r.msg) /\ r.msg \in Messages
      BY <1>5, <2>2, <2>3 DEF Deliver, Records
    <3>2. PICK o \in Offsets' : o = Len(log) /\ At(o)' = r.msg
      BY <3>1, LogAppend
    <3>3. \A h \in Groups : o \notin handled'[h]
      BY <2>1, <3>2 DEF LoopInv, HandledInLog, Offsets, TypeOK
    <3>4. r.msg.doc = d => Unhandled(d, g)'
      BY <3>2, <3>3 DEF Unhandled
    <3>5. CASE r.msg.doc # d
      <4>1. Published(d)
        <5>1. PICK p \in Offsets' : At(p)'.doc = d
          BY DEF Published
        <5>2. p # o /\ p \in Offsets
          BY <3>1, <3>2, <3>5, <5>1, LogAppend DEF Offsets, TypeOK
        <5>3. QED
          BY <5>1, <5>2, LogGrows DEF Published
      <4>2. Found(d, g)
        BY <4>1 DEF Tracked
      <4>3. Waiting(d, g) => Waiting(d, g)'
        BY <2>2, <3>5 DEF Waiting
      <4>4. Settled(d, g) => Settled(d, g)'
        BY <2>1 DEF Settled
      <4>5. Unhandled(d, g) => Unhandled(d, g)'
        BY <1>2, <2>1, <4>1
      <4>6. QED
        BY <2>1, <4>2, <4>3, <4>4, <4>5 DEF Found
    <3>6. QED
      BY <3>4, <3>5 DEF Found
  <2>4. CASE r.topic # "raw"
    <3>1. /\ log' = log
          /\ dlq' = dlq \cup {[msg |-> r.msg, group |-> GroupOf[w], cause |-> r.cause]}
      BY <1>5, <2>4 DEF Deliver
    <3>2. Found(d, g)
      BY <3>1 DEF Tracked, Published, Offsets, At
    <3>3. Settled(d, g) => Settled(d, g)'
      BY <2>1 DEF Settled
    <3>4. Waiting(d, g) => Waiting(d, g)' \/ Settled(d, g)'
      <4>1. r.msg.doc = d /\ GroupOf[w] = g => Settled(d, g)'
        <5> DEFINE l == [msg |-> r.msg, group |-> GroupOf[w], cause |-> r.cause]
        <5>1. l \in dlq' /\ l.msg.doc = r.msg.doc /\ l.group = GroupOf[w]
          BY <3>1
        <5> HIDE DEF l
        <5>2. QED
          BY <5>1 DEF Settled
      <4> HIDE DEF r
      <4>2. QED
        BY <2>2, <4>1 DEF Waiting
    <3>5. Unhandled(d, g) => Unhandled(d, g)'
      BY <2>1, <3>1 DEF Unhandled, Offsets, At
    <3>6. QED
      BY <2>1, <3>2, <3>3, <3>4, <3>5 DEF Found
  <2>5. QED
    BY <2>3, <2>4
<1>6. ASSUME NEW w \in Workers, Drop(w) \/ Stop(w) PROVE Found(d, g)'
  <2>1. UNCHANGED <<log, dlq, stored, handled>> /\ lost \subseteq lost'
    BY <1>6 DEF Drop, Stop
  <2>2. Found(d, g)
    BY <2>1 DEF Tracked, Published, Offsets, At
  <2>3. Settled(d, g) => Settled(d, g)'
    BY <2>1 DEF Settled
  <2>4. Unhandled(d, g) => Unhandled(d, g)'
    BY <2>1 DEF Unhandled, Offsets, At
  <2>5. ASSUME NEW v \in Workers, NEW q \in Buffered(v), q \notin Buffered(v)'
        PROVE  <<q.msg.doc, GroupOf[v]>> \in lost'
    <3>1. CASE Drop(w)
      <4>1. v = w /\ q = Head(queue[w])
        BY <2>5, <3>1, HeadStep DEF Drop
      <4>2. QED
        BY <3>1, <4>1 DEF Drop
    <3>2. CASE Stop(w)
      <4>1. v = w
        BY <2>5, <3>2 DEF Stop, Buffered, TypeOK
      <4>2. QED
        BY <2>5, <3>2, <4>1 DEF Stop, Forgotten
    <3>3. QED
      BY <1>6, <3>1, <3>2
  <2>6. Waiting(d, g) => Waiting(d, g)' \/ <<d, g>> \in lost'
    BY <2>5 DEF Waiting
  <2>7. QED
    BY <2>1, <2>2, <2>3, <2>4, <2>6 DEF Found
<1>7. ASSUME NEW w \in Workers,
             Assign(w) \/ Evict(w) \/ Revoke(w) \/ Poll(w) \/ Commit(w) \/ Restart(w)
      PROVE  Found(d, g)'
  BY <1>1, <1>7 DEF Assign, Evict, Revoke, Poll, Commit, Restart
<1>8. CASE UNCHANGED vars
  BY <1>1, <1>8 DEF vars
<1>9. QED
  BY <1>3, <1>4, <1>5, <1>6, <1>7, <1>8 DEF Next, Run

\* A document published to the topic is lost to a group only with a record
\* that base_worker.py's producer took and never delivered: neither a crash,
\* an eviction nor a failed commit loses one otherwise.
THEOREM LostOnlyUndelivered == Spec => []LossIsUndelivered
<1>1. Init => Tracked
  BY DEF Init, Tracked, Published, Offsets
<1>2. TypeOK /\ LoopInv /\ Tracked => LossIsUndelivered
  <2> SUFFICES ASSUME TypeOK, LoopInv, Tracked, NEW d \in Docs, NEW g \in Groups, Published(d)
               PROVE  Settled(d, g) \/ InProgress(d, g) \/ <<d, g>> \in lost
    BY DEF LossIsUndelivered
  <2>1. Unhandled(d, g) => InProgress(d, g)
    <3> SUFFICES ASSUME NEW o \in Offsets, At(o).doc = d, o \notin handled[g]
                 PROVE  o >= committed[g]
      BY DEF Unhandled, InProgress
    <3>1. o \in Nat /\ committed[g] \in Nat
      BY DEF TypeOK, Offsets
    <3>2. o \notin 0..(committed[g] - 1)
      BY DEF LoopInv, CommittedIsHandled
    <3>3. QED
      BY <3>1, <3>2
  <2>2. Waiting(d, g) => InProgress(d, g)
    BY DEF Waiting, InProgress
  <2>3. QED
    BY <2>1, <2>2 DEF Tracked, Found
<1>3. QED
  BY <1>1, <1>2, TrackedStep, LoopAlways, PTL DEF Spec

-----------------------------------------------------------------------------
(* Retries are used up before a document is given up.                        *)

\* The log holds the document's message with the retry count k.
Logged(d, k) == \E o \in Offsets : At(o).doc = d /\ At(o).retry = k

\* ... with every retry count up to k.
LoggedUpTo(d, k) == \A j \in 0..k : Logged(d, j)

\* What a worker sends on, it has consumed.
RecordCaused(r) ==
    IF r.topic = "raw"
    THEN r.msg.retry > 0 /\ LoggedUpTo(r.msg.doc, r.msg.retry - 1)
    ELSE /\ LoggedUpTo(r.msg.doc, r.msg.retry)
         /\ r.cause = "exhausted" => r.msg.retry + 1 >= MaxRetries

RetriesLogged ==
    /\ \A o \in Offsets : LoggedUpTo(At(o).doc, At(o).retry)
    /\ \A w \in Workers : \A r \in Buffered(w) : RecordCaused(r)
    /\ \A l \in dlq : /\ LoggedUpTo(l.msg.doc, l.msg.retry)
                      /\ l.cause = "exhausted" => l.msg.retry + 1 >= MaxRetries

\* A retry in the log stays there.
LEMMA LoggedStays ==
    ASSUME TypeOK, [Next]_vars
    PROVE  /\ \A d, k : LoggedUpTo(d, k) => LoggedUpTo(d, k)'
           /\ \A r : RecordCaused(r) => RecordCaused(r)'
<1>1. \A d, k : Logged(d, k) => Logged(d, k)'
  BY LogGrows DEF Logged
<1>2. \A d, k : LoggedUpTo(d, k) => LoggedUpTo(d, k)'
  BY <1>1 DEF LoggedUpTo
<1>3. QED
  BY <1>2 DEF RecordCaused

\* What is sent on for a logged message is caused by it.
LEMMA OutcomeCaused ==
    ASSUME TypeOK, NEW m \in Messages, LoggedUpTo(m.doc, m.retry)
    PROVE  RecordCaused(DeadLetter(m, "poison")) /\ RecordCaused(AfterRetryable(m))
<1>1. m.retry \in Nat /\ MaxRetries \in Nat
  BY WorkerAssumption DEF Messages
<1>2. RecordCaused(DeadLetter(m, "poison"))
  BY DEF RecordCaused, DeadLetter
<1>3. CASE m.retry + 1 >= MaxRetries
  BY <1>1, <1>2, <1>3 DEF RecordCaused, DeadLetter, AfterRetryable
<1>4. CASE ~(m.retry + 1 >= MaxRetries)
  <2> DEFINE r == Republished(m)
  <2>1. /\ AfterRetryable(m) = r
        /\ r.topic = "raw" /\ r.msg.doc = m.doc /\ r.msg.retry = m.retry + 1
    BY <1>4 DEF AfterRetryable, Republished, Messages
  <2> HIDE DEF r
  <2>2. r.msg.retry > 0 /\ r.msg.retry - 1 = m.retry
    BY <1>1, <2>1
  <2>3. RecordCaused(r)
    BY <2>1, <2>2 DEF RecordCaused
  <2>4. QED
    BY <1>2, <2>1, <2>3
<1>5. QED
  BY <1>3, <1>4

\* Every step keeps retries and dead letters caused by what was consumed.
LEMMA RetriesStep == TypeOK /\ LoopInv /\ RetriesLogged /\ [Next]_vars => RetriesLogged'
<1> SUFFICES ASSUME TypeOK, LoopInv, RetriesLogged, [Next]_vars PROVE RetriesLogged'
  OBVIOUS
<1> DEFINE LogPart == \A o \in Offsets : LoggedUpTo(At(o).doc, At(o).retry)
<1> DEFINE BufferPart == \A w \in Workers : \A r \in Buffered(w) : RecordCaused(r)
<1> DEFINE DlqPart == \A l \in dlq : /\ LoggedUpTo(l.msg.doc, l.msg.retry)
                                     /\ l.cause = "exhausted" => l.msg.retry + 1 >= MaxRetries
<1>1. ASSUME log' = log PROVE LogPart'
  BY <1>1, LoggedStays DEF RetriesLogged, Offsets, At
<1>2. ASSUME \A w \in Workers : Buffered(w)' \subseteq Buffered(w) PROVE BufferPart'
  BY <1>2, LoggedStays DEF RetriesLogged
<1>3. ASSUME dlq' = dlq PROVE DlqPart'
  BY <1>3, LoggedStays DEF RetriesLogged
<1>4. ASSUME NEW m \in Messages, log' = Append(log, m), m.retry # 0 => LoggedUpTo(m.doc, m.retry - 1)
      PROVE  LogPart'
  <2>1. PICK p \in Offsets' : p = Len(log) /\ At(p)' = m
    BY <1>4, LogAppend
  <2>2. Logged(m.doc, m.retry)'
    BY <2>1 DEF Logged
  <2>3. m.retry \in Nat
    BY DEF Messages
  <2>4. LoggedUpTo(m.doc, m.retry)'
    <3> SUFFICES ASSUME NEW k \in 0..m.retry, k # m.retry PROVE Logged(m.doc, k)'
      BY <2>2 DEF LoggedUpTo
    <3>1. m.retry # 0 /\ k \in 0..(m.retry - 1)
      BY <2>3
    <3>2. LoggedUpTo(m.doc, m.retry - 1)'
      BY <3>1, <1>4, LoggedStays
    <3>3. QED
      BY <3>1, <3>2 DEF LoggedUpTo
  <2>5. ASSUME NEW o \in Offsets' PROVE LoggedUpTo(At(o).doc, At(o).retry)'
    <3>1. CASE o = p
      BY <3>1, <2>1, <2>4
    <3>2. CASE o # p
      <4>1. o \in Offsets
        BY <3>2, <2>1, <1>4, LogAppend DEF Offsets, TypeOK
      <4>2. QED
        BY <4>1, LogGrows, LoggedStays DEF RetriesLogged
    <3>3. QED
      BY <3>1, <3>2
  <2>6. QED
    BY <2>5
<1> HIDE DEF LogPart, BufferPart, DlqPart
<1>5. ASSUME LogPart', BufferPart', DlqPart' PROVE RetriesLogged'
  BY <1>5 DEF RetriesLogged, LogPart, BufferPart, DlqPart
<1>6. ASSUME UNCHANGED <<log, queue, dlq>> PROVE RetriesLogged'
  BY <1>1, <1>2, <1>3, <1>5, <1>6 DEF Buffered
<1>7. ASSUME NEW d \in Docs, Publish(d) PROVE RetriesLogged'
  <2>1. [doc |-> d, retry |-> 0] \in Messages
    BY DEF Messages
  <2>2. LogPart'
    BY <2>1, <1>4, <1>7 DEF Publish
  <2>3. UNCHANGED <<queue, dlq>>
    BY <1>7 DEF Publish
  <2>4. QED
    BY <2>2, <2>3, <1>2, <1>3, <1>5 DEF Buffered
<1>8. ASSUME NEW w \in Workers, Succeed(w) \/ FailTransiently(w) \/ FailForGood(w)
      PROVE  RetriesLogged'
  <2> DEFINE m == At(current[w])
  <2>1. UNCHANGED <<log, dlq>> /\ current[w] \in Offsets
    BY <1>8, HandleStep
  <2>2. m \in Messages /\ LoggedUpTo(m.doc, m.retry)
    BY <2>1 DEF At, Offsets, TypeOK, RetriesLogged
  <2>3. RecordCaused(DeadLetter(m, "poison")) /\ RecordCaused(AfterRetryable(m))
    BY <2>2, OutcomeCaused
  <2>4. \A v \in Workers : \A r \in Buffered(v)' :
            r \in Buffered(v) \/ r \in {DeadLetter(m, "poison"), AfterRetryable(m)}
    BY <1>8, HandleStep
  <2>5. BufferPart'
    BY <2>3, <2>4, LoggedStays DEF RetriesLogged, BufferPart
  <2>6. QED
    BY <2>1, <2>5, <1>1, <1>3, <1>5
<1>9. ASSUME NEW w \in Workers, Deliver(w) PROVE RetriesLogged'
  <2> DEFINE r == Head(queue[w])
  <2>1. queue[w] # <<>> /\ queue' \in {queue, [queue EXCEPT ![w] = Tail(queue[w])]}
    BY <1>9 DEF Deliver
  <2>2. r \in Records /\ \A v \in Workers : Buffered(v)' \subseteq Buffered(v)
    BY <2>1, HeadStep
  <2>3. r \in Buffered(w)
    BY <2>1, BufferTypes DEF Buffered, TypeOK
  <2>4. RecordCaused(r)
    BY <2>3 DEF RetriesLogged
  <2>5. BufferPart'
    BY <1>2, <2>2
  <2>6. CASE r.topic = "raw"
    <3>1. log' = Append(log, r.msg) /\ r.msg \in Messages /\ dlq' = dlq
      BY <1>9, <2>2, <2>6 DEF Deliver, Records
    <3>2. LogPart'
      BY <1>4, <2>4, <2>6, <3>1 DEF RecordCaused
    <3>3. QED
      BY <1>3, <1>5, <2>5, <3>1, <3>2
  <2>7. CASE r.topic # "raw"
    <3> DEFINE l == [msg |-> r.msg, group |-> GroupOf[w], cause |-> r.cause]
    <3>1. log' = log /\ dlq' = dlq \cup {l}
      BY <1>9, <2>7 DEF Deliver
    <3>2. l.msg = r.msg /\ l.cause = r.cause
      OBVIOUS
    <3> HIDE DEF l
    <3>3. DlqPart'
      BY <2>4, <2>7, <3>1, <3>2, LoggedStays DEF RecordCaused, RetriesLogged, DlqPart
    <3>4. QED
      BY <1>1, <1>5, <2>5, <3>1, <3>3
  <2>8. QED
    BY <2>6, <2>7
<1>10. ASSUME NEW w \in Workers, Drop(w) \/ Stop(w) PROVE RetriesLogged'
  <2>1. UNCHANGED <<log, dlq>>
    BY <1>10 DEF Drop, Stop
  <2>2. CASE Drop(w)
    BY <2>1, <2>2, HeadStep, <1>1, <1>2, <1>3, <1>5 DEF Drop
  <2>3. CASE Stop(w)
    <3>1. \A v \in Workers : Buffered(v)' \subseteq Buffered(v)
      BY <2>3 DEF Stop, Buffered, TypeOK
    <3>2. QED
      BY <2>1, <3>1, <1>1, <1>2, <1>3, <1>5
  <2>4. QED
    BY <1>10, <2>2, <2>3
<1>11. ASSUME NEW w \in Workers,
              Assign(w) \/ Evict(w) \/ Revoke(w) \/ Poll(w) \/ Commit(w) \/ Restart(w)
       PROVE  RetriesLogged'
  BY <1>6, <1>11 DEF Assign, Evict, Revoke, Poll, Commit, Restart
<1>12. CASE UNCHANGED vars
  BY <1>6, <1>12 DEF vars
<1>13. QED
  BY <1>7, <1>8, <1>9, <1>10, <1>11, <1>12 DEF Next, Run

\* The retry count is compared with KAFKA_MAX_RETRIES only for messages that
\* were consumed, so a document given up was published with every count.
THEOREM RetriesUsedUp == Spec => []GivenUpAfterRetries
<1>1. Init => RetriesLogged
  BY DEF Init, RetriesLogged, Offsets, Buffered
<1>2. TypeOK /\ RetriesLogged => GivenUpAfterRetries
  <2> SUFFICES ASSUME TypeOK, RetriesLogged, NEW l \in dlq, l.cause = "exhausted",
                      NEW k \in 0..(MaxRetries - 1)
               PROVE  \E o \in Offsets : [l.msg EXCEPT !.retry = k] = At(o)
    BY DEF GivenUpAfterRetries
  <2>1. l.msg \in Messages /\ l.msg.retry \in Nat /\ MaxRetries \in Nat
    BY WorkerAssumption DEF TypeOK, DeadLetters, Messages
  <2>2. l.msg.retry + 1 >= MaxRetries /\ LoggedUpTo(l.msg.doc, l.msg.retry)
    BY DEF RetriesLogged
  <2>3. k \in 0..l.msg.retry
    BY <2>1, <2>2
  <2>4. PICK o \in Offsets : At(o).doc = l.msg.doc /\ At(o).retry = k
    BY <2>2, <2>3 DEF LoggedUpTo, Logged
  <2>5. At(o) \in Messages
    BY DEF TypeOK, At, Offsets
  <2>6. QED
    BY <2>1, <2>4, <2>5 DEF Messages
<1>3. QED
  BY <1>1, <1>2, RetriesStep, LoopAlways, PTL DEF Spec
=============================================================================
