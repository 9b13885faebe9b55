---------------------------- MODULE AuditTrail ----------------------------
(***************************************************************************)
(* audit-service: the consumers of the audit topic and of the error topic    *)
(* (audit_consumer.py, error_consumer.py), the hash chain of the audit log   *)
(* (audit_ingest.py) and its verification (audit_query.py).                 *)
(*                                                                          *)
(* A consumer polls all its partitions at once, handles the records          *)
(* partition by partition, and commits after each partition; the commit     *)
(* covers everything polled. A record that cannot be handled is logged and   *)
(* passed over. Replicas of the service share the partitions of a topic.     *)
(*                                                                          *)
(* event_id is UNIQUE in the audit log, so the event names its row, and the   *)
(* hash of the row, in which prev_hash takes part. Timestamps are the order  *)
(* of publication.                                                          *)
(***************************************************************************)
EXTENDS DbSessions, Integers, Sequences, FiniteSets

CONSTANTS
    Topics,         \* of "audit" and "error": the one this instance is about
    Partitions,
    Consumers,      \* replicas of audit-service
    MaxEvents,      \* bound: events published
    Actions,        \* actions of the events
    MaxCrashes      \* bound: replicas that die

ASSUME AuditAssumption ==
    /\ Topics \subseteq {"audit", "error"}
    /\ MaxEvents \in Nat /\ MaxCrashes \in Nat /\ None \notin Consumers
    /\ IsFiniteSet(Partitions)

VARIABLES
    topic,          \* the topic
    owner,          \* the consumer of each partition
    log,            \* the partitions
    committed,      \* committed offsets: how many records of a partition are done
    position,       \* how many records of a partition were polled
    handled,        \* how many of them the consumer has been through
    current,        \* the partition a consumer is at
    reading,        \* the prev_hash it has read for the record at hand
    stored,         \* rows of each event in audit_log or error_log
    prev,           \* prev_hash of the row of an event
    failed,         \* events whose handling raised
    disordered,     \* history: a row was stored after one with a later timestamp
    crashes         \* history: how many replicas died

auditVars == <<topic, owner, log, committed, position, handled, current, reading, stored, prev,
               failed, disordered, crashes>>
consumerVars == <<committed, position, handled, current, reading>>

\* An event is its time of publication; Rows of a partition are sequences of those.
Events == 1..MaxEvents
NoHash == 0         \* the missing prev_hash of a first row
NotRead == -1

AuditTypeOK ==
    /\ topic \in Topics /\ owner \in [Partitions -> Consumers]
    /\ log \in [Partitions -> Seq([at: Events, action: Actions])]
    /\ committed \in [Partitions -> 0..MaxEvents]
    /\ position \in [Partitions -> 0..MaxEvents]
    /\ handled \in [Partitions -> 0..MaxEvents]
    /\ \A p \in Partitions :
         /\ committed[p] <= position[p]
         /\ handled[p] <= position[p]
         /\ position[p] <= Len(log[p])
    /\ current \in [Consumers -> Partitions \cup {None}]
    /\ reading \in [Consumers -> Events \cup {NoHash, NotRead}]
    /\ stored \in [Events -> Nat]
    /\ prev \in [Events -> Events \cup {NoHash}]
    /\ failed \subseteq Events
    /\ disordered \in BOOLEAN /\ crashes \in 0..MaxCrashes

AuditInit ==
    /\ topic \in Topics
    /\ owner \in [Partitions -> Consumers]
    /\ log = [p \in Partitions |-> <<>>]
    /\ committed = [p \in Partitions |-> 0]
    /\ position = [p \in Partitions |-> 0]
    /\ handled = [p \in Partitions |-> 0]
    /\ current = [c \in Consumers |-> None]
    /\ reading = [c \in Consumers |-> NotRead]
    /\ stored = [e \in Events |-> 0]
    /\ prev = [e \in Events |-> NoHash]
    /\ failed = {}
    /\ disordered = FALSE
    /\ crashes = 0

Owned(c) == {p \in Partitions : owner[p] = c}
Published == UNION {{log[p][i].at : i \in 1..Len(log[p])} : p \in Partitions}
Rows == {e \in Events : stored[e] > 0}

-----------------------------------------------------------------------------
(* The topic *)

\* AuditEventPublisher.publish of some service: one partition per key.
Publish(p, action) ==
    /\ Cardinality(Published) < MaxEvents
    /\ log' = [log EXCEPT ![p] = Append(@, [at |-> Cardinality(Published) + 1, action |-> action])]
    /\ UNCHANGED <<topic, owner, consumerVars, stored, prev, failed, disordered, crashes>>

\* KafkaConsumer.poll, when all that was polled before has been handled.
Poll(c) ==
    /\ \A p \in Owned(c) : handled[p] = position[p]
    /\ current[c] = None
    /\ \E p \in Owned(c) : position[p] < Len(log[p])
    /\ position' = [p \in Partitions |-> IF p \in Owned(c) THEN Len(log[p]) ELSE position[p]]
    /\ UNCHANGED <<topic, owner, log, committed, handled, current, reading, stored, prev,
                   failed, disordered, crashes>>

\* The next partition of records.items().
Start(c, p) ==
    /\ current[c] = None /\ p \in Owned(c) /\ handled[p] < position[p]
    /\ current' = [current EXCEPT ![c] = p]
    /\ UNCHANGED <<topic, owner, log, committed, position, handled, reading, stored, prev,
                   failed, disordered, crashes>>

\* Mutant: the offsets are committed record by record, before the record is handled.
BugDone(c) ==
    committed' = [p \in Partitions |-> IF p \in Owned(c) THEN position[p] ELSE committed[p]]

\* KafkaConsumer.commit after the last record of a partition: the positions of all
\* the partitions that were polled.
Done(c) ==
    committed' = [p \in Partitions |->
                    IF p \in Owned(c) /\ handled[current[c]] + 1 = position[current[c]]
                    THEN position[p] ELSE committed[p]]

\* The record is behind the consumer.
Advance(c) ==
    /\ handled' = [handled EXCEPT ![current[c]] = @ + 1]
    /\ Done(c)
    /\ current' = IF handled[current[c]] + 1 = position[current[c]]
                  THEN [current EXCEPT ![c] = None] ELSE current
    /\ reading' = [reading EXCEPT ![c] = NotRead]
    /\ UNCHANGED <<topic, owner, log, position, crashes>>

-----------------------------------------------------------------------------
(* Handling a record *)

Record(c) == log[current[c]][handled[current[c]] + 1]

Latest(rows) == {e \in rows : \A f \in rows : f <= e}

\* Mutant: the oldest row instead of the latest.
BugLastHash == IF Rows = {} THEN NoHash ELSE CHOOSE e \in Rows : \A f \in Rows : e <= f

\* get_last_hash: the row with the latest timestamp, not the one stored last.
LastHash == IF Rows = {} THEN NoHash ELSE CHOOSE e \in Latest(Rows) : TRUE

ReadLastHash(c) ==
    /\ topic = "audit" /\ current[c] # None /\ reading[c] = NotRead
    /\ reading' = [reading EXCEPT ![c] = LastHash]
    /\ UNCHANGED <<topic, owner, log, committed, position, handled, current, stored, prev,
                   failed, disordered, crashes>>

\* What the moment of handling does to check_anomaly_rules: the window of a rule is made
\* with replace(minute=minute - 1) or replace(hour=hour - 1), a ValueError at 0.
Moments == {"midnight", "full hour", "other"}
AnomalyRulesRaise(action, moment) ==
    \/ action = "user.register" /\ moment \in {"midnight", "full hour"}
    \/ action = "payment.refunded" /\ moment = "midnight"

\* ingest_audit_event, the anomaly rules and the commit. event_id is UNIQUE.
StoreAudit(c, moment) ==
    LET e == Record(c).at
    IN  /\ topic = "audit" /\ current[c] # None /\ reading[c] # NotRead
        /\ stored[e] = 0 /\ ~AnomalyRulesRaise(Record(c).action, moment)
        /\ stored' = [stored EXCEPT ![e] = 1]
        /\ prev' = [prev EXCEPT ![e] = reading[c]]
        /\ disordered' = (disordered \/ \E f \in Rows : f > e)
        /\ UNCHANGED failed
        /\ Advance(c)

\* The same when it raises: the transaction is rolled back and the event passed over.
FailAudit(c, moment) ==
    LET e == Record(c).at
    IN  /\ topic = "audit" /\ current[c] # None /\ reading[c] # NotRead
        /\ stored[e] > 0 \/ AnomalyRulesRaise(Record(c).action, moment)
        /\ failed' = failed \cup {e}
        /\ UNCHANGED <<stored, prev, disordered>>
        /\ Advance(c)

\* ingest_error: an event of the error topic has no identity in the table.
StoreError(c) ==
    LET e == Record(c).at
    IN  /\ topic = "error" /\ current[c] # None
        /\ stored' = [stored EXCEPT ![e] = @ + 1]
        /\ UNCHANGED <<prev, failed, disordered>>
        /\ Advance(c)

\* The database fails; both consumers go on with the next record.
PassOver(c) ==
    /\ current[c] # None
    /\ failed' = failed \cup {Record(c).at}
    /\ UNCHANGED <<stored, prev, disordered>>
    /\ Advance(c)

\* A replica dies and comes back where its group has committed.
Crash(c) ==
    /\ crashes < MaxCrashes
    /\ crashes' = crashes + 1
    /\ position' = [p \in Partitions |-> IF p \in Owned(c) THEN committed[p] ELSE position[p]]
    /\ handled' = [p \in Partitions |-> IF p \in Owned(c) THEN committed[p] ELSE handled[p]]
    /\ current' = [current EXCEPT ![c] = None]
    /\ reading' = [reading EXCEPT ![c] = NotRead]
    /\ UNCHANGED <<topic, owner, log, committed, stored, prev, failed, disordered>>

AuditNext ==
    \/ \E p \in Partitions, action \in Actions : Publish(p, action)
    \/ \E c \in Consumers :
         \/ Poll(c) \/ ReadLastHash(c) \/ StoreError(c) \/ PassOver(c) \/ Crash(c)
         \/ \E p \in Partitions : Start(c, p)
         \/ \E moment \in Moments : StoreAudit(c, moment) \/ FailAudit(c, moment)

AuditSpec == AuditInit /\ [][AuditNext]_auditVars

-----------------------------------------------------------------------------
(* Properties *)

\* A consumer with one partition loses nothing, wherever it crashes: what it has
\* committed is in the table, or its handling failed.
CommittedIsHandled ==
    \A p \in Partitions : Cardinality(Owned(owner[p])) = 1 =>
        \A i \in 1..committed[p] : log[p][i].at \in Rows \cup failed

\* The links verify_chain finds broken between two times.
BrokenLinks(from, to) ==
    LET rows == {e \in Rows : from <= e /\ e <= to}
        before(e) == {f \in rows : f < e}
        expected(e) == IF before(e) = {} THEN NoHash ELSE CHOOSE f \in Latest(before(e)) : TRUE
    IN  {e \in rows : prev[e] # expected(e)}

\* Events that arrive in the order of their times at a single consumer make a chain
\* that verifies as a whole, however often it crashed or failed in between.
ChainVerifies ==
    topic = "audit" /\ ~disordered /\ (\E c \in Consumers : Owned(c) = Partitions) =>
        BrokenLinks(1, MaxEvents) = {}

\* What the consumers guarantee of the log they write.
AuditSafety ==
    /\ AuditTypeOK
    /\ CommittedIsHandled
    /\ ChainVerifies

-----------------------------------------------------------------------------
(* Promises that the code does not keep: see README.md.                        *)

\* Unless a row was changed, every period verifies.
PeriodsVerify == topic = "audit" => \A from, to \in Events : BrokenLinks(from, to) = {}

\* What was committed is stored, or its failure was logged.
NothingIsLost ==
    \A p \in Partitions : \A i \in 1..committed[p] :
        i > handled[p] \/ log[p][i].at \in Rows \cup failed
=============================================================================
