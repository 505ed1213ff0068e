------------------------------ MODULE JobQueue ------------------------------
(***************************************************************************)
(* The durable job queue (internal/worker/queue.go, RedisQueue).  Redis    *)
(* runs one command at a time; each worker process runs a consumer (Run,   *)
(* process) and a promoter (promoteLoop) and may die between any two       *)
(* commands of either.  A shutdown is such a death: once the context is    *)
(* cancelled the consumer's remaining commands fail.  Besides, a command   *)
(* of a worker that lives on may fail, which process and promoteLoop never *)
(* look at, and a handler may panic.                                       *)
(*                                                                         *)
(* An element of a Redis list is a serialised job: its id and the attempts *)
(* made so far.  Lists are bags here: nothing depends on their order.      *)
(***************************************************************************)
EXTENDS Integers, FiniteSets

CONSTANTS
    Jobs,        \* job ids
    Unroutable,  \* jobs that are malformed or have no handler registered
    Workers,     \* worker processes
    MaxAttempts, \* DefaultMaxAttempts
    MaxCrashes,  \* bound on the deaths of workers
    MaxFaults,   \* bound on the failed commands and the panics
    NoCopy       \* nil

ASSUME QueueAssumption ==
    /\ MaxAttempts \in Nat \ {0}
    /\ MaxCrashes \in Nat /\ MaxFaults \in Nat
    /\ Unroutable \subseteq Jobs
    /\ IsFiniteSet(Workers)

Copy == [job : Jobs, attempts : 0..MaxAttempts]

ASSUME NoCopyAssumption == NoCopy \notin Copy

VARIABLES
    enqueued,   \* jobs that a service has handed over
    ready,      \* the list of copies to take
    processing, \* the list of copies being handled
    delayed,    \* the sorted set of copies to retry or to run later
    dead,       \* the dead-letter list
    consumer,   \* workers -> position in process() and the copy taken
    listed,     \* workers -> due copies that promoteLoop has yet to promote
    done,       \* jobs that a handler has completed
    failed,     \* jobs -> handler runs that failed
    crashes,    \* deaths so far
    faults      \* failed commands and panics so far

vars == <<enqueued, ready, processing, delayed, dead, consumer, listed, done,
          failed, crashes, faults>>

Bag == [Copy -> Nat]
Add(b, c) == [b EXCEPT ![c] = @ + 1]
Remove(b, c) == [b EXCEPT ![c] = IF @ = 0 THEN 0 ELSE @ - 1]

New(j) == [job |-> j, attempts |-> 0]
Again(c) == [c EXCEPT !.attempts = @ + 1]
Waiting == [pc |-> "idle", copy |-> NoCopy]

TypeOK ==
    /\ enqueued \subseteq Jobs
    /\ ready \in Bag /\ processing \in Bag /\ dead \in Bag
    /\ delayed \subseteq Copy
    /\ consumer \in [Workers -> {Waiting} \union
                        [pc : {"handle", "retry", "ack"}, copy : Copy]]
    /\ listed \in [Workers -> SUBSET Copy]
    /\ done \subseteq Jobs
    /\ failed \in [Jobs -> Nat]
    /\ crashes \in 0..MaxCrashes /\ faults \in 0..MaxFaults

Init ==
    /\ enqueued = {} /\ done = {} /\ delayed = {}
    /\ ready = [c \in Copy |-> 0]
    /\ processing = [c \in Copy |-> 0]
    /\ dead = [c \in Copy |-> 0]
    /\ consumer = [w \in Workers |-> Waiting]
    /\ listed = [w \in Workers |-> {}]
    /\ failed = [j \in Jobs |-> 0]
    /\ crashes = 0 /\ faults = 0

-----------------------------------------------------------------------------
(* Enqueue: LPUSH on the ready list.  If it fails nothing is queued and the *)
(* service is told.                                                         *)
Enqueue(j) ==
    /\ j \notin enqueued
    /\ enqueued' = enqueued \union {j}
    /\ ready' = Add(ready, New(j))
    /\ UNCHANGED <<processing, delayed, dead, consumer, listed, done, failed, crashes, faults>>

(* EnqueueIn: ZADD to the delayed set.                                      *)
EnqueueIn(j) ==
    /\ j \notin enqueued
    /\ enqueued' = enqueued \union {j}
    /\ delayed' = delayed \union {New(j)}
    /\ UNCHANGED <<ready, processing, dead, consumer, listed, done, failed, crashes, faults>>

(* BRPOPLPUSH: the copy moves to the processing list in one step.           *)
Take(w) ==
    /\ consumer[w] = Waiting
    /\ \E c \in Copy :
           /\ ready[c] > 0
           /\ ready' = Remove(ready, c)
           /\ processing' = Add(processing, c)
           /\ consumer' = [consumer EXCEPT ![w] = [pc |-> "handle", copy |-> c]]
    /\ UNCHANGED <<enqueued, delayed, dead, listed, done, failed, crashes, faults>>

(* No handler to call: straight to the dead-letter list, as it came.        *)
Drop(w) ==
    LET c == consumer[w].copy IN
    /\ consumer[w].pc = "handle" /\ c.job \in Unroutable
    /\ dead' = Add(dead, c)
    /\ consumer' = [consumer EXCEPT ![w].pc = "ack"]
    /\ UNCHANGED <<enqueued, ready, processing, delayed, listed, done, failed,
                   crashes, faults>>

(* The handler returns: nil, or an error.                                   *)
Handle(w) ==
    /\ consumer[w].pc = "handle" /\ consumer[w].copy.job \notin Unroutable
    /\ LET j == consumer[w].copy.job IN
       \/ /\ done' = done \union {j}
          /\ consumer' = [consumer EXCEPT ![w].pc = "ack"]
          /\ UNCHANGED failed
       \/ /\ failed' = [failed EXCEPT ![j] = @ + 1]
          /\ consumer' = [consumer EXCEPT ![w].pc = "retry"]
          /\ UNCHANGED done
    /\ UNCHANGED <<enqueued, ready, processing, delayed, dead, listed, crashes, faults>>

DeadAtLastButOne(c) == Again(c).attempts + 1 >= MaxAttempts
Exhausted(c) == Again(c).attempts >= MaxAttempts

(* After an error: to the dead-letter list with the last attempt, to the    *)
(* delayed set before.                                                      *)
Retry(w) ==
    LET c == consumer[w].copy IN
    /\ consumer[w].pc = "retry"
    /\ IF Exhausted(c)
       THEN dead' = Add(dead, Again(c)) /\ UNCHANGED delayed
       ELSE delayed' = delayed \union {Again(c)} /\ UNCHANGED dead
    /\ consumer' = [consumer EXCEPT ![w].pc = "ack"]
    /\ UNCHANGED <<enqueued, ready, processing, listed, done, failed, crashes, faults>>

(* The deferred LREM of the copy that was taken.                            *)
Ack(w) ==
    /\ consumer[w].pc = "ack"
    /\ processing' = Remove(processing, consumer[w].copy)
    /\ consumer' = [consumer EXCEPT ![w] = Waiting]
    /\ UNCHANGED <<enqueued, ready, delayed, dead, listed, done, failed, crashes, faults>>

(* promoteLoop, on a tick: read what is due ...                             *)
ListDue(w, S) ==
    /\ listed[w] = {} /\ S # {} /\ S \subseteq delayed
    /\ listed' = [listed EXCEPT ![w] = S]
    /\ UNCHANGED <<enqueued, ready, processing, delayed, dead, consumer, done,
                   failed, crashes, faults>>

PromoteRemovesOnly(w) ==
    /\ \E c \in listed[w] :
           /\ delayed' = delayed \ {c}
           /\ listed' = [listed EXCEPT ![w] = @ \ {c}]
    /\ UNCHANGED <<enqueued, ready, processing, dead, consumer, done, failed, crashes, faults>>

(* ... then ZREM and LPUSH of each, in one transaction.  Whether the ZREM   *)
(* found the copy is not looked at: another promoter may have come first.   *)
Promote(w) ==
    /\ \E c \in listed[w] :
           /\ delayed' = delayed \ {c}
           /\ ready' = Add(ready, c)
           /\ listed' = [listed EXCEPT ![w] = @ \ {c}]
    /\ UNCHANGED <<enqueued, processing, dead, consumer, done, failed, crashes, faults>>

(* A worker dies and is started again.  What it had taken stays in the      *)
(* processing list, which nobody reads.                                     *)
Crash(w) ==
    /\ crashes < MaxCrashes
    /\ crashes' = crashes + 1
    /\ consumer' = [consumer EXCEPT ![w] = Waiting]
    /\ listed' = [listed EXCEPT ![w] = {}]
    /\ UNCHANGED <<enqueued, ready, processing, delayed, dead, done, failed, faults>>

Fault == faults < MaxFaults /\ faults' = faults + 1

(* Redis has moved the copy, but its answer does not arrive: Run tries      *)
(* again, and what was moved stays in the processing list.                  *)
TakeUnanswered(w) ==
    /\ consumer[w] = Waiting /\ Fault
    /\ \E c \in Copy : /\ ready[c] > 0
                       /\ ready' = Remove(ready, c)
                       /\ processing' = Add(processing, c)
    /\ UNCHANGED <<enqueued, delayed, dead, consumer, listed, done, failed, crashes>>

(* The LPUSH of Drop, or the LPUSH or ZADD of Retry, fails.  Nobody looks   *)
(* at the error, and the deferred LREM runs all the same.                   *)
WriteFails(w) ==
    /\ \/ consumer[w].pc = "handle" /\ consumer[w].copy.job \in Unroutable
       \/ consumer[w].pc = "retry"
    /\ Fault
    /\ consumer' = [consumer EXCEPT ![w].pc = "ack"]
    /\ UNCHANGED <<enqueued, ready, processing, delayed, dead, listed, done, failed,
                   crashes>>

(* The LREM fails: the copy stays in the processing list.                   *)
AckFails(w) ==
    /\ consumer[w].pc = "ack" /\ Fault
    /\ consumer' = [consumer EXCEPT ![w] = Waiting]
    /\ UNCHANGED <<enqueued, ready, processing, delayed, dead, listed, done, failed,
                   crashes>>

(* The transaction of a due copy fails: it stays in the delayed set.        *)
PromoteFails(w) ==
    /\ Fault
    /\ \E c \in listed[w] : listed' = [listed EXCEPT ![w] = @ \ {c}]
    /\ UNCHANGED <<enqueued, ready, processing, delayed, dead, consumer, done, failed,
                   crashes>>

(* The handler panics.  The deferred LREM runs while the stack unwinds, and *)
(* then the process ends: nobody recovers.                                  *)
Panic(w) ==
    /\ consumer[w].pc = "handle" /\ consumer[w].copy.job \notin Unroutable
    /\ Fault
    /\ processing' = Remove(processing, consumer[w].copy)
    /\ consumer' = [consumer EXCEPT ![w] = Waiting]
    /\ listed' = [listed EXCEPT ![w] = {}]
    /\ UNCHANGED <<enqueued, ready, delayed, dead, done, failed, crashes>>

Next ==
    \/ \E j \in Jobs : Enqueue(j) \/ EnqueueIn(j)
    \/ \E w \in Workers :
           \/ Take(w) \/ Drop(w) \/ Handle(w) \/ Retry(w) \/ Ack(w)
           \/ \E S \in SUBSET delayed : ListDue(w, S)
           \/ Promote(w)
           \/ Crash(w)
           \/ TakeUnanswered(w) \/ WriteFails(w) \/ AckFails(w)
           \/ PromoteFails(w) \/ Panic(w)

Spec == Init /\ [][Next]_vars

(* The loops of a worker go on, handlers return, and the clock reaches the  *)
(* score of every delayed copy.  Nobody has to enqueue, to die or to fail.  *)
Fairness ==
    /\ \A w \in Workers :
           /\ WF_vars(Take(w) \/ Drop(w) \/ Handle(w) \/ Retry(w) \/ Ack(w))
           /\ WF_vars(Promote(w))
    /\ WF_vars(\E w \in Workers : \E S \in SUBSET delayed : ListDue(w, S))

FairSpec == Spec /\ Fairness

-----------------------------------------------------------------------------
(* Properties.                                                              *)

InRedis(j) ==
    \E c \in Copy : /\ c.job = j
                    /\ ready[c] > 0 \/ processing[c] > 0 \/ c \in delayed \/ dead[c] > 0

(* Redis holds every job that no handler has completed, in one of its four  *)
(* structures, save one at most for each failed command or panic: wherever  *)
(* workers die between two commands and however promoters race, nothing is  *)
(* forgotten, and no fault forgets more than the job it met.                *)
OneForgottenPerFault ==
    Cardinality({j \in enqueued : j \notin done /\ ~InRedis(j)}) <= faults

(* A dead letter that has a handler has had all its attempts, and no copy   *)
(* claims attempts that were not made, although promoters may duplicate it. *)
DeadAfterAttempts ==
    \A c \in Copy : c.job \notin Unroutable =>
        /\ dead[c] > 0 => failed[c.job] >= MaxAttempts
        /\ ready[c] > 0 \/ processing[c] > 0 \/ c \in delayed => failed[c.job] >= c.attempts

Ended(j) == j \in done \/ \E c \in Copy : c.job = j /\ dead[c] > 0

(* In the end every job is completed or dead-lettered, save one at most for *)
(* each death, failed command or panic: none of them blocks the jobs it did *)
(* not meet.                                                                *)
EndsSaveOnePerFault ==
    <>[](Cardinality({j \in enqueued : ~Ended(j)}) <= crashes + faults)

(* "Delivery is at-least-once": every job is completed or dead-lettered,    *)
(* also if a worker dies or a command fails while it has it.                *)
(* It does not hold.                                                        *)
AtLeastOnce == \A j \in Jobs : j \in enqueued ~> Ended(j)

-----------------------------------------------------------------------------
(* The inductive strengthening of DeadAfterAttempts and                     *)
(* OneForgottenPerFault.                                                    *)

(* A copy that is still to be handled has attempts left, and claims no more *)
(* than were made.                                                          *)
Pending(c) == c.attempts < MaxAttempts /\ failed[c.job] >= c.attempts
CopiesPending ==
    /\ \A c \in Copy : ready[c] > 0 \/ c \in delayed => Pending(c)
    /\ \A w \in Workers : \A c \in listed[w] : Pending(c)
    /\ \A w \in Workers : consumer[w] # Waiting => Pending(consumer[w].copy)
    /\ \A w \in Workers : consumer[w].pc = "retry" =>
           failed[consumer[w].copy.job] > consumer[w].copy.attempts
    /\ \A c \in Copy : processing[c] > 0 => Pending(c)

Holders(c)  == {w \in Workers : consumer[w].copy = c}
Orphaned(j) == \E c \in Copy : c.job = j /\ processing[c] > Cardinality(Holders(c))

(* Each consumer that holds a copy has an element of its own in processing. *)
HeldIsListed == \A c \in Copy : processing[c] >= Cardinality(Holders(c))

(* A copy of the job is still to be dealt with, or stuck in processing.     *)
Owed(j) ==
    \/ Orphaned(j)
    \/ \E c \in Copy : /\ c.job = j
                       /\ ready[c] > 0 \/ c \in delayed \/ dead[c] > 0
    \/ \E w \in Workers : /\ consumer[w].pc \in {"handle", "retry"}
                          /\ consumer[w].copy.job = j

(* What faults have dropped, one job at most by each of them.               *)
Dropped == {j \in enqueued : j \notin done /\ ~Owed(j)}
FewDropped == IsFiniteSet(Dropped) /\ Cardinality(Dropped) <= faults

QueueInv ==
    /\ TypeOK
    /\ CopiesPending
    /\ DeadAfterAttempts
    /\ HeldIsListed
    /\ FewDropped
=============================================================================
