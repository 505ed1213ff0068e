--------------------------- MODULE JobQueueProofs ---------------------------
(***************************************************************************)
(* QueueInv is an inductive invariant of JobQueue, for any number of jobs, *)
(* workers, attempts, deaths and faults; what follows from it: a fault     *)
(* makes Redis forget one job at most, and no dead letter was given up     *)
(* early.                                                                  *)
(***************************************************************************)
EXTENDS JobQueue, TLAPS, FiniteSetTheorems

(* Bags stay bags, and one element more or less is what it says.            *)
LEMMA BagUpdates ==
    ASSUME NEW b \in Bag, NEW c \in Copy
    PROVE  /\ Add(b, c) \in Bag /\ Remove(b, c) \in Bag
           /\ Add(b, c)[c] = b[c] + 1
           /\ Remove(b, c)[c] = IF b[c] = 0 THEN 0 ELSE b[c] - 1
           /\ \A d \in Copy : d # c => Add(b, c)[d] = b[d] /\ Remove(b, c)[d] = b[d]
BY DEF Bag, Add, Remove

LEMMA MoreStays ==
    ASSUME NEW b \in Bag, NEW c \in Copy, NEW d \in Copy, b[d] > 0
    PROVE  Add(b, c)[d] > 0
<1>1. b[d] \in Nat BY DEF Bag
<1>2. CASE d = c BY <1>1, <1>2, BagUpdates
<1>3. CASE d # c BY <1>3, BagUpdates
<1> QED BY <1>2, <1>3

LEMMA HoldersFinite ==
    ASSUME NEW c \in Copy
    PROVE  IsFiniteSet(Holders(c)) /\ Cardinality(Holders(c)) \in Nat
<1>1. Holders(c) \subseteq Workers BY DEF Holders
<1>2. IsFiniteSet(Holders(c)) BY <1>1, QueueAssumption, FS_Subset
<1> QED BY <1>2, FS_CardinalityType

(* A consumer that is not waiting has taken a copy.                         *)
LEMMA BusyHasCopy ==
    ASSUME TypeOK, NEW w \in Workers, consumer[w] # Waiting
    PROVE  /\ consumer[w].copy \in Copy
           /\ consumer[w].pc \in {"handle", "retry", "ack"}
           /\ w \in Holders(consumer[w].copy)
BY DEF TypeOK, Holders

LEMMA WaitingHoldsNothing ==
    ASSUME NEW w \in Workers, NEW c \in Copy, consumer[w] = Waiting
    PROVE  w \notin Holders(c)
BY NoCopyAssumption DEF Holders, Waiting

(* A consumer moves on with the copy it has.                                *)
LEMMA ConsumerMoves ==
    ASSUME TypeOK, NEW w \in Workers, consumer[w] # Waiting,
           NEW p \in {"retry", "ack"}, consumer' = [consumer EXCEPT ![w].pc = p]
    PROVE  /\ consumer'[w] = [pc |-> p, copy |-> consumer[w].copy]
           /\ consumer'[w].pc = p /\ consumer'[w].copy = consumer[w].copy
           /\ \A v \in Workers : v # w => consumer'[v] = consumer[v]
           /\ \A v \in Workers : consumer'[v].copy = consumer[v].copy
           /\ \A v \in Workers : consumer'[v] # Waiting => consumer[v] # Waiting
           /\ consumer' \in [Workers -> {Waiting} \union
                                 [pc : {"handle", "retry", "ack"}, copy : Copy]]
<1>1. consumer[w].copy \in Copy BY BusyHasCopy
<1>2. consumer[w] \in [pc : {"handle", "retry", "ack"}, copy : Copy]
  BY DEF TypeOK
<1>3. [consumer[w] EXCEPT !.pc = p] = [pc |-> p, copy |-> consumer[w].copy]
  BY <1>2
<1>8. consumer \in [Workers -> {Waiting} \union [pc : {"handle", "retry", "ack"}, copy : Copy]]
  BY DEF TypeOK
<1>4. consumer' = [consumer EXCEPT ![w] = [pc |-> p, copy |-> consumer[w].copy]]
  BY <1>3 DEF TypeOK
<1>5. /\ consumer'[w] = [pc |-> p, copy |-> consumer[w].copy]
      /\ \A v \in Workers : v # w => consumer'[v] = consumer[v]
  BY <1>4 DEF TypeOK
<1>6. [pc |-> p, copy |-> consumer[w].copy] \in [pc : {"handle", "retry", "ack"}, copy : Copy]
  BY <1>1
<1>7. consumer' \in [Workers -> {Waiting} \union [pc : {"handle", "retry", "ack"}, copy : Copy]]
  BY <1>4, <1>6, <1>8
<1> QED BY <1>2, <1>5, <1>7

(* The copy that goes to the next attempt.                                  *)
LEMMA AgainIsCopy ==
    ASSUME NEW c \in Copy, c.attempts < MaxAttempts
    PROVE  /\ Again(c) \in Copy /\ Again(c).job = c.job
           /\ Again(c).attempts = c.attempts + 1
BY QueueAssumption DEF Copy, Again

LEMMA NewIsCopy ==
    ASSUME NEW j \in Jobs
    PROVE  New(j) \in Copy /\ New(j).job = j /\ New(j).attempts = 0
BY QueueAssumption DEF Copy, New

-----------------------------------------------------------------------------
THEOREM InitEstablishes == Init => QueueInv
<1> SUFFICES ASSUME Init PROVE QueueInv
  OBVIOUS
<1>1. TypeOK
  BY QueueAssumption DEF Init, TypeOK, Bag
<1>2. CopiesPending /\ DeadAfterAttempts
  BY DEF Init, CopiesPending, DeadAfterAttempts, Waiting
<1>3. HeldIsListed
  <2> SUFFICES ASSUME NEW c \in Copy PROVE processing[c] >= Cardinality(Holders(c))
    BY DEF HeldIsListed
  <2>1. Holders(c) = {} BY NoCopyAssumption DEF Init, Holders, Waiting
  <2> QED BY <2>1, FS_EmptySet DEF Init
<1>4. FewDropped
  <2>1. Dropped = {} BY DEF Init, Dropped
  <2>2. faults = 0 BY DEF Init
  <2> QED BY <2>1, <2>2, FS_EmptySet DEF FewDropped
<1> QED BY <1>1, <1>2, <1>3, <1>4 DEF QueueInv

(* What a step that leaves consumers and processing alone does to who holds *)
(* what: nothing.                                                           *)
LEMMA HoldersKept ==
    ASSUME QueueInv, UNCHANGED processing,
           \A w \in Workers : consumer'[w].copy = consumer[w].copy
    PROVE  /\ HeldIsListed'
           /\ \A j : Orphaned(j) => Orphaned(j)'
<1>1. \A c \in Copy : Holders(c)' = Holders(c) BY DEF Holders
<1> QED BY <1>1 DEF QueueInv, HeldIsListed, Orphaned

(* A step after which nothing is missing that was not missing before, and a *)
(* fault after which one job may be.                                        *)
LEMMA FewStay ==
    ASSUME QueueInv, TypeOK', faults' \in {faults, faults + 1},
           \A i \in enqueued' : i \notin done' => i \in Dropped \/ Owed(i)'
    PROVE  FewDropped'
<1>1. IsFiniteSet(Dropped) /\ Cardinality(Dropped) <= faults
  BY DEF QueueInv, FewDropped
<1>2. Dropped' \subseteq Dropped BY DEF Dropped
<1>3. IsFiniteSet(Dropped)' /\ Cardinality(Dropped)' <= Cardinality(Dropped)
  BY <1>1, <1>2, FS_Subset
<1>4. /\ Cardinality(Dropped) \in Nat /\ Cardinality(Dropped)' \in Nat
      /\ faults \in Nat /\ faults' \in Nat
  BY <1>1, <1>3, FS_CardinalityType DEF QueueInv, TypeOK
<1> QED BY <1>1, <1>3, <1>4 DEF FewDropped

LEMMA FewMore ==
    ASSUME QueueInv, TypeOK', NEW j, faults' = faults + 1,
           \A i \in enqueued' : i \notin done' => i \in Dropped \/ i = j \/ Owed(i)'
    PROVE  FewDropped'
<1> DEFINE More == Dropped \union {j}
<1>1. IsFiniteSet(Dropped) /\ Cardinality(Dropped) <= faults
  BY DEF QueueInv, FewDropped
<1>2. Cardinality(Dropped) \in Nat /\ faults \in Nat /\ faults' \in Nat
  BY <1>1, FS_CardinalityType DEF QueueInv, TypeOK
<1>3. IsFiniteSet(More) /\ Cardinality(More) <= Cardinality(Dropped) + 1
  BY <1>1, <1>2, FS_AddElement
<1>4. Dropped' \subseteq More BY DEF Dropped
<1>5. IsFiniteSet(Dropped)' /\ Cardinality(Dropped)' <= Cardinality(More)
  BY <1>3, <1>4, FS_Subset
<1>6. Cardinality(Dropped)' \in Nat /\ Cardinality(More) \in Nat
  BY <1>3, <1>5, FS_CardinalityType
<1> QED BY <1>1, <1>2, <1>3, <1>5, <1>6 DEF FewDropped

LEMMA EnqueueKeeps ==
    ASSUME QueueInv, NEW j \in Jobs, Enqueue(j) \/ EnqueueIn(j)
    PROVE  QueueInv'
<1>0. TypeOK /\ ready \in Bag BY DEF QueueInv, TypeOK
<1>1. New(j) \in Copy /\ New(j).job = j /\ New(j).attempts = 0 BY NewIsCopy
<1>2. failed[j] >= 0 /\ 0 < MaxAttempts BY <1>0, QueueAssumption DEF TypeOK
<1>3. Pending(New(j)) BY <1>1, <1>2 DEF Pending
<1>4. /\ ready' \in Bag /\ delayed' \subseteq Copy /\ enqueued' \subseteq Jobs
      /\ \A c \in Copy : c # New(j) => /\ ready'[c] = ready[c]
                                       /\ c \in delayed' => c \in delayed
  <2>1. CASE Enqueue(j)
    <3>1. /\ Add(ready, New(j)) \in Bag
          /\ \A c \in Copy : c # New(j) => Add(ready, New(j))[c] = ready[c]
      BY <1>0, <1>1, BagUpdates
    <3>2. ready' = Add(ready, New(j)) /\ delayed' = delayed /\ enqueued' = enqueued \union {j}
      BY <2>1 DEF Enqueue
    <3>3. delayed \subseteq Copy /\ enqueued \subseteq Jobs BY <1>0 DEF TypeOK
    <3> QED BY <3>1, <3>2, <3>3
  <2>2. CASE EnqueueIn(j)
    <3>1. /\ ready' = ready /\ delayed' = delayed \union {New(j)}
          /\ enqueued' = enqueued \union {j}
      BY <2>2 DEF EnqueueIn
    <3>2. delayed \subseteq Copy /\ enqueued \subseteq Jobs BY <1>0 DEF TypeOK
    <3> QED BY <1>0, <1>1, <3>1, <3>2
  <2> QED BY <2>1, <2>2
<1>5. \A c \in Copy : ready'[c] > 0 \/ c \in delayed' =>
          c = New(j) \/ ready[c] > 0 \/ c \in delayed
  BY <1>4
<1>6. UNCHANGED <<processing, dead, failed, consumer, listed>>
  BY DEF Enqueue, EnqueueIn
<1>11. TypeOK'
  <2>1. UNCHANGED <<done, crashes, faults>> BY DEF Enqueue, EnqueueIn
  <2> QED BY <1>0, <1>4, <1>6, <2>1 DEF TypeOK
<1>9. CopiesPending'
  BY <1>3, <1>5, <1>6 DEF QueueInv, CopiesPending, Pending
<1>10. DeadAfterAttempts'
  BY <1>1, <1>2, <1>5, <1>6 DEF QueueInv, DeadAfterAttempts
<1>7. HeldIsListed' /\ \A i : Orphaned(i) => Orphaned(i)'
  BY HoldersKept DEF Enqueue, EnqueueIn
<1>8. FewDropped'
  <2> SUFFICES ASSUME NEW i \in enqueued', i \notin done', i \notin Dropped
               PROVE  Owed(i)'
    BY <1>11, FewStay DEF Enqueue, EnqueueIn
  <2>1. CASE i = j
    BY <2>1, <1>0, <1>1, BagUpdates DEF Owed, Enqueue, EnqueueIn, Bag
  <2>2. CASE i # j
    <3>1. Owed(i) BY <2>2 DEF Dropped, Enqueue, EnqueueIn
    <3>2. \A c \in Copy : ready[c] > 0 => ready'[c] > 0
      BY <1>0, <1>1, MoreStays DEF Enqueue, EnqueueIn
    <3>3. delayed \subseteq delayed' /\ UNCHANGED <<dead, consumer>>
      BY DEF Enqueue, EnqueueIn
    <3> QED BY <3>1, <3>2, <3>3, <1>7 DEF Owed
  <2> QED BY <2>1, <2>2
<1> QED BY <1>11, <1>9, <1>10, <1>7, <1>8 DEF QueueInv

LEMMA TakeKeeps ==
    ASSUME QueueInv, NEW w \in Workers, Take(w)
    PROVE  QueueInv'
<1>1. PICK c \in Copy : /\ ready[c] > 0
                        /\ ready' = Remove(ready, c)
                        /\ processing' = Add(processing, c)
                        /\ consumer' = [consumer EXCEPT ![w] = [pc |-> "handle", copy |-> c]]
  BY DEF Take
<1>2. /\ TypeOK /\ ready \in Bag /\ processing \in Bag
      /\ UNCHANGED <<enqueued, delayed, dead, listed, done, failed, crashes, faults>>
      /\ consumer[w] = Waiting
  BY DEF QueueInv, TypeOK, Take
<1>3. Pending(c) BY <1>1 DEF QueueInv, CopiesPending
<1>4. /\ consumer'[w] = [pc |-> "handle", copy |-> c]
      /\ \A v \in Workers : v # w => consumer'[v] = consumer[v]
  BY <1>1, <1>2 DEF TypeOK
<1>5. TypeOK'
  BY <1>1, <1>2, BagUpdates DEF TypeOK
<1>6. \A d \in Copy : /\ ready'[d] > 0 => ready[d] > 0
                      /\ processing'[d] > 0 => d = c \/ processing[d] > 0
  BY <1>1, <1>2, BagUpdates DEF Bag
<1>7. CopiesPending'
  BY <1>2, <1>3, <1>4, <1>6 DEF QueueInv, CopiesPending, Pending
<1>8. DeadAfterAttempts'
  BY <1>2, <1>3, <1>6 DEF QueueInv, DeadAfterAttempts, Pending
<1>9. \A d \in Copy : Cardinality(Holders(d))' = Cardinality(Holders(d)) + IF d = c THEN 1 ELSE 0
  <2> SUFFICES ASSUME NEW d \in Copy
               PROVE  Cardinality(Holders(d))' = Cardinality(Holders(d)) + IF d = c THEN 1 ELSE 0
    OBVIOUS
  <2>1. CASE d = c
    <3>1. Holders(d)' = Holders(d) \union {w} /\ w \notin Holders(d)
      BY <2>1, <1>2, <1>4, WaitingHoldsNothing DEF Holders
    <3> QED BY <2>1, <3>1, HoldersFinite, FS_AddElement
  <2>2. CASE d # c
    <3>1. Holders(d)' = Holders(d)
      BY <2>2, <1>2, <1>4, NoCopyAssumption DEF Holders, Waiting
    <3> QED BY <2>2, <3>1, HoldersFinite
  <2> QED BY <2>1, <2>2
<1>10. \A d \in Copy : processing'[d] = processing[d] + IF d = c THEN 1 ELSE 0
  BY <1>1, <1>2, BagUpdates DEF Bag
<1>11. \A d \in Copy : /\ processing[d] \in Nat /\ Cardinality(Holders(d)) \in Nat
                       /\ processing'[d] \in Nat /\ Cardinality(Holders(d))' \in Nat
  BY <1>2, <1>5, <1>9, HoldersFinite DEF TypeOK, Bag
<1>12. HeldIsListed' BY <1>9, <1>10, <1>11 DEF QueueInv, HeldIsListed
<1>13. FewDropped'
  <2> SUFFICES ASSUME NEW i \in enqueued', i \notin done', i \notin Dropped
               PROVE  Owed(i)'
    BY <1>5, FewStay DEF Take
  <2>1. Owed(i) BY <1>2 DEF Dropped
  <2>2. CASE Orphaned(i)
    BY <2>2, <1>9, <1>10, <1>11 DEF Orphaned, Owed
  <2>3. CASE i = c.job
    BY <2>3, <1>4 DEF Owed
  <2>4. ASSUME i # c.job, NEW d \in Copy, d.job = i, ready[d] > 0 \/ d \in delayed \/ dead[d] > 0
        PROVE  Owed(i)'
    <3>1. ready'[d] = ready[d] BY <2>4, <1>1, <1>2, BagUpdates
    <3> QED BY <2>4, <3>1, <1>2 DEF Owed
  <2>5. ASSUME NEW v \in Workers, consumer[v].pc \in {"handle", "retry"}, consumer[v].copy.job = i
        PROVE  Owed(i)'
    <3>1. v # w BY <2>5, <1>2 DEF Waiting
    <3> QED BY <2>5, <3>1, <1>4 DEF Owed
  <2> QED BY <2>1, <2>2, <2>3, <2>4, <2>5 DEF Owed
<1> QED BY <1>5, <1>7, <1>8, <1>12, <1>13 DEF QueueInv

(* Drop, Handle and Retry move a consumer on with the copy it has.          *)
LEMMA DropKeeps ==
    ASSUME QueueInv, NEW w \in Workers, Drop(w)
    PROVE  QueueInv'
<1> DEFINE c == consumer[w].copy
<1>1. /\ TypeOK /\ dead \in Bag
      /\ consumer[w] # Waiting /\ consumer[w].pc = "handle" /\ c.job \in Unroutable
      /\ dead' = Add(dead, c)
      /\ consumer' = [consumer EXCEPT ![w].pc = "ack"]
      /\ UNCHANGED <<enqueued, ready, processing, delayed, listed, done, failed, crashes, faults>>
  BY DEF QueueInv, TypeOK, Drop, Waiting
<1>2. c \in Copy BY <1>1, BusyHasCopy
<1>3. /\ consumer'[w] = [pc |-> "ack", copy |-> c]
      /\ \A v \in Workers : v # w => consumer'[v] = consumer[v]
  BY <1>1, ConsumerMoves
<1>4. TypeOK'
  BY <1>1, <1>2, ConsumerMoves, BagUpdates DEF TypeOK
<1>5. CopiesPending'
  <2>1. Pending(c) BY <1>1 DEF QueueInv, CopiesPending
  <2> QED BY <2>1, <1>1, <1>3 DEF QueueInv, CopiesPending, Pending
<1>6. DeadAfterAttempts'
  BY <1>1, <1>2, BagUpdates DEF QueueInv, DeadAfterAttempts
<1>7. HeldIsListed' /\ \A i : Orphaned(i) => Orphaned(i)'
  BY <1>1, <1>3, HoldersKept
<1>8. FewDropped'
  <2> SUFFICES ASSUME NEW i \in enqueued', i \notin done', i \notin Dropped
               PROVE  Owed(i)'
    BY <1>4, FewStay DEF Drop
  <2>1. Owed(i) BY <1>1 DEF Dropped
  <2>5. dead[c] \in Nat /\ dead'[c] = dead[c] + 1
    BY <1>1, <1>2, BagUpdates DEF Bag
  <2>2. dead'[c] > 0 /\ \A d \in Copy : dead[d] > 0 => dead'[d] > 0
    BY <2>5, <1>1, <1>2, MoreStays
  <2>3. CASE i = c.job BY <2>2, <2>3, <1>2 DEF Owed
  <2>4. CASE i # c.job BY <2>1, <2>2, <2>4, <1>1, <1>3, <1>7 DEF Owed
  <2> QED BY <2>3, <2>4
<1> QED BY <1>4, <1>5, <1>6, <1>7, <1>8 DEF QueueInv

LEMMA HandleKeeps ==
    ASSUME QueueInv, NEW w \in Workers, Handle(w)
    PROVE  QueueInv'
<1> DEFINE c == consumer[w].copy
<1>1. /\ TypeOK
      /\ consumer[w] # Waiting /\ consumer[w].pc = "handle"
      /\ UNCHANGED <<enqueued, ready, processing, delayed, dead, listed, crashes, faults>>
  BY DEF QueueInv, TypeOK, Handle, Waiting
<1>2. c \in Copy /\ c.job \in Jobs /\ c.attempts \in Nat
  BY <1>1, BusyHasCopy, QueueAssumption DEF Copy
<1>3. PICK p \in {"retry", "ack"} :
          /\ consumer' = [consumer EXCEPT ![w].pc = p]
          /\ p = "ack"   => done' = done \union {c.job} /\ failed' = failed
          /\ p = "retry" => done' = done /\ failed' = [failed EXCEPT ![c.job] = failed[c.job] + 1]
  BY DEF Handle
<1>4. /\ consumer'[w].pc = p
      /\ \A v \in Workers : v # w => consumer'[v] = consumer[v]
      /\ \A v \in Workers : consumer'[v].copy = consumer[v].copy
      /\ \A v \in Workers : consumer'[v] # Waiting => consumer[v] # Waiting
  BY <1>1, <1>3, ConsumerMoves
<1>5. /\ failed \in [Jobs -> Nat] /\ failed' \in [Jobs -> Nat] /\ done' \subseteq Jobs
      /\ \A j \in Jobs : failed'[j] >= failed[j]
      /\ p = "retry" => failed'[c.job] = failed[c.job] + 1
  BY <1>1, <1>2, <1>3 DEF TypeOK
<1>6. TypeOK'
  BY <1>1, <1>3, <1>5, ConsumerMoves DEF TypeOK
<1>7. \A d \in Copy : Pending(d) => Pending(d)'
  <2> SUFFICES ASSUME NEW d \in Copy, Pending(d) PROVE Pending(d)'
    OBVIOUS
  <2>1. d.job \in Jobs /\ d.attempts \in Nat BY QueueAssumption DEF Copy
  <2> QED BY <2>1, <1>5 DEF Pending
<1>8. CopiesPending'
  <2>1. \A d \in Copy : ready[d] > 0 \/ d \in delayed => Pending(d)'
    BY <1>7 DEF QueueInv, CopiesPending
  <2>2. \A v \in Workers : \A d \in listed[v] : Pending(d)'
    BY <1>1, <1>7 DEF QueueInv, CopiesPending, TypeOK
  <2>3. ASSUME NEW v \in Workers, consumer'[v] # Waiting
        PROVE  Pending(consumer[v].copy)'
    <3>1. consumer[v] # Waiting BY <2>3, <1>4
    <3>2. consumer[v].copy \in Copy /\ Pending(consumer[v].copy)
      BY <3>1, <1>1, BusyHasCopy DEF QueueInv, CopiesPending
    <3>3. /\ consumer[v].copy.attempts < MaxAttempts
          /\ failed'[consumer[v].copy.job] >= consumer[v].copy.attempts
      BY <3>2, <1>7 DEF Pending
    <3>4. consumer'[v].copy = consumer[v].copy BY <1>4
    <3> QED BY <3>3, <3>4 DEF Pending
  <2>4. ASSUME NEW v \in Workers, consumer'[v].pc = "retry"
        PROVE  failed'[consumer'[v].copy.job] > consumer'[v].copy.attempts
    <3>0. consumer'[v].copy = consumer[v].copy BY <1>4
    <3>1. CASE v = w
      <4>1. p = "retry" BY <2>4, <3>1, <1>4
      <4>2. failed[c.job] >= c.attempts
        BY <1>1 DEF QueueInv, CopiesPending, Pending
      <4>3. failed'[c.job] > c.attempts
        BY <4>1, <4>2, <1>2, <1>5
      <4> QED BY <3>0, <3>1, <4>3
    <3>2. CASE v # w
      <4>1. consumer[v].pc = "retry" BY <2>4, <3>2, <1>4
      <4>2. consumer[v].copy \in Copy BY <4>1, <1>1, BusyHasCopy DEF Waiting
      <4>3. failed[consumer[v].copy.job] > consumer[v].copy.attempts
        BY <4>1 DEF QueueInv, CopiesPending
      <4>4. consumer[v].copy.job \in Jobs /\ consumer[v].copy.attempts \in Nat
        BY <4>2, QueueAssumption DEF Copy
      <4> QED BY <3>0, <4>3, <4>4, <1>5
    <3> QED BY <3>1, <3>2
  <2>5. \A d \in Copy : processing[d] > 0 => Pending(d)'
    BY <1>7 DEF QueueInv, CopiesPending
  <2> QED BY <2>1, <2>2, <2>3, <2>4, <2>5, <1>1 DEF CopiesPending
<1>9. DeadAfterAttempts'
  <2> SUFFICES ASSUME NEW d \in Copy, d.job \notin Unroutable
        PROVE /\ dead'[d] > 0 => failed'[d.job] >= MaxAttempts
              /\ ready'[d] > 0 \/ processing'[d] > 0 \/ d \in delayed' => failed'[d.job] >= d.attempts
    BY DEF DeadAfterAttempts
  <2>1. d.job \in Jobs /\ d.attempts \in Nat /\ MaxAttempts \in Nat
    BY QueueAssumption DEF Copy
  <2>2. failed'[d.job] >= failed[d.job] /\ failed[d.job] \in Nat /\ failed'[d.job] \in Nat
    BY <2>1, <1>5
  <2> QED BY <2>1, <2>2, <1>1 DEF QueueInv, DeadAfterAttempts
<1>10. HeldIsListed' /\ \A i : Orphaned(i) => Orphaned(i)'
  BY <1>1, <1>4, HoldersKept
<1>11. FewDropped'
  <2> SUFFICES ASSUME NEW i \in enqueued', i \notin done', i \notin Dropped
               PROVE  Owed(i)'
    BY <1>6, FewStay DEF Handle
  <2>1. Owed(i) BY <1>1, <1>3 DEF Dropped
  <2>2. c.job = i => consumer'[w].pc = "retry" BY <1>3, <1>4
  <2>3. ASSUME NEW v \in Workers, consumer[v].pc \in {"handle", "retry"}, consumer[v].copy.job = i
        PROVE  Owed(i)'
    <3>1. consumer'[v].pc \in {"handle", "retry"} BY <2>2, <2>3, <1>4
    <3> QED BY <2>3, <3>1, <1>4 DEF Owed
  <2> QED BY <2>1, <2>3, <1>1, <1>10 DEF Owed
<1> QED BY <1>6, <1>8, <1>9, <1>10, <1>11 DEF QueueInv

LEMMA RetryKeeps ==
    ASSUME QueueInv, NEW w \in Workers, Retry(w)
    PROVE  QueueInv'
<1> DEFINE c == consumer[w].copy
<1>1. /\ TypeOK /\ dead \in Bag
      /\ consumer[w] # Waiting /\ consumer[w].pc = "retry"
      /\ consumer' = [consumer EXCEPT ![w].pc = "ack"]
      /\ UNCHANGED <<enqueued, ready, processing, listed, done, failed, crashes, faults>>
  BY DEF QueueInv, TypeOK, Retry, Waiting
<1>2. /\ c \in Copy /\ c.job \in Jobs /\ c.attempts \in Nat
      /\ c.attempts < MaxAttempts /\ failed[c.job] > c.attempts
  BY <1>1, BusyHasCopy DEF QueueInv, CopiesPending, Pending, Copy
<1>3. /\ Again(c) \in Copy /\ Again(c).job = c.job
      /\ Again(c).attempts = c.attempts + 1
  BY <1>2, AgainIsCopy
<1>4. failed[c.job] \in Nat /\ failed[c.job] >= Again(c).attempts
  BY <1>1, <1>2, <1>3 DEF TypeOK
<1>5. \/ /\ Again(c).attempts >= MaxAttempts
         /\ dead' = Add(dead, Again(c)) /\ delayed' = delayed
      \/ /\ Pending(Again(c))
         /\ delayed' = delayed \union {Again(c)} /\ dead' = dead
  BY <1>2, <1>3, <1>4, QueueAssumption DEF Retry, Exhausted, Pending
<1>6. /\ consumer'[w] = [pc |-> "ack", copy |-> c]
      /\ \A v \in Workers : v # w => consumer'[v] = consumer[v]
  BY <1>1, ConsumerMoves
<1>7. TypeOK'
  <2>1. dead' \in Bag /\ delayed' \subseteq Copy
    BY <1>1, <1>3, <1>5, BagUpdates DEF TypeOK
  <2> QED BY <2>1, <1>1, ConsumerMoves DEF TypeOK
<1>8. CopiesPending'
  <2>1. \A d \in delayed' : Pending(d)
    BY <1>1, <1>5 DEF QueueInv, CopiesPending, TypeOK
  <2>2. Pending(c) BY <1>1 DEF QueueInv, CopiesPending
  <2> QED BY <2>1, <2>2, <1>1, <1>6 DEF QueueInv, CopiesPending, Pending
<1>9. DeadAfterAttempts'
  <2>0. Again(c).attempts >= MaxAttempts => failed[c.job] >= MaxAttempts
    BY <1>2, <1>3, <1>4, QueueAssumption
  <2>1. \A d \in Copy : dead'[d] > 0 =>
            dead[d] > 0 \/ failed[d.job] >= MaxAttempts
    <3> SUFFICES ASSUME NEW d \in Copy, dead'[d] > 0
                 PROVE  dead[d] > 0 \/ failed[d.job] >= MaxAttempts
      OBVIOUS
    <3>1. CASE d = Again(c) /\ dead' # dead BY <3>1, <2>0, <1>3, <1>5
    <3>2. CASE dead' = dead BY <3>2
    <3>3. CASE d # Again(c) /\ dead' = Add(dead, Again(c))
      <4>1. dead \in Bag BY <1>1 DEF QueueInv, TypeOK
      <4>2. Add(dead, Again(c))[d] = dead[d] BY <1>3, <3>3, <4>1, BagUpdates
      <4> QED BY <3>3, <4>2
    <3> QED BY <1>5, <3>1, <3>2, <3>3
  <2>2. \A d \in delayed' : d \in delayed \/ failed[d.job] >= d.attempts
    BY <1>3, <1>4, <1>5
  <2> QED BY <2>1, <2>2, <1>1 DEF QueueInv, DeadAfterAttempts
<1>10. HeldIsListed' /\ \A i : Orphaned(i) => Orphaned(i)'
  BY <1>1, <1>6, HoldersKept
<1>11. FewDropped'
  <2> SUFFICES ASSUME NEW i \in enqueued', i \notin done', i \notin Dropped
               PROVE  Owed(i)'
    BY <1>7, FewStay DEF Retry
  <2>1. Owed(i) BY <1>1 DEF Dropped
  <2>2. Again(c) \in delayed' \/ dead'[Again(c)] > 0
    BY <1>1, <1>3, <1>5, BagUpdates DEF Bag
  <2>3. /\ delayed \subseteq delayed'
        /\ \A d \in Copy : dead[d] > 0 => dead'[d] > 0
    BY <1>1, <1>3, <1>5, MoreStays
  <2>4. CASE i = c.job BY <2>2, <2>4, <1>3 DEF Owed
  <2>5. CASE i # c.job BY <2>1, <2>3, <2>5, <1>1, <1>6, <1>10 DEF Owed
  <2> QED BY <2>4, <2>5
<1> QED BY <1>7, <1>8, <1>9, <1>10, <1>11 DEF QueueInv

(* Ack and Crash take a consumer away from its copy.                        *)
LEMMA ConsumerLeaves ==
    ASSUME QueueInv, NEW w \in Workers, consumer' = [consumer EXCEPT ![w] = Waiting]
    PROVE  /\ consumer'[w] = Waiting
           /\ \A v \in Workers : v # w => consumer'[v] = consumer[v]
           /\ consumer' \in [Workers -> {Waiting} \union
                                 [pc : {"handle", "retry", "ack"}, copy : Copy]]
           /\ \A d \in Copy : /\ Holders(d)' = Holders(d) \ {w}
                              /\ Cardinality(Holders(d)) \in Nat
                              /\ Cardinality(Holders(d))' \in Nat
                              /\ w \in Holders(d) =>
                                     Cardinality(Holders(d))' = Cardinality(Holders(d)) - 1
                              /\ w \notin Holders(d) =>
                                     Cardinality(Holders(d))' = Cardinality(Holders(d))
<1>1. /\ consumer'[w] = Waiting
      /\ \A v \in Workers : v # w => consumer'[v] = consumer[v]
  BY DEF QueueInv, TypeOK
<1>2. consumer' \in [Workers -> {Waiting} \union [pc : {"handle", "retry", "ack"}, copy : Copy]]
  BY DEF QueueInv, TypeOK
<1>3. ASSUME NEW d \in Copy
      PROVE  /\ Holders(d)' = Holders(d) \ {w}
             /\ Cardinality(Holders(d)) \in Nat
             /\ Cardinality(Holders(d))' \in Nat
             /\ w \in Holders(d) => Cardinality(Holders(d))' = Cardinality(Holders(d)) - 1
             /\ w \notin Holders(d) => Cardinality(Holders(d))' = Cardinality(Holders(d))
  <2>1. Holders(d)' = Holders(d) \ {w}
    BY <1>1, NoCopyAssumption DEF Holders, Waiting
  <2>2. IsFiniteSet(Holders(d)) /\ Cardinality(Holders(d)) \in Nat BY HoldersFinite
  <2>3. CASE w \in Holders(d)
    <3>1. Cardinality(Holders(d) \ {w}) = Cardinality(Holders(d)) - 1
      BY <2>2, <2>3, FS_RemoveElement
    <3>2. IsFiniteSet(Holders(d) \ {w}) BY <2>2, FS_RemoveElement
    <3>3. Cardinality(Holders(d) \ {w}) \in Nat BY <3>2, FS_CardinalityType
    <3> QED BY <2>1, <2>2, <2>3, <3>1, <3>3
  <2>4. CASE w \notin Holders(d)
    <3>1. Holders(d) \ {w} = Holders(d) BY <2>4
    <3> QED BY <2>1, <2>2, <2>4, <3>1
  <2> QED BY <2>3, <2>4
<1> QED BY <1>1, <1>2, <1>3

(* A consumer whose copy the LREM removes: Ack, and a handler that panics.   *)
LEMMA Acked ==
    ASSUME QueueInv, NEW w \in Workers, consumer[w] # Waiting,
           processing' = Remove(processing, consumer[w].copy),
           consumer' = [consumer EXCEPT ![w] = Waiting],
           listed' \in [Workers -> SUBSET Copy],
           \A v \in Workers : listed'[v] \subseteq listed[v],
           faults' \in {faults, faults + 1}, faults' <= MaxFaults,
           UNCHANGED <<enqueued, ready, delayed, dead, done, failed, crashes>>
    PROVE  /\ TypeOK' /\ CopiesPending' /\ DeadAfterAttempts' /\ HeldIsListed'
           /\ \A i : Owed(i) => \/ Owed(i)'
                               \/ /\ consumer[w].pc \in {"handle", "retry"}
                                  /\ i = consumer[w].copy.job
<1> DEFINE c == consumer[w].copy
<1>1. /\ TypeOK /\ processing \in Bag
      /\ consumer[w] # Waiting
      /\ processing' = Remove(processing, c)
      /\ consumer' = [consumer EXCEPT ![w] = Waiting]
      /\ UNCHANGED <<enqueued, ready, delayed, dead, done, failed, crashes>>
  BY DEF QueueInv, TypeOK
<1>2. c \in Copy /\ w \in Holders(c) BY <1>1, BusyHasCopy
<1>11. \A d \in Copy : d # c => processing'[d] = processing[d]
  <2>1. \A d \in Copy : d # c => Remove(processing, c)[d] = processing[d]
    BY <1>1, <1>2, BagUpdates
  <2> QED BY <2>1
<1>3. TypeOK'
  <2>1. faults' \in 0..MaxFaults BY <1>1, QueueAssumption DEF TypeOK
  <2> QED BY <2>1, <1>1, <1>2, ConsumerLeaves, BagUpdates DEF TypeOK
<1>4. ASSUME NEW d \in Copy, processing'[d] > 0
      PROVE  processing[d] > 0
  <2>1. processing[d] \in Nat BY <1>1 DEF Bag
  <2>2. CASE d = c BY <2>1, <2>2, <1>1, <1>2, <1>4, BagUpdates
  <2>3. CASE d # c BY <2>3, <1>4, <1>11
  <2> QED BY <2>2, <2>3
<1>5. CopiesPending'
  BY <1>1, <1>4, ConsumerLeaves DEF QueueInv, CopiesPending, Pending, Waiting
<1>6. DeadAfterAttempts'
  BY <1>1, <1>4 DEF QueueInv, DeadAfterAttempts
<1>7. ASSUME NEW d \in Copy
      PROVE  processing'[d] - Cardinality(Holders(d))' = processing[d] - Cardinality(Holders(d))
  <2>1. processing[d] \in Nat /\ processing[d] >= Cardinality(Holders(d))
    BY <1>1 DEF Bag, QueueInv, HeldIsListed
  <2>2. CASE d = c
    <3>1. w \in Holders(d) BY <1>2, <2>2
    <3>2. /\ Cardinality(Holders(d)) \in Nat /\ Cardinality(Holders(d))' \in Nat
          /\ Cardinality(Holders(d))' = Cardinality(Holders(d)) - 1
      BY <3>1, <1>1, ConsumerLeaves
    <3>3. processing'[d] = IF processing[d] = 0 THEN 0 ELSE processing[d] - 1
      BY <2>2, <1>1, <1>2, BagUpdates
    <3> QED BY <2>1, <3>2, <3>3
  <2>3. CASE d # c
    <3>1. w \notin Holders(d) BY <2>3 DEF Holders
    <3>2. Cardinality(Holders(d))' = Cardinality(Holders(d))
      BY <3>1, <1>1, ConsumerLeaves
    <3>3. processing'[d] = processing[d]
      BY <2>3, <1>11
    <3> QED BY <3>2, <3>3
  <2> QED BY <2>2, <2>3
<1>8. \A d \in Copy : /\ processing[d] \in Nat /\ processing'[d] \in Nat
                      /\ Cardinality(Holders(d)) \in Nat /\ Cardinality(Holders(d))' \in Nat
  BY <1>1, <1>3, ConsumerLeaves DEF TypeOK, Bag
<1>9. HeldIsListed' BY <1>7, <1>8 DEF QueueInv, HeldIsListed
<1>10. ASSUME NEW i, Owed(i), ~(consumer[w].pc \in {"handle", "retry"} /\ i = c.job)
       PROVE  Owed(i)'
  <2>2. CASE Orphaned(i) BY <2>2, <1>7, <1>8 DEF Orphaned, Owed
  <2>3. ASSUME NEW v \in Workers, consumer[v].pc \in {"handle", "retry"}, consumer[v].copy.job = i
        PROVE  Owed(i)'
    <3>1. v # w BY <2>3, <1>10
    <3>2. consumer'[v] = consumer[v] BY <3>1, <1>1, ConsumerLeaves
    <3> QED BY <2>3, <3>2 DEF Owed
  <2> QED BY <1>10, <2>2, <2>3, <1>1 DEF Owed
<1> QED BY <1>3, <1>5, <1>6, <1>9, <1>10

LEMMA AckKeeps ==
    ASSUME QueueInv, NEW w \in Workers, Ack(w)
    PROVE  QueueInv'
<1>1. /\ consumer[w] # Waiting /\ consumer[w].pc = "ack"
      /\ processing' = Remove(processing, consumer[w].copy)
      /\ consumer' = [consumer EXCEPT ![w] = Waiting]
      /\ listed' \in [Workers -> SUBSET Copy]
      /\ \A v \in Workers : listed'[v] \subseteq listed[v]
      /\ faults' \in {faults, faults + 1} /\ faults' <= MaxFaults
      /\ UNCHANGED <<enqueued, ready, delayed, dead, done, failed, crashes>>
  BY QueueAssumption DEF QueueInv, TypeOK, Ack, Waiting
<1>2. /\ TypeOK' /\ CopiesPending' /\ DeadAfterAttempts' /\ HeldIsListed'
      /\ \A i : Owed(i) => Owed(i)'
  BY <1>1, Acked
<1>3. \A i \in enqueued' : i \notin done' => i \in Dropped \/ Owed(i)'
  BY <1>1, <1>2 DEF Dropped
<1>4. FewDropped' BY <1>1, <1>2, <1>3, FewStay
<1> QED BY <1>2, <1>4 DEF QueueInv

(* The panic may cost the job that was being handled, and no other.         *)
LEMMA PanicKeeps ==
    ASSUME QueueInv, NEW w \in Workers, Panic(w)
    PROVE  QueueInv'
<1>1. /\ consumer[w] # Waiting
      /\ processing' = Remove(processing, consumer[w].copy)
      /\ consumer' = [consumer EXCEPT ![w] = Waiting]
      /\ listed' \in [Workers -> SUBSET Copy]
      /\ \A v \in Workers : listed'[v] \subseteq listed[v]
      /\ faults' = faults + 1 /\ faults' <= MaxFaults
      /\ UNCHANGED <<enqueued, ready, delayed, dead, done, failed, crashes>>
  BY QueueAssumption DEF QueueInv, TypeOK, Panic, Fault, Waiting
<1>2. /\ TypeOK' /\ CopiesPending' /\ DeadAfterAttempts' /\ HeldIsListed'
      /\ \A i : Owed(i) => Owed(i)' \/ i = consumer[w].copy.job
  BY <1>1, Acked
<1>3. \A i \in enqueued' : i \notin done' =>
          i \in Dropped \/ i = consumer[w].copy.job \/ Owed(i)'
  BY <1>1, <1>2 DEF Dropped
<1>4. FewDropped' BY <1>1, <1>2, <1>3, FewMore
<1> QED BY <1>2, <1>4 DEF QueueInv

(* A consumer that leaves its copy in processing: a death, and a failed     *)
(* LREM.                                                                    *)
LEMMA Orphans ==
    ASSUME QueueInv, NEW w \in Workers,
           consumer' = [consumer EXCEPT ![w] = Waiting],
           listed' \in [Workers -> SUBSET Copy],
           \A v \in Workers : listed'[v] \subseteq listed[v],
           crashes' \in 0..MaxCrashes, faults' \in 0..MaxFaults,
           faults' \in {faults, faults + 1},
           UNCHANGED <<enqueued, ready, processing, delayed, dead, done, failed>>
    PROVE  QueueInv'
<1>1. /\ TypeOK
      /\ UNCHANGED <<enqueued, ready, processing, delayed, dead, done, failed>>
  BY DEF QueueInv
<1>2. TypeOK' BY <1>1, ConsumerLeaves DEF TypeOK
<1>3. CopiesPending'
  BY <1>1, ConsumerLeaves DEF QueueInv, CopiesPending, Pending, Waiting
<1>4. DeadAfterAttempts' BY <1>1 DEF QueueInv, DeadAfterAttempts
<1>5. ASSUME NEW d \in Copy
      PROVE  /\ processing'[d] = processing[d] /\ processing[d] \in Nat
             /\ Cardinality(Holders(d)) \in Nat /\ Cardinality(Holders(d))' \in Nat
             /\ Cardinality(Holders(d))' <= Cardinality(Holders(d))
             /\ w \in Holders(d) => Cardinality(Holders(d))' < Cardinality(Holders(d))
  <2>1. processing'[d] = processing[d] /\ processing[d] \in Nat BY <1>1 DEF TypeOK, Bag
  <2>2. /\ Cardinality(Holders(d)) \in Nat /\ Cardinality(Holders(d))' \in Nat
        /\ w \in Holders(d) => Cardinality(Holders(d))' = Cardinality(Holders(d)) - 1
        /\ w \notin Holders(d) => Cardinality(Holders(d))' = Cardinality(Holders(d))
    BY <1>1, ConsumerLeaves
  <2>3. \A m, n \in Nat : n = m - 1 => n <= m /\ n < m OBVIOUS
  <2>4. CASE w \in Holders(d) BY <2>1, <2>2, <2>3, <2>4
  <2>5. CASE w \notin Holders(d) BY <2>1, <2>2, <2>5
  <2> QED BY <2>4, <2>5
<1>6. HeldIsListed' BY <1>5 DEF QueueInv, HeldIsListed
<1>7. FewDropped'
  <2> SUFFICES ASSUME NEW i \in enqueued', i \notin done', i \notin Dropped
               PROVE  Owed(i)'
    BY <1>2, FewStay
  <2>1. Owed(i) BY <1>1 DEF Dropped
  <2>2. CASE Orphaned(i) BY <2>2, <1>5 DEF Orphaned, Owed
  <2>3. ASSUME NEW v \in Workers, consumer[v].pc \in {"handle", "retry"}, consumer[v].copy.job = i
        PROVE  Owed(i)'
    <3>1. CASE v = w
      <4>1. consumer[w].copy \in Copy /\ w \in Holders(consumer[w].copy)
        BY <2>3, <3>1, <1>1, BusyHasCopy DEF Waiting
      <4>2. PICK d \in Copy : d.job = i /\ w \in Holders(d)
        BY <2>3, <3>1, <4>1
      <4>3. processing'[d] > Cardinality(Holders(d))'
        BY <4>2, <1>5 DEF QueueInv, HeldIsListed
      <4> QED BY <4>2, <4>3 DEF Orphaned, Owed
    <3>2. CASE v # w
      <4>1. consumer'[v] = consumer[v] BY <3>2, <1>1, ConsumerLeaves
      <4> QED BY <2>3, <4>1 DEF Owed
    <3> QED BY <3>1, <3>2
  <2> QED BY <2>1, <2>2, <2>3, <1>1 DEF Owed
<1> QED BY <1>2, <1>3, <1>4, <1>6, <1>7 DEF QueueInv

LEMMA CrashKeeps ==
    ASSUME QueueInv, NEW w \in Workers, Crash(w) \/ AckFails(w)
    PROVE  QueueInv'
<1>1. /\ consumer' = [consumer EXCEPT ![w] = Waiting]
      /\ listed' \in [Workers -> SUBSET Copy]
      /\ \A v \in Workers : listed'[v] \subseteq listed[v]
      /\ UNCHANGED <<enqueued, ready, processing, delayed, dead, done, failed>>
  BY DEF QueueInv, TypeOK, Crash, AckFails
<1>2. /\ crashes' \in 0..MaxCrashes /\ faults' \in 0..MaxFaults
      /\ faults' \in {faults, faults + 1}
  BY QueueAssumption DEF QueueInv, TypeOK, Crash, AckFails, Fault
<1> QED BY <1>1, <1>2, Orphans

LEMMA ListDueKeeps ==
    ASSUME QueueInv, NEW w \in Workers, NEW S \in SUBSET delayed, ListDue(w, S)
    PROVE  QueueInv'
<1>1. /\ TypeOK /\ listed' = [listed EXCEPT ![w] = S]
      /\ UNCHANGED <<enqueued, ready, processing, delayed, dead, consumer, done,
                     failed, crashes, faults>>
  BY DEF QueueInv, ListDue
<1>2. TypeOK' BY <1>1 DEF TypeOK
<1>3. CopiesPending'
  <2>1. \A v \in Workers : \A c \in listed'[v] : c \in listed[v] \/ c \in delayed
    BY <1>1 DEF TypeOK
  <2>2. \A c \in delayed : c \in Copy BY <1>1 DEF TypeOK
  <2> QED BY <2>1, <2>2, <1>1 DEF QueueInv, CopiesPending, Pending
<1>4. DeadAfterAttempts' BY <1>1 DEF QueueInv, DeadAfterAttempts
<1>5. HeldIsListed' /\ \A i : Orphaned(i) => Orphaned(i)' BY <1>1, HoldersKept
<1>6. FewDropped'
  <2>1. \A i \in enqueued' : i \notin done' => i \in Dropped \/ Owed(i)'
    BY <1>1, <1>5 DEF Dropped, Owed
  <2> QED BY <2>1, <1>1, <1>2, FewStay
<1> QED BY <1>2, <1>3, <1>4, <1>5, <1>6 DEF QueueInv

(* What was moved without an answer is stuck in processing.                 *)
LEMMA TakeUnansweredKeeps ==
    ASSUME QueueInv, NEW w \in Workers, TakeUnanswered(w)
    PROVE  QueueInv'
<1>1. PICK c \in Copy : /\ ready[c] > 0
                        /\ ready' = Remove(ready, c)
                        /\ processing' = Add(processing, c)
  BY DEF TakeUnanswered
<1>2. /\ TypeOK /\ ready \in Bag /\ processing \in Bag
      /\ faults' = faults + 1 /\ faults' \in 0..MaxFaults
      /\ UNCHANGED <<enqueued, delayed, dead, consumer, listed, done, failed, crashes>>
  BY QueueAssumption DEF QueueInv, TypeOK, TakeUnanswered, Fault
<1>3. Pending(c) BY <1>1 DEF QueueInv, CopiesPending
<1>4. TypeOK' BY <1>1, <1>2, BagUpdates DEF TypeOK
<1>5. \A d \in Copy : /\ ready'[d] > 0 => ready[d] > 0
                      /\ processing'[d] > 0 => d = c \/ processing[d] > 0
  BY <1>1, <1>2, BagUpdates DEF Bag
<1>6. CopiesPending'
  BY <1>2, <1>3, <1>5 DEF QueueInv, CopiesPending, Pending
<1>7. DeadAfterAttempts'
  BY <1>2, <1>3, <1>5 DEF QueueInv, DeadAfterAttempts, Pending
<1>8. \A d \in Copy : Holders(d)' = Holders(d) BY <1>2 DEF Holders
<1>9. \A d \in Copy : /\ processing'[d] = processing[d] + (IF d = c THEN 1 ELSE 0)
                      /\ processing[d] \in Nat /\ Cardinality(Holders(d)) \in Nat
                      /\ processing[d] >= Cardinality(Holders(d))
  BY <1>1, <1>2, BagUpdates, HoldersFinite DEF Bag, QueueInv, HeldIsListed
<1>10. HeldIsListed'
  <2> SUFFICES ASSUME NEW d \in Copy PROVE processing'[d] >= Cardinality(Holders(d))'
    BY DEF HeldIsListed
  <2> QED BY <1>8, <1>9
<1>11. FewDropped'
  <2> SUFFICES ASSUME NEW i \in enqueued', i \notin done', i \notin Dropped
               PROVE  Owed(i)'
    BY <1>2, <1>4, FewStay
  <2>1. Owed(i) BY <1>2 DEF Dropped
  <2>2. CASE Orphaned(i) BY <2>2, <1>8, <1>9 DEF Orphaned, Owed
  <2>3. CASE i = c.job
    <3>1. processing'[c] > Cardinality(Holders(c))' BY <1>8, <1>9
    <3> QED BY <2>3, <3>1 DEF Orphaned, Owed
  <2>4. ASSUME i # c.job, NEW d \in Copy, d.job = i, ready[d] > 0 \/ d \in delayed \/ dead[d] > 0
        PROVE  Owed(i)'
    <3>1. ready'[d] = ready[d] BY <2>4, <1>1, <1>2, BagUpdates
    <3> QED BY <2>4, <3>1, <1>2 DEF Owed
  <2> QED BY <2>1, <2>2, <2>3, <2>4, <1>2 DEF Owed
<1> QED BY <1>4, <1>6, <1>7, <1>10, <1>11 DEF QueueInv

(* The write of a copy that fails costs the job of that copy.               *)
LEMMA WriteFailsKeeps ==
    ASSUME QueueInv, NEW w \in Workers, WriteFails(w)
    PROVE  QueueInv'
<1> DEFINE c == consumer[w].copy
<1>1. /\ TypeOK /\ consumer[w] # Waiting
      /\ consumer' = [consumer EXCEPT ![w].pc = "ack"]
      /\ faults' = faults + 1 /\ faults' \in 0..MaxFaults
      /\ UNCHANGED <<enqueued, ready, processing, delayed, dead, listed, done, failed,
                     crashes>>
  BY QueueAssumption DEF QueueInv, TypeOK, WriteFails, Fault, Waiting
<1>2. /\ consumer'[w] = [pc |-> "ack", copy |-> c]
      /\ \A v \in Workers : v # w => consumer'[v] = consumer[v]
  BY <1>1, ConsumerMoves
<1>3. TypeOK' BY <1>1, ConsumerMoves DEF TypeOK
<1>4. CopiesPending'
  <2>1. Pending(c) BY <1>1 DEF QueueInv, CopiesPending
  <2> QED BY <2>1, <1>1, <1>2 DEF QueueInv, CopiesPending, Pending
<1>5. DeadAfterAttempts' BY <1>1 DEF QueueInv, DeadAfterAttempts
<1>6. HeldIsListed' /\ \A i : Orphaned(i) => Orphaned(i)'
  BY <1>1, <1>2, HoldersKept
<1>7. FewDropped'
  <2> SUFFICES ASSUME NEW i \in enqueued', i \notin done', i \notin Dropped, i # c.job
               PROVE  Owed(i)'
    BY <1>1, <1>3, FewMore
  <2>1. Owed(i) BY <1>1 DEF Dropped
  <2> QED BY <2>1, <1>1, <1>2, <1>6 DEF Owed
<1> QED BY <1>3, <1>4, <1>5, <1>6, <1>7 DEF QueueInv

(* The ZREM takes a copy out of the delayed set, and the LPUSH that follows *)
(* in the same transaction puts it on the ready list.                       *)
LEMMA PromoteKeeps ==
    ASSUME QueueInv, NEW w \in Workers, Promote(w)
    PROVE  QueueInv'
<1>1. PICK c \in listed[w] : /\ delayed' = delayed \ {c}
                             /\ ready' = Add(ready, c)
                             /\ listed' = [listed EXCEPT ![w] = @ \ {c}]
  BY DEF Promote
<1>2. /\ TypeOK /\ ready \in Bag
      /\ UNCHANGED <<enqueued, processing, dead, consumer, done, failed, crashes, faults>>
  BY DEF QueueInv, TypeOK, Promote
<1>3. c \in Copy BY <1>1, <1>2 DEF TypeOK
<1>4. Pending(c) BY <1>1 DEF QueueInv, CopiesPending
<1>5. TypeOK' BY <1>1, <1>2, <1>3, BagUpdates DEF TypeOK
<1>6. /\ \A d \in Copy : ready'[d] > 0 => d = c \/ ready[d] > 0
      /\ \A d \in Copy : ready[d] > 0 => ready'[d] > 0
      /\ ready'[c] > 0
      /\ \A v \in Workers : listed'[v] \subseteq listed[v]
  <2>1. \A d \in Copy : ready'[d] > 0 => d = c \/ ready[d] > 0
    BY <1>1, <1>2, <1>3, BagUpdates
  <2>2. \A d \in Copy : ready[d] > 0 => ready'[d] > 0
    BY <1>1, <1>2, <1>3, MoreStays
  <2>3. ready[c] \in Nat /\ ready'[c] = ready[c] + 1
    BY <1>1, <1>2, <1>3, BagUpdates DEF Bag
  <2>4. \A v \in Workers : listed'[v] \subseteq listed[v] BY <1>1, <1>2 DEF TypeOK
  <2> QED BY <2>1, <2>2, <2>3, <2>4
<1>7. CopiesPending'
  BY <1>1, <1>2, <1>3, <1>4, <1>6 DEF QueueInv, CopiesPending, Pending
<1>8. DeadAfterAttempts'
  <2>1. failed[c.job] >= c.attempts BY <1>4 DEF Pending
  <2> QED BY <2>1, <1>1, <1>2, <1>6 DEF QueueInv, DeadAfterAttempts
<1>9. HeldIsListed' /\ \A i : Orphaned(i) => Orphaned(i)' BY <1>2, HoldersKept
<1>10. FewDropped'
  <2> SUFFICES ASSUME NEW i \in enqueued', i \notin done', i \notin Dropped
               PROVE  Owed(i)'
    BY <1>5, FewStay DEF Promote
  <2>1. Owed(i) BY <1>2 DEF Dropped
  <2>2. \A d \in Copy : d \in delayed => d \in delayed' \/ ready'[d] > 0
    BY <1>1, <1>6
  <2> QED BY <2>1, <2>2, <1>2, <1>6, <1>9 DEF Owed
<1> QED BY <1>5, <1>7, <1>8, <1>9, <1>10 DEF QueueInv

LEMMA PromoteFailsKeeps ==
    ASSUME QueueInv, NEW w \in Workers, PromoteFails(w)
    PROVE  QueueInv'
<1>1. /\ TypeOK /\ listed' \in [Workers -> SUBSET Copy]
      /\ \A v \in Workers : listed'[v] \subseteq listed[v]
      /\ faults' = faults + 1 /\ faults' \in 0..MaxFaults
      /\ UNCHANGED <<enqueued, ready, processing, delayed, dead, consumer, done, failed,
                     crashes>>
  BY QueueAssumption DEF QueueInv, TypeOK, PromoteFails, Fault
<1>2. TypeOK' BY <1>1 DEF TypeOK
<1>3. CopiesPending' BY <1>1 DEF QueueInv, CopiesPending, Pending
<1>4. DeadAfterAttempts' BY <1>1 DEF QueueInv, DeadAfterAttempts
<1>5. HeldIsListed' /\ \A i : Orphaned(i) => Orphaned(i)' BY <1>1, HoldersKept
<1>6. FewDropped'
  <2>1. \A i \in enqueued' : i \notin done' => i \in Dropped \/ Owed(i)'
    BY <1>1, <1>5 DEF Dropped, Owed
  <2> QED BY <2>1, <1>1, <1>2, FewStay
<1> QED BY <1>2, <1>3, <1>4, <1>5, <1>6 DEF QueueInv

LEMMA StutterKeeps ==
    ASSUME QueueInv, UNCHANGED vars
    PROVE  QueueInv'
<1>1. UNCHANGED <<enqueued, ready, processing, delayed, dead, consumer, listed, done,
                  failed, crashes, faults>>
  BY DEF vars
<1>2. TypeOK' BY <1>1 DEF QueueInv, TypeOK
<1>3. CopiesPending' BY <1>1 DEF QueueInv, CopiesPending, Pending
<1>4. DeadAfterAttempts' BY <1>1 DEF QueueInv, DeadAfterAttempts
<1>5. HeldIsListed' /\ \A i : Orphaned(i) => Orphaned(i)' BY <1>1, HoldersKept
<1>6. FewDropped'
  <2>1. \A i \in enqueued' : i \notin done' => i \in Dropped \/ Owed(i)'
    BY <1>1, <1>5 DEF Dropped, Owed
  <2> QED BY <2>1, <1>1, <1>2, FewStay
<1> QED BY <1>2, <1>3, <1>4, <1>5, <1>6 DEF QueueInv

(* The invariant of the queue: QueueInv holds at every point, whoever dies, *)
(* whichever command fails and whichever handler panics.                    *)
THEOREM QueueInvariant == Spec => []QueueInv
<1>1. Init => QueueInv BY InitEstablishes
<1>2. QueueInv /\ [Next]_vars => QueueInv'
  <2> SUFFICES ASSUME QueueInv, [Next]_vars PROVE QueueInv' OBVIOUS
  <2>1. ASSUME NEW j \in Jobs, Enqueue(j) \/ EnqueueIn(j) PROVE QueueInv'
    BY <2>1, EnqueueKeeps
  <2>2. ASSUME NEW w \in Workers, Take(w) PROVE QueueInv' BY <2>2, TakeKeeps
  <2>3. ASSUME NEW w \in Workers, Drop(w) PROVE QueueInv' BY <2>3, DropKeeps
  <2>4. ASSUME NEW w \in Workers, Handle(w) PROVE QueueInv' BY <2>4, HandleKeeps
  <2>5. ASSUME NEW w \in Workers, Retry(w) PROVE QueueInv' BY <2>5, RetryKeeps
  <2>6. ASSUME NEW w \in Workers, Ack(w) PROVE QueueInv' BY <2>6, AckKeeps
  <2>7. ASSUME NEW w \in Workers, NEW S \in SUBSET delayed, ListDue(w, S) PROVE QueueInv'
    BY <2>7, ListDueKeeps
  <2>8. ASSUME NEW w \in Workers, Promote(w) PROVE QueueInv' BY <2>8, PromoteKeeps
  <2>9. ASSUME NEW w \in Workers, Crash(w) \/ AckFails(w) PROVE QueueInv'
    BY <2>9, CrashKeeps
  <2>11. ASSUME NEW w \in Workers, TakeUnanswered(w) PROVE QueueInv'
    BY <2>11, TakeUnansweredKeeps
  <2>12. ASSUME NEW w \in Workers, WriteFails(w) PROVE QueueInv' BY <2>12, WriteFailsKeeps
  <2>13. ASSUME NEW w \in Workers, PromoteFails(w) PROVE QueueInv'
    BY <2>13, PromoteFailsKeeps
  <2>14. ASSUME NEW w \in Workers, Panic(w) PROVE QueueInv' BY <2>14, PanicKeeps
  <2>10. CASE UNCHANGED vars BY <2>10, StutterKeeps
  <2> QED
    BY <2>1, <2>2, <2>3, <2>4, <2>5, <2>6, <2>7, <2>8, <2>9, <2>10, <2>11,
       <2>12, <2>13, <2>14 DEF Next
<1> QED BY <1>1, <1>2, PTL DEF Spec

(* No copy claims attempts that were not made, and only a job that used all *)
(* of them up is dead-lettered, for any number of jobs, workers and deaths. *)
THEOREM DeadHadAllAttempts == Spec => []DeadAfterAttempts
<1>1. QueueInv => DeadAfterAttempts BY DEF QueueInv
<1> QED BY <1>1, QueueInvariant, PTL

(* A job that is owed is in one of the four structures: what a consumer has *)
(* in hand is in the processing list.                                       *)
LEMMA OwedInRedis ==
    ASSUME QueueInv, NEW j, Owed(j)
    PROVE  InRedis(j)
<1>2. CASE Orphaned(j)
  <2>1. PICK c \in Copy : c.job = j /\ processing[c] > Cardinality(Holders(c))
    BY <1>2 DEF Orphaned
  <2>2. processing[c] \in Nat /\ Cardinality(Holders(c)) \in Nat
    BY HoldersFinite DEF QueueInv, TypeOK, Bag
  <2> QED BY <2>1, <2>2 DEF InRedis
<1>3. CASE \E c \in Copy : c.job = j /\ (ready[c] > 0 \/ c \in delayed \/ dead[c] > 0)
  BY <1>3 DEF InRedis
<1>4. ASSUME NEW w \in Workers, consumer[w].pc \in {"handle", "retry"},
             consumer[w].copy.job = j
      PROVE  InRedis(j)
  <2>1. consumer[w] # Waiting BY <1>4 DEF Waiting
  <2> DEFINE c == consumer[w].copy
  <2>2. c \in Copy /\ w \in Holders(c) BY <2>1, BusyHasCopy DEF QueueInv
  <2>3. IsFiniteSet(Holders(c)) /\ Cardinality(Holders(c)) \in Nat
    BY <2>2, HoldersFinite
  <2>4. Cardinality(Holders(c)) # 0 BY <2>2, <2>3, FS_EmptySet
  <2>5. processing[c] \in Nat /\ processing[c] >= Cardinality(Holders(c))
    BY <2>2 DEF QueueInv, HeldIsListed, TypeOK, Bag
  <2>6. processing[c] > 0 BY <2>3, <2>4, <2>5
  <2> QED BY <1>4, <2>2, <2>6 DEF InRedis
<1> QED BY <1>2, <1>3, <1>4 DEF Owed

(* Redis loses one job at most for each failed command or panic, and none   *)
(* by a death or a race, for any number of jobs, workers and deaths.        *)
THEOREM FaultsForgetOneEach == Spec => []OneForgottenPerFault
<1>1. ASSUME QueueInv PROVE OneForgottenPerFault
  <2> DEFINE Lost == {j \in enqueued : j \notin done /\ ~InRedis(j)}
  <2>1. Lost \subseteq Dropped BY <1>1, OwedInRedis DEF Dropped
  <2>2. IsFiniteSet(Dropped) /\ Cardinality(Dropped) <= faults
    BY <1>1 DEF QueueInv, FewDropped
  <2>3. IsFiniteSet(Lost) /\ Cardinality(Lost) <= Cardinality(Dropped)
    BY <2>1, <2>2, FS_Subset
  <2>4. Cardinality(Lost) \in Nat /\ Cardinality(Dropped) \in Nat /\ faults \in Nat
    BY <1>1, <2>2, <2>3, FS_CardinalityType DEF QueueInv, TypeOK
  <2>5. Cardinality(Lost) <= faults BY <2>2, <2>3, <2>4
  <2> QED BY <2>5 DEF OneForgottenPerFault
<1> QED BY <1>1, QueueInvariant, PTL
=============================================================================
