---------------------------- MODULE RateLimiter ----------------------------
(***************************************************************************)
(* The GCRA rate-limit engine of the specification (section 4.3, and the  *)
(* concurrency model of section 5), composed with the limit registry that *)
(* configures it.  The engine's code is not part of this repository, so   *)
(* its operations are written from the specification; the limits it uses *)
(* are the registry's, found by getLimit and precomputed by precompute.   *)
(*                                                                         *)
(* A bucket is a limit name and a bucket key.  The shared cache holds one *)
(* TAT per bucket.  An absent entry reads as now, and an entry expires at *)
(* its TAT, after which it also reads as now; both are the same as a TAT  *)
(* at or below now, so tat starts at 0 and expiry is left implicit.      *)
(*                                                                         *)
(* RA tasks call the engine concurrently.  A single bucket is checked and *)
(* spent in one compare-and-set; a batch of buckets is probed first and   *)
(* then spent bucket by bucket, each spend re-reading its bucket (section *)
(* 5: "probe-then-spend, may read-skew").  After a spend the task's later *)
(* steps may fail, and it refunds what it spent (section 4.6, step 7), or *)
(* its process dies first and the refund is lost (section 9: refunds are  *)
(* best-effort).  Every request costs 1.                                  *)
(***************************************************************************)
EXTENDS RateLimitRegistry

CONSTANTS
  Tasks,        \* the RA tasks calling the engine
  Buckets,      \* the buckets they use: [name, key]
  Batches,      \* the bucket sets a task checks and spends together
  EngineFiles,  \* the start-up files <<defaults, overrides>> the engine serves under
  MaxNow,       \* bound on the clock
  MaxRequests   \* bound on spentNet

VARIABLES
  now,       \* the clock, in the registry's ticks
  tat,       \* the cache: [Buckets -> TAT]
  task,      \* each task's progress through a batch
  spentNet   \* [Buckets -> requests spent less requests refunded] (history)

engineVars == <<now, tat, task, spentNet>>
allVars == <<vars, engineVars>>

Idle == [pc |-> "idle", pending |-> {}, spent |-> {}]

\* The limit the engine applies to a bucket.
BucketLimit(b) == getLimit(registry, b.name, b.key).limit

Later(a, b) == IF a >= b THEN a ELSE b

----------------------------------------------------------------------------
(* The algorithm.                                                          *)

\* Steps 1-4 of section 4.3 for one request of cost c on a bucket of TAT t.
decide(l, t, at, c) ==
  LET newTAT == Later(at, t) + c * l.emissionInterval
      allowAt == newTAT - l.burstOffset
  IN  [allowed |-> allowAt <= at, newTAT |-> newTAT,
       retryAfter |-> IF allowAt <= at THEN 0 ELSE allowAt - at]

\* Check(names, keys, costs): permit when every bucket permits, else deny
\* with the earliest time at which every bucket permits.
Check(batch, at) ==
  LET d == [b \in batch |-> decide(BucketLimit(b), tat[b], at, 1)]
      waits == {d[b].retryAfter : b \in {x \in batch : ~d[x].allowed}}
  IN  [allowed |-> waits = {},
       retryAfter |-> IF waits = {} THEN 0 ELSE CHOOSE w \in waits : \A v \in waits : w >= v]

\* Mutant: the spend writes the TAT its probe computed, with no re-read.
spendTATFromProbe(b, probed) == probed
\* The spend of one bucket: a compare-and-set on its current TAT.
spendTAT(b, probed) == decide(BucketLimit(b), tat[b], now, 1).newTAT

\* Refund(key, cost): give back one emission interval, never below
\* now - burstOffset.
refundTAT(b) ==
  Later(tat[b] - BucketLimit(b).emissionInterval, now - BucketLimit(b).burstOffset)

----------------------------------------------------------------------------
(* Operations.                                                             *)

\* The engine serves a registry built from one of EngineFiles.  Its steps
\* and the registry's other callers' (Dump, GetLimit) are independent, so
\* the engine is explored on a registry nobody else has queried, and the
\* registry's queries on an engine that has not started.
EngineStarted == task # [w \in Tasks |-> Idle] \/ now # 0 \/ tat # [b \in Buckets |-> 0]
Serving ==
  /\ registry.status = "ok" /\ files \in EngineFiles
  /\ dump.status = "none" /\ lookup = NoLookup

EngineInit ==
  /\ Init
  /\ now = 0
  /\ tat = [b \in Buckets |-> 0]
  /\ task = [w \in Tasks |-> Idle]
  /\ spentNet = [b \in Buckets |-> 0]

\* The registry's own steps leave the engine alone.
RegistryStep == ~EngineStarted /\ Next /\ UNCHANGED engineVars

Tick ==
  /\ Serving
  /\ now < MaxNow
  /\ now' = now + 1
  /\ UNCHANGED <<vars, tat, task, spentNet>>

\* A new request on some buckets, while the bound on requests allows.
Admissible(batch) == \A b \in batch : spentNet[b] < MaxRequests

\* BatchCheckAndSpend, first half: probe every bucket.  A denial spends
\* nothing and ends the request; a permit leaves the spends to do.
Probe(w, batch) ==
  /\ Serving
  /\ task[w].pc = "idle"
  /\ Admissible(batch)
  /\ LET d == Check(batch, now) IN
       task' = [task EXCEPT ![w] =
                  IF d.allowed
                  THEN [pc |-> "spending",
                        pending |-> {[bucket |-> b,
                                      newTAT |-> decide(BucketLimit(b), tat[b], now, 1).newTAT]
                                     : b \in batch},
                        spent |-> {}]
                  ELSE Idle]
  /\ UNCHANGED <<vars, now, tat, spentNet>>

\* BatchCheckAndSpend, second half: spend one probed bucket.
SpendBucket(w, p) ==
  /\ task[w].pc = "spending"
  /\ p \in task[w].pending
  /\ tat' = [tat EXCEPT ![p.bucket] = spendTAT(p.bucket, p.newTAT)]
  /\ spentNet' = [spentNet EXCEPT ![p.bucket] = @ + 1]
  /\ task' = [task EXCEPT ![w] =
                [pc |-> IF task[w].pending = {p} THEN "spent" ELSE "spending",
                 pending |-> task[w].pending \ {p},
                 spent |-> task[w].spent \cup {p.bucket}]]
  /\ UNCHANGED <<vars, now>>

\* Spend(key, cost) on one bucket: check and spend in one compare-and-set.
Spend(w, b) ==
  /\ Serving
  /\ task[w].pc = "idle"
  /\ Admissible({b})
  /\ LET d == decide(BucketLimit(b), tat[b], now, 1) IN
       IF d.allowed
       THEN /\ tat' = [tat EXCEPT ![b] = d.newTAT]
            /\ spentNet' = [spentNet EXCEPT ![b] = @ + 1]
            /\ task' = [task EXCEPT ![w] = [pc |-> "spent", pending |-> {}, spent |-> {b}]]
       ELSE UNCHANGED <<tat, spentNet, task>>
  /\ UNCHANGED <<vars, now>>

\* The request the spend was for succeeded.
Finish(w) ==
  /\ task[w].pc = "spent"
  /\ task' = [task EXCEPT ![w] = Idle]
  /\ UNCHANGED <<vars, now, tat, spentNet>>

\* The request failed after its spend: refund every bucket it spent.
Refund(w) ==
  /\ task[w].pc = "spent"
  /\ tat' = [b \in Buckets |-> IF b \in task[w].spent THEN refundTAT(b) ELSE tat[b]]
  /\ spentNet' = [b \in Buckets |-> IF b \in task[w].spent THEN spentNet[b] - 1 ELSE spentNet[b]]
  /\ task' = [task EXCEPT ![w] = Idle]
  /\ UNCHANGED <<vars, now>>

\* The RA process dies between the spends and the refund.
TaskCrash(w) ==
  /\ task[w].pc \in {"spending", "spent"}
  /\ task' = [task EXCEPT ![w] = Idle]
  /\ UNCHANGED <<vars, now, tat, spentNet>>

EngineNext ==
  \/ RegistryStep
  \/ Tick
  \/ \E w \in Tasks :
       \/ \E batch \in Batches : Probe(w, batch)
       \/ \E p \in task[w].pending : SpendBucket(w, p)
       \/ \E b \in Buckets : Spend(w, b)
       \/ Finish(w)
       \/ Refund(w)
       \/ TaskCrash(w)

EngineSpec == EngineInit /\ [][EngineNext]_allVars

----------------------------------------------------------------------------
(* Properties.                                                             *)

\* What the limit admits on bucket b since time 0: the burst, plus one per
\* emission interval elapsed (a zero interval refills on every tick).
Admitted(b) ==
  BucketLimit(b).burst + now \div Later(BucketLimit(b).emissionInterval, 1)

\* Section 5: across buckets the probe may read-skew, "which is acceptable
\* because overspend is bounded by burst".  On every bucket, the requests
\* spent less those refunded never exceed what the limit admits by more
\* than the burst, whatever the interleaving of probes, spends, refunds
\* and crashes of the tasks.
AdmissionsWithinRate ==
  Serving => \A b \in Buckets : spentNet[b] <= Admitted(b) + BucketLimit(b).burst

\* The bound probe-then-spend does keep.  A task holds one probe at a time
\* and every spend re-reads the TAT it advances, so a bucket is overspent
\* only by the tasks whose probes raced one last unit of capacity: on
\* every bucket, requests spent less those refunded never exceed what the
\* limit admits by more than one per other task, whatever the interleaving
\* of probes, spends, refunds and crashes.
AdmissionsWithinConcurrency ==
  Serving => \A b \in Buckets : spentNet[b] <= Admitted(b) + Cardinality(Tasks) - 1

\* Law 5 of section 8, for every limit the registry gives the engine's
\* buckets: on a fresh bucket exactly burst requests succeed at one
\* instant, the next is denied with retryAfter in (0, emissionInterval],
\* and after waiting k emission intervals exactly k more succeed.
GcraBurstLaw ==
  Serving =>
    \A b \in Buckets :
      LET l == BucketLimit(b)
          ei == l.emissionInterval
          \* the TAT after n permitted requests at time 0
          full(n) == n * ei
      IN  /\ \A i \in 1..l.burst : decide(l, full(i - 1), 0, 1).allowed
          /\ ~decide(l, full(l.burst), 0, 1).allowed
          /\ decide(l, full(l.burst), 0, 1).retryAfter \in 1..ei
          /\ \A k \in 1..l.burst :
               /\ \A j \in 1..k : decide(l, full(l.burst + j - 1), k * ei, 1).allowed
               /\ ~decide(l, full(l.burst + k), k * ei, 1).allowed
=============================================================================
