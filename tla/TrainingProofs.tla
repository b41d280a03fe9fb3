--------------------------- MODULE TrainingProofs ---------------------------
(***************************************************************************)
(* Proofs about a training step, from the rollouts to the update.          *)
(*                                                                         *)
(* RolloutBatch, for any number of environments, retries and attempts: its *)
(* types, ResultsOnce and RunningIsServed.  PpoBatch, for any number of    *)
(* prompts, samples, steps and workers: its types, RowsBelong,             *)
(* AdvantageIsOwn, UpdateIsWhole and CrashCauses.  Then, about the two     *)
(* together, that the results of the one are an input of the other.        *)
(***************************************************************************)
EXTENDS RolloutBatch, PpoBatch, FiniteSetTheorems, SequenceTheorems, TLAPS

Typed ==
  /\ traj \in [Envs -> {"running", "returned", "failed", "cancelled"}]
  /\ pending \in Seq(Envs) /\ onThread \subseteq Envs
  /\ finished \in Seq(Envs) /\ yielded \in 0..Len(finished)
  /\ gen \in {"running", "finished", "raised"} /\ awake \in BOOLEAN
  /\ queue \in Seq(Envs \cup {Sentinel}) /\ got \in Seq(Envs \cup {Sentinel})

Once(s) == \A i, j \in 1..Len(s) : s[i] = s[j] => i = j

(* A job, waiting or executed, is of a running trajectory, which has one.  *)
Jobs ==
  /\ Once(pending)
  /\ \A i \in 1..Len(pending) : traj[pending[i]] = "running" /\ pending[i] \notin onThread
  /\ \A e \in onThread : traj[e] = "running"

(* A trajectory finishes once, and what was yielded has returned.          *)
Done ==
  /\ Once(finished)
  /\ \A i \in 1..Len(finished) : traj[finished[i]] \in {"returned", "failed"}
  /\ \A i \in 1..yielded : traj[finished[i]] = "returned"

(* What goes through the queue: what was yielded, then the sentinel.       *)
Flow(i) == IF i <= yielded THEN finished[i] ELSE Sentinel
Delivered ==
  /\ Len(got) + Len(queue) = yielded + (IF gen = "finished" THEN 1 ELSE 0)
  /\ \A i \in 1..Len(got) : got[i] = Flow(i)
  /\ \A i \in 1..Len(queue) : queue[i] = Flow(Len(got) + i)
  /\ gen = "finished" => yielded = Cardinality(Envs)
  /\ gen # "finished" => awake

IInv == Typed /\ Jobs /\ Done /\ Delivered

(* Once it has yielded as many results as there are environments, it has   *)
(* yielded one of each.                                                    *)
LEMMA AllYielded ==
  ASSUME Typed, Done, yielded = Cardinality(Envs)
  PROVE  /\ Len(finished) = yielded
         /\ \A e \in Envs : \E i \in 1..yielded : finished[i] = e
<1> DEFINE n == Len(finished)
<1>1. n \in Nat /\ finished \in [1..n -> Envs] /\ yielded <= n /\ yielded \in Nat
  BY DEF Typed
<1>2. finished \in Injection(1..n, Envs)
  BY <1>1 DEF Done, Once, Injection, IsInjective
<1>3. /\ Cardinality(1..n) <= Cardinality(Envs)
      /\ Cardinality(1..n) = Cardinality(Envs) <=> finished \in Surjection(1..n, Envs)
  BY <1>2, FS_Injection, BatchAssumption
<1>4. Cardinality(1..n) = n
  <2> HIDE DEF n
  <2>1. 1 \in Int /\ n \in Int
    BY <1>1
  <2>2. Cardinality(1..n) = IF 1 > n THEN 0 ELSE n - 1 + 1
    BY ONLY <2>1, FS_Interval
  <2> QED BY <1>1, <2>2
<1>5. n = yielded
  BY <1>1, <1>3, <1>4
<1>6. finished \in Surjection(1..n, Envs)
  BY <1>3, <1>4, <1>5
<1> QED BY <1>1, <1>5, <1>6 DEF Surjection

(* RemoveFirst takes the only occurrence out.                              *)
LEMMA Removed ==
  ASSUME NEW S, NEW s \in Seq(S), NEW e, Once(s)
  PROVE  /\ RemoveFirst(s, e) \in Seq(S) /\ Once(RemoveFirst(s, e))
         /\ \A i \in 1..Len(RemoveFirst(s, e)) :
              RemoveFirst(s, e)[i] # e /\ \E j \in 1..Len(s) : RemoveFirst(s, e)[i] = s[j]
<1> DEFINE t == RemoveFirst(s, e)
<1>1. CASE ~\E i \in 1..Len(s) : s[i] = e
  <2>1. t = s
    BY <1>1 DEF RemoveFirst
  <2> HIDE DEF t
  <2> QED BY <1>1, <2>1 DEF t
<1>2. CASE \E i \in 1..Len(s) : s[i] = e
  <2>1. PICK k \in 1..Len(s) : s[k] = e
    BY <1>2
  <2>2. {i \in 1..Len(s) : s[i] = e} = {k}
    BY <2>1 DEF Once
  <2>3. SelectInSeq(s, LAMBDA v : v = e) = k
    BY <2>2 DEF SelectInSeq, Min
  <2> DEFINE l == SubSeq(s, 1, k - 1)
             r == SubSeq(s, k + 1, Len(s))
  <2>4. t = l \o r
    BY <1>2, <2>3 DEF RemoveFirst, RemoveAt
  <2>5. /\ Len(s) \in Nat /\ k \in Nat \ {0} /\ k <= Len(s)
        /\ \A i \in 1..(k - 1) : s[i] \in S
        /\ \A i \in (k + 1)..Len(s) : s[i] \in S
    OBVIOUS
  <2>6. l \in Seq(S) /\ Len(l) = k - 1 /\ \A i \in 1..(k - 1) : l[i] = s[i]
    <3>1. /\ l \in Seq(S) /\ Len(l) = IF 1 <= k - 1 THEN k - 1 - 1 + 1 ELSE 0
          /\ \A i \in 1..(k - 1 - 1 + 1) : l[i] = s[1 + i - 1]
      BY <2>5, SubSeqProperties
    <3> HIDE DEF l
    <3> QED BY <2>5, <3>1
  <2>7. r \in Seq(S) /\ Len(r) = Len(s) - k /\ \A i \in 1..(Len(s) - k) : r[i] = s[k + i]
    <3>1. /\ r \in Seq(S) /\ Len(r) = IF k + 1 <= Len(s) THEN Len(s) - (k + 1) + 1 ELSE 0
          /\ \A i \in 1..(Len(s) - (k + 1) + 1) : r[i] = s[(k + 1) + i - 1]
      BY <2>5, SubSeqProperties
    <3> HIDE DEF r
    <3> QED BY <2>5, <3>1
  <2> HIDE DEF l, r, t
  <2>8. /\ t \in Seq(S) /\ Len(t) = Len(s) - 1
        /\ \A i \in 1..Len(t) : t[i] = IF i <= k - 1 THEN l[i] ELSE r[i - (k - 1)]
    BY <2>4, <2>5, <2>6, <2>7, ConcatProperties
  <2>9. \A i \in 1..Len(t) : /\ i < k => t[i] = s[i] /\ i \in 1..Len(s)
                             /\ i >= k => t[i] = s[i + 1] /\ i + 1 \in 1..Len(s)
    <3> SUFFICES ASSUME NEW i \in 1..Len(t)
                 PROVE  /\ i < k => t[i] = s[i] /\ i \in 1..Len(s)
                        /\ i >= k => t[i] = s[i + 1] /\ i + 1 \in 1..Len(s)
      OBVIOUS
    <3>1. ASSUME i < k PROVE t[i] = s[i] /\ i \in 1..Len(s)
      BY <2>5, <2>6, <2>8, <3>1
    <3>2. ASSUME i >= k PROVE t[i] = s[i + 1] /\ i + 1 \in 1..Len(s)
      <4>1. i - (k - 1) \in 1..(Len(s) - k) /\ k + (i - (k - 1)) = i + 1
        BY <2>5, <2>8, <3>2
      <4> QED BY <2>5, <2>7, <2>8, <3>2, <4>1
    <3> QED BY <3>1, <3>2
  <2>10. \A i \in 1..Len(t) : t[i] # e /\ \E j \in 1..Len(s) : t[i] = s[j]
    BY <2>1, <2>5, <2>8, <2>9 DEF Once
  <2>11. Once(t)
    <3> SUFFICES ASSUME NEW i \in 1..Len(t), NEW j \in 1..Len(t), t[i] = t[j]
                 PROVE  i = j
      BY DEF Once
    <3> DEFINE at(x) == IF x < k THEN x ELSE x + 1
    <3>1. /\ at(i) \in 1..Len(s) /\ s[at(i)] = t[i]
          /\ at(j) \in 1..Len(s) /\ s[at(j)] = t[j]
      BY <2>5, <2>9
    <3>2. at(i) = at(j)
      BY <3>1 DEF Once
    <3> QED BY <3>2, <2>5
  <2> QED BY <2>8, <2>10, <2>11 DEF t
<1> QED BY <1>1, <1>2

(* The jobs when e is given another one, and when it is given none.        *)
LEMMA Rejobbed ==
  ASSUME Typed, Jobs, NEW e \in Envs, traj[e] = "running", onThread' = onThread \ {e},
         \A o \in Envs : o # e => traj'[o] = traj[o],
         \/ pending' = Append(Without(e), e) /\ traj'[e] = "running"
         \/ pending' = Without(e)
  PROVE  pending' \in Seq(Envs) /\ Jobs'
<1> DEFINE w == Without(e)
<1>1. /\ w \in Seq(Envs) /\ Once(w)
      /\ \A i \in 1..Len(w) : w[i] # e /\ \E j \in 1..Len(pending) : w[i] = pending[j]
  BY Removed DEF Typed, Jobs, Without
<1>2. \/ pending' = Append(w, e) /\ traj'[e] = "running"
      \/ pending' = w
  OBVIOUS
<1> HIDE DEF w
<1>3. \A i \in 1..Len(w) : /\ w[i] \in Envs /\ w[i] # e
                           /\ traj'[w[i]] = "running" /\ w[i] \notin onThread'
  <2> SUFFICES ASSUME NEW i \in 1..Len(w)
               PROVE  /\ w[i] \in Envs /\ w[i] # e
                      /\ traj'[w[i]] = "running" /\ w[i] \notin onThread'
    OBVIOUS
  <2>1. PICK j \in 1..Len(pending) : w[i] = pending[j]
    BY <1>1
  <2>2. w[i] \in Envs /\ w[i] # e
    BY <1>1
  <2>3. traj[pending[j]] = "running" /\ pending[j] \notin onThread
    BY DEF Jobs
  <2>4. w[i] \notin onThread'
    BY <2>1, <2>3
  <2> QED BY <2>1, <2>2, <2>3, <2>4
<1>4. \A o \in onThread' : traj'[o] = "running"
  BY DEF Jobs, Typed
<1>5. CASE pending' = w
  BY <1>1, <1>3, <1>4, <1>5 DEF Jobs
<1>6. CASE pending' = Append(w, e) /\ traj'[e] = "running"
  <2>1. /\ pending' \in Seq(Envs) /\ Len(pending') = Len(w) + 1 /\ Len(w) \in Nat
        /\ \A i \in 1..Len(w) : pending'[i] = w[i]
        /\ pending'[Len(w) + 1] = e
    BY <1>1, <1>6, AppendProperties
  <2>2. \A i \in 1..Len(pending') : i \in 1..Len(w) \/ i = Len(w) + 1
    BY <2>1
  <2>3. Once(pending')
    BY <1>1, <1>3, <2>1, <2>2 DEF Once
  <2>4. \A i \in 1..Len(pending') : traj'[pending'[i]] = "running" /\ pending'[i] \notin onThread'
    BY <1>3, <1>6, <2>1, <2>2
  <2> QED BY <1>4, <2>1, <2>3, <2>4 DEF Jobs
<1> QED BY <1>2, <1>5, <1>6

(* A step of the trajectories: at most one of them finishes.               *)
LEMMA TasksInvariant ==
  ASSUME IInv, pending' \in Seq(Envs), onThread' \subseteq Envs, Jobs',
         UNCHANGED <<yielded, gen, awake, queue, got>>,
         \/ UNCHANGED <<traj, finished>>
         \/ \E e \in Envs, r \in {"returned", "failed"} :
              /\ traj[e] = "running" /\ traj' = [traj EXCEPT ![e] = r]
              /\ finished' = Append(finished, e)
  PROVE  IInv'
<1> USE DEF IInv
<1>1. CASE UNCHANGED <<traj, finished>>
  BY <1>1 DEF Typed, Done, Delivered, Flow
<1>2. CASE ~UNCHANGED <<traj, finished>>
  <2>1. PICK e \in Envs, r \in {"returned", "failed"} :
          /\ traj[e] = "running" /\ traj' = [traj EXCEPT ![e] = r]
          /\ finished' = Append(finished, e)
    BY <1>2
  <2>2. /\ finished' \in Seq(Envs) /\ Len(finished') = Len(finished) + 1
        /\ Len(finished) \in Nat /\ yielded \in 0..Len(finished)
        /\ \A i \in 1..Len(finished) : finished'[i] = finished[i] /\ finished[i] \in Envs
        /\ finished'[Len(finished) + 1] = e
    BY <2>1, AppendProperties DEF Typed
  <2>3. Typed'
    BY <2>1, <2>2 DEF Typed
  <2>4. \A i \in 1..Len(finished') : i \in 1..Len(finished) \/ i = Len(finished) + 1
    BY <2>2
  <2>5. \A i \in 1..Len(finished) : finished[i] # e /\ traj'[finished[i]] = traj[finished[i]]
    BY <2>1, <2>2 DEF Done, Typed
  <2>6. Done'
    <3>1. Once(finished')
      BY <2>2, <2>4, <2>5 DEF Done, Once
    <3>2. traj'[e] = r
      BY <2>1 DEF Typed
    <3>3. \A i \in 1..Len(finished') : traj'[finished'[i]] \in {"returned", "failed"}
      BY <2>2, <2>4, <2>5, <3>2 DEF Done
    <3>4. \A i \in 1..yielded' : traj'[finished'[i]] = "returned"
      BY <2>2, <2>5 DEF Done
    <3> QED BY <3>1, <3>3, <3>4 DEF Done
  <2>7. Delivered'
    <3>1. \A i \in Nat \ {0} : Flow(i)' = Flow(i)
      BY <2>2 DEF Flow
    <3>2. Len(got) \in Nat /\ Len(queue) \in Nat
      BY DEF Typed
    <3> QED BY <3>1, <3>2 DEF Delivered
  <2> QED BY <2>3, <2>6, <2>7
<1> QED BY <1>1, <1>2

(* The initial state satisfies the invariant.                              *)
LEMMA InitInvariant == Init => IInv
<1> SUFFICES ASSUME Init PROVE IInv
  OBVIOUS
<1> DEFINE n == Cardinality(Envs)
           q == SetToSeq(Envs)
<1>1. n \in Nat /\ ExistsBijection(1..n, Envs)
  BY FS_CardinalityType, BatchAssumption
<1>2. \E f \in [1..n -> Envs] : IsInjective(f)
  BY <1>1 DEF ExistsBijection, Bijection, Injection
<1>3. q \in [1..n -> Envs] /\ IsInjective(q)
  BY <1>2 DEF SetToSeq
<1> HIDE DEF n, q
<1>4. q \in Seq(Envs) /\ Len(q) = n
  BY <1>1, <1>3
<1>5. Once(q)
  BY <1>3, <1>4 DEF IsInjective, Once
<1>6. pending = q /\ traj = [e \in Envs |-> "running"] /\ onThread = {}
  BY DEF Init, q
<1>7. Typed
  BY <1>4, <1>6 DEF Init, Typed
<1>8. Jobs
  BY <1>4, <1>5, <1>6 DEF Jobs
<1>9. Done /\ Delivered
  BY DEF Init, Done, Once, Delivered
<1> QED BY <1>7, <1>8, <1>9 DEF IInv

(* An attempt that ends is begun again or fails its trajectory.            *)
LEMMA EndAttemptInvariant ==
  ASSUME IInv, NEW e \in Envs, traj[e] = "running", EndAttempt(e),
         onThread' = onThread \ {e}, UNCHANGED <<yielded, gen, awake, queue, got>>
  PROVE  IInv'
<1> USE DEF IInv
<1>1. onThread' \subseteq Envs
  BY DEF Typed
<1>2. CASE attempt[e] < RetryLimit
  <2>1. pending' = Append(Without(e), e) /\ UNCHANGED <<traj, finished>>
    BY <1>2 DEF EndAttempt
  <2>2. pending' \in Seq(Envs) /\ Jobs'
    BY <2>1, Rejobbed
  <2> QED BY <1>1, <2>1, <2>2, TasksInvariant
<1>3. CASE ~(attempt[e] < RetryLimit)
  <2>1. /\ pending' = Without(e) /\ traj' = [traj EXCEPT ![e] = "failed"]
        /\ finished' = Append(finished, e)
    BY <1>3 DEF EndAttempt
  <2>2. \A o \in Envs : o # e => traj'[o] = traj[o]
    BY <2>1 DEF Typed
  <2>3. pending' \in Seq(Envs) /\ Jobs'
    BY <2>1, <2>2, Rejobbed
  <2> QED BY <1>1, <2>1, <2>3, TasksInvariant
<1> QED BY <1>2, <1>3

(* Every step preserves the invariant.                                     *)
LEMMA StepInvariant == IInv /\ [Next]_vars => IInv'
<1> SUFFICES ASSUME IInv, [Next]_vars PROVE IInv'
  OBVIOUS
<1> USE DEF IInv
<1>0. \A e \in onThread : e \in Envs /\ traj[e] = "running"
  BY DEF Typed, Jobs
<1>1. CASE TakeJob
  <2>1. /\ pending # <<>> /\ pending' = Tail(pending) /\ onThread' = onThread \cup {Head(pending)}
        /\ UNCHANGED <<traj, finished, yielded, gen, awake, queue, got>>
    BY <1>1 DEF TakeJob, trajVars, genVars
  <2>2. /\ Head(pending) = pending[1] /\ Head(pending) \in Envs /\ 1 \in 1..Len(pending)
        /\ Tail(pending) \in Seq(Envs)
        /\ \A i \in 1..Len(Tail(pending)) :
             i + 1 \in 1..Len(pending) /\ i + 1 # 1 /\ Tail(pending)[i] = pending[i + 1]
    BY <2>1 DEF Typed
  <2>3. Once(pending')
    <3> SUFFICES ASSUME NEW i \in 1..Len(Tail(pending)), NEW j \in 1..Len(Tail(pending)),
                        Tail(pending)[i] = Tail(pending)[j]
                 PROVE  i = j
      BY <2>1 DEF Once
    <3>1. i + 1 = j + 1
      BY <2>2 DEF Jobs, Once
    <3> QED BY <3>1
  <2>4. Jobs'
    <3>1. \A i \in 1..Len(pending') : traj'[pending'[i]] = "running" /\ pending'[i] \notin onThread'
      BY <2>1, <2>2 DEF Jobs, Once
    <3>2. \A e \in onThread' : traj'[e] = "running"
      BY <2>1, <2>2 DEF Jobs
    <3> QED BY <2>3, <3>1, <3>2 DEF Jobs
  <2>5. pending' \in Seq(Envs) /\ onThread' \subseteq Envs
    BY <2>1, <2>2 DEF Typed
  <2> QED BY <2>1, <2>4, <2>5, TasksInvariant
<1>2. ASSUME NEW e \in Envs, CallReturns(e) PROVE IInv'
  <2>1. /\ e \in onThread /\ onThread' = onThread \ {e} /\ traj[e] = "running"
        /\ UNCHANGED <<yielded, gen, awake, queue, got>> /\ onThread' \subseteq Envs
    BY <1>0, <1>2 DEF CallReturns, Typed
  <2>2. \A i \in 1..Len(pending) : pending[i] # e
    BY <2>1 DEF Jobs
  <2>3. CASE call[e] = "close"
    <3>1. /\ traj' = [traj EXCEPT ![e] = "returned"] /\ finished' = Append(finished, e)
          /\ pending' = pending
      BY <1>2, <2>3 DEF CallReturns
    <3>2. \A o \in Envs : o # e => traj'[o] = traj[o]
      BY <3>1 DEF Typed
    <3>3. Jobs'
      BY <2>1, <2>2, <3>1, <3>2 DEF Jobs, Typed
    <3>4. pending' \in Seq(Envs)
      BY <3>1 DEF Typed
    <3> QED BY <2>1, <3>1, <3>3, <3>4, TasksInvariant
  <2>4. CASE call[e] # "close"
    <3>1. UNCHANGED <<traj, finished>> /\ pending' = Append(pending, e)
      BY <1>2, <2>4 DEF CallReturns
    <3>2. /\ pending' \in Seq(Envs) /\ Len(pending') = Len(pending) + 1 /\ Len(pending) \in Nat
          /\ \A i \in 1..Len(pending) : pending'[i] = pending[i]
          /\ pending'[Len(pending) + 1] = e
      BY <3>1, AppendProperties DEF Typed
    <3>3. \A i \in 1..Len(pending') : i \in 1..Len(pending) \/ i = Len(pending) + 1
      BY <3>2
    <3>4. Once(pending')
      BY <2>2, <3>2, <3>3 DEF Jobs, Once
    <3>5. \A i \in 1..Len(pending') : traj'[pending'[i]] = "running" /\ pending'[i] \notin onThread'
      BY <2>1, <3>1, <3>2, <3>3 DEF Jobs
    <3>6. \A o \in onThread' : traj'[o] = "running"
      BY <2>1, <3>1 DEF Jobs
    <3>7. Jobs'
      BY <3>4, <3>5, <3>6 DEF Jobs
    <3> QED BY <2>1, <3>1, <3>2, <3>7, TasksInvariant
  <2> QED BY <2>3, <2>4
<1>3. ASSUME NEW e \in Envs, StepTimesOut(e) PROVE IInv'
  <2>1. /\ traj[e] = "running" /\ onThread' = onThread \ {e} /\ onThread' \subseteq Envs
        /\ pending' = Append(Without(e), e)
        /\ UNCHANGED <<traj, finished, yielded, gen, awake, queue, got>>
    BY <1>3 DEF StepTimesOut, Abandon, genVars, Typed
  <2>2. pending' \in Seq(Envs) /\ Jobs'
    BY <2>1, Rejobbed
  <2> QED BY <2>1, <2>2, TasksInvariant
<1>4. ASSUME NEW e \in Envs, CallRaises(e) PROVE IInv'
  BY <1>0, <1>4, EndAttemptInvariant DEF CallRaises
<1>5. ASSUME NEW e \in Envs, Deadline(e) PROVE IInv'
  BY <1>5, EndAttemptInvariant DEF Deadline, Abandon
<1>6. CASE StuckEnds
  <2>1. UNCHANGED <<traj, pending, onThread, finished, yielded, gen, awake, queue, got>>
    BY <1>6 DEF StuckEnds, trajVars, genVars
  <2> QED BY <2>1 DEF Typed, Jobs, Done, Delivered, Flow
<1>7. CASE Yield
  <2>1. /\ gen = "running" /\ yielded < Len(finished) /\ traj[Taken] = "returned"
        /\ queue' = Append(queue, Taken) /\ yielded' = yielded + 1
        /\ UNCHANGED <<traj, pending, onThread, finished, gen, awake, got>>
    BY <1>7 DEF Yield, trajVars, poolVars
  <2>2. /\ yielded \in Nat /\ Len(finished) \in Nat /\ Len(got) \in Nat /\ Len(queue) \in Nat
        /\ yielded + 1 \in 1..Len(finished) /\ Taken \in Envs
    BY <2>1 DEF Typed, Taken
  <2>3. /\ queue' \in Seq(Envs \cup {Sentinel}) /\ Len(queue') = Len(queue) + 1
        /\ \A i \in 1..Len(queue) : queue'[i] = queue[i]
        /\ queue'[Len(queue) + 1] = Taken
    BY <2>1, <2>2, AppendProperties DEF Typed
  <2>4. Typed' /\ Jobs'
    BY <2>1, <2>2, <2>3 DEF Typed, Jobs
  <2>5. Done'
    BY <2>1, <2>2 DEF Done, Taken
  <2>6. Delivered'
    <3> DEFINE next(i) == IF i <= yielded + 1 THEN finished[i] ELSE Sentinel
    <3>1. Len(got) + Len(queue) = yielded
      BY <2>1, <2>2 DEF Delivered
    <3>2. \A i \in 1..yielded : Flow(i) = next(i)
      BY <2>2 DEF Flow
    <3>3. next(yielded + 1) = Taken
      BY <2>2 DEF Taken
    <3> HIDE DEF next
    <3>4. \A i \in 1..Len(got) : got[i] = next(i)
      BY <2>2, <3>1, <3>2 DEF Delivered
    <3>5. \A i \in 1..Len(queue') : queue'[i] = next(Len(got) + i)
      <4> SUFFICES ASSUME NEW i \in 1..Len(queue') PROVE queue'[i] = next(Len(got) + i)
        OBVIOUS
      <4>1. CASE i \in 1..Len(queue)
        <5>1. Len(got) + i \in 1..yielded
          BY <2>2, <3>1, <4>1
        <5>2. queue[i] = Flow(Len(got) + i)
          BY <4>1 DEF Delivered
        <5> QED BY <2>3, <3>2, <4>1, <5>1, <5>2
      <4>2. CASE i = Len(queue) + 1
        <5>1. Len(got) + i = yielded + 1
          BY <2>2, <3>1, <4>2
        <5> QED BY <2>3, <3>3, <4>2, <5>1
      <4> QED BY <2>2, <2>3, <4>1, <4>2
    <3>6. Len(got') + Len(queue') = yielded' + 0
      BY <2>1, <2>2, <2>3, <3>1
    <3>7. \A i \in 1..Len(got') : got'[i] = IF i <= yielded' THEN finished'[i] ELSE Sentinel
      BY <2>1, <3>4 DEF next
    <3>8. \A i \in 1..Len(queue') : queue'[i] =
            IF Len(got') + i <= yielded' THEN finished'[Len(got') + i] ELSE Sentinel
      BY <2>1, <3>5 DEF next
    <3>9. gen' = "running" /\ awake'
      BY <2>1 DEF Delivered
    <3> QED BY <3>6, <3>7, <3>8, <3>9 DEF Delivered, Flow
  <2> QED BY <2>4, <2>5, <2>6
<1>8. CASE GeneratorRaises
  <2>1. /\ gen = "running" /\ gen' = "raised" /\ pending' = <<>> /\ onThread' = {}
        /\ traj' = [e \in Envs |-> IF traj[e] = "running" THEN "cancelled" ELSE traj[e]]
        /\ UNCHANGED <<finished, yielded, awake, queue, got>>
    BY <1>8 DEF GeneratorRaises
  <2>2. Typed'
    BY <2>1 DEF Typed
  <2>3. Jobs'
    BY <2>1 DEF Jobs, Once
  <2>4. Done'
    <3>1. \A i \in 1..Len(finished) : finished[i] \in Envs /\ traj'[finished[i]] = traj[finished[i]]
      BY <2>1 DEF Typed, Done
    <3>2. yielded \in 0..Len(finished) /\ Len(finished) \in Nat
      BY DEF Typed
    <3> QED BY <2>1, <3>1, <3>2 DEF Done
  <2>5. Delivered'
    BY <2>1 DEF Delivered, Flow
  <2> QED BY <2>2, <2>3, <2>4, <2>5
<1>9. CASE GeneratorEnds
  <2>1. /\ gen = "running" /\ gen' = "finished" /\ yielded = Cardinality(Envs) /\ awake' = FALSE
        /\ queue' = Append(queue, Sentinel)
        /\ UNCHANGED <<traj, pending, onThread, finished, yielded, got>>
    BY <1>9 DEF GeneratorEnds, trajVars, poolVars
  <2>2. yielded \in Nat /\ Len(got) \in Nat /\ Len(queue) \in Nat
    BY DEF Typed
  <2>3. /\ queue' \in Seq(Envs \cup {Sentinel}) /\ Len(queue') = Len(queue) + 1
        /\ \A i \in 1..Len(queue) : queue'[i] = queue[i]
        /\ queue'[Len(queue) + 1] = Sentinel
    BY <2>1, <2>2, AppendProperties DEF Typed
  <2>4. Typed' /\ Jobs' /\ Done'
    BY <2>1, <2>3 DEF Typed, Jobs, Done
  <2>5. Delivered'
    <3>1. Len(got) + Len(queue) = yielded
      BY <2>1, <2>2 DEF Delivered
    <3>2. Flow(yielded + 1) = Sentinel
      BY <2>2 DEF Flow
    <3>3. \A i \in 1..Len(queue') : queue'[i] = Flow(Len(got) + i)
      <4> SUFFICES ASSUME NEW i \in 1..Len(queue') PROVE queue'[i] = Flow(Len(got) + i)
        OBVIOUS
      <4>1. CASE i \in 1..Len(queue)
        BY <2>3, <4>1 DEF Delivered
      <4>2. CASE i = Len(queue) + 1
        <5>1. Len(got) + i = yielded + 1
          BY <2>2, <3>1, <4>2
        <5> QED BY <2>3, <3>2, <4>2, <5>1
      <4> QED BY <2>2, <2>3, <4>1, <4>2
    <3>4. Len(got') + Len(queue') = yielded' + 1
      BY <2>1, <2>2, <2>3, <3>1
    <3>5. \A i \in 1..Len(got') : got'[i] = IF i <= yielded' THEN finished'[i] ELSE Sentinel
      BY <2>1 DEF Delivered, Flow
    <3>6. \A i \in 1..Len(queue') : queue'[i] =
            IF Len(got') + i <= yielded' THEN finished'[Len(got') + i] ELSE Sentinel
      BY <2>1, <3>3 DEF Flow
    <3>7. gen' = "finished" /\ yielded' = Cardinality(Envs)
      BY <2>1
    <3> QED BY <3>4, <3>5, <3>6, <3>7 DEF Delivered, Flow
  <2> QED BY <2>4, <2>5
<1>10. CASE Consume
  <2>1. /\ queue # <<>> /\ got' = Append(got, Head(queue)) /\ queue' = Tail(queue)
        /\ UNCHANGED <<traj, pending, onThread, finished, yielded, gen, awake>>
    BY <1>10 DEF Consume, trajVars, poolVars, genVars
  <2>2. /\ yielded \in Nat /\ Len(got) \in Nat /\ Len(queue) \in Nat \ {0}
        /\ Head(queue) = queue[1] /\ Head(queue) \in Envs \cup {Sentinel}
        /\ Tail(queue) \in Seq(Envs \cup {Sentinel}) /\ Len(Tail(queue)) = Len(queue) - 1
        /\ \A i \in 1..Len(Tail(queue)) : Tail(queue)[i] = queue[i + 1]
    BY <2>1 DEF Typed
  <2>3. /\ got' \in Seq(Envs \cup {Sentinel}) /\ Len(got') = Len(got) + 1
        /\ \A i \in 1..Len(got) : got'[i] = got[i]
        /\ got'[Len(got) + 1] = Head(queue)
    BY <2>1, <2>2, AppendProperties DEF Typed
  <2>4. Typed' /\ Jobs' /\ Done'
    BY <2>1, <2>2, <2>3 DEF Typed, Jobs, Done
  <2>5. Delivered'
    <3>1. Len(got') + Len(queue') = Len(got) + Len(queue)
      BY <2>1, <2>2, <2>3
    <3>2. \A i \in 1..Len(got') : got'[i] = Flow(i)
      <4>1. got'[Len(got) + 1] = Flow(Len(got) + 1)
        BY <2>2, <2>3 DEF Delivered
      <4>2. \A i \in 1..Len(got') : i \in 1..Len(got) \/ i = Len(got) + 1
        BY <2>2, <2>3
      <4> QED BY <2>3, <4>1, <4>2 DEF Delivered
    <3>3. \A i \in 1..Len(queue') : queue'[i] = Flow(Len(got') + i)
      <4> SUFFICES ASSUME NEW i \in 1..Len(queue') PROVE queue'[i] = Flow(Len(got') + i)
        OBVIOUS
      <4>1. /\ i \in 1..Len(Tail(queue)) /\ i + 1 \in 1..Len(queue)
            /\ Len(got') + i = Len(got) + (i + 1)
        BY <2>1, <2>2, <2>3
      <4>2. queue'[i] = queue[i + 1]
        BY <2>1, <2>2, <4>1
      <4>3. queue[i + 1] = Flow(Len(got) + (i + 1))
        BY <4>1 DEF Delivered
      <4> QED BY <4>1, <4>2, <4>3
    <3>4. \A i \in 1..Len(got') : got'[i] = IF i <= yielded' THEN finished'[i] ELSE Sentinel
      BY <2>1, <3>2 DEF Flow
    <3>5. \A i \in 1..Len(queue') : queue'[i] =
            IF Len(got') + i <= yielded' THEN finished'[Len(got') + i] ELSE Sentinel
      BY <2>1, <3>3 DEF Flow
    <3>6. /\ Len(got') + Len(queue') = yielded' + (IF gen' = "finished" THEN 1 ELSE 0)
          /\ gen' = "finished" => yielded' = Cardinality(Envs)
          /\ gen' # "finished" => awake'
      BY <2>1, <3>1 DEF Delivered
    <3> QED BY <3>4, <3>5, <3>6 DEF Delivered, Flow
  <2> QED BY <2>4, <2>5
<1>11. CASE UNCHANGED vars
  BY <1>11 DEF vars, trajVars, poolVars, genVars, Typed, Jobs, Done, Delivered, Flow
<1> QED
  BY <1>1, <1>2, <1>3, <1>4, <1>5, <1>6, <1>7, <1>8, <1>9, <1>10, <1>11 DEF Next, EventLoop

-----------------------------------------------------------------------------
(* The pool: a worker executes one job or is held by one call given up on. *)
Pool ==
  /\ call \in [Envs -> Calls]
  /\ attempt \in [Envs -> 1..RetryLimit] /\ envTry \in [Envs -> 1..EnvRetries]
  /\ stuck \in Nat
  /\ Busy <= Workers

(* The sizes of sets of environments.                                      *)
LEMMA Sizes ==
  ASSUME NEW T \in SUBSET Envs
  PROVE  /\ IsFiniteSet(T) /\ Cardinality(T) \in Nat /\ Workers \in Nat
         /\ Cardinality(T) <= Workers
         /\ Cardinality(T) = Workers => T = Envs
         /\ \A e \in Envs : /\ e \in T => Cardinality(T \ {e}) = Cardinality(T) - 1
                           /\ e \notin T => Cardinality(T \cup {e}) = Cardinality(T) + 1
<1>1. IsFiniteSet(Envs) /\ IsFiniteSet(T)
  BY FS_Subset, BatchAssumption
<1>2. /\ Cardinality(T) \in Nat /\ Cardinality(Envs) \in Nat
      /\ Cardinality(T) <= Cardinality(Envs)
      /\ Cardinality(Envs) = Cardinality(T) => Envs = T
  BY <1>1, FS_CardinalityType, FS_Subset
<1>3. \A e \in Envs : /\ e \in T => Cardinality(T \ {e}) = Cardinality(T) - 1
                    /\ e \notin T => Cardinality(T \cup {e}) = Cardinality(T) + 1
  BY <1>1, FS_RemoveElement, FS_AddElement
<1> QED BY <1>1, <1>2, <1>3 DEF Workers

(* A call that is given up on leaves the workers as busy as they were, one *)
(* that ends makes one free.                                               *)
LEMMA WorkerLeft ==
  ASSUME Typed, Pool, NEW e \in Envs, onThread' = onThread \ {e},
         stuck' = stuck \/ (e \in onThread /\ stuck' = stuck + 1)
  PROVE  stuck' \in Nat /\ Busy' <= Workers
<1>1. /\ onThread \in SUBSET Envs /\ stuck \in Nat
      /\ Cardinality(onThread) + stuck <= Workers
  BY DEF Typed, Pool, Busy
<1>2. /\ Cardinality(onThread) \in Nat /\ Workers \in Nat
      /\ e \in onThread => Cardinality(onThread \ {e}) = Cardinality(onThread) - 1
      /\ e \notin onThread => onThread \ {e} = onThread
  BY <1>1, Sizes
<1>3. CASE e \in onThread
  <2>1. Cardinality(onThread') = Cardinality(onThread) - 1
    BY <1>2, <1>3
  <2> QED BY <1>1, <1>2, <2>1 DEF Busy
<1>4. CASE e \notin onThread
  <2>1. Cardinality(onThread') = Cardinality(onThread) /\ stuck' = stuck
    BY <1>2, <1>4
  <2> QED BY <1>1, <1>2, <2>1 DEF Busy
<1> QED BY <1>3, <1>4

(* The counters of an attempt that ends.                                   *)
LEMMA AttemptCounters ==
  ASSUME Pool, NEW e \in Envs, EndAttempt(e)
  PROVE  /\ call' \in [Envs -> Calls]
         /\ attempt' \in [Envs -> 1..RetryLimit] /\ envTry' \in [Envs -> 1..EnvRetries]
<1>1. CASE attempt[e] < RetryLimit
  <2>1. /\ attempt' = [attempt EXCEPT ![e] = @ + 1]
        /\ call' = [call EXCEPT ![e] = "reset"] /\ envTry' = [envTry EXCEPT ![e] = 1]
    BY <1>1 DEF EndAttempt
  <2>2. attempt[e] + 1 \in 1..RetryLimit
    BY <1>1, BatchAssumption DEF Pool
  <2>3. attempt' \in [Envs -> 1..RetryLimit]
    BY <2>1, <2>2 DEF Pool
  <2>4. "reset" \in Calls /\ 1 \in 1..EnvRetries
    BY BatchAssumption DEF Calls
  <2>5. call' \in [Envs -> Calls]
    BY <2>1, <2>4 DEF Pool
  <2>6. envTry' \in [Envs -> 1..EnvRetries]
    BY <2>1, <2>4 DEF Pool
  <2> QED BY <2>3, <2>5, <2>6
<1>2. CASE ~(attempt[e] < RetryLimit)
  BY <1>2 DEF EndAttempt, Pool
<1> QED BY <1>1, <1>2

(* Every step keeps the pool in order.                                     *)
LEMMA PoolStep == IInv /\ Pool /\ [Next]_vars => Pool'
<1> SUFFICES ASSUME IInv, Pool, [Next]_vars PROVE Pool'
  OBVIOUS
<1>0. Typed /\ onThread \in SUBSET Envs /\ \A e \in onThread : e \in Envs
  BY DEF IInv, Typed
<1>1. CASE TakeJob
  <2>1. /\ pending # <<>> /\ onThread' = onThread \cup {Head(pending)}
        /\ Busy < Workers /\ stuck' = stuck
        /\ UNCHANGED <<call, attempt, envTry>>
    BY <1>1 DEF TakeJob, trajVars
  <2>2. Head(pending) = pending[1] /\ Head(pending) \in Envs /\ 1 \in 1..Len(pending)
    BY <1>0, <2>1 DEF Typed
  <2>3. Head(pending) \notin onThread
    BY <2>2 DEF IInv, Jobs
  <2>4. /\ Cardinality(onThread') = Cardinality(onThread) + 1
        /\ Cardinality(onThread) \in Nat /\ Workers \in Nat
    BY <1>0, <2>1, <2>2, <2>3, Sizes
  <2>5. Busy' <= Workers
    BY <2>1, <2>4 DEF Pool, Busy
  <2> QED BY <2>1, <2>5 DEF Pool
<1>2. ASSUME NEW e \in Envs, CallReturns(e) PROVE Pool'
  <2>1. onThread' = onThread \ {e} /\ stuck' = stuck /\ attempt' = attempt
    BY <1>2 DEF CallReturns
  <2>2. call' \in [Envs -> Calls] /\ envTry' \in [Envs -> 1..EnvRetries]
    <3>1. CASE call[e] = "close"
      BY <1>2, <3>1 DEF CallReturns, Pool
    <3>2. CASE call[e] # "close"
      <4>1. PICK c \in NextCalls[call[e]] : call' = [call EXCEPT ![e] = c]
        BY <1>2, <3>2 DEF CallReturns
      <4>2. call[e] \in Calls
        BY DEF Pool
      <4>3. c \in Calls
        BY <4>1, <4>2 DEF NextCalls, Calls
      <4>4. envTry' = [envTry EXCEPT ![e] = 1]
        BY <1>2, <3>2 DEF CallReturns
      <4> QED BY <4>1, <4>3, <4>4, BatchAssumption DEF Pool
    <3> QED BY <3>1, <3>2
  <2>3. stuck' \in Nat /\ Busy' <= Workers
    BY <1>0, <2>1, WorkerLeft
  <2> QED BY <2>1, <2>2, <2>3 DEF Pool, Workers
<1>3. ASSUME NEW e \in Envs, StepTimesOut(e) PROVE Pool'
  <2>1. onThread' = onThread \ {e} /\ (stuck' = stuck \/ (e \in onThread /\ stuck' = stuck + 1))
    BY <1>3 DEF StepTimesOut, Abandon
  <2>2. /\ call' \in [Envs -> Calls] /\ envTry' \in [Envs -> 1..EnvRetries]
        /\ attempt' = attempt
    <3>1. attempt' = attempt
      BY <1>3 DEF StepTimesOut
    <3>2. CASE envTry[e] < EnvRetries
      <4>1. envTry' = [envTry EXCEPT ![e] = @ + 1] /\ call' = call
        BY <1>3, <3>2 DEF StepTimesOut
      <4>2. envTry[e] + 1 \in 1..EnvRetries
        BY <3>2, BatchAssumption DEF Pool
      <4> QED BY <3>1, <4>1, <4>2 DEF Pool
    <3>3. CASE ~(envTry[e] < EnvRetries)
      <4>1. call' = [call EXCEPT ![e] = "reward"] /\ envTry' = envTry
        BY <1>3, <3>3 DEF StepTimesOut
      <4>2. "reward" \in Calls
        BY DEF Calls
      <4> QED BY <3>1, <4>1, <4>2 DEF Pool
    <3> QED BY <3>2, <3>3
  <2>3. stuck' \in Nat /\ Busy' <= Workers
    BY <1>0, <2>1, WorkerLeft
  <2> QED BY <2>2, <2>3 DEF Pool, Workers
<1>4. ASSUME NEW e \in Envs, CallRaises(e) \/ Deadline(e) PROVE Pool'
  <2>1. /\ EndAttempt(e) /\ onThread' = onThread \ {e}
        /\ (stuck' = stuck \/ (e \in onThread /\ stuck' = stuck + 1))
    BY <1>4 DEF CallRaises, Deadline, Abandon
  <2>2. stuck' \in Nat /\ Busy' <= Workers
    BY <1>0, <2>1, WorkerLeft
  <2> QED BY <2>1, <2>2, AttemptCounters DEF Pool, Workers
<1>5. CASE StuckEnds
  <2>1. /\ stuck > 0 /\ stuck' = stuck - 1 /\ onThread' = onThread
        /\ UNCHANGED <<call, attempt, envTry>>
    BY <1>5 DEF StuckEnds, trajVars
  <2>2. Cardinality(onThread) \in Nat /\ Workers \in Nat
    BY <1>0, Sizes
  <2> QED BY <2>1, <2>2 DEF Pool, Busy
<1>6. CASE GeneratorRaises
  <2>1. /\ onThread' = {} /\ stuck' = stuck + Cardinality(onThread)
        /\ UNCHANGED <<call, attempt, envTry>>
    BY <1>6 DEF GeneratorRaises
  <2>2. Cardinality(onThread) \in Nat /\ Workers \in Nat /\ Cardinality(onThread') = 0
    BY <1>0, <2>1, Sizes, FS_EmptySet
  <2> QED BY <2>1, <2>2 DEF Pool, Busy
<1>7. CASE Yield \/ GeneratorEnds \/ Consume \/ UNCHANGED vars
  BY <1>7 DEF Yield, GeneratorEnds, Consume, vars, trajVars, poolVars, Pool, Busy, Workers
<1> QED
  BY <1>1, <1>2, <1>3, <1>4, <1>5, <1>6, <1>7 DEF Next, EventLoop

LEMMA InitPool == Init => Pool
<1> SUFFICES ASSUME Init PROVE Pool
  OBVIOUS
<1>1. onThread = {} /\ stuck = 0 /\ Cardinality(onThread) = 0 /\ Workers \in Nat
  BY Sizes, FS_EmptySet DEF Init
<1>2. Busy <= Workers
  BY <1>1 DEF Busy
<1> QED BY <1>1, <1>2, BatchAssumption DEF Init, Pool, Calls

(* Every reachable state satisfies the invariant.                          *)
THEOREM BatchInvariant == Spec => []IInv
<1> QED BY InitInvariant, StepInvariant, PTL DEF Spec

(* The pool is in order in every reachable state.                          *)
LEMMA PoolInvariant == Spec => []Pool
<1>1. Init => Pool
  BY InitPool
<1>2. IInv /\ Pool /\ [Next]_vars => Pool'
  BY PoolStep
<1> QED BY <1>1, <1>2, BatchInvariant, PTL DEF Spec

(* The variables keep their types; a running trajectory has one job, and   *)
(* no more workers are busy than there are, calls given up on included.    *)
THEOREM TypeCorrect == Spec => []TypeOK
<1>1. IInv /\ Pool => TypeOK
  <2> SUFFICES ASSUME IInv, Pool PROVE TypeOK
    OBVIOUS
  <2>1. pending \in Seq(Envs) /\ IsInjective(pending)
    BY DEF IInv, Typed, Jobs, Once, IsInjective
  <2> QED BY <2>1 DEF IInv, Typed, Pool, TypeOK
<1> QED BY BatchInvariant, PoolInvariant, <1>1, PTL

(* The training loop gets every result once, in whatever order the         *)
(* trajectories end, and one of each environment when it is told the end.  *)
THEOREM ResultsArriveOnce == Spec => []ResultsOnce
<1>1. IInv => ResultsOnce
  <2> SUFFICES ASSUME IInv PROVE ResultsOnce
    OBVIOUS
  <2> USE DEF IInv
  <2>1. /\ Len(got) \in Nat /\ Len(queue) \in Nat /\ yielded \in Nat
        /\ DOMAIN got = 1..Len(got) /\ Len(got) <= yielded + 1
        /\ \A i \in 1..yielded : i \in 1..Len(finished) /\ finished[i] \in Envs
    BY DEF Typed, Delivered
  <2>2. \A i \in 1..Len(got) : /\ i <= yielded => i \in 1..yielded /\ got[i] = finished[i]
                               /\ ~(i <= yielded) => i = yielded + 1 /\ got[i] = Sentinel
    BY <2>1 DEF Delivered, Flow
  <2>3. IsInjective(got)
    BY <2>1, <2>2, BatchAssumption DEF IsInjective, Done, Once
  <2>4. \A e \in ToSet(got) \ {Sentinel} : \E i \in 1..yielded : e = finished[i]
    BY <2>1, <2>2 DEF ToSet
  <2>5. \A e \in ToSet(got) \ {Sentinel} : e \in Envs /\ traj[e] = "returned"
    BY <2>1, <2>4 DEF Done
  <2>6. ASSUME ConsumerEnded PROVE Envs \subseteq ToSet(got) \ {Sentinel}
    <3>1. PICK k \in 1..Len(got) : got[k] = Sentinel
      BY <2>1, <2>6 DEF ConsumerEnded, ToSet
    <3>2. k = yielded + 1
      BY <2>1, <2>2, <3>1, BatchAssumption
    <3>3. gen = "finished" /\ yielded = Cardinality(Envs)
      BY <2>1, <3>1, <3>2 DEF Delivered
    <3>4. \A i \in 1..yielded : i \in 1..Len(got) /\ got[i] = finished[i]
      BY <2>1, <2>2, <3>1, <3>2
    <3> QED BY <2>1, <3>3, <3>4, AllYielded, BatchAssumption DEF ToSet
  <2> QED BY <2>3, <2>5, <2>6 DEF ResultsOnce
<1> QED BY BatchInvariant, <1>1, PTL

(* The rollout engine is awake as long as a trajectory runs.               *)
THEOREM EngineIsAwake == Spec => []AwakeWhileRunning
<1>1. IInv => AwakeWhileRunning
  <2> SUFFICES ASSUME IInv, NEW e \in Envs, traj[e] = "running", gen = "finished" PROVE FALSE
    BY DEF AwakeWhileRunning, IInv, Delivered
  <2>1. \E i \in 1..yielded : finished[i] = e
    BY AllYielded DEF IInv, Delivered
  <2> QED BY <2>1 DEF IInv, Done, Typed
<1> QED BY BatchInvariant, <1>1, PTL

(* What a running trajectory needs is there: the engine awake, and a       *)
(* worker, unless a call that was given up on holds it.  A pool that is    *)
(* full while a job waits is not full of awaited calls, since the one that *)
(* waits is of an environment that no worker is busy with.                 *)
THEOREM RunningAreServed == Spec => []RunningIsServed
<1>1. IInv /\ Pool => WaitsOnlyBehindStuck
  <2> SUFFICES ASSUME IInv, Pool, pending # <<>>, Busy >= Workers PROVE stuck > 0
    BY DEF WaitsOnlyBehindStuck
  <2>1. onThread \in SUBSET Envs /\ 1 \in 1..Len(pending) /\ pending[1] \in Envs
    BY DEF IInv, Typed
  <2>2. pending[1] \notin onThread
    BY <2>1 DEF IInv, Jobs
  <2>3. /\ Cardinality(onThread) \in Nat /\ Workers \in Nat
        /\ Cardinality(onThread) <= Workers /\ Cardinality(onThread) # Workers
    BY <2>1, <2>2, Sizes
  <2> QED BY <2>3 DEF Pool, Busy
<1> QED BY BatchInvariant, PoolInvariant, EngineIsAwake, <1>1, PTL DEF RunningIsServed
-----------------------------------------------------------------------------
(* The training step.  Selecting rows.                                     *)

(* The numbers of P up to i: as many as the rank of i in P.                *)
UpTo(P, i) == {j \in P : j <= i}

(* The k-th number of P exists, and there is no other: the ranks are an    *)
(* injection of P into 1..Cardinality(P), hence a bijection.               *)
LEMMA NthExists ==
  ASSUME NEW P \in SUBSET Int, IsFiniteSet(P)
  PROVE  /\ Cardinality(P) \in Nat
         /\ \A k \in 1..Cardinality(P) : Nth(P, k) \in P /\ Cardinality(UpTo(P, Nth(P, k))) = k
         /\ \A i \in P : \E k \in 1..Cardinality(P) : Nth(P, k) = i
<1> DEFINE n == Cardinality(P)
           rank == [i \in P |-> Cardinality(UpTo(P, i))]
<1>1. n \in Nat
  BY FS_CardinalityType
<1>2. \A i \in P : UpTo(P, i) \in SUBSET P /\ i \in UpTo(P, i)
  BY DEF UpTo
<1>3. ASSUME NEW i \in P PROVE IsFiniteSet(UpTo(P, i)) /\ rank[i] \in 1..n
  <2>1. IsFiniteSet(UpTo(P, i)) /\ Cardinality(UpTo(P, i)) <= n
    BY <1>2, FS_Subset
  <2>2. Cardinality(UpTo(P, i)) \in Nat /\ Cardinality(UpTo(P, i)) # 0
    BY <1>2, <2>1, FS_CardinalityType, FS_EmptySet
  <2> QED BY <1>1, <2>1, <2>2
<1>4. ASSUME NEW i \in P, NEW j \in P, i < j PROVE rank[i] # rank[j]
  <2>0. i \in Int /\ j \in Int /\ \A k \in P : k \in Int
    OBVIOUS
  <2>1. UpTo(P, i) \in SUBSET UpTo(P, j) /\ j \in UpTo(P, j) /\ j \notin UpTo(P, i)
    <3>1. \A k \in P : k <= i => k <= j
      BY <1>4, <2>0
    <3>2. ~(j <= i)
      BY <1>4, <2>0
    <3> QED BY <1>2, <3>1, <3>2 DEF UpTo
  <2>2. UpTo(P, i) # UpTo(P, j) /\ IsFiniteSet(UpTo(P, j))
    BY <1>3, <2>1
  <2>3. Cardinality(UpTo(P, i)) # Cardinality(UpTo(P, j))
    BY <2>1, <2>2, FS_Subset
  <2> QED BY <2>3
<1>5. rank \in Injection(P, 1..n)
  <2>1. rank \in [P -> 1..n]
    BY <1>3
  <2>2. \A i, j \in P : rank[i] = rank[j] => i = j
    BY <1>4
  <2> QED BY <2>1, <2>2 DEF Injection, IsInjective
<1>6. IsFiniteSet(1..n) /\ Cardinality(1..n) = n
  <2> HIDE DEF n
  <2>1. 1 \in Int /\ n \in Int
    BY <1>1
  <2>2. IsFiniteSet(1..n) /\ Cardinality(1..n) = IF 1 > n THEN 0 ELSE n - 1 + 1
    BY ONLY <2>1, FS_Interval
  <2> QED BY <1>1, <2>2
<1>7. rank \in Surjection(P, 1..n)
  <2> HIDE DEF rank
  <2> QED BY <1>5, <1>6, FS_Injection
<1>8. ASSUME NEW k \in 1..n PROVE Nth(P, k) \in P /\ rank[Nth(P, k)] = k
  <2>1. \E i \in P : Cardinality({j \in P : j <= i}) = k
    BY <1>7 DEF Surjection, UpTo
  <2>2. Nth(P, k) \in P /\ Cardinality({j \in P : j <= Nth(P, k)}) = k
    BY <2>1 DEF Nth
  <2> QED BY <2>2 DEF UpTo
<1>9. ASSUME NEW i \in P PROVE Nth(P, rank[i]) = i
  <2>1. rank[i] \in 1..n
    BY <1>3
  <2>2. Nth(P, rank[i]) \in P /\ rank[Nth(P, rank[i])] = rank[i]
    BY <1>8, <2>1
  <2> HIDE DEF rank
  <2> QED BY <1>5, <2>2 DEF Injection, IsInjective
<1> QED BY <1>1, <1>3, <1>8, <1>9

(* What is picked by positions P are the entries there, each once.         *)
LEMMA Picked ==
  ASSUME NEW S, NEW rows \in Seq(S), NEW P \in SUBSET (1..Len(rows))
  PROVE  /\ IsFiniteSet(P)
         /\ Pick(rows, P) \in Seq(S) /\ Len(Pick(rows, P)) = Cardinality(P)
         /\ \A k \in 1..Len(Pick(rows, P)) :
              Nth(P, k) \in P /\ Pick(rows, P)[k] = rows[Nth(P, k)]
         /\ \A k, m \in 1..Len(Pick(rows, P)) : Nth(P, k) = Nth(P, m) => k = m
         /\ \A i \in P : \E k \in 1..Len(Pick(rows, P)) :
              Nth(P, k) = i /\ Pick(rows, P)[k] = rows[i]
<1> DEFINE n == Cardinality(P)
           q == Pick(rows, P)
<1>1. Len(rows) \in Nat /\ \A i \in 1..Len(rows) : rows[i] \in S
  OBVIOUS
<1>2. IsFiniteSet(1..Len(rows))
  BY <1>1, FS_Interval
<1>3. IsFiniteSet(P) /\ P \in SUBSET Int
  <2>1. IsFiniteSet(P)
    BY <1>2, FS_Subset
  <2>2. \A i \in P : i \in Int
    BY <1>1
  <2> QED BY <2>1, <2>2
<1>4. /\ n \in Nat
      /\ \A k \in 1..n : Nth(P, k) \in P /\ Cardinality(UpTo(P, Nth(P, k))) = k
      /\ \A i \in P : \E k \in 1..n : Nth(P, k) = i
  BY <1>3, NthExists
<1>5. \A k \in 1..n : rows[Nth(P, k)] \in S
  BY <1>1, <1>4
<1>6. q = [k \in 1..n |-> rows[Nth(P, k)]]
  BY DEF Pick
<1> HIDE DEF n, q
<1>7. q \in Seq(S) /\ Len(q) = n /\ \A k \in 1..n : q[k] = rows[Nth(P, k)]
  BY <1>4, <1>5, <1>6
<1>8. \A k, m \in 1..n : Nth(P, k) = Nth(P, m) => k = m
  BY <1>4
<1> QED BY <1>3, <1>4, <1>7, <1>8 DEF n, q
-----------------------------------------------------------------------------
(* A row stands beside the prompt its trajectory was run for, with that    *)
(* trajectory's reward or, without a response, none, and is a step that it *)
(* has; only the last step is marked so, and no copy is.                   *)
ScoreOf(t, s) == IF <<t, s>> \in blank THEN 0 ELSE reward[t]

Fits(r) ==
  /\ r.uid[1] = PromptOf(r.traj) /\ r.score = ScoreOf(r.traj, r.step)
  /\ r.step \in 1..steps[r.traj]
  /\ r.last => ~r.pad
  /\ Stepwise /\ ~r.pad => (r.last <=> r.step = steps[r.traj])
  /\ ~Stepwise => r.step = 1 /\ ~r.pad /\ ~r.last

(* But for copies a step of a trajectory has one row.                      *)
SameStep(q, r) == ~q.pad /\ ~r.pad /\ q.traj = r.traj /\ q.step = r.step
OneRowEach(rows) ==
  \A i, j \in 1..Len(rows) : SameStep(rows[i], rows[j]) => i = j

Sound(rows) ==
  rows \in Seq(Rows) /\ (\A i \in 1..Len(rows) : Fits(rows[i])) /\ OneRowEach(rows)

(* Rows of a sound batch make a sound batch.                               *)
LEMMA PickSound ==
  ASSUME NEW rows, Sound(rows), NEW P \in SUBSET (1..Len(rows))
  PROVE  /\ Sound(Pick(rows, P)) /\ Len(Pick(rows, P)) = Cardinality(P)
         /\ \A k \in 1..Len(Pick(rows, P)) : \E i \in P : Pick(rows, P)[k] = rows[i]
         /\ \A i \in P : \E k \in 1..Len(Pick(rows, P)) : Pick(rows, P)[k] = rows[i]
<1> DEFINE q == Pick(rows, P)
<1>1. rows \in Seq(Rows)
  BY DEF Sound
<1> HIDE DEF Sound
<1>2. /\ q \in Seq(Rows) /\ Len(q) = Cardinality(P)
      /\ \A k \in 1..Len(q) : Nth(P, k) \in P /\ q[k] = rows[Nth(P, k)]
      /\ \A k, m \in 1..Len(q) : Nth(P, k) = Nth(P, m) => k = m
      /\ \A i \in P : \E k \in 1..Len(q) : Nth(P, k) = i /\ q[k] = rows[i]
  BY ONLY <1>1, P \in SUBSET (1..Len(rows)), Picked
<1> HIDE DEF q
<1>3. \A k \in 1..Len(q) : Fits(q[k])
  BY <1>2 DEF Sound
<1>4. OneRowEach(q)
  BY <1>2 DEF Sound, OneRowEach
<1> QED BY <1>2, <1>3, <1>4 DEF Sound, q

(* So does a prefix.                                                       *)
LEMMA PrefixSound ==
  ASSUME NEW rows, Sound(rows), NEW m \in 0..Len(rows)
  PROVE  /\ Sound(SubSeq(rows, 1, m)) /\ Len(SubSeq(rows, 1, m)) = m
         /\ \A k \in 1..m : SubSeq(rows, 1, m)[k] = rows[k]
<1> DEFINE q == SubSeq(rows, 1, m)
<1>1. rows \in Seq(Rows) /\ Len(rows) \in Nat /\ m \in Nat /\ \A i \in 1..m : rows[i] \in Rows
  BY DEF Sound
<1>2. /\ q \in Seq(Rows) /\ Len(q) = IF 1 <= m THEN m - 1 + 1 ELSE 0
      /\ \A i \in 1..(m - 1 + 1) : q[i] = rows[1 + i - 1]
  BY <1>1, SubSeqProperties
<1> HIDE DEF q
<1>3. Len(q) = m /\ \A i \in 1..m : q[i] = rows[i]
  BY <1>1, <1>2
<1>4. \A i \in 1..Len(q) : Fits(q[i])
  BY <1>1, <1>3 DEF Sound
<1>5. OneRowEach(q)
  BY <1>1, <1>3 DEF Sound, OneRowEach
<1> QED BY <1>2, <1>3, <1>4, <1>5 DEF Sound, q

(* So do two batches without a step in common.                             *)
LEMMA ConcatSound ==
  ASSUME NEW a, NEW b, Sound(a), Sound(b),
         \A i \in 1..Len(a), j \in 1..Len(b) : ~SameStep(a[i], b[j])
  PROVE  /\ Sound(a \o b) /\ Len(a \o b) = Len(a) + Len(b)
         /\ Len(a) \in Nat /\ Len(b) \in Nat
         /\ \A i \in 1..Len(a) : i \in 1..Len(a \o b) /\ (a \o b)[i] = a[i]
         /\ \A j \in 1..Len(b) : /\ Len(a) + j \in 1..Len(a \o b)
                                 /\ (a \o b)[Len(a) + j] = b[j]
<1> DEFINE c == a \o b
<1>1. a \in Seq(Rows) /\ b \in Seq(Rows) /\ Len(a) \in Nat /\ Len(b) \in Nat
  BY DEF Sound
<1>2. /\ c \in Seq(Rows) /\ Len(c) = Len(a) + Len(b)
      /\ \A i \in 1..(Len(a) + Len(b)) : c[i] = IF i <= Len(a) THEN a[i] ELSE b[i - Len(a)]
  BY <1>1, ConcatProperties
<1> HIDE DEF c
<1>3. \A i \in 1..Len(c) : \/ i \in 1..Len(a) /\ c[i] = a[i]
                           \/ i - Len(a) \in 1..Len(b) /\ c[i] = b[i - Len(a)]
  BY <1>1, <1>2
<1>4. \A i \in 1..Len(c) : Fits(c[i])
  BY <1>3 DEF Sound
<1>5. \A q, r : SameStep(q, r) => SameStep(r, q)
  BY DEF SameStep
<1>6. ASSUME NEW i \in 1..Len(c), NEW j \in 1..Len(c), SameStep(c[i], c[j]) PROVE i = j
  <2>1. CASE i \in 1..Len(a) /\ c[i] = a[i] /\ j \in 1..Len(a) /\ c[j] = a[j]
    BY <1>6, <2>1 DEF Sound, OneRowEach
  <2>2. CASE /\ i - Len(a) \in 1..Len(b) /\ c[i] = b[i - Len(a)]
             /\ j - Len(a) \in 1..Len(b) /\ c[j] = b[j - Len(a)]
    <3>1. i - Len(a) = j - Len(a)
      BY <1>6, <2>2 DEF Sound, OneRowEach
    <3> QED BY <1>1, <1>2, <3>1
  <2> QED BY <1>3, <1>5, <1>6, <2>1, <2>2
<1>7. \A i \in 1..Len(a) : i \in 1..Len(c) /\ c[i] = a[i]
  BY <1>1, <1>2
<1>8. ASSUME NEW j \in 1..Len(b) PROVE Len(a) + j \in 1..Len(c) /\ c[Len(a) + j] = b[j]
  <2>1. /\ Len(a) + j \in 1..(Len(a) + Len(b)) /\ ~(Len(a) + j <= Len(a))
        /\ (Len(a) + j) - Len(a) = j
    BY <1>1
  <2> QED BY <1>2, <2>1
<1> QED BY <1>1, <1>2, <1>4, <1>6, <1>7, <1>8 DEF Sound, OneRowEach, c

(* The multiple of w that a division leaves, and the one a padding reaches. *)
LEMMA RoundedDown ==
  ASSUME NEW n \in Nat, NEW w \in Nat \ {0}
  PROVE  /\ (n \div w) * w \in 0..n /\ ((n \div w) * w) % w = 0
         /\ n \div w = 0 => (n \div w) * w = 0
<1>1. n \div w \in Nat /\ n % w \in 0..(w - 1) /\ n = w * (n \div w) + (n % w)
  OBVIOUS
<1>2. \A q \in Nat : w * q = q * w /\ q * w \in Nat /\ (q * w) % w = 0
  OBVIOUS
<1> QED BY <1>1, <1>2

(* The padding reaches the next multiple.                                  *)
LEMMA RoundedUp ==
  ASSUME NEW n \in Nat, NEW w \in Nat \ {0}
  PROVE  /\ (-n) % w \in 0..(w - 1) /\ (n + ((-n) % w)) % w = 0
         /\ n % w = 0 => (-n) % w = 0
<1> DEFINE d == (-n) \div w
           m == (-n) % w
<1>1. d \in Int /\ m \in 0..(w - 1) /\ -n = w * d + m
  OBVIOUS
<1> HIDE DEF d, m
<1>2. -d \in Int /\ w * (-d) = -(w * d) /\ w * d \in Int
  BY <1>1
<1>3. n + m = w * (-d)
  BY <1>1, <1>2
<1>4. \A q \in Int : (w * q) % w = 0
  OBVIOUS
<1>5. (n + m) % w = 0
  BY <1>2, <1>3, <1>4
<1>6. ASSUME n % w = 0 PROVE m = 0
  <2>1. n \div w \in Int /\ n = w * (n \div w)
    BY <1>6
  <2>2. -n = w * (-(n \div w)) /\ -(n \div w) \in Int
    BY <2>1
  <2> QED BY <1>4, <2>2 DEF m
<1> QED BY <1>1, <1>5, <1>6 DEF m

Copy(r) == [r EXCEPT !.last = FALSE, !.pad = TRUE]

(* A copy of a row fits as the row does.                                   *)
LEMMA CopyFits ==
  ASSUME NEW r \in Rows, Fits(r), Stepwise
  PROVE  /\ Copy(r) \in Rows /\ Fits(Copy(r)) /\ Copy(r).pad
         /\ Copy(r).traj = r.traj /\ Copy(r).uid = r.uid /\ Copy(r).adv = r.adv
         /\ ~Copy(r).last
BY DEF Rows, Fits, Copy

(* Padding adds copies, up to a multiple of the world size.                *)
LEMMA PadSound ==
  ASSUME NEW rows, Sound(rows), world \in Nat \ {0},
         Stepwise \/ Len(rows) % world = 0
  PROVE  LET q == PadToWorldSize(rows) IN
         /\ Sound(q) /\ Len(q) % world = 0
         /\ \A i \in 1..Len(rows) : i \in 1..Len(q) /\ q[i] = rows[i]
         /\ \A k \in 1..Len(q) : \E i \in 1..Len(rows) :
              q[k] = rows[i] \/ (Stepwise /\ q[k] = Copy(rows[i]))
<1> DEFINE q == PadToWorldSize(rows)
           n == Len(rows)
           m == (-n) % world
           p == [i \in DOMAIN Padding(rows) |->
                   [Padding(rows)[i] EXCEPT !.last = FALSE, !.pad = TRUE]]
<1>1. n \in Nat /\ rows \in Seq(Rows) /\ \A i \in 1..n : rows[i] \in Rows /\ Fits(rows[i])
  BY DEF Sound
<1>2. /\ m \in 0..(world - 1) /\ (n + m) % world = 0
      /\ n % world = 0 => m = 0
  BY <1>1, RoundedUp
<1>3. m \in Nat /\ (m # 0 => Stepwise /\ n # 0)
  <2>1. 0 % world = 0
    OBVIOUS
  <2> QED BY <1>1, <1>2, <2>1
<1>4. p = [i \in 1..m |-> Copy(rows[((i - 1) % n) + 1])]
  BY DEF Padding, Copy
<1>5. q = rows \o p
  BY DEF PadToWorldSize
<1> HIDE DEF q, m, p, n
<1>6. ASSUME NEW i \in 1..m PROVE Stepwise /\ ((i - 1) % n) + 1 \in 1..n
  <2>1. Stepwise /\ n \in Nat \ {0} /\ i - 1 \in Int
    BY <1>1, <1>3
  <2> QED BY <2>1
<1>7. \A i \in 1..m : \E j \in 1..n :
        Stepwise /\ p[i] = Copy(rows[j]) /\ p[i] \in Rows /\ Fits(p[i]) /\ p[i].pad
  BY <1>1, <1>4, <1>6, CopyFits
<1>8. p \in Seq(Rows) /\ Len(p) = m
  BY <1>3, <1>4, <1>7
<1>9. Sound(p)
  BY <1>7, <1>8 DEF Sound, OneRowEach, SameStep
<1>10. \A i \in 1..Len(rows), j \in 1..Len(p) : ~SameStep(rows[i], p[j])
  BY <1>7, <1>8 DEF SameStep
<1>11. /\ Sound(q) /\ Len(q) = n + m
       /\ \A i \in 1..n : i \in 1..Len(q) /\ q[i] = rows[i]
       /\ \A j \in 1..m : n + j \in 1..Len(q) /\ q[n + j] = p[j]
  <2>1. /\ Sound(rows \o p) /\ Len(rows \o p) = Len(rows) + Len(p)
        /\ \A i \in 1..Len(rows) : i \in 1..Len(rows \o p) /\ (rows \o p)[i] = rows[i]
        /\ \A j \in 1..Len(p) : /\ Len(rows) + j \in 1..Len(rows \o p)
                                /\ (rows \o p)[Len(rows) + j] = p[j]
    BY ONLY <1>9, <1>10, Sound(rows), ConcatSound
  <2>2. Len(rows) = n
    BY DEF n
  <2> QED BY ONLY <1>5, <1>8, <2>1, <2>2
<1>12. ASSUME NEW k \in 1..Len(q)
       PROVE  \E i \in 1..n : q[k] = rows[i] \/ (Stepwise /\ q[k] = Copy(rows[i]))
  <2>1. CASE k \in 1..n
    <3>1. q[k] = rows[k]
      BY <1>11, <2>1
    <3> QED BY <2>1, <3>1
  <2>2. CASE k \notin 1..n
    <3>1. k - n \in 1..m /\ n + (k - n) = k
      BY <1>1, <1>3, <1>11, <2>2
    <3>2. q[k] = p[k - n]
      BY <1>11, <3>1
    <3> QED BY <1>7, <3>1, <3>2
  <2> QED BY <2>1, <2>2
<1> QED BY <1>2, <1>11, <1>12 DEF q, n

(* The environments of the batch, and the prompt of each.                  *)
LEMMA BatchSizes ==
  /\ Total \in Nat \ {0} /\ Samples \in Nat \ {0} /\ MaxSteps \in Nat \ {0}
  /\ Width \in Nat \ {0} /\ Width > MaxSteps /\ 0 \in Trajs
  /\ IsFiniteSet(Trajs) /\ Cardinality(Trajs) = Total
<1>1. Prompts \in Nat \ {0} /\ Samples \in Nat \ {0} /\ MaxSteps \in Nat \ {0}
  BY PpoAssumption
<1>2. \A a, b \in Nat \ {0} : a * b \in Nat \ {0}
  OBVIOUS
<1>3. Total \in Nat \ {0}
  BY <1>1, <1>2 DEF Total
<1>4. IsFiniteSet(Trajs) /\ Cardinality(Trajs) = Total
  <2>1. 0 \in Int /\ Total - 1 \in Int
    BY <1>3
  <2>2. /\ IsFiniteSet(0..(Total - 1))
        /\ Cardinality(0..(Total - 1)) = IF 0 > Total - 1 THEN 0 ELSE Total - 1 - 0 + 1
    BY ONLY <2>1, FS_Interval
  <2> QED BY <1>3, <2>2 DEF Trajs
<1> QED BY <1>1, <1>3, <1>4 DEF Width, Trajs

(* The prompt of a trajectory is one of the batch.                         *)
LEMMA PromptsOf ==
  ASSUME NEW t \in Trajs
  PROVE  PromptOf(t) \in 0..(Prompts - 1)
<1>1. Prompts \in Nat \ {0} /\ Samples \in Nat \ {0} /\ t \in Nat /\ t < Prompts * Samples
  BY PpoAssumption, BatchSizes DEF Trajs, Total
<1>2. /\ t \div Samples \in Nat /\ t = Samples * (t \div Samples) + (t % Samples)
      /\ t % Samples \in Nat
  BY <1>1
<1>3. ASSUME t \div Samples >= Prompts PROVE FALSE
  <2>1. \A p, q, w \in Nat : q >= p => w * q >= p * w
    OBVIOUS
  <2>2. Samples * (t \div Samples) >= Prompts * Samples
    BY <1>1, <1>2, <1>3, <2>1
  <2>3. Samples * (t \div Samples) \in Nat /\ Prompts * Samples \in Nat
    BY <1>1, <1>2
  <2> QED BY <1>1, <1>2, <2>2, <2>3
<1> QED BY <1>1, <1>2, <1>3 DEF PromptOf

(* A place stands for one i and one s.                                     *)
LEMMA PlaceOf ==
  ASSUME NEW i \in 1..Total, NEW s \in 1..MaxSteps
  PROVE  /\ i * Width + s \in Width..(Width * (Total + 1) - 1)
         /\ (i * Width + s) \div Width = i /\ (i * Width + s) % Width = s
<1>1. /\ Width \in Nat \ {0} /\ i \in Nat \ {0} /\ s \in 1..(Width - 1)
      /\ i <= Total /\ Total \in Nat
  BY BatchSizes DEF Width
<1>2. /\ i * Width \in Nat /\ i * Width >= Width
      /\ i * Width <= Total * Width /\ Total * Width \in Nat
      /\ Width * (Total + 1) = Total * Width + Width
  <2>1. \A a, b, w \in Nat : a <= b => a * w \in Nat /\ a * w <= b * w
    OBVIOUS
  <2>2. 1 * Width = Width
    BY <1>1
  <2>3. Width * (Total + 1) = Total * Width + Width
    BY <1>1
  <2> QED BY <1>1, <2>1, <2>2, <2>3
<1>3. \A a, w \in Nat : w # 0 => \A r \in 0..(w - 1) : (a * w + r) \div w = a /\ (a * w + r) % w = r
  OBVIOUS
<1> QED BY <1>1, <1>2, <1>3

(* And every place is one of an i and an s.                                *)
LEMMA PlaceHolds ==
  ASSUME NEW p \in Width..(Width * (Total + 1) - 1)
  PROVE  /\ p \div Width \in 1..Total /\ p \in Int
         /\ p = Width * (p \div Width) + (p % Width)
<1>1. Width \in Nat \ {0} /\ Total \in Nat
  BY BatchSizes
<1>2. Width * (Total + 1) \in Nat /\ Width * 1 = Width
  BY <1>1
<1>3. p \in Nat /\ p >= Width /\ p < Width * (Total + 1)
  BY <1>1, <1>2
<1>4. /\ p \div Width \in Nat /\ p % Width \in 0..(Width - 1)
      /\ p = Width * (p \div Width) + (p % Width)
  BY <1>1, <1>3
<1>5. \A a, b, w \in Nat : a <= b => w * a <= w * b /\ w * a \in Nat
  OBVIOUS
<1>6. p \div Width # 0
  <2>1. ASSUME p \div Width = 0 PROVE FALSE
    <3>1. Width * (p \div Width) = 0
      BY <1>1, <2>1
    <3> QED BY <1>1, <1>3, <1>4, <3>1
  <2> QED BY <2>1
<1>7. p \div Width <= Total
  <2>1. ASSUME Total + 1 <= p \div Width PROVE FALSE
    <3>1. Width * (Total + 1) <= Width * (p \div Width) /\ Width * (p \div Width) \in Nat
      BY <1>1, <1>4, <1>5, <2>1
    <3> QED BY <1>1, <1>2, <1>3, <1>4, <3>1
  <2> QED BY <1>1, <1>4, <2>1
<1> QED BY <1>1, <1>3, <1>4, <1>6, <1>7

(* Repeated lists every pair <<i, s>> with s up to count[i] once.          *)
LEMMA RepeatedOnce ==
  ASSUME NEW count \in [1..Total -> 0..MaxSteps]
  PROVE  LET e == Repeated(count) IN
         /\ IsFiniteSet(Places(count)) /\ Len(e) = Cardinality(Places(count))
         /\ Len(e) \in Nat /\ DOMAIN e = 1..Len(e)
         /\ \A k \in 1..Len(e) : e[k][1] \in 1..Total /\ e[k][2] \in 1..count[e[k][1]]
         /\ \A k, m \in 1..Len(e) : e[k][1] = e[m][1] /\ e[k][2] = e[m][2] => k = m
         /\ \A i \in 1..Total : \A s \in 1..count[i] :
              \E k \in 1..Len(e) : e[k][1] = i /\ e[k][2] = s
<1> DEFINE P == Places(count)
           n == Cardinality(P)
           e == Repeated(count)
           bound == Width * (Total + 1) - 1
<1>1. \A p \in P : /\ p \in Width..bound /\ p \in Int
                   /\ p \div Width \in 1..Total /\ p % Width \in 1..count[p \div Width]
                   /\ p = Width * (p \div Width) + (p % Width)
  BY PlaceHolds DEF Places
<1>2. IsFiniteSet(P) /\ P \in SUBSET Int
  <2>1. Width \in Int /\ bound \in Int
    BY BatchSizes
  <2>2. IsFiniteSet(Width..bound)
    BY ONLY <2>1, FS_Interval
  <2>3. P \in SUBSET (Width..bound)
    BY <1>1
  <2>4. IsFiniteSet(P)
    BY ONLY <2>2, <2>3, FS_Subset
  <2> QED BY <1>1, <2>4
<1>3. /\ n \in Nat
      /\ \A k \in 1..n : Nth(P, k) \in P /\ Cardinality(UpTo(P, Nth(P, k))) = k
      /\ \A p \in P : \E k \in 1..n : Nth(P, k) = p
  BY <1>2, NthExists
<1>4. /\ e = [k \in 1..n |-> <<Nth(P, k) \div Width, Nth(P, k) % Width>>]
  BY DEF Repeated
<1>5. \A i \in 1..Total : \A s \in 1..count[i] : \E p \in P : p \div Width = i /\ p % Width = s
  <2> TAKE i \in 1..Total
  <2> TAKE s \in 1..count[i]
  <2>1. s \in 1..MaxSteps
    BY BatchSizes
  <2>2. /\ i * Width + s \in Width..(Width * (Total + 1) - 1)
        /\ (i * Width + s) \div Width = i /\ (i * Width + s) % Width = s
    BY <2>1, PlaceOf
  <2>3. i * Width + s \in P
    BY <2>2 DEF Places
  <2> QED BY <2>2, <2>3
<1> HIDE DEF P, n, e
<1>6. Len(e) = n /\ DOMAIN e = 1..n
  BY <1>3, <1>4
<1>7. \A k \in 1..n : e[k][1] = Nth(P, k) \div Width /\ e[k][2] = Nth(P, k) % Width
  BY <1>4
<1>8. ASSUME NEW k \in 1..n, NEW m \in 1..n, e[k][1] = e[m][1], e[k][2] = e[m][2] PROVE k = m
  <2>1. Nth(P, k) = Nth(P, m)
    BY <1>1, <1>3, <1>7, <1>8
  <2> QED BY <1>3, <2>1
<1>9. \A k \in 1..n : e[k][1] \in 1..Total /\ e[k][2] \in 1..count[e[k][1]]
  BY <1>1, <1>3, <1>7
<1>10. \A i \in 1..Total : \A s \in 1..count[i] : \E k \in 1..n : e[k][1] = i /\ e[k][2] = s
  BY <1>3, <1>5, <1>7
<1>11. IsFiniteSet(Places(count)) /\ n = Cardinality(Places(count))
  BY <1>2 DEF P, n
<1> QED BY <1>3, <1>6, <1>8, <1>9, <1>10, <1>11 DEF e

(* The positions 1 .. n as a finite set.                                   *)
LEMMA Positions ==
  ASSUME NEW n \in Nat
  PROVE  IsFiniteSet(1..n) /\ Cardinality(1..n) = n
<1>1. 1 \in Int /\ n \in Int
  OBVIOUS
<1>2. IsFiniteSet(1..n) /\ Cardinality(1..n) = IF 1 > n THEN 0 ELSE n - 1 + 1
  BY ONLY <1>1, FS_Interval
<1> QED BY <1>2

(* Whatever the order the results arrive in, the sort puts that of the     *)
(* i-th environment in place i.                                            *)
LEMMA SortedByIdx ==
  ASSUME NEW arrived \in SetToSeqs(Trajs)
  PROVE  ByIdx(arrived) = [i \in 1..Total |-> i - 1]
<1>1. /\ Total \in Nat \ {0} /\ IsFiniteSet(Trajs) /\ Cardinality(Trajs) = Total
      /\ Trajs \in SUBSET Int
  BY BatchSizes DEF Trajs
<1>2. arrived \in [1..Total -> Trajs] /\ \A i, j \in 1..Total : i # j => arrived[i] # arrived[j]
  BY <1>1 DEF SetToSeqs
<1>3. arrived \in Injection(1..Total, Trajs)
  BY <1>2 DEF Injection, IsInjective
<1>4. arrived \in Surjection(1..Total, Trajs)
  <2>1. Cardinality(1..Total) = Cardinality(Trajs)
    BY <1>1, Positions
  <2> QED BY <1>1, <1>3, <2>1, FS_Injection
<1>5. ToSet(arrived) = Trajs
  BY <1>2, <1>4 DEF ToSet, Surjection
<1>6. ASSUME NEW k \in 1..Total PROVE Nth(Trajs, k) = k - 1
  <2>1. Nth(Trajs, k) \in Trajs /\ Cardinality(UpTo(Trajs, Nth(Trajs, k))) = k
    BY <1>1, NthExists
  <2> DEFINE t == Nth(Trajs, k)
  <2> HIDE DEF t
  <2>2. t \in Nat /\ t <= Total - 1
    BY <1>1, <2>1 DEF t, Trajs
  <2>3. UpTo(Trajs, t) = 0..t
    BY <1>1, <2>2 DEF UpTo, Trajs
  <2>4. 0 \in Int /\ t \in Int
    BY <2>2
  <2>5. Cardinality(0..t) = IF 0 > t THEN 0 ELSE t - 0 + 1
    BY ONLY <2>4, FS_Interval
  <2> QED BY <2>1, <2>2, <2>3, <2>5 DEF t
<1>7. ByIdx(arrived) = [k \in 1..Total |-> Nth(Trajs, k)]
  BY <1>1, <1>5 DEF ByIdx, InOrder
<1> QED BY <1>6, <1>7
-----------------------------------------------------------------------------
Configured ==
  /\ mode \in Modes /\ reject \in BOOLEAN /\ world \in WorldSizes
  /\ steps \in [Trajs -> 0..MaxSteps]
  /\ mode = "token" => \A t \in Trajs : steps[t] = 1
  /\ blank \subseteq Trajs \X (1..MaxSteps)
  /\ reward \in [Trajs -> Scores]

OfPrompt(rows) == \A i \in 1..Len(rows) : rows[i].uid[2] = 0

(* A trajectory that has a row has all its steps.                          *)
AllSteps(rows) ==
  \A i \in 1..Len(rows) : \A s \in 1..steps[rows[i].traj] :
    \E j \in 1..Len(rows) : rows[j].traj = rows[i].traj /\ rows[j].step = s /\ ~rows[j].pad

(* With the results in order, union fails when token mode has an empty     *)
(* response, which leaves the rows one short, and in step mode when the    *)
(* first trajectory has no steps; and then only.                           *)
LEMMA UnionCrash ==
  ASSUME Configured, NEW order, order = [i \in 1..Total |-> i - 1]
  PROVE  UnionCrashes(order) <=> EmptyResult \/ NoFirstStep
<1> DEFINE Tokens(t) == IF <<t, 1>> \in blank THEN 0 ELSE 1
           have == [i \in 1..Total |-> IF Stepwise THEN steps[order[i]] ELSE Tokens(order[i])]
           want == [i \in 1..Total |-> IF Stepwise THEN steps[order[i]] ELSE 1]
           H == Places(have)
           W == Places(want)
<1>1. /\ Total \in Nat \ {0} /\ MaxSteps \in Nat \ {0} /\ order[1] = 0
      /\ \A i \in 1..Total : i - 1 \in Trajs /\ order[i] = i - 1
      /\ \A t \in Trajs : t + 1 \in 1..Total /\ (t + 1) - 1 = t
      /\ \A t \in Trajs : steps[t] \in 0..MaxSteps
  BY BatchSizes DEF Trajs, Configured
<1>2. /\ have \in [1..Total -> 0..MaxSteps] /\ want \in [1..Total -> 0..MaxSteps]
  BY <1>1
<1>3. /\ IsFiniteSet(H) /\ IsFiniteSet(W)
      /\ Len(Repeated(have)) = Cardinality(H) /\ Len(Repeated(want)) = Cardinality(W)
  <2> HIDE DEF have, want
  <2>1. \A c \in [1..Total -> 0..MaxSteps] :
          IsFiniteSet(Places(c)) /\ Len(Repeated(c)) = Cardinality(Places(c))
    BY RepeatedOnce
  <2> QED BY <1>2, <2>1
<1>4. Len(RowsOf(order)) = Cardinality(H) /\ Len(PromptColumn(order)) = Cardinality(W)
  <2>1. DOMAIN Repeated(have) = 1..Cardinality(H) /\ DOMAIN Repeated(want) = 1..Cardinality(W)
    BY DEF Repeated
  <2>2. Cardinality(H) \in Nat /\ Cardinality(W) \in Nat
    <3> HIDE DEF H, W
    <3> QED BY <1>3, FS_CardinalityType
  <2> DEFINE rs == RowsOf(order)
             ps == PromptColumn(order)
  <2>3. rs = [k \in DOMAIN Repeated(have) |->
                ResultRow(order[Repeated(have)[k][1]], Repeated(have)[k][2])]
    BY DEF RowsOf
  <2>4. ps = [k \in DOMAIN Repeated(want) |-> PromptOf(Repeated(want)[k][1] - 1)]
    BY DEF PromptColumn
  <2> HIDE DEF have, want, H, W, rs, ps
  <2>5. Len(rs) = Cardinality(H) /\ Len(ps) = Cardinality(W)
    BY <2>1, <2>2, <2>3, <2>4
  <2> QED BY <2>5 DEF rs, ps
<1>5. CASE Stepwise
  <2>1. have = want
    BY <1>5
  <2>2. Cardinality(H) = Cardinality(W)
    BY <2>1
  <2> QED BY <1>1, <1>4, <1>5, <2>2 DEF UnionCrashes, EmptyResult, NoFirstStep, Stepwise
<1>6. CASE ~Stepwise /\ ~EmptyResult
  <2>1. \A i \in 1..Total : <<order[i], 1>> \notin blank
    BY <1>1, <1>6 DEF EmptyResult, Stepwise
  <2>2. have = want
    BY <1>6, <2>1
  <2>3. Cardinality(H) = Cardinality(W)
    BY <2>2
  <2> QED BY <1>4, <1>6, <2>3 DEF UnionCrashes, NoFirstStep
<1>7. CASE ~Stepwise /\ EmptyResult
  <2>1. PICK t \in Trajs : <<t, 1>> \in blank
    BY <1>7 DEF EmptyResult
  <2> DEFINE i == t + 1
             p == i * Width + 1
  <2>2. i \in 1..Total /\ have[i] = 0 /\ \A j \in 1..Total : want[j] = 1 /\ have[j] \in 0..1
    <3>1. i \in 1..Total /\ order[i] = t
      BY <1>1
    <3>2. /\ have[i] = Tokens(order[i])
          /\ \A j \in 1..Total : want[j] = 1 /\ have[j] = Tokens(order[j])
      BY <1>7, <3>1
    <3>3. \A u : Tokens(u) \in 0..1
      OBVIOUS
    <3>4. Tokens(t) = 0
      BY <2>1
    <3> HIDE DEF have, want, Tokens
    <3> QED BY <3>1, <3>2, <3>3, <3>4
  <2>3. p \in Width..(Width * (Total + 1) - 1) /\ p \div Width = i /\ p % Width = 1
    BY <1>1, <2>2, PlaceOf
  <2> HIDE DEF have, want, i, p
  <2>4. p \in W
    BY <2>2, <2>3 DEF Places
  <2>5. p \notin H
    BY <2>2, <2>3 DEF Places
  <2>6. H \subseteq W
    BY <2>2, PlaceHolds DEF Places
  <2> HIDE DEF H, W
  <2>7. Cardinality(H) <= Cardinality(W) /\ (Cardinality(H) = Cardinality(W) => H = W)
    BY <1>3, <2>6, FS_Subset
  <2> QED BY <1>4, <1>7, <2>4, <2>5, <2>7 DEF UnionCrashes
<1> QED BY <1>5, <1>6, <1>7

(* The results in order, beside the prompts in order: when every side has  *)
(* its rows the two columns are of the same length and agree.              *)
LEMMA JoinedSound ==
  ASSUME Configured, NEW order, order = [i \in 1..Total |-> i - 1], ~UnionCrashes(order)
  PROVE  LET rows == Joined(order) IN
         /\ Sound(rows) /\ OfPrompt(rows) /\ rows # <<>>
         /\ Stepwise => AllSteps(rows)
         /\ ~Stepwise => Len(rows) = Total
<1> DEFINE count == [i \in 1..Total |-> IF Stepwise THEN steps[i - 1] ELSE 1]
           e == Repeated(count)
           n == Len(e)
           rows == Joined(order)
<1>1. /\ Total \in Nat \ {0} /\ MaxSteps \in Nat \ {0}
      /\ \A i \in 1..Total : i - 1 \in Trajs /\ order[i] = i - 1
      /\ \A t \in Trajs : t + 1 \in 1..Total /\ (t + 1) - 1 = t
      /\ \A t \in Trajs : steps[t] \in 0..MaxSteps /\ reward[t] \in Scores
  BY BatchSizes DEF Trajs, Configured
<1>2. /\ Stepwise => steps[0] # 0
      /\ \A i \in 1..Total : ~Stepwise => <<i - 1, 1>> \notin blank /\ steps[i - 1] = 1
  BY <1>1, UnionCrash DEF EmptyResult, NoFirstStep, Stepwise, Configured
<1>3. count \in [1..Total -> 0..MaxSteps]
  BY <1>1
<1>4. /\ n \in Nat /\ DOMAIN e = 1..n
      /\ \A k \in 1..n : e[k][1] \in 1..Total /\ e[k][2] \in 1..count[e[k][1]]
      /\ \A k, m \in 1..n : e[k][1] = e[m][1] /\ e[k][2] = e[m][2] => k = m
      /\ \A i \in 1..Total : \A s \in 1..count[i] :
           \E k \in 1..n : e[k][1] = i /\ e[k][2] = s
  <2> HIDE DEF count
  <2> QED BY <1>3, RepeatedOnce
<1>5. /\ Repeated([i \in 1..Total |->
            IF Stepwise THEN steps[order[i]]
            ELSE IF <<order[i], 1>> \in blank THEN 0 ELSE 1]) = e
      /\ Repeated([i \in 1..Total |-> IF Stepwise THEN steps[order[i]] ELSE 1]) = e
  <2>1. [i \in 1..Total |-> IF Stepwise THEN steps[order[i]]
                            ELSE IF <<order[i], 1>> \in blank THEN 0 ELSE 1] = count
    BY <1>1, <1>2
  <2>2. [i \in 1..Total |-> IF Stepwise THEN steps[order[i]] ELSE 1] = count
    BY <1>1
  <2> HIDE DEF count
  <2> QED BY <2>1, <2>2
<1> DEFINE Row(k) == [ResultRow(e[k][1] - 1, e[k][2]) EXCEPT
                      !.uid = <<PromptOf(e[k][1] - 1), 0>>]
<1>6. rows = [k \in 1..n |-> Row(k)]
  <2> HIDE DEF count, e, n
  <2>1. PromptColumn(order) = [k \in 1..n |-> PromptOf(e[k][1] - 1)]
    BY <1>4, <1>5 DEF PromptColumn
  <2>2. RowsOf(order) = [k \in 1..n |-> ResultRow(order[e[k][1]], e[k][2])]
    BY <1>4, <1>5 DEF RowsOf
  <2>3. \A k \in 1..n : order[e[k][1]] = e[k][1] - 1
    BY <1>1, <1>4
  <2>4. rows = [k \in 1..n |-> [RowsOf(order)[k] EXCEPT !.uid = <<PromptColumn(order)[k], 0>>]]
    <3>1. DOMAIN RowsOf(order) = 1..n
      BY <2>2
    <3> QED BY <3>1 DEF Joined
  <2>5. \A k \in 1..n : /\ RowsOf(order)[k] = ResultRow(e[k][1] - 1, e[k][2])
                        /\ PromptColumn(order)[k] = PromptOf(e[k][1] - 1)
    BY <2>1, <2>2, <2>3
  <2> HIDE DEF rows
  <2> QED BY <2>4, <2>5
<1>7. \A k \in 1..n :
        /\ e[k][1] - 1 \in Trajs /\ e[k][2] \in 1..MaxSteps
        /\ e[k][2] \in 1..steps[e[k][1] - 1] /\ (~Stepwise => e[k][2] = 1)
  <2>1. \A k \in 1..n : /\ e[k][1] \in 1..Total /\ e[k][1] - 1 \in Trajs
                        /\ e[k][2] \in 1..count[e[k][1]]
    BY <1>1, <1>4
  <2>2. \A i \in 1..Total : /\ steps[i - 1] \in 0..MaxSteps
                            /\ Stepwise => count[i] = steps[i - 1]
                            /\ ~Stepwise => count[i] = 1 /\ steps[i - 1] = 1
    BY <1>1, <1>2
  <2> HIDE DEF count, e, n
  <2>3. \A i \in 1..Total : \A s \in 1..count[i] :
          s \in 1..MaxSteps /\ s \in 1..steps[i - 1] /\ (~Stepwise => s = 1)
    <3> TAKE i \in 1..Total
    <3> TAKE s \in 1..count[i]
    <3>1. CASE Stepwise
      BY <1>1, <2>2, <3>1
    <3>2. CASE ~Stepwise
      <4>1. count[i] = 1 /\ s \in 1..count[i]
        BY <2>2, <3>2
      <4>2. s = 1
        BY <4>1
      <4>3. steps[i - 1] \in 1..MaxSteps
        <5>1. steps[i - 1] = 1
          BY <2>2, <3>2
        <5> QED BY <1>1, <5>1
      <4> QED BY <1>1, <3>2, <4>2, <4>3
    <3> QED BY <3>1, <3>2
  <2> QED BY <2>1, <2>3
<1>8. ASSUME NEW t \in Trajs, NEW s \in 1..MaxSteps,
             s \in 1..steps[t], ~Stepwise => s = 1
      PROVE  LET r == [ResultRow(t, s) EXCEPT !.uid = <<PromptOf(t), 0>>] IN
             /\ r \in Rows /\ Fits(r) /\ r.uid[2] = 0
             /\ r.traj = t /\ r.step = s /\ ~r.pad
  <2> DEFINE l == Stepwise /\ s = steps[t]
             r == [ResultRow(t, s) EXCEPT !.uid = <<PromptOf(t), 0>>]
  <2>1. l \in BOOLEAN
    BY DEF Stepwise
  <2>2. PromptOf(t) \in 0..(Prompts - 1) /\ ScoreOf(t, s) \in Scores
    BY <1>1, PromptsOf DEF ScoreOf, Scores
  <2>3. <<PromptOf(t), 0>> \in Uids
    BY <1>1, <2>2 DEF Uids
  <2>4. NoAdv \in [of : SUBSET Trajs, against : SUBSET Trajs, rows : Nat]
    BY DEF NoAdv
  <2>5. ResultRow(t, s) = [traj |-> t, step |-> s, uid |-> <<0, 0>>, last |-> l,
               pad |-> FALSE, masked |-> FALSE, score |-> ScoreOf(t, s), adv |-> NoAdv]
    BY DEF ResultRow, ScoreOf
  <2>6. l <=> (Stepwise /\ s = steps[t])
    OBVIOUS
  <2> HIDE DEF l
  <2>7. PICK q : q = ResultRow(t, s)
    OBVIOUS
  <2>8. /\ q \in Rows /\ q.traj = t /\ q.step = s /\ q.last = l /\ ~q.pad
        /\ q.score = ScoreOf(t, s)
    <3>1. <<0, 0>> \in Uids
      BY <1>1, PpoAssumption DEF Uids
    <3> QED BY <2>1, <2>2, <2>4, <2>5, <2>7, <3>1 DEF Rows
  <2>9. /\ r \in Rows
        /\ r.traj = t /\ r.step = s /\ r.uid[1] = PromptOf(t) /\ r.uid[2] = 0
        /\ r.last = l /\ ~r.pad /\ r.score = ScoreOf(t, s)
    <3>1. r = [q EXCEPT !.uid = <<PromptOf(t), 0>>]
      BY <2>7
    <3> HIDE DEF r
    <3> QED BY <2>3, <2>8, <3>1 DEF Rows
  <2> HIDE DEF r
  <2>10. Fits(r)
    BY <1>8, <2>6, <2>9 DEF Fits
  <2> QED BY <2>9, <2>10 DEF r
<1>9. \A k \in 1..n :
        /\ Row(k) \in Rows /\ Fits(Row(k)) /\ Row(k).uid[2] = 0
        /\ Row(k).traj = e[k][1] - 1 /\ Row(k).step = e[k][2] /\ ~Row(k).pad
  <2> HIDE DEF e, n
  <2> QED BY <1>7, <1>8
<1> HIDE DEF count, e, n, rows, Row
<1>10. /\ rows \in Seq(Rows) /\ Len(rows) = n
       /\ \A k \in 1..n : rows[k] = Row(k)
  BY <1>4, <1>6, <1>9
<1>11. \A k \in 1..n : e[k][1] \in Int
  BY <1>1, <1>4
<1>12. Sound(rows)
  <2>1. \A i, j \in 1..n : SameStep(rows[i], rows[j]) => i = j
    <3> SUFFICES ASSUME NEW i \in 1..n, NEW j \in 1..n, SameStep(rows[i], rows[j])
                 PROVE  i = j
      OBVIOUS
    <3>1. e[i][1] - 1 = e[j][1] - 1 /\ e[i][2] = e[j][2]
      BY <1>9, <1>10 DEF SameStep
    <3>2. e[i][1] = e[j][1]
      BY <1>11, <3>1
    <3> QED BY <1>4, <3>1, <3>2
  <2> QED BY <1>9, <1>10, <2>1 DEF Sound, OneRowEach
<1>13. OfPrompt(rows)
  BY <1>9, <1>10 DEF OfPrompt
<1>14. \A t \in Trajs : \A s \in 1..count[t + 1] :
         \E k \in 1..n : rows[k].traj = t /\ rows[k].step = s /\ ~rows[k].pad
  <2> TAKE t \in Trajs
  <2> TAKE s \in 1..count[t + 1]
  <2>1. PICK k \in 1..n : e[k][1] = t + 1 /\ e[k][2] = s
    <3>1. t + 1 \in 1..Total
      BY <1>1
    <3> QED BY <1>4, <3>1
  <2>2. (t + 1) - 1 = t
    BY <1>1
  <2>3. rows[k].traj = t /\ rows[k].step = s /\ ~rows[k].pad
    BY <1>9, <1>10, <2>1, <2>2
  <2> QED BY <2>3
<1>15. rows # <<>>
  <2>1. count[1] \in Nat \ {0}
    <3>1. 1 \in 1..Total /\ order[1] = 0 /\ steps[0] \in 0..MaxSteps
      BY <1>1
    <3>2. count[1] = IF Stepwise THEN steps[0] ELSE 1
      BY <3>1 DEF count
    <3> QED BY <1>1, <1>2, <3>1, <3>2
  <2>2. \E k \in 1..n : TRUE
    <3>1. 1 \in 1..Total /\ 1 \in 1..count[1]
      BY <1>1, <2>1
    <3>2. \E k \in 1..n : e[k][1] = 1 /\ e[k][2] = 1
      BY <1>4, <3>1
    <3> QED BY <3>2
  <2>3. Len(rows) # 0
    BY <1>4, <1>10, <2>2
  <2> QED BY <2>3
<1>16. ASSUME Stepwise PROVE AllSteps(rows)
  <2>1. \A k \in 1..n : rows[k].traj \in Trajs
    BY <1>7, <1>9, <1>10
  <2>2. \A t \in Trajs : count[t + 1] = steps[t]
    BY <1>1, <1>16 DEF count
  <2> QED BY <1>10, <1>14, <2>1, <2>2 DEF AllSteps
<1>17. ASSUME ~Stepwise PROVE Len(rows) = Total
  <2> DEFINE f == [k \in 1..n |-> e[k][1]]
  <2>1. \A k \in 1..n : e[k][2] = 1
    BY <1>7, <1>17
  <2>2. f \in Injection(1..n, 1..Total)
    BY <1>4, <2>1 DEF Injection, IsInjective
  <2>3. \A i \in 1..Total : 1 \in 1..count[i]
    BY <1>17 DEF count
  <2>4. \A i \in 1..Total : \E k \in 1..n : f[k] = i
    BY <1>4, <2>3
  <2>5. f \in Surjection(1..n, 1..Total)
    BY <2>2, <2>4 DEF Surjection, Injection
  <2>6. /\ IsFiniteSet(1..Total) /\ Cardinality(1..Total) = Total
        /\ IsFiniteSet(1..n) /\ Cardinality(1..n) = n
    BY <1>1, <1>4, Positions
  <2> HIDE DEF f
  <2>7. Cardinality(1..n) = Cardinality(1..Total)
    BY <2>2, <2>5, <2>6, FS_Injection
  <2> QED BY <1>10, <2>6, <2>7
<1> QED BY <1>12, <1>13, <1>15, <1>16, <1>17 DEF rows

(* After rejection sampling: the prompt of every row was solved by some of *)
(* its trajectories and not by all, or by all with a response left empty.  *)
Unsolved(t) == reward[t] < 2 \/ \E s \in 1..steps[t] : <<t, s>> \in blank

HasSignal(rows) ==
  \A i \in 1..Len(rows) :
    /\ \E t \in Trajs : PromptOf(t) = PromptOf(rows[i].traj) /\ reward[t] > 0
    /\ \E t \in Trajs : PromptOf(t) = PromptOf(rows[i].traj) /\ Unsolved(t)

(* An advantage of the row's own trajectory, or what is broadcast from a   *)
(* last step without response.                                             *)
Own(r) ==
  /\ r.adv.of = {r.traj}
  /\ r.traj \in r.adv.against
  /\ \A t \in r.adv.against : PromptOf(t) = PromptOf(r.traj)
  /\ r.adv.rows = Cardinality(r.adv.against)

OwnAdvantage(r) ==
  Own(r) \/ (mode = "broadcast" /\ ~r.last /\ NoMean(r.traj) /\ r.adv = NoAdv)

AllOwn(rows) == \A i \in 1..Len(rows) : OwnAdvantage(rows[i])

(* Selecting rows and changing what is not their trajectory keeps signal.  *)
LEMMA SignalKept ==
  ASSUME NEW rows, NEW q, HasSignal(rows),
         \A k \in 1..Len(q) : \E i \in 1..Len(rows) : q[k].traj = rows[i].traj
  PROVE  HasSignal(q)
BY DEF HasSignal

(* So it does all steps, when no step is lost.                             *)
LEMMA StepsKept ==
  ASSUME NEW rows, NEW q, AllSteps(rows),
         \A k \in 1..Len(q) : \E i \in 1..Len(rows) : q[k].traj = rows[i].traj,
         \A i \in 1..Len(rows) : ~rows[i].pad =>
           \E k \in 1..Len(q) : q[k].traj = rows[i].traj /\ q[k].step = rows[i].step /\ ~q[k].pad
  PROVE  AllSteps(q)
<1> SUFFICES ASSUME NEW k \in 1..Len(q), NEW s \in 1..steps[q[k].traj]
             PROVE  \E m \in 1..Len(q) : q[m].traj = q[k].traj /\ q[m].step = s /\ ~q[m].pad
  BY DEF AllSteps
<1>1. PICK i \in 1..Len(rows) : q[k].traj = rows[i].traj
  OBVIOUS
<1>2. PICK j \in 1..Len(rows) : rows[j].traj = rows[i].traj /\ rows[j].step = s /\ ~rows[j].pad
  <2>1. s \in 1..steps[rows[i].traj]
    BY <1>1
  <2> QED BY <2>1 DEF AllSteps
<1> QED BY <1>1, <1>2

(* Padding keeps all that is known of the rows.                            *)
LEMMA PadKeeps ==
  ASSUME NEW rows, Sound(rows), world \in Nat \ {0}, Stepwise \/ Len(rows) % world = 0
  PROVE  LET q == PadToWorldSize(rows) IN
         /\ Sound(q) /\ Len(q) % world = 0
         /\ OfPrompt(rows) => OfPrompt(q)
         /\ AllSteps(rows) => AllSteps(q)
         /\ HasSignal(rows) => HasSignal(q)
         /\ AllOwn(rows) => AllOwn(q)
         /\ rows # <<>> => q # <<>>
<1> DEFINE q == PadToWorldSize(rows)
<1>1. /\ Sound(q) /\ Len(q) % world = 0
      /\ \A i \in 1..Len(rows) : i \in 1..Len(q) /\ q[i] = rows[i]
      /\ \A k \in 1..Len(q) : \E i \in 1..Len(rows) :
           q[k] = rows[i] \/ (Stepwise /\ q[k] = Copy(rows[i]))
  BY PadSound
<1> HIDE DEF q
<1>2. \A i \in 1..Len(rows) : rows[i] \in Rows /\ Fits(rows[i])
  BY DEF Sound
<1>3. ASSUME NEW k \in 1..Len(q)
      PROVE  \E i \in 1..Len(rows) : /\ q[k].traj = rows[i].traj /\ q[k].uid = rows[i].uid
                                     /\ q[k].adv = rows[i].adv
                                     /\ ~rows[i].last => ~q[k].last
  <2>1. PICK i \in 1..Len(rows) : q[k] = rows[i] \/ (Stepwise /\ q[k] = Copy(rows[i]))
    BY <1>1
  <2> QED BY <1>2, <2>1, CopyFits
<1>4. OfPrompt(rows) => OfPrompt(q)
  BY <1>3 DEF OfPrompt
<1>5. AllSteps(rows) => AllSteps(q)
  <2>1. \A k \in 1..Len(q) : \E i \in 1..Len(rows) : q[k].traj = rows[i].traj
    BY <1>3
  <2>2. \A i \in 1..Len(rows) : ~rows[i].pad =>
          \E k \in 1..Len(q) : q[k].traj = rows[i].traj /\ q[k].step = rows[i].step /\ ~q[k].pad
    BY <1>1
  <2> QED BY ONLY <2>1, <2>2, StepsKept
<1>6. HasSignal(rows) => HasSignal(q)
  BY <1>3, SignalKept
<1>7. AllOwn(rows) => AllOwn(q)
  BY <1>3 DEF AllOwn, OwnAdvantage, Own
<1>8. rows # <<>> => q # <<>>
  <2> SUFFICES ASSUME rows # <<>> PROVE q # <<>>
    OBVIOUS
  <2>1. Len(rows) \in Nat \ {0}
    BY DEF Sound
  <2>2. 1 \in 1..Len(q)
    BY <1>1, <2>1
  <2> QED BY <2>2
<1> QED BY <1>1, <1>4, <1>5, <1>6, <1>7, <1>8 DEF q
-----------------------------------------------------------------------------
(* What each phase leaves to the next.                                     *)
Collected(rows) ==
  /\ Sound(rows) /\ OfPrompt(rows) /\ rows # <<>>
  /\ IF Stepwise THEN AllSteps(rows) ELSE Len(rows) = Total

Kept(rows) ==
  /\ Sound(rows)
  /\ mode = "broadcast" => AllSteps(rows)
  /\ reject => HasSignal(rows)

TokenSize(rows) ==
  ~Stepwise => IF reject THEN Len(rows) % world = 0 ELSE Len(rows) = Total

Sampled(rows) == Kept(rows) /\ OfPrompt(rows) /\ rows # <<>> /\ TokenSize(rows)
Weighed(rows) == Kept(rows) /\ AllOwn(rows) /\ TokenSize(rows)
Trained(rows) == Kept(rows) /\ AllOwn(rows) /\ Len(rows) % world = 0

(* The results, joined and padded, are what Collect promises.              *)
LEMMA CollectRows ==
  ASSUME Configured, NEW order \in Orders,
         ~UnionCrashes(order)
  PROVE  Collected(IF Stepwise THEN PadToWorldSize(Joined(order)) ELSE Joined(order))
<1> DEFINE rows == Joined(order)
<1>1. order = [i \in 1..Total |-> i - 1]
  BY SortedByIdx DEF Orders
<1>2. /\ Sound(rows) /\ OfPrompt(rows) /\ rows # <<>>
      /\ Stepwise => AllSteps(rows)
      /\ ~Stepwise => Len(rows) = Total
  BY <1>1, JoinedSound
<1>3. world \in Nat \ {0}
  BY PpoAssumption DEF Configured
<1> HIDE DEF rows
<1>4. CASE Stepwise
  BY <1>2, <1>3, <1>4, PadKeeps DEF Collected, rows
<1>5. CASE ~Stepwise
  BY <1>2, <1>5 DEF Collected, rows
<1> QED BY <1>4, <1>5
-----------------------------------------------------------------------------
(* The rows of the prompts that have signal.                               *)
LEMMA ValidRows ==
  ASSUME Configured, Sound(batch), OfPrompt(batch)
  PROVE  LET v == Valid(batch) IN
         /\ Sound(v) /\ OfPrompt(v) /\ HasSignal(v)
         /\ AllSteps(batch) => AllSteps(v)
<1> DEFINE P == {i \in DOMAIN batch : Mixed(batch, batch[i].uid)}
           v == Valid(batch)
<1>1. /\ batch \in Seq(Rows) /\ DOMAIN batch = 1..Len(batch)
      /\ \A i \in 1..Len(batch) : batch[i] \in Rows /\ Fits(batch[i]) /\ batch[i].uid[2] = 0
  BY DEF Sound, OfPrompt
<1>2. P \in SUBSET (1..Len(batch))
  BY <1>1
<1>3. v = Pick(batch, P)
  BY DEF Valid
<1> HIDE DEF P, v
<1>4. /\ Sound(v)
      /\ \A k \in 1..Len(v) : \E i \in P : v[k] = batch[i]
      /\ \A i \in P : \E k \in 1..Len(v) : v[k] = batch[i]
  BY <1>2, <1>3, PickSound
<1>5. OfPrompt(v)
  BY <1>1, <1>2, <1>4 DEF OfPrompt
<1>6. ASSUME NEW i \in P
      PROVE  /\ \E t \in Trajs : PromptOf(t) = PromptOf(batch[i].traj) /\ reward[t] > 0
             /\ \E t \in Trajs : PromptOf(t) = PromptOf(batch[i].traj) /\ Unsolved(t)
  <2>1. Mixed(batch, batch[i].uid) /\ i \in 1..Len(batch)
    BY <1>2 DEF P
  <2>2. \A j \in 1..Len(batch) : batch[j].uid = batch[i].uid =>
          /\ batch[j].traj \in Trajs /\ PromptOf(batch[j].traj) = PromptOf(batch[i].traj)
          /\ batch[j].score > 0 => reward[batch[j].traj] > 0
          /\ batch[j].score < 2 => Unsolved(batch[j].traj)
    <3> TAKE j \in 1..Len(batch)
    <3> HAVE batch[j].uid = batch[i].uid
    <3>1. batch[j].traj \in Trajs
      BY <1>1 DEF Rows
    <3>2. Fits(batch[i]) /\ Fits(batch[j])
      BY <1>1, <2>1
    <3>3. /\ batch[j].score = ScoreOf(batch[j].traj, batch[j].step)
          /\ batch[j].step \in 1..steps[batch[j].traj]
          /\ PromptOf(batch[j].traj) = PromptOf(batch[i].traj)
      BY <3>2 DEF Fits
    <3> QED BY <3>1, <3>3 DEF ScoreOf, Unsolved
  <2>3. /\ \E j \in 1..Len(batch) : batch[j].uid = batch[i].uid /\ batch[j].score > 0
        /\ \E j \in 1..Len(batch) : batch[j].uid = batch[i].uid /\ batch[j].score < 2
    BY <1>1, <2>1 DEF Mixed
  <2> QED BY <2>2, <2>3
<1>7. HasSignal(v)
  <2> SUFFICES ASSUME NEW k \in 1..Len(v)
               PROVE  /\ \E t \in Trajs : PromptOf(t) = PromptOf(v[k].traj) /\ reward[t] > 0
                      /\ \E t \in Trajs : PromptOf(t) = PromptOf(v[k].traj) /\ Unsolved(t)
    BY DEF HasSignal
  <2>1. PICK i \in P : v[k] = batch[i]
    BY <1>4
  <2> QED BY <1>6, <2>1
<1>8. ASSUME NEW i \in P, NEW j \in 1..Len(batch), batch[j].traj = batch[i].traj PROVE j \in P
  <2>1. i \in 1..Len(batch)
    BY <1>2
  <2>2. batch[i].uid \in Uids /\ batch[j].uid \in Uids
    BY <1>1, <2>1 DEF Rows
  <2>3. batch[i].uid[1] = batch[j].uid[1] /\ batch[i].uid[2] = batch[j].uid[2]
    BY <1>1, <1>8, <2>1 DEF Fits
  <2>4. batch[i].uid = batch[j].uid
    BY <2>2, <2>3 DEF Uids
  <2> QED BY <1>1, <2>4 DEF P
<1>9. ASSUME AllSteps(batch) PROVE AllSteps(v)
  <2> SUFFICES ASSUME NEW k \in 1..Len(v), NEW s \in 1..steps[v[k].traj]
               PROVE  \E m \in 1..Len(v) : v[m].traj = v[k].traj /\ v[m].step = s /\ ~v[m].pad
    BY DEF AllSteps
  <2>1. PICK i \in P : v[k] = batch[i]
    BY <1>4
  <2>2. i \in 1..Len(batch)
    BY <1>2
  <2>3. PICK j \in 1..Len(batch) : batch[j].traj = batch[i].traj /\ batch[j].step = s /\ ~batch[j].pad
    BY <1>9, <2>1, <2>2 DEF AllSteps
  <2>4. j \in P
    BY <1>8, <2>3
  <2>5. PICK m \in 1..Len(v) : v[m] = batch[j]
    BY <1>4, <2>4
  <2> QED BY <2>1, <2>3, <2>5
<1> QED BY <1>4, <1>5, <1>7, <1>9 DEF v

(* Rounding down leaves a prefix, a multiple of the world size.            *)
LEMMA RoundSound ==
  ASSUME NEW rows, Sound(rows), world \in Nat \ {0}
  PROVE  /\ Sound(RoundDown(rows)) /\ Len(RoundDown(rows)) % world = 0
         /\ \A k \in 1..Len(RoundDown(rows)) :
              k \in 1..Len(rows) /\ RoundDown(rows)[k] = rows[k]
<1> DEFINE m == (Len(rows) \div world) * world
<1>1. Len(rows) \in Nat
  BY DEF Sound
<1>2. m \in 0..Len(rows) /\ m % world = 0
  BY <1>1, RoundedDown
<1>3. RoundDown(rows) = SubSeq(rows, 1, m)
  BY DEF RoundDown
<1> HIDE DEF m
<1>4. /\ Sound(SubSeq(rows, 1, m)) /\ Len(SubSeq(rows, 1, m)) = m
      /\ \A k \in 1..m : SubSeq(rows, 1, m)[k] = rows[k]
  BY <1>2, PrefixSound
<1>5. \A k \in 1..m : k \in 1..Len(rows)
  BY <1>1, <1>2
<1> QED BY <1>2, <1>3, <1>4, <1>5

(* Rejection sampling with broadcast advantages: of the trajectories whose *)
(* last step survives the rounding all steps are kept, and of the others   *)
(* none.                                                                   *)
LEMMA BroadcastRows ==
  ASSUME Configured, mode = "broadcast", NEW v,
         Sound(v), OfPrompt(v), HasSignal(v), AllSteps(v)
  PROVE  LET steps1 == Unpadded(v)
             lasts  == RoundDown(LastSteps(steps1))
             c      == lasts \o KeptOthers(steps1, lasts)
         IN  /\ Sound(c) /\ OfPrompt(c) /\ HasSignal(c) /\ AllSteps(c)
             /\ lasts # <<>> => c # <<>>
<1> DEFINE u == Unpadded(v)
           all == LastSteps(u)
           lasts == RoundDown(all)
           others == KeptOthers(u, lasts)
           c == lasts \o others
           U == {i \in DOMAIN v : ~v[i].pad}
           L == {i \in DOMAIN u : u[i].last}
           O == {i \in DOMAIN u : ~u[i].last /\ u[i].traj \in {lasts[j].traj : j \in DOMAIN lasts}}
<1>1. Stepwise /\ world \in Nat \ {0}
  BY PpoAssumption DEF Stepwise, Configured
<1>2. /\ Sound(u)
      /\ \A k \in 1..Len(u) : \E i \in 1..Len(v) : u[k] = v[i] /\ ~v[i].pad
      /\ \A i \in 1..Len(v) : ~v[i].pad => \E k \in 1..Len(u) : u[k] = v[i]
  <2>1. DOMAIN v = 1..Len(v)
    BY DEF Sound
  <2>2. U \in SUBSET (1..Len(v)) /\ \A i \in 1..Len(v) : i \in U <=> ~v[i].pad
    BY <2>1
  <2>3. u = Pick(v, U)
    BY DEF Unpadded
  <2> HIDE DEF u, U
  <2>4. /\ Sound(u)
        /\ \A k \in 1..Len(u) : \E i \in U : u[k] = v[i]
        /\ \A i \in U : \E k \in 1..Len(u) : u[k] = v[i]
    BY <2>2, <2>3, PickSound
  <2> QED BY <2>2, <2>4
<1>3. AllSteps(u)
  <2> HIDE DEF u
  <2>1. \A k \in 1..Len(u) : \E i \in 1..Len(v) : u[k].traj = v[i].traj
    BY <1>2
  <2>2. \A i \in 1..Len(v) : ~v[i].pad =>
          \E k \in 1..Len(u) : u[k].traj = v[i].traj /\ u[k].step = v[i].step /\ ~u[k].pad
    BY <1>2
  <2> QED BY ONLY <2>1, <2>2, AllSteps(v), StepsKept
<1>4. /\ Sound(all) /\ \A k \in 1..Len(all) : \E i \in 1..Len(u) : all[k] = u[i] /\ u[i].last
  <2>1. DOMAIN u = 1..Len(u)
    BY <1>2 DEF Sound
  <2>2. L \in SUBSET (1..Len(u)) /\ \A i \in L : u[i].last
    BY <2>1
  <2>3. all = Pick(u, L)
    BY DEF LastSteps
  <2> HIDE DEF u, all, L
  <2>4. Sound(all) /\ \A k \in 1..Len(all) : \E i \in L : all[k] = u[i]
    <3>1. Sound(u) /\ L \in SUBSET (1..Len(u))
      BY <1>2, <2>2
    <3> QED BY ONLY <2>3, <3>1, PickSound
  <2> QED BY <2>2, <2>4
<1>5. /\ Sound(lasts)
      /\ \A k \in 1..Len(lasts) : \E i \in 1..Len(u) : lasts[k] = u[i] /\ u[i].last
  <2> HIDE DEF all, u
  <2> QED BY <1>1, <1>4, RoundSound
<1>6. /\ Sound(others)
      /\ \A k \in 1..Len(others) : \E i \in 1..Len(u) :
           /\ others[k] = u[i] /\ ~u[i].last
           /\ \E j \in 1..Len(lasts) : lasts[j].traj = u[i].traj
      /\ \A i \in 1..Len(u) : ~u[i].last /\ (\E j \in 1..Len(lasts) : lasts[j].traj = u[i].traj)
           => \E k \in 1..Len(others) : others[k] = u[i]
  <2>1. DOMAIN u = 1..Len(u)
    BY <1>2 DEF Sound
  <2>2. DOMAIN lasts = 1..Len(lasts)
    BY <1>5 DEF Sound
  <2>3. others = Pick(u, O)
    BY DEF KeptOthers
  <2> HIDE DEF u, lasts, others
  <2>4. /\ O \in SUBSET (1..Len(u))
        /\ \A i \in 1..Len(u) : i \in O <=>
             ~u[i].last /\ \E j \in 1..Len(lasts) : lasts[j].traj = u[i].traj
    BY <2>1, <2>2
  <2> HIDE DEF O
  <2>5. /\ Sound(others)
        /\ \A k \in 1..Len(others) : \E i \in O : others[k] = u[i]
        /\ \A i \in O : \E k \in 1..Len(others) : others[k] = u[i]
    BY <1>2, <2>3, <2>4, PickSound
  <2> QED BY <2>4, <2>5
<1> HIDE DEF u, all, lasts, others
<1>7. \A i \in 1..Len(u) : /\ u[i] \in Rows /\ Fits(u[i]) /\ ~u[i].pad
                           /\ u[i].last <=> u[i].step = steps[u[i].traj]
  <2>1. \A i \in 1..Len(u) : u[i] \in Rows /\ Fits(u[i]) /\ ~u[i].pad
    BY <1>2 DEF Sound
  <2> QED BY <1>1, <2>1 DEF Fits
<1>8. \A i \in 1..Len(lasts), j \in 1..Len(others) : ~SameStep(lasts[i], others[j])
  <2> TAKE i \in 1..Len(lasts), j \in 1..Len(others)
  <2>1. PICK k \in 1..Len(u) : lasts[i] = u[k] /\ u[k].last
    BY <1>5
  <2>2. PICK m \in 1..Len(u) : others[j] = u[m] /\ ~u[m].last
    BY <1>6
  <2> QED BY <1>7, <2>1, <2>2 DEF SameStep
<1>9. /\ Sound(c) /\ Len(c) = Len(lasts) + Len(others)
      /\ Len(lasts) \in Nat /\ Len(others) \in Nat
      /\ \A i \in 1..Len(lasts) : i \in 1..Len(c) /\ c[i] = lasts[i]
      /\ \A j \in 1..Len(others) : Len(lasts) + j \in 1..Len(c) /\ c[Len(lasts) + j] = others[j]
  <2>1. Sound(lasts) /\ Sound(others)
    BY <1>5, <1>6
  <2> HIDE DEF U, L, O
  <2> QED BY ONLY <1>8, <2>1, ConcatSound
<1> HIDE DEF c
<1>10. \A k \in 1..Len(c) : \/ \E i \in 1..Len(lasts) : c[k] = lasts[i]
                            \/ \E j \in 1..Len(others) : c[k] = others[j]
  <2> TAKE k \in 1..Len(c)
  <2>1. CASE k <= Len(lasts)
    BY <1>9, <2>1
  <2>2. CASE ~(k <= Len(lasts))
    <3>1. k - Len(lasts) \in 1..Len(others) /\ Len(lasts) + (k - Len(lasts)) = k
      BY <1>9, <2>2
    <3> QED BY <1>9, <3>1
  <2> QED BY <2>1, <2>2
<1>11. \A k \in 1..Len(c) : /\ \E i \in 1..Len(u) : c[k] = u[i]
                            /\ \E j \in 1..Len(lasts) : lasts[j].traj = c[k].traj
  <2> TAKE k \in 1..Len(c)
  <2>1. CASE \E i \in 1..Len(lasts) : c[k] = lasts[i]
    BY <1>5, <2>1
  <2>2. CASE \E j \in 1..Len(others) : c[k] = others[j]
    <3>1. PICK j \in 1..Len(others) : c[k] = others[j]
      BY <2>2
    <3>2. PICK i \in 1..Len(u) : /\ others[j] = u[i]
                               /\ \E m \in 1..Len(lasts) : lasts[m].traj = u[i].traj
      BY <1>6
    <3> QED BY <3>1, <3>2
  <2> QED BY <1>10, <2>1, <2>2
<1>12. \A k \in 1..Len(c) : \E i \in 1..Len(v) : c[k] = v[i]
  BY <1>2, <1>11
<1>13. OfPrompt(c) /\ HasSignal(c)
  BY <1>12, SignalKept DEF OfPrompt
<1>14. AllSteps(c)
  <2> SUFFICES ASSUME NEW k \in 1..Len(c), NEW s \in 1..steps[c[k].traj]
               PROVE  \E m \in 1..Len(c) : c[m].traj = c[k].traj /\ c[m].step = s /\ ~c[m].pad
    BY DEF AllSteps
  <2>1. PICK j \in 1..Len(lasts) : lasts[j].traj = c[k].traj
    BY <1>11
  <2>2. PICK i \in 1..Len(u) : lasts[j] = u[i] /\ u[i].last
    BY <1>5
  <2>3. s \in 1..steps[u[i].traj]
    BY <2>1, <2>2
  <2>4. PICK m \in 1..Len(u) : u[m].traj = u[i].traj /\ u[m].step = s /\ ~u[m].pad
    BY <1>3, <2>3 DEF AllSteps
  <2>5. CASE u[m].last
    <3>1. u[i].step = s
      BY <1>7, <2>2, <2>4, <2>5
    <3> QED BY <1>7, <1>9, <2>1, <2>2, <3>1
  <2>6. CASE ~u[m].last
    <3>1. PICK n \in 1..Len(others) : others[n] = u[m]
      BY <1>6, <2>1, <2>2, <2>4, <2>6
    <3> QED BY <1>9, <2>1, <2>2, <2>4, <3>1
  <2> QED BY <2>5, <2>6
<1>15. lasts # <<>> => c # <<>>
  <2> SUFFICES ASSUME lasts # <<>> PROVE c # <<>>
    OBVIOUS
  <2>1. lasts \in Seq(Rows) /\ Len(lasts) # 0
    BY <1>5 DEF Sound
  <2>2. 1 \in 1..Len(c)
    BY <1>9, <2>1
  <2> QED BY <2>2
<1> QED BY <1>9, <1>13, <1>14, <1>15 DEF c, lasts, others, all, u

(* What rejection sampling leaves to the advantages, when it leaves any.   *)
LEMMA SampleRows ==
  ASSUME Configured, Collected(batch), reject
  PROVE  LET valid  == Valid(batch)
             steps1 == Unpadded(valid)
             lasts  == RoundDown(LastSteps(steps1))
         IN  /\ mode = "broadcast" /\ lasts # <<>> =>
                  Sampled(PadToWorldSize(lasts \o KeptOthers(steps1, lasts)))
             /\ mode # "broadcast" /\ RoundDown(valid) # <<>> =>
                  Sampled(RoundDown(valid))
<1> DEFINE v == Valid(batch)
           lasts == RoundDown(LastSteps(Unpadded(v)))
           c == lasts \o KeptOthers(Unpadded(v), lasts)
           q == RoundDown(v)
<1>1. world \in Nat \ {0}
  BY PpoAssumption DEF Configured
<1>2. Sound(v) /\ OfPrompt(v) /\ HasSignal(v) /\ (AllSteps(batch) => AllSteps(v))
  BY ValidRows DEF Collected
<1>3. ASSUME mode = "broadcast", lasts # <<>> PROVE Sampled(PadToWorldSize(c))
  <2>1. Stepwise /\ AllSteps(v)
    BY <1>2, <1>3 DEF Stepwise, Collected
  <2>2. Sound(c) /\ OfPrompt(c) /\ HasSignal(c) /\ AllSteps(c) /\ c # <<>>
    <3> HIDE DEF v
    <3> QED BY <1>2, <1>3, <2>1, BroadcastRows
  <2> HIDE DEF c
  <2> QED BY <1>1, <2>1, <2>2, PadKeeps DEF Sampled, Kept, TokenSize
<1>4. ASSUME mode # "broadcast", q # <<>> PROVE Sampled(q)
  <2> HIDE DEF v
  <2>1. /\ Sound(q) /\ Len(q) % world = 0
        /\ \A k \in 1..Len(q) : k \in 1..Len(v) /\ q[k] = v[k]
    BY <1>1, <1>2, RoundSound
  <2> HIDE DEF q
  <2>2. OfPrompt(q) /\ HasSignal(q)
    BY <1>2, <2>1, SignalKept DEF OfPrompt
  <2> QED BY <1>4, <2>1, <2>2 DEF Sampled, Kept, TokenSize
<1> QED BY <1>3, <1>4

(* A row but for its advantage.                                            *)
SameRow(q, r) ==
  /\ q.traj = r.traj /\ q.step = r.step /\ q.uid = r.uid
  /\ q.last = r.last /\ q.pad = r.pad /\ q.score = r.score

Advantages == [of : SUBSET Trajs, against : SUBSET Trajs, rows : Nat]

(* Setting an advantage leaves the rest of a row as it was.                *)
LEMMA AdvantageSet ==
  ASSUME NEW r \in Rows, Fits(r), NEW a \in Advantages
  PROVE  LET q == [r EXCEPT !.adv = a] IN
         q \in Rows /\ Fits(q) /\ SameRow(q, r) /\ q.adv = a
BY DEF Rows, Fits, SameRow, Advantages

(* Where a group has one row of a trajectory, a row's advantage is         *)
(* computed for its trajectory, against trajectories of its prompt, each   *)
(* counted once.                                                           *)
LEMMA WeighedRows ==
  ASSUME NEW rows, Sound(rows),
         \A i, k \in 1..Len(rows) :
           rows[i].uid = rows[k].uid /\ rows[i].traj = rows[k].traj => i = k
  PROVE  LET q == WithAdvantage(rows) IN
         /\ Sound(q) /\ AllOwn(q) /\ Len(q) = Len(rows)
         /\ \A i \in 1..Len(rows) : SameRow(q[i], rows[i])
<1> DEFINE n == Len(rows)
           G(i) == {k \in 1..n : rows[k].uid = rows[i].uid}
           T(i) == {rows[k].traj : k \in G(i)}
           a(i) == [of |-> {rows[i].traj}, against |-> T(i), rows |-> Cardinality(G(i))]
           q == WithAdvantage(rows)
<1>1. /\ n \in Nat /\ DOMAIN rows = 1..n
      /\ \A i \in 1..n : rows[i] \in Rows /\ Fits(rows[i]) /\ rows[i].traj \in Trajs
  <2>1. rows \in Seq(Rows) /\ \A i \in 1..n : Fits(rows[i])
    BY DEF Sound
  <2>2. n \in Nat /\ DOMAIN rows = 1..n /\ \A i \in 1..n : rows[i] \in Rows
    BY <2>1
  <2>3. \A r \in Rows : r.traj \in Trajs
    BY DEF Rows
  <2> HIDE DEF n
  <2> QED BY <2>1, <2>2, <2>3
<1>2. q = [i \in 1..n |-> [rows[i] EXCEPT !.adv = a(i)]]
  BY <1>1 DEF WithAdvantage
<1>3. ASSUME NEW i \in 1..n
      PROVE  /\ Cardinality(G(i)) \in Nat /\ Cardinality(G(i)) = Cardinality(T(i))
             /\ T(i) \in SUBSET Trajs /\ rows[i].traj \in T(i)
             /\ \A t \in T(i) : PromptOf(t) = PromptOf(rows[i].traj)
  <2> DEFINE f == [k \in G(i) |-> rows[k].traj]
  <2>1. G(i) \in SUBSET (1..n) /\ i \in G(i)
    OBVIOUS
  <2>2. IsFiniteSet(1..n)
    BY <1>1, Positions
  <2>3. IsFiniteSet(G(i)) /\ Cardinality(G(i)) \in Nat
    <3> HIDE DEF G
    <3>1. IsFiniteSet(G(i))
      BY ONLY <2>1, <2>2, FS_Subset
    <3> QED BY <3>1, FS_CardinalityType
  <2>4. f \in Surjection(G(i), T(i))
    BY DEF Surjection
  <2>5. f \in Injection(G(i), T(i))
    BY <2>4 DEF Injection, IsInjective, Surjection
  <2>6. Cardinality(T(i)) = Cardinality(G(i))
    <3> HIDE DEF f, G, T
    <3> QED BY <2>3, <2>4, <2>5, FS_Surjection
  <2>7. \A k \in G(i) : PromptOf(rows[k].traj) = PromptOf(rows[i].traj) /\ rows[k].traj \in Trajs
    BY <1>1 DEF Fits
  <2> QED BY <2>1, <2>3, <2>6, <2>7
<1>4. ASSUME NEW i \in 1..n PROVE a(i) \in Advantages
  <2> HIDE DEF T, G
  <2> QED BY <1>1, <1>3 DEF Advantages
<1>5. ASSUME NEW i \in 1..n PROVE OwnAdvantage([rows[i] EXCEPT !.adv = a(i)])
  <2>1. PICK r : r = [rows[i] EXCEPT !.adv = a(i)]
    OBVIOUS
  <2>2. SameRow(r, rows[i]) /\ r.adv = a(i)
    <3> HIDE DEF a
    <3> QED BY <1>1, <1>4, <2>1, AdvantageSet
  <2> HIDE DEF T, G
  <2>3. /\ r.adv.of = {rows[i].traj} /\ r.adv.against = T(i)
        /\ r.adv.rows = Cardinality(G(i)) /\ r.traj = rows[i].traj
    BY <2>2 DEF SameRow
  <2> QED BY <1>3, <2>1, <2>3 DEF OwnAdvantage, Own
<1> HIDE DEF a, q
<1>6. \A i \in 1..n : /\ q[i] \in Rows /\ Fits(q[i]) /\ SameRow(q[i], rows[i])
                      /\ OwnAdvantage(q[i])
  BY <1>1, <1>2, <1>4, <1>5, AdvantageSet
<1>7. q \in Seq(Rows) /\ Len(q) = n
  BY <1>1, <1>2, <1>6
<1>8. OneRowEach(q)
  BY <1>6, <1>7 DEF Sound, OneRowEach, SameStep, SameRow
<1> QED BY <1>6, <1>7, <1>8 DEF Sound, AllOwn, q

(* What is known of rows that differ in their advantages only.             *)
LEMMA WeighedKeeps ==
  ASSUME NEW rows, NEW q, Kept(rows), Sound(q),
         \A k \in 1..Len(q) : \E i \in 1..Len(rows) : SameRow(q[k], rows[i]),
         \A i \in 1..Len(rows) : ~rows[i].pad => \E k \in 1..Len(q) : SameRow(q[k], rows[i])
  PROVE  Kept(q)
<1>1. \A k \in 1..Len(q) : \E i \in 1..Len(rows) : q[k].traj = rows[i].traj
  BY DEF SameRow
<1>2. \A i \in 1..Len(rows) : ~rows[i].pad =>
        \E k \in 1..Len(q) : q[k].traj = rows[i].traj /\ q[k].step = rows[i].step /\ ~q[k].pad
  <2> TAKE i \in 1..Len(rows)
  <2> HAVE ~rows[i].pad
  <2>1. PICK k \in 1..Len(q) : SameRow(q[k], rows[i])
    OBVIOUS
  <2>2. q[k].traj = rows[i].traj /\ q[k].step = rows[i].step /\ ~q[k].pad
    BY <2>1 DEF SameRow
  <2> QED BY <2>2
<1>3. AllSteps(rows) => AllSteps(q)
  BY ONLY <1>1, <1>2, StepsKept
<1>4. HasSignal(rows) => HasSignal(q)
  BY ONLY <1>1, SignalKept
<1> QED BY <1>3, <1>4 DEF Kept

(* Token mode: a trajectory has one row.                                   *)
LEMMA TokenAdvantage ==
  ASSUME Sampled(batch), mode = "token"
  PROVE  Weighed(WithAdvantage(batch))
<1> DEFINE q == WithAdvantage(batch)
<1>1. ~Stepwise /\ Sound(batch)
  BY DEF Stepwise, Sampled, Kept
<1>2. ASSUME NEW i \in 1..Len(batch), NEW k \in 1..Len(batch), batch[i].traj = batch[k].traj
      PROVE  i = k
  <2>1. Fits(batch[i]) /\ Fits(batch[k])
    BY <1>1 DEF Sound
  <2>2. SameStep(batch[i], batch[k])
    BY <1>1, <1>2, <2>1 DEF Fits, SameStep
  <2> QED BY <1>1, <2>2 DEF Sound, OneRowEach
<1>3. /\ Sound(q) /\ AllOwn(q) /\ Len(q) = Len(batch)
      /\ \A i \in 1..Len(batch) : SameRow(q[i], batch[i])
  BY <1>1, <1>2, WeighedRows
<1> HIDE DEF q
<1>4. Kept(q)
  BY <1>3, WeighedKeeps DEF Sampled
<1> QED BY <1>3, <1>4 DEF Weighed, Sampled, TokenSize, q

(* So does regrouping a row under its own prompt.                          *)
LEMMA UidSet ==
  ASSUME NEW r \in Rows, Fits(r), NEW s \in 0..MaxSteps
  PROVE  LET q == [r EXCEPT !.uid = <<PromptOf(r.traj), s>>] IN
         /\ q \in Rows /\ Fits(q) /\ q.uid = <<PromptOf(r.traj), s>>
         /\ q.traj = r.traj /\ q.step = r.step /\ q.pad = r.pad
<1>1. r.traj \in Trajs
  BY DEF Rows
<1>2. <<PromptOf(r.traj), s>> \in Uids
  BY <1>1, PromptsOf DEF Uids
<1>3. <<PromptOf(r.traj), s>>[1] = PromptOf(r.traj)
  OBVIOUS
<1> QED BY <1>2, <1>3 DEF Rows, Fits

(* Monte Carlo returns: the unpadded rows, grouped by prompt and step.     *)
LEMMA StepIdRows ==
  ASSUME Sound(batch)
  PROVE  LET b == ByStepId(batch) IN
         /\ Sound(b)
         /\ \A k \in 1..Len(b) : \E i \in 1..Len(batch) : b[k].traj = batch[i].traj
         /\ \A i, k \in 1..Len(b) : b[i].uid = b[k].uid /\ b[i].traj = b[k].traj => i = k
<1> DEFINE u == Unpadded(batch)
           b == ByStepId(batch)
           U == {i \in DOMAIN batch : ~batch[i].pad}
<1>1. /\ Sound(u)
      /\ \A k \in 1..Len(u) : \E i \in 1..Len(batch) : u[k] = batch[i] /\ ~batch[i].pad
  <2>1. DOMAIN batch = 1..Len(batch)
    BY DEF Sound
  <2>2. U \in SUBSET (1..Len(batch)) /\ \A i \in U : ~batch[i].pad
    BY <2>1
  <2>3. u = Pick(batch, U)
    BY DEF Unpadded
  <2> HIDE DEF u, U
  <2>4. Sound(u) /\ \A k \in 1..Len(u) : \E i \in U : u[k] = batch[i]
    BY ONLY Sound(batch), <2>2, <2>3, PickSound
  <2> QED BY <2>2, <2>4
<1>2. b = [i \in DOMAIN u |-> [u[i] EXCEPT !.uid = <<PromptOf(u[i].traj), u[i].step>>]]
  BY DEF ByStepId
<1> HIDE DEF u, b
<1>3. /\ DOMAIN u = 1..Len(u) /\ Len(u) \in Nat
      /\ \A i \in 1..Len(u) : u[i] \in Rows /\ Fits(u[i]) /\ ~u[i].pad
  BY <1>1 DEF Sound
<1>4. \A i \in 1..Len(u) :
        /\ b[i] \in Rows /\ Fits(b[i]) /\ b[i].uid = <<PromptOf(u[i].traj), u[i].step>>
        /\ b[i].traj = u[i].traj /\ b[i].step = u[i].step /\ ~b[i].pad
  <2> TAKE i \in 1..Len(u)
  <2>1. u[i] \in Rows /\ Fits(u[i]) /\ ~u[i].pad
    BY <1>3
  <2>2. u[i].step \in 0..MaxSteps
    BY <2>1, BatchSizes DEF Rows
  <2>3. b[i] = [u[i] EXCEPT !.uid = <<PromptOf(u[i].traj), u[i].step>>]
    BY <1>2, <1>3
  <2> DEFINE q == [u[i] EXCEPT !.uid = <<PromptOf(u[i].traj), u[i].step>>]
  <2>4. /\ q \in Rows /\ Fits(q) /\ q.uid = <<PromptOf(u[i].traj), u[i].step>>
        /\ q.traj = u[i].traj /\ q.step = u[i].step /\ q.pad = u[i].pad
    BY <2>1, <2>2, UidSet
  <2>5. b[i] = q
    BY <2>3
  <2> HIDE DEF q
  <2> QED BY <2>1, <2>4, <2>5
<1>5. b \in Seq(Rows) /\ Len(b) = Len(u)
  <2>1. b = [i \in 1..Len(u) |-> b[i]]
    BY <1>2, <1>3
  <2> QED BY <1>3, <1>4, <2>1
<1>6. ASSUME NEW i \in 1..Len(u), NEW k \in 1..Len(u), b[i].traj = b[k].traj, b[i].step = b[k].step
      PROVE  i = k
  <2>1. SameStep(u[i], u[k])
    BY <1>3, <1>4, <1>6 DEF SameStep
  <2> QED BY <1>1, <2>1 DEF Sound, OneRowEach
<1>7. Sound(b)
  BY <1>4, <1>5, <1>6 DEF Sound, OneRowEach, SameStep
<1>8. ASSUME NEW i \in 1..Len(u), NEW k \in 1..Len(u), b[i].uid = b[k].uid, b[i].traj = b[k].traj
      PROVE  i = k
  <2>1. u[i].step = u[k].step
    BY <1>4, <1>8
  <2> QED BY <1>4, <1>6, <1>8, <2>1
<1>9. \A k \in 1..Len(b) : \E i \in 1..Len(batch) : b[k].traj = batch[i].traj
  BY <1>1, <1>4, <1>5
<1> QED BY <1>5, <1>7, <1>8, <1>9 DEF b

(* The advantages of Monte Carlo returns.                                  *)
LEMMA ReturnAdvantage ==
  ASSUME Sampled(batch), mode = "mc_return"
  PROVE  Weighed(WithAdvantage(ByStepId(batch)))
<1> DEFINE b == ByStepId(batch)
           q == WithAdvantage(b)
<1>1. Stepwise /\ Sound(batch)
  BY DEF Stepwise, Sampled, Kept
<1>2. /\ Sound(b)
      /\ \A k \in 1..Len(b) : \E i \in 1..Len(batch) : b[k].traj = batch[i].traj
      /\ \A i, k \in 1..Len(b) : b[i].uid = b[k].uid /\ b[i].traj = b[k].traj => i = k
  BY <1>1, StepIdRows
<1> HIDE DEF b
<1>3. /\ Sound(q) /\ AllOwn(q) /\ Len(q) = Len(b)
      /\ \A i \in 1..Len(b) : SameRow(q[i], b[i])
  BY <1>2, WeighedRows
<1> HIDE DEF q
<1>4. HasSignal(batch) => HasSignal(q)
  <2>1. \A k \in 1..Len(q) : \E i \in 1..Len(batch) : q[k].traj = batch[i].traj
    BY <1>2, <1>3 DEF SameRow
  <2> QED BY ONLY <2>1, SignalKept
<1>5. Kept(q)
  BY <1>3, <1>4 DEF Sampled, Kept
<1> QED BY <1>1, <1>3, <1>5 DEF Weighed, TokenSize, q, b

(* Broadcast: the last steps are weighed against each other, and every     *)
(* other row takes the advantage of its trajectory's last step.            *)
LEMMA BroadcastAdvantage ==
  ASSUME Sampled(batch), mode = "broadcast", ~BroadcastCrashes(batch)
  PROVE  Weighed(Broadcast(batch))
<1> DEFINE l0 == LastSteps(batch)
           lasts == WithAdvantage(l0)
           o0 == OtherSteps(batch)
           others == [i \in DOMAIN o0 |-> [o0[i] EXCEPT !.adv =
                        IF NoMean(o0[i].traj) THEN NoAdv
                        ELSE lasts[BroadcastFrom(lasts, o0[i])].adv]]
           c == lasts \o others
           L == {i \in DOMAIN batch : batch[i].last}
           O == {i \in DOMAIN batch : ~batch[i].last}
<1>1. /\ Stepwise /\ Sound(batch) /\ DOMAIN batch = 1..Len(batch)
      /\ \A i \in 1..Len(batch) : batch[i] \in Rows /\ Fits(batch[i])
  BY DEF Stepwise, Sampled, Kept, Sound
<1>2. c = Broadcast(batch)
  BY DEF Broadcast
<1>3. /\ Sound(l0)
      /\ \A k \in 1..Len(l0) : \E i \in 1..Len(batch) : l0[k] = batch[i] /\ batch[i].last
      /\ \A i \in 1..Len(batch) : batch[i].last => \E k \in 1..Len(l0) : l0[k] = batch[i]
  <2>1. /\ L \in SUBSET (1..Len(batch))
        /\ \A i \in 1..Len(batch) : i \in L <=> batch[i].last
    BY <1>1
  <2>2. l0 = Pick(batch, L)
    BY DEF LastSteps
  <2> HIDE DEF l0, L
  <2>3. /\ Sound(l0)
        /\ \A k \in 1..Len(l0) : \E i \in L : l0[k] = batch[i]
        /\ \A i \in L : \E k \in 1..Len(l0) : l0[k] = batch[i]
    <3>1. Sound(batch) /\ L \in SUBSET (1..Len(batch))
      BY <1>1, <2>1
    <3> QED BY ONLY <2>2, <3>1, PickSound
  <2> QED BY <2>1, <2>3
<1>4. /\ Sound(o0)
      /\ \A k \in 1..Len(o0) : \E i \in 1..Len(batch) : o0[k] = batch[i] /\ ~batch[i].last
      /\ \A i \in 1..Len(batch) : ~batch[i].last => \E k \in 1..Len(o0) : o0[k] = batch[i]
  <2>1. /\ O \in SUBSET (1..Len(batch))
        /\ \A i \in 1..Len(batch) : i \in O <=> ~batch[i].last
    BY <1>1
  <2>2. o0 = Pick(batch, O)
    BY DEF OtherSteps
  <2> HIDE DEF o0, O
  <2>3. /\ Sound(o0)
        /\ \A k \in 1..Len(o0) : \E i \in O : o0[k] = batch[i]
        /\ \A i \in O : \E k \in 1..Len(o0) : o0[k] = batch[i]
    <3>1. Sound(batch) /\ O \in SUBSET (1..Len(batch))
      BY <1>1, <2>1
    <3> QED BY ONLY <2>2, <3>1, PickSound
  <2> QED BY <2>1, <2>3
<1> HIDE DEF l0, o0
<1>5. \A k \in 1..Len(l0) :
        l0[k].last /\ ~l0[k].pad /\ l0[k].step = steps[l0[k].traj]
  <2> TAKE k \in 1..Len(l0)
  <2>1. l0[k].last /\ Fits(l0[k])
    BY <1>3 DEF Sound
  <2> QED BY <1>1, <2>1 DEF Fits
<1>6. ASSUME NEW i \in 1..Len(l0), NEW k \in 1..Len(l0), l0[i].traj = l0[k].traj PROVE i = k
  <2>1. SameStep(l0[i], l0[k])
    BY <1>5, <1>6 DEF SameStep
  <2> QED BY <1>3, <2>1 DEF Sound, OneRowEach
<1>7. /\ Sound(lasts) /\ AllOwn(lasts) /\ Len(lasts) = Len(l0)
      /\ \A i \in 1..Len(l0) : SameRow(lasts[i], l0[i])
  BY <1>3, <1>6, WeighedRows
<1> HIDE DEF lasts
<1>8. DOMAIN lasts = 1..Len(lasts) /\ DOMAIN o0 = 1..Len(o0) /\ Len(o0) \in Nat
  BY <1>4, <1>7 DEF Sound
<1>9. ASSUME NEW k \in 1..Len(o0)
      PROVE  LET m == BroadcastFrom(lasts, o0[k]) IN
             m \in 1..Len(lasts) /\ lasts[m].traj = o0[k].traj
  <2>1. PICK i \in 1..Len(batch) : o0[k] = batch[i] /\ ~batch[i].last
    BY <1>4
  <2>2. PICK j \in 1..Len(batch) : batch[j].last /\ batch[j].traj = batch[i].traj
    BY <1>1, <2>1 DEF BroadcastCrashes
  <2>3. PICK n \in 1..Len(l0) : l0[n] = batch[j]
    BY <1>3, <2>2
  <2>4. n \in DOMAIN lasts /\ lasts[n].traj = o0[k].traj
    BY <1>7, <1>8, <2>1, <2>2, <2>3 DEF SameRow
  <2>5. /\ BroadcastFrom(lasts, o0[k]) \in DOMAIN lasts
        /\ lasts[BroadcastFrom(lasts, o0[k])].traj = o0[k].traj
    BY <2>4 DEF BroadcastFrom
  <2> QED BY <1>8, <2>5
<1>10. \A k \in 1..Len(o0) :
         /\ others[k] \in Rows /\ Fits(others[k]) /\ SameRow(others[k], o0[k])
         /\ OwnAdvantage(others[k])
  <2> TAKE k \in 1..Len(o0)
  <2>1. o0[k] \in Rows /\ Fits(o0[k]) /\ ~o0[k].last
    BY <1>4 DEF Sound
  <2>2. PICK m \in 1..Len(lasts) :
          m = BroadcastFrom(lasts, o0[k]) /\ lasts[m].traj = o0[k].traj
    BY <1>9
  <2> DEFINE a == IF NoMean(o0[k].traj) THEN NoAdv ELSE lasts[m].adv
  <2>3. /\ lasts[m] \in Rows /\ lasts[m].adv \in Advantages /\ Own(lasts[m])
        /\ NoAdv \in Advantages
    <3>1. lasts[m] \in Rows /\ OwnAdvantage(lasts[m])
      BY <1>7 DEF Sound, AllOwn
    <3>2. lasts[m].last
      BY <1>5, <1>7 DEF SameRow
    <3>3. NoAdv \in Advantages
      BY DEF NoAdv, Advantages
    <3> QED BY <3>1, <3>2, <3>3 DEF Rows, Advantages, OwnAdvantage
  <2>4. others[k] = [o0[k] EXCEPT !.adv = a]
    BY <1>8, <2>2
  <2>5. a \in Advantages
    BY <2>3
  <2> HIDE DEF others, a
  <2>6. /\ others[k] \in Rows /\ Fits(others[k]) /\ SameRow(others[k], o0[k])
        /\ others[k].adv = a
    BY <2>1, <2>4, <2>5, AdvantageSet
  <2>7. OwnAdvantage(others[k])
    <3>1. CASE NoMean(o0[k].traj)
      BY <2>1, <2>6, <3>1 DEF OwnAdvantage, SameRow, a
    <3>2. CASE ~NoMean(o0[k].traj)
      BY <2>2, <2>3, <2>6, <3>2 DEF OwnAdvantage, Own, SameRow, a
    <3> QED BY <3>1, <3>2
  <2> QED BY <2>6, <2>7
<1>11. others \in Seq(Rows) /\ Len(others) = Len(o0)
  <2>1. others = [k \in 1..Len(o0) |-> others[k]]
    BY <1>8
  <2> HIDE DEF others
  <2> QED BY <1>8, <1>10, <2>1
<1> HIDE DEF others
<1>12. Sound(others)
  BY <1>4, <1>10, <1>11 DEF Sound, OneRowEach, SameStep, SameRow
<1>13. ASSUME NEW i \in 1..Len(lasts), NEW j \in 1..Len(others) PROVE ~SameStep(lasts[i], others[j])
  <2>1. lasts[i].step = steps[lasts[i].traj]
    BY <1>5, <1>7 DEF SameRow
  <2>2. ~others[j].last /\ Fits(others[j])
    <3>1. ~o0[j].last
      BY <1>4, <1>11
    <3> QED BY <1>10, <1>11, <3>1 DEF SameRow
  <2> QED BY <1>1, <2>1, <2>2 DEF SameStep, Fits
<1>14. /\ Sound(c) /\ Len(c) = Len(lasts) + Len(others)
       /\ Len(lasts) \in Nat /\ Len(others) \in Nat
       /\ \A i \in 1..Len(lasts) : i \in 1..Len(c) /\ c[i] = lasts[i]
       /\ \A j \in 1..Len(others) : Len(lasts) + j \in 1..Len(c) /\ c[Len(lasts) + j] = others[j]
  BY <1>7, <1>12, <1>13, ConcatSound
<1> HIDE DEF c
<1>15. \A k \in 1..Len(c) : \/ \E i \in 1..Len(lasts) : c[k] = lasts[i]
                            \/ \E j \in 1..Len(others) : c[k] = others[j]
  <2> TAKE k \in 1..Len(c)
  <2>1. CASE k <= Len(lasts)
    BY <1>14, <2>1
  <2>2. CASE ~(k <= Len(lasts))
    <3>1. k - Len(lasts) \in 1..Len(others) /\ Len(lasts) + (k - Len(lasts)) = k
      BY <1>14, <2>2
    <3> QED BY <1>14, <3>1
  <2> QED BY <2>1, <2>2
<1>16. \A k \in 1..Len(c) : /\ OwnAdvantage(c[k])
                            /\ \E i \in 1..Len(batch) : SameRow(c[k], batch[i])
  <2> TAKE k \in 1..Len(c)
  <2>1. ASSUME NEW i \in 1..Len(lasts), c[k] = lasts[i]
        PROVE  OwnAdvantage(c[k]) /\ \E m \in 1..Len(batch) : SameRow(c[k], batch[m])
    <3>1. PICK m \in 1..Len(batch) : l0[i] = batch[m]
      BY <1>3, <1>7
    <3> QED BY <1>7, <2>1, <3>1 DEF AllOwn
  <2>2. ASSUME NEW j \in 1..Len(others), c[k] = others[j]
        PROVE  OwnAdvantage(c[k]) /\ \E m \in 1..Len(batch) : SameRow(c[k], batch[m])
    <3>1. PICK m \in 1..Len(batch) : o0[j] = batch[m]
      BY <1>4, <1>11
    <3> QED BY <1>10, <1>11, <2>2, <3>1
  <2> QED BY <1>15, <2>1, <2>2
<1>17. \A i \in 1..Len(batch) : \E k \in 1..Len(c) : SameRow(c[k], batch[i])
  <2> TAKE i \in 1..Len(batch)
  <2>1. CASE batch[i].last
    <3>1. PICK n \in 1..Len(l0) : l0[n] = batch[i]
      BY <1>3, <2>1
    <3>2. n \in 1..Len(c) /\ c[n] = lasts[n] /\ SameRow(lasts[n], batch[i])
      BY <1>7, <1>14, <3>1
    <3> QED BY <3>2
  <2>2. CASE ~batch[i].last
    <3>1. PICK n \in 1..Len(o0) : o0[n] = batch[i]
      BY <1>4, <2>2
    <3>2. Len(lasts) + n \in 1..Len(c) /\ c[Len(lasts) + n] = others[n] /\ SameRow(others[n], batch[i])
      BY <1>10, <1>11, <1>14, <3>1
    <3> QED BY <3>2
  <2> QED BY <2>1, <2>2
<1>18. Kept(c)
  BY <1>14, <1>16, <1>17, WeighedKeeps DEF Sampled
<1>19. AllOwn(c)
  BY <1>16 DEF AllOwn
<1> QED BY <1>1, <1>2, <1>18, <1>19 DEF Weighed, TokenSize

(* With all steps of its trajectories there, a broadcast has no advantage  *)
(* to take or no row to give it to only when every trajectory is its last  *)
(* step.                                                                   *)
LEMMA BroadcastCrash ==
  ASSUME Configured, Sampled(batch), mode = "broadcast", BroadcastCrashes(batch)
  PROVE  batch # <<>> /\ \A r \in BatchRows : steps[r.traj] = 1
<1> DEFINE O == {i \in DOMAIN batch : ~batch[i].last}
<1>1. /\ Stepwise /\ Sound(batch) /\ AllSteps(batch) /\ batch # <<>>
      /\ DOMAIN batch = 1..Len(batch)
      /\ \A i \in 1..Len(batch) : batch[i] \in Rows /\ Fits(batch[i])
  BY DEF Stepwise, Sampled, Kept, Sound
<1>2. \A i \in 1..Len(batch) : /\ steps[batch[i].traj] \in 1..MaxSteps
                               /\ batch[i].step \in 1..steps[batch[i].traj]
  <2> TAKE i \in 1..Len(batch)
  <2>1. batch[i].traj \in Trajs /\ batch[i].step \in 1..steps[batch[i].traj]
    BY <1>1 DEF Rows, Fits
  <2>2. steps[batch[i].traj] \in 0..MaxSteps
    BY <2>1 DEF Configured
  <2> QED BY <2>1, <2>2, BatchSizes
<1>3. OtherSteps(batch) = <<>>
  <2> SUFFICES ASSUME NEW i \in 1..Len(batch), ~batch[i].last,
                      \A j \in 1..Len(batch) : ~(batch[j].last /\ batch[j].traj = batch[i].traj)
               PROVE  FALSE
    BY <1>1 DEF BroadcastCrashes
  <2>1. steps[batch[i].traj] \in 1..steps[batch[i].traj]
    BY <1>2
  <2>2. PICK j \in 1..Len(batch) :
          /\ batch[j].traj = batch[i].traj /\ batch[j].step = steps[batch[i].traj]
          /\ ~batch[j].pad
    BY <1>1, <2>1 DEF AllSteps
  <2> QED BY <1>1, <2>2 DEF Fits
<1>4. \A i \in 1..Len(batch) : batch[i].last
  <2>1. O \in SUBSET (1..Len(batch))
    BY <1>1
  <2>2. OtherSteps(batch) = Pick(batch, O)
    BY DEF OtherSteps
  <2> HIDE DEF O
  <2>3. \A i \in O : \E k \in 1..Len(Pick(batch, O)) : Pick(batch, O)[k] = batch[i]
    BY <1>1, <2>1, PickSound
  <2>4. Len(Pick(batch, O)) = 0
    BY <1>3, <2>2
  <2>5. O = {}
    BY <2>3, <2>4
  <2> QED BY <1>1, <2>5 DEF O
<1>5. ASSUME NEW i \in 1..Len(batch) PROVE steps[batch[i].traj] = 1
  <2>1. 1 \in 1..steps[batch[i].traj]
    BY <1>2
  <2>2. PICK j \in 1..Len(batch) :
          batch[j].traj = batch[i].traj /\ batch[j].step = 1 /\ ~batch[j].pad
    BY <1>1, <2>1 DEF AllSteps
  <2>3. batch[j].last
    BY <1>4
  <2> QED BY <1>1, <2>2, <2>3 DEF Fits
<1> QED BY <1>1, <1>5 DEF BatchRows
-----------------------------------------------------------------------------
(* The invariant: in every phase the rows are sound and are what that      *)
(* phase is left, and a crash has one of its reasons.                      *)
PpoIInv ==
  /\ Configured
  /\ phase \in {"collect", "sample", "advantage", "pad"} \cup Ended
  /\ Sound(batch)
  /\ phase = "sample" => Collected(batch)
  /\ phase = "advantage" => Sampled(batch)
  /\ phase = "pad" => Weighed(batch)
  /\ phase = "updated" => Trained(batch)
  /\ CrashCauses

(* The invariant holds at first.                                           *)
LEMMA InitPpo == PpoInit => PpoIInv
<1> SUFFICES ASSUME PpoInit PROVE PpoIInv
  OBVIOUS
<1>1. Configured /\ batch = <<>> /\ phase = "collect"
  <2>1. steps \in [Trajs -> 0..MaxSteps] /\ (mode = "token" => \A t \in Trajs : steps[t] = 1)
    BY BatchSizes DEF PpoInit
  <2>2. blank \subseteq Trajs \X (1..MaxSteps)
    BY DEF PpoInit, Responses
  <2> QED BY <2>1, <2>2 DEF PpoInit, Configured
<1>2. batch \in Seq(Rows) /\ Len(batch) = 0
  BY <1>1
<1>3. Sound(batch)
  BY <1>2 DEF Sound, OneRowEach
<1> QED BY <1>1, <1>3 DEF PpoIInv, CrashCauses

(* The settings and the results stay; what is known of the next rows is    *)
(* known of the next state.                                                *)
LEMMA Carried ==
  ASSUME UNCHANGED config, Configured, NEW b, b = batch'
  PROVE  /\ Configured'
         /\ Sound(b) => Sound(batch)'
         /\ Collected(b) => Collected(batch)'
         /\ Sampled(b) => Sampled(batch)'
         /\ Weighed(b) => Weighed(batch)'
         /\ Trained(b) => Trained(batch)'
<1>1. /\ mode' = mode /\ reject' = reject /\ world' = world
      /\ steps' = steps /\ blank' = blank /\ reward' = reward
  BY DEF config
<1>2. Configured' /\ (Stepwise' <=> Stepwise)
  BY <1>1 DEF Configured, Stepwise
<1>3. Sound(b) => Sound(batch)'
  BY <1>1, <1>2 DEF Sound, OneRowEach, SameStep, Fits, ScoreOf
<1>4. AllSteps(b) => AllSteps(batch)'
  <2> SUFFICES ASSUME AllSteps(b),
                      NEW i \in 1..Len(batch'), NEW s \in 1..steps'[batch'[i].traj]
               PROVE  \E j \in 1..Len(batch') :
                        /\ batch'[j].traj = batch'[i].traj /\ batch'[j].step = s
                        /\ ~batch'[j].pad
    BY DEF AllSteps
  <2>1. i \in 1..Len(b) /\ s \in 1..steps[b[i].traj]
    BY <1>1
  <2>2. PICK j \in 1..Len(b) : b[j].traj = b[i].traj /\ b[j].step = s /\ ~b[j].pad
    BY <2>1 DEF AllSteps
  <2> QED BY <2>2
<1>5. HasSignal(b) => HasSignal(batch)'
  BY <1>1 DEF HasSignal, Unsolved
<1>6. (AllOwn(b) => AllOwn(batch)') /\ (OfPrompt(b) => OfPrompt(batch)')
  BY <1>1 DEF AllOwn, OwnAdvantage, Own, NoMean, OfPrompt
<1>7. Kept(b) => Kept(batch)'
  BY <1>1, <1>3, <1>4, <1>5 DEF Kept
<1>8. TokenSize(b) => TokenSize(batch)'
  BY <1>1, <1>2 DEF TokenSize
<1>9. Collected(b) => Collected(batch)'
  BY <1>2, <1>3, <1>4, <1>6 DEF Collected
<1>10. Sampled(b) => Sampled(batch)'
  BY <1>6, <1>7, <1>8 DEF Sampled
<1>11. Weighed(b) => Weighed(batch)'
  BY <1>6, <1>7, <1>8 DEF Weighed
<1>12. Trained(b) => Trained(batch)'
  BY <1>1, <1>6, <1>7 DEF Trained
<1> QED BY <1>2, <1>3, <1>9, <1>10, <1>11, <1>12

(* Every action keeps it.                                                  *)
LEMMA PpoStep == PpoIInv /\ [PpoNext]_ppoVars => PpoIInv'
<1> SUFFICES ASSUME PpoIInv, [PpoNext]_ppoVars PROVE PpoIInv'
  OBVIOUS
<1>0. Configured /\ Sound(batch) /\ world \in Nat \ {0}
  BY PpoAssumption DEF PpoIInv, Configured
<1>a. ASSUME UNCHANGED config, phase \notin {"collect", "crashed"}
       PROVE  ~EmptyResult' /\ ~NoFirstStep'
  <2>1. ~EmptyResult /\ ~NoFirstStep
    BY <1>a DEF PpoIInv, CrashCauses
  <2> QED BY <1>a, <2>1 DEF config, EmptyResult, NoFirstStep, Stepwise
<1>1. CASE Collect
  <2>1. UNCHANGED config /\ phase = "collect"
    BY <1>1 DEF Collect
  <2>2. PICK order \in Orders :
          IF UnionCrashes(order)
          THEN phase' = "crashed" /\ UNCHANGED batch
          ELSE /\ phase' = "sample"
               /\ batch' = IF Stepwise THEN PadToWorldSize(Joined(order)) ELSE Joined(order)
    BY <1>1 DEF Collect
  <2>3. order = [i \in 1..Total |-> i - 1]
    BY SortedByIdx DEF Orders
  <2>4. UnionCrashes(order) <=> EmptyResult \/ NoFirstStep
    BY <1>0, <2>3, UnionCrash
  <2>5. (EmptyResult' <=> EmptyResult) /\ (NoFirstStep' <=> NoFirstStep)
    BY <2>1 DEF config, EmptyResult, NoFirstStep, Stepwise
  <2>6. CASE UnionCrashes(order)
    <3>1. phase' = "crashed" /\ batch' = batch
      BY <2>2, <2>6
    <3>2. Configured' /\ Sound(batch)'
      BY <1>0, <2>1, <3>1, Carried
    <3>3. CrashCauses'
      BY <2>4, <2>5, <2>6, <3>1 DEF CrashCauses
    <3> QED BY <3>1, <3>2, <3>3 DEF PpoIInv, Ended
  <2>7. CASE ~UnionCrashes(order)
    <3>1. phase' = "sample" /\ Collected(batch')
      BY <1>0, <2>2, <2>7, CollectRows
    <3>2. Collected(batch)' /\ Configured'
      BY <1>0, <2>1, <3>1, Carried
    <3>3. Sound(batch)'
      BY <3>2 DEF Collected
    <3>4. CrashCauses'
      BY <2>4, <2>5, <2>7, <3>1 DEF CrashCauses
    <3> QED BY <3>1, <3>2, <3>3, <3>4 DEF PpoIInv
  <2> QED BY <2>6, <2>7
<1>2. CASE Sample
  <2>1. UNCHANGED config /\ phase = "sample" /\ Collected(batch)
    BY <1>2 DEF Sample, PpoIInv
  <2>2. CASE phase' = "skipped" /\ UNCHANGED batch
    <3>1. Configured' /\ Sound(batch)'
      BY <1>0, <2>1, <2>2, Carried
    <3> QED BY <1>a, <2>1, <2>2, <3>1 DEF PpoIInv, CrashCauses, Ended
  <2>3. CASE phase' = "advantage" /\ Sampled(batch')
    <3>1. Configured' /\ Sampled(batch)'
      BY <1>0, <2>1, <2>3, Carried
    <3>2. Sound(batch)'
      BY <3>1 DEF Sampled, Kept
    <3> QED BY <1>a, <2>1, <2>3, <3>1, <3>2 DEF PpoIInv, CrashCauses
  <2>4. CASE ~reject
    <3>1. phase' = "advantage" /\ batch' = batch
      BY <1>2, <2>4 DEF Sample
    <3>2. Sampled(batch)
      BY <2>1, <2>4 DEF Collected, Sampled, Kept, TokenSize, Stepwise
    <3> QED BY <2>3, <3>1, <3>2
  <2>5. CASE reject /\ ~(phase' = "skipped" /\ UNCHANGED batch)
    <3> DEFINE valid == Valid(batch)
               steps1 == Unpadded(valid)
               lasts == RoundDown(LastSteps(steps1))
    <3>1. /\ phase' = "advantage"
          /\ mode = "broadcast" => lasts # <<>>
          /\ mode # "broadcast" => RoundDown(valid) # <<>>
          /\ batch' = IF mode = "broadcast"
                      THEN PadToWorldSize(lasts \o KeptOthers(steps1, lasts))
                      ELSE RoundDown(valid)
      BY <1>2, <2>5 DEF Sample
    <3>2. /\ mode = "broadcast" /\ lasts # <<>> =>
               Sampled(PadToWorldSize(lasts \o KeptOthers(steps1, lasts)))
          /\ mode # "broadcast" /\ RoundDown(valid) # <<>> => Sampled(RoundDown(valid))
      BY <1>0, <2>1, <2>5, SampleRows
    <3> HIDE DEF valid, steps1, lasts
    <3> QED BY <2>3, <3>1, <3>2
  <2> QED BY <2>2, <2>4, <2>5
<1>3. CASE Advantage
  <2>1. UNCHANGED config /\ phase = "advantage" /\ Sampled(batch)
    BY <1>3 DEF Advantage, PpoIInv
  <2>2. CASE mode = "broadcast" /\ BroadcastCrashes(batch)
    <3>1. phase' = "crashed" /\ batch' = batch
      BY <1>3, <2>2 DEF Advantage
    <3>2. Configured' /\ Sound(batch)'
      BY <1>0, <2>1, <3>1, Carried
    <3>3. batch # <<>> /\ \A r \in BatchRows : steps[r.traj] = 1
      BY <1>0, <2>1, <2>2, BroadcastCrash
    <3>4. SingleSteps'
      BY <2>1, <2>2, <3>1, <3>3 DEF SingleSteps, config, BatchRows
    <3>5. CrashCauses'
      BY <1>a, <2>1, <3>1, <3>4 DEF CrashCauses
    <3> QED BY <3>1, <3>2, <3>5 DEF PpoIInv, Ended
  <2>3. CASE ~(mode = "broadcast" /\ BroadcastCrashes(batch))
    <3>1. /\ phase' = "pad"
          /\ batch' = CASE mode = "token" -> WithAdvantage(batch)
                        [] mode = "mc_return" -> WithAdvantage(ByStepId(batch))
                        [] mode = "broadcast" -> Broadcast(batch)
      BY <1>3, <2>3 DEF Advantage
    <3>2. mode \in {"token", "mc_return", "broadcast"}
      BY <1>0, PpoAssumption DEF Configured
    <3>3. Weighed(batch')
      <4>1. CASE mode = "token"
        BY <2>1, <3>1, <4>1, TokenAdvantage
      <4>2. CASE mode = "mc_return"
        BY <2>1, <3>1, <4>2, ReturnAdvantage
      <4>3. CASE mode = "broadcast"
        BY <2>1, <2>3, <3>1, <4>3, BroadcastAdvantage
      <4> QED BY <3>2, <4>1, <4>2, <4>3
    <3>4. Configured' /\ Weighed(batch)'
      BY <1>0, <2>1, <3>3, Carried
    <3>5. Sound(batch)'
      BY <3>4 DEF Weighed, Kept
    <3> QED BY <1>a, <2>1, <3>1, <3>4, <3>5 DEF PpoIInv, CrashCauses
  <2> QED BY <2>2, <2>3
<1>4. CASE PadAndUpdate
  <2>1. UNCHANGED config /\ phase = "pad" /\ Weighed(batch)
    BY <1>4 DEF PadAndUpdate, PpoIInv
  <2>2. CASE PadCrashes(batch)
    <3>1. phase' = "crashed" /\ batch' = batch
      BY <1>4, <2>2 DEF PadAndUpdate
    <3>2. Configured' /\ Sound(batch)'
      BY <1>0, <2>1, <3>1, Carried
    <3>3. mode = "token" /\ ~reject /\ Total % world # 0
      BY <2>1, <2>2 DEF PadCrashes, Weighed, TokenSize, Stepwise
    <3>4. CrashCauses'
      BY <1>a, <2>1, <3>1, <3>3 DEF CrashCauses, Undivided, config
    <3> QED BY <3>1, <3>2, <3>4 DEF PpoIInv, Ended
  <2>3. CASE ~PadCrashes(batch)
    <3>1. phase' = "updated" /\ batch' = PadToWorldSize(batch)
      BY <1>4, <2>3 DEF PadAndUpdate
    <3>2. Stepwise \/ Len(batch) % world = 0
      BY <2>3 DEF PadCrashes
    <3>3. Trained(batch')
      BY <1>0, <2>1, <3>1, <3>2, PadKeeps DEF Weighed, Trained, Kept
    <3>4. Configured' /\ Trained(batch)'
      BY <1>0, <2>1, <3>3, Carried
    <3>5. Sound(batch)'
      BY <3>4 DEF Trained, Kept
    <3>6. ~Undivided'
      <4>1. ~Undivided
        BY <2>1, <3>2 DEF Weighed, TokenSize, Undivided, Stepwise
      <4> QED BY <2>1, <4>1 DEF config, Undivided
    <3>7. CrashCauses'
      BY <1>a, <2>1, <3>1, <3>6 DEF CrashCauses
    <3> QED BY <3>1, <3>4, <3>5, <3>7 DEF PpoIInv, Ended
  <2> QED BY <2>2, <2>3
<1>5. CASE UNCHANGED ppoVars
  <2>1. UNCHANGED config /\ batch' = batch /\ phase' = phase
    BY <1>5 DEF ppoVars
  <2>2. /\ Configured' /\ Sound(batch)'
        /\ Collected(batch) => Collected(batch)'
        /\ Sampled(batch) => Sampled(batch)'
        /\ Weighed(batch) => Weighed(batch)'
        /\ Trained(batch) => Trained(batch)'
    BY <1>0, <2>1, Carried
  <2>3. CrashCauses'
    <3>1. /\ mode' = mode /\ reject' = reject /\ world' = world /\ steps' = steps
          /\ blank' = blank /\ (Stepwise' <=> Stepwise) /\ BatchRows' = BatchRows
      BY <2>1 DEF config, Stepwise, BatchRows
    <3>2. /\ (EmptyResult' <=> EmptyResult) /\ (Undivided' <=> Undivided)
          /\ (NoFirstStep' <=> NoFirstStep) /\ (SingleSteps' <=> SingleSteps)
      BY <2>1, <3>1 DEF EmptyResult, Undivided, NoFirstStep, SingleSteps
    <3> QED BY <2>1, <3>2 DEF PpoIInv, CrashCauses
  <2> QED BY <2>1, <2>2, <2>3 DEF PpoIInv
<1> QED BY <1>1, <1>2, <1>3, <1>4, <1>5 DEF PpoNext

(* Every reachable state satisfies the invariant.                          *)
THEOREM PpoInvariant == PpoSpec => []PpoIInv
<1> QED BY InitPpo, PpoStep, PTL DEF PpoSpec

(* The settings, the results of the trajectories and the rows keep their   *)
(* types.                                                                  *)
THEOREM PpoTypeCorrect == PpoSpec => []PpoTypeOK
<1>1. PpoIInv => PpoTypeOK
  BY DEF PpoIInv, Configured, Sound, PpoTypeOK
<1> QED BY PpoInvariant, <1>1, PTL

(* A row is beside its own prompt and, if it has a token to carry it, has  *)
(* its own reward, in whatever order the results arrived and whatever was  *)
(* dropped.                                                                *)
THEOREM RowsKeepTheirPrompt == PpoSpec => []RowsBelong
<1>1. PpoIInv => RowsBelong
  BY DEF PpoIInv, Sound, Fits, ScoreOf, RowsBelong, BatchRows
<1> QED BY PpoInvariant, <1>1, PTL

(* Every advantage of an update was computed from the row's own trajectory *)
(* against its prompt's, each counted once; only what is broadcast from a  *)
(* last step without response is none.                                     *)
THEOREM AdvantagesAreOwn == PpoSpec => []AdvantageIsOwn
<1>1. PpoIInv => AdvantageIsOwn
  <2> SUFFICES ASSUME PpoIInv, phase = "updated", NEW i \in DOMAIN batch
               PROVE  OwnAdvantage(batch[i])
    BY DEF AdvantageIsOwn, BatchRows, OwnAdvantage, Own
  <2>1. AllOwn(batch) /\ i \in 1..Len(batch)
    BY DEF PpoIInv, Trained, Sound
  <2> QED BY <2>1 DEF AllOwn
<1> QED BY PpoInvariant, <1>1, PTL

(* The batch of an update divides among the workers, has signal after      *)
(* rejection sampling, and with broadcast advantages has all steps of each *)
(* of its trajectories.                                                    *)
THEOREM UpdatesAreWhole == PpoSpec => []UpdateIsWhole
<1>1. PpoIInv => UpdateIsWhole
  <2> SUFFICES ASSUME PpoIInv, phase = "updated" PROVE UpdateIsWhole
    BY DEF UpdateIsWhole
  <2>1. /\ Sound(batch) /\ Len(batch) % world = 0
        /\ mode = "broadcast" => AllSteps(batch)
        /\ reject => HasSignal(batch)
    BY DEF PpoIInv, Trained, Kept
  <2>2. DOMAIN batch = 1..Len(batch) /\ \A i \in 1..Len(batch) : batch[i].uid[1] = PromptOf(batch[i].traj)
    BY <2>1 DEF Sound, Fits
  <2>3. ASSUME reject, NEW r \in BatchRows
        PROVE  LET peers == {t \in Trajs : PromptOf(t) = r.uid[1]}
               IN  /\ \E t \in peers : reward[t] > 0
                   /\ \E t \in peers : reward[t] < 2 \/ \E s \in 1..steps[t] : <<t, s>> \in blank
    BY <2>1, <2>2, <2>3 DEF BatchRows, HasSignal, Unsolved
  <2>4. ASSUME mode = "broadcast", NEW r \in BatchRows, NEW s \in 1..steps[r.traj]
        PROVE  \E q \in BatchRows : q.traj = r.traj /\ q.step = s /\ ~q.pad
    <3>1. PICK i \in 1..Len(batch) : r = batch[i]
      BY <2>2 DEF BatchRows
    <3>2. PICK j \in 1..Len(batch) : batch[j].traj = r.traj /\ batch[j].step = s /\ ~batch[j].pad
      BY <2>1, <2>4, <3>1 DEF AllSteps
    <3> QED BY <2>2, <3>2 DEF BatchRows
  <2> QED BY <2>1, <2>3, <2>4 DEF UpdateIsWhole
<1> QED BY PpoInvariant, <1>1, PTL

(* A training step ends in an exception only when token mode has an empty  *)
(* response or an undivided batch, when in step mode the first trajectory  *)
(* has no steps, or when all trajectories with a broadcast advantage have  *)
(* one step; the first and third causes always end it before sampling, and *)
(* an undivided batch never reaches the update.                            *)
THEOREM CrashesAreKnown == PpoSpec => []CrashCauses
<1>1. PpoIInv => CrashCauses
  BY DEF PpoIInv
<1> QED BY PpoInvariant, <1>1, PTL
-----------------------------------------------------------------------------
(* What the training loop took from the queue before the sentinel.         *)
Results == SubSeq(got, 1, Len(got) - 1)

(* With one trajectory for each environment, the results a batch of        *)
(* rollouts hands over are one of the orders of arrival that the training  *)
(* step is ready for, whatever failed or was retried on the way: each      *)
(* trajectory once, and none missing.                                      *)
THEOREM RolloutsMakeABatch ==
  ASSUME Envs = Trajs
  PROVE  Spec => [](ConsumerEnded => Results \in SetToSeqs(Trajs))
<1>1. IInv /\ ResultsOnce => (ConsumerEnded => Results \in SetToSeqs(Trajs))
  <2> SUFFICES ASSUME IInv, ResultsOnce, ConsumerEnded PROVE Results \in SetToSeqs(Trajs)
    OBVIOUS
  <2>1. /\ Len(got) \in Nat /\ Len(queue) \in Nat /\ yielded \in Nat
        /\ DOMAIN got = 1..Len(got)
        /\ Len(got) + Len(queue) = yielded + (IF gen = "finished" THEN 1 ELSE 0)
        /\ \A i \in 1..Len(got) : got[i] = IF i <= yielded THEN finished[i] ELSE Sentinel
        /\ \A i \in 1..yielded : finished[i] \in Envs
    BY DEF IInv, Typed, Delivered, Flow
  <2>2. PICK k \in 1..Len(got) : got[k] = Sentinel
    BY <2>1 DEF ConsumerEnded, ToSet
  <2>3. k = yielded + 1 /\ Len(got) = yielded + 1 /\ gen = "finished"
    <3>1. ~(k <= yielded)
      BY <2>1, <2>2, BatchAssumption
    <3>2. /\ k \in Nat /\ k <= Len(got) /\ Len(got) <= yielded + 1
          /\ Len(got) \in Nat /\ yielded \in Nat
      BY <2>1
    <3>3. k = yielded + 1 /\ Len(got) = yielded + 1
      BY ONLY <3>1, <3>2
    <3>4. CASE gen = "finished"
      BY <3>3, <3>4
    <3>5. CASE gen # "finished"
      BY <2>1, <3>3, <3>5
    <3> QED BY <3>4, <3>5
  <2>4. yielded = Total
    BY <2>3, BatchSizes DEF IInv, Delivered
  <2>5. \A i \in 1..Total : got[i] \in Trajs /\ i \in DOMAIN got
    BY <2>1, <2>3, <2>4
  <2>6. Results \in Seq(Trajs) /\ Len(Results) = Total /\ \A i \in 1..Total : Results[i] = got[i]
    <3>1. Total \in Nat \ {0} /\ Len(got) - 1 = Total
      BY <2>3, <2>4, BatchSizes
    <3>2. /\ SubSeq(got, 1, Total) \in Seq(Trajs)
          /\ Len(SubSeq(got, 1, Total)) = IF 1 <= Total THEN Total - 1 + 1 ELSE 0
          /\ \A i \in 1..(Total - 1 + 1) : SubSeq(got, 1, Total)[i] = got[1 + i - 1]
      BY <2>5, <3>1, SubSeqProperties
    <3>3. Results = SubSeq(got, 1, Total)
      BY <3>1 DEF Results
    <3> HIDE DEF Results
    <3>4. \A i \in 1..Total : 1 + i - 1 = i
      BY <3>1
    <3> QED BY <3>1, <3>2, <3>3, <3>4
  <2>7. \A i, j \in 1..Total : i # j => Results[i] # Results[j]
    BY <2>5, <2>6 DEF ResultsOnce, IsInjective
  <2>8. Results \in [1..Total -> Trajs]
    BY <2>6
  <2> QED BY <2>7, <2>8, BatchSizes DEF SetToSeqs
<1> QED BY BatchInvariant, ResultsArriveOnce, <1>1, PTL
=============================================================================
