--------------------------- MODULE CollectProofs ---------------------------
(***************************************************************************)
(* Proofs about Collect for every number of instances, workers and runs    *)
(* and every assignment of images.  The invariant has four parts beside    *)
(* the types: the lifecycle of a run, the images of tasks that are not     *)
(* done, the records of the file, and the records being quarantined.       *)
(***************************************************************************)
EXTENDS Collect, FiniteSetTheorems, WellFoundedInduction, TLAPS

(* Tasks that still need their image, and tasks without a record yet.      *)
Needing == {"queued"} \cup OnWorker
Open    == Needing \cup {"finished"}

(* A run numbers its records from 1 on; tasks exist while it streams; what *)
(* it knows of images is empty until it does.                              *)
Lifecycle ==
  /\ phase # "down" => run \in 1..MaxRuns
  /\ phase # "streaming" => In(Open) = {}
  /\ phase \in {"down", "resume", "moved", "filter"} =>
       pulled = {} /\ offload = {}

(* An image that a task still needs is not being removed, is there once it *)
(* was pulled, and was pulled when the rollout runs.                       *)
ImagesKept ==
  /\ \A i \in In(Needing) :
       /\ ImageOf[i] \notin offload
       /\ ImageOf[i] \in pulled => ImageOf[i] \in present
  /\ \A i \in In({"rollout"}) : ImageOf[i] \in pulled

(* An instance that is open has no record in the file.                     *)
RecordsUnique ==
  /\ \A r, s \in file : r.inst = s.inst => r = s
  /\ \A r \in file : r.inst \notin In(Open)

Quarantined == phase = "moved" => RetryFailed /\ ToRetry \subseteq sidecar

IInv == TypeOK /\ Lifecycle /\ ImagesKept /\ RecordsUnique /\ Quarantined

USE CollectAssumption DEF Instances, Images, Kinds, Records, Phases, OnWorker, States

(* The initial state satisfies the invariant.                              *)
LEMMA InitInvariant == Init => IInv
<1> SUFFICES ASSUME Init PROVE IInv
  OBVIOUS
<1>1. TypeOK
  <2>1. run \in 0..MaxRuns
    BY CollectAssumption DEF Init
  <2>2. /\ task \in [Instances -> States]
        /\ outcome \in [Instances -> Kinds \cup {"none"}]
    BY DEF Init
  <2> QED BY <2>1, <2>2 DEF Init, TypeOK
<1>2. Lifecycle /\ ImagesKept
  BY DEF Init, Lifecycle, ImagesKept, In, Needing, Open
<1>3. RecordsUnique /\ Quarantined
  BY DEF Init, RecordsUnique, Quarantined
<1> QED BY <1>1, <1>2, <1>3 DEF IInv

(* Every action of main() before streaming preserves the invariant.        *)
LEMMA ResumeInvariant == ASSUME IInv, Launch \/ Resume PROVE IInv'
<1> USE DEF IInv, TypeOK, Lifecycle, ImagesKept, RecordsUnique, Quarantined,
            In, Needing, Open, fileVars, taskVars, imageVars, diskVars, ToRetry
<1>1. CASE Launch
  BY <1>1 DEF Launch
<1>2. CASE QuarantineNothing
  BY <1>2 DEF QuarantineNothing
<1>3. CASE QuarantineAppend
  BY <1>3 DEF QuarantineAppend
<1>4. CASE QuarantineReplace
  BY <1>4 DEF QuarantineReplace
<1>5. CASE Filter
  <2>1. TypeOK' BY <1>5 DEF Filter
  <2>2. Lifecycle'
    <3>1. CASE phase' = "ended"
      BY <1>5, <3>1 DEF Filter, DoneIds
    <3>2. CASE phase' = "streaming"
      BY <1>5, <3>2 DEF Filter
    <3> QED BY <1>5, <3>1, <3>2 DEF Filter
  <2>3. ImagesKept' BY <1>5 DEF Filter
  <2>4. RecordsUnique' BY <1>5 DEF Filter, DoneIds
  <2>5. Quarantined' BY <1>5 DEF Filter
  <2> QED BY <2>1, <2>2, <2>3, <2>4, <2>5
<1> QED BY <1>1, <1>2, <1>3, <1>4, <1>5 DEF Resume

(* Every action of a worker preserves the invariant.                       *)
LEMMA WorkerInvariant == ASSUME IInv, NEW i \in Instances, Worker(i) PROVE IInv'
<1> USE DEF IInv, TypeOK, Lifecycle, ImagesKept, RecordsUnique, Quarantined,
            In, Needing, Open, fileVars, taskVars, imageVars, diskVars, ToRetry
<1>1. CASE StartWorker(i)
  BY <1>1 DEF StartWorker
<1>2. CASE LookUpImage(i)
  BY <1>2 DEF LookUpImage
<1>3. CASE StartPull(i)
  BY <1>3 DEF StartPull
<1>4. CASE PullSucceeds(i)
  BY <1>4 DEF PullSucceeds
<1>5. CASE PullFails(i)
  BY <1>5 DEF PullFails
<1>6. CASE PullTimesOut(i)
  BY <1>6 DEF PullTimesOut
<1>7. CASE RolloutReturns(i)
  BY <1>7 DEF RolloutReturns
<1>8. CASE RolloutRaises(i)
  BY <1>8 DEF RolloutRaises
<1> QED BY <1>1, <1>2, <1>3, <1>4, <1>5, <1>6, <1>7, <1>8 DEF Worker

(* Every action of the main thread while it streams preserves the          *)
(* invariant.                                                              *)
LEMMA MainInvariant == ASSUME IInv, Main PROVE IInv'
<1> USE DEF IInv, TypeOK, Lifecycle, ImagesKept, RecordsUnique, Quarantined,
            In, Needing, Open, fileVars, taskVars, imageVars, diskVars, ToRetry
<1>1. CASE End
  BY <1>1 DEF End
<1>2. CASE Offload
  BY <1>2 DEF Offload
<1>3. ASSUME NEW i \in Instances, Process(i) PROVE IInv'
  <2>1. file' \subseteq file \cup {[inst |-> i, run |-> run, kind |-> outcome[i]]}
    BY <1>3 DEF Process, AppendRecord
  <2>2. outcome[i] \in {"none"} => file' = file
    BY <1>3 DEF Process, AppendRecord
  <2>3. file' \subseteq Records
    BY <1>3, <2>1, <2>2 DEF Process
  <2>4. torn' \in BOOLEAN
    BY <1>3 DEF Process, AppendRecord
  <2>5. offload' \subseteq Images /\ (offload' # {} => offload' = {ImageOf[i]} /\ Remaining(i) = {})
    BY <1>3 DEF Process, ReleaseImage
  <2>6. TypeOK'
    BY <1>3, <2>3, <2>4, <2>5 DEF Process
  <2>7. Lifecycle'
    BY <1>3 DEF Process
  <2>8. ImagesKept'
    BY <1>3, <2>5 DEF Process, Remaining
  <2>9. RecordsUnique'
    BY <1>3, <2>1 DEF Process
  <2>10. Quarantined'
    BY <1>3 DEF Process
  <2> QED BY <2>6, <2>7, <2>8, <2>9, <2>10
<1> QED BY <1>1, <1>2, <1>3 DEF Main

(* The death of the driver preserves the invariant.                        *)
LEMMA DieInvariant == ASSUME IInv, Die, torn' \in BOOLEAN PROVE IInv'
<1>1. TypeOK'
  <2>1. present' \subseteq Images
    BY DEF Die, IInv, TypeOK, In
  <2>2. orphans' \subseteq Instances
    BY DEF Die, IInv, TypeOK, In
  <2> QED BY <2>1, <2>2 DEF Die, IInv, TypeOK
<1>2. Lifecycle' /\ ImagesKept'
  BY DEF Die, Lifecycle, ImagesKept, In, Needing, Open
<1>3. RecordsUnique' /\ Quarantined'
  BY DEF Die, IInv, TypeOK, RecordsUnique, Quarantined, In, Needing, Open
<1> QED BY <1>1, <1>2, <1>3 DEF IInv

(* Every step preserves the invariant.                                     *)
LEMMA StepInvariant == IInv /\ [Next]_vars => IInv'
<1> SUFFICES ASSUME IInv, [Next]_vars PROVE IInv'
  OBVIOUS
<1>1. CASE Crash
  <2>1. torn' \in BOOLEAN BY <1>1 DEF Crash, IInv, TypeOK
  <2> QED BY <1>1, <2>1, DieInvariant DEF Crash
<1>2. ASSUME NEW i \in Instances, CrashInAppend(i) PROVE IInv'
  BY <1>2, DieInvariant DEF CrashInAppend
<1>3. ASSUME NEW i \in Instances, OrphanEnds(i) PROVE IInv'
  BY <1>3 DEF OrphanEnds, IInv, TypeOK, Lifecycle, ImagesKept, RecordsUnique,
              Quarantined, In, Needing, Open, fileVars, taskVars, imageVars, ToRetry
<1>4. CASE UNCHANGED vars
  BY <1>4 DEF vars, IInv, TypeOK, Lifecycle, ImagesKept, RecordsUnique,
              Quarantined, In, Needing, Open, fileVars, taskVars, imageVars,
              diskVars, ToRetry
<1> QED
  BY <1>1, <1>2, <1>3, <1>4, ResumeInvariant, WorkerInvariant, MainInvariant DEF Next
-----------------------------------------------------------------------------
(* The invariant of the collection driver.                                 *)
THEOREM CollectInvariant == Spec => []IInv
<1>1. Init => IInv
  BY InitInvariant
<1>2. IInv /\ [Next]_vars => IInv'
  BY StepInvariant
<1> QED BY <1>1, <1>2, PTL DEF Spec

(* The variables keep their types, resident images being pulled ones.      *)
THEOREM TypeCorrect == Spec => []TypeOK
<1>1. IInv => TypeOK
  BY DEF IInv
<1> QED BY <1>1, CollectInvariant, PTL

(* No removal and no failed pull takes an image away from a rollout.       *)
THEOREM RolloutsHaveImages == Spec => []RunningHasImage
<1>1. IInv => RunningHasImage
  BY DEF IInv, ImagesKept, RunningHasImage, In, Needing
<1> QED BY <1>1, CollectInvariant, PTL

(* However often the command is interrupted and run again, the file never  *)
(* has two records of an instance.                                         *)
THEOREM OneRecordEach == Spec => []NoDuplicates
<1>1. IInv => NoDuplicates
  BY DEF IInv, RecordsUnique, NoDuplicates
<1> QED BY <1>1, CollectInvariant, PTL

(* What a run knows of its images.  A task that holds the lock of an image *)
(* is the only one, and found the image neither pulled nor failed; an      *)
(* image that was pulled and is there has a task to come, or is being      *)
(* removed.                                                                *)
Holding == {"sem", "pulling"}
Accounted ==
  /\ \A i \in In(Holding) : ImageOf[i] \notin pulled \cup failedPull
  /\ \A i, j \in In(Holding) : ImageOf[i] = ImageOf[j] => i = j
  /\ ~KeepImages => \A img \in pulled \cap present :
       img \in offload \/ \E i \in In(Open) : ImageOf[i] = img
  /\ phase = "ended" => offload = {}

(* Every step of a worker keeps the account.                               *)
LEMMA WorkerAccounts ==
  ASSUME IInv, Accounted, NEW i \in Instances, Worker(i)
  PROVE  Accounted'
<1> USE DEF IInv, TypeOK, Lifecycle, Accounted, In, Needing, Open, Holding,
            fileVars, taskVars, imageVars, diskVars
<1>1. CASE StartWorker(i)
  BY <1>1 DEF StartWorker
<1>2. CASE LookUpImage(i)
  BY <1>2 DEF LookUpImage, ImageLocked
<1>3. CASE StartPull(i)
  BY <1>3 DEF StartPull
<1>4. CASE PullSucceeds(i)
  BY <1>4 DEF PullSucceeds
<1>5. CASE PullFails(i)
  BY <1>5 DEF PullFails
<1>6. CASE PullTimesOut(i)
  BY <1>6 DEF PullTimesOut
<1>7. CASE RolloutReturns(i)
  BY <1>7 DEF RolloutReturns
<1>8. CASE RolloutRaises(i)
  BY <1>8 DEF RolloutRaises
<1> QED BY <1>1, <1>2, <1>3, <1>4, <1>5, <1>6, <1>7, <1>8 DEF Worker

(* Every step keeps the account.                                           *)
LEMMA StepAccounts == IInv /\ Accounted /\ [Next]_vars => Accounted'
<1> SUFFICES ASSUME IInv, Accounted, [Next]_vars PROVE Accounted'
  OBVIOUS
<1> USE DEF IInv, TypeOK, Lifecycle, Accounted, In, Needing, Open, Holding,
            fileVars, taskVars, imageVars, diskVars
<1>1. CASE Launch
  BY <1>1 DEF Launch
<1>2. CASE QuarantineNothing \/ QuarantineAppend \/ QuarantineReplace
  BY <1>2 DEF QuarantineNothing, QuarantineAppend, QuarantineReplace
<1>3. CASE Filter
  BY <1>3 DEF Filter
<1>4. CASE End
  BY <1>4 DEF End
<1>5. CASE Offload
  BY <1>5 DEF Offload
<1>6. ASSUME NEW i \in Instances, Process(i) PROVE Accounted'
  <2>1. /\ phase = "streaming" /\ phase' = phase /\ offload = {}
        /\ task[i] = "finished" /\ task' = [task EXCEPT ![i] = "processed"]
        /\ UNCHANGED <<pulled, failedPull, present>>
    BY <1>6 DEF Process
  <2>2. offload' = IF Remaining(i) = {} /\ ~KeepImages THEN {ImageOf[i]} ELSE {}
    BY <1>6 DEF Process, ReleaseImage
  <2>3. ASSUME ~KeepImages, NEW img \in pulled \cap present
        PROVE  img \in offload' \/ \E j \in In(Open)' : ImageOf[j] = img
    <3>1. PICK j \in In(Open) : ImageOf[j] = img
      BY <2>1, <2>3
    <3>2. CASE j # i
      BY <2>1, <3>1, <3>2
    <3>3. CASE j = i /\ Remaining(i) = {}
      BY <2>2, <2>3, <3>1, <3>3
    <3>4. CASE j = i /\ Remaining(i) # {}
      <4>1. PICK k \in Instances \ {i} : ImageOf[k] = ImageOf[i] /\ task[k] \notin {"idle", "processed"}
        BY <3>4 DEF Remaining
      <4>2. k \in In(Open)'
        BY <2>1, <4>1
      <4> QED BY <3>1, <3>4, <4>1, <4>2
    <3> QED BY <3>2, <3>3, <3>4
  <2> QED BY <2>1, <2>3
<1>7. CASE Die
  BY <1>7 DEF Die
<1>8. ASSUME NEW i \in Instances, OrphanEnds(i) PROVE Accounted'
  BY <1>8 DEF OrphanEnds
<1>9. CASE UNCHANGED vars
  BY <1>9 DEF vars
<1> QED
  BY <1>1, <1>2, <1>3, <1>4, <1>5, <1>6, <1>7, <1>8, <1>9, WorkerAccounts
  DEF Next, Resume, Main, Crash, CrashInAppend

(* However many instances share an image and whichever of them fail, a run *)
(* pulls it once, and has removed it when it ends.                         *)
THEOREM ImagesAreAccounted == Spec => []ImageAccount
<1>1. Init => Accounted
  BY DEF Init, Accounted, In, Open, Needing, Holding
<1>2. IInv /\ Accounted /\ [Next]_vars => Accounted'
  BY StepAccounts
<1>3. IInv /\ Accounted => ImageAccount
  BY DEF IInv, Lifecycle, Accounted, ImageAccount, PulledOnce, ReclaimsItsImages, In, Holding
<1> QED BY <1>1, <1>2, <1>3, CollectInvariant, PTL DEF Spec

(* What leaves the file in a step, and what is kept and active after it.   *)
LEMMA FileGrows ==
  ASSUME IInv, [Next]_vars
  PROVE  \/ QuarantineReplace
         \/ file' = file
         \/ \E i \in Instances : Process(i)
<1> USE DEF fileVars, taskVars, imageVars, diskVars
<1>1. CASE Launch \/ Resume
  BY <1>1 DEF Launch, Resume, QuarantineNothing, QuarantineAppend, Filter
<1>2. CASE Main
  BY <1>2 DEF Main, End, Offload
<1>3. ASSUME NEW i \in Instances, Worker(i) PROVE file' = file
  BY <1>3 DEF Worker, StartWorker, LookUpImage, StartPull, PullSucceeds, PullFails,
              PullTimesOut, RolloutReturns, RolloutRaises
<1>4. ASSUME NEW i \in Instances, OrphanEnds(i) \/ CrashInAppend(i) PROVE file' = file
  BY <1>4 DEF OrphanEnds, CrashInAppend, Die
<1>5. CASE Crash \/ UNCHANGED vars
  BY <1>5 DEF Crash, Die, vars
<1> QED BY <1>1, <1>2, <1>3, <1>4, <1>5 DEF Next

(* A record leaves trajectories.jsonl only when the sidecar has it.        *)
THEOREM QuarantineIsSafe == Spec => QuarantineLosesNothing
<1>1. IInv /\ [Next]_vars => [file \subseteq file' \cup sidecar]_vars
  <2> SUFFICES ASSUME IInv, [Next]_vars PROVE file \subseteq file' \cup sidecar
    OBVIOUS
  <2>1. CASE QuarantineReplace
    BY <2>1 DEF QuarantineReplace, IInv, Quarantined
  <2>2. CASE file' = file
    BY <2>2
  <2>3. CASE \E i \in Instances : Process(i)
    BY <2>3 DEF Process, AppendRecord
  <2> QED BY <2>1, <2>2, <2>3, FileGrows
<1> QED BY <1>1, CollectInvariant, PTL DEF Spec, QuarantineLosesNothing
-----------------------------------------------------------------------------
(* What the threads of a streaming run wait for: a worker for an instance, *)
(* the lock of its image, the pull semaphore; the main thread for the next *)
(* completed instance.                                                     *)
WorkerGoesOn(i) ==
  \/ /\ task[i] = "queued" /\ \A j \in 1..(i - 1) : task[j] # "queued"
     /\ Cardinality(In(OnWorker)) < MaxWorkers
  \/ task[i] = "lock" /\ ~ImageLocked(ImageOf[i])
  \/ task[i] = "sem" /\ Cardinality(In({"pulling"})) < PullWorkers
  \/ task[i] \in {"pulling", "rollout"}
MainGoesOn ==
  offload # {} \/ In({"finished"}) # {} \/ In({"idle", "processed"}) = Instances

(* Not everyone waits for someone else: a thread that holds an image lock  *)
(* while it waits for the semaphore does not close a circle.               *)
NeverStuck == phase = "streaming" => MainGoesOn \/ \E i \in Instances : WorkerGoesOn(i)

(* How far a run is with an instance.                                      *)
Progress(state) ==
  CASE state = "idle" -> 0 [] state = "queued" -> 1 [] state = "lock" -> 2
    [] state = "sem" -> 3 [] state = "pulling" -> 4 [] state = "rollout" -> 5
    [] state = "finished" -> 6 [] OTHER -> 7

(* A streaming run never goes back with an instance, and every step of its *)
(* threads gets on with one, or removes an image, or ends the run.         *)
GoesForward ==
  [][phase = "streaming" /\ phase' = "streaming" =>
       /\ \A i \in Instances : Progress(task[i]) <= Progress(task'[i])
       /\ Main \/ (\E i \in Instances : Worker(i)) =>
            \/ \E i \in Instances : Progress(task[i]) < Progress(task'[i])
            \/ offload # {} /\ offload' = {}]_vars

(* Of the instances that wait for a worker, one is the first.              *)
LEMMA FirstQueued ==
  ASSUME NEW S \in SUBSET Nat, S # {}
  PROVE  \E m \in S : \A n \in S : m <= n
<1>1. PICK m \in S : \A n \in S : ~(<<n, m>> \in OpToRel(<, Nat))
  BY WFMin, NatLessThanWellFounded, Zenon
<1>2. \A n \in S : ~(n < m)
  BY <1>1, Zenon DEF OpToRel
<1> QED BY <1>2

(* Two kinds of locks, a pool and the main thread: no circle of waits, for *)
(* any number of workers, pulls and instances.                             *)
THEOREM StreamNeverStuck == Spec => []NeverStuck
<1>1. TypeOK => NeverStuck
  <2> SUFFICES ASSUME TypeOK, ~MainGoesOn, \A i \in Instances : ~WorkerGoesOn(i)
               PROVE  FALSE
    BY DEF NeverStuck
  <2>0. Cardinality({}) = 0 /\ 0 < PullWorkers /\ 0 < MaxWorkers
    <3>1. Cardinality({}) = 0
      BY ONLY FS_EmptySet, Zenon
    <3> QED BY <3>1
  <2>1. In({"pulling"}) = {} /\ In({"rollout"}) = {} /\ In({"finished"}) = {}
    BY DEF WorkerGoesOn, MainGoesOn, In
  <2>2. In({"sem"}) = {}
    <3>1. Cardinality(In({"pulling"})) < PullWorkers
      BY <2>0, <2>1
    <3> QED BY <3>1 DEF WorkerGoesOn, In
  <2>3. In({"lock"}) = {}
    BY <2>1, <2>2 DEF WorkerGoesOn, ImageLocked, In
  <2>4. In(OnWorker) = {}
    BY <2>1, <2>2, <2>3 DEF In
  <2>5. In({"queued"}) # {}
    BY <2>1, <2>4 DEF MainGoesOn, In, TypeOK
  <2>6. PICK i \in In({"queued"}) : \A j \in In({"queued"}) : i <= j
    <3>1. In({"queued"}) \in SUBSET Nat
      BY DEF In
    <3> QED BY <2>5, <3>1, FirstQueued
  <2>7. \A j \in 1..(i - 1) : task[j] # "queued"
    BY <2>6 DEF In
  <2>8. Cardinality(In(OnWorker)) < MaxWorkers
    BY <2>0, <2>4
  <2> QED BY <2>6, <2>7, <2>8 DEF WorkerGoesOn, In
<1> QED BY <1>1, TypeCorrect, PTL

(* With StreamNeverStuck and fair threads this ends a stream: there are at *)
(* most seven steps for each instance and a removal after each.            *)
THEOREM StreamGoesForward == Spec => GoesForward
<1> DEFINE Forward ==
      phase = "streaming" /\ phase' = "streaming" =>
        /\ \A i \in Instances : Progress(task[i]) <= Progress(task'[i])
        /\ Main \/ (\E i \in Instances : Worker(i)) =>
             \/ \E i \in Instances : Progress(task[i]) < Progress(task'[i])
             \/ offload # {} /\ offload' = {}
<1>1. IInv /\ [Next]_vars => [Forward]_vars
  <2> SUFFICES ASSUME IInv, Next, phase = "streaming", phase' = "streaming" PROVE Forward
    BY DEF vars, taskVars
  <2>1. task \in [Instances -> States]
    BY DEF IInv, TypeOK
  <2>2. \A x \in States : Progress(x) \in Nat
    BY DEF Progress
  <2>3. ASSUME NEW i \in Instances, NEW new \in States,
               Progress(task[i]) < Progress(new), task' = [task EXCEPT ![i] = new]
        PROVE  Forward
    <3>1. task'[i] = new /\ \A j \in Instances \ {i} : task'[j] = task[j]
      BY <2>1, <2>3
    <3>2. \A j \in Instances : Progress(task[j]) <= Progress(task'[j])
      <4> TAKE j \in Instances
      <4>1. CASE j = i
        BY <2>1, <2>2, <2>3, <3>1, <4>1
      <4>2. CASE j # i
        BY <2>1, <2>2, <3>1, <4>2
      <4> QED BY <4>1, <4>2
    <3> QED BY <2>3, <3>1, <3>2
  <2>4. ASSUME NEW i \in Instances, Worker(i) \/ Process(i) PROVE Forward
    <3>1. PICK new \in States :
            task' = [task EXCEPT ![i] = new] /\ Progress(task[i]) < Progress(new)
      BY <2>4 DEF Worker, StartWorker, LookUpImage, StartPull, PullSucceeds, PullFails,
                  PullTimesOut, RolloutReturns, RolloutRaises, Process, Progress
    <3> QED BY <2>3, <3>1
  <2>5. CASE Offload
    <3>1. task' = task /\ offload # {} /\ offload' = {}
      BY <2>5 DEF Offload, taskVars
    <3> QED BY <2>1, <2>2, <3>1
  <2>6. CASE Main \/ \E i \in Instances : Worker(i)
    BY <2>4, <2>5, <2>6 DEF Main, End
  <2>7. CASE ~(Main \/ \E i \in Instances : Worker(i))
    <3>1. PICK i \in Instances : OrphanEnds(i)
      BY <2>7 DEF Next, Launch, Resume, QuarantineNothing, QuarantineAppend,
                  QuarantineReplace, Filter, Crash, CrashInAppend, Die
    <3>2. task' = task
      BY <3>1 DEF OrphanEnds, taskVars
    <3> QED BY <2>1, <2>2, <2>7, <3>2
  <2> QED BY <2>6, <2>7
<1> QED BY <1>1, CollectInvariant, PTL DEF Spec, GoesForward
-----------------------------------------------------------------------------
Active == In(OnWorker \cup {"finished"})

(* A step that takes no task into or out of the active ones and leaves the *)
(* file alone is a stutter of the promise.                                 *)
LEMMA Stutter ==
  ASSUME file' = file, Active' = Active
  PROVE  UNCHANGED Promise!vars
  BY DEF Promise!vars, Kept, Active

(* Appending to the file, or not, ends an attempt: it is kept or lost.     *)
LEMMA ProcessSettles ==
  ASSUME IInv, NEW i \in Instances, Process(i)
  PROVE  Promise!Keep(i) \/ Promise!Lose(i)
<1>1. i \in Active /\ Active' = Active \ {i}
  BY DEF Process, Active, In, IInv, TypeOK
<1>2. \/ file' = file
      \/ file' = file \cup {[inst |-> i, run |-> run, kind |-> outcome[i]]}
  BY DEF Process, AppendRecord
<1>3. Kept' = Kept \/ Kept' = Kept \cup {i}
  BY <1>2 DEF Kept
<1> QED BY <1>1, <1>3 DEF Promise!Keep, Promise!Lose, Active

(* The driver implements the promise of a resumable collection: a kept     *)
(* record stays, and its instance is never attempted again.                *)
THEOREM ImplementsPromise == Spec => KeepsPromise
<1>1. Init => Promise!Init
  BY DEF Init, Promise!Init, Kept, In
<1>2. IInv /\ [Next]_vars => [Promise!Next]_(Promise!vars)
  <2> SUFFICES ASSUME IInv, [Next]_vars
               PROVE  Promise!Next \/ UNCHANGED Promise!vars
    OBVIOUS
  <2> USE DEF fileVars, taskVars, imageVars, diskVars
  <2>1. CASE Launch \/ QuarantineNothing \/ QuarantineAppend \/ Filter
    <3>1. file' = file
      BY <2>1 DEF Launch, QuarantineNothing, QuarantineAppend, Filter
    <3>2. Active = {} /\ Active' = {}
      BY <2>1 DEF Launch, QuarantineNothing, QuarantineAppend, Filter, Active,
                  IInv, Lifecycle, In, Open, Needing
    <3> QED BY <3>1, <3>2, Stutter
  <2>2. CASE QuarantineReplace
    <3>1. Kept' = Kept
      BY <2>2 DEF QuarantineReplace, Kept, ToRetry, IInv, TypeOK, Quarantined
    <3>2. Active' = Active
      BY <2>2 DEF QuarantineReplace, Active, In
    <3> QED BY <3>1, <3>2 DEF Promise!vars, Active
  <2>3. CASE End \/ Offload
    BY <2>3, Stutter DEF End, Offload, Active, In
  <2>4. ASSUME NEW i \in Instances, Process(i) PROVE Promise!Next
    BY <2>4, ProcessSettles DEF Promise!Next
  <2>5. ASSUME NEW i \in Instances, StartWorker(i) PROVE Promise!Next
    <3>1. i \notin Kept
      BY <2>5 DEF StartWorker, Kept, IInv, RecordsUnique, In, Open, Needing
    <3>2. i \notin Active /\ Active' = Active \cup {i}
      BY <2>5 DEF StartWorker, Active, In, IInv, TypeOK
    <3>3. Kept' = Kept
      BY <2>5 DEF StartWorker, Kept
    <3> QED BY <3>1, <3>2, <3>3 DEF Promise!Next, Promise!Begin, Active
  <2>6. ASSUME NEW i \in Instances, Worker(i), ~StartWorker(i)
        PROVE  UNCHANGED Promise!vars
    <3>1. file' = file
      BY <2>6 DEF Worker, LookUpImage, StartPull, PullSucceeds, PullFails,
                  PullTimesOut, RolloutReturns, RolloutRaises
    <3>2. /\ task[i] \in OnWorker
          /\ \E st \in OnWorker \cup {"finished"} : task' = [task EXCEPT ![i] = st]
      BY <2>6 DEF Worker, LookUpImage, StartPull, PullSucceeds, PullFails,
                  PullTimesOut, RolloutReturns, RolloutRaises
    <3>3. Active' = Active
      BY <3>2 DEF Active, In, IInv, TypeOK
    <3> QED BY <3>1, <3>3, Stutter
  <2>7. ASSUME NEW i \in Instances, OrphanEnds(i) PROVE UNCHANGED Promise!vars
    BY <2>7, Stutter DEF OrphanEnds, Active, In
  <2>8. CASE Die
    <3>1. Active' = {} /\ Kept' = Kept
      BY <2>8 DEF Die, Active, In, Kept
    <3>2. CASE Active = {}
      BY <3>1, <3>2 DEF Promise!vars, Active
    <3>3. CASE Active # {}
      BY <3>1, <3>3 DEF Promise!Next, Promise!Interrupt, Active
    <3> QED BY <3>2, <3>3
  <2>9. CASE UNCHANGED vars
    BY <2>9, Stutter DEF vars, Active, In
  <2> QED
    BY <2>1, <2>2, <2>3, <2>4, <2>5, <2>6, <2>7, <2>8, <2>9
    DEF Next, Resume, Main, Crash, CrashInAppend
<1> QED BY <1>1, <1>2, CollectInvariant, PTL DEF Spec, KeepsPromise, Promise!Spec
=============================================================================
