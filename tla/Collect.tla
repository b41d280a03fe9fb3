------------------------------ MODULE Collect ------------------------------
(***************************************************************************)
(* trajectory_collection/collect.py: the streaming, resumable collection   *)
(* driver.  A run quarantines the transient failures of the runs before    *)
(* it, skips the instances that have a record, and gives the others to a   *)
(* pool of workers.  A worker makes sure that the image of its instance is *)
(* pulled and runs the rollout as a subprocess in a session of its own;    *)
(* the main thread alone appends the records to trajectories.jsonl and     *)
(* removes an image when its last instance is done.                        *)
(*                                                                         *)
(* A run may die at any moment: what it keeps in memory is lost, and its   *)
(* subprocesses live on.  A record that a dying run was appending is cut   *)
(* somewhere before its end.                                               *)
(*                                                                         *)
(* A record is known by its instance, the run that appended it and its     *)
(* kind: "retry" is what quarantine_failed moves away (a retryable exit    *)
(* reason or a degenerate trajectory), "good" is any other.                *)
(***************************************************************************)
EXTENDS Integers, FiniteSets

CONSTANTS
  N,            (* number of instances, in the order of the groups by image *)
  ImageOf,      (* the docker image of each instance                        *)
  MaxWorkers,   (* args.max_workers                                         *)
  PullWorkers,  (* args.pull_workers                                        *)
  RetryFailed,  (* args.retry_failed                                        *)
  KeepImages,   (* args.keep_images                                         *)
  MaxRuns       (* bound: how often the command is run                      *)

Instances == 1..N

ASSUME CollectAssumption ==
  /\ N \in Nat \ {0}
  /\ DOMAIN ImageOf = Instances
  /\ MaxWorkers \in Nat \ {0}
  /\ PullWorkers \in Nat \ {0}
  /\ RetryFailed \in BOOLEAN
  /\ KeepImages \in BOOLEAN
  /\ MaxRuns \in Nat \ {0}

Images  == {ImageOf[i] : i \in Instances}
Kinds   == {"good", "retry"}
Records == [inst : Instances, run : 1..MaxRuns, kind : Kinds]

VARIABLES
  phase,     (* what the main thread is doing                               *)
  run,       (* how many times the command was run                          *)
  file,      (* the records one can parse in trajectories.jsonl             *)
  torn,      (* its last line is a piece of a record with no newline        *)
  sidecar,   (* the records in trajectories_failed.jsonl                    *)
  task,      (* the worker's progress on each instance                      *)
  outcome,   (* the record its rollout left: a kind, or "none"              *)
  pulled, failedPull, resident,  (* the sets of image names of main()       *)
  offload,   (* the images offload_image is removing (at most one)          *)
  present,   (* the images the docker daemon has                            *)
  orphans,   (* instances with a rollout process of a run that died         *)
  leftover   (* instances with such a process's record in _stream/<iid>/    *)

fileVars  == <<file, torn, sidecar>>
taskVars  == <<task, outcome>>
imageVars == <<pulled, failedPull, resident, offload>>
diskVars  == <<orphans, leftover>>
vars      == <<phase, run, fileVars, taskVars, imageVars, present, diskVars>>

Phases == {"down", "resume", "moved", "filter", "streaming", "ended"}
(* "lock" waits for the image's lock; "sem" and "pulling" hold it.         *)
OnWorker == {"lock", "sem", "pulling", "rollout"}
States   == {"idle", "queued", "finished", "processed"} \cup OnWorker

TypeOK ==
  /\ phase \in Phases
  /\ run \in 0..MaxRuns
  /\ file \subseteq Records /\ torn \in BOOLEAN /\ sidecar \subseteq Records
  /\ task \in [Instances -> States]
  /\ outcome \in [Instances -> Kinds \cup {"none"}]
  /\ pulled \subseteq Images /\ failedPull \subseteq Images
  /\ resident \subseteq pulled
  /\ offload \subseteq Images
  /\ present \subseteq Images
  /\ orphans \subseteq Instances /\ leftover \subseteq Instances

In(states) == {i \in Instances : task[i] \in states}

Init ==
  /\ phase = "down" /\ run = 0
  /\ file = {} /\ torn = FALSE /\ sidecar = {}
  /\ task = [i \in Instances |-> "idle"]
  /\ outcome = [i \in Instances |-> "none"]
  /\ pulled = {} /\ failedPull = {} /\ resident = {} /\ offload = {}
  /\ present = {} /\ orphans = {} /\ leftover = {}
-----------------------------------------------------------------------------
(* The command is run (again).                                             *)
Launch ==
  /\ phase \in {"down", "ended"} /\ run < MaxRuns
  /\ phase' = "resume" /\ run' = run + 1
  /\ task' = [i \in Instances |-> "idle"]
  /\ outcome' = [i \in Instances |-> "none"]
  /\ pulled' = {} /\ failedPull' = {} /\ resident' = {} /\ offload' = {}
  /\ UNCHANGED <<fileVars, present, diskVars>>

ToRetry == {r \in file : r.kind = "retry"}

QuarantineNothing ==
  /\ phase = "resume"
  /\ ~RetryFailed \/ ToRetry = {}
  /\ phase' = "filter"
  /\ UNCHANGED <<run, fileVars, taskVars, imageVars, present, diskVars>>

(* quarantine_failed first appends the failed records to the sidecar ...   *)
QuarantineAppend_later ==
  /\ phase = "resume" /\ RetryFailed /\ ToRetry # {}
  /\ phase' = "moved"
  /\ UNCHANGED <<run, fileVars, taskVars, imageVars, present, diskVars>>

QuarantineAppend ==
  /\ phase = "resume" /\ RetryFailed /\ ToRetry # {}
  /\ sidecar' = sidecar \cup ToRetry
  /\ phase' = "moved"
  /\ UNCHANGED <<run, file, torn, taskVars, imageVars, present, diskVars>>

QuarantineReplace_swapped ==
  /\ phase = "moved"
  /\ file' = ToRetry
  /\ torn' = FALSE
  /\ phase' = "filter"
  /\ UNCHANGED <<run, sidecar, taskVars, imageVars, present, diskVars>>

(* ... and then replaces the main file by what it keeps, whose every line  *)
(* it has ended with a newline.                                            *)
QuarantineReplace ==
  /\ phase = "moved"
  /\ file' = file \ ToRetry
  /\ torn' = FALSE
  /\ phase' = "filter"
  /\ UNCHANGED <<run, sidecar, taskVars, imageVars, present, diskVars>>

DoneIds_ofSidecar == {r.inst : r \in sidecar}
DoneIds == {r.inst : r \in file}

(* Instances with a record are skipped, the others submitted to the pool.  *)
Filter ==
  /\ phase = "filter"
  /\ task' = [i \in Instances |-> IF i \in DoneIds THEN "idle" ELSE "queued"]
  /\ phase' = IF Instances \subseteq DoneIds THEN "ended" ELSE "streaming"
  /\ UNCHANGED <<run, fileVars, outcome, imageVars, present, diskVars>>
-----------------------------------------------------------------------------
(* A free worker takes the first instance of the queue.                    *)
StartWorker(i) ==
  /\ task[i] = "queued"
  /\ \A j \in 1..(i - 1) : task[j] # "queued"
  /\ Cardinality(In(OnWorker)) < MaxWorkers
  /\ task' = [task EXCEPT ![i] = "lock"]
  /\ UNCHANGED <<phase, run, fileVars, outcome, imageVars, present, diskVars>>

ImageLocked_never(img) == FALSE
ImageLocked(img) == \E j \in In({"sem", "pulling"}) : ImageOf[j] = img

(* ensure_pulled, once it has the lock of the image.                       *)
LookUpImage(i) ==
  /\ task[i] = "lock"
  /\ ~ImageLocked(ImageOf[i])
  /\ task' = [task EXCEPT ![i] =
       CASE ImageOf[i] \in pulled     -> "rollout"
         [] ImageOf[i] \in failedPull -> "finished"
         [] OTHER                     -> "sem"]
  /\ UNCHANGED <<phase, run, fileVars, outcome, imageVars, present, diskVars>>

StartPull(i) ==
  /\ task[i] = "sem"
  /\ Cardinality(In({"pulling"})) < PullWorkers
  /\ task' = [task EXCEPT ![i] = "pulling"]
  /\ UNCHANGED <<phase, run, fileVars, outcome, imageVars, present, diskVars>>

PullSucceeds_notPulled(i) ==
  /\ task[i] = "pulling"
  /\ present' = present \cup {ImageOf[i]}
  /\ resident' = resident \cup {ImageOf[i]}
  /\ task' = [task EXCEPT ![i] = "rollout"]
  /\ UNCHANGED <<phase, run, fileVars, outcome, pulled, failedPull, offload, diskVars>>

PullSucceeds(i) ==
  /\ task[i] = "pulling"
  /\ present' = present \cup {ImageOf[i]}
  /\ pulled' = pulled \cup {ImageOf[i]}
  /\ resident' = resident \cup {ImageOf[i]}
  /\ task' = [task EXCEPT ![i] = "rollout"]
  /\ UNCHANGED <<phase, run, fileVars, outcome, failedPull, offload, diskVars>>

(* docker pull fails, which an image that is present cannot.               *)
PullFails(i) ==
  /\ task[i] = "pulling"
  /\ ImageOf[i] \notin present
  /\ failedPull' = failedPull \cup {ImageOf[i]}
  /\ task' = [task EXCEPT ![i] = "finished"]
  /\ UNCHANGED <<phase, run, fileVars, outcome, pulled, resident, offload,
                 present, diskVars>>

(* docker pull times out: the exception ends the worker's job and leaves   *)
(* neither set changed, so that the next instance of the image tries again.*)
PullTimesOut(i) ==
  /\ task[i] = "pulling"
  /\ ImageOf[i] \notin present
  /\ task' = [task EXCEPT ![i] = "finished"]
  /\ UNCHANGED <<phase, run, fileVars, outcome, imageVars, present, diskVars>>

(* run_one_instance: the subprocess ends or is killed, the first record in *)
(* the working directory is taken and the directory removed.  A process of *)
(* an earlier run that wrote into the same directory wrote first.          *)
RolloutReturns(i) ==
  /\ task[i] = "rollout"
  /\ \E k \in IF i \in leftover THEN Kinds ELSE Kinds \cup {"none"} :
       outcome' = [outcome EXCEPT ![i] = k]
  /\ task' = [task EXCEPT ![i] = "finished"]
  /\ leftover' = leftover \ {i}
  /\ orphans' = orphans \ {i}  \* what it writes from now on is lost
  /\ UNCHANGED <<phase, run, fileVars, imageVars, present>>

(* The worker itself raises, its working directory left behind.            *)
RolloutRaises(i) ==
  /\ task[i] = "rollout"
  /\ task' = [task EXCEPT ![i] = "finished"]
  /\ UNCHANGED <<phase, run, fileVars, outcome, imageVars, present, diskVars>>

(* The process of a run that died ends, with or without a record.          *)
OrphanEnds(i) ==
  /\ i \in orphans
  /\ orphans' = orphans \ {i}
  /\ leftover' \in {leftover, leftover \cup {i}}
  /\ UNCHANGED <<phase, run, fileVars, taskVars, imageVars, present>>
-----------------------------------------------------------------------------
(* The main thread, on the next completed instance.  A record appended     *)
(* behind a torn line makes one unparseable line with it.                  *)
AppendRecord(i) ==
  IF outcome[i] = "none"
  THEN UNCHANGED <<file, torn>>
  ELSE /\ file' = IF torn THEN file
                  ELSE file \cup {[inst |-> i, run |-> run, kind |-> outcome[i]]}
       /\ torn' = FALSE

(* image_remaining, once i is processed.                                   *)
Remaining_notRunning(i) ==
  {j \in Instances \ {i} : ImageOf[j] = ImageOf[i] /\ task[j] \in {"queued", "lock"}}
Remaining(i) ==
  {j \in Instances \ {i} :
     ImageOf[j] = ImageOf[i] /\ task[j] \notin {"idle", "processed"}}

ReleaseImage_ifRecorded(i) ==
  offload' = IF Remaining(i) = {} /\ ~KeepImages /\ outcome[i] # "none"
             THEN {ImageOf[i]} ELSE {}
ReleaseImage(i) ==
  offload' = IF Remaining(i) = {} /\ ~KeepImages THEN {ImageOf[i]} ELSE {}

Process_recordsOnly(i) ==
  /\ phase = "streaming" /\ offload = {}
  /\ task[i] = "finished" /\ outcome[i] # "none"
  /\ AppendRecord(i)
  /\ task' = [task EXCEPT ![i] = "processed"]
  /\ ReleaseImage(i)
  /\ UNCHANGED <<phase, run, sidecar, outcome, pulled, failedPull, resident,
                 present, diskVars>>

Process(i) ==
  /\ phase = "streaming" /\ offload = {}
  /\ task[i] = "finished"
  /\ AppendRecord(i)
  /\ task' = [task EXCEPT ![i] = "processed"]
  /\ ReleaseImage(i)
  /\ UNCHANGED <<phase, run, sidecar, outcome, pulled, failedPull, resident,
                 present, diskVars>>

(* offload_image: containers of the image first, then the image.           *)
Offload ==
  /\ offload # {}
  /\ present' = present \ offload
  /\ resident' = resident \ offload
  /\ offload' = {}
  /\ UNCHANGED <<phase, run, fileVars, taskVars, pulled, failedPull, diskVars>>

End ==
  /\ phase = "streaming" /\ offload = {}
  /\ In({"idle", "processed"}) = Instances
  /\ phase' = "ended"
  /\ UNCHANGED <<run, fileVars, taskVars, imageVars, present, diskVars>>

(* The driver dies.  Its subprocesses go on, a docker pull among them.     *)
Die ==
  /\ phase \notin {"down", "ended"}
  /\ phase' = "down"
  /\ task' = [i \in Instances |-> "idle"]
  /\ outcome' = [i \in Instances |-> "none"]
  /\ pulled' = {} /\ failedPull' = {} /\ resident' = {} /\ offload' = {}
  /\ \E imgs \in SUBSET {ImageOf[i] : i \in In({"pulling"})} :
       present' = present \cup imgs
  /\ orphans' = orphans \cup In({"rollout"})
  /\ UNCHANGED <<run, leftover, file, sidecar>>

Crash == Die /\ UNCHANGED torn

CrashInAppend(i) ==
  /\ phase = "streaming" /\ offload = {}
  /\ task[i] = "finished" /\ outcome[i] # "none"
  /\ torn' = TRUE
  /\ Die

Resume == QuarantineNothing \/ QuarantineAppend \/ QuarantineReplace \/ Filter

Worker(i) ==
  \/ StartWorker(i) \/ LookUpImage(i) \/ StartPull(i)
  \/ PullSucceeds(i) \/ PullFails(i) \/ PullTimesOut(i)
  \/ RolloutReturns(i) \/ RolloutRaises(i)

Main == End \/ Offload \/ \E i \in Instances : Process(i)

Next ==
  \/ Launch \/ Resume \/ Main \/ Crash
  \/ \E i \in Instances : Worker(i) \/ OrphanEnds(i) \/ CrashInAppend(i)

(* Threads run; a pull and a rollout end, by their timeouts if need be.    *)
Fairness ==
  /\ WF_vars(Resume) /\ WF_vars(Main)
  /\ \A i \in Instances : WF_vars(Worker(i))

Spec == Init /\ [][Next]_vars /\ Fairness
-----------------------------------------------------------------------------
(* Safety: a rollout's image is never removed under it, although workers   *)
(* pull and the main thread removes without a lock in common (collect.py   *)
(* 686-717, 767-770).                                                      *)
RunningHasImage == \A i \in In({"rollout"}) : ImageOf[i] \in present

(* Safety: over all runs, crashes and quarantines, the file has at most    *)
(* one record of an instance (collect.py 353-409, 640-655).                *)
NoDuplicates == \A r, s \in file : r.inst = s.inst => r = s

(* Safety: an image is pulled once a run, however many of its instances    *)
(* start at once and however its first pull ended, unless it timed out     *)
(* (collect.py 679-699).                                                   *)
PulledOnce ==
  \A i \in In({"pulling"}) :
    /\ ImageOf[i] \notin pulled \cup failedPull
    /\ \A j \in In({"pulling"}) : ImageOf[j] = ImageOf[i] => j = i

(* Safety: a run that comes to its end has removed every image that it     *)
(* pulled, also those of instances that were dropped or left no record     *)
(* (collect.py 767-770).                                                   *)
ReclaimsItsImages ==
  phase = "ended" /\ ~KeepImages => pulled \cap present = {}

(* Both together: an image is pulled once and removed again.               *)
ImageAccount == PulledOnce /\ ReclaimsItsImages

(* Action property: a record leaves trajectories.jsonl only for the        *)
(* sidecar, where it already is when the file is replaced: a crash between *)
(* the two steps of the quarantine loses nothing (collect.py 353-389).     *)
QuarantineLosesNothing == [][file \subseteq file' \cup sidecar]_vars

(* Liveness: a run that streams comes to its end or dies: no worker waits  *)
(* forever for an image lock or the pull semaphore, and no instance is     *)
(* left unprocessed (collect.py 686-717, 739-770).                         *)
StreamEnds == phase = "streaming" ~> phase \in {"ended", "down"}

(* Refinement: the driver keeps the promise of CollectPromise, with the    *)
(* instances that a rerun would skip for good as the kept ones.            *)
Kept == {r.inst : r \in {x \in file : x.kind = "good" \/ ~RetryFailed}}
Promise == INSTANCE CollectPromise WITH
  kept <- Kept, active <- In(OnWorker \cup {"finished"})
KeepsPromise == Promise!Spec

(* "Instances already written to the run's .jsonl are skipped" (README.md  *)
(* 45): an instance whose record the main thread has written has one that  *)
(* the next run finds.                                                     *)
WrittenIsFound ==
  [][\A i \in Instances :
       task[i] = "finished" /\ task'[i] = "processed" /\ outcome[i] # "none" =>
         \E r \in file' : r.inst = i]_vars

(* The comment "fresh temp dir; resume handled by the parent" (collect.py  *)
(* 490): the working directory of a rollout has no record of an earlier    *)
(* run in it.                                                              *)
FreshTempDir == In({"rollout"}) \cap leftover = {}
=============================================================================
