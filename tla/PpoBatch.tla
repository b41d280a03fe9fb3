------------------------------ MODULE PpoBatch ------------------------------
(***************************************************************************)
(* One training step of AgentPPOTrainer.fit_agent                          *)
(* (rllm/trainer/verl/agent_ppo_trainer.py): the results of a batch of     *)
(* trajectories become the rows of a training batch, are joined with their *)
(* prompts, padded, rejection sampled, given advantages and padded again   *)
(* to the number of workers that train on them.                            *)
(*                                                                         *)
(* A row is one trajectory, or one step of one (use_stepwise_advantage);   *)
(* of its response tokens only matters whether there are any.  A reward is *)
(* counted in halves: 0, 1 (solved, but cut short) and 2 (solved).  An     *)
(* advantage is known by the trajectory it was computed for and those it   *)
(* was computed against.                                                   *)
(***************************************************************************)
EXTENDS Integers, Sequences, FiniteSets, SequencesExt

CONSTANTS
  Prompts,     (* train_batch_size: prompts of the batch                    *)
  Samples,     (* rollout.n: trajectories for each prompt                   *)
  MaxSteps,    (* steps of a trajectory                                     *)
  MaxBlank,    (* responses without tokens in a batch                       *)
  Modes,       (* the settings of the run: "token", or the two              *)
               (* stepwise_advantage_modes "broadcast" and "mc_return"      *)
  WorldSizes   (* world sizes of the workers; their lcm is the actor's own  *)

ASSUME PpoAssumption ==
  /\ Prompts \in Nat \ {0} /\ Samples \in Nat \ {0} /\ MaxSteps \in Nat \ {0}
  /\ MaxBlank \in Nat
  /\ Modes \subseteq {"token", "broadcast", "mc_return"}
  /\ WorldSizes \subseteq Nat \ {0}

Total == Prompts * Samples
Trajs == 0..(Total - 1)             (* the idx of the environments         *)
PromptOf(t) == t \div Samples       (* batch.repeat(n, interleave=True)    *)
Scores == 0..2

VARIABLES
  mode, reject, world,   (* the configuration                              *)
  steps,                 (* steps of each trajectory, 0 when none was      *)
                         (* answered; in token mode 1, the whole response  *)
  blank,                 (* the responses without tokens                   *)
  reward,                (* trajectory_reward of each                      *)
  batch,                 (* the rows                                       *)
  phase                  (* where fit_agent is, or how the step ended      *)

config == <<mode, reject, world, steps, blank, reward>>
ppoVars == <<config, batch, phase>>

Stepwise == mode # "token"
NoAdv    == [of |-> {}, against |-> {}, rows |-> 0]

Uids == (0..(Prompts - 1)) \X (0..MaxSteps)    (* a prompt, or a step of it *)
Rows == [traj : Trajs, step : 1..MaxSteps, uid : Uids, last : BOOLEAN,
         pad : BOOLEAN, masked : BOOLEAN, score : Scores,
         adv : [of : SUBSET Trajs, against : SUBSET Trajs, rows : Nat]]

Ended == {"updated", "skipped", "crashed"}

PpoTypeOK ==
  /\ mode \in Modes /\ reject \in BOOLEAN /\ world \in WorldSizes
  /\ steps \in [Trajs -> 0..MaxSteps]
  /\ blank \subseteq Trajs \X (1..MaxSteps)
  /\ reward \in [Trajs -> Scores]
  /\ batch \in Seq(Rows)
  /\ phase \in {"collect", "sample", "advantage", "pad"} \cup Ended

(* Step mode: the model answered with its end token only (engine 178-188). *)
(* Token mode: the first env.step was given up on or could not be encoded, *)
(* or the prompt was too long for a step (engine 398-407, 442-452, 337-342 *)
(* - AgentTrajectory's EmptyIsEarly); an attempt that cannot start has the *)
(* tokens of its invented message.                                         *)
Responses == {p \in Trajs \X (1..MaxSteps) : p[2] <= steps[p[1]]}

PpoInit ==
  /\ mode \in Modes /\ reject \in BOOLEAN /\ world \in WorldSizes
  /\ steps \in [Trajs -> IF mode = "token" THEN {1} ELSE 0..MaxSteps]
  /\ blank \in SUBSET Responses /\ Cardinality(blank) <= MaxBlank
  /\ reward \in [Trajs -> Scores]
  /\ batch = <<>>
  /\ phase = "collect"
-----------------------------------------------------------------------------
(* Selecting rows by their positions P.                                    *)
Nth(P, k)     == CHOOSE i \in P : Cardinality({j \in P : j <= i}) = k
InOrder(P)    == [k \in 1..Cardinality(P) |-> Nth(P, k)]
Pick(rows, P) == [k \in 1..Cardinality(P) |-> rows[Nth(P, k)]]

LastSteps(rows)  == Pick(rows, {i \in DOMAIN rows : rows[i].last})
OtherSteps(rows) == Pick(rows, {i \in DOMAIN rows : ~rows[i].last})
Unpadded(rows)   == Pick(rows, {i \in DOMAIN rows : ~rows[i].pad})

(* Round down to a multiple of the world size.                             *)
RoundDown_keepsAll(rows) == rows
RoundDown(rows) == SubSeq(rows, 1, (Len(rows) \div world) * world)

(* pad_dataproto_to_divisor: the batch repeated from its start.            *)
Padding(rows) ==
  LET missing == (-Len(rows)) % world
  IN  [i \in 1..missing |-> rows[((i - 1) % Len(rows)) + 1]]

(* _pad_dataproto_to_world_size: a copied row is no last step and is       *)
(* marked as padding; its traj_mask is left as it was copied.              *)
PadToWorldSize(rows) ==
  rows \o [i \in DOMAIN Padding(rows) |->
             [Padding(rows)[i] EXCEPT !.last = FALSE, !.pad = TRUE]]

(* The columns is_last_step and is_pad_step exist for steps only.          *)
PadCrashes(rows) == ~Stepwise /\ Len(rows) % world # 0
-----------------------------------------------------------------------------
(* The pairs <<i, 1>> .. <<i, count[i]>> of every i in turn.               *)
Width == MaxSteps + 1
Places(count) ==
  {p \in Width..(Width * (Total + 1) - 1) : p % Width \in 1..count[p \div Width]}
Repeated(count) ==
  [k \in 1..Cardinality(Places(count)) |->
     <<Nth(Places(count), k) \div Width, Nth(Places(count), k) % Width>>]

(* A score is written to the last token of the response, if there is one.  *)
ResultRow(t, s) ==
  [traj |-> t, step |-> s, uid |-> <<0, 0>>, last |-> Stepwise /\ s = steps[t],
   pad |-> FALSE, masked |-> FALSE,
   score |-> IF <<t, s>> \in blank THEN 0 ELSE reward[t], adv |-> NoAdv]

(* Token mode skips a trajectory whose response is empty.                  *)
RowsOf(order) ==
  LET Count(t) == IF Stepwise THEN steps[t] ELSE IF <<t, 1>> \in blank THEN 0 ELSE 1
      entries  == Repeated([i \in 1..Total |-> Count(order[i])])
  IN  [k \in DOMAIN entries |-> ResultRow(order[entries[k][1]], entries[k][2])]

(* The prompts, repeated for every sample and, in step mode, by            *)
(* repeat_counts, in the order of the results.                             *)
PromptColumn(order) ==
  LET entries == Repeated([i \in 1..Total |-> IF Stepwise THEN steps[order[i]] ELSE 1])
  IN  [k \in DOMAIN entries |-> PromptOf(entries[k][1] - 1)]

ByIdx_asArrived(order) == order
ByIdx(order) == InOrder(ToSet(order))

(* union() asserts that both sides have as many rows.  Before it, in step  *)
(* mode, all_steps_is_last_step_list[-1] needs an element; a batch without *)
(* any tokens fails already where its metrics are indexed.                 *)
UnionCrashes(order) ==
  \/ Stepwise /\ steps[order[1]] = 0
  \/ Len(RowsOf(order)) # Len(PromptColumn(order))

Joined(order) ==
  LET rows    == RowsOf(order)
      prompts == PromptColumn(order)
  IN  [k \in DOMAIN rows |-> [rows[k] EXCEPT !.uid = <<prompts[k], 0>>]]

(* The orders in which the results stand once they are sorted.             *)
Orders == {ByIdx(arrived) : arrived \in SetToSeqs(Trajs)}

(* generate_agent_trajectory or generate_agent_steps, whose results arrive *)
(* in any order, union with the prompts and, in step mode, padding.        *)
Collect ==
  /\ phase = "collect"
  /\ \E order \in Orders :
       IF UnionCrashes(order)
       THEN phase' = "crashed" /\ UNCHANGED batch
       ELSE /\ phase' = "sample"
            /\ batch' = IF Stepwise THEN PadToWorldSize(Joined(order)) ELSE Joined(order)
  /\ UNCHANGED config
-----------------------------------------------------------------------------
(* Rejection sampling: a prompt that none, or all, of its rows solve has   *)
(* no signal.                                                              *)
Mixed_keepsSolved(rows, u) ==
  \E i \in DOMAIN rows : rows[i].uid = u /\ rows[i].score > 0

Mixed(rows, u) ==
  LET scores == {rows[i].score : i \in {j \in DOMAIN rows : rows[j].uid = u}}
  IN  (\E x \in scores : x > 0) /\ (\E x \in scores : x < 2)

Valid(rows) == Pick(rows, {i \in DOMAIN rows : Mixed(rows, rows[i].uid)})

(* Broadcast: the last steps are rounded down, and only the other steps of *)
(* the trajectories that remain are kept.                                  *)
KeptOthers_all(rows, lasts) == OtherSteps(rows)
KeptOthers(rows, lasts) ==
  LET kept == {lasts[i].traj : i \in DOMAIN lasts}
  IN  Pick(rows, {i \in DOMAIN rows : ~rows[i].last /\ rows[i].traj \in kept})

Sample ==
  /\ phase = "sample"
  /\ LET valid == Valid(batch)
         steps1 == Unpadded(valid)
         lasts == RoundDown(LastSteps(steps1))
         rounded == RoundDown(valid)
     IN IF ~reject
        THEN phase' = "advantage" /\ UNCHANGED batch
        ELSE IF valid = <<>> \/ (mode = "broadcast" /\ lasts = <<>>)
                             \/ (mode # "broadcast" /\ rounded = <<>>)
        THEN phase' = "skipped" /\ UNCHANGED batch
        ELSE /\ phase' = "advantage"
             /\ batch' = IF mode = "broadcast"
                         THEN PadToWorldSize(lasts \o KeptOthers(steps1, lasts))
                         ELSE rounded
  /\ UNCHANGED config
-----------------------------------------------------------------------------
(* compute_advantage (verl) compares a row with the rows of its uid.       *)
WithAdvantage(rows) ==
  LET Group(i) == {k \in DOMAIN rows : rows[k].uid = rows[i].uid}
  IN  [i \in DOMAIN rows |->
         [rows[i] EXCEPT !.adv = [of      |-> {rows[i].traj},
                                  against |-> {rows[k].traj : k \in Group(i)},
                                  rows    |-> Cardinality(Group(i))]]]

(* _stepwise_advantage_broadcast: the others get their last step's.        *)
BroadcastFrom_byPrompt(lasts, r) ==
  (CHOOSE i \in DOMAIN lasts : lasts[i].uid = r.uid)
BroadcastFrom(lasts, r) ==
  (CHOOSE i \in DOMAIN lasts : lasts[i].traj = r.traj)

(* A last step without response has no mean: what the others get is not a  *)
(* number.                                                                 *)
NoMean(t) == <<t, steps[t]>> \in blank

Broadcast(rows) ==
  LET lasts == WithAdvantage(LastSteps(rows))
      others == OtherSteps(rows)
  IN  lasts \o [i \in DOMAIN others |->
                  [others[i] EXCEPT !.adv =
                     IF NoMean(others[i].traj) THEN NoAdv
                     ELSE lasts[BroadcastFrom(lasts, others[i])].adv]]

(* idx_to_scalar_adv has no entry for a row without its last step, and     *)
(* torch.stack takes no empty list.                                        *)
BroadcastCrashes(rows) ==
  \/ OtherSteps(rows) = <<>>
  \/ \E i \in DOMAIN rows : ~rows[i].last /\
        \A j \in DOMAIN rows : ~(rows[j].last /\ rows[j].traj = rows[i].traj)

(* Monte Carlo returns are compared step by step: uid is the step_id, and  *)
(* the padding is dropped.                                                 *)
ByStepId_keepsPadding(rows) ==
  [i \in DOMAIN rows |-> [rows[i] EXCEPT !.uid = <<PromptOf(rows[i].traj), rows[i].step>>]]
ByStepId_oneLate(rows) ==
  [i \in DOMAIN Unpadded(rows) |->
     LET r == Unpadded(rows)[i]
     IN  [r EXCEPT !.uid = <<PromptOf(r.traj), r.step + 1>>]]
ByStepId(rows) ==
  [i \in DOMAIN Unpadded(rows) |->
     LET r == Unpadded(rows)[i]
     IN  [r EXCEPT !.uid = <<PromptOf(r.traj), r.step>>]]

Advantage ==
  /\ phase = "advantage"
  /\ IF mode = "broadcast" /\ BroadcastCrashes(batch)
     THEN phase' = "crashed" /\ UNCHANGED batch
     ELSE /\ phase' = "pad"
          /\ batch' = CASE mode = "token" -> WithAdvantage(batch)
                        [] mode = "mc_return" -> WithAdvantage(ByStepId(batch))
                        [] mode = "broadcast" -> Broadcast(batch)
  /\ UNCHANGED config

(* The final padding, then the update of the actor.                        *)
PadAndUpdate_noPad ==
  /\ phase = "pad"
  /\ phase' = "updated"
  /\ UNCHANGED <<config, batch>>

PadAndUpdate ==
  /\ phase = "pad"
  /\ IF PadCrashes(batch)
     THEN phase' = "crashed" /\ UNCHANGED batch
     ELSE phase' = "updated" /\ batch' = PadToWorldSize(batch)
  /\ UNCHANGED config

PpoNext == Collect \/ Sample \/ Advantage \/ PadAndUpdate

PpoSpec == PpoInit /\ [][PpoNext]_ppoVars
-----------------------------------------------------------------------------
BatchRows == {batch[i] : i \in DOMAIN batch}

(* A row always stands beside the prompt its trajectory was run for and    *)
(* carries that trajectory's reward if it has a token to carry it: the     *)
(* results come back in any order and some are dropped, and only the sort  *)
(* by idx and the size check of union keep the two columns aligned.        *)
RowsBelong ==
  \A r \in BatchRows :
    /\ r.uid[1] = PromptOf(r.traj)
    /\ <<r.traj, r.step>> \notin blank => r.score = reward[r.traj]

(* What the actor is updated with was computed from the row's own          *)
(* trajectory against trajectories of the same prompt, each counted once:  *)
(* no padding row weighs in a group's baseline.  Only what is broadcast    *)
(* from a last step without response is no advantage at all.               *)
AdvantageIsOwn ==
  phase = "updated" =>
    \A r \in BatchRows :
      \/ /\ r.adv.of = {r.traj}
         /\ r.traj \in r.adv.against
         /\ \A t \in r.adv.against : PromptOf(t) = PromptOf(r.traj)
         /\ r.adv.rows = Cardinality(r.adv.against)
      \/ mode = "broadcast" /\ ~r.last /\ NoMean(r.traj) /\ r.adv = NoAdv

(* The batch of an update divides among the workers; after rejection       *)
(* sampling every prompt in it was solved by some of its trajectories and  *)
(* not by all, or by all with a response left empty; and with broadcast    *)
(* advantages a trajectory is there with all its steps or not at all, in   *)
(* spite of rounding twice.                                                *)
UpdateIsWhole ==
  phase = "updated" =>
    /\ Len(batch) % world = 0
    /\ reject => \A r \in BatchRows :
         LET peers == {t \in Trajs : PromptOf(t) = r.uid[1]}
         IN  /\ \E t \in peers : reward[t] > 0
             /\ \E t \in peers : reward[t] < 2 \/ \E s \in 1..steps[t] : <<t, s>> \in blank
    /\ mode = "broadcast" => \A r \in BatchRows :
         \A s \in 1..steps[r.traj] :
           \E q \in BatchRows : q.traj = r.traj /\ q.step = s /\ ~q.pad

(* The step ends in an exception only when token mode has a trajectory     *)
(* with an empty response, or - without rejection sampling - a batch that  *)
(* does not divide; when, in step mode, the first trajectory has no steps; *)
(* or when every trajectory with a broadcast advantage has a single step.  *)
(* The first and the third always end it before anything is sampled, and   *)
(* the second before the update (agent_ppo_trainer 625-631, 646, 887,      *)
(* 1012, 1041; engine 398-407, 442-452).                                   *)
EmptyResult == mode = "token" /\ \E t \in Trajs : <<t, 1>> \in blank
Undivided   == mode = "token" /\ ~reject /\ Total % world # 0
NoFirstStep == Stepwise /\ steps[0] = 0
SingleSteps == mode = "broadcast" /\ batch # <<>> /\ \A r \in BatchRows : steps[r.traj] = 1

CrashCauses ==
  /\ phase = "crashed" => EmptyResult \/ Undivided \/ NoFirstStep \/ SingleSteps
  /\ EmptyResult \/ NoFirstStep => phase \in {"collect", "crashed"}
  /\ Undivided => phase # "updated"

(* "batch needs to be padded to divisor of world size, we will pad with    *)
(* everything masked out" (agent_ppo_trainer.py:215).                      *)
PaddingIsMasked ==
  phase = "updated" => \A r \in BatchRows : r.pad => r.masked
=============================================================================
