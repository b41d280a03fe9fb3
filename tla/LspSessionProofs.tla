-------------------------- MODULE LspSessionProofs --------------------------
(***************************************************************************)
(* Proofs about LspSession for any number of iterations and restarts:      *)
(* types, PortNamesADaemon, NoPortIsExplained.                             *)
(***************************************************************************)
EXTENDS LspSession, TLAPS

(* Each run starts at most two daemons, the second in a retry.             *)
Counted ==
  /\ runs >= 1
  /\ started >= IF pc \in {"check", "retry", "pause", "agent"} THEN 1 ELSE 0
  /\ started <= IF pc = "initialize" THEN 2 * runs - 2
                ELSE IF pc \in {"check", "retry", "pause"} THEN 2 * runs - 1
                ELSE 2 * runs

(* Only a daemon that closes removes the file of others, and only of those *)
(* that have opened it.                                                    *)
Removals ==
  /\ \A d \in unlinked : phase[d] \notin {"none", "starting", "initialized"}
  /\ unlinked # {} => \E d \in Daemons : phase[d] = "gone"

IInv == TypeOK /\ Counted /\ PortNamesADaemon /\ NoPortIsExplained /\ Removals

(* The daemons a run may start have a number.                              *)
LEMMA Numbers ==
  /\ Iterations * Restarts \in Nat \ {0}
  /\ Daemons = 1..(2 * (Iterations * Restarts))
  /\ Missing \notin Daemons /\ Empty \notin Daemons
<1>1. Iterations * Restarts \in Nat \ {0}
  BY SessionAssumption
<1>2. (2 * Iterations) * Restarts = 2 * (Iterations * Restarts)
  BY SessionAssumption
<1> QED BY <1>1, <1>2 DEF Daemons, Missing, Empty

(* A new daemon has no past.                                               *)
LEMMA StartInvariant ==
  ASSUME IInv, StartDaemon, pc \in {"initialize", "pause"},
         pc' = IF pc = "initialize" THEN "check" ELSE "agent",
         UNCHANGED <<runs, portFile, unlinked>>
  PROVE  IInv'
<1> USE Numbers DEF IInv
<1>1. /\ started + 1 \in Daemons /\ phase[started + 1] = "none"
      /\ started \in Nat /\ runs \in Nat
  BY DEF TypeOK, Counted
<1>2. /\ started' = started + 1 /\ logged' = FALSE
      /\ phase' = [phase EXCEPT ![started + 1] = "starting"]
  BY DEF StartDaemon
<1>3. TypeOK'
  <2>1. started' \in 0..(2 * runs')
    BY <1>1, <1>2 DEF TypeOK, Counted
  <2>2. phase' \in [Daemons -> Alive \cup {"none", "gone", "killed"}]
    BY <1>1, <1>2 DEF TypeOK, Alive
  <2>3. \A d \in Daemons : phase'[d] = "none" <=> d > started'
    BY <1>1, <1>2 DEF TypeOK
  <2> QED BY <2>1, <2>2, <2>3, <1>2 DEF TypeOK
<1>4. Counted'
  BY <1>1, <1>2 DEF TypeOK, Counted
<1>5. PortNamesADaemon'
  BY <1>1, <1>2 DEF TypeOK, PortNamesADaemon
<1>6. \A d \in Daemons : phase'[d] = IF d = started + 1 THEN "starting" ELSE phase[d]
  BY <1>2 DEF TypeOK
<1>7. Removals'
  BY <1>1, <1>6 DEF Removals, TypeOK
<1>8. NoPortIsExplained'
  BY <1>1, <1>6 DEF NoPortIsExplained
<1> QED BY <1>3, <1>4, <1>5, <1>7, <1>8

(* A daemon asked to close serves until it does.                           *)
LEMMA ShutdownInvariant ==
  ASSUME IInv, ToolShutdown, UNCHANGED <<runs, started>>,
         \/ pc = "retry" /\ pc' = "pause"
         \/ pc = "agent" /\ pc' = "agent"
         \/ pc = "shutdown" /\ pc' = "finished"
  PROVE  IInv'
<1> USE Numbers DEF IInv
<1>1. /\ UNCHANGED <<logged, portFile, unlinked>>
      /\ phase' = phase \/ /\ portFile \in Daemons /\ phase[portFile] = "serving"
                           /\ phase' = [phase EXCEPT ![portFile] = "closing"]
  BY DEF ToolShutdown
<1>2. TypeOK'
  BY <1>1 DEF TypeOK, Alive
<1>3. Counted'
  BY <1>1 DEF Counted, TypeOK
<1>4. PortNamesADaemon'
  BY <1>1 DEF TypeOK, PortNamesADaemon
<1>5. \A d \in Daemons : phase'[d] = phase[d] \/ (phase[d] = "serving" /\ phase'[d] = "closing")
  BY <1>1 DEF TypeOK
<1>6. Removals' /\ NoPortIsExplained'
  BY <1>1, <1>5 DEF TypeOK, Removals, NoPortIsExplained
<1> QED BY <1>2, <1>3, <1>4, <1>6

(* The initial state satisfies the invariant.                              *)
LEMMA InitInvariant == Init => IInv
<1> SUFFICES ASSUME Init PROVE IInv
  OBVIOUS
<1> USE Numbers
<1>1. phase = [d \in Daemons |-> "none"] /\ started = 0 /\ runs = 1
  BY DEF Init
<1>2. TypeOK
  <2>1. runs \in 0..(Iterations * Restarts) /\ started \in 0..(2 * runs)
    BY <1>1
  <2>2. \A d \in Daemons : phase[d] = "none" <=> d > started
    BY <1>1
  <2> QED BY <2>1, <2>2 DEF Init, TypeOK
<1>3. Counted /\ PortNamesADaemon
  BY DEF Init, Counted, PortNamesADaemon
<1>4. Removals
  BY DEF Init, Removals
<1>5. NoPortIsExplained
  BY <1>1 DEF Init, NoPortIsExplained, Missing, Empty
<1> QED BY <1>2, <1>3, <1>4, <1>5 DEF IInv

(* Every step preserves the invariant.                                     *)
LEMMA StepInvariant == IInv /\ [Next]_vars => IInv'
<1> SUFFICES ASSUME IInv, [Next]_vars PROVE IInv'
  OBVIOUS
<1> USE Numbers DEF IInv
<1>1. CASE InitializeLsp
  BY <1>1, StartInvariant DEF InitializeLsp
<1>2. CASE CheckLog
  <2>1. /\ pc = "check" /\ pc' \in {"agent", "retry"}
        /\ UNCHANGED <<runs, started, phase, logged, portFile, unlinked>>
    BY <1>2 DEF CheckLog, daemons
  <2>2. TypeOK'
    BY <2>1 DEF TypeOK
  <2>3. Counted'
    BY <2>1 DEF TypeOK, Counted
  <2>4. PortNamesADaemon' /\ NoPortIsExplained' /\ Removals'
    BY <2>1 DEF PortNamesADaemon, NoPortIsExplained, Removals
  <2> QED BY <2>2, <2>3, <2>4
<1>3. CASE RetryShutdown
  BY <1>3, ShutdownInvariant DEF RetryShutdown
<1>4. CASE RetryStart
  BY <1>4, StartInvariant DEF RetryStart
<1>5. CASE AgentRuns
  <2>1. /\ pc = "agent" /\ pc' \in {"finished", "initialize", "shutdown"}
        /\ pc' = "initialize" => runs < Iterations * Restarts
        /\ runs' = IF pc' = "initialize" THEN runs + 1 ELSE runs
        /\ UNCHANGED <<started, phase, logged, portFile, unlinked>>
    BY <1>5 DEF AgentRuns, daemons
  <2>2. TypeOK'
    BY <2>1 DEF TypeOK
  <2>3. Counted'
    BY <2>1 DEF TypeOK, Counted
  <2>4. PortNamesADaemon' /\ NoPortIsExplained' /\ Removals'
    BY <2>1 DEF PortNamesADaemon, NoPortIsExplained, Removals
  <2> QED BY <2>2, <2>3, <2>4
<1>6. CASE FinalShutdown
  BY <1>6, ShutdownInvariant DEF FinalShutdown
<1>7. CASE AgentShutdown
  BY <1>7, ShutdownInvariant DEF AgentShutdown, driver
<1>8. ASSUME NEW d \in Daemons, Daemon(d) PROVE IInv'
  <2>1. PICK p \in (Alive \cup {"gone", "killed"}) \ {"starting"} :
          /\ phase[d] \in Alive /\ phase' = [phase EXCEPT ![d] = p]
          /\ UNCHANGED <<pc, runs, started>> /\ d \in 1..started
    BY <1>8 DEF Daemon, DaemonInitialized, DaemonInitFails, DaemonListenFails,
       DaemonOpensPortFile, DaemonWritesPort, DaemonPortFails, DaemonSignalled,
       DaemonCloses, DaemonKilled, driver, TypeOK, Alive
  <2>2. Counted'
    BY <2>1 DEF Counted
  <2>3. /\ phase' \in [Daemons -> Alive \cup {"none", "gone", "killed"}]
        /\ phase'[d] = p /\ \A e \in Daemons : e # d => phase'[e] = phase[e]
        /\ \A e \in Daemons : phase'[e] = "none" <=> e > started'
        /\ started' \in 0..(2 * runs') /\ runs' \in 0..(Iterations * Restarts)
        /\ pc' \in {"initialize", "check", "retry", "pause", "agent", "shutdown", "finished"}
    BY <2>1 DEF TypeOK, Alive
  <2>4. CASE /\ phase[d] = "initialized" => p \in {"closing", "killed"}
             /\ phase[d] = "starting" => p \in {"initialized", "closing", "killed"}
             /\ phase[d] = "writing" => p \in {"closing", "killed"}
             /\ phase[d] = "serving" => p \in {"closing", "killed"}
             /\ phase[d] = "closing" => p = "killed"
             /\ \/ portFile' = portFile
                \/ portFile' = d /\ phase[d] = "writing" /\ p = "closing"
             /\ unlinked' = unlinked /\ logged' \in BOOLEAN
    <3>1. TypeOK'
      BY <2>1, <2>3, <2>4 DEF TypeOK
    <3>2. PortNamesADaemon'
      BY <2>1, <2>3, <2>4 DEF PortNamesADaemon, Alive
    <3>3. Removals'
      BY <2>1, <2>3, <2>4 DEF Removals, Alive
    <3>4. NoPortIsExplained'
      BY <2>1, <2>3, <2>4 DEF NoPortIsExplained, Alive
    <3> QED BY <2>2, <3>1, <3>2, <3>3, <3>4
  <2>5. CASE DaemonOpensPortFile(d)
    <3>1. /\ phase[d] = "initialized" /\ phase'[d] = "writing" /\ portFile' = Empty
          /\ UNCHANGED <<unlinked, logged>>
      BY <2>5 DEF DaemonOpensPortFile, TypeOK
    <3>2. TypeOK' /\ PortNamesADaemon'
      BY <2>3, <3>1 DEF TypeOK, PortNamesADaemon
    <3>3. d \notin unlinked'
      BY <3>1 DEF Removals
    <3>4. Removals'
      <4>1. \A e \in Daemons : phase[e] = "gone" => phase'[e] = "gone"
        BY <2>3, <3>1
      <4>2. \A e \in unlinked' : phase'[e] \notin {"none", "starting", "initialized"}
        BY <2>3, <3>1 DEF Removals, TypeOK
      <4> QED BY <3>1, <4>1, <4>2 DEF Removals
    <3>5. NoPortIsExplained'
      BY <3>1, <3>3 DEF NoPortIsExplained, Empty, Missing
    <3> QED BY <2>2, <3>2, <3>4, <3>5
  <2>6. CASE DaemonWritesPort(d)
    <3>1. /\ phase[d] = "writing" /\ phase'[d] = "serving"
          /\ portFile' = IF d \in unlinked THEN portFile ELSE d
          /\ UNCHANGED <<unlinked, logged>>
      BY <2>6 DEF DaemonWritesPort, TypeOK
    <3>2. TypeOK' /\ PortNamesADaemon'
      BY <2>3, <3>1 DEF TypeOK, PortNamesADaemon
    <3>3. Removals'
      <4>1. \A e \in Daemons : phase[e] = "gone" => phase'[e] = "gone"
        BY <2>3, <3>1
      <4>2. \A e \in unlinked' : phase'[e] \notin {"none", "starting", "initialized"}
        BY <2>3, <3>1 DEF Removals, TypeOK
      <4> QED BY <3>1, <4>1, <4>2 DEF Removals
    <3>4. NoPortIsExplained'
      BY <2>3, <3>1, <3>3 DEF NoPortIsExplained, Removals
    <3> QED BY <2>2, <3>2, <3>3, <3>4
  <2>7. CASE DaemonCloses(d)
    <3>1. /\ phase[d] = "closing" /\ phase'[d] = "gone" /\ portFile' = Missing
          /\ unlinked' = unlinked \cup {e \in Daemons : phase[e] = "writing"}
          /\ UNCHANGED logged
      BY <2>7 DEF DaemonCloses, TypeOK
    <3>2. TypeOK' /\ PortNamesADaemon'
      BY <2>3, <3>1 DEF TypeOK, PortNamesADaemon
    <3>3. Removals'
      BY <2>3, <3>1 DEF Removals, TypeOK
    <3>4. NoPortIsExplained'
      BY <2>3, <3>1 DEF NoPortIsExplained, Empty, Missing
    <3> QED BY <2>2, <3>2, <3>3, <3>4
  <2>8. ASSUME \/ DaemonInitialized(d) \/ DaemonInitFails(d) \/ DaemonListenFails(d)
               \/ DaemonPortFails(d) \/ DaemonSignalled(d) \/ DaemonKilled(d)
        PROVE  IInv'
    <3>1. logged \in BOOLEAN /\ phase'[d] = p
      BY <2>3 DEF TypeOK
    <3>2. CASE DaemonInitialized(d)
      BY <2>3, <2>4, <3>1, <3>2 DEF DaemonInitialized, TypeOK
    <3>3. CASE DaemonInitFails(d)
      BY <2>3, <2>4, <3>1, <3>3 DEF DaemonInitFails, TypeOK
    <3>4. CASE DaemonListenFails(d)
      BY <2>3, <2>4, <3>1, <3>4 DEF DaemonListenFails, TypeOK
    <3>5. CASE DaemonPortFails(d)
      BY <2>3, <2>4, <3>1, <3>5 DEF DaemonPortFails, TypeOK
    <3>6. CASE DaemonSignalled(d)
      BY <2>3, <2>4, <3>1, <3>6 DEF DaemonSignalled, TypeOK
    <3>7. CASE DaemonKilled(d)
      BY <2>3, <2>4, <3>1, <3>7 DEF DaemonKilled, TypeOK
    <3> QED BY <2>8, <3>2, <3>3, <3>4, <3>5, <3>6, <3>7
  <2> QED BY <1>8, <2>5, <2>6, <2>7, <2>8 DEF Daemon
<1>9. CASE UNCHANGED vars
  BY <1>9 DEF vars, driver, daemons, TypeOK, Counted, PortNamesADaemon,
     NoPortIsExplained, Removals
<1> QED
  BY <1>1, <1>2, <1>3, <1>4, <1>5, <1>6, <1>7, <1>8, <1>9 DEF Next, Driver

(* Every reachable state satisfies the invariant.                          *)
THEOREM SessionInvariant == Spec => []IInv
<1> QED BY InitInvariant, StepInvariant, PTL DEF Spec

(* Every reachable state has its type.                                     *)
THEOREM TypeCorrect == Spec => []TypeOK
<1>1. IInv => TypeOK
  BY DEF IInv
<1> QED BY SessionInvariant, <1>1, PTL

(* A port that lsp_tool reads is that of a daemon that runs or was killed, *)
(* however many daemons the restarts, the retries and the agent start and  *)
(* close.                                                                  *)
THEOREM PortIsLive == Spec => []PortNamesADaemon
<1>1. IInv => PortNamesADaemon
  BY DEF IInv
<1> QED BY SessionInvariant, <1>1, PTL

(* While a daemon serves, the port file is missing or empty only through   *)
(* another daemon, which closed, or opened the file and has its write, its *)
(* clean up or a kill behind or before it - whatever fails and whoever     *)
(* closes daemons.                                                         *)
THEOREM NoPortHasAReason == Spec => []NoPortIsExplained
<1>1. IInv => NoPortIsExplained
  BY DEF IInv
<1> QED BY SessionInvariant, <1>1, PTL
=============================================================================
