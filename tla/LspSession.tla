---------------------------- MODULE LspSession -----------------------------
(***************************************************************************)
(* The language server daemons of one container over the life of an agent: *)
(* run_agent_with_restarts (run/edit.py) runs the agent several times, each *)
(* run starts a daemon in RepoEnv.initialize_lsp (environment/env.py), and *)
(* daemons, tools and environment meet in one file that holds a port.      *)
(*                                                                         *)
(* A daemon's inner life is in LspClient; here it starts, serves and       *)
(* closes.  Its steps interleave freely with the environment, which waits  *)
(* by the clock (10 s, 40 s) and not for the daemon.                       *)
(***************************************************************************)
EXTENDS Integers

CONSTANTS
  Iterations,  (* max_iterations                                            *)
  Restarts     (* num_restarts                                              *)

ASSUME SessionAssumption ==
  /\ Iterations \in Nat \ {0} /\ Restarts \in Nat \ {0}
  /\ Iterations = 1 \/ Restarts = 1        (* asserted by the driver        *)

Daemons == 1..(2 * Iterations * Restarts)  (* one retry for each run        *)
Missing == 0
Empty   == -1

VARIABLES
  pc,          (* where the driver is                                       *)
  runs,        (* agent runs begun                                          *)
  started,     (* daemons started                                           *)
  phase,       (* the life of each daemon                                   *)
  logged,      (* daemon.log has the line "initialized successfully"        *)
  portFile,    (* /var/tmp/lsp_port_session_abc.pid: missing, empty, or the *)
               (* daemon whose port it holds                                *)
  unlinked     (* daemons whose open port file was removed                  *)

driver  == <<pc, runs, started>>
daemons == <<phase, logged, portFile, unlinked>>
vars    == <<driver, daemons>>

Alive == {"starting", "initialized", "writing", "serving", "closing"}

TypeOK ==
  /\ pc \in {"initialize", "check", "retry", "pause", "agent", "shutdown", "finished"}
  /\ runs \in 0..(Iterations * Restarts)
  /\ started \in 0..(2 * runs)
  /\ logged \in BOOLEAN
  /\ phase \in [Daemons -> Alive \cup {"none", "gone", "killed"}]
  /\ \A d \in Daemons : phase[d] = "none" <=> d > started
  /\ portFile \in Daemons \cup {Missing, Empty}
  /\ unlinked \subseteq Daemons

Init ==
  /\ pc = "initialize" /\ runs = 1 /\ started = 0
  /\ phase = [d \in Daemons |-> "none"]
  /\ logged = FALSE /\ portFile = Missing /\ unlinked = {}
-----------------------------------------------------------------------------
(* "nohup lsp_daemon ... 2> daemon.log &": a new daemon, an empty log.     *)
StartDaemon ==
  /\ started' = started + 1
  /\ phase' = [phase EXCEPT ![started + 1] = "starting"]
  /\ logged' = FALSE

InitializeLsp ==
  /\ pc = "initialize"
  /\ StartDaemon
  /\ pc' = "check"
  /\ UNCHANGED <<runs, portFile, unlinked>>

CheckLog ==
  /\ pc = "check"
  /\ pc' = IF logged THEN "agent" ELSE "retry"
  /\ UNCHANGED <<runs, started, daemons>>

(* lsp_tool daemon_shutdown: the tool reads the port file and connects;    *)
(* without a port or a listener it prints an error and ends.               *)
ToolShutdown ==
  /\ phase' = IF portFile \in Daemons /\ phase[portFile] = "serving"
              THEN [phase EXCEPT ![portFile] = "closing"] ELSE phase
  /\ UNCHANGED <<logged, portFile, unlinked>>

RetryShutdown ==
  /\ pc = "retry"
  /\ ToolShutdown
  /\ pc' = "pause"
  /\ UNCHANGED <<runs, started>>

RetryStart ==
  /\ pc = "pause"
  /\ StartDaemon
  /\ pc' = "agent"
  /\ UNCHANGED <<runs, portFile, unlinked>>

(* The agent has run.  When the last restart of an iteration was ended by  *)
(* the agent itself, the driver returns without a shutdown.                *)
AgentRuns_uncounted ==
  /\ pc = "agent"
  /\ pc' \in {"finished", "initialize", "shutdown"}
  /\ UNCHANGED <<runs, started, daemons>>

AgentRuns ==
  /\ pc = "agent"
  /\ \E byAgent \in BOOLEAN :
       LET lastRestart == runs % Restarts = 0
           more        == runs < Iterations * Restarts
       IN  pc' = IF lastRestart /\ byAgent THEN "finished"
                 ELSE IF more THEN "initialize" ELSE "shutdown"
  /\ runs' = IF pc' = "initialize" THEN runs + 1 ELSE runs
  /\ UNCHANGED <<started, daemons>>

(* The agent may call lsp_tool daemon_shutdown like any other command.     *)
AgentShutdown ==
  /\ pc = "agent"
  /\ ToolShutdown
  /\ UNCHANGED driver

FinalShutdown ==
  /\ pc = "shutdown"
  /\ ToolShutdown
  /\ pc' = "finished"
  /\ UNCHANGED <<runs, started>>
-----------------------------------------------------------------------------
(* LSPClient.start: the language server is initialized, or is not.         *)
DaemonInitialized(d) ==
  /\ phase[d] = "starting"
  /\ phase' = [phase EXCEPT ![d] = "initialized"]
  /\ logged' = TRUE
  /\ UNCHANGED <<driver, portFile, unlinked>>

DaemonInitFails(d) ==
  /\ phase[d] = "starting"
  /\ phase' = [phase EXCEPT ![d] = "closing"]
  /\ UNCHANGED <<driver, logged, portFile, unlinked>>

(* start_server or the open of the port file raises, after the log already *)
(* has the line that initialize_lsp looks for.                             *)
DaemonListenFails(d) ==
  /\ phase[d] = "initialized"
  /\ phase' = [phase EXCEPT ![d] = "closing"]
  /\ UNCHANGED <<driver, logged, portFile, unlinked>>

(* It listens, opens the port file, which empties it, and writes its port; *)
(* into a file that was removed meanwhile when another daemon closed.      *)
DaemonOpensPortFile(d) ==
  /\ phase[d] = "initialized"
  /\ phase' = [phase EXCEPT ![d] = "writing"]
  /\ portFile' = Empty
  /\ UNCHANGED <<driver, logged, unlinked>>

DaemonWritesPort(d) ==
  /\ phase[d] = "writing"
  /\ phase' = [phase EXCEPT ![d] = "serving"]
  /\ portFile' = IF d \in unlinked THEN portFile ELSE d
  /\ UNCHANGED <<driver, logged, unlinked>>

(* The write raises, or the fsync after it: the daemon closes.             *)
DaemonPortFails_leavesFile(d) ==
  /\ phase[d] = "writing"
  /\ phase' = [phase EXCEPT ![d] = "gone"]
  /\ UNCHANGED <<driver, logged, portFile, unlinked>>

DaemonPortFails(d) ==
  /\ phase[d] = "writing"
  /\ phase' = [phase EXCEPT ![d] = "closing"]
  /\ portFile' \in {portFile, IF d \in unlinked THEN portFile ELSE d}
  /\ UNCHANGED <<driver, logged, unlinked>>

(* SIGTERM or SIGINT sets shutdown_event.  One that arrives before the     *)
(* daemon serves closes it as soon as it does.                             *)
DaemonSignalled(d) ==
  /\ phase[d] = "serving"
  /\ phase' = [phase EXCEPT ![d] = "closing"]
  /\ UNCHANGED <<driver, logged, portFile, unlinked>>

(* SIGKILL, the OOM killer, or a signal before the handlers are set: no    *)
(* code of the daemon runs any more.                                       *)
DaemonKilled(d) ==
  /\ phase[d] \in Alive
  /\ phase' = [phase EXCEPT ![d] = "killed"]
  /\ UNCHANGED <<driver, logged, portFile, unlinked>>

(* A closing daemon removes the port file last, whoever wrote it.          *)
DaemonCloses_leavesFile(d) ==
  /\ phase[d] = "closing"
  /\ phase' = [phase EXCEPT ![d] = "gone"]
  /\ UNCHANGED <<driver, logged, portFile, unlinked>>

DaemonCloses(d) ==
  /\ phase[d] = "closing"
  /\ phase' = [phase EXCEPT ![d] = "gone"]
  /\ portFile' = Missing
  /\ unlinked' = unlinked \cup {e \in Daemons : phase[e] = "writing"}
  /\ UNCHANGED <<driver, logged>>

Driver == \/ InitializeLsp \/ CheckLog \/ RetryShutdown \/ RetryStart
          \/ AgentRuns \/ AgentShutdown \/ FinalShutdown

Daemon(d) == \/ DaemonInitialized(d) \/ DaemonInitFails(d) \/ DaemonListenFails(d)
             \/ DaemonOpensPortFile(d) \/ DaemonWritesPort(d) \/ DaemonPortFails(d)
             \/ DaemonSignalled(d) \/ DaemonCloses(d) \/ DaemonKilled(d)

Next == Driver \/ \E d \in Daemons : Daemon(d)

Spec == Init /\ [][Next]_vars
-----------------------------------------------------------------------------
(* The port file never names a daemon that closed by itself: a tool that   *)
(* finds a port is answered or refused by the daemon that wrote it, unless *)
(* that one was killed and could not remove the file (lsp_daemon.py        *)
(* 1058-1061, 1092-1115).                                                  *)
PortNamesADaemon ==
  portFile \in Daemons => phase[portFile] \in {"serving", "closing", "killed"}

(* The tools lose a daemon that serves only to another one.  The file is   *)
(* missing then only after a daemon has closed, and an empty file belongs  *)
(* to one that opened it and is about to write its port, or failed to and  *)
(* is about to remove it, or was killed: an error between the open and the *)
(* write never leaves the empty file behind (lsp_daemon.py 1050-1071,      *)
(* 1092-1115; lsp_tool.py 656-675).                                        *)
NoPortIsExplained ==
  /\ portFile = Missing /\ (\E d \in Daemons : phase[d] = "serving") =>
       \E d \in Daemons : phase[d] = "gone"
  /\ portFile = Empty =>
       \E d \in Daemons \ unlinked : phase[d] \in {"writing", "closing", "killed"}
=============================================================================
