----------------------------- MODULE LspClient -----------------------------
(***************************************************************************)
(* The language server daemon of a container                               *)
(* (agenthub/tools/lsp_daemon.py): LSPClient, which multiplexes the calls  *)
(* of the tools (lsp_tool.py) onto the pipes of one language server, and   *)
(* the end of main_daemon, which closes it.                                *)
(*                                                                         *)
(* A tool asks for one thing (get_hover, ...) or for a call hierarchy: it  *)
(* prepares the item, then asks for incoming and outgoing calls at once.   *)
(* What is asked and answered is left out; a message is known by the       *)
(* request it belongs to.  Notifications other than exit are left out:     *)
(* nothing waits for them.                                                 *)
(*                                                                         *)
(* The interpreter is Python 3.8 or later, where the cancellation of a     *)
(* task is no Exception and the loops do not catch it.                     *)
(***************************************************************************)
EXTENDS Naturals, Sequences

CONSTANTS
  Tools,       (* runs of lsp_tool                                          *)
  MaxAsked     (* bound: requests the language server makes of its client   *)

ASSUME LspAssumption == MaxAsked \in Nat /\ {"daemon", "server"} \cap Tools = {}

Legs   == {"prepare", "incoming", "outgoing"}
Calls  == Tools \X Legs
Owners == Calls \cup {<<"daemon", "initialize">>, <<"daemon", "shutdown">>}
Initialize == <<"daemon", "initialize">>
Shutdown   == <<"daemon", "shutdown">>
Exit       == <<"daemon", "exit">>
Server     == <<"server", "request">>
Nobody     == <<"nobody", "">>

VARIABLES
  daemon,      (* main_daemon: where it is                                  *)
  server,      (* the language server process                               *)
  reader, writer,      (* _reader_task and _writer_task                     *)
  nextId,      (* _message_id                                               *)
  idOf,        (* message_id of each request, 0 before it has one           *)
  pending,     (* _pending: pairs of an id and who waits for its answer     *)
  writeQueue,  (* _write_queue                                              *)
  atServer,    (* what the server has read and not answered                 *)
  toClient,    (* the server's stdout                                       *)
  asked,       (* requests the server has made                              *)
  result,      (* how each call stands                                      *)
  got          (* whose message ended it                                    *)

tasks  == <<reader, writer>>
pipes  == <<writeQueue, atServer, toClient, asked>>
calls  == <<nextId, idOf, pending, result, got>>
vars   == <<daemon, server, tasks, pipes, calls>>

Waiting == {"connected", "waiting"}
Ended   == {"answered", "error", "timeout", "failed", "lost", "refused"}

TypeOK ==
  /\ daemon \in {"starting", "serving", "closing", "stopping", "terminated", "down"}
  /\ server \in {"up", "dead"}
  /\ reader \in {"running", "ended"} /\ writer \in {"running", "ended"}
  /\ nextId \in Nat /\ asked \in 0..MaxAsked
  /\ idOf \in [Owners -> Nat] /\ \A o \in Owners : idOf[o] < nextId
  /\ pending \subseteq Nat \X Owners
  /\ writeQueue \in Seq(Owners \cup {Exit})
  /\ atServer \subseteq Owners \cup {Exit}
  /\ toClient \in Seq([id : Nat, of : Owners \cup {Server}])
  /\ result \in [Owners -> {"none"} \cup Waiting \cup Ended]
  /\ got \in [Owners -> Owners \cup {Server, Nobody}]

(* LSPClient.start has created the tasks and sent initialize.              *)
Init ==
  /\ daemon = "starting" /\ server = "up"
  /\ reader = "running" /\ writer = "running"
  /\ nextId = 2
  /\ idOf = [o \in Owners |-> IF o = Initialize THEN 1 ELSE 0]
  /\ pending = {<<1, Initialize>>}
  /\ writeQueue = <<Initialize>>
  /\ atServer = {} /\ toClient = <<>> /\ asked = 0
  /\ result = [o \in Owners |-> IF o = Initialize THEN "waiting" ELSE "none"]
  /\ got = [o \in Owners |-> Nobody]
-----------------------------------------------------------------------------
(* send_request, up to the wait for its future.                            *)
SendRequest_sameId(o) ==
  /\ idOf' = [idOf EXCEPT ![o] = nextId]
  /\ pending' = pending \cup {<<nextId, o>>}
  /\ writeQueue' = Append(writeQueue, o)
  /\ result' = [result EXCEPT ![o] = "waiting"]
  /\ UNCHANGED <<nextId, got>>

SendRequest(o) ==
  /\ idOf' = [idOf EXCEPT ![o] = nextId]
  /\ nextId' = nextId + 1
  /\ pending' = pending \cup {<<nextId, o>>}
  /\ writeQueue' = Append(writeQueue, o)
  /\ result' = [result EXCEPT ![o] = "waiting"]
  /\ UNCHANGED got

(* wait_for gives up and takes the id off _pending.                        *)
RequestTimesOut(o) ==
  /\ result[o] = "waiting"
  /\ daemon # "down"
  /\ pending' = pending \ {<<idOf[o], o>>}
  /\ result' = [result EXCEPT ![o] = "timeout"]
  /\ UNCHANGED <<daemon, server, tasks, pipes, nextId, idOf, got>>

(* _fail_pending ends every pending request.                               *)
FailPending ==
  /\ pending' = {}
  /\ result' = [o \in Owners |-> IF \E p \in pending : p[2] = o THEN "failed" ELSE result[o]]
-----------------------------------------------------------------------------
(* A tool connects when it is its turn (the legs after prepare go out      *)
(* together); without a server it is refused.                              *)
ToolConnects(t, leg) ==
  LET c == <<t, leg>> IN
  /\ result[c] = "none"
  /\ leg # "prepare" => result[<<t, "prepare">>] = "answered"
  /\ daemon # "starting"
  /\ result' = [result EXCEPT ![c] = IF daemon = "serving" THEN "connected" ELSE "refused"]
  /\ UNCHANGED <<daemon, server, tasks, pipes, nextId, idOf, pending, got>>

(* handle_connection has read the request and runs it, even after the      *)
(* server was closed.                                                      *)
HandlerRuns(c) ==
  /\ result[c] = "connected"
  /\ daemon # "down"
  /\ SendRequest(c)
  /\ UNCHANGED <<daemon, server, tasks, atServer, toClient, asked>>
-----------------------------------------------------------------------------
(* _writer_loop: the next message goes to the server's stdin; when the     *)
(* server is gone it is lost, or drain raises.                             *)
WriterStep ==
  /\ writer = "running"
  /\ writeQueue # <<>>
  /\ writeQueue' = Tail(writeQueue)
  /\ \/ server = "up" /\ atServer' = atServer \cup {Head(writeQueue)}
        /\ UNCHANGED <<writer, pending, result>>
     \/ server = "dead" /\ UNCHANGED <<writer, atServer, pending, result>>
     \/ server = "dead" /\ writer' = "ended" /\ FailPending /\ UNCHANGED atServer
  /\ UNCHANGED <<daemon, server, reader, toClient, asked, nextId, idOf, got>>

(* _read_loop: a message with an id is taken for the answer to the request *)
(* with that id, a request of the server too; the caller finds no result   *)
(* in that.                                                                *)
Pop_anyPending(id) == {p \in pending : p[1] <= id}
Pop(id) == {p \in pending : p[1] = id}

ReaderStep ==
  /\ reader = "running"
  /\ toClient # <<>>
  /\ toClient' = Tail(toClient)
  /\ LET m == Head(toClient)
         popped == Pop(m.id)
         took(o) == \E p \in popped : p[2] = o
     IN /\ pending' = pending \ popped
        /\ result' = [o \in Owners |-> IF ~took(o) THEN result[o]
                                       ELSE IF m.of = Server THEN "error" ELSE "answered"]
        /\ got' = [o \in Owners |-> IF took(o) THEN m.of ELSE got[o]]
  /\ UNCHANGED <<daemon, server, tasks, writeQueue, atServer, asked, nextId, idOf>>

(* The end of the stream ends the reader and leaves the pending requests   *)
(* to their timers; a message it cannot frame fails them.                  *)
ReaderEnds ==
  /\ reader = "running"
  /\ reader' = "ended"
  /\ \/ server = "dead" /\ toClient = <<>> /\ UNCHANGED <<pending, result>>
     \/ toClient # <<>> /\ FailPending
  /\ UNCHANGED <<daemon, server, writer, pipes, nextId, idOf, got>>
-----------------------------------------------------------------------------
(* The language server (external): it answers what it has read in any      *)
(* order, makes requests with ids of its own, from 0, and may die.         *)
ServerAnswers(o) ==
  /\ server = "up"
  /\ o \in atServer
  /\ atServer' = atServer \ {o}
  /\ toClient' = Append(toClient, [id |-> idOf[o], of |-> o])
  /\ UNCHANGED <<daemon, server, tasks, writeQueue, asked, calls>>

ServerAsks ==
  /\ server = "up" /\ asked < MaxAsked
  /\ result[Initialize] = "answered"
  /\ asked' = asked + 1
  /\ toClient' = Append(toClient, [id |-> asked, of |-> Server])
  /\ UNCHANGED <<daemon, server, tasks, writeQueue, atServer, calls>>

ServerDies ==
  /\ server = "up"
  /\ server' = "dead" /\ atServer' = {}
  /\ UNCHANGED <<daemon, tasks, writeQueue, toClient, asked, calls>>
-----------------------------------------------------------------------------
(* initialize returns or raises; the daemon serves or gives up.            *)
Initialized ==
  /\ daemon = "starting"
  /\ result[Initialize] \notin Waiting
  /\ daemon' = IF result[Initialize] = "answered" THEN "serving" ELSE "closing"
  /\ UNCHANGED <<server, tasks, pipes, calls>>

(* shutdown_event: daemon_shutdown or a signal.                            *)
ShutdownAsked ==
  /\ daemon = "serving"
  /\ daemon' = "closing"
  /\ UNCHANGED <<server, tasks, pipes, calls>>

(* shutdown_and_exit cancels the tasks, then sends a live server shutdown  *)
(* and waits for its answer.                                               *)
CloseClient_asksFirst ==
  /\ daemon = "closing"
  /\ IF server = "up"
     THEN SendRequest(Shutdown) /\ daemon' = "stopping"
     ELSE daemon' = "terminated" /\ UNCHANGED <<calls, writeQueue>>
  /\ UNCHANGED <<server, reader, writer, atServer, toClient, asked>>

CloseClient ==
  /\ daemon = "closing"
  /\ reader' = "ended" /\ writer' = "ended"
  /\ IF server = "up"
     THEN SendRequest(Shutdown) /\ daemon' = "stopping"
     ELSE daemon' = "terminated" /\ UNCHANGED <<calls, writeQueue>>
  /\ UNCHANGED <<server, atServer, toClient, asked>>

(* Then exit is queued and the process terminated or killed.               *)
Terminate ==
  /\ daemon = "stopping"
  /\ result[Shutdown] # "waiting"
  /\ daemon' = "terminated"
  /\ writeQueue' = Append(writeQueue, Exit)
  /\ server' = "dead" /\ atServer' = {}
  /\ UNCHANGED <<tasks, toClient, asked, calls>>

(* main_daemon returns: its handlers go down with the event loop and the   *)
(* tools read the end of their connections.                                *)
DaemonEnds_keepsHandlers ==
  /\ daemon = "terminated"
  /\ daemon' = "down"
  /\ UNCHANGED <<server, tasks, pipes, calls>>

DaemonEnds ==
  /\ daemon = "terminated"
  /\ daemon' = "down"
  /\ pending' = {}
  /\ result' = [o \in Owners |-> IF result[o] \in Waiting THEN "lost" ELSE result[o]]
  /\ UNCHANGED <<server, tasks, pipes, nextId, idOf, got>>

Next ==
  \/ \E t \in Tools, leg \in Legs : ToolConnects(t, leg)
  \/ \E c \in Calls : HandlerRuns(c)
  \/ \E o \in Owners : RequestTimesOut(o) \/ ServerAnswers(o)
  \/ WriterStep \/ ReaderStep \/ ReaderEnds
  \/ ServerAsks \/ ServerDies
  \/ Initialized \/ ShutdownAsked \/ CloseClient \/ Terminate \/ DaemonEnds

(* The timers of wait_for run, and the event loop runs what is ready.      *)
Fairness ==
  /\ \A c \in Calls : WF_vars(HandlerRuns(c))
  /\ \A o \in Owners : WF_vars(RequestTimesOut(o))
  /\ WF_vars(Initialized) /\ WF_vars(CloseClient)
  /\ WF_vars(Terminate) /\ WF_vars(DaemonEnds)

Spec == Init /\ [][Next]_vars /\ Fairness
-----------------------------------------------------------------------------
(* What a call gets is the answer to its own request, though answers come  *)
(* in any order, after the timeout of who asked, and among requests of the *)
(* server whose ids collide with those of the calls; and the calls that    *)
(* wait are exactly those an id in _pending can still end.                 *)
ReplyIsOwn == \A o \in Owners : result[o] = "answered" => got[o] = o
PendingIsWaiting == pending = {<<idOf[o], o>> : o \in {w \in Owners : result[w] = "waiting"}}
OneEach == \A p, q \in pending : p[1] = q[1] => p = q
RepliesMatch == ReplyIsOwn /\ PendingIsWaiting /\ OneEach

(* shutdown_and_exit stops its tasks before it asks: the language server   *)
(* never reads shutdown or exit, and the daemon waits for its timer.       *)
ShutdownUnheard ==
  /\ atServer \cap {Shutdown, Exit} = {}
  /\ result[Shutdown] \notin {"answered", "error"}

(* A call that was accepted ends, and a daemon that begins to close is     *)
(* gone in the end, whatever the language server does.                     *)
CallsEnd ==
  /\ \A c \in Calls : result[c] \in Waiting ~> result[c] \in Ended
  /\ daemon = "closing" ~> daemon = "down"
=============================================================================
