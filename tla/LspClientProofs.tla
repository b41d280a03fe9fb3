-------------------------- MODULE LspClientProofs ---------------------------
(***************************************************************************)
(* Proofs about LspClient for any number of tools and any number of        *)
(* requests of the language server: types, RepliesMatch, ShutdownUnheard.  *)
(* The invariant adds what a message in flight carries (Numbered) and what *)
(* the daemon has stopped (Stopped).                                       *)
(***************************************************************************)
EXTENDS LspClient, TLAPS

(* Ids are given out once; a request in the queue, at the server or        *)
(* answered has one, and its answer carries it.                            *)
Numbered ==
  /\ \A o, p \in Owners : idOf[o] = idOf[p] /\ idOf[o] # 0 => o = p
  /\ \A o \in Owners : result[o] \in {"none", "connected"} => idOf[o] = 0
  /\ \A o \in Owners : result[o] = "waiting" => idOf[o] # 0
  /\ \A i \in 1..Len(writeQueue) : writeQueue[i] # Exit => idOf[writeQueue[i]] # 0
  /\ \A o \in atServer : o # Exit => idOf[o] # 0
  /\ \A i \in 1..Len(toClient) : toClient[i].of # Server =>
       toClient[i].id = idOf[toClient[i].of] /\ toClient[i].id # 0

(* Before it stops its tasks the daemon has not asked for a shutdown.      *)
Stopped ==
  /\ daemon \in {"starting", "serving", "closing"} => result[Shutdown] = "none"
  /\ daemon \in {"stopping", "terminated", "down"} => reader = "ended" /\ writer = "ended"
  /\ writer = "running" =>
       \A i \in 1..Len(writeQueue) : writeQueue[i] \notin {Shutdown, Exit}

Waits == \A p \in Nat \X Owners :
           p \in pending <=> result[p[2]] = "waiting" /\ p[1] = idOf[p[2]]

IInv == TypeOK /\ Numbered /\ Stopped /\ Waits /\ ReplyIsOwn /\ ShutdownUnheard

(* The names are different.                                                *)
LEMMA Names ==
  /\ Calls \subseteq Owners /\ Shutdown \in Owners \ Calls /\ Initialize \in Owners \ Calls
  /\ Initialize # Shutdown /\ Exit \notin Owners /\ Server \notin Owners
  BY LspAssumption DEF Calls, Owners, Shutdown, Initialize, Exit, Server, Legs

(* Where an element of a queue that grew, or shrank, was before.           *)
LEMMA Appended ==
  ASSUME NEW S, NEW s \in Seq(S), NEW e \in S
  PROVE  /\ Append(s, e) \in Seq(S)
         /\ \A i \in 1..Len(Append(s, e)) :
              \/ Append(s, e)[i] = e
              \/ (i \in 1..Len(s) /\ Append(s, e)[i] = s[i])
  OBVIOUS

LEMMA Shortened ==
  ASSUME NEW S, NEW s \in Seq(S), s # <<>>
  PROVE  /\ Head(s) \in S /\ 1 \in 1..Len(s) /\ Head(s) = s[1] /\ Tail(s) \in Seq(S)
         /\ \A i \in 1..Len(Tail(s)) : i + 1 \in 1..Len(s) /\ Tail(s)[i] = s[i + 1]
  OBVIOUS

(* What travels from the server has an id and belongs to someone.          *)
LEMMA InFlight ==
  ASSUME TypeOK, NEW i \in 1..Len(toClient)
  PROVE  toClient[i].id \in Nat /\ toClient[i].of \in Owners \cup {Server}
<1> DEFINE Message == [id : Nat, of : Owners \cup {Server}]
<1>1. toClient \in Seq(Message)
  BY DEF TypeOK
<1>2. toClient[i] \in Message
  <2> HIDE DEF Message
  <2> QED BY <1>1
<1> QED BY <1>2

(* The initial state satisfies the invariant.                              *)
LEMMA InitInvariant == Init => IInv
<1> SUFFICES ASSUME Init PROVE IInv
  OBVIOUS
<1> USE Names, LspAssumption
<1>1. TypeOK
  BY DEF Init, TypeOK, Waiting, Ended
<1>2. Numbered /\ Stopped
  BY DEF Init, Numbered, Stopped
<1>3. Waits
  BY DEF Init, Waits
<1>4. ReplyIsOwn /\ ShutdownUnheard
  BY DEF Init, ReplyIsOwn, ShutdownUnheard
<1> QED BY <1>1, <1>2, <1>3, <1>4 DEF IInv

(* Asking for something that was not asked before.                         *)
LEMMA SendInvariant ==
  ASSUME IInv, NEW o \in Owners, SendRequest(o),
         result[o] \in {"none", "connected"},
         o = Shutdown => writer' = "ended" /\ daemon' = "stopping",
         reader' \in {reader, "ended"}, writer' \in {writer, "ended"},
         daemon' = daemon \/ (daemon = "closing" /\ daemon' = "stopping" /\ o = Shutdown /\ reader' = "ended"),
         UNCHANGED <<server, atServer, toClient, asked>>
  PROVE  IInv'
<1> USE Names DEF IInv
<1>1. /\ idOf' = [idOf EXCEPT ![o] = nextId] /\ nextId' = nextId + 1
      /\ pending' = pending \cup {<<nextId, o>>}
      /\ writeQueue' = Append(writeQueue, o)
      /\ result' = [result EXCEPT ![o] = "waiting"]
      /\ got' = got
  BY DEF SendRequest
<1>2. idOf[o] = 0 /\ nextId \in Nat \ {0} /\ \A p \in Owners : idOf[p] < nextId
  BY DEF TypeOK, Numbered
<1>3. writeQueue' \in Seq(Owners \cup {Exit})
  BY <1>1, Appended DEF TypeOK
<1>4. TypeOK'
  BY <1>1, <1>2, <1>3 DEF TypeOK, Waiting
<1>5. Numbered'
  <2>1. \A i \in 1..Len(writeQueue') : writeQueue'[i] # Exit => idOf'[writeQueue'[i]] # 0
    BY <1>1, <1>2, Appended DEF TypeOK, Numbered
  <2>2. \A q \in atServer' : q # Exit => idOf'[q] # 0
    BY <1>1, <1>2 DEF TypeOK, Numbered
  <2>3. \A i \in 1..Len(toClient') : toClient'[i].of # Server =>
          toClient'[i].id = idOf'[toClient'[i].of] /\ toClient'[i].id # 0
    <3> SUFFICES ASSUME NEW i \in 1..Len(toClient), toClient[i].of # Server
                 PROVE  toClient[i].id = idOf'[toClient[i].of] /\ toClient[i].id # 0
      OBVIOUS
    <3>1. toClient[i].of \in Owners
      BY InFlight
    <3>2. toClient[i].id = idOf[toClient[i].of] /\ toClient[i].id # 0
      BY DEF Numbered
    <3> QED BY <3>1, <3>2, <1>1, <1>2 DEF TypeOK
  <2>4. \A p, q \in Owners : idOf'[p] = idOf'[q] /\ idOf'[p] # 0 => p = q
    BY <1>1, <1>2 DEF TypeOK, Numbered
  <2>5. \A p \in Owners : /\ result'[p] \in {"none", "connected"} => idOf'[p] = 0
                          /\ result'[p] = "waiting" => idOf'[p] # 0
    BY <1>1, <1>2 DEF TypeOK, Numbered
  <2> QED BY <2>1, <2>2, <2>3, <2>4, <2>5 DEF Numbered
<1>6. Stopped'
  <2>1. daemon' \in {"starting", "serving", "closing"} => result'[Shutdown] = "none"
    BY <1>1 DEF TypeOK, Stopped
  <2>2. daemon' \in {"stopping", "terminated", "down"} =>
          reader' = "ended" /\ writer' = "ended"
    BY DEF TypeOK, Stopped
  <2>3. ASSUME writer' = "running", NEW i \in 1..Len(writeQueue')
        PROVE  writeQueue'[i] \notin {Shutdown, Exit}
    <3>1. writer = "running" /\ o # Shutdown /\ o # Exit
      BY <2>3
    <3>2. writeQueue'[i] = o \/ (i \in 1..Len(writeQueue) /\ writeQueue'[i] = writeQueue[i])
      BY <1>1, <2>3, Appended DEF TypeOK
    <3> QED BY <3>1, <3>2 DEF Stopped
  <2> QED BY <2>1, <2>2, <2>3 DEF Stopped
<1>7. Waits'
  BY <1>1, <1>2 DEF TypeOK, Waits
<1>8. ReplyIsOwn' /\ ShutdownUnheard'
  BY <1>1 DEF TypeOK, ReplyIsOwn, ShutdownUnheard
<1> QED BY <1>4, <1>5, <1>6, <1>7, <1>8

(* A request that waits no more, and whatever else takes nothing up: the   *)
(* ids stay, and pending and result change together.                       *)
LEMMA EndInvariant ==
  ASSUME IInv, TypeOK', Waits', ReplyIsOwn', ShutdownUnheard',
         UNCHANGED <<daemon, writer, idOf, writeQueue, atServer>>,
         reader' \in {reader, "ended"},
         toClient' = toClient \/ (toClient # <<>> /\ toClient' = Tail(toClient)),
         \A o \in Owners :
           result'[o] = result[o] \/ (result[o] = "waiting" /\ result'[o] \in Ended)
  PROVE  IInv'
<1> USE Names DEF IInv
<1>1. \A i \in 1..Len(toClient') : \E j \in 1..Len(toClient) : toClient'[i] = toClient[j]
  <2> DEFINE Message == [id : Nat, of : Owners \cup {Server}]
  <2>1. toClient \in Seq(Message)
    BY DEF TypeOK
  <2> HIDE DEF Message
  <2>2. CASE toClient' = toClient
    BY <2>2
  <2>3. CASE toClient # <<>> /\ toClient' = Tail(toClient)
    BY <2>1, <2>3, Shortened
  <2> QED BY <2>2, <2>3
<1>2. \A i \in 1..Len(toClient') : toClient'[i].of # Server =>
          toClient'[i].id = idOf'[toClient'[i].of] /\ toClient'[i].id # 0
  BY <1>1 DEF Numbered
<1>3. Numbered'
  BY <1>2 DEF Numbered, Ended
<1>4. Stopped'
  BY DEF Stopped
<1> QED BY <1>3, <1>4

(* _fail_pending ends what waits, and nothing else.                        *)
LEMMA FailInvariant ==
  ASSUME IInv, FailPending
  PROVE  /\ pending' = {} /\ result' \in [Owners -> {"none"} \cup Waiting \cup Ended]
         /\ \A o \in Owners : result'[o] = IF result[o] = "waiting" THEN "failed" ELSE result[o]
<1> USE Names DEF IInv
<1>1. \A o \in Owners : result[o] = "waiting" => <<idOf[o], o>> \in pending
  BY DEF TypeOK, Waits
<1>2. \A o \in Owners : (\E p \in pending : p[2] = o) <=> result[o] = "waiting"
  BY <1>1 DEF TypeOK, Waits
<1> QED BY <1>2 DEF FailPending, TypeOK, Ended

(* What the server writes is an answer with its request's id, or a request *)
(* of its own.                                                             *)
LEMMA SentInvariant ==
  ASSUME IInv, NEW e \in [id : Nat, of : Owners \cup {Server}],
         e.of # Server => e.id = idOf[e.of] /\ e.id # 0,
         toClient' = Append(toClient, e),
         atServer' \subseteq atServer, asked' \in 0..MaxAsked,
         UNCHANGED <<daemon, server, reader, writer, writeQueue, nextId, idOf,
                     pending, result, got>>
  PROVE  IInv'
<1> USE Names DEF IInv
<1> DEFINE Message == [id : Nat, of : Owners \cup {Server}]
<1>1. toClient \in Seq(Message) /\ e \in Message
  BY DEF TypeOK
<1>2. /\ toClient' \in Seq(Message)
      /\ \A i \in 1..Len(toClient') :
           toClient'[i] = e \/ (i \in 1..Len(toClient) /\ toClient'[i] = toClient[i])
  <2> HIDE DEF Message
  <2> QED BY <1>1, Appended
<1>3. TypeOK'
  BY <1>2 DEF TypeOK
<1>4. \A i \in 1..Len(toClient') : toClient'[i].of # Server =>
        toClient'[i].id = idOf'[toClient'[i].of] /\ toClient'[i].id # 0
  BY <1>2 DEF Numbered
<1>5. Numbered'
  BY <1>4 DEF Numbered
<1>6. Stopped' /\ Waits' /\ ReplyIsOwn' /\ ShutdownUnheard'
  BY DEF Stopped, Waits, ReplyIsOwn, ShutdownUnheard
<1> QED BY <1>3, <1>5, <1>6

(* Every step preserves the invariant.                                     *)
LEMMA StepInvariant == IInv /\ [Next]_vars => IInv'
<1> SUFFICES ASSUME IInv, [Next]_vars PROVE IInv'
  OBVIOUS
<1> USE Names DEF IInv
<1>1. ASSUME NEW t \in Tools, NEW leg \in Legs, ToolConnects(t, leg) PROVE IInv'
  <2> DEFINE c == <<t, leg>>
  <2>1. c \in Calls /\ c \in Owners /\ c # Shutdown /\ result[c] = "none"
    BY <1>1 DEF Calls, ToolConnects
  <2>2. /\ UNCHANGED <<daemon, server, reader, writer, writeQueue, atServer, toClient,
                       asked, nextId, idOf, pending, got>>
        /\ \E r \in {"connected", "refused"} :
             result' = [result EXCEPT ![c] = r] /\ (r = "connected" => daemon = "serving")
    BY <1>1 DEF ToolConnects, tasks, pipes
  <2> HIDE DEF c
  <2>3. TypeOK'
    BY <2>1, <2>2 DEF TypeOK, Waiting, Ended
  <2>4. Numbered'
    BY <2>1, <2>2 DEF TypeOK, Numbered
  <2>5. Stopped' /\ Waits'
    BY <2>1, <2>2 DEF TypeOK, Stopped, Waits
  <2>6. ReplyIsOwn' /\ ShutdownUnheard'
    BY <2>1, <2>2 DEF TypeOK, ReplyIsOwn, ShutdownUnheard
  <2> QED BY <2>3, <2>4, <2>5, <2>6
<1>2. ASSUME NEW c \in Calls, HandlerRuns(c) PROVE IInv'
  <2>1. c \in Owners /\ c # Shutdown
    OBVIOUS
  <2> QED BY <1>2, <2>1, SendInvariant DEF HandlerRuns, tasks
<1>3. ASSUME NEW o \in Owners, RequestTimesOut(o) PROVE IInv'
  <2>1. /\ UNCHANGED <<daemon, server, reader, writer, writeQueue, atServer, toClient,
                       asked, nextId, idOf, got>>
        /\ result[o] = "waiting" /\ result' = [result EXCEPT ![o] = "timeout"]
        /\ pending' = pending \ {<<idOf[o], o>>}
    BY <1>3 DEF RequestTimesOut, tasks, pipes
  <2>2. TypeOK'
    BY <2>1 DEF TypeOK, Waiting, Ended
  <2>3. Waits'
    <3>1. \A p \in Nat \X Owners : p = <<p[1], p[2]>> /\ p[2] \in Owners
      OBVIOUS
    <3>2. \A p \in Nat \X Owners : p[2] # o => (p \in pending' <=> p \in pending)
      BY <2>1, <3>1
    <3>3. \A p \in Nat \X Owners : p[2] = o => p \notin pending'
      BY <2>1, <3>1 DEF Waits
    <3>4. /\ \A q \in Owners : result'[q] = IF q = o THEN "timeout" ELSE result[q]
          /\ idOf' = idOf
      BY <2>1 DEF TypeOK
    <3> QED BY <3>1, <3>2, <3>3, <3>4 DEF Waits
  <2>4. ReplyIsOwn' /\ ShutdownUnheard'
    BY <2>1 DEF TypeOK, ReplyIsOwn, ShutdownUnheard
  <2>5. \A p \in Owners : result'[p] = result[p] \/ (result[p] = "waiting" /\ result'[p] \in Ended)
    BY <2>1 DEF TypeOK, Ended
  <2> QED BY <2>1, <2>2, <2>3, <2>4, <2>5, EndInvariant
<1>4. CASE WriterStep
  <2>1. /\ writer = "running" /\ writeQueue # <<>> /\ writeQueue' = Tail(writeQueue)
        /\ UNCHANGED <<daemon, server, reader, toClient, asked, nextId, idOf, got>>
        /\ atServer' \in {atServer, atServer \cup {Head(writeQueue)}}
        /\ writer' \in {writer, "ended"}
        /\ \/ UNCHANGED <<pending, result>>
           \/ FailPending
    BY <1>4 DEF WriterStep
  <2>2. /\ Head(writeQueue) \in Owners \cup {Exit} /\ Head(writeQueue) \notin {Shutdown, Exit}
        /\ idOf[Head(writeQueue)] # 0
        /\ writeQueue' \in Seq(Owners \cup {Exit})
        /\ \A i \in 1..Len(writeQueue') :
             i + 1 \in 1..Len(writeQueue) /\ writeQueue'[i] = writeQueue[i + 1]
    BY <2>1, Shortened DEF TypeOK, Stopped, Numbered
  <2>3. /\ pending' \subseteq Nat \X Owners
        /\ result' \in [Owners -> {"none"} \cup Waiting \cup Ended]
        /\ \A o \in Owners : result'[o] = result[o] \/ (result[o] = "waiting" /\ result'[o] = "failed")
        /\ Waits'
    BY <2>1, FailInvariant DEF TypeOK, Waits
  <2>4. TypeOK'
    BY <2>1, <2>2, <2>3 DEF TypeOK
  <2>5. Numbered'
    <3>1. \A i \in 1..Len(writeQueue') : writeQueue'[i] # Exit => idOf'[writeQueue'[i]] # 0
      BY <2>1, <2>2 DEF Numbered
    <3>2. \A q \in atServer' : q # Exit => idOf'[q] # 0
      BY <2>1, <2>2 DEF Numbered
    <3>3. \A i \in 1..Len(toClient') : toClient'[i].of # Server =>
            toClient'[i].id = idOf'[toClient'[i].of] /\ toClient'[i].id # 0
      BY <2>1 DEF Numbered
    <3>4. \A o \in Owners : /\ result'[o] \in {"none", "connected"} => idOf'[o] = 0
                            /\ result'[o] = "waiting" => idOf'[o] # 0
      BY <2>1, <2>3 DEF Numbered
    <3> QED BY <2>1, <3>1, <3>2, <3>3, <3>4 DEF Numbered
  <2>6. Stopped'
    BY <2>1, <2>2, <2>3 DEF Stopped
  <2>7. ReplyIsOwn' /\ ShutdownUnheard'
    BY <2>1, <2>2, <2>3 DEF ReplyIsOwn, ShutdownUnheard
  <2> QED BY <2>3, <2>4, <2>5, <2>6, <2>7
<1>5. CASE ReaderStep
  <2> DEFINE m == Head(toClient)
             took(o) == <<m.id, o>> \in pending
  <2>1. /\ reader = "running" /\ toClient # <<>> /\ toClient' = Tail(toClient)
        /\ UNCHANGED <<daemon, server, reader, writer, writeQueue, atServer, asked, nextId, idOf>>
    BY <1>5 DEF ReaderStep, tasks
  <2>2. /\ 1 \in 1..Len(toClient) /\ m = toClient[1]
        /\ m.id \in Nat /\ m.of \in Owners \cup {Server}
    <3>1. 1 \in 1..Len(toClient) /\ m = toClient[1]
      BY <2>1 DEF TypeOK
    <3> HIDE DEF m
    <3>2. toClient[1].id \in Nat /\ toClient[1].of \in Owners \cup {Server}
      BY <3>1, InFlight
    <3> QED BY <3>1, <3>2
  <2>3. \A o \in Owners : took(o) <=> \E p \in Pop(m.id) : p[2] = o
    <3>1. \A p \in pending : p[1] \in Nat /\ p[2] \in Owners /\ p = <<p[1], p[2]>>
      BY DEF TypeOK
    <3> HIDE DEF m
    <3> QED BY <3>1 DEF Pop
  <2>4. /\ pending' = pending \ Pop(m.id)
        /\ result' = [o \in Owners |-> IF ~\E p \in Pop(m.id) : p[2] = o THEN result[o]
                                        ELSE IF m.of = Server THEN "error" ELSE "answered"]
        /\ got' = [o \in Owners |-> IF \E p \in Pop(m.id) : p[2] = o THEN m.of ELSE got[o]]
    BY <1>5 DEF ReaderStep
  <2>5. \A o \in Owners : took(o) <=> result[o] = "waiting" /\ m.id = idOf[o]
    BY <2>2 DEF Waits, TypeOK
  <2>6. \A o \in Owners :
          /\ result'[o] = IF took(o) THEN IF m.of = Server THEN "error" ELSE "answered"
                          ELSE result[o]
          /\ got'[o] = IF took(o) THEN m.of ELSE got[o]
    BY <2>3, <2>4
  <2>7. \A o \in Owners : took(o) /\ m.of # Server => m.of = o
    BY <2>2, <2>5 DEF Numbered
  <2> HIDE DEF m
  <2>8. TypeOK'
    <3>1. toClient' \in Seq([id : Nat, of : Owners \cup {Server}])
      <4> DEFINE Message == [id : Nat, of : Owners \cup {Server}]
      <4>1. toClient \in Seq(Message)
        BY DEF TypeOK
      <4> HIDE DEF Message
      <4>2. toClient' \in Seq(Message)
        BY <4>1, <2>1, Shortened
      <4> QED BY <4>2 DEF Message
    <3>2. /\ result' \in [Owners -> {"none"} \cup Waiting \cup Ended]
          /\ got' \in [Owners -> Owners \cup {Server, Nobody}]
      BY <2>2, <2>4 DEF TypeOK, Ended
    <3>3. pending' \subseteq Nat \X Owners
      BY <2>4 DEF TypeOK
    <3> QED BY <2>1, <3>1, <3>2, <3>3 DEF TypeOK
  <2>9. Waits'
    BY <2>1, <2>2, <2>4, <2>5, <2>6 DEF Waits, Pop, TypeOK
  <2>10. ReplyIsOwn' /\ ShutdownUnheard'
    <3>1. ReplyIsOwn'
      BY <2>2, <2>6, <2>7 DEF ReplyIsOwn
    <3>2. result[Shutdown] # "waiting"
      BY <2>1 DEF Stopped, TypeOK
    <3>3. ShutdownUnheard'
      BY <2>1, <2>5, <2>6, <3>2 DEF ShutdownUnheard
    <3> QED BY <3>1, <3>3
  <2>11. \A o \in Owners : result'[o] = result[o] \/ (result[o] = "waiting" /\ result'[o] \in Ended)
    BY <2>5, <2>6 DEF Ended
  <2> QED BY <2>1, <2>8, <2>9, <2>10, <2>11, EndInvariant
<1>6. CASE ReaderEnds
  <2>1. /\ UNCHANGED <<daemon, server, writer, writeQueue, atServer, toClient, asked, nextId, idOf, got>>
        /\ reader' = "ended"
        /\ \/ UNCHANGED <<pending, result>>
           \/ FailPending
    BY <1>6 DEF ReaderEnds, pipes
  <2>2. /\ pending' \subseteq Nat \X Owners
        /\ result' \in [Owners -> {"none"} \cup Waiting \cup Ended]
        /\ \A o \in Owners : result'[o] = result[o] \/ (result[o] = "waiting" /\ result'[o] = "failed")
        /\ Waits'
    BY <2>1, FailInvariant DEF TypeOK, Waits
  <2>3. TypeOK'
    BY <2>1, <2>2 DEF TypeOK
  <2>4. ReplyIsOwn' /\ ShutdownUnheard'
    BY <2>1, <2>2 DEF ReplyIsOwn, ShutdownUnheard
  <2>5. \A o \in Owners : result'[o] = result[o] \/ (result[o] = "waiting" /\ result'[o] \in Ended)
    BY <2>2 DEF Ended
  <2> QED BY <2>1, <2>2, <2>3, <2>4, <2>5, EndInvariant
<1>7. ASSUME NEW o \in Owners, ServerAnswers(o) PROVE IInv'
  <2> DEFINE e == [id |-> idOf[o], of |-> o]
  <2>1. /\ UNCHANGED <<daemon, server, reader, writer, writeQueue, asked, nextId, idOf,
                       pending, result, got>>
        /\ o \in atServer /\ atServer' = atServer \ {o}
        /\ toClient' = Append(toClient, e)
    BY <1>7 DEF ServerAnswers, tasks, calls
  <2>2. e \in [id : Nat, of : Owners \cup {Server}] /\ e.id = idOf[e.of] /\ e.id # 0
    BY <2>1 DEF TypeOK, Numbered
  <2>3. atServer' \subseteq atServer /\ asked' \in 0..MaxAsked
    BY <2>1 DEF TypeOK
  <2> HIDE DEF e
  <2> QED BY <2>1, <2>2, <2>3, SentInvariant
<1>8. CASE ServerAsks
  <2> DEFINE e == [id |-> asked, of |-> Server]
  <2>1. /\ UNCHANGED <<daemon, server, reader, writer, writeQueue, atServer, nextId, idOf,
                       pending, result, got>>
        /\ asked' \in 0..MaxAsked
        /\ toClient' = Append(toClient, e)
    BY <1>8, LspAssumption DEF ServerAsks, tasks, calls, TypeOK
  <2>2. e \in [id : Nat, of : Owners \cup {Server}] /\ e.of = Server
    BY DEF TypeOK
  <2> QED BY <2>1, <2>2, SentInvariant DEF TypeOK
<1>9. CASE ServerDies
  <2>1. /\ server' = "dead" /\ atServer' = {}
        /\ UNCHANGED <<daemon, reader, writer, writeQueue, toClient, asked, calls>>
    BY <1>9 DEF ServerDies, tasks
  <2> QED BY <2>1 DEF calls, TypeOK, Numbered, Stopped, Waits, ReplyIsOwn, ShutdownUnheard
<1>10. CASE Initialized \/ ShutdownAsked
  <2>1. /\ UNCHANGED <<server, reader, writer, writeQueue, atServer, toClient, asked, calls>>
        /\ daemon \in {"starting", "serving"} /\ daemon' \in {"serving", "closing"}
    BY <1>10 DEF Initialized, ShutdownAsked, tasks, pipes
  <2> QED BY <2>1 DEF calls, TypeOK, Numbered, Stopped, Waits, ReplyIsOwn, ShutdownUnheard
<1>11. CASE CloseClient
  <2>1. CASE server = "up"
    <3>1. result[Shutdown] = "none"
      BY <1>11 DEF CloseClient, Stopped
    <3> QED BY <1>11, <2>1, <3>1, SendInvariant DEF CloseClient
  <2>2. CASE server # "up"
    <3>1. /\ reader' = "ended" /\ writer' = "ended" /\ daemon' = "terminated"
          /\ UNCHANGED <<server, writeQueue, atServer, toClient, asked, calls>>
      BY <1>11, <2>2 DEF CloseClient
    <3> QED BY <3>1 DEF calls, TypeOK, Numbered, Stopped, Waits, ReplyIsOwn, ShutdownUnheard
  <2> QED BY <2>1, <2>2
<1>12. CASE Terminate
  <2>1. /\ daemon = "stopping" /\ daemon' = "terminated" /\ server' = "dead" /\ atServer' = {}
        /\ writeQueue' = Append(writeQueue, Exit)
        /\ UNCHANGED <<reader, writer, toClient, asked, calls>>
    BY <1>12 DEF Terminate, tasks
  <2>2. /\ writeQueue' \in Seq(Owners \cup {Exit})
        /\ \A i \in 1..Len(writeQueue') :
             \/ writeQueue'[i] = Exit
             \/ (i \in 1..Len(writeQueue) /\ writeQueue'[i] = writeQueue[i])
    BY <2>1, Appended DEF TypeOK
  <2>3. TypeOK'
    BY <2>1, <2>2 DEF TypeOK, calls
  <2>4. Numbered'
    BY <2>1, <2>2 DEF Numbered, calls
  <2>5. Stopped' /\ Waits' /\ ReplyIsOwn' /\ ShutdownUnheard'
    BY <2>1 DEF calls, TypeOK, Stopped, Waits, ReplyIsOwn, ShutdownUnheard
  <2> QED BY <2>3, <2>4, <2>5
<1>13. CASE DaemonEnds
  <2>1. /\ daemon = "terminated" /\ daemon' = "down" /\ pending' = {}
        /\ result' = [o \in Owners |-> IF result[o] \in Waiting THEN "lost" ELSE result[o]]
        /\ UNCHANGED <<server, reader, writer, writeQueue, atServer, toClient, asked, nextId, idOf, got>>
    BY <1>13 DEF DaemonEnds, tasks, pipes
  <2>2. \A o \in Owners : result'[o] = IF result[o] \in {"connected", "waiting"} THEN "lost" ELSE result[o]
    BY <2>1 DEF Waiting
  <2>3. TypeOK'
    BY <2>1 DEF TypeOK, Ended
  <2>4. Numbered'
    BY <2>1, <2>2 DEF Numbered
  <2>5. Stopped' /\ Waits'
    BY <2>1, <2>2 DEF TypeOK, Stopped, Waits
  <2>6. ReplyIsOwn' /\ ShutdownUnheard'
    BY <2>1, <2>2 DEF TypeOK, ReplyIsOwn, ShutdownUnheard
  <2> QED BY <2>3, <2>4, <2>5, <2>6
<1>14. CASE UNCHANGED vars
  BY <1>14 DEF vars, tasks, pipes, calls, TypeOK, Numbered, Stopped, Waits, ReplyIsOwn, ShutdownUnheard
<1> QED
  BY <1>1, <1>2, <1>3, <1>4, <1>5, <1>6, <1>7, <1>8, <1>9, <1>10, <1>11, <1>12, <1>13, <1>14
  DEF Next

(* Every reachable state satisfies the invariant.                          *)
THEOREM LspInvariant == Spec => []IInv
<1> QED BY InitInvariant, StepInvariant, PTL DEF Spec

(* Every reachable state of the daemon has its type.                       *)
THEOREM TypeCorrect == Spec => []TypeOK
<1>1. IInv => TypeOK
  BY DEF IInv
<1> QED BY LspInvariant, <1>1, PTL

(* A call gets the answer to its own request whatever order the answers    *)
(* come in, after timeouts and among the server's own requests, and the    *)
(* calls that wait are those _pending can end.                             *)
THEOREM RepliesAreMatched == Spec => []RepliesMatch
<1>1. IInv => RepliesMatch
  <2> SUFFICES ASSUME IInv PROVE RepliesMatch
    OBVIOUS
  <2> USE DEF IInv
  <2>1. \A p \in pending : /\ p[1] \in Nat /\ p[2] \in Owners /\ p = <<p[1], p[2]>>
                           /\ result[p[2]] = "waiting" /\ p[1] = idOf[p[2]]
    BY DEF TypeOK, Waits
  <2>2. PendingIsWaiting
    <3>1. \A o \in Owners : result[o] = "waiting" => <<idOf[o], o>> \in pending
      BY DEF TypeOK, Waits
    <3> QED BY <2>1, <3>1 DEF PendingIsWaiting
  <2>3. OneEach
    BY <2>1 DEF OneEach, Numbered
  <2> QED BY <2>2, <2>3 DEF RepliesMatch
<1> QED BY LspInvariant, <1>1, PTL

(* The language server never reads shutdown or exit, and shutdown is never *)
(* answered: shutdown_and_exit stops its tasks first.                      *)
THEOREM ShutdownIsUnheard == Spec => []ShutdownUnheard
<1>1. IInv => ShutdownUnheard
  BY DEF IInv
<1> QED BY LspInvariant, <1>1, PTL
=============================================================================
