------------------------------- MODULE Router -------------------------------
(***************************************************************************)
(* rllm/router/router.py: the request router of the RL rollout engine.     *)
(* It spreads the completion requests of many applications (one per        *)
(* trajectory) over a fixed list of inference servers, keeps an            *)
(* application on its server for cache locality, and moves it when the     *)
(* servers are skewed.                                                     *)
(*                                                                         *)
(* get_address and release_address hold an asyncio lock and do not await   *)
(* inside it, so each is one atomic action.  A call of generate_sequences  *)
(* is GetAddress, then the polling of poll_completions_openai (up to       *)
(* MaxTries posts), then Release.  The release is not in a finally clause: *)
(* a call whose last post fails, or that is cancelled by the wait_for of   *)
(* the engine, ends without it.                                            *)
(***************************************************************************)
EXTENDS Integers, FiniteSets

CONSTANTS
  Apps,        (* application ids; the engine gives one to each trajectory  *)
  NumServers,  (* len(addresses); server s is the s-th address of the list  *)
  SkewLimit,   (* the usage difference that moves an application: 4         *)
  MaxTries,    (* max_retries of poll_completions_openai: 3                 *)
  MaxLost      (* bound: calls per server that may end without a release    *)

ASSUME RouterAssumption ==
  /\ IsFiniteSet(Apps)
  /\ NumServers \in Nat \ {0}
  /\ SkewLimit \in Nat \ {0}
  /\ MaxTries \in Nat \ {0}
  /\ MaxLost \in Nat

VARIABLES
  usage,    (* Router._usage                                                *)
  home,     (* Router._application_id_to_address, NoServer when absent      *)
  serving,  (* the server each application's call in progress was given     *)
  tries,    (* failed posts of that call                                    *)
  lost      (* history: calls of each server that ended without a release   *)

vars == <<usage, home, serving, tries, lost>>

Servers  == 1..NumServers
NoServer == 0

TypeOK ==
  /\ usage \in [Servers -> Nat]
  /\ home \in [Apps -> Servers \cup {NoServer}]
  /\ serving \in [Apps -> Servers \cup {NoServer}]
  /\ tries \in [Apps -> 0..(MaxTries - 1)]
  /\ lost \in [Servers -> Nat]

Init ==
  /\ usage = [s \in Servers |-> 0]
  /\ home = [a \in Apps |-> NoServer]
  /\ serving = [a \in Apps |-> NoServer]
  /\ tries = [a \in Apps |-> 0]
  /\ lost = [s \in Servers |-> 0]
-----------------------------------------------------------------------------
(* min(self._usage.items(), key=...): the first address of least usage.    *)
IsFirstLeast(s) ==
  /\ \A t \in Servers : usage[s] <= usage[t]
  /\ \A t \in Servers : t < s => usage[s] < usage[t]

LeastUsed == CHOOSE s \in Servers : IsFirstLeast(s)

(* The condition under which an application leaves its server.             *)
MustMove_evenIfIdle(a) ==
  \/ usage[LeastUsed] = 0
  \/ usage[home[a]] - usage[LeastUsed] >= SkewLimit

MustMove_lateByOne(a) ==
  /\ \/ usage[LeastUsed] = 0
     \/ usage[home[a]] - usage[LeastUsed] > SkewLimit
  /\ usage[home[a]] > 0

MustMove(a) ==
  /\ \/ usage[LeastUsed] = 0
     \/ usage[home[a]] - usage[LeastUsed] >= SkewLimit
  /\ usage[home[a]] > 0

(* The address get_address gives to a call of application a.               *)
Chosen(a) ==
  IF home[a] = NoServer \/ MustMove(a) THEN LeastUsed ELSE home[a]

(* The usage table after a call of a was given server s.                   *)
Charged_onlyNewApps(a, s) ==
  IF home[a] = NoServer THEN [usage EXCEPT ![s] = @ + 1] ELSE usage

Charged(a, s) == [usage EXCEPT ![s] = @ + 1]

GetAddress(a) ==
  /\ serving[a] = NoServer
  /\ LET s == Chosen(a) IN
       /\ home' = [home EXCEPT ![a] = s]
       /\ usage' = Charged(a, s)
       /\ serving' = [serving EXCEPT ![a] = s]
  /\ tries' = [tries EXCEPT ![a] = 0]
  /\ UNCHANGED lost

(* The post is answered; release_address follows with no await between.    *)
Release(a) ==
  /\ serving[a] # NoServer
  /\ usage' = [usage EXCEPT ![serving[a]] = IF @ > 0 THEN @ - 1 ELSE 0]
  /\ serving' = [serving EXCEPT ![a] = NoServer]
  /\ UNCHANGED <<home, tries, lost>>

(* The call ends in an exception: generate_sequences never reaches its     *)
(* release_address.                                                        *)
EndUnreleased(a) ==
  /\ lost[serving[a]] < MaxLost
  /\ lost' = [lost EXCEPT ![serving[a]] = @ + 1]
  /\ serving' = [serving EXCEPT ![a] = NoServer]
  /\ UNCHANGED <<usage, home, tries>>

(* A post fails: poll again after a delay ...                              *)
RetryPost_forever(a) ==
  /\ serving[a] # NoServer
  /\ tries' = [tries EXCEPT ![a] = (@ + 1) % MaxTries]
  /\ UNCHANGED <<usage, home, serving, lost>>

RetryPost_oneTooMany(a) ==
  /\ serving[a] # NoServer
  /\ tries[a] < MaxTries
  /\ tries' = [tries EXCEPT ![a] = @ + 1]
  /\ UNCHANGED <<usage, home, serving, lost>>

RetryPost(a) ==
  /\ serving[a] # NoServer
  /\ tries[a] < MaxTries - 1
  /\ tries' = [tries EXCEPT ![a] = @ + 1]
  /\ UNCHANGED <<usage, home, serving, lost>>

(* ... or, on the last try, raise.                                         *)
RaisePost(a) ==
  /\ serving[a] # NoServer
  /\ tries[a] = MaxTries - 1
  /\ EndUnreleased(a)

(* The engine's wait_for(..., timeout=7200) cancels the trajectory.        *)
Cancel(a) ==
  /\ serving[a] # NoServer
  /\ EndUnreleased(a)

Post(a) == Release(a) \/ RetryPost(a) \/ RaisePost(a)

Next == \E a \in Apps : GetAddress(a) \/ Post(a) \/ Cancel(a)

(* Every post has a total timeout of 2700 s, so it is answered or fails.   *)
Fairness == \A a \in Apps : WF_vars(Post(a))

Spec == Init /\ [][Next]_vars /\ Fairness
-----------------------------------------------------------------------------
InFlight(s) == {a \in Apps : serving[a] = s}

(* Safety: the usage the router balances on is exactly the calls in        *)
(* progress on the server plus those that ended without a release; in      *)
(* particular no interleaving of moves, failures and releases makes the    *)
(* router believe a busy server idle (router.py 96-118, 153-175).          *)
LoadAccounted ==
  \A s \in Servers : usage[s] = Cardinality(InFlight(s)) + lost[s]

(* Action property: a release takes exactly one off; the max(0, ...) of    *)
(* release_address (router.py:118) never hides a count that went wrong.    *)
ReleaseNeverClamps ==
  [][\A a \in Apps : Release(a) =>
        usage'[serving[a]] = usage[serving[a]] - 1]_vars

(* Action property: an application only ever moves to a server that is     *)
(* strictly less used than the one it leaves, so that it does not lose its *)
(* prefix cache for nothing (router.py 102-110).                           *)
MovesOnlyDownhill ==
  [][\A a \in Apps : home[a] # NoServer /\ home'[a] # home[a] =>
        usage[home'[a]] < usage[home[a]]]_vars

(* Action property: a call is never placed on a server that is SkewLimit   *)
(* or more above the least used one, and an idle server is never passed    *)
(* over (router.py 96-110), whatever the past failures left in the counts. *)
PlacementWithinSkew ==
  [][\A a \in Apps : serving[a] = NoServer /\ serving'[a] # NoServer =>
        LET s == serving'[a] IN
          /\ usage[s] - usage[LeastUsed] < SkewLimit
          /\ usage[LeastUsed] = 0 => usage[s] = 0]_vars

(* Both placement rules together.                                          *)
PlacementIsSound == MovesOnlyDownhill /\ PlacementWithinSkew

(* Liveness: the retry loop of poll_completions_openai is bounded, so      *)
(* every call ends, by an answer or by an exception (router.py 41-61).     *)
CallsEnd == \A a \in Apps : serving[a] # NoServer ~> serving[a] = NoServer

(* The comment of release_address, "Decrement the usage count for a server *)
(* address when done" (router.py:115), read as a promise: when no call is  *)
(* in progress no server is charged.                                       *)
IdleMeansUncharged ==
  (\A a \in Apps : serving[a] = NoServer) => \A s \in Servers : usage[s] = 0
=============================================================================
