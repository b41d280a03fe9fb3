---------------------------- MODULE RouterProofs ----------------------------
(***************************************************************************)
(* Proofs about the router: its type invariant, the accounting invariant   *)
(* that relates its usage table to the calls in progress, and the action   *)
(* properties that follow from them, for every set of applications, number *)
(* of servers, skew limit, number of tries and number of lost calls.       *)
(***************************************************************************)
EXTENDS Router, FiniteSetTheorems, WellFoundedInduction, TLAPS

(* A nonempty set of natural numbers has a least element.                  *)
LEMMA LeastNat ==
  ASSUME NEW T \in SUBSET Nat, T # {}
  PROVE  \E m \in T : \A n \in T : m <= n
<1>1. PICK m \in T : \A n \in T : ~ (<<n, m>> \in OpToRel(<, Nat))
  BY WFMin, NatLessThanWellFounded, Zenon
<1>2. \A n \in T : ~ (n < m)
  BY <1>1, Zenon DEF OpToRel
<1>3. \A n \in T : m <= n
  BY <1>2
<1> QED
  BY <1>3

(* min(self._usage.items()) exists: there is at least one server, and the  *)
(* usages are natural numbers.                                             *)
LEMMA LeastUsedIsFirst ==
  ASSUME usage \in [Servers -> Nat]
  PROVE  LeastUsed \in Servers /\ IsFirstLeast(LeastUsed)
<1> DEFINE U == {usage[s] : s \in Servers}
<1>1. U \in SUBSET Nat /\ U # {}
  BY RouterAssumption, 1 \in Servers DEF Servers
<1>2. PICK u \in U : \A v \in U : u <= v
  BY <1>1, LeastNat
<1> DEFINE M == {s \in Servers : usage[s] = u}
<1>3. M \in SUBSET Nat /\ M # {}
  BY <1>2 DEF Servers
<1>4. PICK m \in M : \A s \in M : m <= s
  BY <1>3, LeastNat
<1>5. \A t \in Servers : usage[m] <= usage[t]
  BY <1>2, <1>4
<1>6. ASSUME NEW t \in Servers, t < m
      PROVE  usage[m] < usage[t]
  <2>1. t \notin M
    BY <1>4, <1>6 DEF Servers
  <2> QED
    BY <2>1, <1>2, <1>4
<1>7. m \in Servers /\ IsFirstLeast(m)
  BY <1>4, <1>5, <1>6 DEF IsFirstLeast
<1> QED
  BY <1>7 DEF LeastUsed

(* get_address always returns one of the servers.                          *)
LEMMA ChosenIsServer ==
  ASSUME TypeOK, NEW a \in Apps
  PROVE  Chosen(a) \in Servers
BY LeastUsedIsFirst DEF Chosen, TypeOK, NoServer, Servers
-----------------------------------------------------------------------------
(* The inductive invariant: types and the accounting of the usage table.   *)
RouterInv == TypeOK /\ LoadAccounted

LEMMA InitInv == Init => RouterInv
<1> SUFFICES ASSUME Init PROVE RouterInv
  OBVIOUS
<1>1. TypeOK
  BY RouterAssumption DEF Init, TypeOK, Servers, NoServer
<1>2. \A s \in Servers : InFlight(s) = {}
  BY DEF Init, InFlight, Servers, NoServer
<1>3. LoadAccounted
  BY <1>2, FS_EmptySet DEF LoadAccounted, Init
<1> QED
  BY <1>1, <1>3 DEF RouterInv

(* The calls in progress on a server form a finite set.                    *)
LEMMA InFlightFinite ==
  ASSUME NEW s
  PROVE  IsFiniteSet(InFlight(s)) /\ Cardinality(InFlight(s)) \in Nat
<1>1. InFlight(s) \in SUBSET Apps
  BY DEF InFlight
<1>2. IsFiniteSet(InFlight(s))
  BY <1>1, FS_Subset, RouterAssumption
<1> QED
  BY <1>2, FS_CardinalityType

(* An application that starts a call joins the calls of its server only.   *)
LEMMA InFlightStart ==
  ASSUME TypeOK, NEW a \in Apps, NEW t \in Servers,
         serving[a] = NoServer, serving' = [serving EXCEPT ![a] = t],
         NEW s \in Servers
  PROVE  Cardinality(InFlight(s)') =
           IF s = t THEN Cardinality(InFlight(s)) + 1 ELSE Cardinality(InFlight(s))
<1>1. a \notin InFlight(s)
  BY DEF InFlight, Servers, NoServer
<1>2. CASE s = t
  <2>1. InFlight(s)' = InFlight(s) \cup {a}
    BY <1>2 DEF InFlight, TypeOK
  <2> QED
    BY <2>1, <1>1, <1>2, InFlightFinite, FS_AddElement
<1>3. CASE s # t
  <2>1. InFlight(s)' = InFlight(s)
    BY <1>3, <1>1 DEF InFlight, TypeOK
  <2> QED
    BY <2>1, <1>3
<1> QED
  BY <1>2, <1>3

(* A call that ends, released or not, leaves the calls of its server only. *)
LEMMA InFlightEnd ==
  ASSUME TypeOK, NEW a \in Apps, serving[a] # NoServer,
         serving' = [serving EXCEPT ![a] = NoServer],
         NEW s \in Servers
  PROVE  Cardinality(InFlight(s)') =
           IF s = serving[a] THEN Cardinality(InFlight(s)) - 1
                             ELSE Cardinality(InFlight(s))
<1>1. CASE s = serving[a]
  <2>1. InFlight(s)' = InFlight(s) \ {a} /\ a \in InFlight(s)
    BY <1>1 DEF InFlight, TypeOK, Servers, NoServer
  <2> QED
    BY <2>1, <1>1, InFlightFinite, FS_RemoveElement
<1>2. CASE s # serving[a]
  <2>1. InFlight(s)' = InFlight(s)
    BY <1>2 DEF InFlight, TypeOK, Servers, NoServer
  <2> QED
    BY <2>1, <1>2
<1> QED
  BY <1>1, <1>2

(* A server with a call in progress has a usage of at least one: this is   *)
(* why the max(0, ...) of release_address is never needed.                 *)
LEMMA BusyIsCharged ==
  ASSUME RouterInv, NEW a \in Apps, serving[a] # NoServer
  PROVE  serving[a] \in Servers /\ usage[serving[a]] > 0
<1>1. serving[a] \in Servers
  BY DEF RouterInv, TypeOK
<1>2. InFlight(serving[a]) # {}
  BY DEF InFlight
<1>3. Cardinality(InFlight(serving[a])) > 0
  BY <1>2, InFlightFinite, FS_EmptySet
<1>4. usage[serving[a]] = Cardinality(InFlight(serving[a])) + lost[serving[a]]
  BY <1>1 DEF RouterInv, LoadAccounted
<1>5. lost[serving[a]] \in Nat
  BY <1>1 DEF RouterInv, TypeOK
<1> QED
  BY <1>1, <1>3, <1>4, <1>5, InFlightFinite

LEMMA NextInv == RouterInv /\ [Next]_vars => RouterInv'
<1> SUFFICES ASSUME RouterInv, [Next]_vars
             PROVE  RouterInv'
  OBVIOUS
<1>a. TypeOK /\ LoadAccounted
  BY DEF RouterInv
<1>1. ASSUME NEW a \in Apps, GetAddress(a)
      PROVE  RouterInv'
  <2> DEFINE t == Chosen(a)
  <2>1. t \in Servers
    BY <1>a, ChosenIsServer
  <2>2. TypeOK'
    BY <1>1, <1>a, <2>1, RouterAssumption DEF GetAddress, TypeOK, Charged
  <2>3. ASSUME NEW s \in Servers
        PROVE  usage'[s] = Cardinality(InFlight(s)') + lost'[s]
    <3>1. Cardinality(InFlight(s)') =
            IF s = t THEN Cardinality(InFlight(s)) + 1 ELSE Cardinality(InFlight(s))
      BY <1>1, <1>a, <2>1, InFlightStart DEF GetAddress
    <3>2. usage'[s] = IF s = t THEN usage[s] + 1 ELSE usage[s]
      BY <1>1, <1>a, <2>1 DEF GetAddress, Charged, TypeOK
    <3>3. usage[s] = Cardinality(InFlight(s)) + lost[s] /\ lost[s] \in Nat
      BY <1>a DEF LoadAccounted, TypeOK
    <3> QED
      BY <1>1, <3>1, <3>2, <3>3, InFlightFinite DEF GetAddress
  <2> QED
    BY <2>2, <2>3 DEF RouterInv, LoadAccounted
<1>2. ASSUME NEW a \in Apps, Release(a)
      PROVE  RouterInv'
  <2>1. serving[a] \in Servers /\ usage[serving[a]] > 0
    BY <1>2, BusyIsCharged DEF Release
  <2>2. TypeOK'
    BY <1>2, <1>a, <2>1 DEF Release, TypeOK
  <2>3. ASSUME NEW s \in Servers
        PROVE  usage'[s] = Cardinality(InFlight(s)') + lost'[s]
    <3>1. Cardinality(InFlight(s)') =
            IF s = serving[a] THEN Cardinality(InFlight(s)) - 1
                              ELSE Cardinality(InFlight(s))
      BY <1>2, <1>a, InFlightEnd DEF Release
    <3>2. usage'[s] = IF s = serving[a] THEN usage[s] - 1 ELSE usage[s]
      BY <1>2, <1>a, <2>1 DEF Release, TypeOK
    <3>3. usage[s] = Cardinality(InFlight(s)) + lost[s] /\ lost[s] \in Nat
      BY <1>a DEF LoadAccounted, TypeOK
    <3> QED
      BY <1>2, <3>1, <3>2, <3>3, InFlightFinite DEF Release
  <2> QED
    BY <2>2, <2>3 DEF RouterInv, LoadAccounted
<1>3. ASSUME NEW a \in Apps, serving[a] # NoServer, EndUnreleased(a)
      PROVE  RouterInv'
  <2>1. serving[a] \in Servers
    BY <1>3, <1>a DEF TypeOK
  <2>2. TypeOK'
    BY <1>3, <1>a, <2>1 DEF EndUnreleased, TypeOK
  <2>3. ASSUME NEW s \in Servers
        PROVE  usage'[s] = Cardinality(InFlight(s)') + lost'[s]
    <3>1. Cardinality(InFlight(s)') =
            IF s = serving[a] THEN Cardinality(InFlight(s)) - 1
                              ELSE Cardinality(InFlight(s))
      BY <1>3, <1>a, InFlightEnd DEF EndUnreleased
    <3>2. lost'[s] = IF s = serving[a] THEN lost[s] + 1 ELSE lost[s]
      BY <1>3, <1>a, <2>1 DEF EndUnreleased, TypeOK
    <3>3. usage[s] = Cardinality(InFlight(s)) + lost[s] /\ lost[s] \in Nat
      BY <1>a DEF LoadAccounted, TypeOK
    <3> QED
      BY <1>3, <3>1, <3>2, <3>3, InFlightFinite DEF EndUnreleased
  <2> QED
    BY <2>2, <2>3 DEF RouterInv, LoadAccounted
<1>4. ASSUME NEW a \in Apps, RetryPost(a)
      PROVE  RouterInv'
  <2>1. TypeOK'
    BY <1>4, <1>a, RouterAssumption DEF RetryPost, TypeOK
  <2>2. LoadAccounted'
    BY <1>4, <1>a DEF RetryPost, LoadAccounted, InFlight
  <2> QED
    BY <2>1, <2>2 DEF RouterInv
<1>5. CASE UNCHANGED vars
  BY <1>5, <1>a DEF vars, RouterInv, TypeOK, LoadAccounted, InFlight
<1> QED
  BY <1>1, <1>2, <1>3, <1>4, <1>5 DEF Next, Post, RaisePost, Cancel

(* Spec => [](types and accounting), for every value of the constants.     *)
THEOREM RouterInvariant == Spec => []RouterInv
<1>1. Init => RouterInv
  BY InitInv
<1>2. RouterInv /\ [Next]_vars => RouterInv'
  BY NextInv
<1> QED
  BY <1>1, <1>2, PTL DEF Spec

(* The variables of the router keep their types.                           *)
THEOREM TypeCorrect == Spec => []TypeOK
<1>1. RouterInv => TypeOK
  BY DEF RouterInv
<1> QED
  BY <1>1, RouterInvariant, PTL

(* The usage table is the calls in progress plus the unreleased ones       *)
(* (router.py 96-118, 153-175).                                            *)
THEOREM LoadIsAccounted == Spec => []LoadAccounted
<1>1. RouterInv => LoadAccounted
  BY DEF RouterInv
<1> QED
  BY <1>1, RouterInvariant, PTL
-----------------------------------------------------------------------------
(* release_address always takes exactly one off (router.py 118).           *)
THEOREM NoClampingRelease == Spec => ReleaseNeverClamps
<1> DEFINE OneOff == \A a \in Apps : Release(a) =>
                        usage'[serving[a]] = usage[serving[a]] - 1
<1>1. RouterInv /\ [Next]_vars => [OneOff]_vars
  <2> SUFFICES ASSUME RouterInv, NEW a \in Apps, Release(a)
               PROVE  usage'[serving[a]] = usage[serving[a]] - 1
    OBVIOUS
  <2>1. serving[a] \in Servers /\ usage[serving[a]] > 0
    BY BusyIsCharged DEF Release
  <2> QED
    BY <2>1 DEF Release, RouterInv, TypeOK
<1> QED
  BY <1>1, RouterInvariant, PTL DEF Spec, ReleaseNeverClamps

(* A step changes the home of an application only by get_address.          *)
LEMMA OnlyGetAddressMoves ==
  ASSUME [Next]_vars, NEW a \in Apps, TypeOK,
         home'[a] # home[a] \/ (serving[a] = NoServer /\ serving'[a] # NoServer)
  PROVE  GetAddress(a) /\ home'[a] = Chosen(a) /\ serving'[a] = Chosen(a)
<1>1. ASSUME NEW b \in Apps, GetAddress(b)
      PROVE  GetAddress(a)
  BY <1>1 DEF GetAddress, TypeOK
<1>2. ASSUME NEW b \in Apps, Post(b) \/ Cancel(b)
      PROVE  FALSE
  BY <1>2 DEF Post, Cancel, Release, RetryPost, RaisePost, EndUnreleased, TypeOK
<1>3. GetAddress(a)
  BY <1>1, <1>2 DEF Next, vars
<1> QED
  BY <1>3 DEF GetAddress, TypeOK

(* An application moves only to a strictly less used server                *)
(* (router.py 102-110).                                                    *)
THEOREM DownhillMoves == Spec => MovesOnlyDownhill
<1> DEFINE Downhill == \A a \in Apps :
              home[a] # NoServer /\ home'[a] # home[a] =>
                usage[home'[a]] < usage[home[a]]
<1>1. RouterInv /\ [Next]_vars => [Downhill]_vars
  <2> SUFFICES ASSUME RouterInv, [Next]_vars, NEW a \in Apps,
                      home[a] # NoServer, home'[a] # home[a]
               PROVE  usage[home'[a]] < usage[home[a]]
    OBVIOUS
  <2>1. TypeOK
    BY DEF RouterInv
  <2>2. home'[a] = Chosen(a)
    BY <2>1, OnlyGetAddressMoves
  <2>3. MustMove(a) /\ home'[a] = LeastUsed
    BY <2>2 DEF Chosen
  <2>4. LeastUsed \in Servers /\ home[a] \in Servers
    BY <2>1, LeastUsedIsFirst DEF TypeOK
  <2>5. usage[LeastUsed] \in Nat /\ usage[home[a]] \in Nat
    BY <2>1, <2>4 DEF TypeOK
  <2> QED
    BY <2>3, <2>5, RouterAssumption DEF MustMove
<1> QED
  BY <1>1, RouterInvariant, PTL DEF Spec, MovesOnlyDownhill

(* A call is placed within the skew limit, and on an idle server when      *)
(* there is one (router.py 96-110).                                        *)
THEOREM SkewBound == Spec => PlacementWithinSkew
<1> DEFINE Within == \A a \in Apps :
              serving[a] = NoServer /\ serving'[a] # NoServer =>
                LET s == serving'[a] IN
                  /\ usage[s] - usage[LeastUsed] < SkewLimit
                  /\ usage[LeastUsed] = 0 => usage[s] = 0
<1>1. RouterInv /\ [Next]_vars => [Within]_vars
  <2> SUFFICES ASSUME RouterInv, [Next]_vars, NEW a \in Apps,
                      serving[a] = NoServer, serving'[a] # NoServer
               PROVE  /\ usage[serving'[a]] - usage[LeastUsed] < SkewLimit
                      /\ usage[LeastUsed] = 0 => usage[serving'[a]] = 0
    OBVIOUS
  <2>1. TypeOK
    BY DEF RouterInv
  <2>2. serving'[a] = Chosen(a)
    BY <2>1, OnlyGetAddressMoves
  <2>3. LeastUsed \in Servers /\ usage[LeastUsed] \in Nat
    BY <2>1, LeastUsedIsFirst DEF TypeOK
  <2>4. CASE home[a] = NoServer \/ MustMove(a)
    BY <2>2, <2>3, <2>4, RouterAssumption DEF Chosen
  <2>5. CASE home[a] # NoServer /\ ~MustMove(a)
    <3>1. home[a] \in Servers /\ usage[home[a]] \in Nat
      BY <2>1, <2>5 DEF TypeOK
    <3> QED
      BY <2>2, <2>3, <2>5, <3>1, RouterAssumption DEF Chosen, MustMove
  <2> QED
    BY <2>4, <2>5
<1> QED
  BY <1>1, RouterInvariant, PTL DEF Spec, PlacementWithinSkew

(* The two placement rules together, the property the run checks.         *)
THEOREM PlacementSound == Spec => PlacementIsSound
  BY DownhillMoves, SkewBound DEF PlacementIsSound
=============================================================================
