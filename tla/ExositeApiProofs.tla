-------------------------- MODULE ExositeApiProofs --------------------------
(***************************************************************************)
(* Theorems about the activation of ExositeApi, for every number of        *)
(* machines, data requests and aliases, over HTTP and over CoAP.           *)
(***************************************************************************)
EXTENDS ExositeApi, TLAPS, FiniteSetTheorems, SequenceTheorems

-----------------------------------------------------------------------------
(***************************************************************************)
(* The requests and their machines.                                        *)
(***************************************************************************)

\* The kinds of request do not overlap.
LEMMA KindsDisjoint ==
    /\ Timestamp \in Req /\ Activate \in Req /\ Data \subseteq Req /\ Subscriptions \subseteq Req
    /\ \A r \in Req : r = Timestamp \/ r = Activate \/ r \in Data \/ r \in Subscriptions
    /\ Timestamp # Activate
    /\ Timestamp \notin Data /\ Timestamp \notin Subscriptions
    /\ Activate \notin Data /\ Activate \notin Subscriptions
    /\ Data \cap Subscriptions = {}
    /\ NULL \notin Req
<1>1. DOMAIN Kinds = 1 .. 4
  BY DEF Kinds
<1>2. Kinds[1] = {Timestamp} /\ Kinds[2] = {Activate} /\ Kinds[3] = Data /\ Kinds[4] = Subscriptions
  BY DEF Kinds
<1> HIDE DEF Kinds
<1>3. \A i, j \in 1 .. 4 : i # j => Kinds[i] \cap Kinds[j] = {}
  BY <1>1, ExositeAssumption
<1>4. /\ Kinds[1] \cap Kinds[2] = {} /\ Kinds[1] \cap Kinds[3] = {} /\ Kinds[1] \cap Kinds[4] = {}
      /\ Kinds[2] \cap Kinds[3] = {} /\ Kinds[2] \cap Kinds[4] = {}
      /\ Kinds[3] \cap Kinds[4] = {}
  BY <1>3
<1> QED  BY <1>2, <1>4, ExositeAssumption, PortAssumption

\* Every request has one machine, and the long poll machine of an alias has no other
\* requests than the subscriptions of this alias.
LEMMA MachineOfType ==
    /\ \A r \in Req : MachineOf(r) \in SM
    /\ ~Async => \A s \in Subscriptions : \A r \in Req :
          MachineOf(r) = MachineOf(s) <=> r \in Subscriptions /\ AliasOf[r] = AliasOf[s]
<1>1. /\ LongPoll \in [Alias -> SM] /\ Main \in SM /\ TimeSync \in SM
      /\ AliasOf \in [Subscriptions -> Alias]
      /\ \A a, b \in Alias : LongPoll[a] \notin {Main, TimeSync} /\ (LongPoll[a] = LongPoll[b] => a = b)
  BY ExositeAssumption
<1>2. \A r \in Req : MachineOf(r) = IF r = Timestamp THEN TimeSync
                                    ELSE IF r \in Subscriptions /\ ~Async
                                    THEN LongPoll[AliasOf[r]] ELSE Main
  BY KindsDisjoint DEF MachineOf
<1>3. \A r \in Req : MachineOf(r) \in SM
  BY <1>1, <1>2
<1>4. ASSUME ~Async, NEW s \in Subscriptions, NEW r \in Req
      PROVE  MachineOf(r) = MachineOf(s) <=> r \in Subscriptions /\ AliasOf[r] = AliasOf[s]
  <2>1. MachineOf(s) = LongPoll[AliasOf[s]] /\ AliasOf[s] \in Alias
    BY <1>1, <1>2, <1>4, KindsDisjoint
  <2>2. CASE r \in Subscriptions
    <3>1. MachineOf(r) = LongPoll[AliasOf[r]] /\ AliasOf[r] \in Alias
      BY <1>1, <1>2, <1>4, <2>2, KindsDisjoint
    <3> QED  BY <1>1, <2>1, <2>2, <3>1
  <2>3. CASE r \notin Subscriptions
    <3>1. MachineOf(r) \in {Main, TimeSync}
      BY <1>2, <2>3
    <3> QED  BY <1>1, <2>1, <2>3, <3>1
  <2> QED  BY <2>2, <2>3
<1> QED  BY <1>3, <1>4

-----------------------------------------------------------------------------
(***************************************************************************)
(* The task of a machine.                                                  *)
(***************************************************************************)

\* What a PortTask may do to the requests of its machine.
LEMMA TaskLeaves ==
    ASSUME PortType, NEW m \in SM, NEW p \in Req \cup {NULL}, NEW t \in Req \cup {NULL},
           NEW a \in Req \cup {NULL}, PortTask(m, p, t, a)
    PROVE  /\ PortType'
           /\ \A x \in SM : held'[x] \subseteq held[x] /\ (x # m => held'[x] = held[x])
           /\ \A x \in SM : abort[x] => abort'[x] \/ held'[x] = {}
           /\ called' = [response |-> p, timeout |-> t, aborted |-> a]
           /\ p # NULL => p \in held[m] /\ (p \in held'[m] => p \in Observe)
           /\ t # NULL => t \in held[m] \ held'[m] /\ t # p
           /\ a # NULL => a \in held[m] \ held'[m] /\ a # p /\ a # t
           /\ p = NULL /\ t = NULL /\ a = NULL => held' = held
           /\ ~Async => \E x \in held[m] \cup {NULL} :
                          held'[m] = held[m] \ {p, t, a, x} /\ (x # NULL => a # NULL)
<1>a. PICK h1 \in IF p = NULL THEN {held[m]}
                  ELSE {held[m] \ {p}} \cup
                       (IF Async /\ p \in Observe /\ ~abort[m] THEN {held[m]} ELSE {}) :
        \E h2 \in IF t = NULL THEN {h1} ELSE LeftBy(h1, t, Async) :
        \E h3 \in IF a = NULL THEN {h2} ELSE LeftBy(h2, a, TRUE) :
        /\ p # NULL => p \in held[m]
        /\ t # NULL => t \in h1 \ {p}
        /\ a # NULL => abort[m] /\ a \in h2
        /\ held' = [held EXCEPT ![m] = h3]
        /\ \/ UNCHANGED abort
           \/ h3 = {} /\ a = NULL /\ abort' = [abort EXCEPT ![m] = FALSE]
        /\ called' = [response |-> p, timeout |-> t, aborted |-> a]
  BY DEF PortTask
<1>b. PICK h2 \in IF t = NULL THEN {h1} ELSE LeftBy(h1, t, Async) :
        \E h3 \in IF a = NULL THEN {h2} ELSE LeftBy(h2, a, TRUE) :
        /\ p # NULL => p \in held[m]
        /\ t # NULL => t \in h1 \ {p}
        /\ a # NULL => abort[m] /\ a \in h2
        /\ held' = [held EXCEPT ![m] = h3]
        /\ \/ UNCHANGED abort
           \/ h3 = {} /\ a = NULL /\ abort' = [abort EXCEPT ![m] = FALSE]
        /\ called' = [response |-> p, timeout |-> t, aborted |-> a]
  BY <1>a
<1>1. PICK h3 \in IF a = NULL THEN {h2} ELSE LeftBy(h2, a, TRUE) :
        /\ p # NULL => p \in held[m]
        /\ t # NULL => t \in h1 \ {p}
        /\ a # NULL => abort[m] /\ a \in h2
        /\ held' = [held EXCEPT ![m] = h3]
        /\ \/ UNCHANGED abort
           \/ h3 = {} /\ a = NULL /\ abort' = [abort EXCEPT ![m] = FALSE]
        /\ called' = [response |-> p, timeout |-> t, aborted |-> a]
  BY <1>b
<1>2. /\ held \in [SM -> SUBSET Req] /\ abort \in [SM -> BOOLEAN] /\ held[m] \subseteq Req
      /\ NULL \notin Req
  BY PortAssumption DEF PortType
<1>3. /\ h1 \subseteq held[m]
      /\ p # NULL => h1 = held[m] \ {p} \/ (h1 = held[m] /\ Async /\ p \in Observe /\ ~abort[m])
      /\ p = NULL => h1 = held[m]
  BY <1>1
<1>4. /\ h2 \subseteq h1 /\ (t # NULL => t \notin h2)
      /\ ~Async => h2 = h1 \ {t}
  <2>1. CASE t = NULL
    BY <1>1, <1>2, <1>3, <2>1
  <2>2. CASE t # NULL
    BY <1>1, <2>2 DEF LeftBy
  <2> QED  BY <2>1, <2>2
<1>5. /\ h3 \subseteq h2 /\ (a # NULL => a \notin h3)
      /\ \E x \in h2 \cup {NULL} : h3 = h2 \ {a, x} /\ (x # NULL => a # NULL)
  <2>1. CASE a = NULL
    BY <1>1, <1>2, <1>3, <1>4, <2>1
  <2>2. CASE a # NULL
    <3>1. h3 = h2 \ {a} \/ \E x \in h2 : h3 = h2 \ {a, x}
      BY <1>1, <2>2 DEF LeftBy
    <3>2. NULL \notin h2
      BY <1>2, <1>3, <1>4
    <3> QED  BY <2>2, <3>1, <3>2
  <2> QED  BY <2>1, <2>2
<1>6. /\ \A x \in SM : held'[x] = IF x = m THEN h3 ELSE held[x]
      /\ held' \in [SM -> SUBSET Req] /\ abort' \in [SM -> BOOLEAN]
      /\ \A x \in SM : abort[x] => abort'[x] \/ held'[x] = {}
  BY <1>1, <1>2, <1>3, <1>4, <1>5
<1>7. PortType'
  BY <1>1, <1>6 DEF PortType
<1>8. p # NULL => (p \in h3 => p \in Observe)
  BY <1>3, <1>4, <1>5
<1>9. ~Async => \E x \in held[m] \cup {NULL} :
                   h3 = held[m] \ {p, t, a, x} /\ (x # NULL => a # NULL)
  <2> SUFFICES ASSUME ~Async
               PROVE  \E x \in held[m] \cup {NULL} :
                         h3 = held[m] \ {p, t, a, x} /\ (x # NULL => a # NULL)
    OBVIOUS
  <2>1. h1 = held[m] \ {p}
    BY <1>2, <1>3
  <2>2. h2 = held[m] \ {p, t}
    BY <1>4, <2>1
  <2>3. PICK x \in h2 \cup {NULL} : h3 = h2 \ {a, x} /\ (x # NULL => a # NULL)
    BY <1>5
  <2>4. x \in held[m] \cup {NULL} /\ h3 = held[m] \ {p, t, a, x}
    BY <2>2, <2>3
  <2> QED  BY <2>3, <2>4
<1>10. a # NULL => a \in held[m] /\ a # p /\ a # t
  BY <1>1, <1>3, <1>4
<1>11. t # NULL => t \in held[m] /\ t # p /\ t \notin h3
  BY <1>1, <1>3, <1>4, <1>5
<1>12. /\ called' = [response |-> p, timeout |-> t, aborted |-> a]
       /\ p # NULL => p \in held[m]
       /\ h3 \subseteq held[m]
       /\ held'[m] = h3
       /\ a # NULL => a \notin h3
  BY <1>1, <1>3, <1>4, <1>5, <1>6
<1>13. p = NULL /\ t = NULL /\ a = NULL => held' = held
  <2> SUFFICES ASSUME p = NULL, t = NULL, a = NULL PROVE held' = held
    OBVIOUS
  <2>1. h3 = held[m]
    BY <1>1, <1>3
  <2> QED  BY <1>1, <1>2, <2>1
<1> QED  BY <1>6, <1>7, <1>8, <1>9, <1>10, <1>11, <1>12, <1>13

\* The part of the state that the callbacks write, after one of them.
IsPart(e) == \E n, v, w : e = [next |-> n, event |-> v, map |-> w]

AliasesOf(R) == {AliasOf[r] : r \in R \cap Subscriptions}

\* The map M becomes N by callbacks for the aliases Z: an HTTP subscription is over then.
Seen(M, N, Z) ==
    /\ DOMAIN N = DOMAIN M
    /\ \A z \in DOMAIN M :
         /\ z \notin Z => N[z] = M[z]
         /\ z \in Z /\ ~Async => N[z] = Unsent
         /\ M[z] \in SubscribeItem => N[z] \in SubscribeItem

CalledBack(e, f, r, status) ==
    /\ IsPart(f)
    /\ e.event \in BOOLEAN => f.event \in BOOLEAN
    /\ r \notin {Timestamp, Activate} => f.next = e.next
    /\ r = Timestamp =>
          f.next = IF status = "ok" THEN "AS_INIT" ELSE "AS_SEND_GET_TIMESTAMP"
    /\ r = Activate =>
          f.next = IF status = "ok" THEN "AS_ACTIVATED" ELSE "AS_PREPARE_ACTIVATE"
    /\ r = Activate /\ status = "ok" => f.event = FALSE
    /\ r = NULL => f = e
    /\ Seen(e.map, f.map, AliasesOf({r}))

\* A callback for no subscription leaves the map alone.
LEMMA SeenNothing ==
    ASSUME NEW M, NEW R, R \cap Subscriptions = {}
    PROVE  Seen(M, M, AliasesOf(R))
BY DEF Seen, AliasesOf

LEMMA SeenBoth ==
    ASSUME NEW M, NEW N, NEW O, NEW R, NEW Q,
           Seen(M, N, AliasesOf(R)), Seen(N, O, AliasesOf(Q))
    PROVE  Seen(M, O, AliasesOf(R \cup Q))
<1>1. AliasesOf(R \cup Q) = AliasesOf(R) \cup AliasesOf(Q)
  BY DEF AliasesOf
<1> QED  BY <1>1 DEF Seen

LEMMA CallbackEffect ==
    ASSUME NEW e, IsPart(e), NEW r \in Req \cup {NULL}, NEW status
    PROVE  CalledBack(e, exosite_api_callback(e, r, status), r, status)
<1> DEFINE g == exosite_api_callback(e, r, status)
           item(w) == IF status = "ok" /\ Async
                      THEN [w[AliasOf[r]] EXCEPT !.acknowledged = TRUE] ELSE Unsent
<1> SUFFICES CalledBack(e, g, r, status)
  OBVIOUS
<1>1. PICK n, v, w : e = [next |-> n, event |-> v, map |-> w]
  BY DEF IsPart
<1> DEFINE b == IF status = "not_valid" THEN TRUE ELSE v
           f == [next |-> n, event |-> b, map |-> w]
<1>2. f = IF status = "not_valid" THEN [e EXCEPT !.event = TRUE] ELSE e
  BY <1>1
<1>3. g = CASE r = NULL      -> e
            [] r = Timestamp -> on_timestamp(f, status)
            [] r = Activate  -> on_activate(f, status)
            [] r \in Subscriptions -> on_subscribe(f, AliasOf[r], status)
            [] r \in Data    -> f
  BY <1>2 DEF exosite_api_callback
<1>6. v \in BOOLEAN => b \in BOOLEAN
  OBVIOUS
<1> HIDE DEF b
<1>4. /\ on_timestamp(f, status) =
            [next |-> IF status = "ok" THEN "AS_INIT" ELSE "AS_SEND_GET_TIMESTAMP",
             event |-> b, map |-> w]
      /\ on_activate(f, status) =
            [next |-> IF status = "ok" THEN "AS_ACTIVATED" ELSE "AS_PREPARE_ACTIVATE",
             event |-> IF status = "ok" THEN FALSE ELSE b, map |-> w]
  <2>1. \A k : [f EXCEPT !.next = k] = [next |-> k, event |-> b, map |-> w]
    OBVIOUS
  <2>2. \A k, l : [[next |-> k, event |-> b, map |-> w] EXCEPT !.event = l] =
                  [next |-> k, event |-> l, map |-> w]
    OBVIOUS
  <2> HIDE DEF f
  <2>3. \A k, l : [f EXCEPT !.next = k, !.event = l] = [[f EXCEPT !.next = k] EXCEPT !.event = l]
    BY Zenon
  <2>4. \A k, l : [f EXCEPT !.next = k, !.event = l] = [next |-> k, event |-> l, map |-> w]
    <3> TAKE k, l
    <3>1. [f EXCEPT !.next = k, !.event = l] = [[f EXCEPT !.next = k] EXCEPT !.event = l]
      BY <2>3
    <3>2. [f EXCEPT !.next = k] = [next |-> k, event |-> b, map |-> w]
      BY <2>1
    <3>3. [[next |-> k, event |-> b, map |-> w] EXCEPT !.event = l] =
          [next |-> k, event |-> l, map |-> w]
      BY <2>2
    <3> QED  BY <3>1, <3>2, <3>3, Zenon
  <2> QED  BY <2>1, <2>4 DEF on_timestamp, on_activate
<1>5. on_subscribe(f, AliasOf[r], status) =
        [next |-> n, event |-> b, map |-> [w EXCEPT ![AliasOf[r]] = item(w)]]
  <2>1. \A u : [f EXCEPT !.map = u] = [next |-> n, event |-> b, map |-> u]
    OBVIOUS
  <2>2. f.map = w
    OBVIOUS
  <2> HIDE DEF f
  <2>3. on_subscribe(f, AliasOf[r], status) = [f EXCEPT !.map[AliasOf[r]] = item(f.map)]
    BY Zenon DEF on_subscribe
  <2>4. [f EXCEPT !.map[AliasOf[r]] = item(f.map)] =
        [f EXCEPT !.map = [f.map EXCEPT ![AliasOf[r]] = item(f.map)]]
    BY Zenon
  <2>5. on_subscribe(f, AliasOf[r], status) = [f EXCEPT !.map = [w EXCEPT ![AliasOf[r]] = item(w)]]
    BY <2>2, <2>3, <2>4, Zenon
  <2> HIDE DEF item
  <2> QED  BY <2>1, <2>5
<1> HIDE DEF f, g
<1>12. r \notin Subscriptions => Seen(w, w, AliasesOf({r}))
  BY SeenNothing
<1>7. CASE r = NULL
  <2>1. g = e
    BY <1>3, <1>7, KindsDisjoint
  <2> QED  BY <1>1, <1>7, <1>12, <2>1, KindsDisjoint DEF CalledBack
<1>8. CASE r = Timestamp
  <2>1. PICK k : /\ k = IF status = "ok" THEN "AS_INIT" ELSE "AS_SEND_GET_TIMESTAMP"
                 /\ g = [next |-> k, event |-> b, map |-> w]
    <3>1. g = on_timestamp(f, status)
      BY <1>3, <1>8, KindsDisjoint
    <3> QED  BY <1>4, <3>1
  <2> QED  BY <1>1, <1>6, <1>8, <1>12, <2>1, KindsDisjoint DEF CalledBack, IsPart
<1>9. CASE r = Activate
  <2>1. PICK k, l : /\ k = IF status = "ok" THEN "AS_ACTIVATED" ELSE "AS_PREPARE_ACTIVATE"
                    /\ l = IF status = "ok" THEN FALSE ELSE b
                    /\ g = [next |-> k, event |-> l, map |-> w]
    <3>1. g = on_activate(f, status)
      BY <1>3, <1>9, KindsDisjoint
    <3> QED  BY <1>4, <3>1
  <2> QED  BY <1>1, <1>6, <1>9, <1>12, <2>1, KindsDisjoint DEF CalledBack, IsPart
<1>10. CASE r \in Subscriptions
  <2>1. PICK k : /\ k = [w EXCEPT ![AliasOf[r]] = item(w)]
                 /\ g = [next |-> n, event |-> b, map |-> k]
    <3>1. g = on_subscribe(f, AliasOf[r], status)
      BY <1>3, <1>10, KindsDisjoint
    <3> QED  BY <1>5, <3>1
  <2>2. Seen(w, k, AliasesOf({r}))
    <3> DEFINE x == AliasOf[r]
               v1 == item(w)
    <3>1. AliasesOf({r}) = {x}
      BY <1>10 DEF AliasesOf
    <3>2. ~Async => v1 = Unsent
      OBVIOUS
    <3>3. w[x] \in SubscribeItem => v1 \in SubscribeItem
      BY DEF SubscribeItem, Unsent
    <3>4. k = [w EXCEPT ![x] = v1]
      BY <2>1
    <3> HIDE DEF x, v1
    <3>5. DOMAIN k = DOMAIN w /\ \A z \in DOMAIN w : k[z] = IF z = x THEN v1 ELSE w[z]
      BY <3>4
    <3> QED  BY <3>1, <3>2, <3>3, <3>5 DEF Seen
  <2> HIDE DEF item
  <2> QED  BY <1>1, <1>6, <1>10, <2>1, <2>2, KindsDisjoint DEF CalledBack, IsPart
<1>11. CASE r \in Data
  <2>1. g = [next |-> n, event |-> b, map |-> w]
    <3>1. g = f
      BY <1>3, <1>11, KindsDisjoint
    <3> QED  BY <3>1 DEF f
  <2> QED  BY <1>1, <1>6, <1>11, <1>12, <2>1, KindsDisjoint DEF CalledBack, IsPart
<1> QED  BY <1>7, <1>8, <1>9, <1>10, <1>11, KindsDisjoint

-----------------------------------------------------------------------------
(***************************************************************************)
(* The inductive invariant.                                                *)
(***************************************************************************)

\* A request is held only by its machine, and only machines that were made hold any.
Routed == \A m \in SM : \A r \in held[m] : m = MachineOf(r)
Created == \A m \in SM : held[m] # {} => m \in sm_list

\* What is held in a state.
HeldBy(state, H) ==
    /\ state \in {"AS_SEND_GET_TIMESTAMP", "AS_INIT", "AS_START"} => H = {}
    /\ state = "AS_WAIT_TIMESTAMP" => H = {Timestamp}
    /\ state = "AS_WAIT_ACTIVATE" => H = {Activate}
    /\ state \in {"AS_PREPARE_ACTIVATE", "AS_SEND_ACTIVATE", "AS_ACTIVATED"} =>
        H \subseteq Data \cup Subscriptions

\* Before the activation is sent, a machine that holds a request is being cleared.
Clearing == next_state = "AS_SEND_ACTIVATE" => \A m \in SM : held[m] = {} \/ abort[m]

ExoInv ==
    /\ TypeOK
    /\ Routed
    /\ Created
    /\ HeldBy(next_state, AllHeld)
    /\ Clearing
    /\ stale = {}
    /\ ~Async => SubscribedOnce /\ SubscriptionAlive

LEMMA InAllHeld ==
    /\ \A r : r \in AllHeld <=> \E m \in SM : r \in held[m]
    /\ \A r : r \in AllHeld' <=> \E m \in SM : r \in held'[m]
BY DEF AllHeld

LEMMA InitExoInv == Init => ExoInv
<1> SUFFICES ASSUME Init PROVE ExoInv
  OBVIOUS
<1> USE DEF Init, PortInit
<1>1. AllHeld = {}
  BY InAllHeld
<1>2. PortType
  BY PortAssumption DEF PortType, NoCalls
<1>3. request_queue \in Seq(Data) /\ Len(request_queue) <= MaxQueue
  BY ExositeAssumption
<1>4. DOMAIN subscribe_map = {}
  OBVIOUS
<1>5. TypeOK
  BY <1>1, <1>2, <1>3, <1>4 DEF TypeOK, States
<1>6. Routed /\ Created /\ HeldBy(next_state, AllHeld) /\ Clearing
  BY <1>1 DEF Routed, Created, HeldBy, Clearing
<1>7. SubscribedOnce /\ SubscriptionAlive
  BY <1>1, <1>4 DEF SubscribedOnce, SubscriptionAlive
<1> QED  BY <1>5, <1>6, <1>7 DEF ExoInv

\* What handing requests over does to the machines.
LEMMA HandLeaves ==
    ASSUME PortType, Routed, Created, sm_list \subseteq SM, before \subseteq AllHeld \X AllHeld,
           NEW rs \in SUBSET Req, NEW tried \in SUBSET Req, Hand(rs, tried)
    PROVE  /\ PortType' /\ Routed' /\ Created'
           /\ AllHeld' = AllHeld \cup rs
           /\ AllHeld \cap rs = {}
           /\ sm_list \subseteq sm_list' /\ sm_list' \subseteq SM
           /\ stale' = stale \ rs
           /\ before' \subseteq AllHeld' \X AllHeld'
           /\ \A q, r \in rs : MachineOf(q) = MachineOf(r) => q = r
<1>1. PICK made \in SUBSET {MachineOf(r) : r \in tried} :
        LET machines == sm_list \cup made \cup {MachineOf(r) : r \in rs} IN
        /\ \A r \in rs : \A m \in SM : r \notin held[m]
        /\ \A q, r \in rs : MachineOf(q) = MachineOf(r) => q = r
        /\ held' = [m \in SM |-> held[m] \cup {r \in rs : MachineOf(r) = m}]
        /\ sm_list' = machines
        /\ stale' = stale \ rs
        /\ before' = before \cup UNION {held[MachineOf(r)] \X {r} : r \in rs}
        /\ called' = NoCalls
        /\ UNCHANGED abort
  BY DEF Hand
<1>2. \A r \in Req : MachineOf(r) \in SM
  BY MachineOfType
<1>3. /\ held' = [m \in SM |-> held[m] \cup {r \in rs : MachineOf(r) = m}]
      /\ \A m \in SM : held'[m] = held[m] \cup {r \in rs : MachineOf(r) = m}
      /\ \A r \in rs : MachineOf(r) \in sm_list'
      /\ \A m \in sm_list : m \in sm_list'
      /\ sm_list' \subseteq SM
      /\ stale' = stale \ rs
      /\ abort' = abort
      /\ called' = NoCalls
  BY <1>1, <1>2
<1>4. PortType'
  BY <1>3, PortAssumption DEF PortType, NoCalls
<1>5. Routed'
  BY <1>3 DEF Routed
<1>6. Created'
  BY <1>3 DEF Created
<1>7. \A r : r \in AllHeld' <=> r \in AllHeld \/ r \in rs
  BY <1>2, <1>3, InAllHeld
<1>8. AllHeld \cap rs = {}
  BY <1>1, InAllHeld
<1>9. before' \subseteq AllHeld' \X AllHeld'
  <2>1. \A b \in before : b \in AllHeld' \X AllHeld'
    BY <1>7
  <2>2. ASSUME NEW r \in rs PROVE held[MachineOf(r)] \X {r} \subseteq AllHeld' \X AllHeld'
    <3>1. held[MachineOf(r)] \subseteq AllHeld' /\ r \in AllHeld'
      BY <1>2, <1>7, InAllHeld
    <3> QED  BY <3>1
  <2> QED  BY <1>1, <2>1, <2>2
<1>10. \A q, r \in rs : MachineOf(q) = MachineOf(r) => q = r
  BY <1>1
<1> QED  BY <1>3, <1>4, <1>5, <1>6, <1>7, <1>8, <1>9, <1>10

-----------------------------------------------------------------------------
(***************************************************************************)
(* The steps of activate_sm.                                               *)
(***************************************************************************)

\* A step that hands nothing over and calls nothing back.
LEMMA QuietLeaves ==
    ASSUME ExoInv, held' = held, called' = NoCalls, sm_list' = sm_list,
           abort' \in [SM -> BOOLEAN]
    PROVE  PortType' /\ AllHeld' = AllHeld /\ Routed' /\ Created'
<1>1. PortType'
  BY PortAssumption DEF ExoInv, TypeOK, PortType, NoCalls
<1>2. AllHeld' = AllHeld
  BY DEF AllHeld
<1>3. Routed' /\ Created'
  BY DEF ExoInv, Routed, Created
<1> QED  BY <1>1, <1>2, <1>3

\* A step that changes nothing of the subscriptions and of what is held.
LEMMA SubscriptionsKept ==
    ASSUME ExoInv, AllHeld' \cap Subscriptions = AllHeld \cap Subscriptions,
           subscribe_map' = subscribe_map
    PROVE  ~Async => SubscribedOnce' /\ SubscriptionAlive'
<1> SUFFICES ASSUME ~Async PROVE SubscribedOnce' /\ SubscriptionAlive'
  OBVIOUS
<1>1. SubscribedOnce'
  BY DEF ExoInv, SubscribedOnce
<1>2. SubscriptionAlive'
  BY DEF ExoInv, SubscriptionAlive
<1> QED  BY <1>1, <1>2

\* The states that hand nothing over.
LEMMA StateSteps ==
    ASSUME ExoInv, InitState \/ Start \/ PrepareActivate \/ Deactivate \/ Idle
    PROVE  ExoInv'
<1>1. /\ held' = held /\ called' = NoCalls /\ sm_list' = sm_list /\ stale' = stale
      /\ before' = before
      /\ subscribe_map' = subscribe_map /\ request_queue' = request_queue
      /\ abort' = abort \/ (next_state = "AS_PREPARE_ACTIVATE" /\ next_state' = "AS_SEND_ACTIVATE"
                            /\ abort' = [m \in SM |-> abort[m] \/ m \in sm_list])
      /\ activate_state' = next_state
      /\ delay_due' \in BOOLEAN /\ asynch_state_event' \in BOOLEAN
  BY DEF ExoInv, TypeOK, InitState, Start, PrepareActivate, Deactivate, Idle, Enter
<1>2. \/ next_state' = next_state /\ abort' = abort
      \/ next_state \in {"AS_INIT", "AS_START"}
         /\ next_state' \in {"AS_START", "AS_ACTIVATED", "AS_PREPARE_ACTIVATE"}
      \/ next_state = "AS_PREPARE_ACTIVATE" /\ next_state' = "AS_SEND_ACTIVATE"
         /\ abort' = [m \in SM |-> abort[m] \/ m \in sm_list]
      \/ next_state = "AS_ACTIVATED" /\ next_state' = "AS_PREPARE_ACTIVATE"
  BY DEF InitState, Start, PrepareActivate, Deactivate, Idle, Enter
<1>3. abort' \in [SM -> BOOLEAN]
  <2>1. abort \in [SM -> BOOLEAN]
    BY DEF ExoInv, TypeOK, PortType
  <2>2. [m \in SM |-> abort[m] \/ m \in sm_list] \in [SM -> BOOLEAN]
    BY <2>1, Zenon
  <2> QED  BY <1>1, <2>1, <2>2
<1>4. PortType' /\ AllHeld' = AllHeld /\ Routed' /\ Created'
  BY <1>1, <1>3, QuietLeaves
<1>5. next_state' \in States \ {"AS_NONE"} /\ activate_state' \in States
  BY <1>1, <1>2 DEF ExoInv, TypeOK, States
<1>6. TypeOK'
  BY <1>1, <1>4, <1>5 DEF ExoInv, TypeOK
<1>7. HeldBy(next_state', AllHeld')
  BY <1>2, <1>4 DEF ExoInv, HeldBy
<1>8. Clearing'
  <2>1. CASE next_state' = next_state /\ abort' = abort
    BY <1>1, <2>1 DEF ExoInv, Clearing
  <2>2. CASE abort' = [m \in SM |-> abort[m] \/ m \in sm_list]
    <3>1. \A m \in SM : abort'[m] <=> (abort[m] \/ m \in sm_list)
      BY <2>2, Zenon
    <3> QED  BY <1>1, <3>1 DEF ExoInv, Created, Clearing
  <2>3. CASE next_state' # "AS_SEND_ACTIVATE"
    BY <2>3 DEF Clearing
  <2> QED  BY <1>2, <2>1, <2>2, <2>3
<1>9. ~Async => SubscribedOnce' /\ SubscriptionAlive'
  BY <1>1, <1>4, SubscriptionsKept
<1>10. stale' = {}
  BY <1>1 DEF ExoInv
<1> QED  BY <1>4, <1>6, <1>7, <1>8, <1>9, <1>10 DEF ExoInv

\* The states that send the request of the time or of the activation.
LEMMA SendSteps ==
    ASSUME ExoInv, SendGetTimestamp \/ SendActivate \/ Refused
    PROVE  ExoInv'
<1> DEFINE Sends(r, rs) ==
        /\ Hand(rs, {r})
        /\ next_state = IF r = Timestamp THEN "AS_SEND_GET_TIMESTAMP" ELSE "AS_SEND_ACTIVATE"
        /\ r = Activate => \A m \in sm_list : IsEmpty(m)
        /\ \/ /\ rs = {r}
              /\ next_state' = IF r = Timestamp THEN "AS_WAIT_TIMESTAMP" ELSE "AS_WAIT_ACTIVATE"
           \/ rs = {} /\ next_state' = next_state
        /\ activate_state' = next_state
<1>a. PICK r \in {Timestamp, Activate} : \E rs \in SUBSET {r} : Sends(r, rs)
  <2>1. CASE SendGetTimestamp
    <3>1. Sends(Timestamp, {Timestamp})
      BY <2>1, KindsDisjoint DEF SendGetTimestamp, Enter
    <3> QED  BY <3>1
  <2>2. CASE SendActivate
    <3>1. Sends(Activate, {Activate})
      BY <2>2, KindsDisjoint DEF SendActivate, Enter
    <3> QED  BY <3>1
  <2>3. CASE Refused /\ next_state = "AS_SEND_GET_TIMESTAMP"
    <3>1. Sends(Timestamp, {})
      BY <2>3, KindsDisjoint DEF Refused, Enter
    <3> QED  BY <3>1
  <2>4. CASE Refused /\ next_state # "AS_SEND_GET_TIMESTAMP"
    <3>1. Sends(Activate, {})
      BY <2>4, KindsDisjoint DEF Refused, Enter
    <3> QED  BY <3>1
  <2> QED  BY <2>1, <2>2, <2>3, <2>4
<1>1. PICK rs \in SUBSET {r} : Sends(r, rs)
  BY <1>a
<1>2. UNCHANGED <<asynch_state_event, request_queue, subscribe_map, delay_due>>
  BY DEF SendGetTimestamp, SendActivate, Refused
<1>3. r \in Req /\ rs \in SUBSET Req /\ {r} \in SUBSET Req /\ r \notin Subscriptions
  BY <1>1, KindsDisjoint
<1>4. /\ PortType /\ Routed /\ Created /\ sm_list \subseteq SM
      /\ before \subseteq AllHeld \X AllHeld
  BY DEF ExoInv, TypeOK
<1>5. /\ PortType' /\ Routed' /\ Created'
      /\ AllHeld' = AllHeld \cup rs
      /\ sm_list' \subseteq SM
      /\ stale' = stale \ rs
      /\ before' \subseteq AllHeld' \X AllHeld'
  BY <1>1, <1>3, <1>4, HandLeaves
<1>6. AllHeld = {}
  <2>1. CASE r = Timestamp
    BY <1>1, <2>1 DEF ExoInv, HeldBy
  <2>2. CASE r = Activate
    <3>1. next_state = "AS_SEND_ACTIVATE" /\ \A m \in sm_list : ~abort[m]
      BY <1>1, <2>2, KindsDisjoint DEF IsEmpty
    <3>2. \A m \in SM : held[m] = {}
      BY <3>1 DEF ExoInv, Clearing, Created
    <3> QED  BY <3>2, InAllHeld
  <2> QED  BY <1>1, <2>1, <2>2
<1>7. stale' = {}
  BY <1>5 DEF ExoInv
<1>8. TypeOK'
  <2>1. activate_state' \in States /\ next_state' \in States \ {"AS_NONE"}
    BY <1>1 DEF States
  <2> QED  BY <1>2, <1>5, <1>7, <2>1 DEF ExoInv, TypeOK
<1>9. HeldBy(next_state', AllHeld')
  BY <1>1, <1>5, <1>6, KindsDisjoint DEF HeldBy
<1>10. Clearing'
  <2> SUFFICES ASSUME next_state' = "AS_SEND_ACTIVATE" PROVE \A m \in SM : held'[m] = {}
    BY DEF Clearing
  <2>1. AllHeld' = {}
    BY <1>1, <1>5, <1>6
  <2> QED  BY <2>1, InAllHeld
<1>11. ~Async => SubscribedOnce' /\ SubscriptionAlive'
  BY <1>1, <1>2, <1>3, <1>5, SubscriptionsKept
<1> QED  BY <1>5, <1>7, <1>8, <1>9, <1>10, <1>11 DEF ExoInv

\* What is tried of the subscriptions is not held, and its alias is not marked.
LEMMA UnsubscribedOnes ==
    /\ Unsubscribed \subseteq Subscriptions
    /\ \A s \in Unsubscribed :
         AliasOf[s] \in DOMAIN subscribe_map /\ ~subscribe_map[AliasOf[s]].sent
<1> SUFFICES ASSUME NEW s \in Unsubscribed
             PROVE  /\ s \in Subscriptions
                    /\ AliasOf[s] \in DOMAIN subscribe_map
                    /\ ~subscribe_map[AliasOf[s]].sent
  OBVIOUS
<1>1. PICK a \in DOMAIN subscribe_map :
        /\ ~subscribe_map[a].sent
        /\ \E q \in Subscriptions \ AllHeld : AliasOf[q] = a
        /\ s = CHOOSE q \in Subscriptions \ AllHeld : AliasOf[q] = a
  BY DEF Unsubscribed
<1>2. s \in Subscriptions \ AllHeld /\ AliasOf[s] = a
  BY <1>1
<1> QED  BY <1>1, <1>2

\* An activated device hands over subscriptions and the oldest read or write.
LEMMA ActivatedStep ==
    ASSUME ExoInv, Activated
    PROVE  ExoInv'
<1>1. PICK subs \in SUBSET Unsubscribed :
      \E n \in 0 .. Cardinality(Oldest) :
        /\ Hand(subs \cup {request_queue[i] : i \in 1 .. n}, Unsubscribed \cup Oldest)
        /\ subscribe_map' = [a \in DOMAIN subscribe_map |->
              IF \E s \in subs : AliasOf[s] = a
              THEN [subscribe_map[a] EXCEPT !.sent = TRUE]
              ELSE subscribe_map[a]]
        /\ request_queue' = SubSeq(request_queue, n + 1, Len(request_queue))
  BY DEF Activated
<1>2. PICK n \in 0 .. Cardinality(Oldest) :
        /\ Hand(subs \cup {request_queue[i] : i \in 1 .. n}, Unsubscribed \cup Oldest)
        /\ subscribe_map' = [a \in DOMAIN subscribe_map |->
              IF \E s \in subs : AliasOf[s] = a
              THEN [subscribe_map[a] EXCEPT !.sent = TRUE]
              ELSE subscribe_map[a]]
        /\ request_queue' = SubSeq(request_queue, n + 1, Len(request_queue))
  BY <1>1
<1>3. /\ next_state = "AS_ACTIVATED" /\ next_state' = next_state
      /\ activate_state' = "AS_ACTIVATED"
      /\ UNCHANGED <<asynch_state_event, delay_due>>
  BY DEF Activated, Enter
<1>4. /\ request_queue \in Seq(Data) /\ Len(request_queue) <= MaxQueue
      /\ DOMAIN subscribe_map \subseteq Alias
      /\ \A a \in DOMAIN subscribe_map : subscribe_map[a] \in SubscribeItem
      /\ PortType /\ Routed /\ Created /\ sm_list \subseteq SM
      /\ before \subseteq AllHeld \X AllHeld
      /\ AllHeld \subseteq Data \cup Subscriptions
  BY <1>3 DEF ExoInv, TypeOK, HeldBy
<1>5. n \in Nat /\ n <= Len(request_queue) /\ Oldest \subseteq Data
  <2>1. CASE request_queue = <<>>
    <3>1. Oldest = {}
      BY <2>1 DEF Oldest
    <3> QED  BY <1>2, <2>1, <3>1, FS_EmptySet
  <2>2. CASE request_queue # <<>>
    <3>1. Oldest = {Head(request_queue)} /\ Head(request_queue) \in Data
      BY <1>4, <2>2 DEF Oldest
    <3>2. n \in Nat /\ n <= 1
      <4>1. Cardinality(Oldest) = 1
        BY <3>1, FS_Singleton
      <4> QED  BY <1>2, <4>1
    <3>3. Len(request_queue) >= 1
      BY <1>4, <2>2
    <3> QED  BY <3>1, <3>2, <3>3
  <2> QED  BY <2>1, <2>2
<1> DEFINE taken == {request_queue[i] : i \in 1 .. n}
<1>6. taken \subseteq Data
  <2>1. \A i \in 1 .. n : i \in 1 .. Len(request_queue)
    <3> DEFINE l == Len(request_queue)
    <3>1. l \in Nat /\ n <= l /\ n \in Nat
      BY <1>4, <1>5
    <3> HIDE DEF l
    <3>2. \A i \in 1 .. n : i \in 1 .. l
      BY <3>1
    <3> QED  BY <3>2 DEF l
  <2>2. \A i \in 1 .. Len(request_queue) : request_queue[i] \in Data
    BY <1>4
  <2> QED  BY <2>1, <2>2
<1>7. /\ subs \subseteq Subscriptions
      /\ \A s \in subs : AliasOf[s] \in DOMAIN subscribe_map /\ ~subscribe_map[AliasOf[s]].sent
      /\ Unsubscribed \cup Oldest \in SUBSET Req
  BY <1>5, KindsDisjoint, UnsubscribedOnes
<1> HIDE DEF taken
<1>8. Hand(subs \cup taken, Unsubscribed \cup Oldest)
  BY <1>2 DEF taken
<1>9. /\ PortType' /\ Routed' /\ Created'
      /\ AllHeld' = AllHeld \cup (subs \cup taken)
      /\ AllHeld \cap (subs \cup taken) = {}
      /\ sm_list' \subseteq SM
      /\ stale' = stale \ (subs \cup taken)
      /\ before' \subseteq AllHeld' \X AllHeld'
      /\ \A q, r \in subs \cup taken : MachineOf(q) = MachineOf(r) => q = r
  <2>1. subs \cup taken \in SUBSET Req
    BY <1>6, <1>7, KindsDisjoint
  <2> HIDE DEF Unsubscribed
  <2> QED  BY <1>4, <1>7, <1>8, <2>1, HandLeaves
<1>10. stale' = {}
  BY <1>9 DEF ExoInv
<1>11. request_queue' \in Seq(Data) /\ Len(request_queue') <= MaxQueue
  <2> DEFINE l == Len(request_queue)
  <2>1. l \in Nat /\ n \in Nat /\ n <= l /\ l <= MaxQueue /\ MaxQueue \in Nat
    BY <1>4, <1>5, ExositeAssumption
  <2>2. request_queue' \in Seq(Data)
        /\ Len(request_queue') = IF n + 1 <= l THEN l - (n + 1) + 1 ELSE 0
    <3> HIDE DEF l
    <3>1. n + 1 \in 1 .. l + 1 /\ l \in 0 .. l
      BY <2>1
    <3>2. request_queue' = SubSeq(request_queue, n + 1, l)
      BY <1>2 DEF l
    <3> QED  BY <1>4, <2>1, <3>1, <3>2, SubSeqProperties DEF l
  <2> HIDE DEF l
  <2> QED  BY <2>1, <2>2
<1> DEFINE Given(a) == \E s \in subs : AliasOf[s] = a
<1>12. /\ DOMAIN subscribe_map' = DOMAIN subscribe_map
       /\ \A a \in DOMAIN subscribe_map :
            /\ ~Given(a) => subscribe_map'[a] = subscribe_map[a]
            /\ Given(a) => subscribe_map'[a] = [subscribe_map[a] EXCEPT !.sent = TRUE]
  BY <1>2
<1>13. \A a \in DOMAIN subscribe_map : Given(a) =>
          subscribe_map'[a] \in SubscribeItem /\ subscribe_map'[a].sent
  <2> HIDE DEF Given
  <2> QED  BY <1>4, <1>12 DEF SubscribeItem
<1>14. TypeOK'
  <2>1. \A a \in DOMAIN subscribe_map' : subscribe_map'[a] \in SubscribeItem
    <3> HIDE DEF Given
    <3> QED  BY <1>4, <1>12, <1>13
  <2> HIDE DEF Given
  <2> QED  BY <1>3, <1>4, <1>9, <1>10, <1>11, <1>12, <2>1 DEF TypeOK, States, ExoInv
<1>15. HeldBy(next_state', AllHeld')
  BY <1>3, <1>4, <1>6, <1>7, <1>9 DEF HeldBy
<1>16. Clearing'
  BY <1>3 DEF Clearing
<1>19. \A s \in Subscriptions : s \in AllHeld' <=> s \in AllHeld \/ s \in subs
  BY <1>6, <1>9, KindsDisjoint
<1>17. ASSUME ~Async PROVE SubscribedOnce'
  <2>1. SubscribedOnce
    BY <1>17 DEF ExoInv
  <2>2. ASSUME NEW s \in Subscriptions, s \in AllHeld
        PROVE  AliasOf[s] \in DOMAIN subscribe_map /\ subscribe_map[AliasOf[s]].sent
    BY <2>1, <2>2 DEF SubscribedOnce
  <2>3. ASSUME NEW s \in Subscriptions, s \in AllHeld'
        PROVE  AliasOf[s] \in DOMAIN subscribe_map' /\ subscribe_map'[AliasOf[s]].sent
    <3>1. CASE s \in subs
      BY <1>7, <1>12, <1>13, <3>1
    <3>2. CASE s \in AllHeld
      <4>1. AliasOf[s] \in DOMAIN subscribe_map /\ subscribe_map[AliasOf[s]].sent
        BY <2>2, <3>2
      <4>2. ~Given(AliasOf[s])
        BY <1>7, <4>1
      <4> QED  BY <1>12, <4>1, <4>2
    <3> QED  BY <1>19, <2>3, <3>1, <3>2
  <2>4. ASSUME NEW s \in Subscriptions, s \in AllHeld', NEW q \in Subscriptions, q \in AllHeld',
               AliasOf[q] = AliasOf[s]
        PROVE  q = s
    <3>1. CASE s \in subs /\ q \in subs
      <4>1. MachineOf(q) = MachineOf(s)
        BY <1>17, <2>4, KindsDisjoint, MachineOfType
      <4> QED  BY <1>9, <3>1, <4>1
    <3>2. CASE s \in AllHeld /\ q \in AllHeld
      BY <2>1, <2>4, <3>2 DEF SubscribedOnce
    <3>3. CASE (s \in AllHeld /\ q \in subs) \/ (s \in subs /\ q \in AllHeld)
      BY <1>7, <2>2, <2>4, <3>3
    <3> QED  BY <1>19, <2>4, <3>1, <3>2, <3>3
  <2> QED  BY <2>3, <2>4 DEF SubscribedOnce
<1>18. ASSUME ~Async PROVE SubscriptionAlive'
  <2> SUFFICES ASSUME NEW a \in DOMAIN subscribe_map', subscribe_map'[a].sent
               PROVE  \E s \in Subscriptions : s \in AllHeld' /\ AliasOf[s] = a
    BY DEF SubscriptionAlive
  <2>1. CASE Given(a)
    BY <1>7, <1>19, <2>1
  <2>2. CASE ~Given(a)
    <3>1. a \in DOMAIN subscribe_map /\ subscribe_map[a].sent
      BY <1>12, <2>2
    <3>2. PICK s \in Subscriptions \cap AllHeld : AliasOf[s] = a
      BY <1>18, <3>1 DEF ExoInv, SubscriptionAlive
    <3> QED  BY <1>19, <3>2
  <2> QED  BY <2>1, <2>2
<1> QED  BY <1>9, <1>10, <1>14, <1>15, <1>16, <1>17, <1>18 DEF ExoInv

-----------------------------------------------------------------------------
(***************************************************************************)
(* The user's calls, and time.                                             *)
(***************************************************************************)

LEMMA UserSteps ==
    ASSUME ExoInv, (\E d \in Data : ReadOrWrite(d)) \/ (\E a \in Alias : Subscribe(a)) \/ DelayElapse
    PROVE  ExoInv'
<1>1. /\ UNCHANGED <<held, abort, activate_state, next_state, asynch_state_event, sm_list,
                   stale, before>>
      /\ called' = NoCalls /\ delay_due' \in BOOLEAN
  BY DEF ExoInv, TypeOK, ReadOrWrite, Subscribe, DelayElapse
<1>2. PortType' /\ AllHeld' = AllHeld /\ Routed' /\ Created'
  BY <1>1, QuietLeaves DEF ExoInv, TypeOK, PortType
<1>3. request_queue' \in Seq(Data) /\ Len(request_queue') <= MaxQueue
  <2>1. CASE \E d \in Data : ReadOrWrite(d)
    <3>1. PICK d \in Data : Len(request_queue) < MaxQueue
                            /\ request_queue' = Append(request_queue, d)
      BY <2>1 DEF ReadOrWrite
    <3>2. request_queue' \in Seq(Data) /\ Len(request_queue') = Len(request_queue) + 1
      BY <3>1, AppendProperties DEF ExoInv, TypeOK
    <3> DEFINE l == Len(request_queue)
    <3>3. l \in Nat /\ l < MaxQueue /\ Len(request_queue') = l + 1 /\ MaxQueue \in Nat
      BY <3>1, <3>2, ExositeAssumption DEF ExoInv, TypeOK
    <3> HIDE DEF l
    <3>4. l + 1 <= MaxQueue
      BY <3>3
    <3> QED  BY <3>2, <3>3, <3>4
  <2>2. CASE request_queue' = request_queue
    BY <2>2 DEF ExoInv, TypeOK
  <2> QED  BY <2>1, <2>2 DEF Subscribe, DelayElapse
<1>4. /\ DOMAIN subscribe_map' \subseteq Alias
      /\ \A b \in DOMAIN subscribe_map : b \in DOMAIN subscribe_map' /\ subscribe_map'[b] = subscribe_map[b]
      /\ \A b \in DOMAIN subscribe_map' : b \in DOMAIN subscribe_map \/ subscribe_map'[b] = Unsent
  <2>1. CASE \E a \in Alias : Subscribe(a)
    BY <2>1 DEF Subscribe, ExoInv, TypeOK
  <2>2. CASE subscribe_map' = subscribe_map
    BY <2>2 DEF ExoInv, TypeOK
  <2> QED  BY <2>1, <2>2 DEF ReadOrWrite, DelayElapse
<1>5. \A b \in DOMAIN subscribe_map' : subscribe_map'[b] \in SubscribeItem
  <2>1. Unsent \in SubscribeItem
    BY DEF Unsent, SubscribeItem
  <2> QED  BY <1>4, <2>1 DEF ExoInv, TypeOK
<1>6. TypeOK'
  BY <1>1, <1>2, <1>3, <1>4, <1>5 DEF ExoInv, TypeOK
<1>7. HeldBy(next_state', AllHeld') /\ Clearing' /\ stale' = {}
  BY <1>1, <1>2 DEF ExoInv, Clearing
<1>8. ~Async => SubscribedOnce'
  BY <1>2, <1>4 DEF ExoInv, SubscribedOnce
<1>9. ~Async => SubscriptionAlive'
  BY <1>2, <1>4 DEF ExoInv, SubscriptionAlive, Unsent
<1> QED  BY <1>2, <1>6, <1>7, <1>8, <1>9 DEF ExoInv

-----------------------------------------------------------------------------
(***************************************************************************)
(* The task of a machine keeps the invariant.                              *)
(***************************************************************************)

\* SmTask, with the part of the state after each callback.
TaskEffect(m, p, t, a, status, e1, e2, e3) ==
    /\ PortTask(m, p, t, a)
    /\ p # NULL => (p \in held'[m] <=> p \in Observe /\ ~abort[m] /\ status \in {"ok", "other_2xx"})
    /\ CalledBack(Part, e1, p, status)
    /\ CalledBack(e1, e2, t, "failure")
    /\ CalledBack(e2, e3, a, "failure")
    /\ next_state' = e3.next /\ asynch_state_event' = e3.event /\ subscribe_map' = e3.map
    /\ stale' = AllHeld' \cap (IF p = Activate /\ status = "ok" THEN Req ELSE stale)
    /\ before' = before \cap (AllHeld' \X AllHeld')
    /\ UNCHANGED <<activate_state, request_queue, sm_list, delay_due>>

LEMMA TaskEffects ==
    ASSUME PortType, NEW m \in SM, SmTask(m)
    PROVE  \E p, t, a \in Req \cup {NULL} : \E status, e1, e2, e3 :
              TaskEffect(m, p, t, a, status, e1, e2, e3)
<1>1. held[m] \cup {NULL} \subseteq Req \cup {NULL}
  BY DEF PortType
<1>2. PICK p \in held[m] \cup {NULL}, t \in held[m] \cup {NULL}, a \in held[m] \cup {NULL} :
      \E status \in Statuses(p) :
        /\ PortTask(m, p, t, a)
        /\ p # NULL => (p \in held'[m] <=> p \in Observe /\ ~abort[m] /\ status \in {"ok", "other_2xx"})
        /\ \E e \in {exosite_api_callback(exosite_api_callback(exosite_api_callback(
                        Part, p, status), t, "failure"), a, "failure")} :
            /\ next_state' = e.next
            /\ asynch_state_event' = e.event
            /\ subscribe_map' = e.map
        /\ stale' = AllHeld' \cap (IF p = Activate /\ status = "ok" THEN Req ELSE stale)
        /\ before' = before \cap (AllHeld' \X AllHeld')
  BY Zenon DEF SmTask
<1>3. PICK status :
        /\ PortTask(m, p, t, a)
        /\ p # NULL => (p \in held'[m] <=> p \in Observe /\ ~abort[m] /\ status \in {"ok", "other_2xx"})
        /\ \E e \in {exosite_api_callback(exosite_api_callback(exosite_api_callback(
                        Part, p, status), t, "failure"), a, "failure")} :
            /\ next_state' = e.next
            /\ asynch_state_event' = e.event
            /\ subscribe_map' = e.map
        /\ stale' = AllHeld' \cap (IF p = Activate /\ status = "ok" THEN Req ELSE stale)
        /\ before' = before \cap (AllHeld' \X AllHeld')
  BY <1>2, Zenon
<1> DEFINE e1 == exosite_api_callback(Part, p, status)
           e2 == exosite_api_callback(e1, t, "failure")
           e3 == exosite_api_callback(e2, a, "failure")
<1>4. next_state' = e3.next /\ asynch_state_event' = e3.event /\ subscribe_map' = e3.map
  BY <1>3, Zenon
<1>5. p \in Req \cup {NULL} /\ t \in Req \cup {NULL} /\ a \in Req \cup {NULL}
  BY <1>1
<1> HIDE DEF e1, e2, e3
<1>6. IsPart(Part)
  BY DEF IsPart, Part
<1>7. CalledBack(Part, e1, p, status)
  BY <1>5, <1>6, CallbackEffect DEF e1
<1>8. IsPart(e1)
  BY <1>7 DEF CalledBack
<1>9. CalledBack(e1, e2, t, "failure")
  BY <1>5, <1>8, CallbackEffect DEF e2
<1>10. IsPart(e2)
  BY <1>9 DEF CalledBack
<1>11. CalledBack(e2, e3, a, "failure")
  BY <1>5, <1>10, CallbackEffect DEF e3
<1>12. UNCHANGED <<activate_state, request_queue, sm_list, delay_due>>
  BY DEF SmTask
<1>13. TaskEffect(m, p, t, a, status, e1, e2, e3)
  BY <1>3, <1>4, <1>7, <1>9, <1>11, <1>12, Zenon DEF TaskEffect
<1> QED  BY <1>5, <1>13

\* The subscriptions after the callbacks of a task.
LEMMA TaskMap ==
    ASSUME NEW m \in SM, NEW p \in Req \cup {NULL}, NEW t \in Req \cup {NULL},
           NEW a \in Req \cup {NULL}, NEW status, NEW e1, NEW e2, NEW e3,
           TaskEffect(m, p, t, a, status, e1, e2, e3)
    PROVE  Seen(subscribe_map, subscribe_map', AliasesOf({p, t, a}))
<1>1. Part.map = subscribe_map
  BY DEF Part
<1>2. /\ Seen(subscribe_map, e1.map, AliasesOf({p}))
      /\ Seen(e1.map, e2.map, AliasesOf({t}))
      /\ Seen(e2.map, e3.map, AliasesOf({a}))
      /\ subscribe_map' = e3.map
  BY <1>1 DEF TaskEffect, CalledBack
<1>3. Seen(subscribe_map, e2.map, AliasesOf({p} \cup {t}))
  BY <1>2, SeenBoth
<1>4. Seen(subscribe_map, e3.map, AliasesOf(({p} \cup {t}) \cup {a}))
  BY <1>2, <1>3, SeenBoth
<1>5. ({p} \cup {t}) \cup {a} = {p, t, a}
  OBVIOUS
<1> QED  BY <1>2, <1>4, <1>5

\* The state of the activation after the callbacks of a task.
LEMMA TaskState ==
    ASSUME ExoInv, NEW m \in SM, NEW p \in Req \cup {NULL}, NEW t \in Req \cup {NULL},
           NEW a \in Req \cup {NULL}, NEW status, NEW e1, NEW e2, NEW e3,
           TaskEffect(m, p, t, a, status, e1, e2, e3)
    PROVE  /\ asynch_state_event' \in BOOLEAN
           /\ Timestamp \notin {p, t, a} /\ Activate \notin {p, t, a} => next_state' = next_state
           /\ Timestamp \in {p, t, a} =>
                /\ {p, t, a} \subseteq {Timestamp, NULL}
                /\ next_state = "AS_WAIT_TIMESTAMP"
                /\ next_state' \in {"AS_INIT", "AS_SEND_GET_TIMESTAMP"}
                /\ AllHeld' = {}
           /\ Activate \in {p, t, a} =>
                /\ {p, t, a} \subseteq {Activate, NULL}
                /\ next_state = "AS_WAIT_ACTIVATE"
                /\ next_state' \in {"AS_ACTIVATED", "AS_PREPARE_ACTIVATE"}
                /\ next_state' = "AS_ACTIVATED" => ~asynch_state_event'
                /\ AllHeld' = {}
<1>1. /\ \A x \in SM : held'[x] \subseteq held[x]
      /\ p # NULL => p \in held[m] /\ (p \in held'[m] => p \in Observe)
      /\ t # NULL => t \in held[m] \ held'[m] /\ t # p
      /\ a # NULL => a \in held[m] \ held'[m] /\ a # p /\ a # t
      /\ \A x \in SM : x # m => held'[x] = held[x]
  <2>1. PortType /\ PortTask(m, p, t, a)
    BY DEF ExoInv, TypeOK, TaskEffect
  <2>2. \A x \in SM : held'[x] \subseteq held[x] /\ (x # m => held'[x] = held[x])
    BY <2>1, TaskLeaves
  <2>3. /\ p # NULL => p \in held[m] /\ (p \in held'[m] => p \in Observe)
        /\ t # NULL => t \in held[m] \ held'[m] /\ t # p
        /\ a # NULL => a \in held[m] \ held'[m] /\ a # p /\ a # t
    BY <2>1, TaskLeaves
  <2> QED  BY <2>2, <2>3
<1>2. /\ CalledBack(Part, e1, p, status)
      /\ CalledBack(e1, e2, t, "failure")
      /\ CalledBack(e2, e3, a, "failure")
      /\ next_state' = e3.next /\ asynch_state_event' = e3.event
  BY DEF TaskEffect
<1>3. Part.next = next_state /\ Part.event = asynch_state_event /\ asynch_state_event \in BOOLEAN
  BY DEF Part, ExoInv, TypeOK
<1>4. asynch_state_event' \in BOOLEAN
  BY <1>2, <1>3 DEF CalledBack
<1>5. {p, t, a} \subseteq AllHeld \cup {NULL}
  BY <1>1, InAllHeld
<1>6. Observe \subseteq Subscriptions
  BY ExositeAssumption
<1>7. ASSUME Timestamp \notin {p, t, a}, Activate \notin {p, t, a}
      PROVE  next_state' = next_state
  BY <1>2, <1>3, <1>7 DEF CalledBack
<1>8. ASSUME NEW r \in {Timestamp, Activate}, AllHeld = {r}, r \in {p, t, a}
      PROVE  /\ {p, t, a} \subseteq {r, NULL}
             /\ AllHeld' = {}
  <2>1. {p, t, a} \subseteq {r, NULL}
    BY <1>5, <1>8
  <2>2. r # NULL /\ r \notin Observe
    BY <1>6, <1>8, KindsDisjoint
  <2>3. r \in held[m] /\ r \notin held'[m]
    BY <1>1, <1>8, <2>2
  <2>4. m = MachineOf(r)
    BY <2>3 DEF ExoInv, Routed
  <2>5. \A x \in SM : x # m => r \notin held[x]
    BY <2>4 DEF ExoInv, Routed
  <2>6. \A x \in SM : r \notin held'[x]
    BY <1>1, <2>3, <2>5
  <2>7. \A x \in SM : held[x] \subseteq {r}
    BY <1>8, InAllHeld
  <2>8. \A q : q \notin AllHeld'
    BY <1>1, <2>6, <2>7, InAllHeld
  <2> QED  BY <2>1, <2>8
<1>9. ASSUME Timestamp \in {p, t, a}
      PROVE  /\ next_state = "AS_WAIT_TIMESTAMP"
             /\ AllHeld = {Timestamp}
  <2>1. Timestamp \in AllHeld
    BY <1>5, <1>9, KindsDisjoint
  <2>2. next_state \in States \ {"AS_NONE"}
    BY DEF ExoInv, TypeOK
  <2> QED  BY <2>1, <2>2, KindsDisjoint DEF ExoInv, HeldBy, States
<1>10. ASSUME Activate \in {p, t, a}
       PROVE  /\ next_state = "AS_WAIT_ACTIVATE"
              /\ AllHeld = {Activate}
  <2>1. Activate \in AllHeld
    BY <1>5, <1>10, KindsDisjoint
  <2>2. next_state \in States \ {"AS_NONE"}
    BY DEF ExoInv, TypeOK
  <2> QED  BY <2>1, <2>2, KindsDisjoint DEF ExoInv, HeldBy, States
<1>11. ASSUME Timestamp \in {p, t, a}, {p, t, a} \subseteq {Timestamp, NULL}
       PROVE  next_state' \in {"AS_INIT", "AS_SEND_GET_TIMESTAMP"}
  <2>1. NULL \notin {Timestamp, Activate} /\ Timestamp # Activate
    BY KindsDisjoint
  <2>2. CASE a = Timestamp
    BY <1>2, <2>2 DEF CalledBack
  <2>3. CASE a = NULL /\ t = Timestamp
    BY <1>2, <2>1, <2>3 DEF CalledBack
  <2>4. CASE a = NULL /\ t = NULL /\ p = Timestamp
    BY <1>2, <2>1, <2>4 DEF CalledBack
  <2> QED  BY <1>11, <2>2, <2>3, <2>4
<1>12. ASSUME Activate \in {p, t, a}, {p, t, a} \subseteq {Activate, NULL}
       PROVE  /\ next_state' \in {"AS_ACTIVATED", "AS_PREPARE_ACTIVATE"}
              /\ next_state' = "AS_ACTIVATED" => ~asynch_state_event'
  <2>1. NULL \notin {Timestamp, Activate} /\ Timestamp # Activate
    BY KindsDisjoint
  <2>2. CASE a = Activate
    BY <1>2, <2>2 DEF CalledBack
  <2>3. CASE a = NULL /\ t = Activate
    BY <1>2, <2>1, <2>3 DEF CalledBack
  <2>4. CASE a = NULL /\ t = NULL /\ p = Activate
    BY <1>2, <2>1, <2>4 DEF CalledBack
  <2> QED  BY <1>12, <2>2, <2>3, <2>4
<1>13. ASSUME Timestamp \in {p, t, a}
       PROVE  {p, t, a} \subseteq {Timestamp, NULL} /\ AllHeld' = {}
  BY <1>8, <1>9, <1>13
<1>14. ASSUME Activate \in {p, t, a}
       PROVE  {p, t, a} \subseteq {Activate, NULL} /\ AllHeld' = {}
  BY <1>8, <1>10, <1>14
<1> QED  BY <1>4, <1>7, <1>9, <1>10, <1>11, <1>12, <1>13, <1>14

LEMMA TaskSteps ==
    ASSUME ExoInv, NEW m \in SM, SmTask(m)
    PROVE  ExoInv'
<1>1. PortType
  BY DEF ExoInv, TypeOK
<1>2. PICK p \in Req \cup {NULL}, t \in Req \cup {NULL}, a \in Req \cup {NULL} :
        \E status, e1, e2, e3 : TaskEffect(m, p, t, a, status, e1, e2, e3)
  BY <1>1, TaskEffects
<1>3. PICK status, e1, e2, e3 : TaskEffect(m, p, t, a, status, e1, e2, e3)
  BY <1>2
<1>4. /\ PortTask(m, p, t, a)
      /\ p # NULL => (p \in held'[m] <=> p \in Observe /\ ~abort[m] /\ status \in {"ok", "other_2xx"})
      /\ stale' = AllHeld' \cap (IF p = Activate /\ status = "ok" THEN Req ELSE stale)
      /\ before' = before \cap (AllHeld' \X AllHeld')
      /\ UNCHANGED <<activate_state, request_queue, sm_list, delay_due>>
  BY <1>3 DEF TaskEffect
<1>a. PortType /\ PortTask(m, p, t, a)
  BY <1>1, <1>4
<1>b. /\ PortType'
      /\ \A x \in SM : held'[x] \subseteq held[x] /\ (x # m => held'[x] = held[x])
      /\ \A x \in SM : abort[x] => abort'[x] \/ held'[x] = {}
      /\ called' = [response |-> p, timeout |-> t, aborted |-> a]
      /\ p # NULL => p \in held[m] /\ (p \in held'[m] => p \in Observe)
      /\ t # NULL => t \in held[m] \ held'[m] /\ t # p
      /\ a # NULL => a \in held[m] \ held'[m] /\ a # p /\ a # t
      /\ p = NULL /\ t = NULL /\ a = NULL => held' = held
      /\ ~Async => \E x \in held[m] \cup {NULL} :
                      held'[m] = held[m] \ {p, t, a, x} /\ (x # NULL => a # NULL)
  BY <1>a, TaskLeaves
<1>5. /\ PortType'
      /\ \A x \in SM : held'[x] \subseteq held[x] /\ (x # m => held'[x] = held[x])
      /\ \A x \in SM : abort[x] => abort'[x] \/ held'[x] = {}
  BY <1>b
<1>6. /\ p # NULL => p \in held[m]
      /\ t # NULL => t \in held[m] \ held'[m] /\ t # p
      /\ a # NULL => a \in held[m] \ held'[m] /\ a # p /\ a # t
  BY <1>b
<1>7. /\ p = NULL /\ t = NULL /\ a = NULL => held' = held
      /\ ~Async => \E x \in held[m] \cup {NULL} :
                      held'[m] = held[m] \ {p, t, a, x} /\ (x # NULL => a # NULL)
  BY <1>b
<1>8. AllHeld' \subseteq AllHeld
  BY <1>5, InAllHeld
<1>9. Routed' /\ Created'
  BY <1>4, <1>5 DEF ExoInv, Routed, Created
<1>10. /\ asynch_state_event' \in BOOLEAN
       /\ Timestamp \notin {p, t, a} /\ Activate \notin {p, t, a} => next_state' = next_state
       /\ Timestamp \in {p, t, a} =>
            next_state' \in {"AS_INIT", "AS_SEND_GET_TIMESTAMP"} /\ AllHeld' = {}
       /\ Activate \in {p, t, a} =>
            next_state' \in {"AS_ACTIVATED", "AS_PREPARE_ACTIVATE"} /\ AllHeld' = {}
  BY <1>3, TaskState
<1>11. stale' = {}
  BY <1>4, <1>10 DEF ExoInv
<1>12. Seen(subscribe_map, subscribe_map', AliasesOf({p, t, a}))
  BY <1>3, TaskMap
<1>14. TypeOK'
  <2>2. /\ DOMAIN subscribe_map' \subseteq Alias
        /\ \A z \in DOMAIN subscribe_map' : subscribe_map'[z] \in SubscribeItem
    BY <1>12 DEF Seen, ExoInv, TypeOK
  <2>3. next_state' \in States \ {"AS_NONE"}
    BY <1>10 DEF ExoInv, TypeOK, States
  <2> QED  BY <1>4, <1>5, <1>10, <1>11, <2>2, <2>3 DEF ExoInv, TypeOK
<1>15. HeldBy(next_state', AllHeld')
  <2>1. CASE AllHeld' = {} /\ next_state' \notin {"AS_WAIT_TIMESTAMP", "AS_WAIT_ACTIVATE"}
    BY <2>1 DEF HeldBy
  <2>2. CASE Timestamp \notin {p, t, a} /\ Activate \notin {p, t, a}
    <3>1. CASE next_state \in {"AS_WAIT_TIMESTAMP", "AS_WAIT_ACTIVATE"}
      <4>1. AllHeld \subseteq {Timestamp, Activate}
        BY <3>1 DEF ExoInv, HeldBy
      <4>2. p = NULL /\ t = NULL /\ a = NULL
        BY <1>6, <2>2, <4>1, InAllHeld
      <4>3. AllHeld' = AllHeld
        BY <1>7, <4>2 DEF AllHeld
      <4> QED  BY <1>10, <2>2, <4>3 DEF ExoInv
    <3>2. CASE next_state \notin {"AS_WAIT_TIMESTAMP", "AS_WAIT_ACTIVATE"}
      BY <1>8, <1>10, <2>2, <3>2 DEF ExoInv, HeldBy
    <3> QED  BY <3>1, <3>2
  <2> QED  BY <1>10, <2>1, <2>2
<1>16. Clearing'
  <2> SUFFICES ASSUME next_state' = "AS_SEND_ACTIVATE", NEW x \in SM
               PROVE  held'[x] = {} \/ abort'[x]
    BY DEF Clearing
  <2>1. next_state = "AS_SEND_ACTIVATE"
    BY <1>10
  <2>2. held[x] = {} \/ abort[x]
    BY <2>1 DEF ExoInv, Clearing
  <2> QED  BY <1>5, <2>2
<1>20. ASSUME ~Async PROVE \A r \in {p, t, a} \ {NULL} : r \in held[m] \ held'[m]
  <2>1. Observe = {}
    BY <1>20, ExositeAssumption
  <2> QED  BY <1>4, <1>6, <2>1
<1>21. ASSUME ~Async, NEW z \in DOMAIN subscribe_map
       PROVE  /\ z \in AliasesOf({p, t, a}) => subscribe_map'[z] = Unsent
              /\ z \notin AliasesOf({p, t, a}) => subscribe_map'[z] = subscribe_map[z]
              /\ DOMAIN subscribe_map' = DOMAIN subscribe_map
  BY <1>12, <1>21 DEF Seen
<1>22. ASSUME ~Async, NEW z \in AliasesOf({p, t, a})
       PROVE  \E r \in Subscriptions : /\ AliasOf[r] = z /\ r \in {p, t, a}
                                      /\ r \in held[m] /\ r \notin held'[m]
  BY <1>20, <1>22, KindsDisjoint DEF AliasesOf
<1>17. ASSUME ~Async PROVE SubscribedOnce'
  <2>1. SubscribedOnce
    BY <1>17 DEF ExoInv
  <2>2. ASSUME NEW s \in Subscriptions, s \in AllHeld'
        PROVE  AliasOf[s] \in DOMAIN subscribe_map' /\ subscribe_map'[AliasOf[s]].sent
    <3>1. s \in AllHeld /\ AliasOf[s] \in DOMAIN subscribe_map /\ subscribe_map[AliasOf[s]].sent
      BY <1>8, <2>1, <2>2 DEF SubscribedOnce
    <3>2. AliasOf[s] \notin AliasesOf({p, t, a})
      <4> SUFFICES ASSUME AliasOf[s] \in AliasesOf({p, t, a}) PROVE FALSE
        OBVIOUS
      <4>1. PICK r \in Subscriptions : /\ AliasOf[r] = AliasOf[s]
                                       /\ r \in held[m] /\ r \notin held'[m]
        BY <1>17, <1>22
      <4>2. r = s
        BY <2>1, <3>1, <4>1, InAllHeld DEF SubscribedOnce
      <4>3. PICK x \in SM : s \in held'[x]
        BY <2>2, InAllHeld
      <4>4. x = m
        BY <1>5, <4>1, <4>2, <4>3 DEF ExoInv, Routed
      <4> QED  BY <4>1, <4>2, <4>3, <4>4
    <3> QED  BY <1>17, <1>21, <3>1, <3>2
  <2>3. ASSUME NEW s \in Subscriptions, s \in AllHeld', NEW q \in Subscriptions, q \in AllHeld',
               AliasOf[q] = AliasOf[s]
        PROVE  q = s
    BY <1>8, <2>1, <2>3 DEF SubscribedOnce
  <2> QED  BY <2>2, <2>3 DEF SubscribedOnce
<1>18. ASSUME ~Async PROVE SubscriptionAlive'
  <2> SUFFICES ASSUME NEW z \in DOMAIN subscribe_map', subscribe_map'[z].sent
               PROVE  \E s \in Subscriptions : s \in AllHeld' /\ AliasOf[s] = z
    BY DEF SubscriptionAlive
  <2>1. /\ z \in DOMAIN subscribe_map /\ subscribe_map[z].sent
        /\ z \notin AliasesOf({p, t, a})
    <3>1. z \in DOMAIN subscribe_map
      BY <1>12 DEF Seen
    <3> QED  BY <1>18, <1>21, <3>1 DEF Unsent
  <2>2. PICK s \in Subscriptions \cap AllHeld : AliasOf[s] = z
    BY <1>18, <2>1 DEF ExoInv, SubscriptionAlive
  <2>3. s \notin {p, t, a}
    BY <2>1, <2>2 DEF AliasesOf
  <2>4. PICK x \in SM : s \in held[x]
    BY <2>2, InAllHeld
  <2>5. CASE x # m
    BY <1>5, <2>2, <2>4, <2>5, InAllHeld
  <2>6. CASE x = m
    <3>1. PICK y \in held[m] \cup {NULL} :
             held'[m] = held[m] \ {p, t, a, y} /\ (y # NULL => a # NULL)
      BY <1>7, <1>18
    <3>2. s # y
      <4> SUFFICES ASSUME s = y PROVE FALSE
        OBVIOUS
      <4>1. a # NULL /\ a \in held[m]
        BY <1>6, <2>2, <3>1, KindsDisjoint
      <4>2. MachineOf(a) = MachineOf(s) /\ a \in Req
        BY <2>4, <2>6, <4>1 DEF ExoInv, Routed
      <4>3. a \in Subscriptions /\ AliasOf[a] = z
        BY <1>18, <2>2, <4>2, MachineOfType
      <4> QED  BY <2>1, <4>3 DEF AliasesOf
    <3>3. s \in held'[m]
      BY <2>3, <2>4, <2>6, <3>1, <3>2
    <3> QED  BY <2>2, <3>3, InAllHeld
  <2> QED  BY <2>5, <2>6
<1> QED  BY <1>9, <1>11, <1>14, <1>15, <1>16, <1>17, <1>18 DEF ExoInv

-----------------------------------------------------------------------------
(***************************************************************************)
(* The theorems.                                                           *)
(***************************************************************************)

LEMMA ExoInvStep == ExoInv /\ [Next]_vars => ExoInv'
<1> SUFFICES ASSUME ExoInv, [Next]_vars PROVE ExoInv'
  OBVIOUS
<1>1. CASE InitState \/ Start \/ PrepareActivate \/ Deactivate \/ Idle
  BY <1>1, StateSteps
<1>2. CASE SendGetTimestamp \/ SendActivate \/ Refused
  BY <1>2, SendSteps
<1>3. CASE Activated
  BY <1>3, ActivatedStep
<1>4. CASE \E m \in SM : SmTask(m)
  BY <1>4, TaskSteps
<1>5. CASE (\E d \in Data : ReadOrWrite(d)) \/ (\E a \in Alias : Subscribe(a)) \/ DelayElapse
  BY <1>5, UserSteps
<1>6. CASE UNCHANGED vars
  <2>1. UNCHANGED <<held, abort, called, activate_state, next_state, asynch_state_event,
                    request_queue, subscribe_map, sm_list, delay_due, stale, before>>
    BY <1>6 DEF vars, port, exo
  <2>2. TypeOK' /\ AllHeld' = AllHeld
    BY <2>1 DEF ExoInv, TypeOK, PortType, AllHeld
  <2>3. Routed' /\ Created' /\ Clearing'
    BY <2>1 DEF ExoInv, Routed, Created, Clearing
  <2>4. ~Async => SubscribedOnce' /\ SubscriptionAlive'
    BY <2>1, <2>2, SubscriptionsKept
  <2> QED  BY <2>1, <2>2, <2>3, <2>4 DEF ExoInv
<1> QED  BY <1>1, <1>2, <1>3, <1>4, <1>5, <1>6 DEF Next

LEMMA ExoInvAlways == Spec => []ExoInv
BY InitExoInv, ExoInvStep, PTL DEF Spec

\* Every variable of the activation keeps its type, the queue its limit.
THEOREM ExositeTypes == Spec => []TypeOK
<1>1. ExoInv => TypeOK
  BY DEF ExoInv
<1> QED  BY <1>1, ExoInvAlways, PTL

\* The device waits for the time or for its activation exactly while that request is
\* held by a machine, and nothing else is held then; whatever the machines answer,
\* time out or abort.
THEOREM OneWait == Spec => []WaitsForOne
<1>1. ExoInv => WaitsForOne
  <2> SUFFICES ASSUME ExoInv PROVE WaitsForOne
    OBVIOUS
  <2>1. next_state \in States \ {"AS_NONE"}
    BY DEF ExoInv, TypeOK
  <2> QED  BY <2>1, KindsDisjoint DEF ExoInv, WaitsForOne, HeldBy, States
<1> QED  BY <1>1, ExoInvAlways, PTL

\* A read, a write or a subscription with a replaced CIK is never held: the clear before
\* an activation takes all of them back before the activation is sent.
THEOREM OnlyFresh == Spec => []FreshRequests
<1>1. ExoInv => FreshRequests
  <2> SUFFICES ASSUME ExoInv PROVE FreshRequests
    OBVIOUS
  <2>1. next_state \in States \ {"AS_NONE"}
    BY DEF ExoInv, TypeOK
  <2> QED  BY <2>1, KindsDisjoint DEF ExoInv, FreshRequests, HeldBy, States
<1> QED  BY <1>1, ExoInvAlways, PTL

\* Over HTTP activate_sm hands a subscription over only when no machine holds it: its
\* callback, which unmarks it, is made when the long poll machine lets it go. Over CoAP
\* a machine keeps a resource whose answer has a code of class 2 that on_subscribe takes
\* for an error, and the same arguments are handed over again.
THEOREM SentOnce == ASSUME ~Async PROVE Spec => []SubscribedOnce
<1>1. ExoInv => SubscribedOnce
  BY DEF ExoInv
<1> QED  BY <1>1, ExoInvAlways, PTL

\* Over HTTP a subscription that is marked as sent is held by its long poll machine.
\* Over CoAP this does not hold: a request can be lost without a callback.
THEOREM LongPollAlive == ASSUME ~Async PROVE Spec => []SubscriptionAlive
<1>1. ExoInv => SubscriptionAlive
  BY DEF ExoInv
<1> QED  BY <1>1, ExoInvAlways, PTL

\* A successful activation finds no old request held and leaves no event behind that
\* would force the next one.
THEOREM ActivationIsClean == Spec => CleanStart
<1>1. ASSUME ExoInv, [Next]_vars, next_state = "AS_WAIT_ACTIVATE", next_state' = "AS_ACTIVATED"
      PROVE  AllHeld' = {} /\ ~asynch_state_event'
  <2>1. PICK m \in SM : SmTask(m)
    BY <1>1 DEF Next, vars, exo, SendGetTimestamp, InitState, Start, PrepareActivate,
                SendActivate, Deactivate, Activated, Refused, Idle, Enter, ReadOrWrite,
                Subscribe, DelayElapse
  <2>2. PortType
    BY <1>1 DEF ExoInv, TypeOK
  <2>3. PICK p \in Req \cup {NULL}, t \in Req \cup {NULL}, a \in Req \cup {NULL} :
          \E status, e1, e2, e3 : TaskEffect(m, p, t, a, status, e1, e2, e3)
    BY <2>1, <2>2, TaskEffects
  <2>4. PICK status, e1, e2, e3 : TaskEffect(m, p, t, a, status, e1, e2, e3)
    BY <2>3
  <2>5. Activate \in {p, t, a}
    BY <1>1, <2>4, TaskState
  <2> QED  BY <1>1, <2>4, <2>5, TaskState
<1>2. ExoInv /\ [Next]_vars =>
        [next_state = "AS_WAIT_ACTIVATE" /\ next_state' = "AS_ACTIVATED" =>
            AllHeld' = {} /\ ~asynch_state_event']_vars
  BY <1>1
<1> QED  BY <1>2, ExoInvAlways, PTL DEF Spec, CleanStart

=============================================================================
