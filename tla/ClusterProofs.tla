--------------------------- MODULE ClusterProofs ----------------------------
(***************************************************************************)
(* Proofs about Cluster, for all sets of goroutines and of names.          *)
(***************************************************************************)
EXTENDS Cluster, TLAPS

\* A client has a Dial behind it from the moment its Connect goes on to store it;
\* so has each client of the map and each one a user has found.
DialInv ==
    /\ \A k \in Connectors :
          /\ at[k] \in {"idle", "check", "make", "look", "dial"} => session[k] = "undialed"
          /\ at[k] \in {"store", "storing"} => session[k] # "undialed"
    /\ \A n \in DOMAIN cClient : session[cClient[n]] # "undialed"
    /\ \A u \in Users : \A c \in used[u] : session[c] # "undialed"

\* A user has an outcome once it is done, and found its client before that.
OutcomeInv ==
    \A u \in Users :
        /\ outcome[u] = "open" <=> at[u] # "done"
        /\ outcome[u] = "nil session" => \E c \in used[u] : session[c] = "failed"

\* Past MakeMap there is a map.
MadeInv == \A k \in Connectors : at[k] \in {"look", "dial", "store", "storing"} => made

\* While Connects do not overlap one runs at a time; it makes the map only if there is
\* none, and dials and stores only for a name the map has no client for.
SerialInv ==
    /\ \A j, k \in Connectors : Connecting(j) /\ Connecting(k) => j = k
    /\ \A k \in Connectors : at[k] = "make" => ~made
    /\ \A k \in Connectors :
          at[k] \in {"dial", "store", "storing"} => NameOf[k] \notin DOMAIN cClient
    /\ \A k \in Connectors :
          at[k] = "done" /\ session[k] = "connected" =>
              NameOf[k] \in DOMAIN cClient /\ cClient[NameOf[k]] = k

ClusterInv ==
    /\ TypeOK
    /\ DialInv
    /\ OutcomeInv
    /\ MadeInv
    /\ overlapped \/ fault \/ SerialInv
-----------------------------------------------------------------------------
LEMMA InitInv == Init => ClusterInv
  BY ClusterAssumption DEF Init, ClusterInv, TypeOK, DialInv, OutcomeInv, MadeInv, SerialInv,
     Connecting, Empty, Pcs

\* A read moves its goroutine on or ends the run.
LEMMA ReadsTo ==
  ASSUME NEW g, NEW pc, Reads(g, pc)
  PROVE  /\ at' = at \/ at' = [at EXCEPT ![g] = pc]
         /\ fault' = TRUE \/ (fault' = fault /\ at' = [at EXCEPT ![g] = pc])
  BY DEF Reads, Goto

\* What a user's lookup finds.
LEMMA FindFinds ==
  ASSUME NEW u \in Users, Find(u)
  PROVE  \E found \in SUBSET Connectors :
             /\ \A c \in found : NameOf[u] \in DOMAIN cClient /\ cClient[NameOf[u]] = c
             /\ \/ used' = used /\ at' = at /\ outcome' = outcome
                \/ /\ used' = [used EXCEPT ![u] = found]
                   /\ at' = [at EXCEPT ![u] = IF found = {} THEN "done" ELSE "call"]
                   /\ outcome' = IF found = {} THEN [outcome EXCEPT ![u] = "cannot find server"]
                                              ELSE outcome
<1> DEFINE found == {c \in Connectors : NameOf[u] \in DOMAIN cClient /\ cClient[NameOf[u]] = c}
<1>1. \/ used' = used /\ at' = at /\ outcome' = outcome
      \/ /\ used' = [used EXCEPT ![u] = found]
         /\ at' = [at EXCEPT ![u] = IF found = {} THEN "done" ELSE "call"]
         /\ outcome' = IF found = {} THEN [outcome EXCEPT ![u] = "cannot find server"] ELSE outcome
  BY DEF Find, Goto
<1>2. found \in SUBSET Connectors
  OBVIOUS
<1>3. \A c \in found : NameOf[u] \in DOMAIN cClient /\ cClient[NameOf[u]] = c
  OBVIOUS
<1> HIDE DEF found
<1> QED BY <1>1, <1>2, <1>3

\* Types.
LEMMA TypeStep == TypeOK /\ MadeInv /\ [Next]_vars => TypeOK'
<1> SUFFICES ASSUME TypeOK, MadeInv, [Next]_vars PROVE TypeOK'
  OBVIOUS
<1> USE ClusterAssumption DEF TypeOK, Pcs, Goto, Reads, Writing
<1>1. ASSUME NEW k \in Connectors, ConnectCall(k) \/ CheckMap(k) \/ Look(k) \/ StoreBegin(k)
      PROVE  TypeOK'
  BY <1>1 DEF ConnectCall, CheckMap, Look, StoreBegin
<1>2. ASSUME NEW k \in Connectors, MakeMap(k) PROVE TypeOK'
  BY <1>2 DEF MakeMap, Empty
<1>3. ASSUME NEW k \in Connectors, Dial(k) PROVE TypeOK'
  BY <1>3 DEF Dial
<1>4. ASSUME NEW k \in Connectors, StoreEnd(k) PROVE TypeOK'
  BY <1>4 DEF StoreEnd, MadeInv
<1>5. ASSUME NEW u \in Users, UserCall(u) PROVE TypeOK'
  BY <1>5 DEF UserCall
<1>6. ASSUME NEW u \in Users, Find(u) PROVE TypeOK'
  <2>1. PICK found \in SUBSET Connectors :
             /\ \A c \in found : NameOf[u] \in DOMAIN cClient /\ cClient[NameOf[u]] = c
             /\ \/ used' = used /\ at' = at /\ outcome' = outcome
                \/ /\ used' = [used EXCEPT ![u] = found]
                   /\ at' = [at EXCEPT ![u] = IF found = {} THEN "done" ELSE "call"]
                   /\ outcome' = IF found = {} THEN [outcome EXCEPT ![u] = "cannot find server"]
                                              ELSE outcome
    BY <1>6, FindFinds
  <2>t. /\ at \in [Connectors \cup Users -> Pcs]
        /\ used \in [Users -> SUBSET Connectors]
        /\ outcome \in [Users -> {"open", "cannot find server", "nil session", "called"}]
    OBVIOUS
  <2>p. "done" \in Pcs /\ "call" \in Pcs
    OBVIOUS
  <2> HIDE DEF TypeOK, Pcs
  <2>2. used' \in [Users -> SUBSET Connectors]
    BY <2>1, <2>t
  <2>3. at' \in [Connectors \cup Users -> Pcs]
    BY <2>1, <2>t, <2>p, ZenonT(40)
  <2>4. outcome' \in [Users -> {"open", "cannot find server", "nil session", "called"}]
    BY <2>1, <2>t
  <2>5. fault' \in BOOLEAN
    BY <1>6 DEF Find, TypeOK
  <2> QED BY <1>6, <2>2, <2>3, <2>4, <2>5 DEF Find, TypeOK
<1>7. ASSUME NEW u \in Users, Use(u) PROVE TypeOK'
  BY <1>7 DEF Use
<1>8. ASSUME NEW n \in Names, ServerChanges(n) PROVE TypeOK'
  BY <1>8 DEF ServerChanges
<1>9. CASE UNCHANGED vars
  BY <1>9 DEF vars
<1> QED BY <1>1, <1>2, <1>3, <1>4, <1>5, <1>6, <1>7, <1>8, <1>9 DEF Next, Connect, Call

\* Dials and the clients that were dialled.
LEMMA DialStep == TypeOK /\ DialInv /\ [Next]_vars => DialInv'
<1> SUFFICES ASSUME TypeOK, DialInv, [Next]_vars PROVE DialInv'
  OBVIOUS
<1> USE ClusterAssumption DEF TypeOK, DialInv, Goto, Reads, Writing
<1>1. ASSUME NEW k \in Connectors, ConnectCall(k) \/ CheckMap(k) \/ Look(k) \/ StoreBegin(k)
      PROVE  DialInv'
  BY <1>1, ZenonT(40) DEF ConnectCall, CheckMap, Look, StoreBegin
<1>2. ASSUME NEW k \in Connectors, MakeMap(k) PROVE DialInv'
  BY <1>2 DEF MakeMap, Empty
<1>3. ASSUME NEW k \in Connectors, Dial(k) PROVE DialInv'
  BY <1>3 DEF Dial
<1>4. ASSUME NEW k \in Connectors, StoreEnd(k) PROVE DialInv'
  BY <1>4 DEF StoreEnd
<1>5. ASSUME NEW u \in Users, UserCall(u) PROVE DialInv'
  BY <1>5 DEF UserCall
<1>6. ASSUME NEW u \in Users, Find(u) PROVE DialInv'
  <2>1. PICK found \in SUBSET Connectors :
             /\ \A c \in found : NameOf[u] \in DOMAIN cClient /\ cClient[NameOf[u]] = c
             /\ \/ used' = used /\ at' = at /\ outcome' = outcome
                \/ /\ used' = [used EXCEPT ![u] = found]
                   /\ at' = [at EXCEPT ![u] = IF found = {} THEN "done" ELSE "call"]
                   /\ outcome' = IF found = {} THEN [outcome EXCEPT ![u] = "cannot find server"]
                                              ELSE outcome
    BY <1>6, FindFinds
  <2>2. session' = session /\ cClient' = cClient
    BY <1>6 DEF Find
  <2>3. \A k \in Connectors : at'[k] = at[k]
    BY <2>1
  <2>4. \A v \in Users : \A c \in used'[v] : c \in used[v] \/ c \in found
    BY <2>1
  <2>5. \A c \in found : session[c] # "undialed"
    BY <2>1
  <2> QED BY <2>2, <2>3, <2>4, <2>5
<1>7. ASSUME NEW u \in Users, Use(u) PROVE DialInv'
  BY <1>7 DEF Use
<1>8. ASSUME NEW n \in Names, ServerChanges(n) PROVE DialInv'
  BY <1>8 DEF ServerChanges
<1>9. CASE UNCHANGED vars
  BY <1>9 DEF vars
<1> QED BY <1>1, <1>2, <1>3, <1>4, <1>5, <1>6, <1>7, <1>8, <1>9 DEF Next, Connect, Call

\* Outcomes.
LEMMA OutcomeStep == TypeOK /\ DialInv /\ OutcomeInv /\ [Next]_vars => OutcomeInv'
<1> SUFFICES ASSUME TypeOK, DialInv, OutcomeInv, [Next]_vars PROVE OutcomeInv'
  OBVIOUS
<1> USE ClusterAssumption DEF TypeOK, OutcomeInv, Goto, Reads, Writing
<1>1. ASSUME NEW k \in Connectors, Connect(k), ~Dial(k) PROVE OutcomeInv'
  <2>1. session' = session /\ used' = used /\ outcome' = outcome
    BY <1>1 DEF Connect, ConnectCall, CheckMap, MakeMap, Look, StoreBegin, StoreEnd
  <2> DEFINE Moved == at' = at \/ \E pc \in Pcs : at' = [at EXCEPT ![k] = pc]
  <2>2. Moved
    <3>1. CASE Look(k) \/ StoreBegin(k)
      <4>1. ASSUME NEW pc \in Pcs, Reads(k, pc) PROVE Moved
        BY <4>1, ReadsTo
      <4>2. "done" \in Pcs /\ "dial" \in Pcs /\ "storing" \in Pcs
        BY DEF Pcs
      <4>3. Reads(k, "done") \/ Reads(k, "dial") \/ Reads(k, "storing")
        BY <3>1 DEF Look, StoreBegin
      <4> QED BY <4>1, <4>2, <4>3
    <3>2. CASE ConnectCall(k) \/ CheckMap(k) \/ MakeMap(k) \/ StoreEnd(k)
      <4>1. PICK pc \in {"check", "look", "make", "done"} : at' = [at EXCEPT ![k] = pc]
        BY <3>2 DEF ConnectCall, CheckMap, MakeMap, StoreEnd
      <4>2. pc \in Pcs
        BY DEF Pcs
      <4> QED BY <4>1, <4>2
    <3> QED BY <1>1, <3>1, <3>2 DEF Connect
  <2>3. \A u \in Users : at'[u] = at[u]
    BY <2>2
  <2> QED BY <2>1, <2>3
<1>3. ASSUME NEW k \in Connectors, Dial(k) PROVE OutcomeInv'
  BY <1>3 DEF Dial, DialInv
<1>5. ASSUME NEW u \in Users, UserCall(u) PROVE OutcomeInv'
  BY <1>5 DEF UserCall
<1>6. ASSUME NEW u \in Users, Find(u) PROVE OutcomeInv'
  <2>1. PICK found \in SUBSET Connectors :
             /\ \A c \in found : NameOf[u] \in DOMAIN cClient /\ cClient[NameOf[u]] = c
             /\ \/ used' = used /\ at' = at /\ outcome' = outcome
                \/ /\ used' = [used EXCEPT ![u] = found]
                   /\ at' = [at EXCEPT ![u] = IF found = {} THEN "done" ELSE "call"]
                   /\ outcome' = IF found = {} THEN [outcome EXCEPT ![u] = "cannot find server"]
                                              ELSE outcome
    BY <1>6, FindFinds
  <2>2. session' = session /\ at[u] = "find" /\ outcome[u] = "open"
    BY <1>6 DEF Find
  <2>t. /\ at \in [Connectors \cup Users -> Pcs]
        /\ used \in [Users -> SUBSET Connectors]
        /\ outcome \in [Users -> {"open", "cannot find server", "nil session", "called"}]
    OBVIOUS
  <2> HIDE DEF TypeOK
  <2>3. \A v \in Users \ {u} : at'[v] = at[v] /\ outcome'[v] = outcome[v] /\ used'[v] = used[v]
    <3>1. \A v \in Users \ {u} : at'[v] = at[v]
      BY <2>1, <2>t
    <3>2. \A v \in Users \ {u} : used'[v] = used[v]
      BY <2>1, <2>t, ZenonT(40)
    <3>3. \A v \in Users \ {u} : outcome'[v] = outcome[v]
      <4>1. outcome' = outcome \/ outcome' = [outcome EXCEPT ![u] = "cannot find server"]
        BY <2>1, Zenon
      <4> QED BY <2>t, <4>1
    <3> QED BY <3>1, <3>2, <3>3
  <2>4. outcome'[u] # "nil session" /\ (outcome'[u] = "open" <=> at'[u] # "done")
    <3>1. CASE at' = at /\ outcome' = outcome
      BY <2>2, <3>1
    <3>2. CASE found = {} /\ at' = [at EXCEPT ![u] = "done"]
                         /\ outcome' = [outcome EXCEPT ![u] = "cannot find server"]
      BY <2>t, <3>2
    <3>3. CASE at' = [at EXCEPT ![u] = "call"] /\ outcome' = outcome
      BY <2>2, <2>t, <3>3
    <3> QED BY <2>1, <3>1, <3>2, <3>3
  <2> QED BY <2>2, <2>3, <2>4
<1>7. ASSUME NEW u \in Users, Use(u) PROVE OutcomeInv'
  <2>1. PICK c \in used[u] :
          outcome' = [outcome EXCEPT ![u] = IF session[c] = "connected" THEN "called"
                                                                        ELSE "nil session"]
    BY <1>7 DEF Use
  <2>3. session[c] # "connected" => session[c] = "failed"
    <3>1. c \in Connectors /\ session[c] # "undialed"
      BY DEF DialInv
    <3>2. session \in [Connectors -> {"undialed", "failed", "connected"}]
      OBVIOUS
    <3> QED BY <3>1, <3>2
  <2>4. \A v \in Users \ {u} : at'[v] = at[v] /\ outcome'[v] = outcome[v]
    BY <1>7, <2>1 DEF Use
  <2>5. at'[u] = "done" /\ outcome'[u] # "open"
    BY <1>7, <2>1 DEF Use
  <2>6. outcome'[u] = "nil session" => session[c] = "failed"
    BY <2>1, <2>3
  <2>7. session' = session /\ used' = used
    BY <1>7 DEF Use
  <2> QED BY <2>4, <2>5, <2>6, <2>7
<1>8. ASSUME NEW n \in Names, ServerChanges(n) PROVE OutcomeInv'
  BY <1>8 DEF ServerChanges
<1>9. CASE UNCHANGED vars
  BY <1>9 DEF vars
<1> QED BY <1>1, <1>3, <1>5, <1>6, <1>7, <1>8, <1>9 DEF Next, Call

\* The map is made before it is used.
LEMMA MadeStep == TypeOK /\ MadeInv /\ [Next]_vars => MadeInv'
  BY ClusterAssumption DEF TypeOK, MadeInv, Goto, Reads, Writing, Next, Connect, Call, ConnectCall,
     CheckMap, MakeMap, Look, Dial, StoreBegin, StoreEnd, UserCall, Find, Use, ServerChanges, vars

\* One Connect at a time.
LEMMA SerialStep ==
  TypeOK /\ DialInv /\ (overlapped \/ fault \/ SerialInv) /\ [Next]_vars
      => (overlapped \/ fault \/ SerialInv)'
<1> SUFFICES ASSUME TypeOK, DialInv, overlapped \/ fault \/ SerialInv, [Next]_vars,
                    ~overlapped', ~fault'
             PROVE  SerialInv'
  OBVIOUS
<1>0. ~overlapped /\ ~fault
  <2>1. ASSUME NEW k \in Connectors, Connect(k) PROVE ~overlapped /\ ~fault
    <3>1. CASE ConnectCall(k)
      BY <3>1, Zenon DEF ConnectCall
    <3>2. CASE ~ConnectCall(k)
      <4>1. ~fault
        BY <2>1, <3>2, Zenon DEF Connect, CheckMap, MakeMap, Look, Dial, StoreBegin, StoreEnd
      <4>2. overlapped' = overlapped
        BY <2>1, <3>2 DEF Connect, CheckMap, MakeMap, Look, Dial, StoreBegin, StoreEnd
      <4> QED BY <4>1, <4>2
    <3> QED BY <3>1, <3>2
  <2>2. ASSUME NEW u \in Users, Call(u) PROVE ~overlapped /\ ~fault
    <3>1. ~fault
      BY <2>2, Zenon DEF Call, UserCall, Find, Use
    <3>2. overlapped' = overlapped
      BY <2>2 DEF Call, UserCall, Find, Use
    <3> QED BY <3>1, <3>2
  <2>3. ASSUME NEW n \in Names, ServerChanges(n) PROVE ~overlapped /\ ~fault
    BY <2>3 DEF ServerChanges
  <2>4. CASE UNCHANGED vars
    BY <2>4 DEF vars
  <2> QED BY <2>1, <2>2, <2>3, <2>4 DEF Next
<1>s. SerialInv
  BY <1>0
<1> USE <1>s, ClusterAssumption DEF TypeOK, SerialInv, Connecting, Goto, Reads, Writing
<1>1. ASSUME NEW k \in Connectors, ConnectCall(k) PROVE SerialInv'
  BY <1>1 DEF ConnectCall, DialInv
<1>2. ASSUME NEW k \in Connectors, CheckMap(k) PROVE SerialInv'
  BY <1>2 DEF CheckMap
<1>10. ASSUME NEW k \in Connectors, StoreBegin(k) PROVE SerialInv'
  <2>1. at' = [at EXCEPT ![k] = "storing"]
    BY <1>10, ReadsTo DEF StoreBegin
  <2> QED BY <1>10, <2>1 DEF StoreBegin
<1>3. ASSUME NEW k \in Connectors, MakeMap(k) PROVE SerialInv'
  BY <1>3 DEF MakeMap, Empty
<1>4. ASSUME NEW k \in Connectors, Look(k) PROVE SerialInv'
  <2> DEFINE pc == IF NameOf[k] \in DOMAIN cClient THEN "done" ELSE "dial"
  <2>1. at' = [at EXCEPT ![k] = pc]
    BY <1>4, ReadsTo DEF Look
  <2>2. session[k] = "undialed"
    BY <1>4 DEF Look, DialInv
  <2> QED BY <1>4, <2>1, <2>2 DEF Look
<1>5. ASSUME NEW k \in Connectors, Dial(k) PROVE SerialInv'
  BY <1>5 DEF Dial
<1>6. ASSUME NEW k \in Connectors, StoreEnd(k) PROVE SerialInv'
  BY <1>6 DEF StoreEnd
<1>7. ASSUME NEW u \in Users, Call(u) PROVE SerialInv'
  <2>1. cClient' = cClient /\ made' = made /\ session' = session
    BY <1>7 DEF Call, UserCall, Find, Use
  <2>2. \A k \in Connectors : at'[k] = at[k]
    <3>1. at \in [Connectors \cup Users -> Pcs]
      OBVIOUS
    <3>2. at' = at \/ \E pc : at' = [at EXCEPT ![u] = pc]
      <4>1. CASE Find(u)
        BY <4>1, FindFinds
      <4>2. CASE UserCall(u) \/ Use(u)
        BY <4>2 DEF UserCall, Use
      <4> QED BY <1>7, <4>1, <4>2 DEF Call
    <3> HIDE DEF TypeOK, Pcs
    <3> QED BY <3>1, <3>2
  <2> QED BY <2>1, <2>2
<1>9. ASSUME NEW n \in Names, ServerChanges(n) PROVE SerialInv'
  BY <1>9 DEF ServerChanges
<1>8. CASE UNCHANGED vars
  BY <1>8 DEF vars
<1> QED BY <1>1, <1>2, <1>3, <1>4, <1>5, <1>6, <1>7, <1>8, <1>9, <1>10 DEF Next, Connect
-----------------------------------------------------------------------------
(* Theorems.                                                               *)

\* The inductive invariant of the client half of package cluster.
THEOREM ClusterInvariance == Spec => []ClusterInv
<1>1. ClusterInv /\ [Next]_vars => ClusterInv'
  BY TypeStep, DialStep, OutcomeStep, MadeStep, SerialStep DEF ClusterInv
<1> QED BY InitInv, <1>1, PTL DEF Spec

\* Type correctness: the map cClient holds clients that some Connect made, and
\* nothing at all before it is made itself (cluster.go:35).
THEOREM TypeCorrect == Spec => []TypeOK
<1>1. ClusterInv => TypeOK
  BY DEF ClusterInv
<1> QED BY ClusterInvariance, <1>1, PTL

\* Call and Send die of a nil session only behind a Dial that failed.
THEOREM NilSession == Spec => []NilSessionNeedsFailedDial
<1>1. ClusterInv => NilSessionNeedsFailedDial
  BY DEF ClusterInv, OutcomeInv, NilSessionNeedsFailedDial
<1> QED BY ClusterInvariance, <1>1, PTL

\* Connects that do not overlap keep every connection they make.
THEOREM Kept == Spec => []ConnectionsKept
<1>1. ClusterInv => ConnectionsKept
  BY DEF ClusterInv, SerialInv, ConnectionsKept
<1> QED BY ClusterInvariance, <1>1, PTL
=============================================================================
