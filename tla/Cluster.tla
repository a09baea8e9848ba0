------------------------------ MODULE Cluster ------------------------------
(***************************************************************************)
(* The client half of package cluster (cluster/cluster.go): the global map *)
(* cClient from server names to rpc clients, Connect, which fills it, and  *)
(* Call and Send, which use it.  Nothing is locked: goroutines interleave  *)
(* at every access, and an access that meets a write of the map has no     *)
(* defined outcome, so the model stops there.  The panics of Call and Send  *)
(* end the call and not the model: whoever calls may recover them.          *)
(*                                                                         *)
(* The client a Connect makes is named by the goroutine that runs it.      *)
(***************************************************************************)
EXTENDS Naturals

CONSTANTS Connectors,  \* goroutines that each run Connect once
          Users,       \* goroutines that each run Call or Send once
          Names,       \* server names
          NameOf       \* the name each goroutine uses

ASSUME ClusterAssumption ==
    /\ NameOf \in [Connectors \cup Users -> Names]
    /\ Connectors \cap Users = {}

VARIABLES
    up,          \* the servers that accept connections
    made,        \* cClient is not nil
    cClient,     \* its contents: a partial function from Names to clients
    at,          \* control point of each goroutine
    session,     \* what Dial left in each client: no session, or one
    overlapped,  \* two Connects have run at the same time (history)
    used,        \* the client each user found: at most one (history)
    outcome,     \* how each user ended
    fault        \* accesses of the map have collided

vars == <<up, made, cClient, at, session, overlapped, used, outcome, fault>>

Pcs == {"idle", "check", "make", "look", "dial", "store", "storing", "find", "call", "done"}

TypeOK ==
    /\ up \subseteq Names
    /\ made \in BOOLEAN
    /\ DOMAIN cClient \subseteq Names
    /\ \A n \in DOMAIN cClient : cClient[n] \in Connectors
    /\ ~made => DOMAIN cClient = {}   \* a nil map has no entries
    /\ at \in [Connectors \cup Users -> Pcs]
    /\ session \in [Connectors -> {"undialed", "failed", "connected"}]
    /\ overlapped \in BOOLEAN
    /\ used \in [Users -> SUBSET Connectors]
    /\ outcome \in [Users -> {"open", "cannot find server", "nil session", "called"}]
    /\ fault \in BOOLEAN

Empty == [n \in {} |-> 0]

Init ==
    /\ up \in SUBSET Names
    /\ made = FALSE
    /\ cClient = Empty
    /\ at = [g \in Connectors \cup Users |-> "idle"]
    /\ session = [k \in Connectors |-> "undialed"]
    /\ overlapped = FALSE
    /\ used = [u \in Users |-> {}]
    /\ outcome = [u \in Users |-> "open"]
    /\ fault = FALSE

Goto(g, pc) == at' = [at EXCEPT ![g] = pc]
Connecting(k) == at[k] \notin {"idle", "done"}
Writing == \E k \in Connectors : at[k] = "storing"

\* A read of the map: next, unless it meets a write.
Reads(g, pc) ==
    IF Writing THEN fault' = TRUE /\ UNCHANGED at ELSE Goto(g, pc) /\ UNCHANGED fault
-----------------------------------------------------------------------------
(* Connect.                                                                *)

ConnectCall(k) ==
    /\ ~fault
    /\ at[k] = "idle"
    /\ Goto(k, "check")
    /\ overlapped' = (overlapped \/ \E j \in Connectors : Connecting(j))
    /\ UNCHANGED <<up, made, cClient, session, used, outcome, fault>>

CheckMap(k) ==
    /\ ~fault
    /\ at[k] = "check"
    /\ Goto(k, IF made THEN "look" ELSE "make")
    /\ UNCHANGED <<up, made, cClient, session, overlapped, used, outcome, fault>>

MakeMap(k) ==
    /\ ~fault
    /\ at[k] = "make"
    /\ made' = TRUE
    /\ cClient' = Empty
    /\ Goto(k, "look")
    /\ UNCHANGED <<up, session, overlapped, used, outcome, fault>>

\* Mutant: a client that is there already is replaced.
LookNever(k) ==
    /\ ~fault
    /\ at[k] = "look"
    /\ Reads(k, "dial")
    /\ UNCHANGED <<up, made, cClient, session, overlapped, used, outcome>>

\* A name with a client is left alone, whatever became of its Dial.
Look(k) ==
    /\ ~fault
    /\ at[k] = "look"
    /\ Reads(k, IF NameOf[k] \in DOMAIN cClient THEN "done" ELSE "dial")
    /\ UNCHANGED <<up, made, cClient, session, overlapped, used, outcome>>

\* Mutant: the client is stored first and dials from the map.
DialLater(k) ==
    /\ ~fault
    /\ at[k] = "dial"
    /\ Goto(k, "store")
    /\ UNCHANGED <<up, made, cClient, session, overlapped, used, outcome, fault>>

\* Client.Dial: on an error it only logs, and the client has no session.
Dial(k) ==
    /\ ~fault
    /\ at[k] = "dial"
    /\ session' = [session EXCEPT ![k] = IF NameOf[k] \in up THEN "connected" ELSE "failed"]
    /\ Goto(k, "store")
    /\ UNCHANGED <<up, made, cClient, overlapped, used, outcome, fault>>

StoreBegin(k) ==
    /\ ~fault
    /\ at[k] = "store"
    /\ Reads(k, "storing")
    /\ UNCHANGED <<up, made, cClient, session, overlapped, used, outcome>>

StoreEnd(k) ==
    /\ ~fault
    /\ at[k] = "storing"
    /\ cClient' = [n \in DOMAIN cClient \cup {NameOf[k]} |->
                        IF n = NameOf[k] THEN k ELSE cClient[n]]
    /\ Goto(k, "done")
    /\ UNCHANGED <<up, made, session, overlapped, used, outcome, fault>>
-----------------------------------------------------------------------------
(* Call and Send.                                                          *)

UserCall(u) ==
    /\ ~fault
    /\ at[u] = "idle"
    /\ Goto(u, "find")
    /\ UNCHANGED <<up, made, cClient, session, overlapped, used, outcome, fault>>

\* The lookup; a nil map has no entries.  Without a client they panic.
Find(u) ==
    /\ ~fault
    /\ at[u] = "find"
    /\ LET found == {c \in Connectors : NameOf[u] \in DOMAIN cClient /\ cClient[NameOf[u]] = c}
       IN  IF Writing
           THEN fault' = TRUE /\ UNCHANGED <<at, used, outcome>>
           ELSE /\ used' = [used EXCEPT ![u] = found]
                /\ Goto(u, IF found = {} THEN "done" ELSE "call")
                /\ outcome' = IF found = {}
                              THEN [outcome EXCEPT ![u] = "cannot find server"] ELSE outcome
                /\ UNCHANGED fault
    /\ UNCHANGED <<up, made, cClient, session, overlapped>>

\* Client.Call and Client.Send write to the session, a nil pointer without one.
Use(u) ==
    /\ ~fault
    /\ at[u] = "call"
    /\ \E c \in used[u] :
          outcome' = [outcome EXCEPT ![u] = IF session[c] = "connected" THEN "called"
                                                                        ELSE "nil session"]
    /\ Goto(u, "done")
    /\ UNCHANGED <<up, made, cClient, session, overlapped, used, fault>>

\* A server starts to accept connections, or stops.
ServerChanges(n) ==
    /\ up' = IF n \in up THEN up \ {n} ELSE up \cup {n}
    /\ UNCHANGED <<made, cClient, at, session, overlapped, used, outcome, fault>>

Connect(k) == ConnectCall(k) \/ CheckMap(k) \/ MakeMap(k) \/ Look(k) \/ Dial(k)
                \/ StoreBegin(k) \/ StoreEnd(k)
Call(u)    == UserCall(u) \/ Find(u) \/ Use(u)

Next ==
    \/ \E k \in Connectors : Connect(k)
    \/ \E u \in Users : Call(u)
    \/ \E n \in Names : ServerChanges(n)

Spec == Init /\ [][Next]_vars
-----------------------------------------------------------------------------
(* Properties.                                                             *)

\* A call that dies of a nil session found a client whose Dial failed: a client
\* is in the map only after its Dial, so a call never overtakes one.
NilSessionNeedsFailedDial ==
    \A u \in Users : outcome[u] = "nil session" => \E c \in used[u] : session[c] = "failed"

\* While Connects run one after another, a connection made is kept: its client
\* stays the one the map has for its name, so nothing is dialled twice and no
\* client is lost with its goroutines.
ConnectionsKept ==
    overlapped \/ fault \/
        \A k \in Connectors :
            at[k] = "done" /\ session[k] = "connected" =>
                NameOf[k] \in DOMAIN cClient /\ cClient[NameOf[k]] = k
=============================================================================
