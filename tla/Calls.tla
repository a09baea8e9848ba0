------------------------------- MODULE Calls -------------------------------
(***************************************************************************)
(* What a remote call promises: it ends once, with the answer to its own   *)
(* request or with nil, and an answer only if the server ran the request.  *)
(***************************************************************************)
CONSTANT Callers

VARIABLES
    opened,   \* calls whose request was handed to the network
    run,      \* calls the server has run
    outcome   \* what each ended with: "open", "nil", or the request answered

callVars == <<opened, run, outcome>>

CallInit ==
    /\ opened = {}
    /\ run = {}
    /\ outcome = [c \in Callers |-> "open"]

Request(c) ==
    /\ c \notin opened
    /\ outcome[c] = "open"
    /\ opened' = opened \cup {c}
    /\ UNCHANGED <<run, outcome>>

\* The server may run a request whose caller has given up.
Execute(c) ==
    /\ c \in opened \ run
    /\ run' = run \cup {c}
    /\ UNCHANGED <<opened, outcome>>

Return(c) ==
    /\ c \in run
    /\ outcome[c] = "open"
    /\ outcome' = [outcome EXCEPT ![c] = c]
    /\ UNCHANGED <<opened, run>>

GiveUp(c) ==
    /\ outcome[c] = "open"
    /\ outcome' = [outcome EXCEPT ![c] = "nil"]
    /\ UNCHANGED <<opened, run>>

CallNext == \E c \in Callers : Request(c) \/ Execute(c) \/ Return(c) \/ GiveUp(c)

CallSpec == CallInit /\ [][CallNext]_callVars
=============================================================================
