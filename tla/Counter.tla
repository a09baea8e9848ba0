------------------------------ MODULE Counter ------------------------------
(***************************************************************************)
(* util.Counter (util/util.go), the mutex-guarded 16-bit counter that      *)
(* numbers sessions (network.sessionCounter) and messages                  *)
(* (TcpClient.msgCounter).  The other modules take GetNum as one step;     *)
(* this one shows that they may.                                           *)
(***************************************************************************)
EXTENDS Integers, Sequences

CONSTANTS Threads,   \* goroutines that call GetNum
          Space,     \* values of Num: 2^16
          MaxCalls   \* bound: calls in a behaviour

ASSUME CounterAssumption == Space \in Nat \ {0} /\ MaxCalls \in Nat

VARIABLES
    mutex,   \* the threads that hold the embedded sync.Mutex
    Num,     \* Counter.Num
    at,      \* control point of each thread
    num,     \* its local num
    asked,   \* calls begun (bounded)
    issued   \* the numbers read, in the order they were read (history)

vars == <<mutex, Num, at, num, asked, issued>>

Pcs == {"out", "lock", "increment", "read", "unlock"}

TypeOK ==
    /\ mutex \subseteq Threads
    /\ Num \in 0 .. Space - 1
    /\ at \in [Threads -> Pcs]
    /\ num \in [Threads -> 0 .. Space - 1]
    /\ asked \in Nat
    /\ issued \in Seq(0 .. Space - 1)

Init ==
    /\ mutex = {}
    /\ Num = 0
    /\ at = [t \in Threads |-> "out"]
    /\ num = [t \in Threads |-> 0]
    /\ asked = 0
    /\ issued = <<>>

Goto(t, pc) == at' = [at EXCEPT ![t] = pc]

Ask(t) ==
    /\ at[t] = "out"
    /\ asked < MaxCalls
    /\ asked' = asked + 1
    /\ Goto(t, "lock")
    /\ UNCHANGED <<mutex, Num, num, issued>>

\* Mutant: the mutex was copied with the struct, and does not exclude.
LockOfCopy(t) ==
    /\ at[t] = "lock"
    /\ mutex' = mutex \cup {t}
    /\ Goto(t, "increment")
    /\ UNCHANGED <<Num, num, asked, issued>>

Lock(t) ==
    /\ at[t] = "lock"
    /\ mutex = {}
    /\ mutex' = {t}
    /\ Goto(t, "increment")
    /\ UNCHANGED <<Num, num, asked, issued>>

Increment(t) ==
    /\ at[t] = "increment"
    /\ Num' = (Num + 1) % Space
    /\ Goto(t, "read")
    /\ UNCHANGED <<mutex, num, asked, issued>>

Read(t) ==
    /\ at[t] = "read"
    /\ num' = [num EXCEPT ![t] = Num]
    /\ issued' = Append(issued, Num)
    /\ Goto(t, "unlock")
    /\ UNCHANGED <<mutex, Num, asked>>

\* The deferred Unlock; num is returned.
Unlock(t) ==
    /\ at[t] = "unlock"
    /\ mutex' = mutex \ {t}
    /\ Goto(t, "out")
    /\ UNCHANGED <<Num, num, asked, issued>>

GetNum(t) == Increment(t) \/ Read(t) \/ Unlock(t)

Next == \E t \in Threads : Ask(t) \/ Lock(t) \/ GetNum(t)

Spec == Init /\ [][Next]_vars
-----------------------------------------------------------------------------
(* Properties.                                                             *)

\* GetNum answers 1, 2, 3 ... modulo Space, whichever goroutines call it: no
\* number is skipped, and none comes twice in Space consecutive calls.
Consecutive == \A i \in DOMAIN issued : issued[i] = i % Space

\* Two goroutines are never between Lock and Unlock together.
Inside(t) == at[t] \in {"increment", "read", "unlock"}
Exclusive == \A s, t \in Threads : Inside(s) /\ Inside(t) => s = t

\* The inductive invariant behind both: the mutex is held by the one thread
\* inside GetNum, and Num is ahead of the numbers read just when it is between
\* its increment and its read.
Pending == IF \E t \in Threads : at[t] = "read" THEN 1 ELSE 0

CounterInv ==
    /\ TypeOK
    /\ \A t \in Threads : t \in mutex <=> Inside(t)
    /\ Exclusive
    /\ Num = (Len(issued) + Pending) % Space
    /\ Consecutive

\* GetNum is one step to its callers: a thread that asks gets the next number.
Atomic == INSTANCE Ticket WITH
    drawn <- Len(issued),
    waiting <- {t \in Threads : at[t] \in {"lock", "increment", "read"}},
    held <- num

ImplementsTicket == Atomic!TicketSpec
=============================================================================
