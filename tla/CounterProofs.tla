--------------------------- MODULE CounterProofs ---------------------------
(***************************************************************************)
(* Proofs about Counter, for every set of goroutines and every width of    *)
(* the counter: GetNum excludes, its numbers are consecutive modulo Space, *)
(* and it implements the one-step Ticket.                                  *)
(***************************************************************************)
EXTENDS Counter, TLAPS

\* Division with remainder.
LEMMA DivisionWithRemainder ==
    ASSUME NEW n \in Nat, NEW s \in Nat \ {0}
    PROVE  n = (s * (n \div s)) + (n % s) /\ n % s \in 0 .. s - 1 /\ n \div s \in Nat
  OBVIOUS

\* A remainder is the only one.
LEMMA RemainderUnique ==
    ASSUME NEW s \in Nat \ {0}, NEW q \in Nat, NEW r \in 0 .. s - 1,
           NEW n \in Nat, n = (s * q) + r
    PROVE  n % s = r
  OBVIOUS

\* Wrapping at every increment is wrapping once at the end: uint16 addition.
LEMMA WrapOnce ==
    ASSUME NEW n \in Nat, NEW s \in Nat \ {0}
    PROVE  ((n % s) + 1) % s = (n + 1) % s
<1> DEFINE q == n \div s
           r == n % s
<1>1. n = (s * q) + r /\ r \in 0 .. s - 1 /\ q \in Nat
  BY DivisionWithRemainder
<1> HIDE DEF q, r
<1>2. CASE r + 1 < s
  <2>1. n + 1 = (s * q) + (r + 1)
    BY <1>1
  <2>2. (n + 1) % s = r + 1
    BY <1>1, <1>2, <2>1, RemainderUnique
  <2>3. (r + 1) % s = r + 1
    BY <1>1, <1>2
  <2> QED BY <2>2, <2>3 DEF r
<1>3. CASE r + 1 = s
  <2>1. s * (q + 1) = (s * q) + s
    BY <1>1
  <2>2. n + 1 = (s * (q + 1)) + 0
    BY <1>1, <1>3, <2>1
  <2>3. (n + 1) % s = 0
    BY <1>1, <1>3, <2>2, RemainderUnique
  <2>4. (r + 1) % s = 0
    BY <1>1, <1>3
  <2> QED BY <2>3, <2>4 DEF r
<1> QED BY <1>1, <1>2, <1>3
-----------------------------------------------------------------------------
\* The invariant holds at the start.
LEMMA CounterInit == Init => CounterInv
<1> SUFFICES ASSUME Init PROVE CounterInv
  OBVIOUS
<1>1. TypeOK
  BY CounterAssumption DEF Init, TypeOK, Pcs, CounterAssumption
<1>2. \A t \in Threads : t \in mutex <=> Inside(t)
  BY DEF Init, Inside
<1>3. Exclusive
  BY DEF Init, Inside, Exclusive
<1>4. Num = (Len(issued) + Pending) % Space
  <2>1. Pending = 0
    BY DEF Init, Pending
  <2>2. Len(issued) = 0
    BY DEF Init
  <2>3. 0 % Space = 0
    BY CounterAssumption DEF CounterAssumption
  <2> QED BY <2>1, <2>2, <2>3 DEF Init
<1>5. Consecutive
  BY DEF Init, Consecutive
<1> QED BY <1>1, <1>2, <1>3, <1>4, <1>5 DEF CounterInv

\* While a thread is inside and at increment or unlock, no thread is at read.
LEMMA NoneAtRead ==
    ASSUME Exclusive, NEW t \in Threads, Inside(t), at[t] # "read"
    PROVE  Pending = 0
  BY DEF Exclusive, Inside, Pending

\* Every step preserves it.
LEMMA CounterStep == CounterInv /\ [Next]_vars => CounterInv'
<1> SUFFICES ASSUME CounterInv, [Next]_vars PROVE CounterInv'
  OBVIOUS
<1>t. /\ mutex \subseteq Threads
      /\ Num \in 0 .. Space - 1
      /\ at \in [Threads -> Pcs]
      /\ num \in [Threads -> 0 .. Space - 1]
      /\ asked \in Nat
      /\ issued \in Seq(0 .. Space - 1)
  BY DEF CounterInv, TypeOK
<1>m. \A t \in Threads : t \in mutex <=> Inside(t)
  BY DEF CounterInv
<1>x. Exclusive
  BY DEF CounterInv
<1>n. Num = (Len(issued) + Pending) % Space
  BY DEF CounterInv
<1>c. Consecutive
  BY DEF CounterInv
<1>s. Space \in Nat \ {0}
  BY CounterAssumption DEF CounterAssumption
<1>1. CASE UNCHANGED vars
  <2>1. TypeOK'
    BY <1>1, <1>t DEF vars, TypeOK
  <2>2. (\A t \in Threads : t \in mutex <=> Inside(t))' /\ Exclusive'
    BY <1>1, <1>m, <1>x DEF vars, Inside, Exclusive
  <2>3. Pending' = Pending
    BY <1>1 DEF vars, Pending
  <2>4. (Num = (Len(issued) + Pending) % Space)' /\ Consecutive'
    BY <1>1, <1>n, <1>c, <2>3 DEF vars, Consecutive
  <2> QED BY <2>1, <2>2, <2>4 DEF CounterInv
<1>2. ASSUME NEW t \in Threads, Ask(t)
      PROVE  CounterInv'
  <2>1. TypeOK'
    BY <1>2, <1>t DEF Ask, Goto, TypeOK, Pcs
  <2>2. (\A u \in Threads : u \in mutex <=> Inside(u))' /\ Exclusive'
    BY <1>2, <1>t, <1>m, <1>x DEF Ask, Goto, Inside, Exclusive
  <2>3. Pending' = Pending
    BY <1>2, <1>t DEF Ask, Goto, Pending
  <2>4. (Num = (Len(issued) + Pending) % Space)' /\ Consecutive'
    BY <1>2, <1>n, <1>c, <2>3 DEF Ask, Consecutive
  <2> QED BY <2>1, <2>2, <2>4 DEF CounterInv
<1>3. ASSUME NEW t \in Threads, Lock(t)
      PROVE  CounterInv'
  <2>1. TypeOK'
    BY <1>3, <1>t DEF Lock, Goto, TypeOK, Pcs
  <2>2. (\A u \in Threads : u \in mutex <=> Inside(u))' /\ Exclusive'
    BY <1>3, <1>t, <1>m, <1>x DEF Lock, Goto, Inside, Exclusive
  <2>3. Pending' = Pending
    BY <1>3, <1>t DEF Lock, Goto, Pending
  <2>4. (Num = (Len(issued) + Pending) % Space)' /\ Consecutive'
    BY <1>3, <1>n, <1>c, <2>3 DEF Lock, Consecutive
  <2> QED BY <2>1, <2>2, <2>4 DEF CounterInv
<1>4. ASSUME NEW t \in Threads, Increment(t)
      PROVE  CounterInv'
  <2>1. TypeOK'
    <3>1. Num' \in 0 .. Space - 1
      BY <1>4, <1>t, <1>s DEF Increment
    <3> QED BY <1>4, <1>t, <3>1 DEF Increment, Goto, TypeOK, Pcs
  <2>2. (\A u \in Threads : u \in mutex <=> Inside(u))' /\ Exclusive'
    BY <1>4, <1>t, <1>m, <1>x DEF Increment, Goto, Inside, Exclusive
  <2>3. Pending = 0
    BY <1>4, <1>x, NoneAtRead DEF Increment, Inside
  <2>4. Pending' = 1
    BY <1>4, <1>t DEF Increment, Goto, Pending
  <2>5. Num' = (Len(issued) + 1) % Space
    <3>1. Len(issued) \in Nat
      BY <1>t
    <3>2. Num = Len(issued) % Space
      BY <1>n, <2>3, <3>1
    <3>3. Num' = (Num + 1) % Space
      BY <1>4 DEF Increment
    <3> QED BY <1>s, <3>1, <3>2, <3>3, WrapOnce
  <2>6. issued' = issued
    BY <1>4 DEF Increment
  <2>7. Consecutive'
    BY <1>c, <2>6 DEF Consecutive
  <2> QED BY <2>1, <2>2, <2>4, <2>5, <2>6, <2>7 DEF CounterInv
<1>5. ASSUME NEW t \in Threads, Read(t)
      PROVE  CounterInv'
  <2>1. TypeOK'
    BY <1>5, <1>t DEF Read, Goto, TypeOK, Pcs
  <2>2. (\A u \in Threads : u \in mutex <=> Inside(u))' /\ Exclusive'
    BY <1>5, <1>t, <1>m, <1>x DEF Read, Goto, Inside, Exclusive
  <2>3. Pending = 1
    BY <1>5 DEF Read, Pending
  <2>4. Pending' = 0
    BY <1>5, <1>t, <1>x DEF Read, Goto, Pending, Exclusive, Inside
  <2>5. Len(issued') = Len(issued) + 1 /\ Len(issued) \in Nat
    BY <1>5, <1>t DEF Read
  <2>6. Num' = Num /\ Num = (Len(issued) + 1) % Space
    BY <1>5, <1>n, <2>3 DEF Read
  <2>7. Consecutive'
    <3> SUFFICES ASSUME NEW i \in DOMAIN issued' PROVE issued'[i] = i % Space
      BY DEF Consecutive
    <3>1. CASE i = Len(issued) + 1
      <4>1. issued'[i] = Num
        BY <1>5, <1>t, <3>1 DEF Read
      <4> QED BY <2>6, <3>1, <4>1
    <3>2. CASE i # Len(issued) + 1
      <4>1. i \in DOMAIN issued /\ issued'[i] = issued[i]
        BY <1>5, <1>t, <2>5, <3>2 DEF Read
      <4> QED BY <1>c, <4>1 DEF Consecutive
    <3> QED BY <3>1, <3>2
  <2>8. Num' = (Len(issued') + Pending') % Space
    BY <2>4, <2>5, <2>6
  <2> QED BY <2>1, <2>2, <2>7, <2>8 DEF CounterInv
<1>6. ASSUME NEW t \in Threads, Unlock(t)
      PROVE  CounterInv'
  <2>1. TypeOK'
    BY <1>6, <1>t DEF Unlock, Goto, TypeOK, Pcs
  <2>2. (\A u \in Threads : u \in mutex <=> Inside(u))' /\ Exclusive'
    BY <1>6, <1>t, <1>m, <1>x DEF Unlock, Goto, Inside, Exclusive
  <2>3. Pending' = Pending
    BY <1>6, <1>t DEF Unlock, Goto, Pending
  <2>4. (Num = (Len(issued) + Pending) % Space)' /\ Consecutive'
    BY <1>6, <1>n, <1>c, <2>3 DEF Unlock, Consecutive
  <2> QED BY <2>1, <2>2, <2>4 DEF CounterInv
<1> QED
  BY <1>1, <1>2, <1>3, <1>4, <1>5, <1>6 DEF Next, GetNum
-----------------------------------------------------------------------------
\* CounterInv holds in every reachable state.
THEOREM CounterInvariance == Spec => []CounterInv
  BY CounterInit, CounterStep, PTL DEF Spec

\* The numbers GetNum hands out are 1, 2, 3 ... modulo Space, whatever the
\* interleaving of the goroutines that call it.
THEOREM NumbersConsecutive == Spec => []Consecutive
<1>1. CounterInv => Consecutive
  BY DEF CounterInv
<1> QED BY CounterInvariance, <1>1, PTL

\* Two numbers handed out fewer than Space calls apart are different: session
\* and message IDs repeat only after the counter has gone all the way round.
THEOREM NoRepeatInWindow ==
    ASSUME Consecutive, CounterInv,
           NEW i \in DOMAIN issued, NEW j \in DOMAIN issued,
           i < j, j - i < Space
    PROVE  issued[i] # issued[j]
<1>t. issued \in Seq(0 .. Space - 1) /\ Space \in Nat \ {0}
  BY CounterAssumption DEF CounterInv, TypeOK, CounterAssumption
<1>1. i \in Nat /\ j \in Nat
  BY <1>t
<1> SUFFICES ASSUME i % Space = j % Space PROVE FALSE
  BY DEF Consecutive
<1> DEFINE p == i \div Space
           q == j \div Space
           r == i % Space
<1>2. i = (Space * p) + r /\ r \in 0 .. Space - 1 /\ p \in Nat
  BY <1>t, <1>1, DivisionWithRemainder
<1>3. j = (Space * q) + r /\ q \in Nat
  BY <1>t, <1>1, DivisionWithRemainder
<1> HIDE DEF p, q, r
<1>4. Space * q - Space * p = Space * (q - p)
  BY <1>t, <1>2, <1>3
<1>5. q - p >= 1 \/ q - p <= 0
  BY <1>2, <1>3
<1>6. q - p >= 1 => Space * (q - p) >= Space
  BY <1>t, <1>2, <1>3
<1>7. q - p <= 0 => Space * (q - p) <= 0
  BY <1>t, <1>2, <1>3
<1> QED BY <1>t, <1>1, <1>2, <1>3, <1>4, <1>5, <1>6, <1>7

\* Counter implements Ticket: to its callers GetNum is one atomic step.
THEOREM CounterIsTicket == Spec => ImplementsTicket
<1> DEFINE W == {t \in Threads : at[t] \in {"lock", "increment", "read"}}
<1>1. Init => Atomic!TicketInit
  BY DEF Init, Atomic!TicketInit
<1>2. CounterInv /\ [Next]_vars => [Atomic!TicketNext]_(Atomic!ticketVars)
  <2> SUFFICES ASSUME CounterInv, [Next]_vars
               PROVE  Atomic!TicketNext \/ UNCHANGED Atomic!ticketVars
    OBVIOUS
  <2>t. at \in [Threads -> Pcs] /\ issued \in Seq(0 .. Space - 1)
          /\ num \in [Threads -> 0 .. Space - 1]
    BY DEF CounterInv, TypeOK
  <2>1. CASE UNCHANGED vars
    BY <2>1 DEF vars, Atomic!ticketVars
  <2>2. ASSUME NEW t \in Threads, Ask(t)
        PROVE  Atomic!Ask(t)
    <3>1. t \notin W /\ W' = W \cup {t}
      BY <2>2, <2>t DEF Ask, Goto
    <3> QED BY <2>2, <3>1 DEF Ask, Atomic!Ask
  <2>3. ASSUME NEW t \in Threads, Lock(t) \/ Increment(t) \/ Unlock(t)
        PROVE  UNCHANGED Atomic!ticketVars
    <3>1. W' = W
      BY <2>3, <2>t DEF Lock, Increment, Unlock, Goto
    <3> QED BY <2>3, <3>1 DEF Lock, Increment, Unlock, Atomic!ticketVars
  <2>4. ASSUME NEW t \in Threads, Read(t)
        PROVE  Atomic!Take(t)
    <3>1. t \in W /\ W' = W \ {t}
      BY <2>4, <2>t DEF Read, Goto
    <3>2. Len(issued') = Len(issued) + 1
      BY <2>4, <2>t DEF Read
    <3>3. Num = (Len(issued) + 1) % Space
      <4>1. Pending = 1
        BY <2>4 DEF Read, Pending
      <4> QED BY <4>1 DEF CounterInv
    <3>4. num' = [num EXCEPT ![t] = Len(issued') % Space]
      BY <2>4, <3>2, <3>3 DEF Read
    <3> QED BY <3>1, <3>2, <3>4 DEF Atomic!Take
  <2> QED
    BY <2>1, <2>2, <2>3, <2>4 DEF Next, GetNum, Atomic!TicketNext
<1> QED
  BY <1>1, <1>2, CounterInvariance, PTL DEF Spec, ImplementsTicket, Atomic!TicketSpec
=============================================================================
