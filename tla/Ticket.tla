------------------------------- MODULE Ticket -------------------------------
(***************************************************************************)
(* A counter whose GetNum is one atomic step: it hands each thread that    *)
(* asks the next number, modulo Space.                                     *)
(***************************************************************************)
EXTENDS Integers

CONSTANTS Threads, Space

VARIABLES drawn,    \* how many numbers have been handed out
          waiting,  \* threads that have asked and have no number yet
          held      \* the number each thread was last given

ticketVars == <<drawn, waiting, held>>

TicketInit ==
    /\ drawn = 0
    /\ waiting = {}
    /\ held = [t \in Threads |-> 0]

Ask(t) ==
    /\ t \notin waiting
    /\ waiting' = waiting \cup {t}
    /\ UNCHANGED <<drawn, held>>

Take(t) ==
    /\ t \in waiting
    /\ waiting' = waiting \ {t}
    /\ drawn' = drawn + 1
    /\ held' = [held EXCEPT ![t] = drawn' % Space]

TicketNext == \E t \in Threads : Ask(t) \/ Take(t)

TicketSpec == TicketInit /\ [][TicketNext]_ticketVars
=============================================================================
