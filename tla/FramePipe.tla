----------------------------- MODULE FramePipe -----------------------------
(***************************************************************************)
(* What a session promises the code above it about incoming frames: they   *)
(* are delivered once each, in the order they were read, until the session *)
(* ends; and when it ends at most Cap of the frames already read are lost. *)
(***************************************************************************)
EXTENDS Naturals, Sequences

CONSTANTS Msg,  \* the frames
          Cap   \* frames that may be lost at the end

VARIABLES inflight,   \* read and not yet delivered
          delivered,  \* delivered, in order
          ended       \* nothing is delivered any more

pipeVars == <<inflight, delivered, ended>>

PipeInit ==
    /\ inflight = <<>>
    /\ delivered = <<>>
    /\ ended = FALSE

Accept ==
    /\ ~ended
    /\ \E m \in Msg : inflight' = Append(inflight, m)
    /\ UNCHANGED <<delivered, ended>>

Deliver ==
    /\ ~ended
    /\ inflight # <<>>
    /\ delivered' = Append(delivered, Head(inflight))
    /\ inflight' = Tail(inflight)
    /\ UNCHANGED ended

End ==
    /\ ~ended
    /\ Len(inflight) <= Cap
    /\ ended' = TRUE
    /\ UNCHANGED <<inflight, delivered>>

PipeNext == Accept \/ Deliver \/ End

PipeSpec == PipeInit /\ [][PipeNext]_pipeVars
=============================================================================
