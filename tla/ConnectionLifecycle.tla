------------------------ MODULE ConnectionLifecycle ------------------------
(***************************************************************************)
(* What the pipeline promises about one connection: it is read, queued,    *)
(* worked on and answered in that order, by one thread at a time, and it   *)
(* can end in every stage except in the queue. Nothing is promised once a  *)
(* /shutdown has been accepted.                                            *)
(***************************************************************************)
CONSTANT Conns

VARIABLES
    stage,   \* where each connection is
    down     \* a /shutdown has been accepted

Stages == {"free", "reading", "queued", "working", "answering"}

Successors == [free      |-> {"reading"},
               reading   |-> {"queued", "free"},
               queued    |-> {"working"},
               working   |-> {"answering", "free"},
               answering |-> {"free"}]

LifeInit == stage = [c \in Conns |-> "free"] /\ down = FALSE

\* One connection moves to its next stage.
Move ==
    /\ ~down /\ UNCHANGED down
    /\ \E c \in Conns :
          \E s \in Successors[stage[c]] : stage' = [stage EXCEPT ![c] = s]

GoDown == ~down /\ down' = TRUE /\ UNCHANGED stage

GoingDown == down /\ UNCHANGED down /\ stage' \in [Conns -> Stages]

LifeNext == Move \/ GoDown \/ GoingDown

LifeSpec == LifeInit /\ [][LifeNext]_<<stage, down>>
============================================================================
