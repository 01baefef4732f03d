--------------------------- MODULE ProtectedChange ---------------------------
(***************************************************************************)
(* What Lyra Upgrade promises, without its processes: every operation      *)
(* changes the running system only after a copy of it was put aside, the   *)
(* change may stop half way, a copy can always be brought back as another  *)
(* root, and an operation is called applied only on a system that runs its *)
(* whole result, restored only on one that runs none of it.                *)
(***************************************************************************)
CONSTANTS
    Ops,      \* operations
    Places    \* roots the machine may boot

VARIABLES
    content,  \* root -> operation -> how much of the operation it contains
    running,  \* the root that is mounted
    copies,   \* copies put aside: operation, content
    outcome   \* operation -> what it is declared to be

vars == <<content, running, copies, outcome>>

Contents == [Ops -> {"old", "partial", "new"}]
Outcomes == {"open", "applied", "restored"}

Init ==
    /\ content = [v \in Places |-> [o \in Ops |-> "old"]]
    /\ running \in Places
    /\ copies = {}
    /\ outcome = [o \in Ops |-> "open"]

\* The running system is copied before op has touched it.
Protect(op) ==
    /\ content[running][op] = "old"
    /\ copies' = copies \cup {[op |-> op, content |-> content[running]]}
    /\ UNCHANGED <<content, running, outcome>>

\* op's packages are written, under a copy.  What is complete is never begun
\* again.
Change(op, to) ==
    /\ \E c \in copies : c.op = op
    /\ content[running][op] # "new" /\ to # "old"
    /\ content' = [content EXCEPT ![running][op] = to]
    /\ UNCHANGED <<running, copies, outcome>>

\* A copy becomes a root beside the running one.
Restore(v, c) ==
    /\ v # running
    /\ content' = [content EXCEPT ![v] = c.content]
    /\ UNCHANGED <<running, copies, outcome>>

Boot(v) ==
    /\ running' = v
    /\ UNCHANGED <<content, copies, outcome>>

Declare(op, o) ==
    /\ o = "applied" => content[running][op] = "new"
    /\ o = "restored" => content[running][op] = "old"
    /\ outcome' = [outcome EXCEPT ![op] = o]
    /\ UNCHANGED <<content, running, copies>>

Next ==
    \/ \E op \in Ops :
          \/ Protect(op)
          \/ \E to \in {"partial", "new"} : Change(op, to)
          \/ \E o \in Outcomes : Declare(op, o)
    \/ \E v \in Places : Boot(v) \/ \E c \in copies : Restore(v, c)

Spec == Init /\ [][Next]_vars
=============================================================================
