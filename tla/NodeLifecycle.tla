---------------------------- MODULE NodeLifecycle ----------------------------
(***************************************************************************)
(* What the tree promises about the life of each node, whatever limits,    *)
(* moves and accounting do: which status follows which, that a proposal is *)
(* kept exactly until somebody decided on it, and that nothing that is in  *)
(* use or waits for a decision disappears.                                 *)
(***************************************************************************)
CONSTANTS
    Budgets,     \* ids of budgets
    Projects,    \* ids of projects
    Structural   \* the budgets that always exist

VARIABLES
    status,      \* the status of each node, "absent" while there is no such node
    open         \* the nodes with a proposed limit nobody decided on yet

Nodes == Budgets \cup Projects

Init ==
    /\ status = [n \in Nodes |-> IF n \in Structural THEN "approved" ELSE "absent"]
    /\ open = {}

Become(n, s) == status' = [status EXCEPT ![n] = s]

\* A node is requested, or created by a manager.
Request(n) ==
    /\ status[n] = "absent"
    /\ Become(n, "pending") \/ Become(n, "approved")
    /\ UNCHANGED open

\* A project found in OpenStack.
Find(p) == status[p] = "absent" /\ Become(p, "imported") /\ UNCHANGED open

\* It was adopted, and is a request from then on.
Adopt(p) == status[p] = "imported" /\ Become(p, "pending") /\ UNCHANGED open

\* A request is decided.
Settle(n) ==
    /\ status[n] = "pending"
    /\ Become(n, "approved") \/ Become(n, "rejected")
    /\ UNCHANGED open

\* A change is proposed, in place of the one that waited.
Propose(n) ==
    /\ status[n] \in {"approved", "change_pending"}
    /\ Become(n, "change_pending")
    /\ open' \in {open \cup {n}, open \ {n}}

\* The change is made or discarded; either way nothing waits any more.
Conclude(n) ==
    /\ status[n] \in {"approved", "change_pending"}
    /\ Become(n, "approved")
    /\ open' = open \ {n}

\* A project is given up; its OpenStack project still exists.
Release(p) == status[p] = "approved" /\ Become(p, "released") /\ UNCHANGED open

Archive(p) == status[p] = "released" /\ Become(p, "archived") /\ UNCHANGED open

Vanish(S) ==
    /\ status' = [n \in Nodes |-> IF n \in S THEN "absent" ELSE status[n]]
    /\ open' = open \ S

\* A project whose OpenStack project is gone.
DropProject(p) == status[p] \in {"imported", "released", "archived"} /\ Vanish({p})

\* A budget goes with everything below it, and only what nobody has to decide
\* on and nobody uses goes with it: no request, project in use, or import.
DropBudget(b) ==
    LET gone == {n \in Nodes : status[n] # "absent" /\ status'[n] = "absent"}
    IN  /\ b \in gone \ Structural
        /\ \A n \in gone \ {b} :
            \/ status[n] \in {"rejected", "released", "archived"}
            \/ status[n] = "approved" /\ n \in Budgets \ Structural
        /\ Vanish(gone)

Next ==
    \/ \E n \in Nodes : Request(n) \/ Settle(n) \/ Propose(n) \/ Conclude(n)
    \/ \E p \in Projects :
        Find(p) \/ Adopt(p) \/ Release(p) \/ Archive(p) \/ DropProject(p)
    \/ \E b \in Budgets : DropBudget(b)

Spec == Init /\ [][Next]_<<status, open>>

=============================================================================
