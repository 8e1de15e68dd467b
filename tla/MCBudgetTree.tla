---------------------------- MODULE MCBudgetTree ----------------------------
(***************************************************************************)
(* BudgetTree for TLC: the symmetries of its small instances.              *)
(***************************************************************************)
EXTENDS BudgetTree, TLC

\* Projects that arrive alike, and budgets that are not structural, are
\* interchangeable. No constant but Budgets, Projects and the bounds names one.
Symmetry ==
    Permutations(Projects \ Imports)
        \cup Permutations(Imports)
        \cup Permutations(Budgets \ {Root, Unassigned})

=============================================================================
