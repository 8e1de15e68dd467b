----------------------------- MODULE NodeWrites -----------------------------
(***************************************************************************)
(* How one node of the tree is written (core/nodestore): operations of the *)
(* tree service that read it under approvalMu and later write the whole    *)
(* node back (UpsertNode), others that change it as it is (UpdateNode,     *)
(* which locks the row and writes in one transaction), edits without       *)
(* approvalMu, and the pass of a provider, which decides on what it saw    *)
(* long before it writes.                                                  *)
(*                                                                         *)
(* A field is the number of its version; what a writer of a field writes   *)
(* is always a later one, so a smaller number is something taken back. The *)
(* node is a project, or an import that is removed with its OpenStack      *)
(* project.                                                                *)
(***************************************************************************)
EXTENDS Naturals

CONSTANTS
    Handlers,       \* requests in progress
    Provider,       \* the pass
    MaxWrites,      \* bound: requests
    MaxNews         \* bound: what the provider measures changes

Writers == Handlers \cup {Provider}
NoOne == "none"

NodeWritesAssumption ==
    /\ Provider \notin Handlers /\ NoOne \notin Writers
    /\ MaxWrites \in Nat /\ MaxNews \in Nat

\* What operations decide on, what is set beside them, what a provider writes.
Fields == {"decided", "attributes", "observed"}

VARIABLES
    imported,       \* the node is an import
    present,        \* it is stored
    stored,         \* its fields
    mutex,          \* who holds approvalMu
    rowLock,        \* whose transaction locked the row
    handling,       \* what a writer does, and the field it writes
    copy,           \* the node as a writer read it
    world,          \* what the provider would measure
    exists,         \* the OpenStack project is there
    measured,       \* what the pass measured
    writes, news

nodeWritesVars ==
    <<imported, present, stored, mutex, rowLock, handling, copy, world, exists, measured, writes,
      news>>

Tasks == {"idle", "edit", "upsert", "decide", "attributes", "transaction", "observe", "remove"}

NodeWritesTypeOK ==
    /\ imported \in BOOLEAN /\ present \in BOOLEAN /\ exists \in BOOLEAN
    /\ stored \in [Fields -> Nat]
    /\ mutex \in Handlers \cup {NoOne} /\ rowLock \in Writers \cup {NoOne}
    /\ handling \in [Writers -> [task : Tasks, field : Fields]]
    /\ copy \in [Writers -> [Fields -> Nat]]
    /\ world \in 0..MaxNews /\ measured \in 0..MaxNews
    /\ writes \in 0..MaxWrites /\ news \in 0..MaxNews

Unread == [f \in Fields |-> 0]
Resting == [task |-> "idle", field |-> "decided"]

NodeWritesInit ==
    /\ imported \in BOOLEAN
    /\ present = TRUE /\ exists = TRUE
    /\ stored = Unread
    /\ mutex = NoOne /\ rowLock = NoOne
    /\ handling = [w \in Writers |-> Resting]
    /\ copy = [w \in Writers |-> Unread]
    /\ world = 0 /\ measured = 0
    /\ writes = 0 /\ news = 0

-----------------------------------------------------------------------------
(* The store *)

Does(w, task) == handling[w].task = task
Turns(w, task, field) == handling' = [handling EXCEPT ![w] = [task |-> task, field |-> field]]
Rests(w) == handling' = [handling EXCEPT ![w] = Resting]

\* Mutant of LockRow: a plain SELECT.
LockRowNever(w) == rowLock' = w

\* SELECT ... FOR UPDATE
LockRow(w) == rowLock = NoOne /\ rowLock' = w

\* UpdateNode and DeleteNodeIf begin: the row as it is now, locked.
Begin(w, field) ==
    /\ LockRow(w)
    /\ copy' = [copy EXCEPT ![w] = stored]
    /\ Turns(w, "transaction", field)

\* The row lock is released with the transaction, and approvalMu with the request.
End(w) ==
    /\ rowLock' = NoOne
    /\ mutex' = IF mutex = w THEN NoOne ELSE mutex
    /\ copy' = [copy EXCEPT ![w] = Unread]
    /\ Rests(w)

Later(f, w) == [copy[w] EXCEPT ![f] = stored[f] + 1]

-----------------------------------------------------------------------------
(* Requests *)

UnchangedProvider == UNCHANGED <<imported, world, exists, measured, news>>

\* UpdateNode, RequestChange, ReparentNode, SetAllocation, PromoteNode: loaded
\* under approvalMu. An import can only be promoted.
BeginEdit(h) ==
    /\ Does(h, "idle") /\ present
    /\ mutex = NoOne /\ mutex' = h
    /\ writes < MaxWrites /\ writes' = writes + 1
    /\ copy' = [copy EXCEPT ![h] = stored]
    /\ Turns(h, "upsert", "decided")
    /\ UnchangedProvider /\ UNCHANGED <<present, stored, rowLock>>

\* UpsertNode: the copy, with what was decided; it waits for a row lock.
Upsert(h) ==
    /\ Does(h, "upsert") /\ rowLock = NoOne
    /\ present' = TRUE /\ stored' = Later("decided", h)
    /\ End(h)
    /\ UnchangedProvider /\ UNCHANGED writes

\* ApproveNode, RejectNode, TransferOwner, ReleaseNode: under approvalMu, on the
\* node as it is.
BeginDecision(h) ==
    /\ Does(h, "idle") /\ present /\ ~imported
    /\ mutex = NoOne /\ mutex' = h
    /\ writes < MaxWrites /\ writes' = writes + 1
    /\ Turns(h, "decide", "decided")
    /\ UnchangedProvider /\ UNCHANGED <<present, stored, rowLock, copy>>

Decide(h) ==
    /\ Does(h, "decide") /\ Begin(h, "decided")
    /\ UnchangedProvider /\ UNCHANGED <<present, stored, mutex, writes>>

\* SetAttributes, RemoveExternalGroup: without approvalMu.
SetAttributes(h) ==
    /\ Does(h, "idle") /\ present /\ ~imported
    /\ writes < MaxWrites /\ writes' = writes + 1
    /\ Begin(h, "attributes")
    /\ UnchangedProvider /\ UNCHANGED <<present, stored, mutex>>

Commit(h) ==
    /\ Does(h, "transaction")
    /\ stored' = Later(handling[h].field, h)
    /\ End(h)
    /\ UnchangedProvider /\ UNCHANGED <<present, writes>>

-----------------------------------------------------------------------------
(* The provider *)

UnchangedRequests == UNCHANGED <<imported, mutex, writes>>

News ==
    /\ news < MaxNews /\ news' = news + 1 /\ exists
    /\ world' = world + 1
    /\ UnchangedRequests /\ UNCHANGED <<present, stored, rowLock, handling, copy, exists, measured>>

ProjectVanishes ==
    /\ imported /\ exists /\ exists' = FALSE
    /\ UnchangedRequests
    /\ UNCHANGED <<present, stored, rowLock, handling, copy, world, measured, news>>

Look(due) ==
    /\ Does(Provider, "idle") /\ present /\ due
    /\ measured' = world
    /\ Turns(Provider, IF exists THEN "observe" ELSE "remove", "observed")
    /\ UnchangedRequests /\ UNCHANGED <<present, stored, rowLock, copy, world, exists, news>>

\* Mutant of Measure: a pass skips what measures the same as the last time.
MeasureNewsOnly == Look(exists => world # measured)

\* A pass loads the node, and measures or misses its project.
Measure == Look(TRUE)

\* RecordObservation or RefreshImport, on the node as it is.
BeginWrite ==
    /\ Does(Provider, "observe") /\ Begin(Provider, "observed")
    /\ UnchangedRequests /\ UNCHANGED <<present, stored, world, exists, measured, news>>

Changed == copy[Provider]["observed"] # measured

\* Nothing is written that is there already (ErrSkipUpdate), or when the node
\* went meanwhile.
RecordMeasured ==
    /\ Does(Provider, "transaction")
    /\ stored' = IF present /\ Changed
                 THEN [copy[Provider] EXCEPT !["observed"] = measured] ELSE stored
    /\ End(Provider)
    /\ UNCHANGED <<imported, writes, present, world, exists, measured, news>>

\* RemoveImport, if it is one still.
RemoveVanished ==
    /\ Does(Provider, "remove") /\ rowLock = NoOne
    /\ present' = FALSE
    /\ Rests(Provider)
    /\ UnchangedRequests /\ UNCHANGED <<stored, rowLock, copy, world, exists, measured, news>>

-----------------------------------------------------------------------------
RequestStep(h) == Upsert(h) \/ Decide(h) \/ Commit(h)
ProviderStep == Measure \/ BeginWrite \/ RecordMeasured \/ RemoveVanished

NodeWritesNext ==
    \/ \E h \in Handlers : BeginEdit(h) \/ BeginDecision(h) \/ SetAttributes(h) \/ RequestStep(h)
    \/ ProviderStep \/ News \/ ProjectVanishes

-----------------------------------------------------------------------------
(* Properties *)

\* "Nothing another writer committed in between can be overwritten by a stale
\* copy" (UpdateNode): no transaction takes back what another writer wrote, in
\* whatever order they lock the row; only a whole node written back does.
OnlyWholeNodesTakeBack ==
    [][\A f \in Fields : (present /\ stored'[f] < stored[f])
        => \E h \in Handlers : Does(h, "upsert") /\ stored' = Later("decided", h)]_nodeWritesVars

\* What a stale copy overwrote of the provider's, or brought back after the
\* project was gone, the next pass puts right.
Restored == IF exists THEN stored["observed"] = world ELSE ~present

\* Observe, RemoveImport: the next pass does.
ProviderRecovers == <>[]Restored
=============================================================================
