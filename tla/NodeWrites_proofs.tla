-------------------------- MODULE NodeWrites_proofs --------------------------
(***************************************************************************)
(* Proofs about NodeWrites, for any number of requests in progress.        *)
(*                                                                         *)
(* OnlyWholeNodesTakeBack rests on two facts. A transaction holds the row  *)
(* lock from reading to writing, so its copy is the row (LockedCopies).    *)
(* And no copy, old as it may be, has seen more of the provider's than it  *)
(* measured last (NothingAhead), so that recording what was measured takes *)
(* nothing back, either.                                                   *)
(***************************************************************************)
EXTENDS NodeWrites, TLAPS

NodeWritesSpec == NodeWritesInit /\ [][NodeWritesNext]_nodeWritesVars

LockedCopies ==
    \A w \in Writers : Does(w, "transaction") => rowLock = w /\ copy[w] = stored

NothingAhead ==
    /\ measured <= world /\ world <= news
    /\ stored["observed"] <= measured
    /\ \A w \in Writers : copy[w]["observed"] <= measured

\* What is the provider's to write, only the provider writes.
OwnFields ==
    \A w \in Writers : Does(w, "transaction") =>
        handling[w].field = "observed" <=> w = Provider

IInv == NodeWritesTypeOK /\ LockedCopies /\ NothingAhead /\ OwnFields

\* Nobody holds anything, and every copy is empty.
LEMMA InvInit ==
    ASSUME NodeWritesAssumption
    PROVE  NodeWritesInit => IInv
BY DEF NodeWritesAssumption, NodeWritesInit, IInv, NodeWritesTypeOK, LockedCopies, NothingAhead,
       OwnFields, Does, Unread, Resting, Writers, NoOne, Fields, Tasks

\* A request begins, or writes the whole node back.
LEMMA InvRequest ==
    ASSUME NodeWritesAssumption, IInv, NEW h \in Handlers,
           BeginEdit(h) \/ BeginDecision(h) \/ SetAttributes(h) \/ Upsert(h) \/ Decide(h)
    PROVE  IInv'
<1> USE DEF NodeWritesAssumption, IInv, NodeWritesTypeOK, LockedCopies, NothingAhead, OwnFields,
            Does, Turns, Rests, Resting, Unread, Writers, Fields, Tasks, UnchangedProvider
<1>1. CASE BeginEdit(h)
    BY <1>1 DEF BeginEdit
<1>2. CASE BeginDecision(h)
    BY <1>2 DEF BeginDecision
<1>3. CASE SetAttributes(h)
    BY <1>3 DEF SetAttributes, Begin, LockRow, NoOne
<1>4. CASE Upsert(h)
    BY <1>4 DEF Upsert, End, Later, NoOne
<1>5. CASE Decide(h)
    BY <1>5 DEF Decide, Begin, LockRow, NoOne
<1>6. QED
    BY <1>1, <1>2, <1>3, <1>4, <1>5

\* A request's transaction ends.
LEMMA InvCommit ==
    ASSUME NodeWritesAssumption, IInv, NEW h \in Handlers, Commit(h)
    PROVE  IInv'
BY DEF NodeWritesAssumption, IInv, NodeWritesTypeOK, LockedCopies, NothingAhead, OwnFields, Does,
       Rests, Resting, Unread, Writers, Fields, Tasks, UnchangedProvider, Commit, End, Later, NoOne

\* The provider's pass goes on, or the world does.
LEMMA InvProvider ==
    ASSUME NodeWritesAssumption, IInv, ProviderStep \/ News \/ ProjectVanishes
    PROVE  IInv'
<1> USE DEF NodeWritesAssumption, IInv, NodeWritesTypeOK, LockedCopies, NothingAhead, OwnFields,
            Does, Turns, Rests, Resting, Unread, Writers, Fields, Tasks, UnchangedRequests
<1>1. CASE Measure
    BY <1>1 DEF Measure, Look
<1>2. CASE BeginWrite
    BY <1>2 DEF BeginWrite, Begin, LockRow, NoOne
<1>3. CASE RecordMeasured
    BY <1>3 DEF RecordMeasured, End, Changed, NoOne
<1>4. CASE RemoveVanished
    BY <1>4 DEF RemoveVanished
<1>5. CASE News
    BY <1>5 DEF News
<1>6. CASE ProjectVanishes
    BY <1>6 DEF ProjectVanishes
<1>7. QED
    BY <1>1, <1>2, <1>3, <1>4, <1>5, <1>6 DEF ProviderStep

\* Each group of steps has its lemma above.
LEMMA InvStep ==
    ASSUME NodeWritesAssumption
    PROVE  IInv /\ [NodeWritesNext]_nodeWritesVars => IInv'
<1>1. ASSUME IInv, NodeWritesNext
      PROVE  IInv'
    BY <1>1, InvRequest, InvCommit, InvProvider DEF NodeWritesNext, RequestStep
<1>2. ASSUME IInv, UNCHANGED nodeWritesVars
      PROVE  IInv'
    BY <1>2 DEF IInv, NodeWritesTypeOK, LockedCopies, NothingAhead, OwnFields, Does,
                nodeWritesVars
<1>3. QED
    BY <1>1, <1>2

\* A step that takes a field back is a whole node written back.
TakesBackByUpsert ==
    \A f \in Fields : (present /\ stored'[f] < stored[f])
        => \E h \in Handlers : Does(h, "upsert") /\ stored' = Later("decided", h)

\* Whoever locked the row writes what it holds, but for the field it changes.
LEMMA StepTakesNothingBack ==
    ASSUME NodeWritesAssumption, IInv, [NodeWritesNext]_nodeWritesVars
    PROVE  TakesBackByUpsert
<1> SUFFICES ASSUME NEW f \in Fields, stored'[f] < stored[f]
             PROVE  \E h \in Handlers : Does(h, "upsert") /\ stored' = Later("decided", h)
    BY DEF TakesBackByUpsert
<1>1. stored' # stored
    BY DEF IInv, NodeWritesTypeOK, Fields
<1>2. ASSUME NEW h \in Handlers, Commit(h)
      PROVE  FALSE
    BY <1>2 DEF Commit, Later, IInv, LockedCopies, NodeWritesTypeOK, Writers, Fields
<1>3. ASSUME RecordMeasured
      PROVE  FALSE
    BY <1>3 DEF RecordMeasured, IInv, LockedCopies, NothingAhead, NodeWritesTypeOK, Writers, Fields
<1>4. ASSUME NEW h \in Handlers, BeginEdit(h) \/ BeginDecision(h) \/ SetAttributes(h) \/ Decide(h)
      PROVE  stored' = stored
    BY <1>4 DEF BeginEdit, BeginDecision, SetAttributes, Decide
<1>5. ASSUME Measure \/ BeginWrite \/ RemoveVanished \/ News \/ ProjectVanishes
      PROVE  stored' = stored
    BY <1>5 DEF Measure, Look, BeginWrite, RemoveVanished, News, ProjectVanishes
<1>6. ASSUME NEW h \in Handlers, Upsert(h)
      PROVE  Does(h, "upsert") /\ stored' = Later("decided", h)
    BY <1>6 DEF Upsert
<1>7. CASE UNCHANGED nodeWritesVars
    BY <1>1, <1>7 DEF nodeWritesVars
<1>8. QED
    BY <1>1, <1>2, <1>3, <1>4, <1>5, <1>6, <1>7 DEF NodeWritesNext, RequestStep, ProviderStep

\* UpdateNode, DeleteNodeIf: "nothing another writer committed in between can be
\* overwritten by a stale copy", with any number of requests, in any order; what
\* UpsertNode writes back is the one exception.
THEOREM TransactionsTakeNothingBack ==
    ASSUME NodeWritesAssumption
    PROVE  NodeWritesSpec => OnlyWholeNodesTakeBack
<1>1. NodeWritesInit => IInv
    BY InvInit
<1>2. IInv /\ [NodeWritesNext]_nodeWritesVars => IInv'
    BY InvStep
<1>3. IInv /\ [NodeWritesNext]_nodeWritesVars => TakesBackByUpsert
    BY StepTakesNothingBack
<1>4. IInv /\ [NodeWritesNext]_nodeWritesVars => [TakesBackByUpsert]_nodeWritesVars
    BY <1>3
<1>5. QED
    BY <1>1, <1>2, <1>4, PTL DEF NodeWritesSpec, OnlyWholeNodesTakeBack, TakesBackByUpsert
=============================================================================
