------------------------------ MODULE Lifetimes ------------------------------
(***************************************************************************)
(* End dates and maximum project terms (core/tree/rule_terms.go): nothing  *)
(* outlives the budget it draws from, and a project runs no longer at a    *)
(* time than the budgets above it allow.                                   *)
(*                                                                         *)
(* What is asked is held against the budgets above; what is shortened is   *)
(* carried down the subtree, one write per node after the budget's own. A  *)
(* write that fails ends that and leaves the rest as it was. approvalMu    *)
(* makes an operation one step here. A proposal waits with an end of its   *)
(* own, and the day goes on.                                               *)
(***************************************************************************)
EXTENDS Naturals, FiniteSets

CONSTANTS
    Root, Budgets, Projects,    \* Budgets: those below the root
    LastDay,                    \* bound: of the calendar
    Horizon,                    \* bound: of the days asked for
    Terms,                      \* bound: the maximum terms asked for, in days
    MaxEdits,                   \* bound: operations
    MaxWriteFailures            \* bound: cascades that fail

Never == 99         \* no end, and no maximum term

LifetimesAssumption ==
    /\ Horizon < Never /\ LastDay <= Horizon /\ Terms \subseteq 1..Horizon
    /\ Root \notin Budgets /\ Budgets \cap Projects = {}

Below0 == Budgets \cup Projects
AllBudgets == Budgets \cup {Root}

VARIABLES
    day,
    above,          \* the budget a node draws from
    state,          \* none, pending, approved, changing or retired
    ends,           \* TerminationDate
    asks,           \* Pending.TerminationDate; NoAsk without one
    maxTerm,        \* MaxProjectTermDays of a budget
    skipped,        \* what a failed cascade did not reach, until it is repeated
    edits, failures

lifetimesVars == <<day, above, state, ends, asks, maxTerm, skipped, edits, failures>>

NoAsk == 98
Asked == (1..Horizon) \cup {Never}
Live == {"pending", "approved", "changing"}
Holding == {"approved", "changing"}

LifetimesTypeOK ==
    /\ day \in 0..LastDay
    /\ above \in [Below0 -> AllBudgets]
    /\ state \in [Below0 -> Live \cup {"none", "retired"}]
    /\ ends \in [Below0 \cup {Root} -> Nat] /\ asks \in [Below0 -> Nat]
    /\ maxTerm \in [AllBudgets -> Terms \cup {Never}]
    /\ skipped \subseteq [what : {"end", "term"}, from : AllBudgets, node : Below0, to : Nat]
    /\ edits \in 0..MaxEdits /\ failures \in 0..MaxWriteFailures

\* Budgets granted before, without ends and terms.
LifetimesInit ==
    /\ day = 0
    /\ above = [n \in Below0 |-> Root]
    /\ state \in [Below0 -> {"none", "approved"}]
    /\ \A p \in Projects : state[p] = "none"
    /\ ends = [n \in Below0 \cup {Root} |-> Never]
    /\ asks = [n \in Below0 |-> NoAsk]
    /\ maxTerm = [b \in AllBudgets |-> Never]
    /\ skipped = {}
    /\ edits = 0 /\ failures = 0

-----------------------------------------------------------------------------
(* The rules *)

Least(S) == CHOOSE m \in S : \A x \in S : m <= x
Lesser(x, y) == IF x <= y THEN x ELSE y

\* The budgets from b up to the root.
RECURSIVE ChainFrom(_)
ChainFrom(b) == IF b = Root THEN {Root} ELSE {b} \cup ChainFrom(above[b])
Chain(n) == IF n = Root THEN {} ELSE ChainFrom(above[n])

Approved(b) == b \in {Root} \cup {c \in Budgets : state[c] = "approved"}

RECURSIVE Depth(_)
Depth(n) == IF n = Root THEN 0 ELSE 1 + Depth(above[n])

\* chainEnd and chainMaxTerm: the earliest and the shortest of a chain.
ChainEnd(chain) == Least({ends[b] : b \in chain} \cup {Never})
ChainMaxTerm(chain) == Least({maxTerm[b] : b \in chain} \cup {Never})

TermEnd(days) == IF days = Never THEN Never ELSE day + days

\* projectBound: whichever comes first.
ProjectBound(chain) == Lesser(ChainEnd(chain), TermEnd(ChainMaxTerm(chain)))

Bound(n, chain) == IF n \in Projects THEN ProjectBound(chain) ELSE ChainEnd(chain)

\* fitEnd, fitProjectEnd, fitMaxTerm: nothing asked means what is allowed, more
\* is refused.
Fits(asked, bound) == asked = Never \/ asked <= bound
Fitted(asked, bound) == IF asked = Never THEN bound ELSE asked

\* What a cascade from b visits: the live nodes below, through live budgets.
RECURSIVE Subtree(_)
Subtree(b) ==
    LET children == {n \in Below0 : above[n] = b /\ state[n] \in Live}
    IN  children \cup UNION {Subtree(c) : c \in children \cap Budgets}

\* Level by level, up to the write that fails.
Visited(b) ==
    {done \in SUBSET Subtree(b) :
        \A n \in done, m \in Subtree(b) : Depth(m) < Depth(n) => m \in done}

-----------------------------------------------------------------------------
(* What an operation writes *)

Unwritten ==
    [ends |-> ends, asks |-> asks, maxTerm |-> maxTerm, skipped |-> skipped, failed |-> FALSE]

Written(o) ==
    /\ ends' = o.ends /\ asks' = o.asks /\ maxTerm' = o.maxTerm /\ skipped' = o.skipped
    /\ failures' = IF o.failed THEN failures + 1 ELSE failures

\* Mutant of ShortenEnds: what waits for a decision keeps its end.
ShortenEndsInForce(o, nodes, to) ==
    [o EXCEPT
        !.ends = [n \in DOMAIN ends |-> IF n \in nodes THEN Lesser(@[n], to) ELSE @[n]]]

\* shortenEnd of these nodes: their end, and a proposal that waits with a later one.
ShortenEnds(o, nodes, to) ==
    [o EXCEPT
        !.ends = [n \in DOMAIN ends |-> IF n \in nodes THEN Lesser(@[n], to) ELSE @[n]],
        !.asks = [n \in Below0 |->
                    IF n \in nodes /\ @[n] # NoAsk THEN Lesser(@[n], to) ELSE @[n]]]

\* shortenTerm
ShortenTerms(o, budgets, days) ==
    [o EXCEPT
        !.maxTerm = [b \in AllBudgets |-> IF b \in budgets THEN Lesser(@[b], days) ELSE @[b]]]

\* The writes that go through: all of them, or those up to one that fails.
Reached(b) ==
    IF failures < MaxWriteFailures THEN Visited(b) ELSE {Subtree(b)}

Missed(what, b, nodes, to) ==
    {[what |-> what, from |-> b, node |-> n, to |-> to] : n \in nodes}

\* A cascade that reached these nodes.
Carried(o, what, b, done, to) ==
    [o EXCEPT !.skipped = @ \cup Missed(what, b, Subtree(b) \ done, to),
              !.failed = @ \/ done # Subtree(b)]

\* An edit that went through: nothing waits any more for what the budget was cut to
\* before, unless it is given longer now.
Finished(o, what, b, to) ==
    IF o.failed THEN o
    ELSE [o EXCEPT !.skipped = {s \in @ : ~(s.what = what /\ s.from = b /\ to <= s.to)}]

\* shortenSubtreeEnds
CarryEnds(o, b, to) ==
    {Carried(ShortenEnds(o, done, to), "end", b, done, to) : done \in Reached(b)}

\* shortenSubtreeTerms: budgets take the term, projects end within it.
CarryTerms(o, b, days) ==
    {Carried(ShortenTerms(ShortenEnds(o, done \cap Projects, TermEnd(days)),
                          done \cap Budgets, days), "term", b, done, days) : done \in Reached(b)}

-----------------------------------------------------------------------------
(* Operations *)

Edit == edits < MaxEdits /\ edits' = edits + 1

\* CreateNode, which the policy of the budget or a manager may grant at once.
Create(n, b, asked) ==
    /\ state[n] = "none" /\ b # n
    /\ Approved(b)
    /\ LET bound == Bound(n, ChainFrom(b))
           term == ChainMaxTerm(ChainFrom(b))
           o == [Unwritten EXCEPT !.ends[n] = Fitted(asked, bound)]
       IN  /\ Fits(asked, bound)
           /\ Written(IF n \in Budgets THEN [o EXCEPT !.maxTerm[n] = term] ELSE o)
    /\ above' = [above EXCEPT ![n] = b]
    /\ \E granted \in {"pending", "approved"} : state' = [state EXCEPT ![n] = granted]

\* RequestChange of a request that nobody decided on yet.
Amend(n, asked) ==
    /\ state[n] = "pending"
    /\ Fits(asked, Bound(n, Chain(n)))
    /\ Written([Unwritten EXCEPT !.ends[n] = asked])
    /\ UNCHANGED <<above, state>>

\* leafChangeDecision: sooner always, an extension if the policy of the budget
\* covers it and it ends with that budget at the latest.
DecidesItself(p, asked) == asked <= ends[p] \/ (asked <= ends[above[p]] /\ Approved(above[p]))

\* RequestChange of a node in force.
RequestEnd(n, asked) ==
    /\ state[n] \in Holding
    /\ Fits(asked, Bound(n, Chain(n)))
    /\ \/ /\ n \in Projects /\ DecidesItself(n, asked)
          /\ Written([Unwritten EXCEPT !.ends[n] = asked, !.asks[n] = NoAsk])
          /\ state' = [state EXCEPT ![n] = "approved"]
       \/ /\ n \in Projects => asked > ends[n]
          /\ Written([Unwritten EXCEPT !.asks[n] = asked])
          /\ state' = [state EXCEPT ![n] = "changing"]
    /\ UNCHANGED above

\* ApproveNode: cut to what the budgets above allow by now, then carried down.
Granted(n) == Lesser(IF asks[n] # NoAsk THEN asks[n] ELSE ends[n], Bound(n, Chain(n)))

ApproveNode(n) ==
    /\ state[n] \in {"pending", "changing"}
    /\ LET o == [Unwritten EXCEPT !.ends[n] = Granted(n), !.asks[n] = NoAsk]
       IN  \E out \in IF n \in Budgets /\ Granted(n) # Never
                      THEN CarryEnds(o, n, Granted(n)) ELSE {o} : Written(out)
    /\ state' = [state EXCEPT ![n] = "approved"]
    /\ UNCHANGED above

\* RejectNode
Reject(n) ==
    /\ state[n] \in {"pending", "changing"}
    /\ state' = [state EXCEPT ![n] = IF state[n] = "pending" THEN "retired" ELSE "approved"]
    /\ Written([Unwritten EXCEPT !.asks[n] = NoAsk])
    /\ UNCHANGED above

\* UpdateNode of an end, also one that is set already; nothing is carried down
\* when it is cleared.
EditEnd(b, to) ==
    /\ b \in Budgets /\ state[b] \in Live
    /\ to <= ChainEnd(Chain(b))
    /\ LET o == [Unwritten EXCEPT !.ends[b] = to]
       IN  \E out \in IF to # Never THEN CarryEnds(o, b, to) ELSE {o} :
               Written(Finished(out, "end", b, to))
    /\ UNCHANGED <<above, state>>

\* UpdateNode of a maximum term.
EditTerm(b, days) ==
    /\ b \in {Root} \cup {c \in Budgets : state[c] \in Live}
    /\ days <= ChainMaxTerm(Chain(b))
    /\ LET o == [Unwritten EXCEPT !.maxTerm[b] = days]
       IN  \E out \in IF days # Never THEN CarryTerms(o, b, days) ELSE {o} :
               Written(Finished(out, "term", b, days))
    /\ UNCHANGED <<above, state>>

\* ReparentNode: the node is cut to the chain it comes to, then what is below it.
Move(n, b) ==
    /\ state[n] \in Live /\ b # above[n]
    /\ Approved(b) /\ n \notin ChainFrom(b)
    /\ LET chain == ChainFrom(b)
           o == ShortenEnds(Unwritten, {n}, Bound(n, chain))
           cut == ShortenTerms(o, {n} \cap Budgets, ChainMaxTerm(chain))
       IN  \E ended \in IF n \in Budgets /\ ChainEnd(chain) # Never
                        THEN CarryEnds(cut, n, ChainEnd(chain)) ELSE {cut} :
           \E out \in IF n \notin Budgets \/ cut.maxTerm[n] = Never THEN {ended}
                      ELSE IF ended.failed
                      THEN {[ended EXCEPT
                               !.skipped = @ \cup Missed("term", n, Subtree(n), cut.maxTerm[n])]}
                      ELSE CarryTerms(ended, n, cut.maxTerm[n]) : Written(out)
    /\ above' = [above EXCEPT ![n] = b]
    /\ UNCHANGED state

\* DeleteNode, ReleaseNode
Retire(n) ==
    /\ state[n] \in Holding
    /\ Subtree(n) = {}
    /\ state' = [state EXCEPT ![n] = "retired"]
    /\ Written([Unwritten EXCEPT !.asks[n] = NoAsk])
    /\ UNCHANGED above

NewDay ==
    /\ day < LastDay /\ day' = day + 1
    /\ UNCHANGED <<above, state, ends, asks, maxTerm, skipped, edits, failures>>

-----------------------------------------------------------------------------
LifetimesNext ==
    \/ /\ Edit /\ UNCHANGED day
       /\ \/ \E n \in Below0, b \in AllBudgets, asked \in Asked : Create(n, b, asked)
          \/ \E n \in Below0, asked \in 1..Horizon : Amend(n, asked) \/ RequestEnd(n, asked)
          \/ \E n \in Below0 : ApproveNode(n) \/ Reject(n) \/ Retire(n)
          \/ \E b \in Budgets, to \in Asked : EditEnd(b, to)
          \/ \E b \in AllBudgets, days \in Terms \cup {Never} : EditTerm(b, days)
          \/ \E n \in Below0, b \in AllBudgets : Move(n, b)
    \/ NewDay

-----------------------------------------------------------------------------
(* Properties *)

Waits(what, n) == \E s \in skipped : s.what = what /\ s.node = n

\* "Nothing can outlive the budget it draws from" (fitEnd): no request, project
\* or budget ends, or is proposed to end, after a budget above it, however it
\* was moved, extended and decided on, but for nodes that a failed write kept
\* the shortening from, and these only until the budget is given that end, or a
\* sooner one, again.
NothingOutlives ==
    \A n \in Below0 : state[n] \in Live /\ ~Waits("end", n) =>
        \A b \in Chain(n) :
            ends[n] <= ends[b] /\ (asks[n] # NoAsk => asks[n] <= ends[b])

\* "The shortest maximum project term along a chain of budgets - the one every
\* project below them obeys" (chainMaxTerm): from today on no project runs
\* longer than any budget above it allows at a time, nor is it proposed to, and
\* no budget allows longer than one above it, with the same exception for terms.
TermsObeyed ==
    \A n \in Below0 : state[n] \in Live /\ ~Waits("term", n) =>
        \A b \in Chain(n) :
            IF n \in Budgets
            THEN maxTerm[n] <= maxTerm[b]
            ELSE /\ ends[n] <= TermEnd(maxTerm[b])
                 /\ asks[n] # NoAsk => asks[n] <= TermEnd(maxTerm[b])
=============================================================================
