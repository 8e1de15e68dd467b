-------------------------------- MODULE Books --------------------------------
(***************************************************************************)
(* The usage books (core/usage): one row per project and finished day,     *)
(* from what OpenStack accounts for that day and what the tree says about  *)
(* the project when the day is recorded.                                   *)
(*                                                                         *)
(* Every pass asks which days are missing, at most MaxDaysPerRun of them,  *)
(* and records them oldest first; the first failure ends it. The service   *)
(* is down for days, projects come, move and go, and midnight passes       *)
(* between counting and recording.                                         *)
(***************************************************************************)
EXTENDS Naturals, Sequences

CONSTANTS
    Metered,        \* projects
    Places,         \* budgets a project may be in
    BackfillDays,   \* how far back the first run reaches
    MaxDaysPerRun,
    FirstToday,     \* bound: the calendar begins
    LastToday,      \* bound: and ends
    MaxMoves,       \* bound: what changes in the tree
    MaxOutages      \* bound: calls that fail, and crashes

BooksAssumption ==
    /\ BackfillDays \in Nat /\ MaxDaysPerRun \in Nat \ {0}
    /\ FirstToday \in BackfillDays..LastToday /\ LastToday \in Nat
    /\ MaxMoves \in Nat /\ MaxOutages \in Nat

VARIABLES
    date,
    holding,        \* projects in the tree with an OpenStack project that hold resources
    ending,         \* projects in the tree that do not, rejected ones that are bound
    gone,           \* projects that were removed
    place,          \* the budget of a project
    ran,            \* which projects ran something on a day, as OpenStack accounts
    rows,           \* the rows stored, a set for every day
    queue,          \* the days this pass has left to record
    counted,        \* what was read from OpenStack for the first of them
    moves, outages

booksVars == <<date, holding, ending, gone, place, ran, rows, queue, counted, moves, outages>>

Dates == 0..LastToday
Nothing == [read |-> FALSE]
Rows == [project : Metered, in : Places, used : BOOLEAN, backfilled : BOOLEAN, addresses : BOOLEAN]

BooksTypeOK ==
    /\ date \in Dates
    /\ holding \subseteq Metered /\ ending \subseteq Metered /\ gone \subseteq Metered
    /\ place \in [Metered -> Places]
    /\ ran \in [Dates -> SUBSET Metered]
    /\ rows \in [Dates -> SUBSET Rows]
    /\ queue \in Seq(Dates)
    /\ counted.read \in BOOLEAN
    /\ moves \in 0..MaxMoves /\ outages \in 0..MaxOutages

BooksInit ==
    /\ date = FirstToday
    /\ holding \in SUBSET Metered /\ ending = {} /\ gone = {}
    /\ \E b \in Places : place = [p \in Metered |-> b]
    /\ ran = [d \in Dates |-> {}]
    /\ rows = [d \in Dates |-> {}]
    /\ queue = <<>> /\ counted = Nothing
    /\ moves = 0 /\ outages = 0

-----------------------------------------------------------------------------
(* The tree and OpenStack *)

Moving == moves < MaxMoves /\ moves' = moves + 1
UnchangedBooks == UNCHANGED <<rows, queue, counted, outages>>

ProjectComes(p) ==
    /\ p \notin holding \cup ending \cup gone
    /\ Moving /\ holding' = holding \cup {p}
    /\ UnchangedBooks /\ UNCHANGED <<date, ending, gone, place, ran>>

ProjectMoves(p, b) ==
    /\ p \in holding \cup ending /\ place[p] # b
    /\ Moving /\ place' = [place EXCEPT ![p] = b]
    /\ UnchangedBooks /\ UNCHANGED <<date, holding, ending, gone, ran>>

\* An adopted project that was rejected still runs, and is recorded if it does.
ProjectRejected(p) ==
    /\ p \in holding
    /\ Moving /\ holding' = holding \ {p} /\ ending' = ending \cup {p}
    /\ UnchangedBooks /\ UNCHANGED <<date, gone, place, ran>>

\* Removed from the tree, with its project.
ProjectGoes(p) ==
    /\ p \in holding \cup ending
    /\ Moving /\ holding' = holding \ {p} /\ ending' = ending \ {p}
    /\ gone' = gone \cup {p}
    /\ UnchangedBooks /\ UNCHANGED <<date, place, ran>>

\* Midnight: what ran that day is accounted for.
Midnight ==
    /\ date < LastToday /\ date' = date + 1
    /\ \E S \in {{}, holding \cup ending} : ran' = [ran EXCEPT ![date] = S]
    /\ UnchangedBooks /\ UNCHANGED <<holding, ending, gone, place, moves>>

-----------------------------------------------------------------------------
(* Recording *)

Outage == outages < MaxOutages /\ outages' = outages + 1
UnchangedWorld == UNCHANGED <<date, holding, ending, gone, place, ran, moves>>

\* LastDay: a day without rows is not stored.
Stored == {d \in Dates : rows[d] # {}}
LatestDay == CHOOSE d \in Stored : \A e \in Stored : e <= d

\* DaysToRecord
FirstMissing == IF Stored = {} THEN date - BackfillDays ELSE LatestDay + 1

\* Mutant of DaysFrom: counted from the day before.
DaysFromEarlier(first) ==
    LET n == IF date > first THEN date - first ELSE 0
        many == IF n > MaxDaysPerRun THEN MaxDaysPerRun ELSE n
    IN  [i \in 1..many |-> first + i - 2]

DaysFrom(first) ==
    LET n == IF date > first THEN date - first ELSE 0
        many == IF n > MaxDaysPerRun THEN MaxDaysPerRun ELSE n
    IN  [i \in 1..many |-> first + i - 1]

AskDays ==
    /\ queue = <<>> /\ queue' = DaysFrom(FirstMissing)
    /\ UnchangedWorld /\ UNCHANGED <<rows, counted, outages>>

\* Only for yesterday is now what it was on the day.
Sampled(d) == d + 1 >= date

\* Mutant of Count: a day that cannot be read is left out.
CountOrSkip ==
    /\ queue # <<>> /\ ~counted.read
    /\ \/ /\ \E sampled \in {FALSE, Sampled(Head(queue))} :
                counted' = [read |-> TRUE, usage |-> ran[Head(queue)], addresses |-> sampled]
          /\ UNCHANGED <<queue, outages>>
       \/ Outage /\ queue' = Tail(queue) /\ UNCHANGED counted
    /\ UnchangedWorld /\ UNCHANGED rows

\* DayUsage, and the addresses as far as they can be counted.
Count ==
    /\ queue # <<>> /\ ~counted.read
    /\ \/ /\ \E sampled \in {FALSE, Sampled(Head(queue))} :
                counted' = [read |-> TRUE, usage |-> ran[Head(queue)], addresses |-> sampled]
          /\ UNCHANGED <<queue, outages>>
       \/ Outage /\ queue' = <<>> /\ UNCHANGED counted
    /\ UnchangedWorld /\ UNCHANGED rows

\* Rows of those that used something or hold resources all the same.
RowsOf(d) ==
    {[project |-> p, in |-> place[p], used |-> p \in counted.usage, backfilled |-> ~Sampled(d),
      addresses |-> counted.addresses /\ Sampled(d)] :
        p \in holding \cup (ending \cap counted.usage)}

\* RecordDay: the day is replaced as a whole, or not at all.
RecordDay ==
    /\ counted.read
    /\ \/ /\ rows' = [rows EXCEPT ![Head(queue)] = RowsOf(Head(queue))]
          /\ queue' = Tail(queue) /\ UNCHANGED outages
       \/ Outage /\ queue' = <<>> /\ UNCHANGED rows
    /\ counted' = Nothing
    /\ UnchangedWorld

BooksCrash ==
    /\ queue # <<>> /\ Outage
    /\ queue' = <<>> /\ counted' = Nothing
    /\ UnchangedWorld /\ UNCHANGED rows

-----------------------------------------------------------------------------
BooksStep == AskDays \/ Count \/ RecordDay

BooksNext ==
    \/ \E p \in Metered :
        \/ ProjectComes(p) \/ ProjectRejected(p) \/ ProjectGoes(p)
        \/ \E b \in Places : ProjectMoves(p, b)
    \/ Midnight
    \/ BooksStep \/ BooksCrash

-----------------------------------------------------------------------------
(* Properties *)

Booked(p, d) == \E r \in rows[d] : r.project = p /\ r.used

\* "A pod that was down for a while catches up by itself" (Books): what a
\* project that stays ran on a day is in the books, for every finished day from
\* the one they begin with, whatever failed and however long the service was
\* down.
AllBooked(p) ==
    \A d \in Dates : d < date /\ p \in ran[d] /\ (\E e \in Stored : e <= d) => Booked(p, d)

\* DaysToRecord: for every project that stays.
CatchesUp == \A p \in Metered : <>[](p \in holding) => <>[]AllBooked(p)
=============================================================================
