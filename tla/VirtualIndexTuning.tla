-------------------------- MODULE VirtualIndexTuning --------------------------
(***************************************************************************)
(* db_pg96_create_virtual_indexes of src/server.py: measure a statement,   *)
(* measure it again under each set of hypothetical indexes, return the     *)
(* best.                                                                   *)
(*                                                                         *)
(* HypoPG keeps hypothetical indexes in the session.  A rollback does not  *)
(* remove them, only hypopg_reset() or the end of the session does, and    *)
(* the session is a pooled connection that the next call will get.  Every  *)
(* statement, the reset in the `finally` block too, goes through           *)
(* _execute_safe and may therefore be refused by the query limiter.        *)
(*                                                                         *)
(* The module follows one connection through the calls that borrow it.     *)
(* Candidate indexes are numbered in the tool's sorting order.             *)
(***************************************************************************)
EXTENDS Naturals, Sequences

CONSTANTS
    MaxCandidates,   \* bound on the candidate indexes of a statement
    MaxTables,       \* bound on the tables of its plan
    MaxSets,         \* VIDX_MAX_SETS_DEFAULT
    Times            \* execution times EXPLAIN ANALYZE may report

ASSUME TuningAssumption ==
    /\ MaxCandidates \in Nat /\ MaxTables \in Nat /\ MaxSets \in Nat
    /\ Times \subseteq Nat

VARIABLES
    pc,          \* the statement the call is at; "idle" between calls
    hypo,        \* session: the hypothetical indexes that exist
    tables,      \* tables whose columns are still to be read
    sets,        \* candidate_sets
    at,          \* the candidate set being evaluated
    created,     \* created_indexes of that set
    baseline,    \* baseline_execution_time_ms
    best,        \* the best measurement: its time and its indexes
    evaluated,   \* evaluated_summaries
    outcome      \* "none", "ok", "error"; "failing" while an exception passes
                 \* through the finally block

callVars == <<tables, sets, at, created, baseline, best, evaluated>>
vars == <<pc, hypo, callVars, outcome>>

-------------------------------------------------------------------------------
(* Candidate sets and their order *)

Before(s, t) ==
    \/ Len(s) < Len(t)
    \/ /\ Len(s) = Len(t)
       /\ \E i \in DOMAIN s : s[i] < t[i] /\ \A j \in 1 .. i - 1 : s[j] = t[j]

Singles(n) == {<<i>> : i \in 1 .. n}
Pairs(n) == {p \in (1 .. n) \X (1 .. n) : p[1] < p[2]}

Candidates(n) == Singles(n) \cup Pairs(n)
AsSet(s) == {s[i] : i \in DOMAIN s}

\* Singles, then pairs, [:VIDX_MAX_SETS_DEFAULT]: in order, nothing left out
\* before the last one, and everything there is unless the list is full.
CandidateSets(n) ==
    {s \in UNION {[1 .. k -> Candidates(n)] : k \in 0 .. MaxSets} :
        /\ \A i, j \in DOMAIN s : i < j => Before(s[i], s[j])
        /\ \A i \in DOMAIN s : \A t \in Candidates(n) : Before(t, s[i]) => t \in AsSet(s)
        /\ Len(s) = MaxSets \/ AsSet(s) = Candidates(n)}

Measurement(time, indexes) == [time |-> time, indexes |-> indexes]

\* current_sort < best_sort: time, then the number of indexes, then their DDL.
Better(m, n) ==
    \/ m.time < n.time
    \/ m.time = n.time /\ Before(m.indexes, n.indexes)

-------------------------------------------------------------------------------
Init ==
    /\ pc = "idle"
    /\ hypo = {}
    /\ tables = 0
    /\ sets = <<>>
    /\ at = 0
    /\ created = <<>>
    /\ baseline = 0
    /\ best = Measurement(0, <<>>)
    /\ evaluated = {}
    /\ outcome = "none"

\* The read-only gate and the argument checks have passed.
Begin ==
    /\ pc = "idle"
    /\ pc' = "installed"
    /\ outcome' = "none"
    /\ UNCHANGED <<hypo, callVars>>

\* The call is over: its locals are gone, and the connection is in the pool.
Leave(result) ==
    /\ pc' = "idle"
    /\ outcome' = result
    /\ tables' = 0
    /\ sets' = <<>>
    /\ at' = 0
    /\ created' = <<>>
    /\ baseline' = 0
    /\ best' = Measurement(0, <<>>)
    /\ evaluated' = {}

\* _ensure_hypopg_available, then the check of the schema.
CheckInstalled ==
    /\ pc = "installed"
    /\ pc' = "schema"
    /\ UNCHANGED <<hypo, callVars, outcome>>

CheckSchema ==
    /\ pc = "schema"
    /\ pc' = "baseline"
    /\ UNCHANGED <<hypo, callVars, outcome>>

\* Candidates come from the plan's conditions and, below, from the columns of
\* its tables; how many there are is left open.
MeasureBaseline ==
    /\ pc = "baseline"
    /\ \E time \in Times :
          /\ baseline' = time
          /\ best' = Measurement(time, <<>>)
    /\ tables' \in 0 .. MaxTables
    /\ pc' = "columns"
    /\ UNCHANGED <<hypo, sets, at, created, evaluated, outcome>>

ReadColumns ==
    /\ pc = "columns"
    /\ tables > 0
    /\ tables' = tables - 1
    /\ UNCHANGED <<pc, hypo, sets, at, created, baseline, best, evaluated, outcome>>

\* Where the loop over the candidate sets goes after set number i.
Continue(i) ==
    IF i < Len(sets) THEN pc' = "reset" /\ at' = i + 1
                     ELSE pc' = "final" /\ at' = at

BuildSets ==
    /\ pc = "columns"
    /\ tables = 0
    /\ \E n \in 0 .. MaxCandidates : sets' \in CandidateSets(n)
    /\ IF sets' = <<>> THEN pc' = "final" /\ at' = 0
                       ELSE pc' = "reset" /\ at' = 1
    /\ UNCHANGED <<hypo, tables, created, baseline, best, evaluated, outcome>>

\* A statement before the try block is refused or fails, HypoPG or the schema
\* is missing, or the baseline plan is unusable.
FailEarly ==
    /\ pc \in {"installed", "schema", "baseline"} \/ (pc = "columns" /\ tables > 0)
    /\ Leave("error")
    /\ UNCHANGED hypo

-------------------------------------------------------------------------------
(* The try block *)

\* Mutation of ResetSession: no reset before a set.
ResetSessionSkipped ==
    /\ pc = "reset"
    /\ created' = <<>>
    /\ pc' = "create"
    /\ UNCHANGED <<hypo, tables, sets, at, baseline, best, evaluated, outcome>>

ResetSession ==
    /\ pc = "reset"
    /\ hypo' = {}
    /\ created' = <<>>
    /\ pc' = "create"
    /\ UNCHANGED <<tables, sets, at, baseline, best, evaluated, outcome>>

NextIndex == sets[at][Len(created) + 1]

CreateIndex ==
    /\ pc = "create"
    /\ hypo' = hypo \cup {NextIndex}
    /\ created' = Append(created, NextIndex)
    /\ pc' = IF Len(created') = Len(sets[at]) THEN "explain" ELSE "create"
    /\ UNCHANGED <<tables, sets, at, baseline, best, evaluated, outcome>>

\* HypoPG does not accept the index, or the limiter refuses the statement: both
\* are taken for an invalid specification.
CreateFails ==
    /\ pc = "create"
    /\ pc' = "discard"
    /\ UNCHANGED <<hypo, callVars, outcome>>

\* Mutation of Discard: the set is tried again.
DiscardRetries ==
    /\ pc = "discard"
    /\ hypo' = {}
    /\ pc' = "reset"
    /\ UNCHANGED <<callVars, outcome>>

Discard ==
    /\ pc = "discard"
    /\ hypo' = {}
    /\ Continue(at)
    /\ UNCHANGED <<tables, sets, created, baseline, best, evaluated, outcome>>

\* Mutation of MeasureSet: compared with the baseline, not with the best so far.
MeasureSetAgainstBaseline ==
    /\ pc = "explain"
    /\ \E time \in Times :
          LET m == Measurement(time, created) IN
          /\ evaluated' = evaluated \cup {m}
          /\ best' = IF Better(m, Measurement(baseline, <<>>)) THEN m ELSE best
    /\ Continue(at)
    /\ UNCHANGED <<hypo, tables, sets, created, baseline, outcome>>

MeasureSet ==
    /\ pc = "explain"
    /\ \E time \in Times :
          LET m == Measurement(time, created) IN
          /\ evaluated' = evaluated \cup {m}
          /\ best' = IF Better(m, best) THEN m ELSE best
    /\ Continue(at)
    /\ UNCHANGED <<hypo, tables, sets, created, baseline, outcome>>

\* EXPLAIN returned no plan.
SkipSet ==
    /\ pc = "explain"
    /\ Continue(at)
    /\ UNCHANGED <<hypo, tables, sets, created, baseline, best, evaluated, outcome>>

\* A statement is refused or fails, or the plan has no execution time.
FailInTry ==
    /\ pc \in {"reset", "discard", "explain"}
    /\ pc' = "final"
    /\ outcome' = "failing"
    /\ UNCHANGED <<hypo, callVars>>

-------------------------------------------------------------------------------
(* The finally block *)

FinalReset ==
    /\ pc = "final"
    /\ hypo' = {}
    /\ Leave(IF outcome = "failing" THEN "error" ELSE "ok")

\* The reset is refused by the limiter or fails.
FinalResetFails ==
    /\ pc = "final"
    /\ Leave("error")
    /\ UNCHANGED hypo

\* The connection is lost at any statement: its session is gone, and the pool
\* replaces it.
ConnectionLost ==
    /\ pc # "idle"
    /\ hypo' = {}
    /\ Leave("error")

Statement == CheckInstalled \/ CheckSchema \/ MeasureBaseline \/ ReadColumns
             \/ BuildSets \/ ResetSession \/ CreateIndex \/ CreateFails \/ Discard
             \/ MeasureSet \/ SkipSet \/ FinalReset

Failure == FailEarly \/ FailInTry \/ FinalResetFails \/ ConnectionLost

Next == Begin \/ Statement \/ Failure

Spec == Init /\ [][Next]_vars

\* Statements end and the thread moves on to the next one.
FairSpec == Spec /\ WF_vars(Statement)

-------------------------------------------------------------------------------
(* Properties *)

TypeOK ==
    /\ pc \in {"idle", "installed", "schema", "baseline", "columns", "reset",
               "create", "discard", "explain", "final"}
    /\ hypo \in SUBSET (1 .. MaxCandidates)
    /\ tables \in 0 .. MaxTables
    /\ sets \in Seq(Candidates(MaxCandidates))
    /\ at \in 0 .. Len(sets)
    /\ Len(created) <= 2
    /\ baseline \in Times \cup {0}
    /\ outcome \in {"none", "ok", "error", "failing"}

\* Each set is measured on its own: when EXPLAIN runs, the hypothetical indexes
\* of the session are those of the set, none left over from the set before it,
\* from a set that failed half way, or from an earlier call.
MeasuredInIsolation ==
    pc = "explain" => hypo = AsSet(sets[at]) /\ created = sets[at]

\* The result is the best of what was measured: no set beats it, it is never
\* worse than the baseline, and a set that was not created completely cannot
\* win.
BestIsBest ==
    pc = "final" =>
        /\ ~ Better(Measurement(baseline, <<>>), best)
        /\ \A m \in evaluated : ~ Better(m, best)
        /\ best.indexes = <<>> \/ best \in evaluated
        /\ \A m \in evaluated : m.indexes \in AsSet(sets)

\* README: the tool "always resets HypoPG state after evaluation": between calls
\* the pooled connection has no hypothetical indexes.
AlwaysReset == pc = "idle" => hypo = {}

\* The search ends: skipped sets, empty plans and failed indexes all make
\* progress through the list of sets.
SearchEnds == pc # "idle" ~> pc = "idle"
===============================================================================
