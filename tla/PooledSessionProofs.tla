-------------------------- MODULE PooledSessionProofs --------------------------
(***************************************************************************)
(* Safety of the calls that share a pooled connection, for every batch     *)
(* size, row limit and result, and for every number of candidate indexes,  *)
(* of tables and of candidate sets.                                        *)
(*                                                                         *)
(* The fetch loop counts rows down in `remaining` and up in the list it    *)
(* returns; FetchInv is the relation between the two and the rows left in  *)
(* the result.  TuningInv says which hypothetical indexes the session has  *)
(* at each statement of the loop over the sets, and BestInv what its       *)
(* bookkeeping has seen so far.  Under Progress, each statement is one less *)
(* that a call has before it.                                              *)
(***************************************************************************)
EXTENDS PooledSession, TLAPS

\* The fetch loop: what is fetched, what is wanted and what is left add up.
FetchInv ==
    /\ QueryTypeOK
    /\ asking # "idle" => limit \in Int /\ limit >= 0 /\ answer.kind = "none"
    /\ asking = "idle" => setting = session
    /\ asking = "fetching" => /\ remaining >= 0
                              /\ fetched + remaining = limit + 1
                              /\ fetched + rest = query.rows

-------------------------------------------------------------------------------
(* Queries *)

\* No call has been made on a new connection.
LEMMA QueryInitEstablishes == QueryInit => FetchInv
  BY QueryAssumption
  DEF QueryInit, FetchInv, QueryTypeOK, Queries, NoQuery, NoAnswer

\* Neither a statement nor a batch of rows breaks the sums.
LEMMA QueryStepPreserves == FetchInv /\ [QueryNext]_queryVars => FetchInv'
<1> SUFFICES ASSUME FetchInv, [QueryNext]_queryVars PROVE FetchInv'
  OBVIOUS
<1> USE QueryAssumption DEF FetchInv, QueryTypeOK, fetchVars
<1>0. NoQuery \in Queries
  BY DEF NoQuery, Queries
<1>1. CASE Ask
  <2>1. /\ NoAnswer.kind = "none"
        /\ {NoAnswer, Error}
             \subseteq [kind : {"none", "error", "rows"}, rows : Int, truncated : BOOLEAN]
    BY DEF NoAnswer, Error
  <2>2. PICK max \in Limits :
          \/ max < 0 /\ answer' = Error /\ UNCHANGED <<asking, query, limit>>
          \/ max >= 0 /\ query' \in Queries /\ limit' = max
                /\ asking' = "timing" /\ answer' = NoAnswer
    BY <1>1 DEF Ask
  <2> QED
    BY <1>1, <2>1, <2>2 DEF Ask
<1>2. CASE SetTimeout
  BY <1>2 DEF SetTimeout
<1>3. CASE Execute
  BY <1>3 DEF Execute, Wanted, Queries
<1>4. CASE FetchBatch
  <2>1. /\ BatchSize \in 1 .. rest
        /\ BatchSize <= remaining
    BY <1>4 DEF FetchBatch, BatchSize
  <2> QED
    BY <1>4, <2>1 DEF FetchBatch, Queries
<1>5. CASE Answer
  BY <1>0, <1>5 DEF Answer, HangUp
<1>6. CASE QueryFails
  BY <1>0, <1>6 DEF QueryFails, HangUp, Error
<1>7. CASE SessionLost
  BY <1>0, <1>7 DEF SessionLost, HangUp, Error
<1>8. CASE UNCHANGED queryVars
  BY <1>8 DEF queryVars
<1> QED
  BY <1>1, <1>2, <1>3, <1>4, <1>5, <1>6, <1>7, <1>8 DEF QueryNext, QueryStep

\* A tuning call runs between two queries, and leaves no setting uncommitted.
LEMMA SessionPreservesFetch == FetchInv /\ [SessionNext]_sessionVars => FetchInv'
<1> SUFFICES ASSUME FetchInv, [SessionNext]_sessionVars PROVE FetchInv'
  OBVIOUS
<1>1. CASE TuningTurn
  BY <1>1
  DEF TuningTurn, FetchInv, QueryTypeOK, NoAnswer, fetchVars
<1>2. CASE QueryTurn
  <2>1. QueryNext
    BY <1>2 DEF QueryTurn, QueryNext
  <2> QED
    BY <2>1, QueryStepPreserves
<1>3. CASE UNCHANGED sessionVars
  <2>1. UNCHANGED queryVars
    BY <1>3 DEF sessionVars
  <2> QED
    BY <2>1, QueryStepPreserves
<1> QED
  BY <1>1, <1>2, <1>3 DEF SessionNext

\* The sums hold in every state of the connection.
THEOREM FetchInvariance == SessionSpec => []FetchInv
<1>1. SessionInit => FetchInv
  BY QueryInitEstablishes DEF SessionInit
<1> QED
  BY <1>1, SessionPreservesFetch, PTL DEF SessionSpec

\* An answer has all the rows up to the limit and says truthfully whether there
\* were more, for every size of batch, limit and result.
THEOREM AnswersExact == SessionSpec => RowsExact
<1> DEFINE Exact ==
      asking # "idle" /\ answer'.kind = "rows" =>
          /\ answer'.rows = IF query.rows < limit THEN query.rows ELSE limit
          /\ answer'.truncated <=> query.rows > limit
<1>1. FetchInv /\ [SessionNext]_sessionVars => [Exact]_queryVars
  <2> SUFFICES ASSUME FetchInv, SessionNext, asking # "idle", answer'.kind = "rows"
               PROVE  Exact
    BY DEF sessionVars
  <2>1. QueryTurn
    BY DEF SessionNext, TuningTurn
  <2>2. CASE Answer
    <3>1. remaining = 0 \/ BatchSize = 0
      BY <2>2 DEF Answer
    <3>2. BatchSize = 0 => remaining = 0 \/ rest = 0
      BY QueryAssumption DEF BatchSize, FetchInv, QueryTypeOK
    <3>3. remaining = 0 \/ rest = 0
      BY <3>1, <3>2
    <3>4. /\ limit \in Int /\ limit >= 0 /\ query.rows \in Int
          /\ fetched \in Int /\ fetched + remaining = limit + 1
          /\ rest >= 0 /\ remaining >= 0 /\ fetched + rest = query.rows
      BY <2>2, QueryAssumption DEF Answer, FetchInv, QueryTypeOK, Queries
    <3>5. fetched > limit <=> query.rows > limit
      BY <3>3, <3>4, QueryAssumption DEF FetchInv, QueryTypeOK
    <3>6. /\ answer'.rows = IF fetched > limit THEN limit ELSE fetched
          /\ answer'.truncated = (fetched > limit)
      BY <2>2 DEF Answer
    <3>7. answer'.truncated <=> query.rows > limit
      BY <3>5, <3>6
    <3>8. ~ (fetched > limit) => fetched = query.rows
      BY <3>3, <3>4, QueryAssumption DEF FetchInv, QueryTypeOK
    <3>9. answer'.rows = IF query.rows < limit THEN query.rows ELSE limit
      BY <3>4, <3>5, <3>6, <3>8
    <3> QED
      BY <3>7, <3>9
  <2>3. CASE Ask \/ QueryFails \/ SessionLost
    BY <2>3 DEF Ask, QueryFails, SessionLost, Error
  <2>4. CASE SetTimeout \/ Execute \/ FetchBatch
    BY <2>4 DEF SetTimeout, Execute, FetchBatch, FetchInv
  <2> QED
    BY <2>1, <2>2, <2>3, <2>4 DEF QueryTurn, QueryStep
<1> QED
  BY <1>1, FetchInvariance, PTL DEF SessionSpec, RowsExact

\* A call that fails takes its settings back, or leaves a new session.
THEOREM FailuresKeepSettings == SessionSpec => FailureKeepsSettings
<1> DEFINE Kept ==
      asking # "idle" /\ answer'.kind = "error"
          => session' \in {session, "default"} /\ setting' = session'
<1>1. FetchInv /\ [SessionNext]_sessionVars => [Kept]_queryVars
  <2> SUFFICES ASSUME FetchInv, SessionNext, asking # "idle", answer'.kind = "error"
               PROVE  Kept
    BY DEF sessionVars
  <2>1. QueryTurn
    BY DEF SessionNext, TuningTurn
  <2>2. CASE QueryFails \/ SessionLost
    BY <2>2 DEF QueryFails, SessionLost
  <2>3. CASE Ask
    BY <2>3 DEF Ask
  <2>4. CASE SetTimeout \/ Execute \/ FetchBatch
    BY <2>4 DEF SetTimeout, Execute, FetchBatch, FetchInv
  <2>5. CASE Answer
    BY <2>5 DEF Answer
  <2> QED
    BY <2>1, <2>2, <2>3, <2>4, <2>5 DEF QueryTurn, QueryStep
<1> QED
  BY <1>1, FetchInvariance, PTL DEF SessionSpec, FailureKeepsSettings

-------------------------------------------------------------------------------
(* The order of candidate sets and of measurements *)

IndexSets == Candidates(MaxCandidates)
Measurements == [time : Nat, indexes : Seq(Nat)]

\* A candidate set is a list of one or two of the candidate indexes.
LEMMA CandidateSetShape ==
    ASSUME NEW n \in Nat, NEW s \in Candidates(n)
    PROVE  s \in Seq(1 .. n) /\ Len(s) \in 1 .. 2
<1>1. CASE s \in Singles(n)
  <2>1. PICK i \in 1 .. n : s = <<i>>
    BY <1>1 DEF Singles
  <2> QED
    BY <2>1
<1>2. CASE s \in Pairs(n)
  <2>1. s \in (1 .. n) \X (1 .. n)
    BY <1>2 DEF Pairs
  <2>2. PICK i \in 1 .. n, j \in 1 .. n : s = <<i, j>>
    BY <2>1
  <2> QED
    BY <2>2
<1> QED
  BY <1>1, <1>2 DEF Candidates

\* No list of indexes comes before itself.
LEMMA BeforeIrreflexive == ASSUME NEW s \in Seq(Nat) PROVE ~ Before(s, s)
  BY DEF Before

\* The order of the lists of indexes is transitive.
LEMMA BeforeTransitive ==
    ASSUME NEW s \in Seq(Nat), NEW t \in Seq(Nat), NEW u \in Seq(Nat),
           Before(s, t), Before(t, u)
    PROVE  Before(s, u)
<1>1. CASE Len(s) < Len(t) \/ Len(t) < Len(u)
  BY <1>1 DEF Before
<1>2. CASE Len(s) = Len(t) /\ Len(t) = Len(u)
  <2> DEFINE N == Len(u)
  <2>0. /\ N \in Nat
        /\ DOMAIN s = 1 .. N /\ DOMAIN t = 1 .. N /\ DOMAIN u = 1 .. N
        /\ \A k \in 1 .. N : s[k] \in Nat /\ t[k] \in Nat /\ u[k] \in Nat
    BY <1>2
  <2>a. \E i \in DOMAIN s : s[i] < t[i] /\ \A k \in 1 .. i - 1 : s[k] = t[k]
    BY <1>2 DEF Before
  <2>b. \E j \in DOMAIN t : t[j] < u[j] /\ \A k \in 1 .. j - 1 : t[k] = u[k]
    BY <1>2 DEF Before
  <2> HIDE DEF N
  <2>1. PICK i \in 1 .. N : s[i] < t[i] /\ \A k \in 1 .. i - 1 : s[k] = t[k]
    BY <2>0, <2>a
  <2>2. PICK j \in 1 .. N : t[j] < u[j] /\ \A k \in 1 .. j - 1 : t[k] = u[k]
    BY <2>0, <2>b
  <2>3. CASE i < j
    <3>0. i \in 1 .. j - 1 /\ 1 .. i - 1 \subseteq 1 .. j - 1
      BY <2>0, <2>3
    <3>1. t[i] = u[i] /\ \A k \in 1 .. i - 1 : t[k] = u[k]
      BY <2>2, <3>0
    <3>2. s[i] < u[i] /\ \A k \in 1 .. i - 1 : s[k] = u[k]
      BY <2>1, <3>1
    <3> QED
      BY <1>2, <2>0, <3>2 DEF Before
  <2>4. CASE i = j
    <3>1. s[i] < u[i]
      BY <2>0, <2>1, <2>2, <2>4
    <3>2. \A k \in 1 .. i - 1 : s[k] = u[k]
      BY <2>1, <2>2, <2>4
    <3> QED
      BY <1>2, <2>0, <3>1, <3>2 DEF Before
  <2>5. CASE j < i
    <3>0. j \in 1 .. i - 1 /\ 1 .. j - 1 \subseteq 1 .. i - 1
      BY <2>0, <2>5
    <3>1. s[j] = t[j] /\ \A k \in 1 .. j - 1 : s[k] = t[k]
      BY <2>1, <3>0
    <3>2. s[j] < u[j] /\ \A k \in 1 .. j - 1 : s[k] = u[k]
      BY <2>2, <3>1
    <3> QED
      BY <1>2, <2>0, <3>2 DEF Before
  <2> QED
    BY <2>3, <2>4, <2>5
<1> QED
  BY <1>1, <1>2 DEF Before

\* No measurement beats itself.
LEMMA BetterIrreflexive == ASSUME NEW m \in Measurements PROVE ~ Better(m, m)
  BY BeforeIrreflexive DEF Better, Measurements

\* What beats a winner beats what the winner has beaten.
LEMMA BetterTransitive ==
    ASSUME NEW l \in Measurements, NEW m \in Measurements, NEW n \in Measurements,
           Better(l, m), Better(m, n)
    PROVE  Better(l, n)
  BY BeforeTransitive DEF Better, Measurements

-------------------------------------------------------------------------------
(* Tuning: which hypothetical indexes exist *)

\* At each statement of the loop the session has exactly the indexes created
\* so far for the set at hand, and they are the first ones of that set.
TuningInv ==
    /\ TypeOK
    /\ created \in Seq(Nat)
    /\ pc \in {"reset", "create", "discard", "explain"} => at \in DOMAIN sets
    /\ pc = "create" => Len(created) < Len(sets[at])
    /\ pc = "explain" => Len(created) = Len(sets[at])
    /\ pc \in {"create", "explain"} =>
          /\ hypo = AsSet(created)
          /\ \A i \in DOMAIN created : created[i] = sets[at][i]

\* The candidate sets of any statement are sets of its candidate indexes.
LEMMA CandidateSetsTyped ==
    ASSUME NEW n \in 0 .. MaxCandidates, NEW s \in CandidateSets(n)
    PROVE  s \in Seq(IndexSets)
<1>1. Candidates(n) \subseteq IndexSets
  BY TuningAssumption DEF IndexSets, Candidates, Singles, Pairs
<1>2. PICK k \in 0 .. MaxSets : s \in [1 .. k -> Candidates(n)]
  BY DEF CandidateSets
<1> QED
  BY <1>1, <1>2, TuningAssumption

\* Every set in the list is a list of one or two candidate indexes.
LEMMA SetAtHand ==
    ASSUME TypeOK, NEW i \in DOMAIN sets
    PROVE  sets[i] \in Seq(1 .. MaxCandidates) /\ Len(sets[i]) \in 1 .. 2
<1>1. sets[i] \in Candidates(MaxCandidates)
  BY DEF TypeOK
<1> QED
  BY <1>1, CandidateSetShape, TuningAssumption

\* Nothing has been tuned on a new connection.
LEMMA TuningInitEstablishes == Init => TuningInv
  BY TuningAssumption DEF Init, TuningInv, TypeOK

\* The end of a call, on whatever path, leaves no call behind.
LEMMA LeavePreserves ==
    ASSUME TuningInv, NEW result \in {"ok", "error"}, Leave(result),
           hypo' \in {hypo, {}}
    PROVE  TuningInv'
  BY TuningAssumption DEF Leave, TuningInv, TypeOK

\* The loop goes on with the next set, or ends.
LEMMA ContinuePreserves ==
    ASSUME TuningInv, pc \in {"discard", "explain"}, Continue(at),
           hypo' \in {hypo, {}},
           UNCHANGED <<tables, sets, created, baseline, outcome>>
    PROVE  TuningInv'
  BY TuningAssumption DEF Continue, TuningInv, TypeOK

\* No statement of a tuning call, and no failure of one, breaks it.
LEMMA TuningStepPreserves == TuningInv /\ [Next]_vars => TuningInv'
<1> SUFFICES ASSUME TuningInv, [Next]_vars PROVE TuningInv'
  OBVIOUS
<1> USE TuningAssumption
<1>1. CASE Begin \/ CheckInstalled \/ CheckSchema
  BY <1>1 DEF Begin, CheckInstalled, CheckSchema, callVars, TuningInv, TypeOK
<1>2. CASE MeasureBaseline
  BY <1>2 DEF MeasureBaseline, TuningInv, TypeOK
<1>2a. CASE ReadColumns
  BY <1>2a DEF ReadColumns, TuningInv, TypeOK
<1>3. CASE BuildSets
  <2>1. sets' \in Seq(IndexSets)
    BY <1>3, CandidateSetsTyped DEF BuildSets
  <2>2. sets' # <<>> => 1 \in DOMAIN sets'
    BY <2>1
  <2> QED
    BY <1>3, <2>1, <2>2 DEF BuildSets, TuningInv, TypeOK, IndexSets
<1>4. CASE ResetSession
  <2>1. at \in DOMAIN sets /\ Len(sets[at]) \in 1 .. 2
    BY <1>4, SetAtHand DEF ResetSession, TuningInv
  <2>2. TypeOK'
    BY <1>4 DEF ResetSession, TuningInv, TypeOK
  <2>3. created' = <<>> /\ hypo' = {} /\ pc' = "create" /\ UNCHANGED <<at, sets>>
    BY <1>4 DEF ResetSession
  <2>4. AsSet(created') = {}
    BY <2>3 DEF AsSet
  <2> QED
    BY <2>1, <2>2, <2>3, <2>4 DEF TuningInv
<1>5. CASE CreateIndex
  <2>1. /\ at \in DOMAIN sets /\ sets[at] \in Seq(1 .. MaxCandidates)
        /\ Len(sets[at]) \in 1 .. 2
    BY <1>5, SetAtHand DEF CreateIndex, TuningInv
  <2>2. /\ created \in Seq(Nat) /\ Len(created) < Len(sets[at])
        /\ hypo = AsSet(created)
        /\ \A i \in DOMAIN created : created[i] = sets[at][i]
    BY <1>5 DEF CreateIndex, TuningInv
  <2>3. NextIndex \in 1 .. MaxCandidates
    BY <2>1, <2>2 DEF NextIndex
  <2>4. created' = Append(created, NextIndex)
    BY <1>5 DEF CreateIndex
  <2>5. /\ created' \in Seq(Nat) /\ Len(created') = Len(created) + 1
        /\ \A i \in DOMAIN created' : created'[i] = sets[at][i]
    BY <2>1, <2>2, <2>3, <2>4 DEF NextIndex
  <2>6. hypo' = AsSet(created')
    <3>1. AsSet(created') = AsSet(created) \cup {NextIndex}
      BY <2>2, <2>3, <2>4 DEF AsSet
    <3> QED
      BY <1>5, <2>2, <3>1 DEF CreateIndex
  <2>7. UNCHANGED <<tables, sets, at, baseline, outcome>> /\ pc' \in {"create", "explain"}
        /\ (pc' = "explain" <=> Len(created') = Len(sets[at]))
    BY <1>5 DEF CreateIndex
  <2>8. TypeOK'
    <3>1. hypo' = hypo \cup {NextIndex}
      BY <1>5 DEF CreateIndex
    <3>2. Len(created') <= 2
      <4> DEFINE n == Len(created)  size == Len(sets[at])
      <4>1. n \in Nat /\ n < size /\ Len(created') = n + 1
        BY <2>2, <2>5
      <4>2. size \in 1 .. 2
        BY <2>1
      <4> HIDE DEF n, size
      <4>3. n + 1 <= 2
        BY ONLY <4>1, <4>2
      <4> QED
        BY <4>1, <4>3
    <3> QED
      BY <2>3, <2>7, <3>1, <3>2 DEF TuningInv, TypeOK
  <2>9. pc' = "create" => Len(created') < Len(sets'[at'])
    BY <2>1, <2>2, <2>5, <2>7
  <2>10. /\ at' \in DOMAIN sets'
         /\ pc' = "explain" => Len(created') = Len(sets'[at'])
         /\ \A i \in DOMAIN created' : created'[i] = sets'[at'][i]
    BY <2>1, <2>5, <2>7
  <2> QED
    BY <2>5, <2>6, <2>8, <2>9, <2>10 DEF TuningInv, AsSet
<1>6. CASE CreateFails
  BY <1>6 DEF CreateFails, callVars, TuningInv, TypeOK
<1>7. CASE Discard \/ MeasureSet \/ SkipSet
  BY <1>7, ContinuePreserves DEF Discard, MeasureSet, SkipSet
<1>8. CASE FailInTry
  BY <1>8 DEF FailInTry, callVars, TuningInv, TypeOK
<1>9. CASE FinalReset \/ FinalResetFails \/ FailEarly \/ ConnectionLost
  BY <1>9, LeavePreserves DEF FinalReset, FinalResetFails, FailEarly, ConnectionLost
<1>10. CASE UNCHANGED vars
  BY <1>10 DEF vars, callVars, TuningInv, TypeOK
<1> QED
  BY <1>1, <1>2, <1>2a, <1>3, <1>4, <1>5, <1>6, <1>7, <1>8, <1>9, <1>10
  DEF Next, Statement, Failure

\* A query between two tuning calls creates no index; a lost connection drops
\* the ones a call left behind.
LEMMA SessionPreservesTuning == TuningInv /\ [SessionNext]_sessionVars => TuningInv'
<1> SUFFICES ASSUME TuningInv, [SessionNext]_sessionVars PROVE TuningInv'
  OBVIOUS
<1>1. CASE TuningTurn
  BY <1>1, TuningStepPreserves DEF TuningTurn, Next, Failure
<1>2. CASE QueryTurn
  <2>1. /\ pc = "idle" /\ hypo' \in {hypo, {}}
        /\ UNCHANGED <<pc, callVars, outcome>>
    BY <1>2 DEF QueryTurn
  <2> QED
    BY <2>1 DEF TuningInv, TypeOK, callVars
<1>3. CASE UNCHANGED sessionVars
  BY <1>3, TuningStepPreserves DEF sessionVars
<1> QED
  BY <1>1, <1>2, <1>3 DEF SessionNext

\* It holds in every state of the connection.
THEOREM TuningInvariance == SessionSpec => []TuningInv
<1>1. SessionInit => TuningInv
  BY TuningInitEstablishes DEF SessionInit
<1> QED
  BY <1>1, SessionPreservesTuning, PTL DEF SessionSpec

\* The state of both kinds of calls has its type: the search stays within its
\* sets and the fetch loop within its result, and the calls take turns.
THEOREM SessionTypeCorrect == SessionSpec => []SessionTypeOK
<1> DEFINE Turns == asking = "idle" \/ pc = "idle"
<1>1. SessionInit => Turns
  BY DEF SessionInit, Init
<1>2. Turns /\ [SessionNext]_sessionVars => Turns'
  BY DEF SessionNext, TuningTurn, QueryTurn, sessionVars, vars, queryVars
<1>3. SessionSpec => []Turns
  BY <1>1, <1>2, PTL DEF SessionSpec
<1>4. FetchInv /\ TuningInv /\ Turns => SessionTypeOK
  BY DEF FetchInv, TuningInv, SessionTypeOK
<1> QED
  BY <1>3, <1>4, FetchInvariance, TuningInvariance, PTL

\* What EXPLAIN measures is one whole set of the list.
LEMMA WholeSetCreated ==
    ASSUME TuningInv, pc = "explain"
    PROVE  created = sets[at] /\ at \in DOMAIN sets
<1>1. sets[at] \in Seq(1 .. MaxCandidates) /\ created \in Seq(Nat)
  BY SetAtHand DEF TuningInv
<1>2. Len(created) = Len(sets[at]) /\ \A i \in DOMAIN created : created[i] = sets[at][i]
  BY DEF TuningInv
<1>3. created = sets[at]
  BY ONLY <1>1, <1>2
<1> QED
  BY <1>3 DEF TuningInv

\* Each set is measured under its own indexes and no others, whatever sets
\* failed before it and whatever calls had the connection before.
THEOREM SetsMeasuredInIsolation == SessionSpec => []MeasuredInIsolation
<1>1. TuningInv => MeasuredInIsolation
  BY WholeSetCreated DEF TuningInv, MeasuredInIsolation
<1> QED
  BY <1>1, TuningInvariance, PTL

-------------------------------------------------------------------------------
(* Tuning: the bookkeeping of the best measurement *)

\* While the sets are evaluated, nothing measured so far beats `best`, which is
\* the baseline or one of the measurements, and all of them are of whole sets.
BestInv ==
    /\ TuningInv
    /\ best \in Measurements
    /\ evaluated \subseteq Measurements
    /\ pc = "columns" => best = Measurement(baseline, <<>>)
    /\ pc \in {"idle", "installed", "schema", "baseline", "columns"} => evaluated = {}
    /\ pc \in {"reset", "create", "discard", "explain", "final"} =>
          /\ ~ Better(Measurement(baseline, <<>>), best)
          /\ \A m \in evaluated : ~ Better(m, best)
          /\ best.indexes = <<>> \/ best \in evaluated
          /\ \A m \in evaluated : m.indexes \in AsSet(sets)

\* A measurement that beats the best so far beats everything the best has
\* beaten; one that does not is beaten by nothing it has to beat.
LEMMA BestUpdated ==
    ASSUME NEW old \in Measurements, NEW seen \in SUBSET Measurements,
           NEW m \in Measurements, \A n \in seen : ~ Better(n, old),
           NEW new, new = IF Better(m, old) THEN m ELSE old
    PROVE  /\ new \in Measurements
           /\ \A n \in seen \cup {m} : ~ Better(n, new)
  BY BetterIrreflexive, BetterTransitive

\* Nothing has been measured on a new connection.
LEMMA BestInitEstablishes == Init => BestInv
  BY TuningInitEstablishes DEF Init, BestInv, Measurement, Measurements

\* No statement of a tuning call, and no failure of one, breaks it.
LEMMA BestStepPreserves == BestInv /\ [Next]_vars => BestInv'
<1> SUFFICES ASSUME BestInv, [Next]_vars PROVE BestInv'
  OBVIOUS
<1> USE TuningAssumption
<1>0. TuningInv'
  BY TuningStepPreserves DEF BestInv
<1>1. CASE Begin \/ CheckInstalled \/ CheckSchema \/ FailInTry \/ CreateFails
  BY <1>0, <1>1
  DEF Begin, CheckInstalled, CheckSchema, FailInTry, CreateFails, callVars, BestInv
<1>2. CASE MeasureBaseline
  <2>1. PICK time \in Times : baseline' = time /\ best' = Measurement(time, <<>>)
    BY <1>2 DEF MeasureBaseline
  <2> QED
    BY <1>0, <1>2, <2>1 DEF MeasureBaseline, BestInv, Measurement, Measurements
<1>3. CASE ReadColumns
  BY <1>0, <1>3 DEF ReadColumns, BestInv
<1>4. CASE BuildSets
  <2>1. ~ Better(best, best)
    BY BetterIrreflexive DEF BestInv
  <2> QED
    BY <1>0, <1>4, <2>1 DEF BuildSets, BestInv, Measurement
<1>5. CASE ResetSession \/ CreateIndex \/ Discard \/ SkipSet
  BY <1>0, <1>5 DEF ResetSession, CreateIndex, Discard, SkipSet, Continue, BestInv
<1>6. CASE MeasureSet
  <2>1. PICK time \in Times :
          /\ evaluated' = evaluated \cup {Measurement(time, created)}
          /\ best' = IF Better(Measurement(time, created), best)
                     THEN Measurement(time, created) ELSE best
    BY <1>6 DEF MeasureSet
  <2> DEFINE m == Measurement(time, created)
  <2>2. m \in Measurements
    BY DEF Measurement, Measurements, BestInv, TuningInv
  <2>3. pc = "explain" /\ m.indexes \in AsSet(sets)
    BY <1>6, WholeSetCreated DEF Measurement, MeasureSet, BestInv, AsSet
  <2> HIDE DEF m
  <2>4. /\ best \in Measurements /\ evaluated \subseteq Measurements
        /\ \A n \in evaluated \cup {Measurement(baseline, <<>>)} : ~ Better(n, best)
        /\ best.indexes = <<>> \/ best \in evaluated
        /\ \A n \in evaluated : n.indexes \in AsSet(sets)
    BY <2>3 DEF BestInv
  <2>5. Measurement(baseline, <<>>) \in Measurements
    BY DEF Measurement, Measurements, BestInv, TuningInv, TypeOK
  <2>6. /\ best' \in Measurements
        /\ \A n \in evaluated \cup {Measurement(baseline, <<>>)} \cup {m} : ~ Better(n, best')
    <3>1. best' = IF Better(m, best) THEN m ELSE best
      BY <2>1 DEF m
    <3>2. evaluated \cup {Measurement(baseline, <<>>)} \in SUBSET Measurements
      BY <2>4, <2>5
    <3>3. best \in Measurements
      BY <2>4
    <3>4. \A n \in evaluated \cup {Measurement(baseline, <<>>)} : ~ Better(n, best)
      BY <2>4
    <3> DEFINE seen == evaluated \cup {Measurement(baseline, <<>>)}
    <3> HIDE DEF seen
    <3>5. seen \in SUBSET Measurements /\ \A n \in seen : ~ Better(n, best)
      BY <3>2, <3>4 DEF seen
    <3>6. best' \in Measurements /\ \A n \in seen \cup {m} : ~ Better(n, best')
      BY <2>2, <3>1, <3>3, <3>5, BestUpdated
    <3> QED
      BY <3>6 DEF seen
  <2>7. best'.indexes = <<>> \/ best' \in evaluated'
    BY <2>1, <2>4 DEF m
  <2>8. UNCHANGED <<sets, baseline>> /\ pc' \in {"reset", "final"}
    BY <1>6 DEF MeasureSet, Continue
  <2>9. evaluated' = evaluated \cup {m}
    BY <2>1 DEF m
  <2> QED
    BY <1>0, <2>2, <2>3, <2>4, <2>6, <2>7, <2>8, <2>9 DEF BestInv, AsSet, Measurement
<1>7. CASE FinalReset \/ FinalResetFails \/ FailEarly \/ ConnectionLost
  <2>1. pc' = "idle" /\ evaluated' = {} /\ best' = Measurement(0, <<>>)
    BY <1>7 DEF FinalReset, FinalResetFails, FailEarly, ConnectionLost, Leave
  <2> QED
    BY <1>0, <2>1 DEF BestInv, Measurement, Measurements
<1>8. CASE UNCHANGED vars
  BY <1>0, <1>8 DEF vars, callVars, BestInv
<1> QED
  BY <1>1, <1>2, <1>3, <1>4, <1>5, <1>6, <1>7, <1>8 DEF Next, Statement, Failure

\* A query between two tuning calls does not touch it.
LEMMA SessionPreservesBest == BestInv /\ [SessionNext]_sessionVars => BestInv'
<1> SUFFICES ASSUME BestInv, [SessionNext]_sessionVars PROVE BestInv'
  OBVIOUS
<1>1. CASE TuningTurn
  BY <1>1, BestStepPreserves DEF TuningTurn, Next, Failure
<1>2. CASE QueryTurn
  <2>1. TuningInv'
    BY SessionPreservesTuning DEF BestInv
  <2> QED
    BY <1>2, <2>1 DEF QueryTurn, BestInv, callVars
<1>3. CASE UNCHANGED sessionVars
  BY <1>3, BestStepPreserves DEF sessionVars
<1> QED
  BY <1>1, <1>2, <1>3 DEF SessionNext

\* The tool returns the best of what it measured, and nothing that is worse
\* than no index at all.
THEOREM ResultIsBest == SessionSpec => []BestIsBest
<1>1. SessionInit => BestInv
  BY BestInitEstablishes DEF SessionInit
<1>2. BestInv => BestIsBest
  BY DEF BestInv, BestIsBest
<1> QED
  BY <1>1, <1>2, SessionPreservesBest, PTL DEF SessionSpec
-------------------------------------------------------------------------------
(* Progress *)

\* How many statements and fetches a query has before it at most.
QueryLeft ==
    CASE asking = "timing" -> MaxRows + 3
      [] asking = "executing" -> MaxRows + 2
      [] asking = "fetching" -> rest + 1
      [] OTHER -> 0

\* How many statements a tuning call has before it at most: four for each set that
\* follows, and one to tell the end of a set from the beginning of the next.
SearchLeft ==
    CASE pc = "installed" -> 5 * MaxSets + MaxTables + 5
      [] pc = "schema" -> 5 * MaxSets + MaxTables + 4
      [] pc = "baseline" -> 5 * MaxSets + MaxTables + 3
      [] pc = "columns" -> 5 * MaxSets + tables + 2
      [] pc = "reset" -> 5 * (Len(sets) - at) + 5
      [] pc = "create" -> 5 * (Len(sets) - at) + 4 - Len(created)
      [] pc \in {"explain", "discard"} -> 5 * (Len(sets) - at) + 2
      [] pc = "final" -> 1
      [] OTHER -> 0

\* Every step of the connection brings the call that has it nearer to its end.
QueryAdvances == asking # "idle" => QueryLeft' < QueryLeft
SearchAdvances == pc # "idle" => SearchLeft' < SearchLeft

\* What the next statement is made of is there: fetchmany is asked for none or
\* more rows, there is a set to look at and an index of it to create.
Ready ==
    /\ asking = "fetching" => remaining >= 0 /\ BatchSize \in 0 .. rest
    /\ pc \in {"reset", "create", "discard", "explain"} => at \in DOMAIN sets
    /\ pc = "create" => Len(created) + 1 \in DOMAIN sets[at]

\* The fetch loop asks for what is left of the result at most, and never for less
\* than nothing.
LEMMA BatchWithin ==
    ASSUME FetchInv, asking = "fetching"
    PROVE  remaining >= 0 /\ rest \in Nat /\ BatchSize \in 0 .. rest
  BY QueryAssumption DEF FetchInv, QueryTypeOK, BatchSize

\* No batch is empty but the last one, so the rest of the result gets smaller.
LEMMA QueryTurnAdvances == FetchInv /\ QueryTurn => QueryAdvances
<1> SUFFICES ASSUME FetchInv, QueryTurn, asking # "idle" PROVE QueryLeft' < QueryLeft
  BY DEF QueryAdvances
<1>1. /\ asking \in {"timing", "executing", "fetching"} /\ rest \in Nat /\ MaxRows \in Nat
      /\ query \in Queries
  BY QueryAssumption DEF FetchInv, QueryTypeOK
<1>2. CASE SetTimeout
  BY <1>1, <1>2 DEF SetTimeout, QueryLeft
<1>3. CASE Execute
  <2>1. query.rows \in 0 .. MaxRows
    BY <1>1 DEF Queries
  <2>2. asking = "executing" /\ asking' = "fetching" /\ rest' = query.rows
    BY <1>3 DEF Execute
  <2>3. QueryLeft' = query.rows + 1 /\ QueryLeft = MaxRows + 2
    BY <2>2 DEF QueryLeft
  <2> QED
    BY <1>1, <2>1, <2>3
<1>4. CASE FetchBatch
  <2>1. /\ asking = "fetching" /\ asking' = "fetching"
        /\ BatchSize > 0 /\ rest' = rest - BatchSize
    BY <1>4 DEF FetchBatch
  <2>2. BatchSize \in 0 .. rest
    BY <2>1, BatchWithin
  <2>3. QueryLeft' = rest' + 1 /\ QueryLeft = rest + 1
    BY <2>1 DEF QueryLeft
  <2> QED
    BY <1>1, <2>1, <2>2, <2>3
<1>5. CASE HangUp
  <2>1. QueryLeft' = 0
    BY <1>5 DEF HangUp, QueryLeft
  <2> QED
    BY <1>1, <2>1 DEF QueryLeft
<1> QED
  BY <1>2, <1>3, <1>4, <1>5
  DEF QueryTurn, Ask, QueryStep, Answer, QueryFails, SessionLost

\* The list of sets is never longer than the tool's limit.
LEMMA SetsWithinLimit ==
    ASSUME NEW n \in Nat, NEW s \in CandidateSets(n)
    PROVE  Len(s) \in 0 .. MaxSets
<1>1. PICK k \in 0 .. MaxSets : s \in [1 .. k -> Candidates(n)]
  BY DEF CandidateSets
<1>2. Len(s) = k
  BY <1>1, TuningAssumption
<1> QED
  BY <1>1, <1>2

\* There is an element behind the first n.
LEMMA ElementBehind ==
    ASSUME NEW S, NEW s \in Seq(S), NEW n \in Nat, n < Len(s)
    PROVE  n + 1 \in DOMAIN s /\ s[n + 1] \in S
  OBVIOUS

\* Where a call is in the loop over its sets.
LEMMA WithinTheLoop ==
    ASSUME TuningInv
    PROVE  /\ tables \in 0 .. MaxTables
           /\ Len(sets) - at \in Nat
           /\ pc = "create" => Len(created) \in 0 .. 1
<1>1. /\ tables \in 0 .. MaxTables /\ sets \in Seq(IndexSets) /\ at \in 0 .. Len(sets)
      /\ created \in Seq(Nat)
  BY DEF TuningInv, TypeOK, IndexSets
<1>2. Len(sets) \in Nat /\ Len(sets) - at \in Nat /\ Len(created) \in Nat
  BY <1>1
<1>3. ASSUME pc = "create" PROVE Len(created) \in 0 .. 1
  <2>1. Len(sets[at]) \in 1 .. 2 /\ Len(created) < Len(sets[at])
    BY <1>3, SetAtHand DEF TuningInv
  <2> DEFINE size == Len(sets[at])
             n == Len(created)
  <2>2. size \in 1 .. 2 /\ n < size /\ n \in Nat
    BY <1>2, <2>1
  <2> HIDE DEF size, n
  <2>3. n \in 0 .. 1
    BY ONLY <2>2
  <2> QED
    BY <2>3 DEF n
<1> QED
  BY <1>1, <1>2, <1>3

\* Who is in a call has something left, and more than the last reset before that.
LEMMA SearchLeftTyped ==
    ASSUME TuningInv, pc # "idle"
    PROVE  SearchLeft \in Nat /\ SearchLeft > 0 /\ (pc # "final" => SearchLeft > 1)
<1>1. /\ pc \in {"installed", "schema", "baseline", "columns", "reset", "create",
                 "discard", "explain", "final"}
      /\ MaxSets \in Nat /\ MaxTables \in Nat
  BY TuningAssumption DEF TuningInv, TypeOK
<1>2. PICK rounds \in Nat : rounds = Len(sets) - at
  BY WithinTheLoop
<1>3. CASE pc \in {"installed", "schema", "baseline", "columns", "final"}
  <2>1. PICK t \in Nat : t = tables
    BY WithinTheLoop, <1>1
  <2>2. PICK all \in Nat : all = 5 * MaxSets
    BY <1>1
  <2>3. PICK most \in Nat : most = MaxTables
    BY <1>1
  <2>4. SearchLeft \in {all + most + 5, all + most + 4, all + most + 3, all + t + 2, 1}
        /\ (pc # "final" => SearchLeft # 1)
    <3>1. SearchLeft = IF pc = "installed" THEN all + most + 5
                       ELSE IF pc = "schema" THEN all + most + 4
                       ELSE IF pc = "baseline" THEN all + most + 3
                       ELSE IF pc = "columns" THEN all + t + 2 ELSE 1
      BY <1>3, <2>1, <2>2, <2>3 DEF SearchLeft
    <3> QED
      BY <1>3, <2>1, <2>2, <2>3, <3>1
  <2> QED
    BY <2>1, <2>2, <2>3, <2>4
<1>4. CASE pc \in {"reset", "explain", "discard"}
  <2>1. SearchLeft \in {5 * rounds + 5, 5 * rounds + 2}
    BY <1>2, <1>4 DEF SearchLeft
  <2> QED
    BY <1>2, <2>1
<1>5. CASE pc = "create"
  <2>1. PICK n \in 0 .. 1 : n = Len(created)
    BY <1>5, WithinTheLoop
  <2>2. SearchLeft = 5 * rounds + 4 - n
    BY <1>2, <1>5, <2>1 DEF SearchLeft
  <2> QED
    BY <1>2, <2>2
<1> QED
  BY <1>1, <1>3, <1>4, <1>5

\* From the end of a set the loop goes on to fewer sets, or leaves.
LEMMA ContinueAdvances ==
    ASSUME TuningInv, pc \in {"explain", "discard"}, Continue(at), sets' = sets
    PROVE  SearchLeft' < SearchLeft
<1>1. Len(sets) - at \in Nat /\ Len(sets) \in Nat /\ at \in Nat
  BY WithinTheLoop DEF TuningInv, TypeOK
<1>2. SearchLeft = 5 * (Len(sets) - at) + 2
  BY DEF SearchLeft
<1>3. CASE at < Len(sets)
  <2>1. SearchLeft' = 5 * (Len(sets) - (at + 1)) + 5
    BY <1>3 DEF Continue, SearchLeft
  <2> QED
    BY <1>1, <1>2, <2>1
<1>4. CASE ~ (at < Len(sets))
  <2>1. SearchLeft' = 1
    BY <1>4 DEF Continue, SearchLeft
  <2> QED
    BY <1>1, <1>2, <2>1
<1> QED
  BY <1>3, <1>4

\* Whatever a statement finds, it brings the search forward: also a set that is
\* skipped, an index that is refused and a plan without a time.
LEMMA TuningTurnAdvances == TuningInv /\ TuningTurn => SearchAdvances
<1> SUFFICES ASSUME TuningInv, TuningTurn, pc # "idle" PROVE SearchLeft' < SearchLeft
  BY DEF SearchAdvances
<1>1. /\ MaxSets \in Nat /\ MaxTables \in Nat
      /\ tables \in 0 .. MaxTables
      /\ Len(sets) - at \in Nat
      /\ pc = "create" => Len(created) \in 0 .. 1
  BY WithinTheLoop, TuningAssumption
<1>1a. PICK rounds \in Nat : rounds = Len(sets) - at
  BY <1>1
<1>2. CASE CheckInstalled \/ CheckSchema
  <2>1. PICK longest \in Nat : longest = 5 * MaxSets + MaxTables
    BY <1>1
  <2>2. \/ SearchLeft = longest + 5 /\ SearchLeft' = longest + 4
        \/ SearchLeft = longest + 4 /\ SearchLeft' = longest + 3
    BY <1>2, <2>1 DEF CheckInstalled, CheckSchema, SearchLeft
  <2> QED
    BY <2>2
<1>3. CASE MeasureBaseline
  <2>1. pc = "baseline" /\ pc' = "columns" /\ tables' \in 0 .. MaxTables
    BY <1>3 DEF MeasureBaseline
  <2>2. SearchLeft' = 5 * MaxSets + tables' + 2 /\ SearchLeft = 5 * MaxSets + MaxTables + 3
    BY <2>1 DEF SearchLeft
  <2>3. PICK t \in 0 .. MaxTables : t = tables'
    BY <2>1
  <2>4. PICK r \in Nat : r = 5 * MaxSets
    BY <1>1
  <2>5. PICK most \in Nat : most = MaxTables
    BY <1>1
  <2>6. t \in 0 .. most /\ r + t + 2 < r + most + 3
    BY ONLY t \in 0 .. MaxTables, r \in Nat, most \in Nat, most = MaxTables
  <2> QED
    BY <2>2, <2>3, <2>4, <2>5, <2>6
<1>4. CASE ReadColumns
  BY <1>1, <1>4 DEF ReadColumns, SearchLeft
<1>5. CASE BuildSets
  <2>1. PICK n \in 0 .. MaxCandidates : sets' \in CandidateSets(n)
    BY <1>5 DEF BuildSets
  <2>2. Len(sets') \in 0 .. MaxSets
    BY <2>1, SetsWithinLimit, TuningAssumption
  <2>3. SearchLeft = 5 * MaxSets + 2
    BY <1>1, <1>5 DEF BuildSets, SearchLeft
  <2>4. CASE sets' = <<>>
    <3>1. SearchLeft' = 1
      BY <1>5, <2>4 DEF BuildSets, SearchLeft
    <3> QED
      BY <1>1, <2>3, <3>1
  <2>5. CASE sets' # <<>>
    <3>1. SearchLeft' = 5 * (Len(sets') - 1) + 5
      BY <1>5, <2>5 DEF BuildSets, SearchLeft
    <3> QED
      BY <1>1, <2>2, <2>3, <3>1
  <2> QED
    BY <2>4, <2>5
<1>6. CASE ResetSession
  <2>1. SearchLeft = 5 * (Len(sets) - at) + 5
    BY <1>6 DEF ResetSession, SearchLeft
  <2>2. SearchLeft' = 5 * (Len(sets) - at) + 4 - 0
    BY <1>6 DEF ResetSession, SearchLeft
  <2> QED
    BY <1>1, <2>1, <2>2
<1>7. CASE CreateIndex
  <2>1. pc = "create" /\ created \in Seq(Nat) /\ NextIndex \in Nat
    <3>1. /\ pc = "create" /\ at \in DOMAIN sets /\ Len(created) < Len(sets[at])
          /\ created \in Seq(Nat)
      BY <1>7 DEF CreateIndex, TuningInv
    <3>2. sets[at] \in Seq(1 .. MaxCandidates)
      BY <3>1, SetAtHand DEF TuningInv
    <3>3. Len(created) \in Nat
      BY <3>1
    <3>4. NextIndex \in 1 .. MaxCandidates
      BY <3>1, <3>2, <3>3, ElementBehind DEF NextIndex
    <3> QED
      BY <3>1, <3>4, TuningAssumption
  <2>2. /\ Len(created') = Len(created) + 1
        /\ pc' \in {"create", "explain"} /\ UNCHANGED <<sets, at>>
    BY <1>7, <2>1 DEF CreateIndex
  <2>3. PICK n \in 0 .. 1 : n = Len(created)
    BY <1>1, <2>1
  <2>4. SearchLeft = 5 * rounds + 4 - n
    BY <1>1a, <2>1, <2>3 DEF SearchLeft
  <2>5. CASE pc' = "create"
    <3>1. SearchLeft' = 5 * rounds + 4 - (n + 1)
      BY <1>1a, <2>2, <2>3, <2>5 DEF SearchLeft
    <3> QED
      BY <2>4, <3>1
  <2>6. CASE pc' = "explain"
    <3>1. SearchLeft' = 5 * rounds + 2
      BY <1>1a, <2>2, <2>6 DEF SearchLeft
    <3> QED
      BY <2>4, <3>1
  <2> QED
    BY <2>2, <2>5, <2>6
<1>8. CASE CreateFails
  <2>1. pc = "create" /\ pc' = "discard" /\ UNCHANGED <<sets, at>>
    BY <1>8 DEF CreateFails, callVars
  <2>2. PICK n \in 0 .. 1 : n = Len(created)
    BY <1>1, <2>1
  <2>3. SearchLeft = 5 * rounds + 4 - n /\ SearchLeft' = 5 * rounds + 2
    BY <1>1a, <2>1, <2>2 DEF SearchLeft
  <2> QED
    BY <2>3
<1>9. CASE Discard \/ MeasureSet \/ SkipSet
  BY <1>9, ContinueAdvances DEF Discard, MeasureSet, SkipSet
<1>10. CASE FailInTry
  <2>1. SearchLeft' = 1 /\ pc # "final"
    BY <1>10 DEF FailInTry, SearchLeft
  <2> QED
    BY <2>1, SearchLeftTyped
<1>11. CASE FinalReset \/ FailEarly \/ FinalResetFails \/ ConnectionLost
  <2>1. SearchLeft' = 0
    BY <1>11 DEF FinalReset, FailEarly, FinalResetFails, ConnectionLost, Leave, SearchLeft
  <2> QED
    BY <2>1, SearchLeftTyped
<1> QED
  BY <1>2, <1>3, <1>4, <1>5, <1>6, <1>7, <1>8, <1>9, <1>10, <1>11
  DEF TuningTurn, Begin, Statement

\* No call on the connection goes in circles: a query ends after at most MaxRows
\* (the size of its result) and three steps, a tuning call after a number of
\* statements that its limits on tables and sets bound.
THEOREM CallsAdvance == SessionSpec => [][QueryAdvances /\ SearchAdvances]_sessionVars
<1> DEFINE Turns == asking = "idle" \/ pc = "idle"
<1>1. FetchInv /\ TuningInv /\ Turns /\ [SessionNext]_sessionVars
        => [QueryAdvances /\ SearchAdvances]_sessionVars
  <2>1. TuningTurn => asking = "idle"
    BY DEF TuningTurn
  <2>2. QueryTurn => pc = "idle"
    BY DEF QueryTurn
  <2> QED
    BY <2>1, <2>2, QueryTurnAdvances, TuningTurnAdvances
    DEF SessionNext, QueryAdvances, SearchAdvances
<1>2. SessionTypeOK => Turns
  BY DEF SessionTypeOK
<1> QED
  BY <1>1, <1>2, FetchInvariance, TuningInvariance, SessionTypeCorrect, PTL DEF SessionSpec

\* And no call is stuck for want of something to send.
THEOREM AlwaysReady == SessionSpec => []Ready
<1>1. FetchInv /\ TuningInv => Ready
  <2> SUFFICES ASSUME FetchInv, TuningInv PROVE Ready
    OBVIOUS
  <2>1. ASSUME pc = "create" PROVE Len(created) + 1 \in DOMAIN sets[at]
    <3>1. sets[at] \in Seq(1 .. MaxCandidates) /\ Len(created) < Len(sets[at])
          /\ created \in Seq(Nat)
      BY <2>1, SetAtHand DEF TuningInv
    <3>2. Len(created) \in Nat
      BY <3>1
    <3> QED
      BY <3>1, <3>2, ElementBehind
  <2> QED
    BY <2>1, BatchWithin DEF Ready, TuningInv
<1> QED
  BY <1>1, FetchInvariance, TuningInvariance, PTL
-------------------------------------------------------------------------------
(* The promise that a refused reset breaks *)

\* Before the first set and after the last reset there are no hypothetical indexes.
CleanOutside ==
    pc \in {"idle", "installed", "schema", "baseline", "columns"} => hypo = {}

\* README: the tool "always resets HypoPG state after evaluation".  AlwaysReset is
\* violated when the reset in the finally block is refused or fails with indexes to
\* reset, and by nothing else: not by errors before or in the loop, not by a lost
\* connection, not by the calls and queries that share the connection.
THEOREM OnlyRefusedResetsLeak ==
    SessionSpec /\ [][FinalResetFails => hypo = {}]_sessionVars => []AlwaysReset
<1>1. SessionInit => CleanOutside
  BY DEF SessionInit, Init, CleanOutside
<1>2. CleanOutside /\ [SessionNext]_sessionVars /\ [FinalResetFails => hypo = {}]_sessionVars
        => CleanOutside'
  <2> SUFFICES ASSUME CleanOutside, [SessionNext]_sessionVars,
                      [FinalResetFails => hypo = {}]_sessionVars
               PROVE  CleanOutside'
    OBVIOUS
  <2>1. CASE UNCHANGED sessionVars
    BY <2>1 DEF sessionVars, vars, CleanOutside
  <2>2. CASE QueryTurn
    BY <2>2 DEF QueryTurn, CleanOutside
  <2>3. ASSUME TuningTurn, FinalResetFails => hypo = {}
        PROVE  CleanOutside'
    <3>1. CASE Begin \/ CheckInstalled \/ CheckSchema \/ MeasureBaseline \/ ReadColumns
               \/ BuildSets \/ FailEarly
      BY <3>1 DEF Begin, CheckInstalled, CheckSchema, MeasureBaseline, ReadColumns,
                  BuildSets, FailEarly, CleanOutside
    <3>2. CASE ResetSession \/ CreateIndex \/ CreateFails \/ FailInTry
      BY <3>2 DEF ResetSession, CreateIndex, CreateFails, FailInTry, CleanOutside
    <3>3. CASE Discard \/ MeasureSet \/ SkipSet
      BY <3>3 DEF Discard, MeasureSet, SkipSet, Continue, CleanOutside
    <3>4. CASE FinalReset \/ ConnectionLost
      BY <3>4 DEF FinalReset, ConnectionLost, CleanOutside
    <3>5. CASE FinalResetFails
      BY <2>3, <3>5 DEF FinalResetFails, CleanOutside
    <3> QED
      BY <2>3, <3>1, <3>2, <3>3, <3>4, <3>5 DEF TuningTurn, Statement
  <2> QED
    BY <2>1, <2>2, <2>3 DEF SessionNext
<1>3. CleanOutside => AlwaysReset
  BY DEF CleanOutside, AlwaysReset
<1> QED
  BY <1>1, <1>2, <1>3, PTL DEF SessionSpec
===============================================================================
