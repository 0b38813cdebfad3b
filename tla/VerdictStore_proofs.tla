------------------------ MODULE VerdictStore_proofs ------------------------
(***************************************************************************)
(* Proofs about VerdictStore, for every set of tasks of both channels,     *)
(* every number of runs, items, threads, versions and passes and every set *)
(* of faults: the inductive invariant IInv and the properties it gives.    *)
(***************************************************************************)
EXTENDS VerdictStore, Subsequences_proofs

\* What a step that keeps the task leaves as it is.
LEMMA SameTask ==
    ASSUME task' = task
    PROVE  /\ Runs' = Runs /\ Items' = Items /\ Records' = Records /\ channel' = channel
           /\ Reviewed' = Reviewed /\ \A rec : Decides(rec)' <=> Decides(rec)
BY DEF Runs, Items, Records, channel, Reviewed, Decides

LEMMA ReviewedRuns == TypeOK => Reviewed \subseteq Runs
BY StoreAssumption DEF StoreAssumption, TypeOK, Reviewed, Runs

LEMMA ItemsFinite == TypeOK => IsFiniteSet(Items)
BY StoreAssumption DEF StoreAssumption, TypeOK, Items

LEMMA Channels == TypeOK => channel \in {"rubric", "quality"}
BY StoreAssumption DEF StoreAssumption, TypeOK, channel

LEMMA VersionFacts ==
    /\ 0 \in {0} \cup Versions /\ 1 \in Versions /\ Versions \subseteq Nat \ {0}
    /\ MaxVersion \in Nat \ {0}
BY StoreAssumption DEF StoreAssumption, Versions

\* A readable record has an item, a version and an answer.
LEMMA RecordFacts ==
    ASSUME TypeOK, NEW r \in Runs, NEW rec \in ToSet(store[r])
    PROVE  rec \in Records /\ rec.item \in Items /\ rec.fp \in Versions /\ rec.answer \in Answers
<1>1. store[r] \in Seq(Records)
    BY DEF TypeOK
<1>2. rec \in Records
    BY <1>1, Elements
<1>3. QED
    BY <1>2 DEF Records

\* What _keep_current leaves: the records of the pass's version, each once.
LEMMA Keeps ==
    ASSUME TypeOK, NEW r \in Runs
    PROVE  /\ _keep_current(r) \in Seq(Records)
           /\ ToSet(_keep_current(r)) = {rec \in ToSet(store[r]) : rec.fp = stamp}
<1>1. store[r] \in Seq(Records)
    BY DEF TypeOK
<1>2. QED
    BY <1>1, KeptIndices, KeptElements DEF _keep_current

\* No item is decided twice in s.
Once(s) == \A j, k \in DOMAIN s : s[j].item = s[k].item /\ Decides(s[j]) /\ Decides(s[k]) => j = k

LEMMA OnceMeans == AnsweredOnce <=> \A r \in Runs : Once(store[r])
<1>1. SUFFICES ASSUME NEW r \in Runs
               PROVE  (\A j, k \in DOMAIN store[r] :
                          /\ store[r][j].item = store[r][k].item
                          /\ \A x \in {j, k} : \/ store[r][x].answer = "usable"
                                               \/ channel = "rubric" /\ store[r][x].answer = "unusable"
                          => j = k) <=> Once(store[r])
    BY Zenon DEF AnsweredOnce
<1>2. \A j, k : (\A x \in {j, k} : \/ store[r][x].answer = "usable"
                                   \/ channel = "rubric" /\ store[r][x].answer = "unusable")
                <=> Decides(store[r][j]) /\ Decides(store[r][k])
    BY DEF Decides
<1>3. QED
    BY <1>2 DEF Once

LEMMA OnceAmong ==
    ASSUME NEW s \in Seq(Records), NEW S, Once(s)
    PROVE  Once(Kept(s, S))
<1>1. DOMAIN Kept(s, S) = 1..Len(Kept(s, S)) /\ DOMAIN s = 1..Len(s)
    BY KeptIndices, Elements
<1>2. PICK g \in [1..Len(Kept(s, S)) -> 1..Len(s)] :
          \A j, k \in 1..Len(Kept(s, S)) : Kept(s, S)[j] = s[g[j]] /\ (g[j] = g[k] => j = k)
    BY KeptPlaces
<1>3. SUFFICES ASSUME NEW j \in 1..Len(Kept(s, S)), NEW k \in 1..Len(Kept(s, S)),
                      Kept(s, S)[j].item = Kept(s, S)[k].item,
                      Decides(Kept(s, S)[j]), Decides(Kept(s, S)[k])
               PROVE  j = k
    BY <1>1, Zenon DEF Once
<1>4. /\ g[j] \in DOMAIN s /\ g[k] \in DOMAIN s
      /\ Kept(s, S)[j] = s[g[j]] /\ Kept(s, S)[k] = s[g[k]]
    BY <1>1, <1>2
<1>5. g[j] = g[k]
    BY <1>3, <1>4, Zenon DEF Once
<1>6. QED
    BY <1>2, <1>5

LEMMA OnceKept ==
    ASSUME TypeOK, NEW r \in Runs, Once(store[r])
    PROVE  Once(_keep_current(r))
<1>1. store[r] \in Seq(Records)
    BY DEF TypeOK
<1>2. QED
    BY <1>1, OnceAmong DEF _keep_current

LEMMA OnceSubSeq ==
    ASSUME NEW s \in Seq(Records), Once(s), NEW n \in 0..Len(s)
    PROVE  Once(SubSeq(s, 1, n)) /\ SubSeq(s, 1, n) \in Seq(Records)
           /\ ToSet(SubSeq(s, 1, n)) \subseteq ToSet(s)
<1>1. /\ SubSeq(s, 1, n) \in Seq(Records) /\ DOMAIN SubSeq(s, 1, n) = 1..n
      /\ \A k \in 1..n : SubSeq(s, 1, n)[k] = s[k] /\ k \in DOMAIN s
    BY SMT
<1>2. QED
    BY <1>1 DEF Once, ToSet

LEMMA OnceFront ==
    ASSUME NEW s \in Seq(Records), Once(s)
    PROVE  Once(Front(s)) /\ Front(s) \in Seq(Records) /\ ToSet(Front(s)) \subseteq ToSet(s)
<1>1. CASE s = <<>>
    <2>1. Front(s) = <<>>
        BY <1>1 DEF Front
    <2>2. QED
        BY <1>1, <2>1
<1>2. CASE s # <<>>
    <2>1. Len(s) - 1 \in 0..Len(s)
        BY <1>2, SMT
    <2>2. QED
        BY <2>1, OnceSubSeq DEF Front
<1>3. QED
    BY <1>1, <1>2

LEMMA OnceAppend ==
    ASSUME NEW s \in Seq(Records), Once(s), NEW x \in Records,
           \A rec \in ToSet(s) : rec.item = x.item => ~Decides(rec)
    PROVE  Once(Append(s, x))
<1>1. /\ DOMAIN Append(s, x) = 1..(Len(s) + 1) /\ DOMAIN s = 1..Len(s) /\ Len(s) \in Nat
      /\ \A k \in 1..Len(s) : Append(s, x)[k] = s[k]
      /\ Append(s, x)[Len(s) + 1] = x
    BY SMT
<1>2. \A k \in 1..Len(s) : s[k] \in ToSet(s)
    BY <1>1 DEF ToSet
<1>3. SUFFICES ASSUME NEW j \in 1..(Len(s) + 1), NEW k \in 1..(Len(s) + 1),
                      Append(s, x)[j].item = Append(s, x)[k].item,
                      Decides(Append(s, x)[j]), Decides(Append(s, x)[k])
               PROVE  j = k
    BY <1>1, Zenon DEF Once
<1>4. j \in 1..Len(s) \/ j = Len(s) + 1
    BY <1>1, SMT
<1>5. k \in 1..Len(s) \/ k = Len(s) + 1
    BY <1>1, SMT
<1>6. QED
    BY <1>1, <1>2, <1>3, <1>4, <1>5, Zenon DEF Once

LEMMA ReportFacts == NoReport \in Reports /\ NoResult \in Results /\ NoReport.basis = {}
BY VersionFacts DEF NoReport, NoResult, Reports, Results, Statuses

-----------------------------------------------------------------------------
(* The initial states.                                                     *)

LEMMA InitIInv == Init => IInv
<1> SUFFICES ASSUME Init PROVE IInv
    OBVIOUS
<1>1. TypeOK
    <2>1. \A r \in Runs : store[r] = <<>> /\ plan[r] = <<>>
        BY DEF Init
    <2>2. /\ store \in [Runs -> Seq(Records)] /\ plan \in [Runs -> Seq(Items)]
          /\ torn \in [Runs -> BOOLEAN] /\ cut \in [Runs -> BOOLEAN]
        BY DEF Init
    <2>3. work \in [Runs -> WorkStates]
        BY DEF Init, WorkStates
    <2>4. result \in [Runs -> Results] /\ report \in [Runs -> Reports]
        BY ReportFacts DEF Init
    <2>5. last \in Exits
        BY VersionFacts DEF Init, Exits
    <2>6. passes \in 0..task.passes
        BY StoreAssumption DEF StoreAssumption, Init
    <2>7. QED
        BY <2>2, <2>3, <2>4, <2>5, <2>6, VersionFacts DEF Init, TypeOK
<1>2. \A r \in Runs : ToSet(store[r]) = {} /\ ToSet(plan[r]) = {} /\ store[r] = <<>> /\ plan[r] = <<>>
    BY DEF Init, ToSet
<1>3. Versioned /\ RestAsked /\ Between /\ ExitZeroAsked
    BY <1>2 DEF Init, Versioned, RestAsked, Between, ExitZeroAsked
<1>4. CheckHolds /\ ReportHolds /\ ScoredOnItsBundle
    BY DEF Init, CheckHolds, ReportHolds, ScoredOnItsBundle, NoReport, NoResult
<1>5. PlanOpen
    BY <1>2 DEF Init, PlanOpen, IsInjective
<1>6. AnsweredOnce
    BY <1>2, OnceMeans DEF Once
<1>7. QED
    BY <1>1, <1>3, <1>4, <1>5, <1>6 DEF IInv

-----------------------------------------------------------------------------
(* The steps of a pass.                                                    *)

LEMMA JudgeStartStep ==
    ASSUME IInv, JudgeStart
    PROVE  IInv'
<1> USE SameTask DEF JudgeStart, files, score
<1>1. /\ task' = task /\ Runs' = Runs /\ Items' = Items /\ Records' = Records /\ channel' = channel
      /\ Reviewed' = Reviewed /\ \A rec : Decides(rec)' <=> Decides(rec)
    OBVIOUS
<1>2. stamp = 0 /\ bundle \in Versions /\ TypeOK
    BY DEF IInv, TypeOK
<1>3. last' \in Exits /\ last'.exit # "ok"
    BY VersionFacts DEF Exits
<1>4. stamp' \in {0, bundle} /\ work' \in [Runs -> WorkStates] /\ passes' \in 0..task.passes
    <2>1. passes' \in 0..task.passes
        BY <1>2, StoreAssumption DEF StoreAssumption, TypeOK
    <2>2. QED
        BY <1>2, <2>1 DEF TypeOK, WorkStates
<1>5. \A r \in Runs : work'[r] \in {"idle", "queued"}
    BY <1>2 DEF IInv, Between
<1>6. TypeOK'
    BY <1>1, <1>2, <1>3, <1>4 DEF TypeOK
<1>7. Versioned'
    <2>1. bundle \in Nat /\ \A r \in Runs : \A rec \in ToSet(store[r]) : rec.fp <= bundle
        BY <1>2, VersionFacts DEF IInv, Versioned
    <2>2. stamp' <= bundle /\ (stamp' # 0 => stamp' = bundle)
        BY <1>4, <2>1
    <2>3. QED
        BY <1>1, <2>1, <2>2 DEF Versioned
<1>8. CheckHolds' /\ ReportHolds'
    <2>1. Recorded' = Recorded
        BY <1>1 DEF Recorded
    <2>2. against # 0 => against = bundle
        BY DEF IInv, CheckHolds
    <2>3. against # 0 => stamp' \in {0, against}
        BY <1>4, <2>2
    <2>4. QED
        BY <1>1, <2>1, <2>3 DEF IInv, CheckHolds, ReportHolds
<1>9. PlanOpen' /\ RestAsked' /\ Between'
    <2>1. \A r \in Runs : work'[r] \notin {"asking", "finished"}
        BY <1>5
    <2>2. stamp' = 0 => \A r \in Runs : work'[r] = "idle"
        BY <1>2, VersionFacts DEF IInv, Between
    <2>3. \A r \in Runs : plan[r] = <<>>
        BY <1>2 DEF IInv, Between, RestAsked
    <2>4. QED
        BY <1>1, <1>3, <2>1, <2>2, <2>3 DEF IInv, PlanOpen, RestAsked, Between
<1>10. ScoredOnItsBundle' /\ AnsweredOnce' /\ ExitZeroAsked'
    BY <1>1, <1>3 DEF IInv, ScoredOnItsBundle, AnsweredOnce, ExitZeroAsked
<1>11. QED
    BY <1>6, <1>7, <1>8, <1>9, <1>10 DEF IInv

LEMMA WorkerStartStep ==
    ASSUME IInv, NEW r \in Runs, WorkerStart(r)
    PROVE  IInv'
<1> DEFINE done == IF channel = "rubric" THEN already_done(r) ELSE _usable(r)
<1> USE DEF files, score
<1>1. /\ task' = task /\ Runs' = Runs /\ Items' = Items /\ Records' = Records /\ channel' = channel
      /\ Reviewed' = Reviewed /\ \A rec : Decides(rec)' <=> Decides(rec)
    BY SameTask DEF WorkerStart
<1>2. /\ TypeOK /\ bundle \in Versions /\ stamp \in Versions /\ work[r] = "queued" /\ plan[r] \in Seq(Items)
      /\ store[r] \in Seq(Records) /\ last.exit # "ok"
      /\ UNCHANGED <<task, bundle, torn, result, stamp, passes, last, against, bare, report>>
    BY DEF IInv, TypeOK, Between, WorkerStart
<1>3. CASE channel = "quality" /\ torn[r]
    <2>1. work' = [work EXCEPT ![r] = "raised"] /\ UNCHANGED <<plan, store, cut>>
        BY <1>3 DEF WorkerStart
    <2>2. work' \in [Runs -> WorkStates]
        BY <1>2, <2>1 DEF TypeOK, WorkStates
    <2>3. \A q \in Runs : work'[q] \in {"asking", "finished"} => work'[q] = work[q]
        BY <1>2, <2>1 DEF TypeOK
    <2>4. TypeOK'
        BY <1>1, <1>2, <2>1, <2>2 DEF TypeOK
    <2>5. Versioned' /\ CheckHolds' /\ ReportHolds'
        BY <1>1, <1>2, <2>1 DEF IInv, Versioned, CheckHolds, ReportHolds, Recorded
    <2>6. PlanOpen' /\ RestAsked'
        <3>1. \A q, i : Asked(q, i, stamp)' <=> Asked(q, i, stamp)
            BY <1>1, <1>2, <2>1 DEF Asked
        <3>2. PlanOpen'
            BY <1>1, <2>1, <2>3 DEF IInv, PlanOpen
        <3>3. \A q \in Runs : work'[q] # "asking" => work[q] # "asking"
            BY <1>2, <2>1 DEF TypeOK
        <3>4. RestAsked'
            BY <1>1, <1>2, <2>1, <2>3, <3>1, <3>3 DEF IInv, RestAsked
        <3>5. QED
            BY <3>2, <3>4
    <2>7. Between'
        BY <1>2, VersionFacts DEF Between
    <2>8. ScoredOnItsBundle' /\ AnsweredOnce' /\ ExitZeroAsked'
        BY <1>1, <1>2, <2>1 DEF IInv, ScoredOnItsBundle, AnsweredOnce, ExitZeroAsked
    <2>9. QED
        BY <2>4, <2>5, <2>6, <2>7, <2>8 DEF IInv
<1>4. CASE ~(channel = "quality" /\ torn[r])
    <2> DEFINE s == IF channel = "quality" THEN _keep_current(r) ELSE store[r]
               p == plan_calls(done)
    <2>1. /\ store' = [store EXCEPT ![r] = s] /\ plan' = [plan EXCEPT ![r] = p]
          /\ work' = [work EXCEPT ![r] = IF Items \subseteq done THEN "finished" ELSE "asking"]
        <3>1. ~(channel = "quality" /\ s # store[r]) => [store EXCEPT ![r] = s] = store
            BY <1>2 DEF TypeOK
        <3>2. QED
            BY <1>4, <3>1 DEF WorkerStart
    <2>2. s \in Seq(Records) /\ ToSet(s) \subseteq ToSet(store[r]) /\ Once(s)
        <3>1. Once(store[r])
            BY OnceMeans DEF IInv
        <3>2. QED
            BY <1>2, <3>1, Keeps, OnceKept
    <2>3. p \in Seq(Items) /\ IsInjective(p) /\ ToSet(p) = Items \ done
        <3> HIDE DEF done
        <3>1. IsFiniteSet(Items \ done)
            BY <1>2, ItemsFinite, FS_Difference
        <3>2. p \in Seq(Items \ done) /\ IsInjective(p) /\ ToSet(p) = Items \ done
            BY <3>1, SetToSeqElements DEF plan_calls
        <3>3. p \in Seq(Items)
            <4>1. Items \ done \subseteq Items
                OBVIOUS
            <4> HIDE DEF p, done
            <4>2. QED
                BY <3>2, <4>1
        <3>4. QED
            BY <3>2, <3>3
    \* What the plan leaves out is recorded, and what it asks is not decided.
    <2>4. \A i \in Items : /\ i \in done => \E rec \in ToSet(s) : rec.item = i /\ (channel = "quality" => rec.fp = stamp)
                           /\ i \notin done => \A rec \in ToSet(s) : rec.item = i => ~Decides(rec)
        <3>1. CASE channel = "rubric"
            <4>1. done = already_done(r) /\ s = store[r] /\ channel # "quality"
                BY <3>1
            <4>2. \A rec \in ToSet(store[r]) : Decides(rec) => rec.answer # "none"
                BY DEF Decides
            <4> HIDE DEF done, s
            <4>3. QED
                BY <4>1, <4>2, Zenon DEF already_done
        <3>2. CASE channel # "rubric"
            <4>1. channel = "quality"
                BY <1>2, <3>2, Channels
            <4>2. done = _usable(r) /\ s = _keep_current(r)
                BY <3>2, <4>1
            <4>3. \A rec : Decides(rec) => rec.answer = "usable"
                BY <3>2 DEF Decides
            <4>4. \A rec \in ToSet(_keep_current(r)) : rec.fp = stamp
                BY <1>2, Keeps
            <4> HIDE DEF done, s
            <4>5. QED
                BY <4>2, <4>3, <4>4, Zenon DEF _usable
        <3>3. QED
            BY <3>1, <3>2
    <2>5. (Items \subseteq done => p = <<>>) /\ (~(Items \subseteq done) => p # <<>>)
        <3>1. p = <<>> <=> ToSet(p) = {}
            BY <2>3, Elements
        <3> HIDE DEF p, done
        <3>2. QED
            BY <2>3, <3>1
    <2> HIDE DEF s, p, done
    <2>6. /\ store'[r] = s /\ plan'[r] = p /\ work'[r] = IF Items \subseteq done THEN "finished" ELSE "asking"
          /\ \A q \in Runs : q # r => store'[q] = store[q] /\ plan'[q] = plan[q] /\ work'[q] = work[q]
          /\ \A q \in Runs : ToSet(store'[q]) \subseteq ToSet(store[q])
        BY <1>2, <2>1, <2>2 DEF TypeOK
    <2>7. TypeOK'
        <3>1. store' \in [Runs -> Seq(Records)] /\ plan' \in [Runs -> Seq(Items)]
            BY <1>2, <2>1, <2>2, <2>3, Zenon DEF TypeOK
        <3>4. cut' \in [Runs -> BOOLEAN]
            BY <1>2, <1>4, Zenon DEF TypeOK, WorkerStart
        <3>2. work' \in [Runs -> WorkStates]
            BY <1>2, <2>1 DEF TypeOK, WorkStates
        <3>3. QED
            BY <1>1, <1>2, <3>1, <3>2, <3>4 DEF TypeOK
    <2>8. Versioned' /\ CheckHolds' /\ ReportHolds'
        <3>1. Recorded' \subseteq Recorded
            BY <1>1, <2>6 DEF Recorded
        <3>2. QED
            BY <1>1, <1>2, <2>6, <3>1 DEF IInv, Versioned, CheckHolds, ReportHolds
    <2>9. PlanOpen'
        <3>1. ASSUME NEW q \in Runs
              PROVE  /\ work'[q] = "asking" => plan'[q] # <<>>
                     /\ IsInjective(plan'[q])
                     /\ \A i \in ToSet(plan'[q]) : \A rec \in ToSet(store'[q]) : rec.item = i => ~Decides(rec)
            <4>1. CASE q = r
                BY <2>3, <2>4, <2>5, <2>6, <4>1
            <4>2. CASE q # r
                BY <2>6, <4>2 DEF IInv, PlanOpen
            <4>3. QED
                BY <4>1, <4>2
        <3>2. QED
            BY <1>1, <3>1 DEF PlanOpen
    <2>10. RestAsked'
        <3>1. ASSUME NEW q \in Runs
              PROVE  /\ work'[q] \in {"asking", "finished"} /\ q \in Reviewed /\ ~torn[q] =>
                            \A i \in Items : i \in ToSet(plan'[q]) \/ Asked(q, i, stamp)'
                     /\ work'[q] # "asking" => plan'[q] = <<>>
            <4>1. CASE q = r
                BY <1>1, <1>2, <2>3, <2>4, <2>5, <2>6, <4>1 DEF Asked
            <4>2. CASE q # r
                BY <1>1, <1>2, <2>6, <4>2 DEF IInv, RestAsked, Asked
            <4>3. QED
                BY <4>1, <4>2
        <3>2. QED
            BY <1>1, <1>2, <3>1 DEF RestAsked, Asked
    <2>11. Between'
        BY <1>2, VersionFacts DEF Between
    <2>12. ScoredOnItsBundle' /\ ExitZeroAsked'
        BY <1>1, <1>2 DEF IInv, ScoredOnItsBundle, ExitZeroAsked
    <2>13. AnsweredOnce'
        <3>1. \A q \in Runs : Once(store'[q])
            BY <2>2, <2>6, OnceMeans DEF IInv
        <3>2. QED
            BY <1>1, <3>1, OnceMeans DEF AnsweredOnce, Once, Decides
    <2>14. QED
        BY <2>7, <2>8, <2>9, <2>10, <2>11, <2>12, <2>13 DEF IInv
<1>5. QED
    BY <1>3, <1>4

\* The answer that is appended: a record of its own, which decides no item again.
LEMMA NewAnswer ==
    ASSUME IInv, NEW r \in Runs, NEW a \in Answers, work[r] = "asking"
    PROVE  /\ WithAnswer(r, a) \in [Runs -> Seq(Records)]
           /\ \A q \in Runs : Once(WithAnswer(r, a)[q])
           /\ \A q \in Runs : \A rec \in ToSet(WithAnswer(r, a)[q]) : rec \in ToSet(store[q]) \/ rec.fp = stamp
           /\ \A q \in Runs : ToSet(store[q]) \subseteq ToSet(WithAnswer(r, a)[q])
<1> DEFINE x == [item |-> Head(plan[r]), fp |-> stamp, answer |-> a]
           s == Append(store[r], x)
<1>1. /\ TypeOK /\ stamp \in Versions /\ store[r] \in Seq(Records)
      /\ plan[r] \in Seq(Items) /\ plan[r] # <<>> /\ IsInjective(plan[r])
    BY DEF IInv, TypeOK, Between, PlanOpen
<1>2. Head(plan[r]) \in Items /\ Head(plan[r]) \in ToSet(plan[r])
    BY <1>1, TailElements
<1>3. x \in Records /\ x.item = Head(plan[r]) /\ x.fp = stamp
    BY <1>1, <1>2 DEF Records
<1>4. WithAnswer(r, a) = [store EXCEPT ![r] = s]
    BY DEF WithAnswer
<1> HIDE DEF x
<1>5. s \in Seq(Records) /\ ToSet(s) = ToSet(store[r]) \cup {x}
    BY <1>1, <1>3, AppendElements
<1>6. Once(s)
    <2>1. Once(store[r])
        BY OnceMeans DEF IInv
    <2>2. \A rec \in ToSet(store[r]) : rec.item = x.item => ~Decides(rec)
        BY <1>2, <1>3 DEF IInv, PlanOpen
    <2>3. QED
        BY <1>1, <1>3, <2>1, <2>2, OnceAppend
<1> HIDE DEF s
<1>7. \A q \in Runs : WithAnswer(r, a)[q] = IF q = r THEN s ELSE store[q]
    BY <1>1, <1>4 DEF TypeOK
<1>8. WithAnswer(r, a) \in [Runs -> Seq(Records)]
    BY <1>1, <1>4, <1>5, Zenon DEF TypeOK
<1>9. \A q \in Runs : Once(WithAnswer(r, a)[q])
    BY <1>6, <1>7, OnceMeans DEF IInv
<1>10. \A q \in Runs : \A rec \in ToSet(WithAnswer(r, a)[q]) : rec \in ToSet(store[q]) \/ rec.fp = stamp
    BY <1>3, <1>5, <1>7
<1>11. \A q \in Runs : ToSet(store[q]) \subseteq ToSet(WithAnswer(r, a)[q])
    BY <1>5, <1>7
<1>12. QED
    BY <1>8, <1>9, <1>10, <1>11

\* An answer that runs into a cut record takes that record with it.
LEMMA GlueFacts ==
    ASSUME IInv, NEW r \in Runs, Glue(r)
    PROVE  /\ store' \in [Runs -> Seq(Records)] /\ torn' \in [Runs -> BOOLEAN] /\ cut' \in [Runs -> BOOLEAN]
           /\ \A q \in Runs : ToSet(store'[q]) \subseteq ToSet(store[q]) /\ Once(store'[q])
           /\ \A q \in Runs : q # r => store'[q] = store[q] /\ torn'[q] = torn[q]
           /\ cut[r] /\ torn'[r]
<1>1. TypeOK /\ store[r] \in Seq(Records) /\ Once(store[r])
    BY OnceMeans DEF IInv, TypeOK
<1>2. Front(store[r]) \in Seq(Records) /\ ToSet(Front(store[r])) \subseteq ToSet(store[r]) /\ Once(Front(store[r]))
    BY <1>1, OnceFront
<1>3. store' = [store EXCEPT ![r] = Front(store[r])]
    BY DEF Glue
<1>4. store' \in [Runs -> Seq(Records)]
    BY <1>1, <1>2, <1>3, Zenon DEF TypeOK
<1>5. \A q \in Runs : store'[q] = IF q = r THEN Front(store[r]) ELSE store[q]
    BY <1>1, <1>3 DEF TypeOK
<1>6. \A q \in Runs : ToSet(store'[q]) \subseteq ToSet(store[q]) /\ Once(store'[q])
    BY <1>2, <1>5, OnceMeans DEF IInv
<1>7. /\ torn' \in [Runs -> BOOLEAN] /\ cut' \in [Runs -> BOOLEAN] /\ cut[r] /\ torn'[r]
      /\ \A q \in Runs : q # r => torn'[q] = torn[q]
    BY <1>1 DEF TypeOK, Glue
<1>8. QED
    BY <1>4, <1>5, <1>6, <1>7

LEMMA GlueStep ==
    ASSUME IInv, NEW r \in Runs, NEW a \in Answers, Record(r, a), Glue(r)
    PROVE  IInv'
<1>1. /\ task' = task /\ Runs' = Runs /\ Items' = Items /\ Records' = Records /\ channel' = channel
      /\ Reviewed' = Reviewed /\ \A rec : Decides(rec)' <=> Decides(rec)
    BY SameTask DEF Record
<1>2. /\ TypeOK /\ bundle \in Versions /\ stamp \in Versions /\ work[r] = "asking"
      /\ plan[r] \in Seq(Items) /\ plan[r] # <<>> /\ IsInjective(plan[r]) /\ last.exit # "ok"
      /\ UNCHANGED <<task, bundle, result, stamp, passes, last, against, bare, report>>
    BY DEF IInv, TypeOK, Between, PlanOpen, Record, score
<1>3. /\ Tail(plan[r]) \in Seq(Items) /\ IsInjective(Tail(plan[r]))
      /\ ToSet(Tail(plan[r])) \subseteq ToSet(plan[r])
      /\ Tail(plan[r]) = <<>> <=> Len(plan[r]) = 1
    BY <1>2, TailElements
<1>4. /\ plan' = [plan EXCEPT ![r] = Tail(@)]
      /\ work' = [work EXCEPT ![r] = IF Len(plan[r]) = 1 THEN "finished" ELSE @]
    BY DEF Record
<1>5. /\ plan'[r] = Tail(plan[r])
      /\ work'[r] = IF Tail(plan[r]) = <<>> THEN "finished" ELSE "asking"
      /\ \A q \in Runs : q # r => plan'[q] = plan[q] /\ work'[q] = work[q]
    BY <1>2, <1>3, <1>4 DEF TypeOK
<1>6. /\ store' \in [Runs -> Seq(Records)] /\ torn' \in [Runs -> BOOLEAN] /\ cut' \in [Runs -> BOOLEAN]
      /\ \A q \in Runs : ToSet(store'[q]) \subseteq ToSet(store[q]) /\ Once(store'[q])
      /\ \A q \in Runs : q # r => store'[q] = store[q] /\ torn'[q] = torn[q]
      /\ torn'[r]
    BY GlueFacts
<1>7. TypeOK'
    <2>1. plan' \in [Runs -> Seq(Items)]
        BY <1>2, <1>3, <1>4, Zenon DEF TypeOK
    <2>2. work' \in [Runs -> WorkStates]
        BY <1>2, <1>4 DEF TypeOK, WorkStates
    <2>3. QED
        BY <1>1, <1>2, <1>6, <2>1, <2>2 DEF TypeOK
<1>8. Versioned' /\ CheckHolds' /\ ReportHolds'
    <2>1. Recorded' \subseteq Recorded
        BY <1>1, <1>6 DEF Recorded
    <2>2. QED
        BY <1>1, <1>2, <1>6, <2>1 DEF IInv, Versioned, CheckHolds, ReportHolds
<1>9. PlanOpen'
    <2>1. ASSUME NEW q \in Runs
          PROVE  /\ work'[q] = "asking" => plan'[q] # <<>>
                 /\ IsInjective(plan'[q])
                 /\ \A i \in ToSet(plan'[q]) : \A rec \in ToSet(store'[q]) : rec.item = i => ~Decides(rec)
        <3>1. CASE q = r
            BY <1>3, <1>5, <1>6, <3>1 DEF IInv, PlanOpen
        <3>2. CASE q # r
            BY <1>5, <1>6, <3>2 DEF IInv, PlanOpen
        <3>3. QED
            BY <3>1, <3>2
    <2>2. QED
        BY <1>1, <2>1 DEF PlanOpen
<1>10. RestAsked'
    <2>1. ASSUME NEW q \in Runs
          PROVE  /\ work'[q] \in {"asking", "finished"} /\ q \in Reviewed /\ ~torn'[q] =>
                        \A i \in Items : i \in ToSet(plan'[q]) \/ Asked(q, i, stamp)'
                 /\ work'[q] # "asking" => plan'[q] = <<>>
        <3>1. CASE q = r
            BY <1>5, <1>6, <3>1
        <3>2. CASE q # r
            <4>1. \A i : Asked(q, i, stamp) => Asked(q, i, stamp)'
                BY <1>1, <1>2, <1>6, <3>2 DEF Asked
            <4>2. QED
                BY <1>5, <1>6, <3>2, <4>1 DEF IInv, RestAsked
        <3>3. QED
            BY <3>1, <3>2
    <2>2. QED
        BY <1>1, <1>2, <2>1 DEF RestAsked, Asked
<1>11. Between' /\ ScoredOnItsBundle' /\ ExitZeroAsked'
    BY <1>1, <1>2, VersionFacts DEF IInv, Between, ScoredOnItsBundle, ExitZeroAsked
<1>12. AnsweredOnce'
    BY <1>1, <1>6, OnceMeans DEF AnsweredOnce, Once, Decides
<1>13. QED
    BY <1>7, <1>8, <1>9, <1>10, <1>11, <1>12 DEF IInv

LEMMA AnswerStep ==
    ASSUME IInv, NEW r \in Runs, NEW a \in Answers, Record(r, a), ~Glue(r)
    PROVE  IInv'
<1> DEFINE i0 == Head(plan[r])
           x == [item |-> i0, fp |-> stamp, answer |-> a]
<1>1. /\ task' = task /\ Runs' = Runs /\ Items' = Items /\ Records' = Records /\ channel' = channel
      /\ Reviewed' = Reviewed /\ \A rec : Decides(rec)' <=> Decides(rec)
    BY SameTask DEF Record
<1>2. /\ TypeOK /\ bundle \in Versions /\ stamp \in Versions /\ work[r] = "asking"
      /\ store[r] \in Seq(Records) /\ plan[r] \in Seq(Items) /\ plan[r] # <<>> /\ IsInjective(plan[r])
      /\ last.exit # "ok"
      /\ UNCHANGED <<task, bundle, torn, cut, result, stamp, passes, last, against, bare, report>>
    BY DEF IInv, TypeOK, Between, PlanOpen, Record, score
<1>3. /\ i0 \in Items /\ Tail(plan[r]) \in Seq(Items) /\ IsInjective(Tail(plan[r]))
      /\ ToSet(plan[r]) = {i0} \cup ToSet(Tail(plan[r])) /\ i0 \notin ToSet(Tail(plan[r]))
      /\ Tail(plan[r]) = <<>> <=> Len(plan[r]) = 1
    BY <1>2, TailElements
<1>4. /\ x \in Records /\ x.item = i0 /\ x.fp = stamp
    BY <1>2, <1>3 DEF Records
<1>5. /\ store' = [store EXCEPT ![r] = Append(@, x)] /\ plan' = [plan EXCEPT ![r] = Tail(@)]
      /\ work' = [work EXCEPT ![r] = IF Len(plan[r]) = 1 THEN "finished" ELSE @]
    BY DEF Record, WithAnswer
<1> HIDE DEF x, i0
<1>6. /\ store'[r] = Append(store[r], x) /\ plan'[r] = Tail(plan[r])
      /\ work'[r] = IF Tail(plan[r]) = <<>> THEN "finished" ELSE "asking"
      /\ \A q \in Runs : q # r => store'[q] = store[q] /\ plan'[q] = plan[q] /\ work'[q] = work[q]
    BY <1>2, <1>3, <1>5 DEF TypeOK
<1>7. Append(store[r], x) \in Seq(Records) /\ ToSet(store'[r]) = ToSet(store[r]) \cup {x}
    BY <1>2, <1>4, <1>6, AppendElements
<1>8. TypeOK'
    <2>1. store' \in [Runs -> Seq(Records)] /\ plan' \in [Runs -> Seq(Items)]
        BY <1>2, <1>3, <1>5, <1>7, Zenon DEF TypeOK
    <2>2. work' \in [Runs -> WorkStates]
        BY <1>2, <1>5 DEF TypeOK, WorkStates
    <2>3. QED
        BY <1>1, <1>2, <2>1, <2>2 DEF TypeOK
<1>9. Versioned'
    <2>1. stamp <= bundle /\ stamp <= stamp
        BY <1>2, VersionFacts DEF IInv, Versioned
    <2>2. ASSUME NEW q \in Runs, NEW rec \in ToSet(store'[q])
          PROVE  rec.fp <= bundle /\ rec.fp <= stamp
        <3>1. rec \in ToSet(store[q]) \/ rec = x
            BY <1>6, <1>7
        <3>2. stamp # 0
            BY <1>2, VersionFacts
        <3>3. QED
            BY <1>4, <2>1, <3>1, <3>2 DEF IInv, Versioned
    <2>3. QED
        BY <1>1, <1>2, <2>1, <2>2 DEF Versioned
<1>10. CheckHolds' /\ ReportHolds'
    <2>1. Recorded' \subseteq Recorded \cup {stamp}
        <3>1. \A q \in Runs : \A rec \in ToSet(store'[q]) : rec \in ToSet(store[q]) \/ rec.fp = stamp
            BY <1>4, <1>6, <1>7
        <3>2. QED
            BY <1>1, <3>1 DEF Recorded
    <2>2. stamp # 0
        BY <1>2, VersionFacts
    <2>3. QED
        BY <1>1, <1>2, <2>1, <2>2 DEF IInv, CheckHolds, ReportHolds
<1>11. PlanOpen'
    <2>1. ASSUME NEW q \in Runs
          PROVE  /\ work'[q] = "asking" => plan'[q] # <<>>
                 /\ IsInjective(plan'[q])
                 /\ \A i \in ToSet(plan'[q]) : \A rec \in ToSet(store'[q]) : rec.item = i => ~Decides(rec)
        <3>1. CASE q = r
            BY <1>3, <1>4, <1>6, <1>7, <3>1 DEF IInv, PlanOpen
        <3>2. CASE q # r
            BY <1>6, <3>2 DEF IInv, PlanOpen
        <3>3. QED
            BY <3>1, <3>2
    <2>2. QED
        BY <1>1, <2>1 DEF PlanOpen
<1>12. RestAsked'
    <2>1. \A q \in Runs, i \in Items : Asked(q, i, stamp) => Asked(q, i, stamp)'
        BY <1>1, <1>2, <1>6, <1>7 DEF Asked
    <2>2. \A i : i = i0 => Asked(r, i, stamp)'
        <3>1. x \in ToSet(store'[r]) /\ x.item = i0 /\ (channel = "quality" => x.fp = stamp)
            BY <1>4, <1>7
        <3>2. QED
            BY <1>1, <1>2, <3>1 DEF Asked
    <2>3. ASSUME NEW q \in Runs
          PROVE  /\ work'[q] \in {"asking", "finished"} /\ q \in Reviewed /\ ~torn[q] =>
                        \A i \in Items : i \in ToSet(plan'[q]) \/ Asked(q, i, stamp)'
                 /\ work'[q] # "asking" => plan'[q] = <<>>
        <3>1. CASE q = r
            <4>1. r \in Reviewed /\ ~torn[r] =>
                     \A i \in Items : i = i0 \/ i \in ToSet(Tail(plan[r])) \/ Asked(r, i, stamp)'
                BY <1>2, <1>3, <2>1 DEF IInv, RestAsked
            <4>2. QED
                BY <1>6, <2>2, <3>1, <4>1
        <3>2. CASE q # r
            BY <1>6, <2>1, <3>2 DEF IInv, RestAsked
        <3>3. QED
            BY <3>1, <3>2
    <2>4. QED
        BY <1>1, <1>2, <2>3 DEF RestAsked, Asked
<1>13. Between' /\ ScoredOnItsBundle' /\ ExitZeroAsked'
    BY <1>1, <1>2, VersionFacts DEF IInv, Between, ScoredOnItsBundle, ExitZeroAsked
<1>14. AnsweredOnce'
    <2>1. Once(Append(store[r], x))
        <3>1. Once(store[r])
            BY OnceMeans DEF IInv
        <3>2. \A rec \in ToSet(store[r]) : rec.item = x.item => ~Decides(rec)
            BY <1>3, <1>4 DEF IInv, PlanOpen
        <3>3. QED
            BY <1>2, <1>4, <3>1, <3>2, OnceAppend
    <2>2. \A q \in Runs : Once(store'[q])
        BY <1>6, <2>1, OnceMeans DEF IInv
    <2>3. QED
        BY <1>1, <2>2, OnceMeans DEF AnsweredOnce, Once, Decides
<1>15. QED
    BY <1>8, <1>9, <1>10, <1>11, <1>12, <1>13, <1>14 DEF IInv

\* A step that only lets runs go, or calls them off.
LEMMA LetGo ==
    ASSUME IInv, stamp # 0, UNCHANGED <<task, bundle, files, result, stamp, passes, last, score>>,
           work' \in [Runs -> WorkStates], plan' \in [Runs -> Seq(Items)],
           \A q \in Runs : \/ work'[q] = work[q] /\ plan'[q] = plan[q]
                           \/ /\ work'[q] # "asking" /\ plan'[q] = <<>>
                              /\ work'[q] = "finished" => q \notin Reviewed
    PROVE  IInv'
<1>1. /\ task' = task /\ Runs' = Runs /\ Items' = Items /\ Records' = Records /\ channel' = channel
      /\ Reviewed' = Reviewed /\ \A rec : Decides(rec)' <=> Decides(rec)
      /\ UNCHANGED <<bundle, store, torn, cut, result, stamp, passes, last, against, bare, report>>
    BY SameTask DEF files, score
<1>2. TypeOK'
    BY <1>1 DEF IInv, TypeOK
<1>3. Versioned' /\ CheckHolds' /\ ReportHolds'
    BY <1>1, ZenonT(40) DEF IInv, Versioned, CheckHolds, ReportHolds, Recorded
<1>4. PlanOpen'
    <2>1. IsInjective(<<>>) /\ ToSet(<<>>) = {}
        BY DEF IsInjective, ToSet
    <2>2. QED
        BY <1>1, <2>1 DEF IInv, PlanOpen
<1>5. RestAsked'
    <2>1. \A q, i : Asked(q, i, stamp)' <=> Asked(q, i, stamp)
        BY <1>1 DEF Asked
    <2>2. QED
        BY <1>1, <2>1 DEF IInv, RestAsked
<1>6. Between' /\ ScoredOnItsBundle' /\ AnsweredOnce' /\ ExitZeroAsked'
    BY <1>1 DEF IInv, Between, ScoredOnItsBundle, AnsweredOnce, ExitZeroAsked
<1>7. QED
    BY <1>2, <1>3, <1>4, <1>5, <1>6 DEF IInv

LEMMA GiveUpStep ==
    ASSUME IInv, NEW r \in Runs, NEW how \in {"failed", "raised"}, GiveUp(r, how)
    PROVE  IInv'
<1>1. stamp # 0 /\ TypeOK
    BY DEF IInv, Between, GiveUp
<1>2. work' \in [Runs -> WorkStates]
    BY <1>1 DEF GiveUp, TypeOK, WorkStates
<1>3. plan' \in [Runs -> Seq(Items)]
    BY <1>1 DEF GiveUp, TypeOK
<1>4. \A q \in Runs : \/ work'[q] = work[q] /\ plan'[q] = plan[q]
                      \/ /\ work'[q] # "asking" /\ plan'[q] = <<>>
                         /\ work'[q] = "finished" => q \notin Reviewed
    BY <1>1 DEF GiveUp, TypeOK
<1>5. QED
    BY <1>1, <1>2, <1>3, <1>4, LetGo DEF GiveUp

LEMMA MapRaisesStep ==
    ASSUME IInv, MapRaises
    PROVE  IInv'
<1>1. stamp # 0 /\ TypeOK
    BY DEF IInv, Between, MapRaises
<1>2. work' \in [Runs -> WorkStates]
    BY <1>1 DEF MapRaises, TypeOK, WorkStates
<1>3. plan' \in [Runs -> Seq(Items)] /\ plan' = plan
    BY <1>1 DEF MapRaises, TypeOK
<1>4. \A q \in Runs : work[q] = "queued" => plan[q] = <<>>
    BY DEF IInv, RestAsked
<1>5. \A q \in Runs : \/ work'[q] = work[q] /\ plan'[q] = plan[q]
                      \/ /\ work'[q] # "asking" /\ plan'[q] = <<>>
                         /\ work'[q] = "finished" => q \notin Reviewed
    BY <1>3, <1>4 DEF MapRaises
<1>6. QED
    BY <1>1, <1>2, <1>3, <1>5, LetGo DEF MapRaises

LEMMA SkipStep ==
    ASSUME IInv, NEW r \in Runs, Skip(r)
    PROVE  IInv'
<1>1. stamp # 0 /\ TypeOK /\ plan[r] = <<>> /\ r \notin Reviewed
    BY DEF IInv, RestAsked, Skip
<1>2. work' \in [Runs -> WorkStates]
    BY <1>1 DEF Skip, TypeOK, WorkStates
<1>3. plan' \in [Runs -> Seq(Items)] /\ plan' = plan
    BY <1>1 DEF Skip, TypeOK
<1>4. \A q \in Runs : \/ work'[q] = work[q] /\ plan'[q] = plan[q]
                      \/ /\ work'[q] # "asking" /\ plan'[q] = <<>>
                         /\ work'[q] = "finished" => q \notin Reviewed
    BY <1>1, <1>3 DEF Skip, TypeOK
<1>5. QED
    BY <1>1, <1>2, <1>3, <1>4, LetGo DEF Skip

\* The end of a pass, with the files as they are, one of them cut down, or one answer more.
LEMMA EndsStep ==
    ASSUME IInv, stamp # 0, NEW exit \in {"ok", "error", "killed"}, Ends(exit),
           exit = "ok" => store' = store /\ torn' = torn /\ \A q \in Runs : work[q] = "finished",
           torn' \in [Runs -> BOOLEAN], cut' \in [Runs -> BOOLEAN], store' \in [Runs -> Seq(Records)],
           \A q \in Runs : Once(store'[q]),
           \A q \in Runs : \A rec \in ToSet(store'[q]) : rec \in ToSet(store[q]) \/ rec.fp = stamp
    PROVE  IInv'
<1>1. /\ task' = task /\ Runs' = Runs /\ Items' = Items /\ Records' = Records /\ channel' = channel
      /\ Reviewed' = Reviewed /\ \A rec : Decides(rec)' <=> Decides(rec)
      /\ UNCHANGED <<bundle, result, passes, against, bare, report>>
      /\ stamp' = 0
    BY SameTask DEF Ends, score
<1>2. TypeOK /\ stamp \in Versions /\ bundle \in Versions
    BY DEF IInv, TypeOK
<1>3. /\ \A q \in Runs : work'[q] = "idle" /\ plan'[q] = <<>>
      /\ work' \in [Runs -> WorkStates] /\ plan' \in [Runs -> Seq(Items)]
    BY DEF Ends, WorkStates
<1>4. last' \in Exits /\ last'.exit = exit /\ (exit = "ok" => last'.version = stamp)
    BY <1>2, VersionFacts DEF Ends, Exits
<1>5. TypeOK'
    BY <1>1, <1>2, <1>3, <1>4, VersionFacts DEF TypeOK
<1>6. Versioned'
    <2>1. 0 <= bundle /\ stamp <= bundle
        BY <1>2, VersionFacts DEF IInv, Versioned
    <2>2. \A q \in Runs : \A rec \in ToSet(store'[q]) : rec.fp <= bundle
        BY <2>1 DEF IInv, Versioned
    <2>3. QED
        BY <1>1, <2>1, <2>2 DEF Versioned
<1>7. CheckHolds' /\ ReportHolds'
    <2>1. Recorded' \subseteq Recorded \cup {stamp}
        BY <1>1 DEF Recorded
    <2>2. stamp # 0
        OBVIOUS
    <2>3. QED
        BY <1>1, <2>1, <2>2 DEF IInv, CheckHolds, ReportHolds
<1>8. PlanOpen' /\ RestAsked' /\ Between'
    <2>1. IsInjective(<<>>) /\ ToSet(<<>>) = {}
        BY DEF IsInjective, ToSet
    <2>2. QED
        BY <1>1, <1>3, <2>1 DEF PlanOpen, RestAsked, Between
<1>9. ScoredOnItsBundle'
    BY <1>1 DEF IInv, ScoredOnItsBundle
<1>10. AnsweredOnce'
    BY <1>1, OnceMeans DEF AnsweredOnce, Once, Decides
<1>11. ExitZeroAsked'
    <2>1. SUFFICES ASSUME exit = "ok", NEW q \in Reviewed, q \in Runs, ~torn'[q], NEW i \in Items
                   PROVE  \E rec \in ToSet(store'[q]) : rec.item = i /\ (channel = "quality" => rec.fp = stamp)
        BY <1>1, <1>2, <1>4, ReviewedRuns DEF ExitZeroAsked
    <2>2. store' = store /\ ~torn[q] /\ work[q] = "finished"
        BY <2>1
    <2>3. Asked(q, i, stamp)
        <3>1. ToSet(<<>>) = {}
            BY DEF ToSet
        <3>2. QED
            BY <2>1, <2>2, <3>1 DEF IInv, RestAsked
    <2>4. QED
        BY <2>2, <2>3 DEF Asked
<1>12. QED
    BY <1>5, <1>6, <1>7, <1>8, <1>9, <1>10, <1>11 DEF IInv

LEMMA FilesAsTheyAre ==
    ASSUME IInv
    PROVE  /\ torn \in [Runs -> BOOLEAN] /\ cut \in [Runs -> BOOLEAN]
           /\ store \in [Runs -> Seq(Records)] /\ \A q \in Runs : Once(store[q])
BY OnceMeans DEF IInv, TypeOK

LEMMA JudgeEndsStep ==
    ASSUME IInv, JudgeEnds
    PROVE  IInv'
<1> DEFINE exit == IF \A r \in Runs : work[r] = "finished" THEN "ok" ELSE "error"
<1>1. exit \in {"ok", "error", "killed"} /\ (exit = "ok" => \A r \in Runs : work[r] = "finished")
    OBVIOUS
<1>2. stamp # 0 /\ Ends(exit) /\ UNCHANGED <<store, torn, cut>>
    BY DEF JudgeEnds, files
<1> HIDE DEF exit
<1>3. QED
    BY <1>1, <1>2, FilesAsTheyAre, EndsStep

\* An append that breaks off leaves the file as it was, or with the answer in it, or
\* takes the cut record.
LEMMA TornAppendStep ==
    ASSUME IInv, stamp # 0, Ends("killed"), NEW r \in Runs, TornAppend(r)
    PROVE  IInv'
<1>1. TypeOK /\ work[r] = "asking"
    BY DEF IInv, TornAppend
<1>2. CASE Glue(r)
    BY <1>2, GlueFacts, EndsStep
<1>3. CASE torn' = [torn EXCEPT ![r] = TRUE] /\ UNCHANGED <<store, cut>>
    <2>1. torn' \in [Runs -> BOOLEAN]
        BY <1>3, FilesAsTheyAre
    <2>2. QED
        BY <1>3, <2>1, FilesAsTheyAre, EndsStep
<1>4. ASSUME NEW a \in Answers, store' = WithAnswer(r, a), cut' = [cut EXCEPT ![r] = TRUE], UNCHANGED torn
      PROVE  IInv'
    <2>1. cut' \in [Runs -> BOOLEAN]
        BY <1>4, FilesAsTheyAre
    <2>2. QED
        BY <1>1, <1>4, <2>1, FilesAsTheyAre, NewAnswer, EndsStep
<1>5. QED
    BY <1>2, <1>3, <1>4 DEF TornAppend

LEMMA TornRewriteStep ==
    ASSUME IInv, stamp # 0, Ends("killed"), NEW r \in Runs, NEW n \in 0..Len(_keep_current(r)),
           TornRewrite(r, n)
    PROVE  IInv'
<1> DEFINE k == _keep_current(r)  s == SubSeq(k, 1, n)
<1>1. k \in Seq(Records) /\ ToSet(k) \subseteq ToSet(store[r]) /\ Once(k)
    BY Keeps, OnceKept, FilesAsTheyAre DEF IInv
<1>2. s \in Seq(Records) /\ ToSet(s) \subseteq ToSet(store[r]) /\ Once(s)
    <2>1. n \in 0..Len(k)
        OBVIOUS
    <2> HIDE DEF k
    <2>2. QED
        BY <1>1, <2>1, OnceSubSeq
<1>3. store' = [store EXCEPT ![r] = s]
    BY DEF TornRewrite
<1>4. torn' \in [Runs -> BOOLEAN]
    BY FilesAsTheyAre DEF TornRewrite
<1>5. cut' \in [Runs -> BOOLEAN]
    BY FilesAsTheyAre DEF TornRewrite
<1> HIDE DEF s
<1>6. store' \in [Runs -> Seq(Records)]
    BY <1>2, <1>3, FilesAsTheyAre
<1>7. \A q \in Runs : ToSet(store'[q]) \subseteq ToSet(store[q]) /\ Once(store'[q])
    BY <1>2, <1>3, FilesAsTheyAre
<1>8. QED
    BY <1>4, <1>5, <1>6, <1>7, EndsStep

LEMMA KillStep ==
    ASSUME IInv, Kill
    PROVE  IInv'
<1>1. stamp # 0 /\ Ends("killed")
    BY DEF Kill
<1>2. CASE UNCHANGED files
    BY <1>1, <1>2, FilesAsTheyAre, EndsStep DEF files
<1>3. QED
    BY <1>1, <1>2, TornAppendStep, TornRewriteStep DEF Kill

-----------------------------------------------------------------------------
(* The score command, and the people around it.                            *)

\* More than one number is not one number.
LEMMA OneRecorded ==
    ASSUME TypeOK, ~Refused, channel = "rubric"
    PROVE  Recorded \subseteq {bundle}
<1>1. Recorded \subseteq Versions /\ bundle \in Versions
    BY RecordFacts DEF Recorded, TypeOK
<1>2. IsFiniteSet(Versions)
    BY VersionFacts, FS_Interval DEF Versions
<1>3. IsFiniteSet(Recorded)
    BY <1>1, <1>2, FS_Subset
<1>4. recorded_fingerprint = bundle /\ bundle # 0
    BY <1>1, VersionFacts DEF Refused
<1>5. Cardinality(Recorded) = 1 /\ bundle = CHOOSE v \in Recorded : TRUE
    BY <1>4 DEF recorded_fingerprint
<1>6. PICK v : Recorded = {v}
    BY <1>3, <1>5, FS_Singleton
<1>7. QED
    BY <1>5, <1>6

\* What scoring leaves alone, the invariant of the passes stays true of.
LEMMA PassesStand ==
    ASSUME IInv, UNCHANGED <<task, files, judge>>, bundle' \in Versions, bundle <= bundle'
    PROVE  /\ Versioned' /\ PlanOpen' /\ RestAsked' /\ Between' /\ AnsweredOnce' /\ ExitZeroAsked'
           /\ Recorded' = Recorded
           /\ result' \in [Runs -> Results] /\ report' \in [Runs -> Reports]
              /\ against' \in {0} \cup Versions /\ bare' \in BOOLEAN => TypeOK'
<1>1. /\ task' = task /\ Runs' = Runs /\ Items' = Items /\ Records' = Records /\ channel' = channel
      /\ Reviewed' = Reviewed /\ \A rec : Decides(rec)' <=> Decides(rec)
      /\ UNCHANGED <<store, torn, cut, stamp, work, plan, passes, last>>
    BY SameTask DEF files, judge
<1>2. Versioned'
    <2>1. ASSUME NEW q \in Runs, NEW rec \in ToSet(store[q]) PROVE rec.fp <= bundle'
        <3>1. rec.fp <= bundle /\ rec.fp \in Nat /\ bundle \in Nat /\ bundle' \in Nat
            BY RecordFacts, VersionFacts DEF IInv, TypeOK, Versioned
        <3>2. QED
            BY <3>1
    <2>2. stamp <= bundle'
        BY VersionFacts DEF IInv, TypeOK, Versioned
    <2>3. QED
        BY <1>1, <2>1, <2>2 DEF IInv, Versioned
<1>3. PlanOpen' /\ Between' /\ AnsweredOnce' /\ ExitZeroAsked'
    BY <1>1 DEF IInv, PlanOpen, Between, AnsweredOnce, ExitZeroAsked
<1>4. RestAsked'
    <2>1. \A q, i : Asked(q, i, stamp)' <=> Asked(q, i, stamp)
        BY <1>1 DEF Asked
    <2>2. QED
        BY <1>1, <2>1 DEF IInv, RestAsked
<1>5. Recorded' = Recorded
    BY <1>1 DEF Recorded
<1>6. result' \in [Runs -> Results] /\ report' \in [Runs -> Reports]
         /\ against' \in {0} \cup Versions /\ bare' \in BOOLEAN => TypeOK'
    BY <1>1 DEF IInv, TypeOK
<1>7. QED
    BY <1>2, <1>3, <1>4, <1>5, <1>6

LEMMA BundleStays == IInv => bundle \in Versions /\ bundle <= bundle
BY VersionFacts DEF IInv, TypeOK

LEMMA ScoreStartStep ==
    ASSUME IInv, ScoreStart
    PROVE  IInv'
<1>1. /\ UNCHANGED <<task, bundle, files, result, judge>> /\ against' = bundle /\ bare' \in BOOLEAN
      /\ report' = [r \in Runs |-> NoReport]
      /\ channel = "rubric" /\ ~bare' => ~Refused
    BY DEF ScoreStart
<1>2. Runs' = Runs /\ channel' = channel
    BY <1>1, SameTask
<1>3. /\ Versioned' /\ PlanOpen' /\ RestAsked' /\ Between' /\ AnsweredOnce' /\ ExitZeroAsked' /\ TypeOK'
      /\ Recorded' = Recorded
    BY <1>1, BundleStays, PassesStand, ReportFacts DEF IInv, TypeOK
<1>4. CheckHolds'
    <2>1. channel = "rubric" /\ ~bare' => Recorded \subseteq {bundle} /\ stamp \in {0, bundle}
        <3>1. SUFFICES ASSUME channel = "rubric", ~bare'
                       PROVE  Recorded \subseteq {bundle} /\ stamp \in {0, bundle}
            OBVIOUS
        <3>2. Recorded \subseteq {bundle} /\ ~Refused
            BY <1>1, <3>1, OneRecorded DEF IInv
        <3>3. Recorded # {}
            <4>1. bundle # 0
                BY BundleStays, VersionFacts
            <4>2. Cardinality(Recorded) = 1
                BY <3>1, <3>2, <4>1 DEF Refused, recorded_fingerprint
            <4>3. QED
                BY <4>2, FS_EmptySet
        <3>4. \E r \in Runs : \E rec \in ToSet(store[r]) : rec.fp = bundle
            BY <3>2, <3>3 DEF Recorded
        <3>5. stamp # 0 => bundle <= stamp /\ stamp <= bundle
            BY <3>4 DEF IInv, Versioned
        <3>6. stamp \in Nat /\ bundle \in Nat
            BY VersionFacts DEF IInv, TypeOK
        <3>7. QED
            BY <3>2, <3>5, <3>6
    <2>2. QED
        BY <1>1, <1>2, <1>3, <2>1 DEF CheckHolds, judge
<1>5. ReportHolds' /\ ScoredOnItsBundle'
    BY <1>1, <1>2, ReportFacts DEF IInv, ReportHolds, ScoredOnItsBundle
<1>6. QED
    BY <1>3, <1>4, <1>5 DEF IInv

LEMMA ScoreRunStep ==
    ASSUME IInv, NEW r \in Runs, ScoreRun(r)
    PROVE  IInv'
<1> DEFINE reads == ~(channel = "rubric" /\ bare)
           judged == /\ reads /\ r \in Reviewed
                     /\ IF channel = "rubric" THEN is_judged(r) ELSE quality_scored(r)
           rep == [status |-> CASE judged            -> "judged"
                                [] r \notin Reviewed -> "no_evidence"
                                [] OTHER             -> "unjudged",
                   basis  |-> IF judged THEN {rec.fp : rec \in ToSet(store[r])} ELSE {}]
<1>1. against # 0 /\ UNCHANGED <<task, bundle, files, result, judge, bare>>
    BY DEF ScoreRun
<1>2. \/ against' = 0 /\ report' = [q \in Runs |-> NoReport]
      \/ against' = against /\ report' = [report EXCEPT ![r] = rep]
    BY DEF ScoreRun
<1>3. Runs' = Runs /\ channel' = channel
    BY <1>1, SameTask
<1>4. rep.basis \subseteq {against}
    <2>1. SUFFICES ASSUME judged PROVE \A rec \in ToSet(store[r]) : rec.fp = against
        OBVIOUS
    <2>2. CASE channel = "rubric"
        <3>1. ~bare
            BY <2>1, <2>2
        <3>2. Recorded \subseteq {against}
            BY <1>1, <2>2, <3>1 DEF IInv, CheckHolds
        <3>3. QED
            BY <3>2 DEF Recorded
    <2>3. CASE channel # "rubric"
        BY <2>1, <2>3 DEF quality_scored
    <2>4. QED
        BY <2>2, <2>3
<1>5. rep \in Reports
    <2>1. {rec.fp : rec \in ToSet(store[r])} \subseteq Versions
        BY RecordFacts DEF IInv
    <2>2. QED
        BY <2>1 DEF Reports, Statuses
<1> HIDE DEF rep
<1>6. /\ against' \in {0} \cup Versions /\ bare' \in BOOLEAN /\ report' \in [Runs -> Reports]
      /\ result' \in [Runs -> Results]
    BY <1>1, <1>2, <1>5, ReportFacts, VersionFacts DEF IInv, TypeOK
<1>7. /\ Versioned' /\ PlanOpen' /\ RestAsked' /\ Between' /\ AnsweredOnce' /\ ExitZeroAsked' /\ TypeOK'
      /\ Recorded' = Recorded
    BY <1>1, <1>6, BundleStays, PassesStand
<1>8. CheckHolds'
    BY <1>1, <1>2, <1>3, <1>7 DEF IInv, CheckHolds, judge
<1>9. ReportHolds' /\ ScoredOnItsBundle'
    BY <1>1, <1>2, <1>3, <1>4, ReportFacts DEF IInv, TypeOK, ReportHolds, ScoredOnItsBundle
<1>10. QED
    BY <1>7, <1>8, <1>9 DEF IInv

LEMMA ScoreWriteStep ==
    ASSUME IInv, ScoreWrite
    PROVE  IInv'
<1>1. /\ UNCHANGED <<task, bundle, files, judge, bare>> /\ against' = 0 /\ against # 0
      /\ report' = [r \in Runs |-> NoReport]
      /\ result' = [r \in Runs |-> IF channel = "rubric" THEN merge_scores(result[r], report[r])
                                                         ELSE merge_quality(result[r], report[r])]
    BY DEF ScoreWrite
<1>2. Runs' = Runs /\ channel' = channel
    BY <1>1, SameTask
<1>3. ASSUME NEW r \in Runs
      PROVE  LET m == IF channel = "rubric" THEN merge_scores(result[r], report[r])
                                            ELSE merge_quality(result[r], report[r])
             IN  m \in Results /\ m.basis \subseteq {m.of}
    <2>1. result[r] \in Results /\ report[r] \in Reports /\ against \in Versions
        BY <1>1 DEF IInv, TypeOK
    <2>2. result[r].basis \subseteq {result[r].of} /\ report[r].basis \subseteq {against}
        BY DEF IInv, ScoredOnItsBundle, ReportHolds
    <2>3. \A s \in Statuses : [result[r] EXCEPT !.status = s] \in Results
        BY <2>1 DEF Results
    <2>4. \A s \in Statuses : /\ [result[r] EXCEPT !.status = s].basis = result[r].basis
                              /\ [result[r] EXCEPT !.status = s].of = result[r].of
        BY <2>1 DEF Results
    <2>5. report[r].status \in Statuses /\ report[r].basis \in SUBSET Versions
        BY <2>1 DEF Reports
    <2>6. /\ [status |-> "judged", of |-> against, basis |-> report[r].basis] \in Results
          /\ [status |-> report[r].status, of |-> 0, basis |-> {}] \in Results
        BY <2>1, <2>5, VersionFacts DEF Results, Statuses
    <2>7. QED
        BY <2>2, <2>3, <2>4, <2>5, <2>6 DEF merge_scores, merge_quality
<1>4. /\ against' \in {0} \cup Versions /\ bare' \in BOOLEAN /\ report' \in [Runs -> Reports]
      /\ result' \in [Runs -> Results]
    BY <1>1, <1>3, ReportFacts, VersionFacts DEF IInv, TypeOK
<1>5. /\ Versioned' /\ PlanOpen' /\ RestAsked' /\ Between' /\ AnsweredOnce' /\ ExitZeroAsked' /\ TypeOK'
      /\ Recorded' = Recorded
    BY <1>1, <1>4, BundleStays, PassesStand
<1>6. CheckHolds'
    BY <1>1 DEF CheckHolds
<1>7. ReportHolds' /\ ScoredOnItsBundle'
    BY <1>1, <1>2, <1>3, ReportFacts DEF ReportHolds, ScoredOnItsBundle
<1>8. QED
    BY <1>5, <1>6, <1>7 DEF IInv

LEMMA EditStep ==
    ASSUME IInv, Edit
    PROVE  IInv'
<1>1. /\ UNCHANGED <<task, files, result, judge, against, bare, report>> /\ bundle' = bundle + 1
      /\ against = 0 /\ bundle < MaxVersion
    BY DEF Edit, score
<1>2. Runs' = Runs /\ channel' = channel
    BY <1>1, SameTask
<1>3. bundle' \in Versions /\ bundle <= bundle'
    BY <1>1, VersionFacts, StoreAssumption DEF IInv, TypeOK, Versions
<1>4. /\ Versioned' /\ PlanOpen' /\ RestAsked' /\ Between' /\ AnsweredOnce' /\ ExitZeroAsked' /\ TypeOK'
      /\ Recorded' = Recorded
    BY <1>1, <1>3, PassesStand DEF IInv, TypeOK
<1>5. CheckHolds' /\ ReportHolds' /\ ScoredOnItsBundle'
    BY <1>1, <1>2 DEF IInv, CheckHolds, ReportHolds, ScoredOnItsBundle
<1>6. QED
    BY <1>4, <1>5 DEF IInv

LEMMA ClearStep ==
    ASSUME IInv, Clear
    PROVE  IInv'
<1>1. /\ task' = task /\ Runs' = Runs /\ Items' = Items /\ Records' = Records /\ channel' = channel
      /\ Reviewed' = Reviewed /\ \A rec : Decides(rec)' <=> Decides(rec)
      /\ UNCHANGED <<task, bundle, result, stamp, work, plan, passes, against, bare, report>>
      /\ stamp = 0 /\ against = 0
    BY SameTask DEF Clear, score
<1>2. /\ \A r \in Runs : store'[r] = <<>> /\ ToSet(store'[r]) = {}
      /\ store' \in [Runs -> Seq(Records)] /\ torn' \in [Runs -> BOOLEAN] /\ cut' \in [Runs -> BOOLEAN]
    BY DEF Clear, ToSet
<1>3. last' \in Exits /\ last'.exit # "ok"
    BY VersionFacts DEF Clear, Exits
<1>4. TypeOK'
    BY <1>1, <1>2, <1>3 DEF IInv, TypeOK
<1>5. \A r \in Runs : work[r] = "idle"
    BY <1>1 DEF IInv, Between
<1>6. Versioned' /\ CheckHolds' /\ ReportHolds'
    BY <1>1, <1>2 DEF IInv, Versioned, CheckHolds, ReportHolds
<1>7. PlanOpen' /\ RestAsked' /\ Between'
    BY <1>1, <1>2, <1>3, <1>5 DEF IInv, PlanOpen, RestAsked, Between
<1>8. ScoredOnItsBundle' /\ ExitZeroAsked'
    BY <1>1, <1>3 DEF IInv, ScoredOnItsBundle, ExitZeroAsked
<1>9. AnsweredOnce'
    BY <1>1, <1>2 DEF AnsweredOnce
<1>10. QED
    BY <1>4, <1>6, <1>7, <1>8, <1>9 DEF IInv

-----------------------------------------------------------------------------
(* The invariant is inductive.                                             *)

LEMMA StutterStep ==
    ASSUME IInv, UNCHANGED vars
    PROVE  IInv'
<1>1. /\ UNCHANGED <<task, files, judge>> /\ UNCHANGED <<bundle, result, against, bare, report>>
    BY DEF vars, files, judge, score
<1>2. Runs' = Runs /\ channel' = channel
    BY <1>1, SameTask
<1>3. /\ Versioned' /\ PlanOpen' /\ RestAsked' /\ Between' /\ AnsweredOnce' /\ ExitZeroAsked' /\ TypeOK'
      /\ Recorded' = Recorded
    BY <1>1, BundleStays, PassesStand DEF IInv, TypeOK
<1>4. CheckHolds' /\ ReportHolds' /\ ScoredOnItsBundle'
    BY <1>1, <1>2, <1>3 DEF IInv, CheckHolds, ReportHolds, ScoredOnItsBundle, judge
<1>5. QED
    BY <1>3, <1>4 DEF IInv

LEMMA IInvStep == IInv /\ [Next]_vars => IInv'
<1> SUFFICES ASSUME IInv, [Next]_vars PROVE IInv'
    OBVIOUS
<1>1. CASE JudgeStart
    BY <1>1, JudgeStartStep
<1>2. CASE JudgeStep
    <2>1. CASE MapRaises
        BY <2>1, MapRaisesStep
    <2>2. CASE JudgeEnds
        BY <2>2, JudgeEndsStep
    <2>3. ASSUME NEW r \in Runs, WorkerStart(r) PROVE IInv'
        BY <2>3, WorkerStartStep
    <2>4. ASSUME NEW r \in Runs, CallAnswers(r) \/ CallFails(r) PROVE IInv'
        <3>1. \E a \in Answers : Record(r, a)
            BY <2>4 DEF CallAnswers, CallFails, Answers
        <3>2. QED
            BY <3>1, AnswerStep, GlueStep
    <2>5. ASSUME NEW r \in Runs, CallRefused(r) \/ CallUnreachable(r) PROVE IInv'
        <3>1. \E how \in {"failed", "raised"} : GiveUp(r, how)
            BY <2>5 DEF CallRefused, CallUnreachable
        <3>2. QED
            BY <3>1, GiveUpStep
    <2>6. ASSUME NEW r \in Runs, Skip(r) PROVE IInv'
        BY <2>6, SkipStep
    <2>7. QED
        BY <1>2, <2>1, <2>2, <2>3, <2>4, <2>5, <2>6 DEF JudgeStep
<1>3. CASE Kill
    BY <1>3, KillStep
<1>4. CASE ScoreStep
    BY <1>4, ScoreStartStep, ScoreRunStep, ScoreWriteStep DEF ScoreStep
<1>5. CASE Edit
    BY <1>5, EditStep
<1>6. CASE Clear
    BY <1>6, ClearStep
<1>7. CASE UNCHANGED vars
    BY <1>7, StutterStep
<1>8. QED
    BY <1>1, <1>2, <1>3, <1>4, <1>5, <1>6, <1>7 DEF Next

LEMMA IInvAlways == Spec => []IInv
BY InitIInv, IInvStep, PTL DEF Spec

\* The files hold readable records and the pass, the score and result.json keep their
\* state in its types, in both channels.
THEOREM TypesCorrect == Spec => []TypeOK
<1>1. IInv => TypeOK
    BY DEF IInv
<1>2. QED
    BY <1>1, IInvAlways, PTL

\* cmd_score, build_report, writeback.py: the numbers in a result.json rest on answers
\* about the bundle they were computed for.
THEOREM ScoresRest == Spec => []ScoredOnItsBundle
<1>1. IInv => ScoredOnItsBundle
    BY DEF IInv
<1>2. QED
    BY <1>1, IInvAlways, PTL

\* plan_calls, _usable: no answer that decides is asked for again.
THEOREM AskedOnce == Spec => []AnsweredOnce
<1>1. IInv => AnsweredOnce
    BY DEF IInv
<1>2. QED
    BY <1>1, IInvAlways, PTL

\* A pass that exits with 0 has a record of every item of every run there is to review,
\* or that run's file has a line that every reader raises on.
THEOREM ExitMeansAsked == Spec => []ExitZeroAsked
<1>1. IInv => ExitZeroAsked
    BY DEF IInv
<1>2. QED
    BY <1>1, IInvAlways, PTL

\* _keep_current, Record: only the death of a pass or the removal of the files takes
\* away an answer about the bundle as it stands, or the append that runs into a record
\* the death of a pass cut before its newline, which leaves the file unreadable.
THEOREM AnswersAreKept == Spec => AnswersKept
<1> DEFINE Kept0 == \/ bundle' # bundle \/ Kill \/ Clear
                    \/ \A r \in Runs : Current(r) \subseteq Current(r)' \/ (cut[r] /\ torn'[r])
<1>1. ASSUME IInv, [Next]_vars PROVE Kept0
    <2>1. SUFFICES ASSUME bundle' = bundle, ~Kill, ~Clear,
                          NEW r \in Runs, ~(cut[r] /\ torn'[r]), NEW rec \in Current(r)
                   PROVE  rec \in Current(r)'
        OBVIOUS
    <2>2. rec \in ToSet(store[r]) /\ rec.fp = bundle /\ rec.answer = "usable"
        BY DEF Current
    <2>3. SUFFICES rec \in ToSet(store'[r])
        BY <2>1, <2>2 DEF Current
    <2>4. \/ UNCHANGED store
          \/ \E q \in Runs : WorkerStart(q)
          \/ \E q \in Runs, a \in Answers : Record(q, a)
        <3>1. \/ JudgeStart \/ JudgeStep \/ ScoreStep \/ Edit \/ UNCHANGED vars
            BY <1>1, <2>1 DEF Next
        <3>2. JudgeStart \/ Edit \/ ScoreStep \/ UNCHANGED vars => UNCHANGED store
            BY DEF JudgeStart, Edit, ScoreStep, ScoreStart, ScoreRun, ScoreWrite, vars, files
        <3>3. MapRaises \/ JudgeEnds => UNCHANGED store
            BY DEF MapRaises, JudgeEnds, files
        <3>4. \A q \in Runs : CallRefused(q) \/ CallUnreachable(q) \/ Skip(q) => UNCHANGED store
            BY DEF CallRefused, CallUnreachable, GiveUp, Skip, files
        <3>5. \A q \in Runs : CallAnswers(q) \/ CallFails(q) => \E a \in Answers : Record(q, a)
            BY DEF CallAnswers, CallFails, Answers
        <3>6. QED
            BY <3>1, <3>2, <3>3, <3>4, <3>5, Zenon DEF JudgeStep
    <2>5. CASE UNCHANGED store
        BY <2>2, <2>5
    \* A pass about an older bundle finds no answer about this one to drop.
    <2>6. ASSUME NEW q \in Runs, WorkerStart(q) PROVE rec \in ToSet(store'[r])
        <3>1. \/ store' = store
              \/ store' = [store EXCEPT ![q] = _keep_current(q)]
            BY <2>6 DEF WorkerStart
        <3>2. CASE store' = store
            BY <2>2, <3>2
        <3>3. CASE store' = [store EXCEPT ![q] = _keep_current(q)]
            <4>1. TypeOK /\ stamp # 0 /\ stamp \in Nat /\ bundle \in Nat
                BY <1>1, <2>6, VersionFacts DEF WorkerStart, IInv, TypeOK
            <4>2. stamp <= bundle /\ bundle <= stamp
                BY <1>1, <2>2, <4>1 DEF IInv, Versioned
            <4>3. rec.fp = stamp
                BY <2>2, <4>1, <4>2
            <4>4. q = r => rec \in ToSet(_keep_current(q))
                BY <2>2, <4>1, <4>3, Keeps
            <4>5. store'[r] = IF q = r THEN _keep_current(q) ELSE store[r]
                BY <3>3, <4>1 DEF TypeOK
            <4>6. QED
                BY <2>2, <4>4, <4>5
        <3>4. QED
            BY <3>1, <3>2, <3>3
    <2>7. ASSUME NEW q \in Runs, NEW a \in Answers, Record(q, a) PROVE rec \in ToSet(store'[r])
        <3>1. CASE Glue(q)
            <4>1. q # r
                BY <1>1, <2>1, <3>1, GlueFacts
            <4>2. store'[r] = store[r]
                BY <1>1, <3>1, <4>1, GlueFacts
            <4>3. QED
                BY <2>2, <4>2
        <3>2. CASE store' = WithAnswer(q, a)
            BY <1>1, <2>2, <2>7, <3>2, NewAnswer DEF Record
        <3>3. QED
            BY <2>7, <3>1, <3>2 DEF Record
    <2>8. QED
        BY <2>4, <2>5, <2>6, <2>7
<1>2. QED
    BY <1>1, IInvAlways, PTL DEF Spec, AnswersKept
=============================================================================
