----------------------- MODULE EvalOrchestrator_proofs -----------------------
(***************************************************************************)
(* Proofs about EvalOrchestrator, for every dataset, number of attempts,   *)
(* pool size, critic and set of faults: the inductive invariant IInv and   *)
(* the properties it gives.                                                *)
(***************************************************************************)
EXTENDS EvalOrchestrator, Subsequences_proofs

USE OrchestratorAssumption DEF OrchestratorAssumption, AllFaults

-----------------------------------------------------------------------------
(* The attempt files.                                                      *)

\* What remains of an instance's only line when it can be read no more.
LEMMA FrontOfOne ==
    ASSUME NEW T, NEW s \in Seq(T), Len(s) <= 1
    PROVE  Front(s) = <<>>
BY SMT DEF Front

LEMMA GluedFile ==
    ASSUME TypeOK, OneLinePerAttempt, NEW n \in Attempts
    PROVE  /\ bare[n] = {} => Glued(n) = file
           /\ \A j \in Instances :
                 bare[n] = {j} => Glued(n) = [file EXCEPT ![n][j] = <<>>]
<1>1. file \in [Attempts -> [Instances -> Seq(Outcomes)]]
    BY DEF TypeOK
<1>2. CASE bare[n] = {}
    <2>1. [i \in Instances |-> IF i \in bare[n] THEN Front(file[n][i]) ELSE file[n][i]] = file[n]
        BY <1>1, <1>2
    <2>2. QED
        BY <1>1, <2>1, <1>2 DEF Glued
<1>3. ASSUME NEW j \in Instances, bare[n] = {j} PROVE Glued(n) = [file EXCEPT ![n][j] = <<>>]
    <2>1. file[n][j] \in Seq(Outcomes) /\ Len(file[n][j]) <= 1
        BY <1>1 DEF OneLinePerAttempt
    <2>2. Front(file[n][j]) = <<>>
        BY <2>1, FrontOfOne
    <2>3. [i \in Instances |-> IF i \in bare[n] THEN Front(file[n][i]) ELSE file[n][i]]
          = [file[n] EXCEPT ![j] = <<>>]
        BY <1>1, <1>3, <2>2
    <2>4. QED
        BY <1>1, <2>3 DEF Glued
<1>4. QED
    BY <1>2, <1>3

\* What an append for i, whole or cut short, can do to the attempt's file: nothing
\* that is readable, one line more at a clean end, or the loss of an unfinished line.
Added(i, o) ==
    /\ ~torn[attempt]
    /\ file' = [file EXCEPT ![attempt][i] = <<o>>]
    /\ \/ bare' = bare
       \/ /\ bare' = [bare EXCEPT ![attempt] = {i}]
          /\ torn' = [torn EXCEPT ![attempt] = TRUE]
          /\ cut'

LostOne(j) ==
    /\ bare[attempt] = {j}
    /\ file' = [file EXCEPT ![attempt][j] = <<>>]
    /\ bare' = [bare EXCEPT ![attempt] = {}]

Appending(i, o) ==
    \/ AppendLine(attempt, i, o)
    \/ "tear" \in Faults /\ CutShort(attempt, i, o)

LEMMA AppendEffect ==
    ASSUME TypeOK, UnfinishedLines, CutByFault, OneLinePerAttempt,
           NEW i \in Instances, NEW o \in Outcomes,
           file[attempt][i] = <<>>, Appending(i, o)
    PROVE  /\ \/ file' = file /\ bare' = bare
              \/ Added(i, o)
              \/ \E j \in Instances : LostOne(j)
           /\ torn' \in [Attempts -> BOOLEAN] /\ cut' \in BOOLEAN /\ (cut => cut')
           /\ CutByFault'
           /\ \A n \in Attempts : torn'[n] => torn[n] \/ (n = attempt /\ cut')
           /\ \A n \in Attempts : n # attempt => torn'[n] = torn[n]
           /\ bare'[attempt] # {} => torn'[attempt]
<1>1. /\ attempt \in Attempts /\ file \in [Attempts -> [Instances -> Seq(Outcomes)]]
      /\ torn \in [Attempts -> BOOLEAN] /\ bare \in [Attempts -> SUBSET Instances]
      /\ cut \in BOOLEAN
    BY DEF TypeOK
<1>2. \/ bare[attempt] = {}
      \/ \E j \in Instances : bare[attempt] = {j}
    BY <1>1 DEF UnfinishedLines
<1>3. bare[attempt] # {} => torn[attempt]
    BY <1>1 DEF UnfinishedLines
<1>4. [file EXCEPT ![attempt][i] = Append(file[attempt][i], o)]
      = [file EXCEPT ![attempt][i] = <<o>>]
    BY <1>1
<1>5. bare[attempt] = {} => [bare EXCEPT ![attempt] = {}] = bare
    BY <1>1
<1>6. ASSUME file' = Glued(attempt), bare' = [bare EXCEPT ![attempt] = {}]
      PROVE  \/ file' = file /\ bare' = bare
             \/ \E j \in Instances : LostOne(j)
    BY <1>1, <1>2, <1>5, <1>6, GluedFile DEF LostOne
<1>7. CASE CutShort(attempt, i, o) /\ ("tear" \in Faults \/ "write" \in Faults)
    <2>1. cut' = TRUE /\ CutByFault'
        BY <1>7 DEF CutShort, CutByFault
    <2>2. CASE UNCHANGED <<file, torn, bare>>
        BY <1>1, <1>3, <2>1, <2>2
    <2>3. CASE /\ file' = Glued(attempt)
               /\ torn' = [torn EXCEPT ![attempt] = TRUE]
               /\ bare' = [bare EXCEPT ![attempt] = {}]
        BY <1>1, <1>6, <2>1, <2>3
    <2>4. CASE /\ ~torn[attempt]
               /\ file' = [file EXCEPT ![attempt][i] = Append(@, o)]
               /\ torn' = [torn EXCEPT ![attempt] = TRUE]
               /\ bare' = [bare EXCEPT ![attempt] = {i}]
        <3>1. Added(i, o)
            BY <1>4, <2>1, <2>4 DEF Added
        <3>2. QED
            BY <1>1, <2>1, <2>4, <3>1
    <2>5. QED
        BY <1>7, <2>2, <2>3, <2>4 DEF CutShort
<1>8. CASE /\ file' = IF torn[attempt] THEN Glued(attempt)
                      ELSE [file EXCEPT ![attempt][i] = Append(@, o)]
           /\ torn' = [torn EXCEPT ![attempt] = FALSE]
           /\ bare' = [bare EXCEPT ![attempt] = {}]
           /\ UNCHANGED cut
    <2>1. CutByFault'
        BY <1>8 DEF CutByFault
    <2>2. CASE torn[attempt]
        BY <1>1, <1>6, <1>8, <2>1, <2>2
    <2>3. CASE ~torn[attempt]
        <3>1. Added(i, o)
            BY <1>3, <1>4, <1>5, <1>8, <2>3 DEF Added
        <3>2. QED
            BY <1>1, <1>8, <2>1, <3>1
    <2>4. QED
        BY <2>2, <2>3
<1>9. QED
    BY <1>7, <1>8 DEF Appending, AppendLine

\* The files after an append are typed, and their unfinished lines as they should be.
LEMMA AppendKeeps ==
    ASSUME TypeOK, UnfinishedLines, CutByFault, OneLinePerAttempt,
           NEW i \in Instances, NEW o \in Outcomes,
           file[attempt][i] = <<>>, Appending(i, o)
    PROVE  /\ file' \in [Attempts -> [Instances -> Seq(Outcomes)]]
           /\ torn' \in [Attempts -> BOOLEAN] /\ bare' \in [Attempts -> SUBSET Instances]
           /\ cut' \in BOOLEAN
           /\ UnfinishedLines' /\ CutByFault'
<1>1. /\ attempt \in Attempts /\ file \in [Attempts -> [Instances -> Seq(Outcomes)]]
      /\ torn \in [Attempts -> BOOLEAN] /\ bare \in [Attempts -> SUBSET Instances]
    BY DEF TypeOK
<1>2. <<>> \in Seq(Outcomes) /\ <<o>> \in Seq(Outcomes) /\ <<o>> # <<>>
    OBVIOUS
<1>3. /\ torn' \in [Attempts -> BOOLEAN] /\ cut' \in BOOLEAN /\ (cut => cut') /\ CutByFault'
      /\ \A n \in Attempts : torn'[n] => torn[n] \/ (n = attempt /\ cut')
      /\ \A n \in Attempts : n # attempt => torn'[n] = torn[n]
      /\ bare'[attempt] # {} => torn'[attempt]
    BY AppendEffect
<1>4. \A n \in Attempts : torn'[n] => cut'
    BY <1>3 DEF UnfinishedLines
<1>5. CASE file' = file /\ bare' = bare
    BY <1>1, <1>3, <1>4, <1>5 DEF UnfinishedLines
<1>6. CASE Added(i, o)
    <2>1. file' \in [Attempts -> [Instances -> Seq(Outcomes)]]
        BY <1>1, <1>2, <1>6 DEF Added
    <2>2. bare' \in [Attempts -> SUBSET Instances]
        <3>1. {i} \in SUBSET Instances
            OBVIOUS
        <3>2. [bare EXCEPT ![attempt] = {i}] \in [Attempts -> SUBSET Instances]
            BY <1>1, <3>1
        <3>3. QED
            BY <1>1, <1>6, <3>2 DEF Added
    <2>3. bare[attempt] = {}
        BY <1>1, <1>6 DEF Added, UnfinishedLines
    <2>4. \A n \in Attempts, j \in Instances :
             file'[n][j] = IF n = attempt /\ j = i THEN <<o>> ELSE file[n][j]
        BY <1>1, <1>6 DEF Added
    <2>5. \A n \in Attempts : bare'[n] = bare[n] \/ (n = attempt /\ bare'[n] = {i})
        BY <1>1, <1>6 DEF Added
    <2>6. \A n \in Attempts : \A j \in bare'[n] : bare'[n] = {j} /\ file'[n][j] # <<>>
        <3> SUFFICES ASSUME NEW n \in Attempts, NEW j \in bare'[n]
                     PROVE  bare'[n] = {j} /\ file'[n][j] # <<>>
            OBVIOUS
        <3>1. CASE n = attempt /\ bare'[n] = {i}
            BY <1>1, <1>2, <2>4, <3>1
        <3>2. CASE bare'[n] = bare[n]
            <4>1. bare[n] = {j} /\ file[n][j] # <<>> /\ j \in Instances
                BY <1>1, <3>2 DEF UnfinishedLines
            <4>2. file'[n][j] # <<>>
                BY <1>2, <2>4, <4>1
            <4>3. QED
                BY <3>2, <4>1, <4>2
        <3>3. QED
            BY <2>5, <3>1, <3>2
    <2>7. \A n \in Attempts : bare'[n] # {} => torn'[n]
        BY <1>1, <1>3, <2>3, <2>5 DEF UnfinishedLines
    <2>8. QED
        BY <1>3, <1>4, <2>1, <2>2, <2>6, <2>7 DEF UnfinishedLines
<1>7. ASSUME NEW j \in Instances, LostOne(j)
      PROVE  /\ file' \in [Attempts -> [Instances -> Seq(Outcomes)]]
             /\ bare' \in [Attempts -> SUBSET Instances]
             /\ UnfinishedLines'
    <2>1. file' \in [Attempts -> [Instances -> Seq(Outcomes)]]
        BY <1>1, <1>2, <1>7 DEF LostOne
    <2>2. /\ bare' \in [Attempts -> SUBSET Instances]
          /\ \A n \in Attempts : bare'[n] = IF n = attempt THEN {} ELSE bare[n]
        BY <1>1, <1>7 DEF LostOne
    <2>3. \A n \in Attempts, k \in Instances : n # attempt => file'[n][k] = file[n][k]
        BY <1>1, <1>7 DEF LostOne
    <2>4. ASSUME NEW n \in Attempts
          PROVE  /\ bare'[n] # {} => torn'[n]
                 /\ \A k \in bare'[n] : bare'[n] = {k} /\ file'[n][k] # <<>>
        <3>1. CASE n = attempt
            BY <1>3, <2>2, <3>1
        <3>2. CASE n # attempt
            <4>1. bare'[n] = bare[n] /\ torn'[n] = torn[n] /\ bare[n] \subseteq Instances
                BY <1>1, <1>3, <2>2, <3>2
            <4>2. bare[n] # {} => torn[n]
                BY DEF UnfinishedLines
            <4>3. \A k \in bare[n] : bare[n] = {k} /\ file[n][k] # <<>>
                BY DEF UnfinishedLines
            <4>4. QED
                BY <2>3, <3>2, <4>1, <4>2, <4>3
        <3>3. QED
            BY <3>1, <3>2
    <2>5. QED
        BY <1>4, <2>1, <2>2, <2>4, Zenon DEF UnfinishedLines
<1>8. QED
    BY <1>3, <1>5, <1>6, <1>7, AppendEffect

\* The lines of output.jsonl that the default writer adds are typed.
LEMMA WriterEffect ==
    ASSUME out \subseteq Instances \X Attempts \X Outcomes,
           NEW n \in Attempts, NEW i \in Instances, NEW o \in Outcomes,
           default_on_result_writer(n, i, o)
    PROVE  out' \subseteq Instances \X Attempts \X Outcomes
BY DEF default_on_result_writer

LEMMA OutcomesAreOutcomes ==
    /\ WorkerOutcomes \subseteq Outcomes /\ "timeout" \in Outcomes
    /\ Finished \ {"failed"} = WorkerOutcomes /\ Finished \subseteq FutureStates
BY DEF WorkerOutcomes, Outcomes, Finished, FutureStates

-----------------------------------------------------------------------------
(* Type correctness.                                                       *)

\* The step an append takes: what it does for the instance whose result is recorded.
LEMMA CollectAppends ==
    ASSUME IInv, NEW i \in Instances, Collect(i), fut[i] # "failed"
    PROVE  /\ fut[i] \in Outcomes /\ file[attempt][i] = <<>>
           /\ Appending(i, fut[i]) /\ default_on_result_writer(attempt, i, fut[i])
BY OutcomesAreOutcomes
   DEF Collect, IInv, WorkInOnePlace, OwedIsEligible, Owed, Appending, attempt_on_result

LEMMA TimeOutAppends ==
    ASSUME IInv, NEW i \in Instances, TimeOut(i)
    PROVE  /\ "timeout" \in Outcomes /\ file[attempt][i] = <<>>
           /\ Appending(i, "timeout") /\ default_on_result_writer(attempt, i, "timeout")
BY OutcomesAreOutcomes
   DEF TimeOut, IInv, WorkInOnePlace, OwedIsEligible, Owed, Appending, attempt_on_result

LEMMA CrashAppends ==
    ASSUME IInv, Crash
    PROVE  /\ Stop
           /\ \/ UNCHANGED <<file, torn, bare, cut>> /\ out' \subseteq out \cup aggregate_results
              \/ \E i \in Owed, o \in Outcomes :
                    /\ i \in Instances /\ file[attempt][i] = <<>>
                    /\ Appending(i, o) /\ UNCHANGED out
<1>1. CASE \E i \in done : /\ fut[i] # "failed"
                           /\ "tear" \in Faults /\ CutShort(attempt, i, fut[i]) /\ UNCHANGED out
    BY <1>1, OutcomesAreOutcomes
       DEF IInv, TypeOK, WorkInOnePlace, OwedIsEligible, Owed, Appending, Crash
<1>2. CASE \E i \in late : "tear" \in Faults /\ CutShort(attempt, i, "timeout") /\ UNCHANGED out
    BY <1>2, OutcomesAreOutcomes
       DEF IInv, TypeOK, WorkInOnePlace, OwedIsEligible, Owed, Appending, Crash
<1>3. CASE UNCHANGED disk
    BY <1>3 DEF Crash, disk
<1>4. CASE out' \in SUBSET aggregate_results /\ UNCHANGED <<file, torn, bare, cut>>
    BY <1>4 DEF Crash
<1>5. QED
    BY <1>1, <1>2, <1>3, <1>4 DEF Crash

LEMMA TypeStep == IInv /\ [Next]_vars => TypeOK'
<1> SUFFICES ASSUME IInv, [Next]_vars PROVE TypeOK'
    OBVIOUS
<1>0. TypeOK /\ WorkInOnePlace /\ UnfinishedLines /\ CutByFault /\ OneLinePerAttempt
    BY DEF IInv
<1> USE <1>0 DEF TypeOK, main, pool, disk, Phases, InTry, InLoop, Attempts
<1>1. CASE Start
    <2>1. attempt' \in Attempts /\ sel' \subseteq Instances /\ phase' \in Phases
        BY <1>1 DEF Start
    <2>2. runs' \in 0..MaxRuns
        BY <1>1 DEF Start
    <2>3. QED
        BY <1>1, <2>1, <2>2 DEF Start
<1>2. CASE Select
    <2>1. attempt' \in Attempts /\ phase' \in Phases
        BY <1>2 DEF Select, NextAttempt
    <2>2. _get_instances_for_attempt(attempt) \subseteq Instances
        BY DEF _get_instances_for_attempt
    <2>3. todo' \subseteq Instances
        BY <1>2, <2>2 DEF Select
    <2>4. warm' \in BOOLEAN
        <3>1. (attempt > 1) \in BOOLEAN
            OBVIOUS
        <3>2. warm' = warm \/ warm' = (attempt > 1)
            BY <1>2, Zenon DEF Select
        <3>3. QED
            BY <3>1, <3>2, Zenon
    <2>5. QED
        BY <1>2, <2>1, <2>3, <2>4 DEF Select
<1>3. ASSUME NEW i \in Instances, Submit(i) PROVE TypeOK'
    BY <1>3 DEF Submit, FutureStates
<1>4. CASE Wait
    BY <1>4 DEF Wait
<1>5. ASSUME NEW i \in Instances, Collect(i) PROVE TypeOK'
    <2>1. CASE fut[i] = "failed"
        BY <1>5, <2>1 DEF Collect
    <2>2. CASE fut[i] # "failed"
        <3>1. /\ fut[i] \in Outcomes /\ file[attempt][i] = <<>>
              /\ Appending(i, fut[i]) /\ default_on_result_writer(attempt, i, fut[i])
            BY <1>5, <2>2, CollectAppends
        <3>2. /\ file' \in [Attempts -> [Instances -> Seq(Outcomes)]]
              /\ torn' \in [Attempts -> BOOLEAN] /\ bare' \in [Attempts -> SUBSET Instances]
              /\ cut' \in BOOLEAN
            BY <3>1, AppendKeeps
        <3>3. out' \subseteq Instances \X Attempts \X Outcomes
            BY <3>1, WriterEffect
        <3>4. QED
            BY <1>5, <3>2, <3>3 DEF Collect
    <2>3. QED
        BY <2>1, <2>2
<1>6. CASE CheckDeadlines
    BY <1>6 DEF CheckDeadlines
<1>7. ASSUME NEW i \in Instances, TimeOut(i) PROVE TypeOK'
    <2>1. /\ "timeout" \in Outcomes /\ file[attempt][i] = <<>>
          /\ Appending(i, "timeout") /\ default_on_result_writer(attempt, i, "timeout")
        BY <1>7, TimeOutAppends
    <2>2. /\ file' \in [Attempts -> [Instances -> Seq(Outcomes)]]
          /\ torn' \in [Attempts -> BOOLEAN] /\ bare' \in [Attempts -> SUBSET Instances]
          /\ cut' \in BOOLEAN
        BY <2>1, AppendKeeps
    <2>3. out' \subseteq Instances \X Attempts \X Outcomes
        BY <2>1, WriterEffect
    <2>4. fut' \in [Instances -> FutureStates]
        BY <1>7 DEF TimeOut, FutureStates
    <2>5. QED
        BY <1>7, <2>2, <2>3, <2>4 DEF TimeOut
<1>8. CASE LoopAgain
    BY <1>8 DEF LoopAgain
<1>9. CASE Shutdown
    <2>1. attempt' \in Attempts /\ phase' \in Phases
        BY <1>9 DEF Shutdown, NextAttempt
    <2>2. fut' \in [Instances -> FutureStates]
        BY <1>9 DEF Shutdown, NoFutures, FutureStates
    <2>3. QED
        BY <1>9, <2>1, <2>2 DEF Shutdown
<1>10. CASE Aggregate
    BY <1>10 DEF Aggregate, aggregate_results
<1>11. ASSUME Stop, UNCHANGED disk PROVE TypeOK'
    BY <1>11 DEF Stop, NoFutures, FutureStates
<1>12. CASE Crash
    <2>1. Stop
        BY <1>12, CrashAppends
    <2>2. aggregate_results \subseteq Instances \X Attempts \X Outcomes
        BY DEF aggregate_results
    <2>3. CASE /\ UNCHANGED <<file, torn, bare, cut>>
               /\ out' \subseteq out \cup aggregate_results
        BY <2>1, <2>2, <2>3 DEF Stop, NoFutures, FutureStates
    <2>4. ASSUME NEW i \in Instances, NEW o \in Outcomes,
                 file[attempt][i] = <<>>, Appending(i, o), UNCHANGED out
          PROVE  TypeOK'
        <3>1. /\ file' \in [Attempts -> [Instances -> Seq(Outcomes)]]
              /\ torn' \in [Attempts -> BOOLEAN] /\ bare' \in [Attempts -> SUBSET Instances]
              /\ cut' \in BOOLEAN
            BY <2>4, AppendKeeps
        <3>2. QED
            BY <2>1, <2>4, <3>1 DEF Stop, NoFutures, FutureStates
    <2>5. QED
        BY <1>12, <2>3, <2>4, CrashAppends
<1>13. ASSUME NEW i \in Instances, Claim(i) PROVE TypeOK'
    BY <1>13 DEF Claim, FutureStates
<1>14. ASSUME NEW i \in Instances, WorkerStart(i) PROVE TypeOK'
    BY <1>14, SMTT(40) DEF WorkerStart, FutureStates
<1>15. ASSUME NEW n \in Attempts, NEW i \in Instances, WorkerEnd(n, i) PROVE TypeOK'
    <2>1. fut' = fut \/ \E r \in Finished : fut' = [fut EXCEPT ![i] = r]
        BY <1>15 DEF WorkerEnd, Finished
    <2>2. fut' \in [Instances -> FutureStates]
        BY <2>1, OutcomesAreOutcomes
    <2>3. QED
        BY <1>15, <2>2 DEF WorkerEnd
<1>16. ASSUME NEW n \in Attempts, NEW i \in Instances, WorkerHang(n, i) PROVE TypeOK'
    BY <1>16 DEF WorkerHang
<1>17. CASE WorkerDies
    BY <1>17 DEF WorkerDies, FutureStates
<1>18. ASSUME NEW i \in Instances, Expire(i) PROVE TypeOK'
    BY <1>18 DEF Expire
<1>19. CASE UNCHANGED vars
    BY <1>19 DEF vars
<1>20. QED
    BY <1>1, <1>2, <1>3, <1>4, <1>5, <1>6, <1>7, <1>8, <1>9, <1>10, <1>11, <1>12, <1>13,
       <1>14, <1>15, <1>16, <1>17, <1>18, <1>19
       DEF Next, MainStep, WorkerStep, FaultStep, Over, Interrupt, SubmitRaises

-----------------------------------------------------------------------------
(* An instance the attempt still owes is in exactly one place.             *)

LEMMA PlaceStep == TypeOK /\ WorkInOnePlace /\ [Next]_vars => WorkInOnePlace'
<1> SUFFICES ASSUME TypeOK, WorkInOnePlace, [Next]_vars PROVE WorkInOnePlace'
    OBVIOUS
<1> USE DEF WorkInOnePlace, main, pool, InTry, InLoop
<1>1. CASE Start
    BY <1>1 DEF Start
<1>2. CASE Select
    BY <1>2 DEF Select, NextAttempt
<1>3. ASSUME NEW i \in Instances, Submit(i) PROVE WorkInOnePlace'
    BY <1>3 DEF Submit, TypeOK
<1>4. CASE Wait
    <2>1. phase = "wait" /\ done' \subseteq pending /\ pending' = pending \ done'
        BY <1>4 DEF Wait
    <2>2. \A i \in done' : fut'[i] \in Finished
        BY <1>4 DEF Wait
    <2>3. QED
        BY <1>4, <2>1, <2>2 DEF Wait
<1>5. ASSUME NEW i \in Instances, Collect(i) PROVE WorkInOnePlace'
    BY <1>5 DEF Collect
<1>6. CASE CheckDeadlines
    BY <1>6 DEF CheckDeadlines
<1>7. ASSUME NEW i \in Instances, TimeOut(i) PROVE WorkInOnePlace'
    BY <1>7 DEF TimeOut, TypeOK
<1>8. CASE LoopAgain
    BY <1>8 DEF LoopAgain
<1>9. CASE Shutdown
    BY <1>9 DEF Shutdown, NextAttempt
<1>10. CASE Aggregate
    BY <1>10 DEF Aggregate
<1>11. CASE Stop
    BY <1>11 DEF Stop
<1>12. ASSUME NEW i \in Instances, Claim(i) PROVE WorkInOnePlace'
    BY <1>12 DEF Claim, TypeOK, Finished, WorkerOutcomes
<1>13. ASSUME NEW i \in Instances, WorkerStart(i) PROVE WorkInOnePlace'
    BY <1>13 DEF WorkerStart, TypeOK, Finished, WorkerOutcomes
<1>14. ASSUME NEW n \in Attempts, NEW i \in Instances, WorkerEnd(n, i) PROVE WorkInOnePlace'
    <2>1. fut' = fut \/ \E r \in Finished : fut' = [fut EXCEPT ![i] = r]
        BY <1>14 DEF WorkerEnd, Finished
    <2>2. \A j \in done : fut'[j] \in Finished
        BY <2>1 DEF TypeOK
    <2>3. QED
        BY <1>14, <2>2 DEF WorkerEnd
<1>15. ASSUME NEW n \in Attempts, NEW i \in Instances, WorkerHang(n, i) PROVE WorkInOnePlace'
    BY <1>15 DEF WorkerHang
<1>16. CASE WorkerDies
    <2>1. \A j \in done : fut'[j] \in Finished
        BY <1>16 DEF WorkerDies, TypeOK, Finished
    <2>2. QED
        BY <1>16, <2>1 DEF WorkerDies
<1>17. ASSUME NEW i \in Instances, Expire(i) PROVE WorkInOnePlace'
    BY <1>17 DEF Expire
<1>18. CASE UNCHANGED vars
    BY <1>18 DEF vars
<1>19. QED
    BY <1>1, <1>2, <1>3, <1>4, <1>5, <1>6, <1>7, <1>8, <1>9, <1>10, <1>11, <1>12, <1>13,
       <1>14, <1>15, <1>16, <1>17, <1>18
       DEF Next, MainStep, WorkerStep, FaultStep, Over, Interrupt, SubmitRaises, Crash

-----------------------------------------------------------------------------
(* Recording is what the attempt's files allow.                            *)

\* What an action must do to the work and to the files to keep the promises about
\* the files: either no line is added and no work of the same attempt appears, or
\* one owed instance gets its line and is owed no more.
LEMMA RecordStep ==
    ASSUME IInv, NEW i \in Owed, NEW o \in Outcomes, Appending(i, o),
           \/ attempt' = attempt /\ Owed' = Owed \ {i}
           \/ Owed' = {}
    PROVE  OwedIsEligible' /\ OneLinePerAttempt' /\ RetriesOnlyRefused'
<1> USE DEF Attempts
<1>0. TypeOK /\ OwedIsEligible /\ OneLinePerAttempt /\ RetriesOnlyRefused
      /\ UnfinishedLines /\ CutByFault
    BY DEF IInv
<1>1. i \in Instances /\ attempt \in Attempts /\ Owed \subseteq Instances
    BY <1>0 DEF Owed, TypeOK
<1>2. file[attempt][i] = <<>>
    BY <1>0 DEF OwedIsEligible
<1>3. \/ file' = file /\ bare' = bare
      \/ Added(i, o)
      \/ \E j \in Instances : LostOne(j)
    BY <1>0, <1>1, <1>2, AppendEffect
<1>4. (cut => cut') /\ ~(cut' = FALSE /\ torn[attempt])
    <2>1. (cut => cut')
        BY <1>0, <1>1, <1>2, AppendEffect
    <2>2. QED
        BY <1>0, <1>1, <2>1 DEF UnfinishedLines
<1>5. \A m \in Attempts, j \in Instances :
         \/ file'[m][j] = file[m][j]
         \/ m = attempt /\ j = i /\ file'[m][j] = <<o>>
         \/ m = attempt /\ file'[m][j] = <<>> /\ file[m][j] # <<>> /\ torn[attempt]
    <2>1. CASE Added(i, o)
        BY <1>0, <1>1, <2>1 DEF Added, TypeOK
    <2>2. ASSUME NEW j \in Instances, LostOne(j)
          PROVE  \A m \in Attempts, k \in Instances :
                    \/ file'[m][k] = file[m][k]
                    \/ m = attempt /\ file'[m][k] = <<>> /\ file[m][k] # <<>> /\ torn[attempt]
        <3>1. file[attempt][j] # <<>> /\ torn[attempt]
            BY <1>0, <1>1, <2>2 DEF LostOne, UnfinishedLines
        <3>2. QED
            BY <1>0, <1>1, <2>2, <3>1 DEF LostOne, TypeOK
    <2>3. QED
        BY <1>3, <2>1, <2>2
<1>6. \A j \in Instances : file'[attempt][j] = <<>> \/ file'[attempt][j] = file[attempt][j]
                              \/ j = i
    BY <1>1, <1>5
<1>7. attempt > 1 => \A j \in Instances : file'[attempt - 1][j] = file[attempt - 1][j]
    BY <1>1, <1>5
<1>8. OwedIsEligible'
    <2>1. CASE Owed' = {}
        BY <2>1 DEF OwedIsEligible
    <2>2. CASE attempt' = attempt /\ Owed' = Owed \ {i}
        <3> SUFFICES ASSUME NEW j \in Owed, j # i
                     PROVE  /\ file'[attempt][j] = <<>>
                            /\ attempt > 1 => j \in get_failed_instances(attempt - 1)'
            BY <2>2 DEF OwedIsEligible
        <3>1. file'[attempt][j] = <<>>
            BY <1>0, <1>1, <1>6 DEF OwedIsEligible
        <3>2. attempt > 1 => j \in get_failed_instances(attempt - 1)'
            BY <1>0, <1>1, <1>7, <2>2 DEF OwedIsEligible, get_failed_instances
        <3>3. QED
            BY <3>1, <3>2
    <2>3. QED
        BY <2>1, <2>2
<1>9. OneLinePerAttempt'
    <2> SUFFICES ASSUME NEW m \in Attempts, NEW j \in Instances PROVE Len(file'[m][j]) <= 1
        BY DEF OneLinePerAttempt
    <2>1. CASE file'[m][j] = file[m][j]
        BY <1>0, <2>1 DEF OneLinePerAttempt
    <2>2. CASE file'[m][j] = <<o>>
        BY <2>2
    <2>3. CASE file'[m][j] = <<>>
        BY <2>3
    <2>4. QED
        BY <1>5, <2>1, <2>2, <2>3
<1>10. RetriesOnlyRefused'
    <2> SUFFICES ASSUME ~cut', NEW m \in Attempts \ {1}, NEW j \in Instances,
                        file'[m][j] # <<>>
                 PROVE  \E k \in DOMAIN file'[m - 1][j] : file'[m - 1][j][k] \notin Accepted
        BY DEF RetriesOnlyRefused
    <2>1. m - 1 \in Attempts /\ ~cut /\ ~torn[attempt]
        BY <1>0, <1>1, <1>4 DEF UnfinishedLines
    <2>2. CASE file'[m][j] = file[m][j]
        <3>1. PICK k \in DOMAIN file[m - 1][j] : file[m - 1][j][k] \notin Accepted
            BY <1>0, <2>1, <2>2 DEF RetriesOnlyRefused
        <3>2. file'[m - 1][j] = file[m - 1][j]
            BY <1>2, <1>5, <2>1, <3>1
        <3>3. QED
            BY <3>1, <3>2
    <2>3. CASE m = attempt /\ j = i
        <3>1. i \in get_failed_instances(attempt - 1)
            BY <1>0, <2>3 DEF OwedIsEligible
        <3>2. QED
            BY <1>7, <2>3, <3>1 DEF get_failed_instances
    <2>4. QED
        BY <1>5, <2>1, <2>2, <2>3
<1>11. QED
    BY <1>8, <1>9, <1>10

LEMMA FilesStep ==
    IInv /\ [Next]_vars => OwedIsEligible' /\ OneLinePerAttempt' /\ RetriesOnlyRefused'
<1> SUFFICES ASSUME IInv, [Next]_vars
             PROVE  OwedIsEligible' /\ OneLinePerAttempt' /\ RetriesOnlyRefused'
    OBVIOUS
<1> DEFINE Goal == OwedIsEligible' /\ OneLinePerAttempt' /\ RetriesOnlyRefused'
<1>a. TypeOK /\ WorkInOnePlace /\ OwedIsEligible /\ OneLinePerAttempt /\ RetriesOnlyRefused
    BY DEF IInv
<1> USE <1>a
<1>0. ASSUME file' = file, cut' = cut, Owed' = {} PROVE Goal
    BY <1>0 DEF OwedIsEligible, OneLinePerAttempt, RetriesOnlyRefused
<1>1. ASSUME file' = file, cut' = cut, attempt' = attempt, Owed' \subseteq Owed PROVE Goal
    BY <1>1 DEF OwedIsEligible, OneLinePerAttempt, RetriesOnlyRefused, get_failed_instances
<1> USE DEF InTry, InLoop
<1>2. CASE Start
    <2>1. file' = file /\ cut' = cut /\ Owed' = {}
        BY <1>2 DEF Start, Owed, WorkInOnePlace, disk
    <2>2. QED
        BY <1>0, <2>1
<1>3. CASE Select
    <2>1. file' = file /\ cut' = cut /\ pending' = {} /\ done' = {} /\ todo = {}
        BY <1>3 DEF Select, WorkInOnePlace, disk
    <2>2. CASE todo' = {}
        BY <1>0, <2>1, <2>2 DEF Owed
    <2>3. CASE todo' # {}
        <3>1. attempt' = attempt /\ todo' = _get_instances_for_attempt(attempt)
            BY <1>3, <2>1, <2>3 DEF Select
        <3>2. \A i \in todo' : /\ file[attempt][i] = <<>>
                               /\ attempt # 1 => i \in get_failed_instances(attempt - 1)
            BY <3>1 DEF _get_instances_for_attempt, get_completed_instances, TypeOK
        <3>3. OwedIsEligible'
            BY <2>1, <3>1, <3>2 DEF OwedIsEligible, Owed, get_failed_instances, TypeOK, Attempts
        <3>4. QED
            BY <2>1, <3>3 DEF OneLinePerAttempt, RetriesOnlyRefused
    <2>4. QED
        BY <2>2, <2>3
<1>4. ASSUME NEW i \in Instances, Submit(i) PROVE Goal
    BY <1>1, <1>4 DEF Submit, Owed, disk
<1>5. CASE Wait
    <2>1. file' = file /\ cut' = cut /\ attempt' = attempt /\ todo' = todo
          /\ done' \subseteq pending /\ pending' \subseteq pending
        BY <1>5 DEF Wait, disk
    <2>2. QED
        BY <1>1, <2>1 DEF Owed
<1>6. ASSUME NEW i \in Instances, Collect(i) PROVE Goal
    <2>1. /\ attempt' = attempt /\ i \in Owed /\ Owed' \subseteq Owed
          /\ Owed' = Owed \ {i} /\ fut[i] \in Finished
        BY <1>6 DEF Collect, Owed, WorkInOnePlace
    <2>2. CASE fut[i] = "failed"
        BY <1>1, <1>6, <2>1, <2>2 DEF Collect, disk
    <2>3. CASE fut[i] # "failed"
        <3>1. Appending(i, fut[i]) /\ fut[i] \in Outcomes
            BY <1>6, <2>3, CollectAppends
        <3>2. QED
            BY <2>1, <3>1, RecordStep
    <2>4. QED
        BY <2>2, <2>3
<1>7. CASE CheckDeadlines
    BY <1>1, <1>7 DEF CheckDeadlines, Owed, disk
<1>8. ASSUME NEW i \in Instances, TimeOut(i) PROVE Goal
    <2>1. attempt' = attempt /\ i \in Owed /\ Owed' = Owed \ {i}
        BY <1>8 DEF TimeOut, Owed, WorkInOnePlace
    <2>2. Appending(i, "timeout")
        BY <1>8, TimeOutAppends
    <2>3. QED
        BY <2>1, <2>2, RecordStep, OutcomesAreOutcomes
<1>9. CASE LoopAgain
    BY <1>1, <1>9 DEF LoopAgain, Owed, disk
<1>10. CASE Shutdown
    <2>1. file' = file /\ cut' = cut /\ Owed' = {}
        BY <1>10 DEF Shutdown, Owed, WorkInOnePlace, disk
    <2>2. QED
        BY <1>0, <2>1
<1>11. CASE Aggregate
    BY <1>1, <1>11 DEF Aggregate, Owed
<1>12. ASSUME Stop, file' = file, cut' = cut PROVE Goal
    BY <1>0, <1>12 DEF Stop, Owed
<1>13. CASE Interrupt \/ SubmitRaises
    BY <1>12, <1>13 DEF Interrupt, SubmitRaises, disk
<1>19. CASE Crash
    <2>1. Stop /\ Owed' = {}
        BY <1>19, CrashAppends DEF Stop, Owed
    <2>2. ASSUME NEW i \in Owed, NEW o \in Outcomes, Appending(i, o) PROVE Goal
        BY <2>1, <2>2, RecordStep
    <2>3. QED
        BY <1>12, <1>19, <2>1, <2>2, CrashAppends
<1>14. CASE UNCHANGED <<main, disk>>
    BY <1>1, <1>14 DEF main, disk, Owed
<1>15. CASE WorkerStep \/ WorkerDies \/ \E n \in Attempts, i \in Instances : WorkerHang(n, i)
    BY <1>14, <1>15 DEF WorkerStep, Claim, WorkerStart, WorkerEnd, WorkerHang, WorkerDies
<1>16. ASSUME NEW i \in Instances, Expire(i) PROVE Goal
    BY <1>14, <1>16 DEF Expire
<1>17. CASE UNCHANGED vars
    BY <1>14, <1>17 DEF vars
<1>18. QED
    BY <1>2, <1>3, <1>4, <1>5, <1>6, <1>7, <1>8, <1>9, <1>10, <1>11, <1>13, <1>15, <1>16, <1>17,
       <1>19
       DEF Next, MainStep, FaultStep, Over

\* A file's unfinished line, if it has one, is one that was cut short.
LEMMA UnfinishedStep == IInv /\ [Next]_vars => UnfinishedLines' /\ CutByFault'
<1> SUFFICES ASSUME IInv, [Next]_vars PROVE UnfinishedLines' /\ CutByFault'
    OBVIOUS
<1>0. TypeOK /\ UnfinishedLines /\ CutByFault /\ OneLinePerAttempt
    BY DEF IInv
<1>1. ASSUME UNCHANGED <<file, torn, bare, cut>> PROVE UnfinishedLines' /\ CutByFault'
    BY <1>0, <1>1 DEF UnfinishedLines, CutByFault
<1>2. ASSUME NEW i \in Instances, NEW o \in Outcomes, file[attempt][i] = <<>>, Appending(i, o)
      PROVE  UnfinishedLines' /\ CutByFault'
    BY <1>0, <1>2, AppendKeeps
<1>3. ASSUME NEW i \in Instances, Collect(i) PROVE UnfinishedLines' /\ CutByFault'
    <2>1. CASE fut[i] = "failed"
        BY <1>1, <1>3, <2>1 DEF Collect, disk
    <2>2. QED
        BY <1>2, <1>3, <2>1, CollectAppends
<1>4. ASSUME NEW i \in Instances, TimeOut(i) PROVE UnfinishedLines' /\ CutByFault'
    BY <1>2, <1>4, TimeOutAppends
<1>5. CASE Crash
    BY <1>1, <1>2, <1>5, CrashAppends
<1>6. CASE \/ Start \/ Select \/ Wait \/ CheckDeadlines \/ LoopAgain \/ Shutdown \/ Aggregate
           \/ SubmitRaises \/ Interrupt \/ WorkerDies \/ WorkerStep \/ UNCHANGED vars
           \/ \E i \in Instances : Submit(i) \/ Expire(i)
           \/ \E n \in Attempts, i \in Instances : WorkerHang(n, i)
    BY <1>1, <1>6 DEF Start, Select, Wait, CheckDeadlines, LoopAgain, Shutdown, Aggregate,
       SubmitRaises, Interrupt, WorkerDies, WorkerHang, WorkerStep, Claim, WorkerStart,
       WorkerEnd, Submit, Expire, vars, disk
<1>7. QED
    BY <1>3, <1>4, <1>5, <1>6 DEF Next, MainStep, FaultStep, Over

-----------------------------------------------------------------------------
(* The workers are those of the current attempt.                           *)

LEMMA WorkersStep ==
    TypeOK /\ WorkInOnePlace /\ WorkersAreRunning /\ [Next]_vars => WorkersAreRunning'
<1> SUFFICES ASSUME TypeOK, WorkInOnePlace, WorkersAreRunning, [Next]_vars
             PROVE  WorkersAreRunning'
    OBVIOUS
<1> USE DEF WorkersAreRunning, InTry, InLoop, NoFutures, pool
<1>0. Cardinality(exec) \in Nat
    BY FS_CardinalityType
<1>1. ASSUME exec' = {}, todo' = {}, fut' = NoFutures PROVE WorkersAreRunning'
    BY <1>1, FS_EmptySet
<1>2. CASE Start
    BY <1>2 DEF Start, main
<1>3. CASE Select
    BY <1>3 DEF Select, TypeOK, _get_instances_for_attempt
<1>4. ASSUME NEW i \in Instances, Submit(i) PROVE WorkersAreRunning'
    BY <1>4 DEF Submit, TypeOK
<1>5. CASE Wait
    BY <1>5 DEF Wait
<1>6. ASSUME NEW i \in Instances, Collect(i) PROVE WorkersAreRunning'
    BY <1>6 DEF Collect
<1>7. CASE CheckDeadlines \/ LoopAgain
    BY <1>7 DEF CheckDeadlines, LoopAgain
<1>8. ASSUME NEW i \in Instances, TimeOut(i) PROVE WorkersAreRunning'
    BY <1>8 DEF TimeOut, TypeOK
<1>9. CASE Shutdown
    <2>1. exec = {}
        BY <1>9 DEF Shutdown, TypeOK
    <2>2. exec' = {} /\ todo' = {} /\ fut' = NoFutures
        BY <1>9, <2>1 DEF Shutdown, WorkInOnePlace
    <2>3. QED
        BY <1>1, <2>2
<1>10. CASE Aggregate
    BY <1>10 DEF Aggregate
<1>11. CASE Stop
    BY <1>1, <1>11 DEF Stop
<1>12. ASSUME NEW i \in Instances, Claim(i) PROVE WorkersAreRunning'
    BY <1>12 DEF Claim, TypeOK, main
<1>13. ASSUME NEW i \in Instances, WorkerStart(i) PROVE WorkersAreRunning'
    <2>1. Busy = exec
        BY DEF Busy
    <2>2. <<attempt, i>> \notin exec
        BY <1>13 DEF WorkerStart
    <2>3. IsFiniteSet(exec') /\ Cardinality(exec') = Cardinality(exec) + 1
        BY <1>13, <2>2, FS_AddElement DEF WorkerStart
    <2>4. Cardinality(exec') <= NumWorkers
        BY <1>0, <1>13, <2>1, <2>3 DEF WorkerStart
    <2>5. \A p \in exec' : p[1] = attempt' /\ fut'[p[2]] = "running"
        BY <1>13 DEF WorkerStart, main, TypeOK
    <2>6. phase \in InTry /\ i \notin todo
        BY <1>13 DEF WorkerStart
    <2>7. QED
        BY <1>13, <2>3, <2>4, <2>5, <2>6 DEF WorkerStart, main, TypeOK
<1>14. ASSUME NEW n \in Attempts, NEW i \in Instances, WorkerEnd(n, i)
       PROVE  WorkersAreRunning'
    <2>1. <<n, i>> \in exec /\ exec' = exec \ {<<n, i>>} /\ n = attempt /\ fut[i] = "running"
        BY <1>14 DEF WorkerEnd
    <2>2. IsFiniteSet(exec') /\ Cardinality(exec') <= NumWorkers
        <3>1. /\ IsFiniteSet(exec \ {<<n, i>>})
              /\ Cardinality(exec \ {<<n, i>>}) = Cardinality(exec) - 1
            BY <2>1, FS_RemoveElement, ZenonT(40)
        <3>2. QED
            BY <1>0, <2>1, <3>1
    <2>3. \E r \in Finished : fut' = [fut EXCEPT ![i] = r]
        BY <1>14, <2>1 DEF WorkerEnd, Finished
    <2>4. \A p \in exec' : p[2] # i /\ p[2] \in Instances
        BY <2>1 DEF TypeOK
    <2>5. \A p \in exec' : p[1] = attempt /\ fut'[p[2]] = "running"
        BY <2>1, <2>3, <2>4 DEF TypeOK
    <2>6. phase \in InTry /\ i \notin todo
        BY <2>1
    <2>7. \A j \in todo : fut'[j] = "none"
        BY <2>3, <2>6 DEF TypeOK
    <2>8. QED
        BY <1>14, <2>2, <2>5, <2>6, <2>7 DEF WorkerEnd, main
<1>15. ASSUME NEW n \in Attempts, NEW i \in Instances, WorkerHang(n, i)
       PROVE  WorkersAreRunning'
    BY <1>15 DEF WorkerHang, main
<1>16. CASE WorkerDies
    <2>1. phase \in InTry
        BY <1>16 DEF WorkerDies
    <2>2. \A j \in todo : fut'[j] = "none"
        BY <1>16 DEF WorkerDies, TypeOK
    <2>3. QED
        BY <1>16, <2>1, <2>2, FS_EmptySet DEF WorkerDies, main
<1>17. ASSUME NEW i \in Instances, Expire(i) PROVE WorkersAreRunning'
    BY <1>17 DEF Expire, main
<1>18. CASE UNCHANGED vars
    BY <1>18 DEF vars, main
<1>19. QED
    BY <1>2, <1>3, <1>4, <1>5, <1>6, <1>7, <1>8, <1>9, <1>10, <1>11, <1>12, <1>13,
       <1>14, <1>15, <1>16, <1>17, <1>18
       DEF Next, MainStep, WorkerStep, FaultStep, Over, Interrupt, SubmitRaises, Crash

-----------------------------------------------------------------------------
(* The invariants.                                                         *)

LEMMA InitIInv == Init => IInv
<1> SUFFICES ASSUME Init PROVE IInv
    OBVIOUS
<1> USE DEF Init, NoFutures, Attempts
<1>1. TypeOK
    <2>1. <<>> \in Seq(Outcomes)
        OBVIOUS
    <2>2. file \in [Attempts -> [Instances -> Seq(Outcomes)]]
        BY <2>1
    <2>3. attempt \in Attempts /\ runs \in 0..MaxRuns /\ phase \in Phases
        BY DEF Phases
    <2>4. /\ torn \in [Attempts -> BOOLEAN] /\ bare \in [Attempts -> SUBSET Instances]
          /\ fut \in [Instances -> FutureStates]
        BY DEF FutureStates
    <2>5. QED
        BY <2>2, <2>3, <2>4 DEF TypeOK
<1>2. WorkInOnePlace /\ OwedIsEligible
    BY DEF WorkInOnePlace, OwedIsEligible, Owed, InLoop
<1>3. WorkersAreRunning
    BY FS_EmptySet DEF WorkersAreRunning
<1>4. OneLinePerAttempt /\ RetriesOnlyRefused /\ UnfinishedLines /\ CutByFault
    BY DEF OneLinePerAttempt, RetriesOnlyRefused, UnfinishedLines, CutByFault
<1>5. QED
    BY <1>1, <1>2, <1>3, <1>4 DEF IInv

\* Every reachable state satisfies IInv.
THEOREM Invariance == Spec => []IInv
<1>1. IInv /\ [Next]_vars => IInv'
    BY TypeStep, PlaceStep, FilesStep, UnfinishedStep, WorkersStep DEF IInv
<1>2. QED
    BY InitIInv, <1>1, PTL DEF Spec

\* Type correctness (the state of _run_iterative_mode, its pool and its files).
THEOREM TypeCorrect == Spec => []TypeOK
BY Invariance, PTL DEF IInv

\* An attempt file never holds two readable lines of one instance.
THEOREM OneLine == Spec => []OneLinePerAttempt
BY Invariance, PTL DEF IInv

\* As long as no append was cut short, only what the critic refused in attempt n - 1
\* is recorded in attempt n, whatever else happens.
THEOREM RetriesJustified == Spec => []RetriesOnlyRefused
BY Invariance, PTL DEF IInv

\* At most num_workers workers, and never two on one instance.
THEOREM WorkersStayBounded == Spec => []WorkersBounded
<1>1. IInv => WorkersBounded
    <2> SUFFICES ASSUME IInv PROVE WorkersBounded
        OBVIOUS
    <2>1. \A p \in exec : p = <<p[1], p[2]>> /\ p[1] = attempt
        BY DEF IInv, WorkersAreRunning, TypeOK
    <2>2. \A p, q \in exec : p[2] = q[2] => p = q
        BY <2>1
    <2>3. QED
        BY <2>2 DEF IInv, WorkersAreRunning, WorkersBounded
<1>2. QED
    BY Invariance, <1>1, PTL

-----------------------------------------------------------------------------
(* The attempt files implement the ledger.                                 *)

\* A step changes nothing readable, gives one owed instance its line, or loses the
\* unfinished line at the end of the attempt's file.
LEMMA FileChange ==
    ASSUME IInv, [Next]_vars
    PROVE  \/ file' = file /\ bare' = bare
           \/ \E i \in Owed, o \in Outcomes : Added(i, o)
           \/ \E j \in Instances : LostOne(j)
<1> DEFINE Goal == \/ file' = file /\ bare' = bare
                   \/ \E i \in Owed, o \in Outcomes : Added(i, o)
                   \/ \E j \in Instances : LostOne(j)
<1>0. TypeOK /\ UnfinishedLines /\ CutByFault /\ OneLinePerAttempt
    BY DEF IInv
<1>1. ASSUME NEW i \in Owed, i \in Instances, NEW o \in Outcomes, file[attempt][i] = <<>>,
             Appending(i, o)
      PROVE Goal
    BY <1>0, <1>1, AppendEffect
<1>2. ASSUME NEW i \in Instances, Collect(i) PROVE Goal
    <2>1. i \in Owed
        BY <1>2 DEF Collect, Owed
    <2>2. CASE fut[i] = "failed"
        BY <1>2, <2>2 DEF Collect, disk
    <2>3. QED
        BY <1>1, <1>2, <2>1, <2>2, CollectAppends
<1>3. ASSUME NEW i \in Instances, TimeOut(i) PROVE Goal
    <2>1. i \in Owed
        BY <1>3 DEF TimeOut, Owed, IInv, WorkInOnePlace
    <2>2. QED
        BY <1>1, <1>3, <2>1, TimeOutAppends
<1>4. CASE Crash
    BY <1>1, <1>4, CrashAppends
<1>5. CASE \/ Start \/ Select \/ Wait \/ CheckDeadlines \/ LoopAgain \/ Shutdown \/ Aggregate
           \/ SubmitRaises \/ Interrupt \/ WorkerDies \/ WorkerStep \/ UNCHANGED vars
           \/ \E i \in Instances : Submit(i) \/ Expire(i)
           \/ \E n \in Attempts, i \in Instances : WorkerHang(n, i)
    BY <1>5 DEF Start, Select, Wait, CheckDeadlines, LoopAgain, Shutdown, Aggregate,
       SubmitRaises, Interrupt, WorkerDies, WorkerHang, WorkerStep, Claim, WorkerStart,
       WorkerEnd, Submit, Expire, vars, disk
<1>6. QED
    BY <1>2, <1>3, <1>4, <1>5 DEF Next, MainStep, FaultStep, Over

LEMMA NestedUpdate ==
    ASSUME NEW A, NEW B, NEW f, f = [n \in A |-> [j \in B |-> f[n][j]]],
           NEW a \in A, NEW b \in B, NEW x
    PROVE  [f EXCEPT ![a][b] = x]
           = [n \in A |-> [j \in B |-> IF n = a /\ j = b THEN x ELSE f[n][j]]]
<1> DEFINE g == [n \in A |-> [j \in B |-> IF n = a /\ j = b THEN x ELSE f[n][j]]]
           h == [f EXCEPT ![a][b] = x]
<1>1. \A n \in A : f[n] = [j \in B |-> f[n][j]]
    OBVIOUS
<1>2. DOMAIN f = A
    OBVIOUS
<1>3. h = [n \in A |-> IF n = a THEN [f[n] EXCEPT ![b] = x] ELSE f[n]]
    BY <1>2
<1>4. \A n \in A : h[n] = g[n]
    <2> TAKE n \in A
    <2>1. CASE n = a
        <3>1. h[n] = [f[n] EXCEPT ![b] = x]
            BY <1>3, <2>1
        <3>2. g[n] = [j \in B |-> IF j = b THEN x ELSE f[n][j]]
            BY <2>1
        <3>3. DOMAIN f[n] = B
            BY <1>1
        <3>4. QED
            BY <3>1, <3>2, <3>3
    <2>2. CASE n # a
        BY <1>1, <1>3, <2>2
    <2>3. QED
        BY <2>1, <2>2
<1>5. QED
    BY <1>3, <1>4

LEMMA SetOfLine ==
    /\ ToSet(<<>>) = {}
    /\ \A o : ToSet(<<o>>) = {o}
BY DEF ToSet

\* A line whose append ended stays; one that was cut before its newline stays until
\* the next append to its file, and no other line becomes such a one.
THEOREM LinesAreKept == Spec => LinesStay
<1> DEFINE Stays(n, i) ==
              /\ \/ IsPrefix(file[n][i], file'[n][i])
                 \/ i \in bare[n] /\ file'[n][i] = Front(file[n][i])
              /\ i \in bare'[n] => i \in bare[n] \/ file'[n][i] # file[n][i]
<1>1. IInv /\ [Next]_vars => \A n \in Attempts, i \in Instances : Stays(n, i)
    <2> SUFFICES ASSUME IInv, [Next]_vars, NEW n \in Attempts, NEW i \in Instances
                 PROVE  Stays(n, i)
        OBVIOUS
    <2>1. /\ file[n][i] \in Seq(Outcomes) /\ Len(file[n][i]) <= 1
          /\ file \in [Attempts -> [Instances -> Seq(Outcomes)]]
          /\ bare \in [Attempts -> SUBSET Instances]
        BY DEF IInv, TypeOK, OneLinePerAttempt
    <2>2. file'[n][i] = file[n][i] => IsPrefix(file[n][i], file'[n][i])
        BY <2>1 DEF IsPrefix
    <2>3. CASE file' = file /\ bare' = bare
        BY <2>2, <2>3
    <2>4. ASSUME NEW j \in Owed, NEW o \in Outcomes, Added(j, o) PROVE Stays(n, i)
        <3>1. CASE n = attempt /\ i = j
            <4>1. file[n][i] = <<>>
                BY <3>1 DEF IInv, OwedIsEligible
            <4>2. file'[n][i] = <<o>>
                BY <2>1, <2>4, <3>1 DEF Added
            <4>3. IsPrefix(file[n][i], file'[n][i]) /\ file'[n][i] # file[n][i]
                BY <4>1, <4>2 DEF IsPrefix
            <4>4. QED
                BY <4>3
        <3>2. CASE ~(n = attempt /\ i = j)
            <4>1. file'[n][i] = file[n][i]
                BY <2>1, <2>4, <3>2 DEF Added
            <4>2. i \in bare'[n] => i \in bare[n]
                BY <2>1, <2>4, <3>2 DEF Added
            <4>3. QED
                BY <2>2, <4>1, <4>2
        <3>3. QED
            BY <3>1, <3>2
    <2>5. ASSUME NEW j \in Instances, LostOne(j) PROVE Stays(n, i)
        <3>1. i \in bare'[n] => i \in bare[n]
            BY <2>1, <2>5 DEF LostOne
        <3>2. CASE n = attempt /\ i = j
            <4>1. i \in bare[n] /\ file'[n][i] = <<>>
                BY <2>1, <2>5, <3>2 DEF LostOne
            <4>2. Front(file[n][i]) = <<>>
                BY <2>1, FrontOfOne
            <4>3. QED
                BY <3>1, <4>1, <4>2
        <3>3. CASE ~(n = attempt /\ i = j)
            <4>1. file'[n][i] = file[n][i]
                BY <2>1, <2>5, <3>3 DEF LostOne
            <4>2. QED
                BY <2>2, <3>1, <4>1
        <3>4. QED
            BY <3>2, <3>3
    <2>6. QED
        BY <2>3, <2>4, <2>5, FileChange
<1>2. QED
    BY Invariance, <1>1, PTL DEF Spec, LinesStay

Entries == [n \in Attempts |-> [j \in Instances |-> ToSet(file[n][j])]]

\* The ledger after the entry of i for the attempt was set to S.
LEMMA LedgerUpdate ==
    ASSUME TypeOK, NEW i \in Instances, NEW s, file' = [file EXCEPT ![attempt][i] = s],
           NEW S, ToSet(s) = S
    PROVE  Entries' = [Entries EXCEPT ![attempt][i] = S]
<1> DEFINE L == [n \in Attempts |-> [j \in Instances |-> ToSet(file[n][j])]]
           g == [n \in Attempts |-> [j \in Instances |->
                    IF n = attempt /\ j = i THEN S ELSE L[n][j]]]
<1>1. \A n \in Attempts, j \in Instances :
         ToSet(file'[n][j]) = IF n = attempt /\ j = i THEN S ELSE L[n][j]
    BY DEF TypeOK
<1>2. \A n \in Attempts :
         [j \in Instances |-> ToSet(file'[n][j])]
         = [j \in Instances |-> IF n = attempt /\ j = i THEN S ELSE L[n][j]]
    BY <1>1
<1>3. L' = [n \in Attempts |-> [j \in Instances |-> ToSet(file'[n][j])]]
    OBVIOUS
<1>4. L' = g
    BY <1>2, <1>3
<1>5. L = [n \in Attempts |-> [j \in Instances |-> L[n][j]]]
    OBVIOUS
<1>6. attempt \in Attempts
    BY DEF TypeOK
<1> HIDE DEF L
<1>7. L' = [L EXCEPT ![attempt][i] = S]
    BY <1>4, <1>5, <1>6, NestedUpdate
<1>8. QED
    BY <1>7 DEF L, Entries

\* The attempt files, read as sets of outcomes, behave as the ledger: each step of the
\* orchestrator is one entry the ledger allows, the loss of an unclosed one, or none.
THEOREM FilesImplementLedger == Spec => LedgerSpec
<1> DEFINE L == [n \in Attempts |-> [i \in Instances |-> ToSet(file[n][i])]]
           U == {p \in Attempts \X Instances : p[2] \in bare[p[1]]}
<1>1. Init => Ledger!Init
    BY SetOfLine DEF Init, Ledger!Init, Ledger!Attempts, Attempts
<1>2. IInv /\ [Next]_vars => [Ledger!Next]_<<L, U>>
    <2> SUFFICES ASSUME IInv, [Next]_vars PROVE Ledger!Next \/ (L' = L /\ U' = U)
        OBVIOUS
    <2>0. /\ attempt \in Attempts /\ TypeOK /\ Owed \subseteq Instances
          /\ bare \in [Attempts -> SUBSET Instances]
        BY DEF IInv, TypeOK, Owed
    <2>1. CASE file' = file /\ bare' = bare
        BY <2>1
    <2>2. ASSUME NEW i \in Owed, NEW o \in Outcomes, Added(i, o) PROVE Ledger!Next
        <3>1. i \in Instances
            BY <2>0
        <3>2. L[attempt][i] = {}
            BY <2>0, <3>1, SetOfLine DEF IInv, OwedIsEligible
        <3>3. attempt > 1 => L[attempt - 1][i] # {} /\ L[attempt - 1][i] \cap Accepted = {}
            <4> SUFFICES ASSUME attempt > 1
                         PROVE  L[attempt - 1][i] # {} /\ L[attempt - 1][i] \cap Accepted = {}
                OBVIOUS
            <4>1. attempt - 1 \in Attempts
                BY <2>0 DEF Attempts
            <4>2. PICK k \in DOMAIN file[attempt - 1][i] : file[attempt - 1][i][k] \notin Accepted
                BY DEF IInv, OwedIsEligible, get_failed_instances
            <4>3. file[attempt - 1][i] \in Seq(Outcomes) /\ Len(file[attempt - 1][i]) <= 1
                BY <3>1, <4>1 DEF IInv, TypeOK, OneLinePerAttempt
            <4>4. ToSet(file[attempt - 1][i]) = {file[attempt - 1][i][k]}
                BY <4>2, <4>3 DEF ToSet
            <4>5. QED
                BY <3>1, <4>1, <4>2, <4>4
        <3>4. L' = [L EXCEPT ![attempt][i] = {o}]
            <4>1. file' = [file EXCEPT ![attempt][i] = <<o>>] /\ ToSet(<<o>>) = {o}
                BY <2>2, SetOfLine DEF Added
            <4>2. Entries' = [Entries EXCEPT ![attempt][i] = {o}]
                BY <2>0, <3>1, <4>1, LedgerUpdate
            <4>3. QED
                BY <4>2 DEF Entries
        <3>5. bare[attempt] = {}
            BY <2>0, <2>2 DEF IInv, UnfinishedLines, Added
        <3>6. \A j \in Instances : <<attempt, j>> \notin U
            BY <3>5
        <3>7. \/ U' = U
              \/ Faults \cap {"write", "tear"} # {} /\ U' = U \cup {<<attempt, i>>}
            <4>1. CASE bare' = bare
                BY <4>1
            <4>2. CASE bare' = [bare EXCEPT ![attempt] = {i}] /\ cut'
                <5>1. Faults \cap {"write", "tear"} # {}
                    BY <4>2, UnfinishedStep DEF CutByFault
                <5>2. \A n \in Attempts : bare'[n] = IF n = attempt THEN {i} ELSE bare[n]
                    BY <2>0, <4>2
                <5>3. \A p \in Attempts \X Instances :
                         p[2] \in bare'[p[1]] <=> p[2] \in bare[p[1]] \/ p = <<attempt, i>>
                    BY <2>0, <3>5, <5>2
                <5>4. U' = U \cup {<<attempt, i>>}
                    BY <2>0, <3>1, <5>3
                <5>5. QED
                    BY <5>1, <5>4
            <4>3. QED
                BY <2>2, <4>1, <4>2 DEF Added
        <3>8. Ledger!Enter(attempt, i, o)
            <4>1. Ledger!Open(attempt, i)
                BY <3>2, <3>3, <3>6 DEF Ledger!Open
            <4>2. QED
                BY <3>4, <3>7, <4>1, Zenon DEF Ledger!Enter
        <3>9. QED
            BY <2>0, <3>1, <3>8 DEF Ledger!Next, Ledger!Attempts, Attempts
    <2>3. ASSUME NEW j \in Instances, LostOne(j) PROVE Ledger!Next
        <3>1. <<attempt, j>> \in U
            BY <2>0, <2>3 DEF LostOne
        <3>2. L' = [L EXCEPT ![attempt][j] = {}]
            <4>1. file' = [file EXCEPT ![attempt][j] = <<>>] /\ ToSet(<<>>) = {}
                BY <2>3, SetOfLine DEF LostOne
            <4>2. Entries' = [Entries EXCEPT ![attempt][j] = {}]
                BY <2>0, <4>1, LedgerUpdate
            <4>3. QED
                BY <4>2 DEF Entries
        <3>3. U' = U \ {<<attempt, j>>}
            <4>1. \A n \in Attempts : bare'[n] = IF n = attempt THEN {} ELSE bare[n]
                BY <2>0, <2>3 DEF LostOne
            <4>2. \A p \in Attempts \X Instances :
                     p[2] \in bare'[p[1]] <=> p[2] \in bare[p[1]] /\ p # <<attempt, j>>
                BY <2>0, <2>3, <4>1 DEF LostOne
            <4>3. QED
                BY <4>2
        <3>4. Ledger!Lose(attempt, j)
            BY <3>1, <3>2, <3>3, Zenon DEF Ledger!Lose
        <3>5. QED
            BY <2>0, <3>4 DEF Ledger!Next, Ledger!Attempts, Attempts
    <2>4. QED
        BY <2>1, <2>2, <2>3, FileChange
<1>3. QED
    BY Invariance, <1>1, <1>2, PTL DEF Spec, LedgerSpec, Ledger!Spec, Ledger!ledgerVars

-----------------------------------------------------------------------------
(* Nothing is given up silently where nothing is lost.                     *)

LEMMA NonEmpty ==
    ASSUME NEW T, NEW s \in Seq(T)
    PROVE  /\ s # <<>> => \E k \in DOMAIN s : TRUE
           /\ \A x \in T : Append(s, x) # <<>>
<1>1. s # <<>> => 1 \in DOMAIN s
    BY SMT
<1>2. ASSUME NEW x \in T PROVE Append(s, x) # <<>>
    BY AppendProperties
<1>3. QED
    BY <1>1, <1>2, Zenon

\* Where no append was cut short, a line is written.
LEMMA AppendWrites ==
    ASSUME IInv, ~cut', NEW i \in Instances, NEW o \in Outcomes, Appending(i, o)
    PROVE  file' = [file EXCEPT ![attempt][i] = Append(@, o)]
<1>1. ~CutShort(attempt, i, o)
    BY DEF CutShort
<1>2. ~cut
    BY <1>1 DEF Appending, AppendLine
<1>3. ~torn[attempt]
    BY <1>2 DEF IInv, UnfinishedLines, TypeOK
<1>4. QED
    BY <1>1, <1>3 DEF Appending, AppendLine

\* No future fails and no pool breaks where no worker raises and none dies.
LEMMA NothingFailedStep ==
    ASSUME Lossless, IInv, NothingFailed, [Next]_vars PROVE NothingFailed'
<1> USE DEF NothingFailed
<1>1. TypeOK /\ WorkInOnePlace
    BY DEF IInv
<1>2. ASSUME UNCHANGED <<fut, broken>> PROVE NothingFailed'
    BY <1>2
<1>3. ASSUME Stop PROVE NothingFailed'
    BY <1>3 DEF Stop, NoFutures
<1>4. ASSUME NEW i \in Instances, NEW f \in FutureStates \ {"failed"},
             fut' = [fut EXCEPT ![i] = f], UNCHANGED broken
      PROVE  NothingFailed'
    BY <1>1, <1>4 DEF TypeOK
<1>5. CASE \/ Start \/ Select \/ Wait \/ CheckDeadlines \/ LoopAgain \/ Aggregate
           \/ \E i \in Instances : Collect(i) \/ Expire(i)
           \/ \E n \in Attempts, i \in Instances : WorkerHang(n, i)
           \/ UNCHANGED vars
    BY <1>2, <1>5 DEF Start, Select, Wait, CheckDeadlines, LoopAgain, Aggregate, Collect,
       Expire, WorkerHang, vars, pool
<1>6. ASSUME NEW i \in Instances, Submit(i) PROVE NothingFailed'
    BY <1>4, <1>6 DEF Submit, FutureStates
<1>7. ASSUME NEW i \in Instances, TimeOut(i) PROVE NothingFailed'
    BY <1>1, <1>7 DEF TimeOut, TypeOK
<1>8. CASE Shutdown
    BY <1>8 DEF Shutdown, NoFutures
<1>9. CASE Interrupt \/ SubmitRaises \/ Crash
    BY <1>3, <1>9 DEF Interrupt, SubmitRaises, Crash
<1>10. ASSUME NEW i \in Instances, Claim(i) \/ WorkerStart(i) PROVE NothingFailed'
    BY <1>4, <1>10 DEF Claim, WorkerStart, FutureStates
<1>11. ASSUME NEW n \in Attempts, NEW i \in Instances, WorkerEnd(n, i) PROVE NothingFailed'
    <2>1. fut' = fut \/ \E r \in WorkerOutcomes : fut' = [fut EXCEPT ![i] = r]
        BY <1>11 DEF WorkerEnd, Lossless
    <2>2. WorkerOutcomes \subseteq FutureStates \ {"failed"}
        BY DEF FutureStates, WorkerOutcomes
    <2>3. UNCHANGED broken
        BY <1>11 DEF WorkerEnd
    <2>4. QED
        BY <1>2, <1>4, <2>1, <2>2, <2>3
<1>12. CASE WorkerDies
    BY <1>12 DEF WorkerDies, Lossless
<1>13. QED
    BY <1>5, <1>6, <1>7, <1>8, <1>9, <1>10, <1>11, <1>12
       DEF Next, MainStep, WorkerStep, FaultStep, Over

\* Once an append was cut short it stays so, and until then no line is lost.
LEMMA CutStays == ASSUME IInv, [Next]_vars, ~cut' PROVE ~cut
<1>1. ASSUME UNCHANGED cut PROVE ~cut
    BY <1>1
<1>2. ASSUME NEW i \in Instances, NEW o \in Outcomes, file[attempt][i] = <<>>, Appending(i, o)
      PROVE  ~cut
    BY <1>2, AppendEffect DEF IInv
<1>3. ASSUME NEW i \in Instances, Collect(i) PROVE ~cut
    <2>1. CASE fut[i] = "failed"
        BY <1>1, <1>3, <2>1 DEF Collect, disk
    <2>2. QED
        BY <1>2, <1>3, <2>1, CollectAppends
<1>4. ASSUME NEW i \in Instances, TimeOut(i) PROVE ~cut
    BY <1>2, <1>4, TimeOutAppends
<1>5. CASE Crash
    BY <1>1, <1>2, <1>5, CrashAppends
<1>6. CASE \/ Start \/ Select \/ Wait \/ CheckDeadlines \/ LoopAgain \/ Shutdown \/ Aggregate
           \/ SubmitRaises \/ Interrupt \/ WorkerDies \/ WorkerStep \/ UNCHANGED vars
           \/ \E i \in Instances : Submit(i) \/ Expire(i)
           \/ \E n \in Attempts, i \in Instances : WorkerHang(n, i)
    BY <1>1, <1>6 DEF Start, Select, Wait, CheckDeadlines, LoopAgain, Shutdown, Aggregate,
       SubmitRaises, Interrupt, WorkerDies, WorkerHang, WorkerStep, Claim, WorkerStart,
       WorkerEnd, Submit, Expire, vars, disk
<1>7. QED
    BY <1>3, <1>4, <1>5, <1>6 DEF Next, MainStep, FaultStep, Over

\* What is settled stays settled as long as no append is cut short.
LEMMA SettledStays ==
    ASSUME IInv, [Next]_vars, ~cut',
           NEW i \in Instances, NEW n \in 0..MaxAttempts, Settled(i, n)
    PROVE  Settled(i, n)'
<1>0. \A m \in Attempts : bare[m] = {}
    BY CutStays DEF IInv, UnfinishedLines
<1>1. \A m \in Attempts : file[m][i] # <<>> => file'[m][i] = file[m][i]
    <2>1. CASE file' = file
        BY <2>1
    <2>2. ASSUME NEW j \in Owed, NEW o \in Outcomes, Added(j, o)
          PROVE  \A m \in Attempts : file[m][i] # <<>> => file'[m][i] = file[m][i]
        BY <2>2 DEF IInv, TypeOK, OwedIsEligible, Added
    <2>3. ~\E j \in Instances : LostOne(j)
        BY <1>0 DEF LostOne, IInv, TypeOK
    <2>4. QED
        BY <2>1, <2>2, <2>3, FileChange
<1>2. \A m \in Attempts : file[m][i] \in Seq(Outcomes)
    BY DEF IInv, TypeOK
<1>3. \A m \in Attempts : (\E k \in DOMAIN file[m][i] : TRUE) => file[m][i] # <<>>
    BY <1>2
<1>4. 1..n \subseteq Attempts
    BY DEF Attempts
<1>5. QED
    BY <1>1, <1>3, <1>4 DEF Settled

\* The attempt takes every selected instance that is not settled in it.
LEMMA TakenOrSettled ==
    ASSUME IInv, NEW i \in sel, Settled(i, attempt - 1),
           i \notin _get_instances_for_attempt(attempt)
    PROVE  Settled(i, attempt)
<1>1. i \in Instances /\ attempt \in Attempts /\ attempt \in Nat /\ attempt >= 1
    BY DEF IInv, TypeOK, Attempts
<1>2. CASE file[attempt][i] # <<>>
    BY <1>1, <1>2 DEF Settled
<1>3. CASE file[attempt][i] = <<>>
    <2>1. attempt # 1 /\ i \notin get_failed_instances(attempt - 1)
        BY <1>1, <1>3 DEF _get_instances_for_attempt, get_completed_instances
    <2>2. attempt - 1 \in Attempts /\ attempt - 1 \in 1..(attempt - 1)
        BY <1>1, <2>1 DEF Attempts
    <2>3. \A k \in DOMAIN file[attempt - 1][i] : file[attempt - 1][i][k] \in Accepted
        BY <1>1, <2>1 DEF get_failed_instances
    <2>4. file[attempt - 1][i] # <<>> => \E k \in DOMAIN file[attempt - 1][i] : TRUE
        <3>1. file[attempt - 1][i] \in Seq(Outcomes)
            BY <1>1, <2>2 DEF IInv, TypeOK
        <3>2. QED
            BY <3>1, NonEmpty
    <2>5. CASE file[attempt - 1][i] # <<>>
        <3>1. \E k \in DOMAIN file[attempt - 1][i] : file[attempt - 1][i][k] \in Accepted
            BY <2>3, <2>4, <2>5
        <3>2. QED
            BY <2>2, <3>1, Zenon DEF Settled
    <2>6. CASE file[attempt - 1][i] = <<>>
        <3>1. \E m \in Attempts : \E k \in DOMAIN file[m][i] : file[m][i][k] \in Accepted
            BY <2>2, <2>6, Zenon DEF Settled
        <3>2. QED
            BY <3>1, Zenon DEF Settled
    <2>7. QED
        BY <2>5, <2>6
<1>4. QED
    BY <1>2, <1>3

\* Recording an owed instance settles it in the attempt.
LEMMA RecordedIsSettled ==
    ASSUME IInv, [Next]_vars, ~cut', attempt' = attempt,
           NEW i \in Instances, NEW o \in Outcomes,
           Settled(i, attempt - 1), Appending(i, o)
    PROVE  Settled(i, attempt)'
<1>1. attempt \in Attempts /\ attempt \in 0..MaxAttempts /\ TypeOK
    BY SMTT(40) DEF IInv, TypeOK, Attempts
<1>2. CASE \A m \in 1..(attempt - 1) : file[m][i] # <<>>
    <2>1. file' = [file EXCEPT ![attempt][i] = Append(@, o)]
        BY AppendWrites
    <2>2. file'[attempt][i] # <<>>
        <3>1. file[attempt][i] \in Seq(Outcomes)
            BY <1>1 DEF TypeOK
        <3>2. file'[attempt][i] = Append(file[attempt][i], o)
            BY <1>1, <2>1 DEF TypeOK
        <3>3. QED
            BY <3>1, <3>2, NonEmpty
    <2>3. \A m \in 1..(attempt - 1) : file'[m][i] = file[m][i]
        BY <1>1, <2>1 DEF TypeOK, Attempts
    <2>4. \A m \in 1..attempt : m = attempt \/ m \in 1..(attempt - 1)
        BY <1>1
    <2>5. \A m \in 1..attempt : file'[m][i] # <<>>
        BY <1>2, <2>2, <2>3, <2>4
    <2>6. QED
        BY <2>5 DEF Settled
<1>3. CASE \E m \in Attempts : \E k \in DOMAIN file[m][i] : file[m][i][k] \in Accepted
    <2>1. Settled(i, attempt)
        BY <1>3, Zenon DEF Settled
    <2>2. \A n \in 0..MaxAttempts : Settled(i, n) => Settled(i, n)'
        BY SettledStays
    <2>3. QED
        BY <1>1, <2>1, <2>2
<1>4. QED
    BY <1>2, <1>3, Zenon DEF Settled


LEMMA AttemptsSettleStep ==
    ASSUME IInv, NothingFailed, AttemptsSettle, [Next]_vars PROVE AttemptsSettle'
<1> USE DEF InTry, InLoop
<1>0. SUFFICES ASSUME ~cut' PROVE AttemptsSettle'
    BY DEF AttemptsSettle
<1>c. ~cut
    BY <1>0, CutStays
<1>1. /\ attempt \in 1..MaxAttempts /\ sel \subseteq Instances /\ Owed \subseteq Instances
      /\ attempt - 1 \in 0..MaxAttempts /\ attempt \in 0..MaxAttempts
      /\ MaxAttempts \in 0..MaxAttempts /\ TypeOK /\ WorkInOnePlace
    BY DEF IInv, TypeOK, Attempts, Owed
<1>2. \A i \in Instances, n \in 0..MaxAttempts : Settled(i, n) => Settled(i, n)'
    BY <1>0, SettledStays
<1>3. ASSUME phase' \in {"off", "stopped"} PROVE AttemptsSettle'
    BY <1>c, <1>3 DEF AttemptsSettle
<1>4. ASSUME attempt' = attempt, sel' = sel, phase \in InTry, phase' \in InTry,
             \A i \in (sel \ Owed') : Settled(i, attempt)'
      PROVE  AttemptsSettle'
    <2>1. \A i \in sel : Settled(i, attempt - 1)
        BY <1>c, <1>4 DEF AttemptsSettle
    <2>2. \A i \in sel : Settled(i, attempt - 1)'
        BY <1>1, <1>2, <1>4, <2>1
    <2>3. QED
        BY <1>c, <1>4, <2>2 DEF AttemptsSettle
<1>5. ASSUME attempt' = attempt, sel' = sel, phase \in InTry, phase' \in InTry, Owed' = Owed
      PROVE  AttemptsSettle'
    <2>1. \A i \in sel \ Owed : Settled(i, attempt)
        BY <1>c, <1>5 DEF AttemptsSettle
    <2>2. \A i \in sel \ Owed' : Settled(i, attempt)'
        BY <1>1, <1>2, <1>5, <2>1
    <2>3. QED
        BY <1>4, <1>5, <2>2
<1>6. ASSUME \A i \in sel : Settled(i, attempt), NextAttempt, sel' = sel
      PROVE  AttemptsSettle'
    <2>1. \A n \in 0..MaxAttempts : n = attempt => \A i \in sel : Settled(i, n)'
        BY <1>1, <1>2, <1>6
    <2>2. CASE phase' = "select" /\ attempt' = attempt + 1
        <3>1. attempt' - 1 = attempt
            BY <1>1, <2>2
        <3>2. \A i \in sel : Settled(i, attempt - 1)'
            BY <1>1, <2>1, <3>1
        <3>3. QED
            BY <1>c, <1>6, <2>2, <3>2 DEF AttemptsSettle
    <2>3. CASE phase' = "aggregate" /\ attempt = MaxAttempts
        <3>1. \A i \in sel : Settled(i, MaxAttempts)'
            BY <1>1, <2>1, <2>3
        <3>2. QED
            BY <1>c, <1>6, <2>3, <3>1 DEF AttemptsSettle
    <2>4. QED
        BY <1>1, <1>6, <2>2, <2>3 DEF NextAttempt
<1>7. ASSUME NEW i \in Owed, NEW o \in Outcomes, Appending(i, o),
             attempt' = attempt, sel' = sel, phase \in InTry, phase' \in InTry,
             Owed' = Owed \ {i}
      PROVE  AttemptsSettle'
    <2>1. \A j \in sel \ Owed : Settled(j, attempt)'
        BY <1>c, <1>1, <1>2, <1>7 DEF AttemptsSettle
    <2>2. i \in sel => Settled(i, attempt)'
        <3>1. i \in sel => Settled(i, attempt - 1)
            BY <1>c, <1>7 DEF AttemptsSettle
        <3>2. QED
            BY <1>0, <1>1, <1>7, <3>1, RecordedIsSettled
    <2>3. \A j \in sel \ Owed' : Settled(j, attempt)'
        BY <1>7, <2>1, <2>2
    <2>4. QED
        BY <1>4, <1>7, <2>3
<1>8. CASE Start
    <2>1. attempt' = 1 /\ (phase' = "select" \/ (phase' = "done" /\ sel' = {}))
        BY <1>8 DEF Start
    <2>2. \A i \in sel' : Settled(i, 0)'
        BY DEF Settled
    <2>3. attempt' - 1 = 0
        BY <2>1
    <2>4. QED
        BY <1>c, <2>1, <2>2, <2>3 DEF AttemptsSettle
<1>9. CASE Select
    <2>1. \A i \in sel : Settled(i, attempt - 1)
        BY <1>c, <1>9 DEF Select, AttemptsSettle
    <2>2. \A i \in sel \ _get_instances_for_attempt(attempt) : Settled(i, attempt)
        BY <2>1, TakenOrSettled
    <2>3. CASE _get_instances_for_attempt(attempt) = {} /\ NextAttempt
        BY <1>6, <1>9, <2>2, <2>3 DEF Select
    <2>4. CASE /\ todo' = _get_instances_for_attempt(attempt)
               /\ phase' = "submit" /\ UNCHANGED attempt
        <3>1. Owed' = _get_instances_for_attempt(attempt) /\ sel' = sel
            BY <1>1, <1>9, <2>4 DEF Select, Owed, WorkInOnePlace
        <3>2. \A i \in sel : Settled(i, attempt - 1)'
            BY <1>1, <1>2, <2>1, <2>4
        <3>3. \A i \in sel \ Owed' : Settled(i, attempt)'
            BY <1>1, <1>2, <2>2, <2>4, <3>1
        <3>4. QED
            BY <1>c, <2>4, <3>1, <3>2, <3>3 DEF AttemptsSettle
    <2>5. QED
        BY <1>9, <2>3, <2>4 DEF Select
<1>10. ASSUME NEW i \in Instances, Submit(i) PROVE AttemptsSettle'
    <2>1. Owed' = Owed
        BY <1>10 DEF Submit, Owed
    <2>2. QED
        BY <1>5, <1>10, <2>1 DEF Submit
<1>11. CASE Wait
    <2>1. Owed' = Owed
        BY <1>1, <1>11 DEF Wait, Owed, WorkInOnePlace
    <2>2. QED
        BY <1>5, <1>11, <2>1 DEF Wait
<1>12. ASSUME NEW i \in Instances, Collect(i) PROVE AttemptsSettle'
    <2>1. i \in Owed /\ fut[i] \in Outcomes /\ Appending(i, fut[i])
        BY <1>12, CollectAppends DEF Collect, NothingFailed, Owed
    <2>2. Owed' = Owed \ {i}
        BY <1>1, <1>12 DEF Collect, Owed, WorkInOnePlace
    <2>3. QED
        BY <1>7, <1>12, <2>1, <2>2 DEF Collect
<1>13. CASE CheckDeadlines
    <2>1. Owed' = Owed
        BY <1>13 DEF CheckDeadlines, Owed
    <2>2. QED
        BY <1>5, <1>13, <2>1 DEF CheckDeadlines
<1>14. ASSUME NEW i \in Instances, TimeOut(i) PROVE AttemptsSettle'
    <2>1. i \in Owed /\ Owed' = Owed \ {i}
        BY <1>1, <1>14 DEF TimeOut, Owed, WorkInOnePlace
    <2>2. Appending(i, "timeout")
        BY <1>14, TimeOutAppends
    <2>3. QED
        BY <1>7, <1>14, <2>1, <2>2, OutcomesAreOutcomes DEF TimeOut
<1>15. CASE LoopAgain
    <2>1. Owed' = Owed
        BY <1>15 DEF LoopAgain, Owed
    <2>2. QED
        BY <1>5, <1>15, <2>1 DEF LoopAgain
<1>16. CASE Shutdown
    <2>1. Owed = {}
        BY <1>1, <1>16 DEF Shutdown, Owed, WorkInOnePlace
    <2>2. \A i \in sel : Settled(i, attempt)
        BY <1>c, <1>16, <2>1 DEF Shutdown, AttemptsSettle
    <2>3. QED
        BY <1>6, <1>16, <2>2 DEF Shutdown
<1>17. CASE Aggregate
    <2>1. \A i \in sel : Settled(i, MaxAttempts)'
        BY <1>c, <1>1, <1>2, <1>17 DEF Aggregate, AttemptsSettle
    <2>2. QED
        BY <1>c, <1>17, <2>1 DEF Aggregate, AttemptsSettle
<1>18. CASE Interrupt \/ SubmitRaises \/ Crash
    BY <1>3, <1>18 DEF Interrupt, SubmitRaises, Crash, Stop
<1>19. CASE UNCHANGED <<main, file>>
    BY <1>c, <1>19 DEF main, AttemptsSettle, Settled, Owed
<1>20. CASE \/ WorkerStep \/ WorkerDies \/ UNCHANGED vars
            \/ \E n \in Attempts, i \in Instances : WorkerHang(n, i)
            \/ \E i \in Instances : Expire(i)
    BY <1>19, <1>20 DEF WorkerStep, Claim, WorkerStart, WorkerEnd, WorkerHang, WorkerDies, Expire,
       disk, vars
<1>21. QED
    BY <1>8, <1>9, <1>10, <1>11, <1>12, <1>13, <1>14, <1>15, <1>16, <1>17, <1>18, <1>20
       DEF Next, MainStep, FaultStep, Over

\* Where no worker raises, no pool breaks and no append was cut short, an instance of a
\* process that has ended is accepted or was tried in every attempt (evaluation.py:212).
THEOREM RetriedUnlessLost == Spec => [](Lossless => FailedAreRetried)
<1> DEFINE J == Lossless => NothingFailed /\ AttemptsSettle
<1>1. Init => J
    BY DEF Init, NothingFailed, AttemptsSettle, InTry, InLoop, NoFutures
<1>2. IInv /\ J /\ [Next]_vars => J'
    BY NothingFailedStep, AttemptsSettleStep DEF Lossless
<1>3. J => (Lossless => FailedAreRetried)
    <2> SUFFICES ASSUME AttemptsSettle, phase = "done", ~cut, NEW i \in sel
                 PROVE  \/ \E n \in Attempts : \E k \in DOMAIN file[n][i] : file[n][i][k] \in Accepted
                        \/ \A n \in Attempts : file[n][i] # <<>>
        BY DEF FailedAreRetried
    <2>1. Settled(i, MaxAttempts)
        BY DEF AttemptsSettle
    <2>2. QED
        BY <2>1, Zenon DEF Settled, Attempts
<1> HIDE DEF J
<1>4. QED
    BY Invariance, <1>1, <1>2, <1>3, PTL DEF Spec

-----------------------------------------------------------------------------
(* What is aggregated is the best of each instance.                        *)

\* A file with no line of i leaves the best as it was, one with one line compares it.
LEMMA ReadNothing ==
    ASSUME NEW i, NEW n, NEW best, file[n][i] = <<>>
    PROVE  ReadFile(i, n, best) = best
<1> DEFINE IsUp(f) == f = [j \in 0..0 |-> IF j = 0 THEN best
                                         ELSE Better(f[j - 1], <<i, n, file[n][i][j]>>)]
<1>1. Len(file[n][i]) = 0
    BY SMT
<1>2. ReadFile(i, n, best) = (CHOOSE f : IsUp(f))[0]
    BY <1>1, Zenon DEF ReadFile
<1>3. IsUp([j \in 0..0 |-> best])
    <2>1. \A j \in 0..0 : j = 0
        BY SMT
    <2>2. QED
        BY <2>1, Zenon
<1>4. \A f : IsUp(f) => f[0] = best
    <2>1. 0 \in 0..0
        BY SMT
    <2>2. QED
        BY <2>1, Zenon
<1> HIDE DEF IsUp
<1>5. QED
    BY <1>2, <1>3, <1>4, Zenon

LEMMA ReadOne ==
    ASSUME NEW i, NEW n, NEW best, NEW o, file[n][i] = <<o>>
    PROVE  ReadFile(i, n, best) = Better(best, <<i, n, o>>)
<1> DEFINE IsUp(f) == f = [j \in 0..1 |-> IF j = 0 THEN best
                                         ELSE Better(f[j - 1], <<i, n, file[n][i][j]>>)]
           g == [j \in 0..1 |-> IF j = 0 THEN best ELSE Better(best, <<i, n, o>>)]
<1>1. Len(file[n][i]) = 1 /\ file[n][i][1] = o
    BY SMT
<1>2. ReadFile(i, n, best) = (CHOOSE f : IsUp(f))[1]
    BY <1>1, Zenon DEF ReadFile
<1>3. 0 \in 0..1 /\ 1 \in 0..1 /\ 1 - 1 = 0 /\ 1 # 0 /\ \A j \in 0..1 : j = 0 \/ j = 1
    BY SMT
<1>4. IsUp(g)
    <2>1. g[0] = best
        BY <1>3, Zenon
    <2>2. \A j \in 0..1 : (IF j = 0 THEN best ELSE Better(best, <<i, n, o>>))
                        = IF j = 0 THEN best ELSE Better(g[j - 1], <<i, n, file[n][i][j]>>)
        <3> HIDE DEF g
        <3>1. QED
            BY <1>1, <1>3, <2>1, Zenon
    <2>3. QED
        BY <2>2, Zenon
<1>5. \A f : IsUp(f) => f[1] = Better(best, <<i, n, o>>)
    <2> SUFFICES ASSUME NEW f, IsUp(f) PROVE f[1] = Better(best, <<i, n, o>>)
        OBVIOUS
    <2>1. \A j \in 0..1 : f[j] = IF j = 0 THEN best
                                ELSE Better(f[j - 1], <<i, n, file[n][i][j]>>)
        BY Zenon
    <2>2. QED
        BY <1>1, <1>3, <2>1, Zenon
<1> HIDE DEF IsUp, g
<1>6. QED
    BY <1>2, <1>4, <1>5, Zenon

\* The recursive function that reads the files exists.
ReadBody(i, f, k) == IF k = 0 THEN <<>> ELSE ReadFile(i, MaxAttempts + 1 - k, f[k - 1])

IsRead(i, n, f) == f = [k \in 0..n |-> ReadBody(i, f, k)]

ReadUpto(i) == CHOOSE f : IsRead(i, MaxAttempts, f)

LEMMA BestIsRead == ASSUME NEW i PROVE BestOf(i) = ReadUpto(i)[MaxAttempts]
BY Zenon DEF BestOf, ReadUpto, IsRead, ReadBody

LEMMA ReadExists == ASSUME NEW i, NEW n \in Nat PROVE \E f : IsRead(i, n, f)
<1> DEFINE N == {k \in Nat : \E f : IsRead(i, k, f)}
<1>1. 0 \in N
    <2> DEFINE f == [k \in 0..0 |-> <<>>]
    <2>1. 0 \in Nat /\ \A k \in 0..0 : k = 0
        BY SMT
    <2>2. IsRead(i, 0, f)
        BY <2>1, Zenon DEF IsRead, ReadBody
    <2> HIDE DEF f
    <2>3. QED
        BY <2>1, <2>2, Zenon
<1>2. ASSUME NEW k \in N PROVE k + 1 \in N
    <2>1. PICK f : IsRead(i, k, f)
        BY DEF N
    <2>2. k \in Nat /\ k + 1 \in Nat
        BY SMT DEF N
    <2> DEFINE g == [m \in 0..(k + 1) |-> IF m = k + 1 THEN ReadBody(i, f, k + 1) ELSE f[m]]
    <2>3. \A m \in 0..k : f[m] = ReadBody(i, f, m)
        BY <2>1, Zenon DEF IsRead
    <2>4. /\ \A m \in 0..(k + 1) : m # 0 => m - 1 \in 0..(k + 1) /\ m - 1 # k + 1
          /\ \A m \in 0..(k + 1) : m # k + 1 => m \in 0..k
        BY <2>2, SMT
    <2>5. \A m \in 0..(k + 1) : m # 0 => g[m - 1] = f[m - 1]
        BY <2>4, Zenon
    <2>6. \A m \in 0..(k + 1) : ReadBody(i, g, m) = ReadBody(i, f, m)
        <3> HIDE DEF g
        <3>1. QED
            BY <2>5, Zenon DEF ReadBody
    <2>7. \A m \in 0..(k + 1) :
             (IF m = k + 1 THEN ReadBody(i, f, k + 1) ELSE f[m]) = ReadBody(i, g, m)
        <3> HIDE DEF g
        <3>1. QED
            BY <2>3, <2>4, <2>6, Zenon
    <2>8. IsRead(i, k + 1, g)
        BY <2>7, Zenon DEF IsRead
    <2>9. QED
        BY <2>2, <2>8, Zenon
<1> HIDE DEF N
<1>3. N = Nat
    <2>1. N \subseteq Nat
        BY DEF N
    <2>2. QED
        BY <1>1, <1>2, <2>1, NatSetInduction, Zenon
<1>4. QED
    BY <1>3 DEF N

\* n is the attempt whose line of i is the best of the last k files: none of them
\* has a line of a higher rank, and none after n one of the same rank.
RankAt(i, m) == _get_output_rank(file[m][i][1])

IsBestAmong(i, k, n) ==
    /\ n \in (MaxAttempts + 1 - k)..MaxAttempts /\ file[n][i] # <<>>
    /\ \A m \in (MaxAttempts + 1 - k)..MaxAttempts :
          file[m][i] # <<>> =>
            /\ RankAt(i, m) <= RankAt(i, n)
            /\ m > n => RankAt(i, m) < RankAt(i, n)

Holds(i, k, best) ==
    \/ best = <<>> /\ \A m \in (MaxAttempts + 1 - k)..MaxAttempts : file[m][i] = <<>>
    \/ \E n \in Attempts : IsBestAmong(i, k, n) /\ best = <<i, n, file[n][i][1]>>

LEMMA SingleLine ==
    ASSUME TypeOK, OneLinePerAttempt, NEW n \in Attempts, NEW i \in Instances,
           file[n][i] # <<>>
    PROVE  /\ file[n][i] = <<file[n][i][1]>> /\ file[n][i][1] \in Outcomes
           /\ DOMAIN file[n][i] = {1}
<1>1. file[n][i] \in Seq(Outcomes) /\ Len(file[n][i]) <= 1
    BY DEF TypeOK, OneLinePerAttempt
<1>2. QED
    BY <1>1, SMT

LEMMA RankIsNatural == \A o : _get_output_rank(o) \in 0..2
BY DEF _get_output_rank

\* Reading one more file keeps the best the best.
LEMMA ReadingHolds ==
    ASSUME TypeOK, OneLinePerAttempt, NEW i \in Instances, NEW k \in Nat, k + 1 <= MaxAttempts,
           NEW best, Holds(i, k, best)
    PROVE  Holds(i, k + 1, ReadFile(i, MaxAttempts - k, best))
<1> DEFINE a == MaxAttempts - k
           after == (a + 1)..MaxAttempts
<1>1. /\ a \in Attempts /\ a \in Nat /\ MaxAttempts + 1 - k = a + 1
      /\ MaxAttempts + 1 - (k + 1) = a
      /\ a..MaxAttempts = {a} \cup after /\ a \in a..MaxAttempts
      /\ after \subseteq Attempts /\ after \subseteq Nat /\ \A m \in after : m > a /\ m # a
    BY SMT DEF Attempts
<1> HIDE DEF a
<1>2. \A m \in after : RankAt(i, m) \in Nat /\ RankAt(i, a) \in Nat
    BY RankIsNatural, SMT DEF RankAt
<1>3. CASE file[a][i] = <<>>
    <2>1. ReadFile(i, a, best) = best
        BY <1>3, ReadNothing
    <2>2. ASSUME best = <<>>, \A m \in after : file[m][i] = <<>> PROVE Holds(i, k + 1, best)
        <3>1. \A m \in a..MaxAttempts : file[m][i] = <<>>
            BY <1>1, <1>3, <2>2, Zenon
        <3>2. QED
            BY <1>1, <2>2, <3>1, Zenon DEF Holds
    <2>3. ASSUME NEW n \in Attempts, IsBestAmong(i, k, n), best = <<i, n, file[n][i][1]>>
          PROVE  Holds(i, k + 1, best)
        <3>1. IsBestAmong(i, k + 1, n)
            BY <1>1, <1>3, <2>3, Zenon DEF IsBestAmong
        <3>2. QED
            BY <2>3, <3>1, Zenon DEF Holds
    <2>4. QED
        BY <1>1, <2>1, <2>2, <2>3, Zenon DEF Holds, a
<1>4. CASE file[a][i] # <<>>
    <2> DEFINE o == file[a][i][1]
               line == <<i, a, o>>
    <2>1. file[a][i] = <<o>> /\ o \in Outcomes
        BY <1>1, <1>4, SingleLine
    <2>2. ReadFile(i, a, best) = Better(best, line)
        BY <2>1, ReadOne
    <2>3. line # <<>> /\ line[3] = o
        BY SMT
    <2>4. ASSUME best = <<>>, \A m \in after : file[m][i] = <<>>
          PROVE  Holds(i, k + 1, Better(best, line))
        <3>1. Better(best, line) = line
            BY <2>4, Zenon DEF Better
        <3>2. IsBestAmong(i, k + 1, a)
            <4>1. RankAt(i, a) <= RankAt(i, a) /\ ~(a > a)
                BY <1>1, RankIsNatural, SMT DEF RankAt
            <4>2. QED
                BY <1>1, <1>4, <2>4, <4>1, Zenon DEF IsBestAmong
        <3>3. QED
            BY <1>1, <3>1, <3>2, Zenon DEF Holds
    <2>5. ASSUME NEW n \in Attempts, IsBestAmong(i, k, n), best = <<i, n, file[n][i][1]>>
          PROVE  Holds(i, k + 1, Better(best, line))
        <3>1. /\ n \in after /\ file[n][i] # <<>>
              /\ \A m \in after : file[m][i] # <<>> =>
                    /\ RankAt(i, m) <= RankAt(i, n)
                    /\ m > n => RankAt(i, m) < RankAt(i, n)
            BY <1>1, <2>5, Zenon DEF IsBestAmong
        <3>2. best # <<>> /\ best[3] = file[n][i][1]
            BY <2>5, SMT
        <3>3. CASE RankAt(i, a) > RankAt(i, n)
            <4>1. Better(best, line) = line
                BY <2>3, <3>2, <3>3, Zenon DEF Better, RankAt
            <4>2. \A m \in after : file[m][i] # <<>> => RankAt(i, m) < RankAt(i, a)
                BY <1>2, <3>1, <3>3, SMT
            <4>3. \A m \in after : file[m][i] # <<>> => RankAt(i, m) <= RankAt(i, a)
                BY <1>2, <4>2, SMT
            <4>4. RankAt(i, a) <= RankAt(i, a) /\ ~(a > a)
                BY <1>1, <1>2, <3>1, SMT
            <4>5. IsBestAmong(i, k + 1, a)
                BY <1>1, <1>4, <4>2, <4>3, <4>4, Zenon DEF IsBestAmong
            <4>6. QED
                BY <1>1, <4>1, <4>5, Zenon DEF Holds
        <3>4. CASE ~(RankAt(i, a) > RankAt(i, n))
            <4>1. Better(best, line) = best
                BY <2>3, <3>2, <3>4, Zenon DEF Better, RankAt
            <4>2. RankAt(i, a) <= RankAt(i, n) /\ ~(a > n)
                BY <1>1, <1>2, <3>1, <3>4, SMT
            <4>3. IsBestAmong(i, k + 1, n)
                BY <1>1, <3>1, <4>2, Zenon DEF IsBestAmong
            <4>4. QED
                BY <2>5, <4>1, <4>3, Zenon DEF Holds
        <3>5. QED
            BY <3>3, <3>4
    <2>6. QED
        BY <1>1, <2>2, <2>4, <2>5, Zenon DEF Holds, a
<1>5. QED
    BY <1>3, <1>4 DEF a

\* The best line of an instance is its last of the highest rank, or there is none.
LEMMA BestHolds ==
    ASSUME TypeOK, OneLinePerAttempt, NEW i \in Instances
    PROVE  Holds(i, MaxAttempts, BestOf(i))
<1> DEFINE f == ReadUpto(i)
           N == {k \in Nat : k <= MaxAttempts => Holds(i, k, f[k])}
<1>1. \A k \in 0..MaxAttempts : f[k] = ReadBody(i, f, k)
    <2>1. MaxAttempts \in Nat
        BY SMT
    <2>2. f = [k \in 0..MaxAttempts |-> ReadBody(i, f, k)]
        BY <2>1, ReadExists, Zenon DEF ReadUpto, IsRead
    <2> HIDE DEF f
    <2>3. QED
        BY <2>2, Zenon
<1> HIDE DEF f
<1>2. 0 \in N
    <2>1. 0 \in 0..MaxAttempts /\ 0 \in Nat /\ \A m \in (MaxAttempts + 1 - 0)..MaxAttempts : FALSE
        BY SMT
    <2>2. f[0] = <<>>
        BY <1>1, <2>1, Zenon DEF ReadBody
    <2>3. QED
        BY <2>1, <2>2, Zenon DEF Holds
<1>3. ASSUME NEW k \in N PROVE k + 1 \in N
    <2>1. SUFFICES ASSUME k + 1 <= MaxAttempts PROVE Holds(i, k + 1, f[k + 1])
        BY SMT
    <2>2. /\ k \in Nat /\ k + 1 \in 0..MaxAttempts /\ k <= MaxAttempts /\ k + 1 # 0
          /\ k + 1 - 1 = k /\ MaxAttempts + 1 - (k + 1) = MaxAttempts - k
        BY <2>1, SMT
    <2>3. f[k + 1] = ReadFile(i, MaxAttempts - k, f[k])
        <3>1. f[k + 1] = ReadBody(i, f, k + 1)
            BY <1>1, <2>2, Zenon
        <3>2. ReadBody(i, f, k + 1) = ReadFile(i, MaxAttempts + 1 - (k + 1), f[k + 1 - 1])
            <4>1. \A m : m # 0 =>
                      ReadBody(i, f, m) = ReadFile(i, MaxAttempts + 1 - m, f[m - 1])
                BY Zenon DEF ReadBody
            <4>2. QED
                BY <2>2, <4>1, SMT
        <3>3. QED
            BY <2>2, <3>1, <3>2, SMT
    <2>4. Holds(i, k, f[k])
        BY <2>2
    <2>5. QED
        BY <2>1, <2>2, <2>3, <2>4, ReadingHolds, Zenon
<1>4. N = Nat
    <2>1. N \subseteq Nat
        OBVIOUS
    <2> HIDE DEF N
    <2>2. QED
        BY <1>2, <1>3, <2>1, NatSetInduction, Zenon
<1>5. QED
    <2>1. MaxAttempts \in Nat /\ MaxAttempts <= MaxAttempts
        BY SMT
    <2>2. MaxAttempts \in N
        BY <1>4, <2>1
    <2>3. QED
        BY <2>1, <2>2, BestIsRead, Zenon DEF f

\* aggregate_results as a function of the files.
ReadFrom(F, i, n, best) ==
    LET upto[j \in 0..Len(F[n][i])] ==
            IF j = 0 THEN best ELSE Better(upto[j - 1], <<i, n, F[n][i][j]>>)
    IN  upto[Len(F[n][i])]

BestFrom(F, i) ==
    LET read[k \in 0..MaxAttempts] ==
            IF k = 0 THEN <<>> ELSE ReadFrom(F, i, MaxAttempts + 1 - k, read[k - 1])
    IN  read[MaxAttempts]

AggregateFrom(F) ==
    {l \in Instances \X Attempts \X Outcomes : l = BestFrom(F, l[1]) /\ l[3] \notin Errors}

LEMMA AggregateOfFiles == ASSUME file' = file PROVE aggregate_results' = aggregate_results
<1>1. aggregate_results = AggregateFrom(file)
    BY Zenon DEF aggregate_results, BestOf, ReadFile, AggregateFrom, BestFrom, ReadFrom
<1>2. aggregate_results' = AggregateFrom(file')
    BY Zenon DEF aggregate_results, BestOf, ReadFile, AggregateFrom, BestFrom, ReadFrom
<1>3. QED
    BY <1>1, <1>2, Zenon

LEMMA AggregatedStep == ASSUME IInv, Aggregated, [Next]_vars PROVE Aggregated'
<1> USE DEF Aggregated
<1>1. ASSUME phase' # "done" PROVE Aggregated'
    BY <1>1
<1>2. ASSUME UNCHANGED <<phase, sel, disk>> PROVE Aggregated'
    <2>1. aggregate_results' = aggregate_results
        BY <1>2, AggregateOfFiles DEF disk
    <2>2. QED
        BY <1>2, <2>1 DEF disk
<1>3. CASE Aggregate
    <2>1. aggregate_results' = aggregate_results
        BY <1>3, AggregateOfFiles DEF Aggregate
    <2>2. QED
        BY <1>3, <2>1 DEF Aggregate
<1>4. CASE Start
    BY <1>4 DEF Start
<1>5. CASE Select \/ Shutdown
    BY <1>1, <1>5 DEF Select, Shutdown, NextAttempt
<1>6. CASE Wait \/ CheckDeadlines \/ LoopAgain \/ SubmitRaises \/ Interrupt \/ Crash
    BY <1>1, <1>6 DEF Wait, CheckDeadlines, LoopAgain, SubmitRaises, Interrupt, Crash, Stop
<1>7. ASSUME NEW i \in Instances, Submit(i) \/ Collect(i) \/ TimeOut(i) PROVE Aggregated'
    BY <1>1, <1>7 DEF Submit, Collect, TimeOut
<1>8. CASE \/ WorkerStep \/ WorkerDies \/ UNCHANGED vars
           \/ \E n \in Attempts, i \in Instances : WorkerHang(n, i)
           \/ \E i \in Instances : Expire(i)
    BY <1>2, <1>8 DEF WorkerStep, Claim, WorkerStart, WorkerEnd, WorkerHang, WorkerDies, Expire,
       main, vars
<1>9. QED
    BY <1>3, <1>4, <1>5, <1>6, <1>7, <1>8 DEF Next, MainStep, FaultStep, Over

\* The best line of an instance is what PublishedIsBest asks to be published.
LEMMA AggregateIsBest ==
    ASSUME TypeOK, OneLinePerAttempt, out = aggregate_results, NEW i \in Instances
    PROVE  LET has(n, S) == \E k \in DOMAIN file[n][i] : file[n][i][k] \in S \ Errors
               last(S)   == {n \in Attempts :
                               has(n, S) /\ \A m \in (n + 1)..MaxAttempts : ~has(m, S)}
               mine      == {l \in out : l[1] = i}
               best(S)   == \E l \in mine : mine = {l} /\ l[2] \in last(S) /\ l[3] \in S \ Errors
           IN  IF last(Accepted) # {} THEN best(Accepted)
               ELSE IF last(Outcomes) # {} THEN best(Outcomes) ELSE mine = {}
<1> DEFINE has(n, S) == \E k \in DOMAIN file[n][i] : file[n][i][k] \in S \ Errors
           last(S)   == {n \in Attempts :
                           has(n, S) /\ \A m \in (n + 1)..MaxAttempts : ~has(m, S)}
           mine      == {l \in out : l[1] = i}
           best(S)   == \E l \in mine : mine = {l} /\ l[2] \in last(S) /\ l[3] \in S \ Errors
           b         == BestOf(i)
<1>1. mine = {l \in Instances \X Attempts \X Outcomes : l = b /\ l[1] = i /\ l[3] \notin Errors}
    BY Zenon DEF aggregate_results
<1>2. /\ \A n \in Attempts : (n + 1)..MaxAttempts \subseteq Attempts
      /\ (MaxAttempts + 1 - MaxAttempts)..MaxAttempts = Attempts
    BY SMT DEF Attempts
<1>3. Holds(i, MaxAttempts, b)
    BY BestHolds, Zenon
<1>4. \A S : \A n \in Attempts :
         has(n, S) <=> file[n][i] # <<>> /\ file[n][i][1] \in S \ Errors
    <2>1. ASSUME NEW n \in Attempts, file[n][i] = <<>> PROVE DOMAIN file[n][i] = {}
        BY <2>1, SMT
    <2>2. \A n \in Attempts : file[n][i] # <<>> => DOMAIN file[n][i] = {1}
        BY SingleLine, Zenon
    <2>3. QED
        BY <2>1, <2>2, Zenon
<1>5. \A n \in Attempts : has(n, Accepted) <=> file[n][i] # <<>> /\ RankAt(i, n) = 2
    BY <1>4, SMT DEF RankAt, _get_output_rank
<1>6. \A n \in Attempts : has(n, Outcomes) <=> file[n][i] # <<>> /\ RankAt(i, n) # 0
    BY <1>4, SingleLine, SMT DEF RankAt, _get_output_rank
<1>7. CASE b = <<>> /\ \A m \in Attempts : file[m][i] = <<>>
    <2>1. \A l \in Instances \X Attempts \X Outcomes : l # <<>>
        BY SMTT(60)
    <2>2. mine = {}
        BY <1>1, <1>7, <2>1, Zenon
    <2>3. last(Accepted) = {} /\ last(Outcomes) = {}
        BY <1>4, <1>7, Zenon
    <2>4. QED
        BY <2>2, <2>3, Zenon
<1>8. ASSUME NEW n \in Attempts, IsBestAmong(i, MaxAttempts, n), b = <<i, n, file[n][i][1]>>
      PROVE  IF last(Accepted) # {} THEN best(Accepted)
             ELSE IF last(Outcomes) # {} THEN best(Outcomes) ELSE mine = {}
    <2> DEFINE o == file[n][i][1]
    <2>1. /\ file[n][i] # <<>> /\ o \in Outcomes
          /\ \A m \in Attempts : file[m][i] # <<>> =>
                /\ RankAt(i, m) <= RankAt(i, n)
                /\ m > n => RankAt(i, m) < RankAt(i, n)
        BY <1>2, <1>8, SingleLine, Zenon DEF IsBestAmong
    <2>2. /\ b \in Instances \X Attempts \X Outcomes
          /\ b[1] = i /\ b[2] = n /\ b[3] = o
        BY <1>8, <2>1, SMT
    <2>3. mine = IF o \in Errors THEN {} ELSE {b}
        BY <1>1, <2>2, Zenon
    <2>4. o \in Errors <=> RankAt(i, n) = 0
        BY SMT DEF RankAt, _get_output_rank
    <2>5. \A m \in Attempts : RankAt(i, m) \in 0..2
        BY RankIsNatural, Zenon DEF RankAt
    <2>6. \A m \in (n + 1)..MaxAttempts : m \in Attempts /\ m > n
        BY <1>2, SMT DEF Attempts
    <2> HIDE DEF mine, b
    <2>7. CASE RankAt(i, n) = 2
        <3>1. n \in last(Accepted)
            <4>1. \A m \in (n + 1)..MaxAttempts : ~has(m, Accepted)
                BY <1>5, <2>1, <2>5, <2>6, <2>7, SMT
            <4>2. QED
                BY <1>5, <2>1, <2>7, <4>1, Zenon
        <3>2. o \in Accepted \ Errors
            BY <1>4, <3>1, Zenon
        <3>3. best(Accepted)
            BY <2>2, <2>3, <3>1, <3>2, Zenon
        <3>4. QED
            BY <3>1, <3>3, Zenon
    <2>8. CASE RankAt(i, n) = 1
        <3>1. \A m \in Attempts : ~has(m, Accepted)
            BY <1>5, <2>1, <2>5, <2>8, SMT
        <3>2. last(Accepted) = {}
            BY <3>1, Zenon
        <3>3. n \in last(Outcomes)
            <4>1. \A m \in (n + 1)..MaxAttempts : ~has(m, Outcomes)
                BY <1>6, <2>1, <2>5, <2>6, <2>8, SMT
            <4>2. RankAt(i, n) # 0
                BY <2>8, SMT
            <4>3. QED
                BY <1>6, <2>1, <4>1, <4>2, Zenon
        <3>4. o \in Outcomes \ Errors
            BY <1>4, <3>3, Zenon
        <3>5. best(Outcomes)
            BY <2>2, <2>3, <3>3, <3>4, Zenon
        <3>6. QED
            BY <3>2, <3>3, <3>5, Zenon
    <2>9. CASE RankAt(i, n) = 0
        <3>1. \A m \in Attempts : ~has(m, Outcomes) /\ ~has(m, Accepted)
            BY <1>5, <1>6, <2>1, <2>5, <2>9, SMT
        <3>2. last(Accepted) = {} /\ last(Outcomes) = {}
            BY <3>1, Zenon
        <3>3. mine = {}
            BY <2>3, <2>4, <2>9, Zenon
        <3>4. QED
            BY <3>2, <3>3, Zenon
    <2>10. QED
        BY <2>5, <2>7, <2>8, <2>9, SMT
<1>9. QED
    BY <1>2, <1>3, <1>7, <1>8, Zenon DEF Holds

\* When the process has aggregated, output.jsonl has of each instance its last line of
\* the highest rank (iterative.py:91-92), whatever processes wrote the attempt files.
THEOREM BestIsPublished == Spec => []PublishedIsBest
<1>1. Init => Aggregated
    BY DEF Init, Aggregated
<1>2. IInv /\ Aggregated /\ [Next]_vars => Aggregated'
    BY AggregatedStep
<1>3. IInv /\ Aggregated => PublishedIsBest
    BY AggregateIsBest, Zenon DEF IInv, Aggregated, PublishedIsBest
<1>4. QED
    BY Invariance, <1>1, <1>2, <1>3, PTL DEF Spec
=============================================================================
