------------------------ MODULE ImageBuilder_proofs ------------------------
(***************************************************************************)
(* Proofs about ImageBuilder, for every sequence of images, batch size,    *)
(* pool, number of retries, throttle and clock, every content of the       *)
(* registry and every set of faults: the inductive invariant IInv and the  *)
(* properties it gives.                                                    *)
(***************************************************************************)
EXTENDS ImageBuilder, SequenceTheorems, FiniteSetTheorems, TLAPS

-----------------------------------------------------------------------------
(* The batches.                                                            *)

LEMMA Quotient ==
    ASSUME NEW n \in Nat, NEW d \in Nat \ {0}
    PROVE  /\ n \div d \in Nat
           /\ d * (n \div d) <= n /\ n < d * (n \div d) + d
OBVIOUS

LEMMA BatchIndex ==
    ASSUME NEW k \in DOMAIN base_images
    PROVE  /\ base_images[k] \in Images
           /\ k \in Nat \ {0} /\ Len(base_images) \in Nat /\ batches \in Nat
           /\ (k - 1) \div BatchSize \in Nat
           /\ (k - 1) \div BatchSize + 1 \in 1..batches
<1> DEFINE L == Len(base_images)  q == (k - 1) \div BatchSize  m == (L + BatchSize - 1) \div BatchSize
<1>1. L \in Nat /\ k \in 1..L /\ BatchSize \in Nat \ {0} /\ base_images[k] \in Images
    <2>1. base_images \in Seq(ToSet(base_images)) /\ BatchSize \in Nat \ {0}
        BY BuilderAssumption DEF BuilderAssumption
    <2>2. L \in Nat /\ k \in 1..L
        BY <2>1
    <2>3. base_images[k] \in Images
        BY DEF Images, ToSet
    <2>4. QED
        BY <2>1, <2>2, <2>3
<1>2. q \in Nat /\ BatchSize * q <= k - 1
    <2>1. k - 1 \in Nat
        BY <1>1
    <2>2. QED
        BY <1>1, <2>1, Quotient
<1>3. m \in Nat /\ L + BatchSize - 1 < BatchSize * m + BatchSize
    BY <1>1, Quotient
<1> HIDE DEF q, m
<1>4. BatchSize * q < BatchSize * m
    BY <1>1, <1>2, <1>3
<1>5. q < m
    <2> SUFFICES ASSUME m <= q PROVE FALSE
        BY <1>2, <1>3
    <2>1. BatchSize * m <= BatchSize * q
        BY <1>1, <1>2, <1>3
    <2>2. BatchSize * m \in Nat /\ BatchSize * q \in Nat
        BY <1>1, <1>2, <1>3
    <2>3. QED
        BY <1>4, <2>1, <2>2
<1>6. QED
    BY <1>1, <1>2, <1>3, <1>5, SMTT(40) DEF batches, q, m

LEMMA BatchesType == batches \in Nat
<1>1. Len(base_images) + BatchSize - 1 \in Nat /\ BatchSize \in Nat \ {0}
    BY BuilderAssumption DEF BuilderAssumption
<1>2. QED
    BY <1>1, Quotient DEF batches

\* Every image is at one place of the sequence.
LEMMA Placed ==
    ASSUME NEW i \in Images
    PROVE  \E k \in DOMAIN base_images :
              base_images[k] = i /\ \A j \in DOMAIN base_images : base_images[j] = i => j = k
BY BuilderAssumption DEF BuilderAssumption, Images, ToSet, IsInjective

\* The images of a batch are those whose place is in it.
LEMMA BatchOf ==
    ASSUME NEW k \in DOMAIN base_images, NEW n \in Int
    PROVE  base_images[k] \in InBatch(n) <=> (k - 1) \div BatchSize + 1 = n
<1>1. (k - 1) \div BatchSize \in Int
    BY BatchIndex
<1>2. \A j \in DOMAIN base_images : base_images[j] = base_images[k] => j = k
    BY BuilderAssumption DEF BuilderAssumption, IsInjective
<1>3. ASSUME base_images[k] \in InBatch(n) PROVE (k - 1) \div BatchSize = n - 1
    BY <1>2, <1>3 DEF InBatch
<1>4. ASSUME (k - 1) \div BatchSize = n - 1 PROVE base_images[k] \in InBatch(n)
    BY <1>4 DEF InBatch
<1>5. (k - 1) \div BatchSize + 1 = n <=> (k - 1) \div BatchSize = n - 1
    BY <1>1
<1>6. QED
    BY <1>3, <1>4, <1>5

-----------------------------------------------------------------------------
(* What the steps do.                                                      *)

LEMMA InitIInv == Init => IInv
<1> SUFFICES ASSUME Init PROVE IInv
    OBVIOUS
<1> USE BuilderAssumption DEF BuilderAssumption
<1>0. PICK s \in Settings : registry = s.registry /\ faults = s.faults
    BY DEF Init
<1>1. TypeOK
    <2>1. Never \in Never..MaxTime /\ 0 \in 0..(max_retries - 1) /\ 1 \in 1..(batches + 1)
        BY BatchesType DEF Never
    <2>2. pc \in [Images -> PCs] /\ result \in [Images -> Results]
        BY DEF Init, PCs, Results
    <2>3. Unknown \in Times
        BY <2>1 DEF Unknown, Times
    <2>4. attempt \in [Images -> 0..(max_retries - 1)] /\ began \in [Images -> Never..MaxTime]
        BY <2>1 DEF Init
    <2>5. seen \in [Images -> Times] /\ state \in Times /\ ran \in Times /\ blame \subseteq {"lock", "state"}
        BY <2>3 DEF Init
    <2>6. lock \in Images \cup {NoOne} /\ broken \in BOOLEAN /\ raised \in BOOLEAN
        BY DEF Init
    <2>7. registry \in [Images -> {"none", "plain", "wrapped"}] /\ faults \subseteq AllFaults
        BY <1>0
    <2>8. clock \in 0..MaxTime /\ batch \in 1..(batches + 1)
        BY <2>1 DEF Init
    <2>9. manifest \in Seq([image : Images, tags : BOOLEAN, error : BOOLEAN])
        BY DEF Init
    <2>10. QED
        BY <2>2, <2>4, <2>5, <2>6, <2>7, <2>8, <2>9 DEF TypeOK
<1>2. BatchesInOrder
    <2> SUFFICES ASSUME NEW k \in DOMAIN base_images
                 PROVE  /\ BatchNumber(k) < batch => pc[base_images[k]] = "written"
                        /\ BatchNumber(k) > batch => pc[base_images[k]] = "waiting"
                        /\ BatchNumber(k) = batch /\ pc[base_images[k]] = "written" => Submitted
        BY DEF BatchesInOrder, Init
    <2>1. BatchNumber(k) \in 1..batches /\ base_images[k] \in Images
        BY BatchIndex DEF BatchNumber
    <2>2. pc[base_images[k]] = "waiting" /\ batch = 1
        BY <2>1 DEF Init
    <2>3. QED
        BY <2>1, <2>2, BatchesType
<1>3. ResultsSet
    BY DEF Init, ResultsSet
<1>4. BuiltIsThere
    BY <1>0 DEF Init, BuiltIsThere
<1>5. LinesWritten
    BY DEF Init, LinesWritten
<1>6. ResetLocked
    BY DEF Init, ResetLocked
<1>7. QED
    BY <1>1, <1>2, <1>3, <1>4, <1>5, <1>6 DEF IInv

\* The process of image i goes on to p.
Moves(i, p) ==
    /\ pc[i] \in Running \cup {"queued"} /\ p \in Running \cup {"done"}
    /\ pc' = [pc EXCEPT ![i] = p]
    /\ p # "done" => UNCHANGED result
    /\ p = "done" => \E res \in Results \ {"none"} : result' = [result EXCEPT ![i] = res]
    /\ UNCHANGED <<clock, faults, parent>>

LEMMA BuildMoves ==
    ASSUME NEW i \in Images, BuildStep(i)
    PROVE  \E p \in Running \cup {"done"} : Moves(i, p)
<1> USE DEF Goto, Return, Retry, PostBuild, Moves, Running, Failed, Results
<1>1. CASE Take(i)
    BY <1>1 DEF Take
<1>2. CASE BuildSkipped(i)
    BY <1>2 DEF BuildSkipped
<1>3. CASE BuildSucceeds(i)
    BY <1>3 DEF BuildSucceeds
<1>4. CASE BuildUntagged(i)
    BY <1>4 DEF BuildUntagged
<1>5. CASE BuildFails(i)
    BY <1>5 DEF BuildFails
<1>6. CASE WrapSucceeds(i)
    BY <1>6 DEF WrapSucceeds
<1>7. CASE WrapFails(i)
    BY <1>7 DEF WrapFails
<1>8. CASE GiveUp(i)
    BY <1>8 DEF GiveUp
<1>9. CASE ResetThrottled(i)
    BY <1>9 DEF ResetThrottled
<1>10. CASE ResetBegins(i)
    BY <1>10 DEF ResetBegins
<1>11. CASE ResetEnds(i)
    BY <1>11 DEF ResetEnds
<1>12. CASE ResetRaises(i)
    BY <1>12 DEF ResetRaises
<1>13. CASE WrapRaises(i)
    BY <1>13 DEF WrapRaises
<1>14. QED
    BY <1>1, <1>2, <1>3, <1>4, <1>5, <1>6, <1>7, <1>8, <1>9, <1>10, <1>11, <1>12, <1>13 DEF BuildStep

-----------------------------------------------------------------------------
(* Type correctness.                                                       *)

LEMMA TypeStep == TypeOK /\ ResetLocked /\ [Next]_vars => TypeOK'
<1> SUFFICES ASSUME TypeOK, ResetLocked, [Next]_vars PROVE TypeOK'
    OBVIOUS
<1> USE BuilderAssumption DEF BuilderAssumption
<1> DEFINE Reset == /\ began' \in [Images -> Never..MaxTime] /\ seen' \in [Images -> Times]
                    /\ lock' \in Images \cup {NoOne}
                    /\ state' \in Times /\ ran' \in Times /\ blame' \subseteq {"lock", "state"}
<1>0. UNCHANGED resets => Reset
    BY DEF resets, TypeOK
<1>1. Never \in Never..MaxTime /\ Unknown \in Times
    BY DEF Never, Unknown, Times
<1>2. ASSUME NEW i \in Images, LetGo(i)
      PROVE  /\ began' \in [Images -> Never..MaxTime] /\ seen' \in [Images -> Times]
             /\ lock' \in Images \cup {NoOne}
    BY <1>1, <1>2 DEF LetGo, TypeOK
<1>3. ASSUME NEW i \in Images, BuildStep(i) PROVE TypeOK'
    <2>1. /\ pc' \in [Images -> PCs] /\ result' \in [Images -> Results]
          /\ UNCHANGED <<clock, faults, parent>>
        <3> PICK p \in Running \cup {"done"} : Moves(i, p)
            BY <1>3, BuildMoves
        <3>1. pc' \in [Images -> PCs]
            BY DEF Moves, TypeOK, PCs
        <3>2. result' \in [Images -> Results]
            BY DEF Moves, TypeOK
        <3>3. QED
            BY <3>1, <3>2 DEF Moves
    <2> SUFFICES /\ registry' \in [Images -> {"none", "plain", "wrapped"}]
                 /\ attempt' \in [Images -> 0..(max_retries - 1)]
                 /\ Reset
        BY <2>1 DEF TypeOK, parent
    <2>2. CASE Take(i) \/ BuildSkipped(i) \/ BuildUntagged(i) \/ BuildFails(i)
        BY <1>0, <2>2 DEF Take, BuildSkipped, BuildUntagged, BuildFails, TypeOK
    <2>3. CASE BuildSucceeds(i) \/ WrapSucceeds(i)
        BY <1>0, <2>3 DEF BuildSucceeds, WrapSucceeds, TypeOK
    <2>4. CASE WrapFails(i) \/ WrapRaises(i) \/ GiveUp(i)
        BY <1>0, <2>4 DEF WrapFails, WrapRaises, GiveUp, TypeOK
    <2>5. CASE ResetThrottled(i)
        <3>1. attempt[i] + 1 \in 0..(max_retries - 1)
            BY <2>5 DEF ResetThrottled, TypeOK
        <3>2. blame' \subseteq {"lock", "state"}
            BY <2>5 DEF ResetThrottled, Blamed, TypeOK
        <3>3. QED
            BY <2>5, <3>1, <3>2 DEF ResetThrottled, Retry, TypeOK
    <2>6. CASE ResetBegins(i)
        <3> PICK locked \in BOOLEAN : \E read \in Reads(locked) :
                 /\ Blamed(locked, read)
                 /\ lock' = IF locked THEN i ELSE lock
                 /\ seen' = [seen EXCEPT ![i] = read]
            BY <2>6 DEF ResetBegins
        <3> PICK read \in Reads(locked) :
                 /\ Blamed(locked, read)
                 /\ lock' = IF locked THEN i ELSE lock
                 /\ seen' = [seen EXCEPT ![i] = read]
            OBVIOUS
        <3>1. read \in Times
            BY <1>1 DEF Reads, TypeOK
        <3>2. seen' \in [Images -> Times] /\ lock' \in Images \cup {NoOne}
            BY <3>1 DEF TypeOK
        <3>3. blame' \subseteq {"lock", "state"}
            BY DEF Blamed, TypeOK
        <3>4. began' \in [Images -> Never..MaxTime]
            BY <2>6 DEF ResetBegins, Never, TypeOK
        <3>5. QED
            BY <2>6, <3>2, <3>3, <3>4 DEF ResetBegins, TypeOK
    <2>7. CASE ResetEnds(i)
        <3>1. began[i] \in Never..MaxTime /\ Kind(i) \in Kinds /\ seen[i] \in Times
            BY DEF TypeOK, Kind, Kinds
        <3>2. attempt[i] + 1 \in 0..(max_retries - 1)
            BY <2>7 DEF ResetEnds, ResetLocked, TypeOK
        <3>3. state' \in Times
            BY <1>1, <2>7, <3>1 DEF ResetEnds, Written, TypeOK, Times
        <3>4. ran' \in Times
            BY <2>7, <3>1 DEF ResetEnds, TypeOK, Times
        <3>5. blame' \subseteq {"lock", "state"}
            BY <2>7 DEF ResetEnds, TypeOK
        <3>6. registry' = registry /\ attempt' \in [Images -> 0..(max_retries - 1)]
            BY <2>7, <3>2 DEF ResetEnds, Retry, TypeOK
        <3>7. LetGo(i)
            BY <2>7 DEF ResetEnds
        <3>8. QED
            BY <1>2, <3>3, <3>4, <3>5, <3>6, <3>7 DEF TypeOK
    <2>8. CASE ResetRaises(i)
        BY <1>2, <2>8 DEF ResetRaises, TypeOK
    <2>9. QED
        BY <1>3, <2>2, <2>3, <2>4, <2>5, <2>6, <2>7, <2>8 DEF BuildStep
<1>4. CASE ProcessDies
    <2>1. pc' \in [Images -> PCs] /\ result' \in [Images -> Results]
        BY <1>4 DEF ProcessDies, TypeOK, PCs, Results
    <2>2. began' \in [Images -> Never..MaxTime] /\ seen' \in [Images -> Times]
        BY <1>1, <1>4 DEF ProcessDies
    <2>3. state' \in Times /\ blame' \subseteq {"lock", "state"}
        BY <1>1, <1>4 DEF ProcessDies, TypeOK
    <2>4. QED
        BY <1>4, <2>1, <2>2, <2>3 DEF ProcessDies, TypeOK
<1>5. ASSUME NEW i \in Images, WriteLine(i) PROVE TypeOK'
    <2>1. Line(i) \in [image : Images, tags : BOOLEAN, error : BOOLEAN]
        BY DEF Line
    <2>2. manifest' \in Seq([image : Images, tags : BOOLEAN, error : BOOLEAN])
        BY <1>5, <2>1, AppendProperties DEF WriteLine, TypeOK
    <2>3. pc' \in [Images -> PCs]
        BY <1>5 DEF WriteLine, Goto, TypeOK, PCs
    <2>4. QED
        BY <1>0, <1>5, <2>2, <2>3 DEF WriteLine, TypeOK
<1>6. ASSUME NEW i \in Images, Submit(i) PROVE TypeOK'
    <2>1. pc' \in [Images -> PCs]
        BY <1>6 DEF Submit, Goto, TypeOK, PCs
    <2>2. QED
        BY <1>0, <1>6, <2>1 DEF Submit, parent, TypeOK
<1>7. CASE NextBatch
    <2>1. batch' \in 1..(batches + 1)
        BY <1>7, BatchesType DEF NextBatch, TypeOK
    <2>2. QED
        BY <1>0, <1>7, <2>1 DEF NextBatch, TypeOK
<1>8. CASE SubmitRaises
    BY <1>0, <1>8 DEF SubmitRaises, TypeOK
<1>9. CASE Tick
    BY <1>0, <1>9 DEF Tick, parent, TypeOK
<1>10. CASE UNCHANGED vars
    BY <1>0, <1>10 DEF vars, parent, TypeOK
<1>11. QED
    BY <1>3, <1>4, <1>5, <1>6, <1>7, <1>8, <1>9, <1>10 DEF Next

-----------------------------------------------------------------------------
(* The batches, the results and the lines.                                 *)

\* A batch is submitted if none of its images waits.
LEMMA SubmittedOf ==
    ASSUME TypeOK
    PROVE  Submitted <=> \A k \in DOMAIN base_images :
                            BatchNumber(k) = batch => pc[base_images[k]] # "waiting"
<1>1. batch \in Int
    BY DEF TypeOK
<1>2. \A k \in DOMAIN base_images : base_images[k] \in InBatch(batch) <=> BatchNumber(k) = batch
    BY <1>1, BatchOf DEF BatchNumber
<1>3. \A i \in InBatch(batch) : \E k \in DOMAIN base_images : base_images[k] = i
    BY DEF InBatch
<1>4. QED
    BY <1>2, <1>3 DEF Submitted

\* While build_all_images stays at its batch: an image that is written, or waits, does so.
LEMMA BatchesKept ==
    ASSUME TypeOK, TypeOK', BatchesInOrder, UNCHANGED <<batch, broken>>,
           raised' => broken /\ ~Submitted,
           \A i \in Images : /\ pc[i] = "written" => pc'[i] = "written"
                             /\ pc'[i] = "written" => pc[i] = "written" \/ Submitted
                             /\ raised' /\ pc[i] = "waiting" => pc'[i] = "waiting"
                             /\ pc'[i] = "waiting" => pc[i] = "waiting"
                             /\ pc[i] = "waiting" => pc'[i] = "waiting" \/ i \in InBatch(batch)
    PROVE  BatchesInOrder'
<1>1. Submitted => Submitted'
    BY DEF Submitted, InBatch, Images, ToSet
<1>2. raised' => ~Submitted'
    BY DEF Submitted, InBatch, Images, ToSet
<1>3. ASSUME NEW k \in DOMAIN base_images
      PROVE  /\ BatchNumber(k) < batch' => pc'[base_images[k]] = "written"
             /\ BatchNumber(k) > batch' => pc'[base_images[k]] = "waiting"
             /\ BatchNumber(k) = batch' /\ pc'[base_images[k]] = "written" => Submitted'
    <2>1. base_images[k] \in Images /\ BatchNumber(k) \in Nat /\ batch \in Nat
        BY BatchIndex DEF BatchNumber, TypeOK
    <2>2. base_images[k] \in InBatch(batch) <=> BatchNumber(k) = batch
        BY <2>1, BatchOf DEF BatchNumber
    <2>3. QED
        BY <1>1, <2>1, <2>2 DEF BatchesInOrder
<1>4. QED
    BY <1>2, <1>3 DEF BatchesInOrder

LEMMA BatchesStep == TypeOK /\ TypeOK' /\ BatchesInOrder /\ [Next]_vars => BatchesInOrder'
<1> SUFFICES ASSUME TypeOK, TypeOK', BatchesInOrder, [Next]_vars PROVE BatchesInOrder'
    OBVIOUS
<1>0. raised => broken /\ ~Submitted
    BY DEF BatchesInOrder
<1>1. ASSUME NEW i \in Images, BuildStep(i) PROVE BatchesInOrder'
    <2> PICK p \in Running \cup {"done"} : Moves(i, p)
        BY <1>1, BuildMoves
    <2>1. \A j \in Images : (pc[j] = "written" <=> pc'[j] = "written") /\ (pc[j] = "waiting" <=> pc'[j] = "waiting")
        BY DEF Moves, Running, Failed, TypeOK
    <2>2. UNCHANGED <<batch, broken, raised>>
        BY DEF Moves, parent
    <2>3. QED
        BY <1>0, <2>1, <2>2, BatchesKept
<1>2. CASE ProcessDies
    <2>1. \A j \in Images : (pc[j] = "written" <=> pc'[j] = "written") /\ (pc[j] = "waiting" <=> pc'[j] = "waiting")
        BY <1>2 DEF ProcessDies, Running, Failed, TypeOK
    <2>2. ~broken /\ UNCHANGED <<batch, raised>> /\ (Submitted <=> Submitted')
        BY <1>2, <2>1 DEF ProcessDies, Submitted, InBatch, Images, ToSet
    <2>3. QED
        BY <1>0, <2>1, <2>2, BatchIndex DEF BatchesInOrder, BatchNumber
<1>3. ASSUME NEW i \in Images, WriteLine(i) PROVE BatchesInOrder'
    <2>1. Submitted /\ ~raised /\ UNCHANGED <<batch, broken, raised>>
        BY <1>0, <1>3 DEF WriteLine
    <2>2. \A j \in Images : (pc[j] = "written" => pc'[j] = "written") /\ (pc[j] = "waiting" <=> pc'[j] = "waiting")
        BY <1>3 DEF WriteLine, Goto, TypeOK
    <2>3. QED
        BY <1>0, <2>1, <2>2, BatchesKept
<1>4. ASSUME NEW i \in Images, Submit(i) PROVE BatchesInOrder'
    <2>1. ~broken /\ ~raised /\ UNCHANGED <<batch, broken, raised>> /\ i \in InBatch(batch)
        BY <1>0, <1>4 DEF Submit, parent
    <2>2. \A j \in Images : /\ pc[j] = "written" <=> pc'[j] = "written"
                            /\ pc'[j] = "waiting" => pc[j] = "waiting"
                            /\ pc[j] = "waiting" => pc'[j] = "waiting" \/ j = i
        BY <1>4 DEF Submit, Goto, TypeOK
    <2>3. QED
        BY <1>0, <2>1, <2>2, BatchesKept
<1>5. CASE SubmitRaises
    <2>1. broken /\ ~Submitted /\ UNCHANGED <<batch, broken, pc>>
        BY <1>5 DEF SubmitRaises
    <2>2. QED
        BY <2>1, BatchesKept
<1>6. CASE NextBatch
    <2>1. /\ batch' = batch + 1 /\ UNCHANGED <<pc, raised>> /\ Submitted
          /\ \A j \in InBatch(batch) : pc[j] = "written"
        BY <1>6 DEF NextBatch, Submitted
    <2>2. ASSUME NEW k \in DOMAIN base_images
          PROVE  /\ BatchNumber(k) < batch' => pc'[base_images[k]] = "written"
                 /\ BatchNumber(k) >= batch' => pc'[base_images[k]] = "waiting"
        <3>1. BatchNumber(k) \in Nat /\ batch \in Nat
            BY BatchIndex DEF BatchNumber, TypeOK
        <3>2. base_images[k] \in InBatch(batch) <=> BatchNumber(k) = batch
            BY <3>1, BatchOf DEF BatchNumber
        <3>3. QED
            BY <2>1, <3>1, <3>2 DEF BatchesInOrder
    <2>3. ASSUME NEW k \in DOMAIN base_images PROVE BatchNumber(k) \in Nat /\ batch' \in Nat
        BY BatchIndex DEF BatchNumber, TypeOK
    <2>4. QED
        BY <1>0, <2>1, <2>2, <2>3 DEF BatchesInOrder
<1>7. CASE Tick \/ UNCHANGED vars
    <2>1. UNCHANGED <<batch, broken, raised, pc>>
        BY <1>7 DEF Tick, vars, parent
    <2>2. QED
        BY <1>0, <2>1, BatchesKept
<1>8. QED
    BY <1>1, <1>2, <1>3, <1>4, <1>5, <1>6, <1>7 DEF Next

LEMMA ResultsStep == TypeOK /\ ResultsSet /\ [Next]_vars => ResultsSet'
<1> SUFFICES ASSUME TypeOK, ResultsSet, [Next]_vars PROVE ResultsSet'
    OBVIOUS
<1> USE DEF ResultsSet
<1>1. ASSUME NEW i \in Images, BuildStep(i) PROVE ResultsSet'
    <2> PICK p \in Running \cup {"done"} : Moves(i, p)
        BY <1>1, BuildMoves
    <2>1. QED
        BY DEF Moves, Running, Failed, TypeOK
<1>2. CASE ProcessDies
    BY <1>2 DEF ProcessDies, Running, Failed, TypeOK
<1>3. ASSUME NEW i \in Images, WriteLine(i) \/ Submit(i) PROVE ResultsSet'
    BY <1>3 DEF WriteLine, Submit, Goto, TypeOK
<1>4. CASE NextBatch \/ SubmitRaises \/ Tick \/ UNCHANGED vars
    BY <1>4 DEF NextBatch, SubmitRaises, Tick, vars
<1>5. QED
    BY <1>1, <1>2, <1>3, <1>4 DEF Next

LEMMA BuiltStep == TypeOK /\ ResultsSet /\ BuiltIsThere /\ [Next]_vars => BuiltIsThere'
<1> SUFFICES ASSUME TypeOK, ResultsSet, BuiltIsThere, [Next]_vars PROVE BuiltIsThere'
    OBVIOUS
<1> USE DEF BuiltIsThere
<1>1. ASSUME NEW i \in Images, BuildStep(i) PROVE BuiltIsThere'
    <2>1. CASE BuildSkipped(i)
        BY <2>1 DEF BuildSkipped, PostBuild, Sees, Goto, Return, TypeOK
    <2>2. CASE BuildSucceeds(i)
        <3>1. result[i] = "none"
            BY <2>2 DEF BuildSucceeds, ResultsSet
        <3>2. QED
            BY <2>2, <3>1 DEF BuildSucceeds, PostBuild, Goto, Return, TypeOK
    <2>3. CASE WrapSucceeds(i)
        BY <2>3 DEF WrapSucceeds, Return, Goto, TypeOK
    <2>4. CASE Take(i) \/ BuildUntagged(i) \/ BuildFails(i)
        BY <2>4 DEF Take, BuildUntagged, BuildFails, Return, Goto, TypeOK
    <2>5. CASE ResetThrottled(i) \/ ResetBegins(i) \/ ResetEnds(i) \/ ResetRaises(i)
        BY <2>5 DEF ResetThrottled, ResetBegins, ResetEnds, ResetRaises, Retry, Return, Goto, TypeOK
    <2>6. CASE WrapFails(i) \/ WrapRaises(i) \/ GiveUp(i)
        BY <2>6 DEF WrapFails, WrapRaises, GiveUp, Return, Goto, TypeOK
    <2>7. QED
        BY <1>1, <2>1, <2>2, <2>3, <2>4, <2>5, <2>6 DEF BuildStep
<1>2. CASE ProcessDies
    BY <1>2 DEF ProcessDies, TypeOK
<1>3. ASSUME NEW i \in Images, WriteLine(i) \/ Submit(i) PROVE BuiltIsThere'
    BY <1>3 DEF WriteLine, Submit, Goto, TypeOK
<1>4. CASE NextBatch \/ SubmitRaises
    BY <1>4 DEF NextBatch, SubmitRaises, TypeOK
<1>5. CASE Tick \/ UNCHANGED vars
    BY <1>5 DEF Tick, vars
<1>6. QED
    BY <1>1, <1>2, <1>3, <1>4, <1>5 DEF Next

LEMMA LineType ==
    ASSUME TypeOK, NEW k \in DOMAIN manifest
    PROVE  manifest[k].image \in Images
<1>1. manifest \in Seq([image : Images, tags : BOOLEAN, error : BOOLEAN])
    BY DEF TypeOK
<1>2. k \in 1..Len(manifest)
    BY <1>1, LenProperties
<1>3. manifest[k] \in [image : Images, tags : BOOLEAN, error : BOOLEAN]
    BY <1>1, <1>2, ElementOfSeq
<1>4. QED
    BY <1>3

LEMMA LinesStep ==
    TypeOK /\ ResultsSet /\ LinesWritten /\ [Next]_vars => LinesWritten'
<1> SUFFICES ASSUME TypeOK, ResultsSet, LinesWritten, [Next]_vars
             PROVE  LinesWritten'
    OBVIOUS
<1>0. /\ manifest \in Seq([image : Images, tags : BOOLEAN, error : BOOLEAN])
      /\ \A k \in DOMAIN manifest : manifest[k].image \in Images
    BY LineType DEF TypeOK
\* What is written stays so, with its result, and no other image is called written.
<1>1. ASSUME UNCHANGED manifest,
             \A i \in Images : pc[i] = "written" => pc'[i] = "written" /\ result'[i] = result[i],
             \A i \in Images : pc'[i] = "written" => pc[i] = "written"
      PROVE  LinesWritten'
    <2>1. \A k \in DOMAIN manifest : /\ pc'[manifest[k].image] = "written"
                                     /\ Success(manifest[k]) <=> result'[manifest[k].image] = "built"
        BY <1>0, <1>1 DEF LinesWritten
    <2>2. \A i \in Images : pc'[i] = "written" => \E k \in DOMAIN manifest : manifest[k].image = i
        BY <1>1 DEF LinesWritten
    <2>3. \A j, k \in DOMAIN manifest : manifest[j].image = manifest[k].image => j = k
        BY DEF LinesWritten
    <2>4. UNCHANGED manifest
        BY <1>1
    <2>5. QED
        BY <2>1, <2>2, <2>3, <2>4, Zenon DEF LinesWritten
<1>2. ASSUME NEW i \in Images, BuildStep(i) PROVE LinesWritten'
    <2> PICK p \in Running \cup {"done"} : Moves(i, p)
        BY <1>2, BuildMoves
    <2>1. QED
        BY <1>1 DEF Moves, Running, Failed, parent, TypeOK
<1>3. CASE ProcessDies
    BY <1>1, <1>3 DEF ProcessDies, Running, Failed, TypeOK
<1>4. ASSUME NEW i \in Images, WriteLine(i) PROVE LinesWritten'
    <2> DEFINE line == Line(i)  L == Len(manifest)
    <2>1. /\ L \in Nat /\ DOMAIN manifest = 1..L
          /\ DOMAIN manifest' = 1..(L + 1) /\ manifest'[L + 1] = line
          /\ \A k \in 1..L : manifest'[k] = manifest[k]
        BY <1>0, <1>4 DEF WriteLine
    <2>2. line.image = i /\ (Success(line) <=> result[i] = "built")
        BY DEF Line, Success
    <2> HIDE DEF line, L
    <2>3. /\ UNCHANGED result /\ pc[i] = "done" /\ pc'[i] = "written"
          /\ \A j \in Images \ {i} : pc'[j] = pc[j]
        BY <1>4 DEF WriteLine, Goto, TypeOK
    <2>4. \A k \in 1..L : /\ manifest[k].image \in Images \ {i}
                          /\ pc'[manifest[k].image] = "written"
                          /\ Success(manifest[k]) <=> result'[manifest[k].image] = "built"
        BY <1>0, <2>1, <2>3 DEF LinesWritten
    <2>5. /\ \A k \in DOMAIN manifest' :
                /\ pc'[manifest'[k].image] = "written"
                /\ Success(manifest'[k]) <=> result'[manifest'[k].image] = "built"
        BY <2>1, <2>2, <2>3, <2>4
    <2>6. \A j, k \in DOMAIN manifest' : manifest'[j].image = manifest'[k].image => j = k
        BY <2>1, <2>2, <2>4 DEF LinesWritten
    <2>7. \A j \in Images : pc'[j] = "written" => \E k \in DOMAIN manifest' : manifest'[k].image = j
        BY <2>1, <2>2, <2>3 DEF LinesWritten
    <2>8. QED
        BY <2>5, <2>6, <2>7 DEF LinesWritten
<1>5. ASSUME NEW i \in Images, Submit(i) PROVE LinesWritten'
    <2>1. pc[i] = "waiting" /\ pc' = [pc EXCEPT ![i] = "queued"] /\ UNCHANGED <<result, manifest>>
        BY <1>5 DEF Submit, Goto, parent
    <2>2. QED
        BY <1>1, <2>1 DEF TypeOK
<1>6. CASE NextBatch \/ SubmitRaises
    BY <1>1, <1>6 DEF NextBatch, SubmitRaises
<1>7. CASE Tick \/ UNCHANGED vars
    BY <1>1, <1>7 DEF Tick, vars, parent
<1>8. QED
    BY <1>2, <1>3, <1>4, <1>5, <1>6, <1>7 DEF Next

-----------------------------------------------------------------------------
(* The resets.                                                             *)

LEMMA NotThrottled ==
    ASSUME TypeOK, NEW kind \in Kinds, NEW read \in Times, ~_should_throttle_reset(kind, read),
           NEW other \in Before(kind)
    PROVE  read[other] = Never \/ clock - read[other] >= Throttle
<1>1. other \in Kinds /\ read.full \in Never..MaxTime /\ read.partial \in Never..MaxTime /\ clock \in Nat
    BY BuilderAssumption DEF BuilderAssumption, TypeOK, Before, Kinds, Times
<1>2. QED
    BY <1>1, BuilderAssumption
       DEF BuilderAssumption, _should_throttle_reset, _last_reset_for_kind, Before, Kinds, Never

\* What a reset that begins without blame has seen.
LEMMA BeginsSeen ==
    ASSUME TypeOK, ResetLocked, NEW i \in Images, ResetBegins(i)
    PROVE  /\ blame \subseteq blame'
           /\ "lock" \notin blame' => lock = NoOne /\ lock' = i /\ \A j \in Images : pc[j] # "resetting"
           /\ blame' = {} => seen' = [seen EXCEPT ![i] = state] /\ ~_should_throttle_reset(Kind(i), state)
<1>0. PICK locked \in BOOLEAN : \E read \in Reads(locked) :
           /\ MayLock(locked) /\ Blamed(locked, read)
           /\ ~_should_throttle_reset(Kind(i), read)
           /\ lock' = IF locked THEN i ELSE lock
           /\ seen' = [seen EXCEPT ![i] = read]
    BY DEF ResetBegins
<1>1. PICK read \in Reads(locked) :
           /\ MayLock(locked) /\ Blamed(locked, read)
           /\ ~_should_throttle_reset(Kind(i), read)
           /\ lock' = IF locked THEN i ELSE lock
           /\ seen' = [seen EXCEPT ![i] = read]
    BY <1>0
<1>2. blame \subseteq blame'
    BY <1>1 DEF Blamed
<1>3. ASSUME "lock" \notin blame' PROVE lock = NoOne /\ lock' = i /\ \A j \in Images : pc[j] # "resetting"
    <2>1. locked
        BY <1>1, <1>3 DEF Blamed
    <2>2. lock = NoOne /\ lock' = i
        BY <1>1, <2>1 DEF MayLock
    <2>3. QED
        BY <1>2, <1>3, <2>2, BuilderAssumption DEF BuilderAssumption, Images, ResetLocked
<1>4. ASSUME blame' = {} PROVE read = state
    BY <1>1, <1>4 DEF Blamed
<1>5. QED
    BY <1>1, <1>2, <1>3, <1>4

LEMMA ResetStep == TypeOK /\ ResetLocked /\ [Next]_vars => ResetLocked'
<1> SUFFICES ASSUME TypeOK, ResetLocked, [Next]_vars PROVE ResetLocked'
    OBVIOUS
<1>0. clock \in 0..MaxTime /\ (blame = {} => state = ran)
    BY DEF TypeOK, ResetLocked
\* Nobody else begins a reset, and who is at one is left alone.
<1>1. ASSUME NEW i \in Images, ~(pc'[i] = "resetting"),
             \A j \in Images \ {i} : pc'[j] = pc[j] /\ attempt'[j] = attempt[j],
             \A j \in Images \ {i} : began'[j] = began[j] /\ seen'[j] = seen[j],
             \A j \in Images \ {i} : lock = j => lock' = j,
             UNCHANGED <<state, ran>>, blame \subseteq blame'
      PROVE  ResetLocked'
    BY <1>0, <1>1 DEF ResetLocked
<1>2. ASSUME NEW i \in Images, ~(pc'[i] = "resetting"),
             \A j \in Images \ {i} : pc'[j] = pc[j] /\ attempt'[j] = attempt[j],
             UNCHANGED resets
      PROVE  ResetLocked'
    BY <1>1, <1>2 DEF resets
<1>3. ASSUME NEW i \in Images, BuildStep(i) PROVE ResetLocked'
    <2>1. CASE Take(i)
        BY <1>2, <2>1 DEF Take, Goto, TypeOK
    <2>2. CASE BuildSkipped(i)
        BY <1>2, <2>2 DEF BuildSkipped, PostBuild, Goto, Return, TypeOK
    <2>3. CASE BuildSucceeds(i)
        BY <1>2, <2>3 DEF BuildSucceeds, PostBuild, Goto, Return, TypeOK
    <2>4. CASE BuildUntagged(i) \/ BuildFails(i) \/ WrapFails(i)
        BY <1>2, <2>4 DEF BuildUntagged, BuildFails, WrapFails, Goto, Return, TypeOK
    <2>5. CASE WrapSucceeds(i) \/ WrapRaises(i) \/ GiveUp(i)
        BY <1>2, <2>5 DEF WrapSucceeds, WrapRaises, GiveUp, Goto, Return, TypeOK
    <2>6. CASE ResetThrottled(i)
        <3>1. blame \subseteq blame'
            BY <2>6 DEF ResetThrottled, Blamed
        <3>2. QED
            BY <1>1, <2>6, <3>1 DEF ResetThrottled, Retry, Goto, TypeOK
    <2>7. CASE ResetBegins(i)
        <3>1. /\ blame \subseteq blame'
              /\ "lock" \notin blame' => lock' = i /\ \A j \in Images : pc[j] # "resetting"
              /\ blame' = {} => seen' = [seen EXCEPT ![i] = state]
            BY <2>7, BeginsSeen
        <3>2. /\ UNCHANGED <<state, ran, attempt>> /\ attempt[i] < max_retries - 1
              /\ began' = [began EXCEPT ![i] = clock]
              /\ \A j \in Images \ {i} : pc'[j] = pc[j]
            BY <2>7 DEF ResetBegins, Goto, TypeOK
        <3>3. blame' = {} => state' = ran'
            BY <1>0, <3>1, <3>2
        <3>4. ASSUME NEW j \in Images, pc'[j] = "resetting"
              PROVE  attempt'[j] < max_retries - 1 /\ began'[j] \in 0..MaxTime
            BY <1>0, <3>2, <3>4 DEF ResetLocked, TypeOK
        <3>5. ASSUME NEW j \in Images, pc'[j] = "resetting", "lock" \notin blame' PROVE j = i
            BY <3>1, <3>2, <3>5
        <3>6. ASSUME NEW j \in Images, pc'[j] = "resetting", blame' = {} PROVE seen'[j] = state'
            BY <3>1, <3>2, <3>5, <3>6 DEF TypeOK
        <3>7. QED
            BY <3>1, <3>3, <3>4, <3>5, <3>6 DEF ResetLocked
    <2>8. CASE ResetEnds(i)
        <3>1. /\ pc[i] = "resetting" /\ pc'[i] # "resetting"
              /\ \A j \in Images \ {i} : pc'[j] = pc[j] /\ attempt'[j] = attempt[j]
              /\ \A j \in Images \ {i} : began'[j] = began[j] /\ seen'[j] = seen[j]
              /\ \A j \in Images \ {i} : lock = j => lock' = j
              /\ blame \subseteq blame'
            BY <2>8 DEF ResetEnds, LetGo, Retry, Goto, TypeOK
        <3>2. "lock" \notin blame' => \A j \in Images : pc[j] = "resetting" => j = i
            BY <3>1 DEF ResetLocked
        <3>3. ASSUME blame' = {} PROVE state' = ran'
            <4>1. blame = {} /\ state'[Kind(i)] = began[i] /\ seen[i] = state /\ state = ran
                BY <2>8, <3>1, <3>3 DEF ResetEnds, ResetLocked
            <4>2. began[i] \in 0..MaxTime /\ Kind(i) \in Kinds /\ state \in Times
                BY <3>1 DEF ResetLocked, Kind, Kinds, TypeOK
            <4>3. state' \in {[state EXCEPT ![Kind(i)] = began[i]], state, Unknown}
                BY <2>8, <4>1 DEF ResetEnds, Written
            <4>4. CASE state' = Unknown
                BY <4>1, <4>2, <4>4, BuilderAssumption DEF Unknown, Never, BuilderAssumption
            <4>5. CASE state' = state
                <5>1. state = [state EXCEPT ![Kind(i)] = began[i]]
                    BY <4>1, <4>2, <4>5 DEF Times
                <5>2. QED
                    BY <2>8, <4>1, <4>5, <5>1 DEF ResetEnds
            <4>6. QED
                BY <2>8, <4>1, <4>3, <4>4, <4>5 DEF ResetEnds
        <3>4. ASSUME NEW j \in Images, pc'[j] = "resetting"
              PROVE  /\ attempt'[j] < max_retries - 1 /\ began'[j] \in 0..MaxTime
                     /\ "lock" \in blame'
            BY <3>1, <3>2, <3>4 DEF ResetLocked
        <3>5. QED
            BY <3>3, <3>4 DEF ResetLocked
    <2>9. CASE ResetRaises(i)
        BY <1>1, <2>9 DEF ResetRaises, LetGo, Return, Goto, TypeOK
    <2>10. QED
        BY <1>3, <2>1, <2>2, <2>3, <2>4, <2>5, <2>6, <2>7, <2>8, <2>9 DEF BuildStep
<1>4. CASE ProcessDies
    <2>1. \A i \in Images : pc'[i] # "resetting"
        BY <1>4 DEF ProcessDies, Running, Failed
    <2>2. blame' = {} => state' = ran'
        BY <1>0, <1>4 DEF ProcessDies
    <2>3. QED
        BY <2>1, <2>2 DEF ResetLocked
<1>5. ASSUME NEW i \in Images, WriteLine(i) \/ Submit(i) PROVE ResetLocked'
    BY <1>2, <1>5 DEF WriteLine, Submit, Goto, TypeOK
<1>6. CASE NextBatch \/ SubmitRaises \/ Tick \/ UNCHANGED vars
    <2>1. UNCHANGED <<pc, attempt, began, seen, lock, state, ran, blame>>
        BY <1>6 DEF NextBatch, SubmitRaises, Tick, vars, resets
    <2>2. QED
        BY <2>1 DEF ResetLocked
<1>7. QED
    BY <1>3, <1>4, <1>5, <1>6 DEF Next

-----------------------------------------------------------------------------
(* The theorems.                                                           *)

LEMMA IInvStep == IInv /\ [Next]_vars => IInv'
BY TypeStep, BatchesStep, ResultsStep, BuiltStep, LinesStep, ResetStep DEF IInv

LEMMA IInvAlways == Spec => []IInv
BY InitIInv, IInvStep, PTL DEF Spec

\* build_all_images: when the run returns every image has exactly one line in the manifest,
\* whatever processes died; when a death during a submission ends it, those of the batches
\* before have one and the others none; and the exit status is 0 exactly if every image was
\* built.
THEOREM ManifestIsComplete == Spec => []ManifestComplete
<1>1. IInv => ManifestComplete
    <2> SUFFICES ASSUME IInv, Ended PROVE
              /\ raised => broken
              /\ \A i \in Images :
                    Cardinality({k \in DOMAIN manifest : manifest[k].image = i})
                       = IF raised /\ ~Earlier(i) THEN 0 ELSE 1
              /\ exit_code = 0 <=> \A i \in Images : result[i] = "built"
        BY DEF ManifestComplete
    <2>0. TypeOK /\ (raised => broken /\ ~Submitted)
        BY DEF IInv, BatchesInOrder
    \* An image is written if its batch is over, and only then if the run was ended early.
    <2>1. ASSUME NEW i \in Images
          PROVE  IF raised /\ ~Earlier(i) THEN pc[i] # "written" ELSE pc[i] = "written"
        <3> PICK k \in DOMAIN base_images : base_images[k] = i
            BY Placed
        <3>1. BatchNumber(k) \in 1..batches /\ batches \in Nat /\ batch \in Nat
            BY <2>0, BatchIndex DEF BatchNumber, TypeOK
        <3>2. Earlier(i) <=> BatchNumber(k) < batch
            <4>1. \A n \in 1..(batch - 1) : i \in InBatch(n) <=> BatchNumber(k) = n
                BY BatchOf DEF BatchNumber
            <4>2. QED
                BY <3>1, <4>1 DEF Earlier
        <3>3. ~raised => batch = batches + 1
            BY DEF Ended
        <3>4. /\ BatchNumber(k) < batch => pc[i] = "written"
              /\ BatchNumber(k) > batch => pc[i] = "waiting"
              /\ BatchNumber(k) = batch /\ pc[i] = "written" => Submitted
            BY DEF IInv, BatchesInOrder
        <3>5. QED
            BY <2>0, <3>1, <3>2, <3>3, <3>4
    <2>2. ASSUME NEW i \in Images
          PROVE  Cardinality({k \in DOMAIN manifest : manifest[k].image = i})
                    = IF pc[i] = "written" THEN 1 ELSE 0
        <3>1. CASE pc[i] = "written"
            <4> PICK k \in DOMAIN manifest : manifest[k].image = i
                BY <3>1 DEF IInv, LinesWritten
            <4>1. {j \in DOMAIN manifest : manifest[j].image = i} = {k}
                BY DEF IInv, LinesWritten
            <4>2. QED
                BY <3>1, <4>1, FS_Singleton
        <3>2. CASE pc[i] # "written"
            <4>1. {j \in DOMAIN manifest : manifest[j].image = i} = {}
                BY <3>2 DEF IInv, LinesWritten
            <4>2. QED
                BY <3>2, <4>1, FS_EmptySet
        <3>3. QED
            BY <3>1, <3>2
    <2>3. exit_code = 0 <=> ~raised /\ \A k \in DOMAIN manifest : Success(manifest[k])
        BY DEF exit_code
    <2>4. \A k \in DOMAIN manifest : /\ manifest[k].image \in Images
                                     /\ Success(manifest[k]) <=> result[manifest[k].image] = "built"
        BY <2>0, LineType DEF IInv, LinesWritten
    <2>5. ~raised => \A i \in Images : \E k \in DOMAIN manifest : manifest[k].image = i
        BY <2>1 DEF IInv, LinesWritten
    <2>6. raised => \E i \in Images : result[i] # "built"
        <3>1. raised => \E i \in InBatch(batch) : pc[i] = "waiting"
            BY <2>0 DEF Submitted
        <3>2. InBatch(batch) \subseteq Images
            BY DEF InBatch, Images, ToSet
        <3>3. QED
            BY <3>1, <3>2 DEF IInv, ResultsSet
    <2>7. exit_code = 0 <=> \A i \in Images : result[i] = "built"
        BY <2>3, <2>4, <2>5, <2>6
    <2>8. QED
        BY <2>0, <2>1, <2>2, <2>7
<1>2. QED
    BY <1>1, IInvAlways, PTL

\* _build_with_logging, _wrap_if_needed: a line with a tag and without an error is true for
\* good.
THEOREM LinesHold == Spec => []LineHolds
<1>1. IInv => LineHolds
    <2> SUFFICES ASSUME TypeOK, BuiltIsThere, LinesWritten, NEW k \in DOMAIN manifest,
                        Success(manifest[k])
                 PROVE  registry[manifest[k].image]
                          = IF manifest[k].image \in NeedWrap THEN "wrapped" ELSE "plain"
        BY DEF IInv, LineHolds
    <2>1. manifest[k].image \in Images /\ result[manifest[k].image] = "built"
        BY LineType DEF LinesWritten
    <2>2. QED
        BY <2>1 DEF BuiltIsThere
<1>2. QED
    BY <1>1, IInvAlways, PTL

\* reset_buildkit: with a lock that works no two resets run together, and with a state file
\* that does too they begin a throttle's length apart, because one process at a time is
\* between reading the file and writing it.
THEOREM ResetsKeepApart == Spec => ResetsApart
<1>1. ASSUME IInv, [Next]_vars, NEW i \in Images, Begins(i)
      PROVE  /\ "lock" \notin blame' => \A j \in Images : pc[j] # "resetting"
             /\ blame' = {} => \A kind \in Before(Kind(i)) :
                                  ran[kind] = Never \/ clock - ran[kind] >= Throttle
    <2>1. ResetBegins(i)
        <3>1. ~UNCHANGED pc
            BY <1>1 DEF Begins
        <3>2. PICK j \in Images : BuildStep(j)
            BY <1>1, <3>1 DEF Next, Begins, Tick, ProcessDies, Running, Failed, Submit, WriteLine,
                              SubmitRaises, NextBatch, Goto, vars, IInv, TypeOK
        <3>3. i = j /\ \E p \in Running \cup {"done"} : Moves(j, p)
            BY <1>1, <3>2, BuildMoves DEF Moves, Begins, IInv, TypeOK
        <3>4. QED
            BY <1>1, <3>2, <3>3 DEF BuildStep, Begins, Take, BuildSkipped, BuildSucceeds,
               BuildUntagged, BuildFails, WrapSucceeds, WrapFails, WrapRaises, GiveUp, ResetThrottled,
               ResetEnds, ResetRaises, PostBuild, Retry, Return, Goto, IInv, TypeOK
    <2>2. /\ blame \subseteq blame'
          /\ "lock" \notin blame' => \A j \in Images : pc[j] # "resetting"
          /\ blame' = {} => ~_should_throttle_reset(Kind(i), state)
        BY <1>1, <2>1, BeginsSeen DEF IInv
    <2>3. Kind(i) \in Kinds /\ TypeOK /\ state \in Times /\ (blame = {} => state = ran)
        BY <1>1 DEF Kind, Kinds, IInv, TypeOK, ResetLocked
    <2>4. blame' = {} => \A kind \in Before(Kind(i)) :
                            state[kind] = Never \/ clock - state[kind] >= Throttle
        BY <2>2, <2>3, NotThrottled
    <2>5. QED
        BY <2>2, <2>3, <2>4
<1>2. IInv /\ [Next]_vars =>
        [\A i \in Images : Begins(i) =>
            /\ "lock" \notin blame' => \A j \in Images : pc[j] # "resetting"
            /\ blame' = {} => \A kind \in Before(Kind(i)) :
                                 ran[kind] = Never \/ clock - ran[kind] >= Throttle]_vars
    BY <1>1
<1>3. QED
    BY <1>2, IInvAlways, PTL DEF Spec, ResetsApart
=============================================================================
