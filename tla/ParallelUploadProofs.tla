------------------------ MODULE ParallelUploadProofs ------------------------
(***************************************************************************)
(* Theorems about ParallelUpload, for every file size, number of jobs,     *)
(* number of parts and budget of retries.                                  *)
(***************************************************************************)
EXTENDS ParallelUpload, PartitionProofs, FiniteSetTheorems, SequenceTheorems

\* Every piece of a split has a size, wrapped or not.
LEMMA PieceTypes ==
  ASSUME NEW total \in Nat, NEW n \in Nat \ {0}, NEW k \in 0 .. n - 1,
         total + n <= Word
  PROVE  /\ PieceFrom(total, n, k) \in Nat
         /\ PieceLen(total, n, k) \in 0 .. total
  <1> DEFINE p == PieceSize(total, n)
  <1>1. p \in Nat /\ n * p < total + n /\ p <= total
    BY PieceSizeBounds, CallAssumption
  <1> HIDE DEF p
  <1>2. k * p \in Nat /\ n * p \in Nat /\ k * p <= n * p
    BY <1>1, ProductGrows
  <1>3. PieceFrom(total, n, k) = k * p
    BY DEF PieceFrom, p
  <1>4. Sub(total, k * p) \in Nat
    BY <1>1, <1>2, CallAssumption DEF Sub
  <1> QED BY <1>1, <1>2, <1>3, <1>4 DEF PieceLen, Least, p

\* The offsets and sizes of the upload are natural numbers.
LEMMA PlanTypes ==
  ASSUME NEW j \in JobIds
  PROVE  /\ JobFrom(j) \in Nat
         /\ Chunk(FileSize, Jobs, j) \in 0 .. FileSize
         /\ Chunk(FileSize, Jobs, j) + PartsPerJob <= Word
         /\ \A n \in 0 .. PartsPerJob - 1 :
              /\ PieceFrom(Chunk(FileSize, Jobs, j), PartsPerJob, n) \in Nat
              /\ PartSizeOf(j, n) \in Nat
  <1>1. FileSize + Jobs <= Word
    BY CallAssumption
  <1>2. JobFrom(j) \in Nat /\ Chunk(FileSize, Jobs, j) \in 0 .. FileSize
    BY <1>1, PieceTypes, CallAssumption DEF JobIds, JobFrom, Chunk
  <1>3. /\ Chunk(FileSize, Jobs, j) \in Nat
        /\ Chunk(FileSize, Jobs, j) + PartsPerJob <= Word
    BY <1>2, CallAssumption
  <1> QED BY <1>2, <1>3, PieceTypes, CallAssumption DEF PartSizeOf, PartLen

\* The numbers of the parts.
LEMMA PartNumberRange ==
  ASSUME NEW j \in JobIds, NEW n \in 0 .. PartsPerJob - 1
  PROVE  PartNumber(j, n) \in PartNumbers
  <1>1. j * PartsPerJob + PartsPerJob <= Jobs * PartsPerJob
    <2>1. (j + 1) * PartsPerJob <= Jobs * PartsPerJob
      BY CallAssumption, ProductGrows DEF JobIds
    <2>2. (j + 1) * PartsPerJob = j * PartsPerJob + PartsPerJob
      BY CallAssumption, NextMultiple DEF JobIds
    <2> QED BY <2>1, <2>2
  <1>2. j * PartsPerJob \in Nat /\ Jobs * PartsPerJob \in Nat
    BY CallAssumption DEF JobIds
  <1> QED BY <1>1, <1>2, CallAssumption DEF PartNumber, PartNumbers

-----------------------------------------------------------------------------
TypeInv == TypeOK /\ Progress

LEMMA InitTypes == Init => TypeInv
  <1> SUFFICES ASSUME Init PROVE TypeInv
    OBVIOUS
  <1>1. 0 \in JobIds
    BY CallAssumption DEF JobIds
  <1>2. offset \in [JobIds -> Nat]
    BY PlanTypes DEF Init
  <1>3. etags \in [JobIds -> Seq(Content)] /\ vetags \in Seq(Content)
    BY DEF Init
  <1>4. job \in [JobIds -> JobStates] /\ i \in [JobIds -> 0 .. PartsPerJob]
    BY CallAssumption DEF Init, JobStates
  <1>5. stored \in [PartNumbers -> Content \cup {NoPart}]
    BY DEF Init
  <1>6. TypeOK
    BY <1>1, <1>2, <1>3, <1>4, <1>5 DEF Init, TypeOK, Mains
  <1> QED BY <1>6, CallAssumption DEF Init, TypeInv, Progress

\* The request of a job that is sending is a request of the upload.
LEMMA SentTypes ==
  ASSUME TypeInv, NEW j \in JobIds, job[j] # "done"
  PROVE  /\ i[j] \in 0 .. PartsPerJob - 1
         /\ Body(j) \in Content
         /\ PartSizeOf(j, i[j]) \in Nat
         /\ PartNumber(j, i[j]) \in PartNumbers
         /\ Sent(j) \in Requests
  <1>1. i[j] \in 0 .. PartsPerJob - 1
    BY CallAssumption DEF TypeInv, TypeOK, Progress
  <1>2. PartSizeOf(j, i[j]) \in Nat /\ PartNumber(j, i[j]) \in PartNumbers
    BY <1>1, PlanTypes, PartNumberRange
  <1>3. Body(j) \in Content
    BY <1>2 DEF TypeInv, TypeOK, Body, Content
  <1> QED BY <1>1, <1>2, <1>3 DEF Sent, Requests

\* What an attempt that throws does to the types and the progress of a job.
LEMMA CaughtTypes ==
  ASSUME TypeInv, NEW j \in JobIds, job[j] \in {"send", "sent", "stored"}, Caught(j)
  PROVE  /\ job' \in [JobIds -> JobStates]
         /\ job'[j] \in {"send", "failed"}
         /\ \A k \in JobIds \ {j} : job'[k] = job[k]
         /\ retriesG' \in Nat /\ granted' \in Nat
  <1>1. job \in [JobIds -> JobStates] /\ retriesG \in Nat /\ granted \in Nat
    BY DEF TypeInv, TypeOK
  <1>2. retriesG' = retriesG + 1 /\ granted' \in {granted, granted + 1}
    BY DEF Caught
  <1>3. job' = [job EXCEPT ![j] = "send"] \/ job' = [job EXCEPT ![j] = "failed"]
    BY DEF Caught
  <1> QED BY <1>1, <1>2, <1>3 DEF JobStates

\* The loops over the futures stay within the jobs.
LEMMA FollowingJob ==
  ASSUME NEW j \in JobIds, j + 1 < Jobs
  PROVE  j + 1 \in JobIds
  BY CallAssumption DEF JobIds

LEMMA NextTypes == TypeInv /\ [Next]_vars => TypeOK'
  <1> SUFFICES ASSUME TypeInv, [Next]_vars PROVE TypeOK'
    OBVIOUS
  <1> USE DEF TypeInv, TypeOK, call, caller, jobs, server, net
  <1>1. CASE Launch
    <2>1. job' \in [JobIds -> JobStates]
      BY <1>1 DEF Launch, JobStates
    <2>2. next' \in {next + 1, 0} /\ (next' = next + 1 => next + 1 < Jobs \/ next' = 0)
      BY <1>1 DEF Launch
    <2>3. 0 \in JobIds
      BY CallAssumption DEF JobIds
    <2>4. next' \in JobIds
      BY <2>2, <2>3, FollowingJob
    <2> QED BY <1>1, <2>1, <2>4 DEF Launch, Mains
  <1>2. CASE RunDeferred
    <2>1. job' \in [JobIds -> JobStates]
      BY <1>2 DEF RunDeferred, JobStates
    <2> QED BY <1>2, <2>1 DEF RunDeferred
  <1>3. CASE Collect
    <2>1. next' \in JobIds
      BY <1>3, FollowingJob DEF Collect
    <2>2. vetags' \in Seq(Content)
      BY <1>3 DEF Collect
    <2> QED BY <1>3, <2>1, <2>2 DEF Collect, Mains
  <1>4. CASE CollectFails \/ Unwind \/ LaunchFails
    BY <1>4 DEF CollectFails, Unwind, LaunchFails, Mains
  <1>5. CASE CreateStep
    BY <1>5 DEF CreateStep, CreateUpload, CreateFails, CreateUnnamed, Mains
  <1>6. CASE CompleteStep
    BY <1>6 DEF CompleteStep, ServerCompletes, CompleteAnswered,
                CompleteFails, Publish, Mains
  <1>7. CASE LateCompletion
    BY <1>7 DEF LateCompletion, Publish
  <1>8. ASSUME NEW j \in JobIds, SendPart(j) PROVE TypeOK'
    <2>1. job' \in [JobIds -> JobStates]
      BY <1>8 DEF SendPart, JobStates
    <2> QED BY <1>8, <2>1 DEF SendPart
  <1>9. ASSUME NEW j \in JobIds, FileRefused(j) PROVE TypeOK'
    BY <1>9, CaughtTypes DEF FileRefused, Caught
  <1>10. ASSUME NEW j \in JobIds, ServerStores(j) PROVE TypeOK'
    <2>1. job' \in [JobIds -> JobStates]
      BY <1>10 DEF ServerStores, JobStates
    <2>2. stored' \in [PartNumbers -> Content \cup {NoPart}]
      BY <1>10, SentTypes DEF ServerStores, StorePart, Sent
    <2> QED BY <1>10, <2>1, <2>2 DEF ServerStores
  <1>11. ASSUME NEW j \in JobIds, PartAnswered(j) PROVE TypeOK'
    <2>1. job' \in [JobIds -> JobStates]
      BY <1>11 DEF PartAnswered, JobStates
    <2>2. i' \in [JobIds -> 0 .. PartsPerJob]
      <3>1. i[j] + 1 \in 0 .. PartsPerJob
        <4>1. i[j] \in 0 .. PartsPerJob - 1
          BY <1>11, SentTypes DEF PartAnswered
        <4> QED BY <4>1, CallAssumption
      <3> QED BY <1>11, <3>1 DEF PartAnswered
    <2>3. offset' \in [JobIds -> Nat]
      <3>1. offset[j] + PartSizeOf(j, i[j]) \in Nat
        <4>1. PartSizeOf(j, i[j]) \in Nat /\ offset[j] \in Nat
          BY <1>11, SentTypes DEF PartAnswered
        <4> QED BY <4>1
      <3> QED BY <1>11, <3>1 DEF PartAnswered
    <2>4. etags' \in [JobIds -> Seq(Content)]
      <3>1. Append(etags[j], Body(j)) \in Seq(Content)
        BY <1>11, SentTypes DEF PartAnswered
      <3> QED BY <1>11, <3>1 DEF PartAnswered
    <2> QED BY <1>11, <2>1, <2>2, <2>3, <2>4 DEF PartAnswered
  <1>12. ASSUME NEW j \in JobIds, BodyTooShort(j) PROVE TypeOK'
    <2>1. orphans' \subseteq Requests
      BY <1>12, SentTypes DEF BodyTooShort, MayArriveLate
    <2> QED BY <1>12, <2>1, CaughtTypes DEF BodyTooShort, MayArriveLate, Caught
  <1>13. ASSUME NEW j \in JobIds, PartFails(j) PROVE TypeOK'
    <2>1. orphans' \subseteq Requests
      BY <1>13, SentTypes DEF PartFails, MayArriveLate
    <2> QED BY <1>13, <2>1, CaughtTypes DEF PartFails, MayArriveLate, Caught
  <1>14. ASSUME NEW r \in orphans, OrphanArrives(r) PROVE TypeOK'
    <2>1. stored' \in [PartNumbers -> Content \cup {NoPart}]
      BY <1>14 DEF OrphanArrives, StorePart, Requests
    <2> QED BY <1>14, <2>1 DEF OrphanArrives
  <1>15. CASE UNCHANGED vars
    BY <1>15 DEF vars
  <1> QED
    BY <1>1, <1>2, <1>3, <1>4, <1>5, <1>6, <1>7, <1>8, <1>9, <1>10, <1>11, <1>12,
       <1>13, <1>14, <1>15 DEF Next, CallerStep, JobStep, AttemptStep, Over

\* Every step leaves a job that has not ended with a part to send.
LEMMA NextProgress == TypeInv /\ [Next]_vars => Progress'
  <1> SUFFICES ASSUME TypeInv, [Next]_vars PROVE Progress'
    OBVIOUS
  <1> USE DEF TypeInv, Progress, call, caller, jobs, server, net
  <1>1. CASE Launch
    <2>1. next \in JobIds /\ job[next] = "idle" /\ job \in [JobIds -> JobStates]
      BY <1>1 DEF Launch, TypeOK, JobIds
    <2>2. \A j \in JobIds \ {next} : job'[j] = job[j]
      BY <1>1, <2>1 DEF Launch
    <2>3. main' = "launch" => \A j \in JobIds : next' <= j => job'[j] = "idle"
      BY <1>1, <2>1 DEF Launch, JobIds
    <2>4. job'[next] \in {"deferred", "send"} /\ i[next] = 0
      BY <1>1, <2>1 DEF Launch
    <2> QED BY <1>1, <2>1, <2>2, <2>3, <2>4, CallAssumption DEF Launch
  <1>2. CASE RunDeferred
    BY <1>2 DEF RunDeferred, TypeOK
  <1>3. CASE Collect \/ CollectFails \/ Unwind \/ LaunchFails
    BY <1>3 DEF Collect, CollectFails, Unwind, LaunchFails
  <1>4. CASE CreateStep
    BY <1>4 DEF CreateStep, CreateUpload, CreateFails, CreateUnnamed
  <1>5. CASE CompleteStep \/ LateCompletion
    BY <1>5 DEF CompleteStep, ServerCompletes, CompleteAnswered,
                CompleteFails, LateCompletion
  <1>6. ASSUME NEW j \in JobIds, SendPart(j) PROVE Progress'
    BY <1>6 DEF SendPart, TypeOK
  <1>7. ASSUME NEW j \in JobIds, Caught(j), job[j] \in {"send", "sent", "stored"}
        PROVE  Progress'
    BY <1>7, CaughtTypes DEF Caught
  <1>8. ASSUME NEW j \in JobIds, ServerStores(j) PROVE Progress'
    BY <1>8 DEF ServerStores, TypeOK
  <1>9. ASSUME NEW j \in JobIds, PartAnswered(j) PROVE Progress'
    <2>1. i[j] \in 0 .. PartsPerJob - 1 /\ job[j] = "stored"
      BY <1>9, SentTypes DEF PartAnswered
    <2>2. \A k \in JobIds \ {j} : job'[k] = job[k] /\ i'[k] = i[k]
      BY <1>9 DEF PartAnswered, TypeOK
    <2>3. /\ i'[j] = i[j] + 1
          /\ job'[j] = IF i[j] + 1 = PartsPerJob THEN "done" ELSE "send"
      BY <1>9 DEF PartAnswered, TypeOK
    <2> QED BY <1>9, <2>1, <2>2, <2>3, CallAssumption DEF PartAnswered
  <1>10. ASSUME NEW r \in orphans, OrphanArrives(r) PROVE Progress'
    BY <1>10 DEF OrphanArrives
  <1>11. CASE UNCHANGED vars
    BY <1>11 DEF vars
  <1> QED
    BY <1>1, <1>2, <1>3, <1>4, <1>5, <1>6, <1>7, <1>8, <1>9, <1>10, <1>11
       DEF Next, CallerStep, JobStep, AttemptStep, FileRefused, BodyTooShort,
           PartFails, Over

LEMMA TypeAlways == Spec => []TypeInv
  <1>1. TypeInv /\ [Next]_vars => TypeInv'
    BY NextTypes, NextProgress DEF TypeInv
  <1> QED BY <1>1, InitTypes, PTL DEF Spec

(* Every variable keeps its type: the sizes computed are natural numbers   *)
(* because a job only computes the size of a part it has left, and no loop *)
(* over jobs or parts runs past its end (upload.cpp:97-110, 136-147).      *)
THEOREM TypeCorrect == Spec => [](TypeOK /\ Progress)
  BY TypeAlways, PTL DEF TypeInv

-----------------------------------------------------------------------------
\* Only the handler of a failed attempt touches the counter, and only there
\* does a job give up.
LEMMA NextRetries ==
  ASSUME TypeInv, [Next]_vars
  PROVE  \/ UNCHANGED <<retriesG, granted>> /\ FailedJobs' = FailedJobs
         \/ \E j \in JobIds : job[j] \in {"send", "sent", "stored"} /\ Caught(j)
  <1> DEFINE Same == UNCHANGED <<retriesG, granted>> /\ FailedJobs' = FailedJobs
  <1>0. job \in [JobIds -> JobStates]
    BY DEF TypeInv, TypeOK
  <1>1. CASE UNCHANGED job /\ UNCHANGED <<retriesG, granted>>
    BY <1>1 DEF FailedJobs
  <1>2. CASE Launch
    <2>1. next \in JobIds /\ job[next] = "idle"
      BY <1>2 DEF Launch, TypeInv, TypeOK, Progress, JobIds
    <2> QED BY <1>0, <1>2, <2>1 DEF Launch, FailedJobs
  <1>3. CASE RunDeferred
    <2>1. next \in JobIds
      BY DEF TypeInv, TypeOK
    <2> QED BY <1>0, <1>3, <2>1 DEF RunDeferred, FailedJobs
  <1>4. ASSUME NEW j \in JobIds, SendPart(j) \/ ServerStores(j) \/ PartAnswered(j)
        PROVE  Same
    <2>1. job[j] # "failed"
      BY <1>4 DEF SendPart, ServerStores, PartAnswered
    <2>2. \E s \in JobStates \ {"failed"} : job' = [job EXCEPT ![j] = s]
      BY <1>4 DEF SendPart, ServerStores, PartAnswered, JobStates
    <2>3. UNCHANGED <<retriesG, granted>>
      BY <1>4 DEF SendPart, ServerStores, PartAnswered, jobs
    <2> QED BY <1>0, <2>1, <2>2, <2>3 DEF FailedJobs
  <1>5. ASSUME NEW j \in JobIds, FileRefused(j) \/ BodyTooShort(j) \/ PartFails(j)
        PROVE  job[j] \in {"send", "sent", "stored"} /\ Caught(j)
    BY <1>5 DEF FileRefused, BodyTooShort, PartFails
  <1>6. \/ UNCHANGED job /\ UNCHANGED <<retriesG, granted>>
        \/ Launch \/ RunDeferred
        \/ \E j \in JobIds : SendPart(j) \/ ServerStores(j) \/ PartAnswered(j)
        \/ \E j \in JobIds : FileRefused(j) \/ BodyTooShort(j) \/ PartFails(j)
    BY DEF Next, CallerStep, JobStep, AttemptStep, CreateStep, CompleteStep,
           CreateUpload, CreateFails, CreateUnnamed, Collect, CollectFails, Unwind, LaunchFails,
           ServerCompletes, CompleteAnswered, CompleteFails,
           LateCompletion, OrphanArrives, Over, vars, jobs
  <1> QED BY <1>1, <1>2, <1>3, <1>4, <1>5, <1>6

LEMMA JobsFinite ==
  ASSUME NEW S \in SUBSET JobIds
  PROVE  /\ IsFiniteSet(S) /\ Cardinality(S) \in Nat /\ Cardinality(S) <= Jobs
  <1>1. IsFiniteSet(JobIds) /\ Cardinality(JobIds) = Jobs
    BY FS_Interval, CallAssumption DEF JobIds
  <1> QED BY <1>1, FS_Subset, FS_CardinalityType

LEMMA RetryStep ==
  ASSUME TypeInv, RetryInv, [Next]_vars
  PROVE  RetryInv'
  <1>1. CASE UNCHANGED <<retriesG, granted>> /\ FailedJobs' = FailedJobs
    BY <1>1 DEF RetryInv
  <1>2. ASSUME NEW j \in JobIds, job[j] \in {"send", "sent", "stored"}, Caught(j)
        PROVE  RetryInv'
    <2>1. job \in [JobIds -> JobStates] /\ retriesG \in Nat /\ granted \in Nat
      BY DEF TypeInv, TypeOK
    <2>2. /\ FailedJobs \in SUBSET JobIds /\ j \notin FailedJobs
          /\ Cardinality(FailedJobs) \in Nat
      BY <1>2, JobsFinite DEF FailedJobs
    <2>3. CASE retriesG < MaxRetries
      <3>1. FailedJobs' = FailedJobs
        BY <1>2, <2>1, <2>3 DEF Caught, FailedJobs
      <3>2. retriesG' = retriesG + 1 /\ granted' = granted + 1
        BY <1>2, <2>3 DEF Caught
      <3>3. granted = retriesG
        BY <2>1, <2>3, CallAssumption DEF RetryInv, Least
      <3>4. FailedJobs = {}
        BY <2>1, <2>3, <3>3, CallAssumption DEF RetryInv
      <3> QED BY <2>1, <2>2, <2>3, <3>1, <3>2, <3>3, <3>4, CallAssumption
              DEF RetryInv, Least
    <2>4. CASE ~(retriesG < MaxRetries)
      <3>1. FailedJobs' = FailedJobs \cup {j}
        BY <1>2, <2>1, <2>4 DEF Caught, FailedJobs
      <3>2. Cardinality(FailedJobs') = Cardinality(FailedJobs) + 1
        BY <2>2, <3>1, JobsFinite, FS_AddElement
      <3>3. retriesG' = retriesG + 1 /\ granted' = granted
        BY <1>2, <2>4 DEF Caught
      <3>4. granted = MaxRetries
        BY <2>1, <2>4, CallAssumption DEF RetryInv, Least
      <3> QED BY <2>1, <2>2, <2>4, <3>2, <3>3, <3>4, CallAssumption
              DEF RetryInv, Least
    <2> QED BY <2>3, <2>4
  <1> QED BY <1>1, <1>2, NextRetries

(* Whatever the number of jobs and the order of their failures, the jobs   *)
(* together make at most cfg.maxRetries attempts again, the counter        *)
(* exceeds the budget by at most one per job, and no job gives up before   *)
(* the budget of the whole call is spent.                                  *)
THEOREM RetriesBounded == Spec => []RetryBudget
  <1>1. Init => RetryInv
    <2> SUFFICES ASSUME Init PROVE RetryInv
      OBVIOUS
    <2>1. FailedJobs = {}
      BY DEF Init, FailedJobs
    <2> QED BY <2>1, FS_EmptySet, CallAssumption DEF Init, RetryInv, Least
  <1>2. TypeInv /\ RetryInv /\ [Next]_vars => RetryInv'
    BY RetryStep
  <1>3. TypeInv /\ RetryInv => RetryBudget
    <2> SUFFICES ASSUME TypeInv, RetryInv PROVE RetryBudget
      OBVIOUS
    <2>1. retriesG \in Nat /\ granted \in Nat
      BY DEF TypeInv, TypeOK
    <2>2. FailedJobs \in SUBSET JobIds
      BY DEF FailedJobs
    <2>3. Cardinality(FailedJobs) \in Nat /\ Cardinality(FailedJobs) <= Jobs
      BY <2>2, JobsFinite
    <2>4. granted <= MaxRetries /\ retriesG <= MaxRetries + Jobs
      BY <2>1, <2>3, CallAssumption DEF RetryInv, Least
    <2>5. (\E j \in JobIds : job[j] = "failed") => granted = MaxRetries
      BY DEF RetryInv, FailedJobs
    <2> QED BY <2>4, <2>5 DEF RetryBudget
  <1> QED BY <1>1, <1>2, <1>3, TypeAlways, PTL DEF Spec

-----------------------------------------------------------------------------
\* The ways a job changes state.
LEMMA JobMoves ==
  ASSUME TypeInv, [Next]_vars, NEW j \in JobIds
  PROVE  \/ job'[j] = job[j]
         \/ /\ job[j] = "idle" /\ Launch /\ j = next
            /\ job'[j] = IF sync THEN "deferred" ELSE "send"
         \/ job[j] = "deferred" /\ RunDeferred /\ j = next /\ job'[j] = "send"
         \/ job[j] \in {"send", "sent", "stored"} /\ job'[j] \notin {"idle", "deferred"}
  <1>0. job \in [JobIds -> JobStates] /\ next \in JobIds
    BY DEF TypeInv, TypeOK
  <1>1. CASE UNCHANGED job
    BY <1>1
  <1>2. CASE Launch
    <2>1. job[next] = "idle"
      BY <1>0, <1>2 DEF Launch, TypeInv, Progress, JobIds
    <2> QED BY <1>0, <1>2, <2>1 DEF Launch
  <1>3. CASE RunDeferred
    BY <1>0, <1>3 DEF RunDeferred
  <1>4. ASSUME NEW k \in JobIds, JobStep(k) \/ AttemptStep(k)
        PROVE  /\ job[k] \in {"send", "sent", "stored"}
               /\ \E s \in {"send", "sent", "stored", "done", "failed"} :
                    job' = [job EXCEPT ![k] = s]
    BY <1>4 DEF JobStep, AttemptStep, SendPart, FileRefused, ServerStores,
                PartAnswered, BodyTooShort, PartFails, Caught
  <1>5. CASE \E k \in JobIds : JobStep(k) \/ AttemptStep(k)
    BY <1>0, <1>4, <1>5
  <1>6. \/ UNCHANGED job \/ Launch \/ RunDeferred
        \/ \E k \in JobIds : JobStep(k) \/ AttemptStep(k)
    BY DEF Next, CallerStep, CreateStep, CompleteStep, CreateUpload, CreateFails, CreateUnnamed,
           Collect, CollectFails, Unwind, LaunchFails, ServerCompletes,
           CompleteAnswered, CompleteFails, LateCompletion,
           OrphanArrives, Over, vars, jobs
  <1> QED BY <1>1, <1>2, <1>3, <1>5, <1>6

\* The ways the caller moves; only Launch moves it and a job at once.
LEMMA CallerMoves ==
  ASSUME [Next]_vars
  PROVE  \/ UNCHANGED caller
         \/ Launch
         \/ UNCHANGED job /\ \/ Collect \/ CollectFails \/ Unwind \/ LaunchFails
                             \/ CreateStep \/ CompleteStep
  BY DEF Next, CallerStep, CreateStep, CompleteStep, CreateUpload, CreateFails, CreateUnnamed,
         Collect, CollectFails, Unwind, LaunchFails, ServerCompletes,
         CompleteAnswered, CompleteFails, LateCompletion, Launch,
         RunDeferred, OrphanArrives, Over, JobStep, AttemptStep, SendPart,
         FileRefused, ServerStores, PartAnswered, BodyTooShort, PartFails, Caught,
         vars, jobs, caller

QuiescenceInv == CallerInv /\ NoJobOutlivesCall /\ SerialWhenSync

\* A job that is done stays done; one that has ended when the call is over
\* stays ended.
LEMMA DoneStays ==
  ASSUME TypeInv, [Next]_vars, NEW j \in JobIds
  PROVE  /\ job[j] = "done" => job'[j] = "done"
         /\ Ended /\ job[j] \in {"idle", "deferred", "done", "failed"} =>
              job'[j] = job[j]
  BY JobMoves DEF Ended, Launch, RunDeferred

\* The caller goes past a job only when it is done.
LEMMA CallerInvStep ==
  ASSUME TypeInv, CallerInv, [Next]_vars
  PROVE  CallerInv'
  <1>0. next \in JobIds
    BY DEF TypeInv, TypeOK
  <1> USE DEF CallerInv
  <1>1. CASE UNCHANGED caller
    BY <1>1, DoneStays DEF caller
  <1>2. CASE Launch
    BY <1>2 DEF Launch, JobIds
  <1>3. CASE Collect /\ UNCHANGED job
    <2>1. \A j \in JobIds : j < next + 1 => job[j] = "done"
      <3>1. \A j \in JobIds : j < next + 1 => j < next \/ j = next
        BY <1>0 DEF JobIds
      <3> QED BY <1>3, <3>1 DEF Collect
    <2>2. CASE next + 1 < Jobs
      BY <1>3, <2>1, <2>2 DEF Collect
    <2>3. CASE ~(next + 1 < Jobs)
      <3>1. \A j \in JobIds : j < next + 1
        BY <1>0, <2>3, CallAssumption DEF JobIds
      <3> QED BY <1>3, <2>1, <2>3, <3>1 DEF Collect
    <2> QED BY <2>2, <2>3
  <1>4. CASE (CollectFails \/ Unwind \/ LaunchFails) /\ UNCHANGED job
    BY <1>4 DEF CollectFails, Unwind, LaunchFails
  <1>5. CASE CreateStep /\ UNCHANGED job
    BY <1>5 DEF CreateStep, CreateUpload, CreateFails, CreateUnnamed
  <1>6. CASE CompleteStep /\ UNCHANGED job
    BY <1>6 DEF CompleteStep, ServerCompletes, CompleteAnswered,
                CompleteFails
  <1> QED BY <1>1, <1>2, <1>3, <1>4, <1>5, <1>6, CallerMoves

LEMMA CallEndStep ==
  ASSUME TypeInv, QuiescenceInv, [Next]_vars
  PROVE  NoJobOutlivesCall'
  <1> USE DEF QuiescenceInv, NoJobOutlivesCall, AllJobsEnded, Ended
  <1>1. CASE UNCHANGED caller
    BY <1>1, DoneStays DEF caller
  <1>2. CASE Launch \/ Collect \/ CollectFails \/ LaunchFails
    BY <1>2 DEF Launch, Collect, CollectFails, LaunchFails
  <1>3. CASE Unwind /\ UNCHANGED job
    BY <1>3 DEF Unwind
  <1>4. CASE CreateStep /\ UNCHANGED job
    <2>1. \A j \in JobIds : job[j] = "idle"
      BY <1>4, CallAssumption
         DEF CreateStep, CreateUpload, CreateFails, CreateUnnamed, TypeInv, Progress, JobIds
    <2> QED BY <1>4, <2>1
  <1>5. CASE CompleteStep /\ UNCHANGED job
    <2>1. \A j \in JobIds : job[j] = "done"
      BY <1>5 DEF CompleteStep, ServerCompletes, CompleteAnswered,
                  CompleteFails, CallerInv
    <2> QED BY <1>5, <2>1
  <1> QED BY <1>1, <1>2, <1>3, <1>4, <1>5, CallerMoves

LEMMA SerialStep ==
  ASSUME TypeInv, QuiescenceInv, [Next]_vars
  PROVE  SerialWhenSync'
  <1>1. sync' = sync
    BY DEF Next, CallerStep, CreateStep, CompleteStep, CreateUpload, CreateFails, CreateUnnamed,
           Collect, CollectFails, Unwind, LaunchFails, ServerCompletes,
           CompleteAnswered, CompleteFails, LateCompletion, Launch,
           RunDeferred, OrphanArrives, Over, JobStep, AttemptStep, SendPart,
           FileRefused, ServerStores, PartAnswered, BodyTooShort, PartFails, Caught,
           vars, call
  <1> SUFFICES ASSUME sync, NEW j \in JobIds, NEW k \in JobIds,
                      job'[j] \notin {"idle", "deferred"}, k < j
               PROVE  job'[k] = "done"
    BY <1>1 DEF SerialWhenSync
  <1>2. CASE job[j] \notin {"idle", "deferred"}
    BY <1>2, DoneStays DEF QuiescenceInv, SerialWhenSync
  <1>3. CASE job[j] \in {"idle", "deferred"}
    <2>1. RunDeferred /\ j = next
      BY <1>3, JobMoves
    <2>2. job[k] = "done"
      BY <2>1 DEF RunDeferred, QuiescenceInv, CallerInv
    <2> QED BY <2>2, DoneStays
  <1> QED BY <1>2, <1>3

LEMMA QuiescentAlways == Spec => []QuiescenceInv
  <1>1. Init => QuiescenceInv
    BY CallAssumption DEF Init, QuiescenceInv, CallerInv, NoJobOutlivesCall,
       AllJobsEnded, Ended, SerialWhenSync, JobIds
  <1>2. TypeInv /\ QuiescenceInv /\ [Next]_vars => QuiescenceInv'
    BY CallerInvStep, CallEndStep, SerialStep DEF QuiescenceInv
  <1> QED BY <1>1, <1>2, TypeAlways, PTL DEF Spec

(* When Upload returns or throws, from whatever point, no job of it runs   *)
(* any more; and a synchronous call runs its jobs one after the other.     *)
THEOREM CallQuiescent == Spec => [](NoJobOutlivesCall /\ SerialWhenSync)
  <1>1. QuiescenceInv => NoJobOutlivesCall /\ SerialWhenSync
    BY DEF QuiescenceInv
  <1> QED BY <1>1, QuiescentAlways, PTL

-----------------------------------------------------------------------------
(* The call as the counter of the process sees it.                         *)

DrawnJobs == [c \in TheCall |-> [j \in JobIds |-> Drawn(job[j])]]

\* A step that changes nothing of the call but how one of its jobs draws on
\* the counter.
LEMMA DrawnMoves ==
  ASSUME TypeInv, NEW j \in JobIds, NEW s \in JobStates, job' = [job EXCEPT ![j] = s]
  PROVE  /\ DrawnJobs' = [DrawnJobs EXCEPT !["upload"] = [@ EXCEPT ![j] = Drawn(s)]]
         /\ Drawn(s) = Drawn(job[j]) => DrawnJobs' = DrawnJobs
  <1>1. job \in [JobIds -> JobStates]
    BY DEF TypeInv, TypeOK
  <1>2. \A k \in JobIds : Drawn(job'[k]) = IF k = j THEN Drawn(s) ELSE Drawn(job[k])
    BY <1>1
  <1> QED BY <1>2 DEF DrawnJobs, TheCall

\* Nothing is drawn before the first job is launched.
NothingDrawn == main = "create" => retriesG = 0 /\ granted = 0

LEMMA NothingDrawnStep == TypeInv /\ NothingDrawn /\ [Next]_vars => NothingDrawn'
  <1> SUFFICES ASSUME TypeInv, NothingDrawn, [Next]_vars, main' = "create"
               PROVE  retriesG' = 0 /\ granted' = 0
    BY DEF NothingDrawn
  <1>1. main = "create"
    BY CallerMoves DEF caller, Launch, Collect, CollectFails, Unwind, LaunchFails,
       CreateStep, CreateUpload, CreateFails, CreateUnnamed, CompleteStep, ServerCompletes,
       CompleteAnswered, CompleteFails
  <1>2. \A j \in JobIds : job[j] = "idle"
    BY <1>1 DEF TypeInv, Progress, JobIds
  <1> QED BY <1>1, <1>2, NextRetries DEF NothingDrawn

\* The ways the caller goes from one phase to the next.
LEMMA PhaseMoves ==
  ASSUME [Next]_vars
  PROVE  \/ Phase' = Phase
         \/ Phase = "before" /\ Phase' \in {"running", "over"} /\ UNCHANGED jobs
         \/ Phase = "running" /\ Phase' = "over" /\ UNCHANGED jobs
  <1>1. CASE UNCHANGED caller \/ Launch
    BY <1>1 DEF Launch, caller, Phase, Ended
  <1>2. CASE Collect \/ CollectFails \/ Unwind \/ LaunchFails
    BY <1>2 DEF Collect, CollectFails, Unwind, LaunchFails, Phase, Ended
  <1>3. CASE CreateStep \/ CompleteStep
    BY <1>3 DEF CreateStep, CreateUpload, CreateFails, CreateUnnamed, CompleteStep, ServerCompletes,
                CompleteAnswered, CompleteFails, Phase, Ended
  <1> QED BY <1>1, <1>2, <1>3, CallerMoves

\* A job runs only while its call does.
LEMMA RunningJob ==
  ASSUME TypeInv, QuiescenceInv, NEW j \in JobIds, job[j] \in {"send", "sent", "stored"}
  PROVE  Phase = "running"
  <1>1. main # "create"
    BY DEF TypeInv, Progress, JobIds
  <1>2. ~Ended
    BY DEF QuiescenceInv, NoJobOutlivesCall, AllJobsEnded
  <1> QED BY <1>1, <1>2 DEF Phase

\* The steps of SharedRetries, for its only call.
LEMMA CountedUnchanged ==
  ASSUME UNCHANGED <<Phase, DrawnJobs, retriesG, granted>>
  PROVE  UNCHANGED Counted!vars
  BY DEF Counted!vars, DrawnJobs

LEMMA CountedJob ==
  ASSUME NEW j \in JobIds, Counted!JobStep("upload", j)
  PROVE  Counted!Next
  BY DEF Counted!Next, TheCall

LEMMA CountedAttempt ==
  ASSUME TypeInv, NEW j \in JobIds, job[j] \in {"send", "sent", "stored"}, Caught(j),
         Phase = "running", Phase' = Phase
  PROVE  Counted!AttemptFails("upload", j)
  <1> USE DEF TheCall
  <1>1. /\ "send" \in JobStates /\ "failed" \in JobStates
        /\ Drawn("send") = "send" /\ Drawn("failed") = "failed" /\ Drawn(job[j]) = "send"
    BY DEF JobStates, Drawn
  <1>2. /\ retriesG' = retriesG + 1 /\ DrawnJobs["upload"][j] = "send"
    BY <1>1 DEF Caught, DrawnJobs
  <1>3. CASE retriesG < MaxRetries
    <2>1. granted' = granted + 1 /\ DrawnJobs' = DrawnJobs
      BY <1>1, <1>3, DrawnMoves DEF Caught
    <2> QED BY <1>2, <1>3, <2>1 DEF Counted!AttemptFails, DrawnJobs
  <1>4. CASE ~(retriesG < MaxRetries)
    <2>1. /\ granted' = granted
          /\ DrawnJobs' = [DrawnJobs EXCEPT !["upload"] = [@ EXCEPT ![j] = "failed"]]
      BY <1>1, <1>4, DrawnMoves DEF Caught
    <2> QED BY <1>2, <1>4, <2>1 DEF Counted!AttemptFails, Counted!JobOf, DrawnJobs
  <1> QED BY <1>3, <1>4

\* A job that starts, or has all its parts answered.
LEMMA CountedStarts ==
  ASSUME TypeInv, NEW j \in JobIds, job[j] \in {"idle", "deferred"},
         job' = [job EXCEPT ![j] = "send"], UNCHANGED <<retriesG, granted>>,
         Phase = "running", Phase' = Phase
  PROVE  Counted!JobStarts("upload", j)
  <1> USE DEF TheCall
  <1>1. "send" \in JobStates /\ Drawn("send") = "send" /\ Drawn(job[j]) = "idle"
    BY DEF JobStates, Drawn
  <1>2. DrawnJobs' = [DrawnJobs EXCEPT !["upload"] = [@ EXCEPT ![j] = "send"]]
    BY <1>1, DrawnMoves
  <1>3. DrawnJobs["upload"][j] = "idle"
    BY <1>1 DEF DrawnJobs
  <1> QED BY <1>2, <1>3 DEF Counted!JobStarts, Counted!JobOf, DrawnJobs

LEMMA CountedEnds ==
  ASSUME TypeInv, NEW j \in JobIds, job[j] = "stored",
         job' = [job EXCEPT ![j] = "done"], UNCHANGED <<retriesG, granted>>,
         Phase = "running", Phase' = Phase
  PROVE  Counted!JobEnds("upload", j)
  <1> USE DEF TheCall
  <1>1. "done" \in JobStates /\ Drawn("done") = "done" /\ Drawn(job[j]) = "send"
    BY DEF JobStates, Drawn
  <1>2. DrawnJobs' = [DrawnJobs EXCEPT !["upload"] = [@ EXCEPT ![j] = "done"]]
    BY <1>1, DrawnMoves
  <1>3. DrawnJobs["upload"][j] = "send"
    BY <1>1 DEF DrawnJobs
  <1> QED BY <1>2, <1>3 DEF Counted!JobEnds, Counted!JobOf, DrawnJobs

\* The call starts, fails to, or ends.
LEMMA CountedPhase ==
  ASSUME TypeInv, QuiescenceInv', NothingDrawn, [Next]_vars, UNCHANGED jobs
  PROVE  [Counted!Next]_(Counted!vars)
  <1> USE DEF TheCall
  <1>0. UNCHANGED <<job, retriesG, granted, DrawnJobs>>
    BY DEF jobs, DrawnJobs
  <1>1. CASE Phase' = Phase
    BY <1>0, <1>1, CountedUnchanged
  <1>2. CASE Phase = "before" /\ Phase' \in {"running", "over"}
    <2>1. retriesG = 0 /\ granted = 0
      BY <1>2 DEF Phase, NothingDrawn
    <2>2. Counted!SetBack("upload")
      BY <1>0, <1>2, <2>1 DEF Counted!SetBack, Counted!Running
    <2>3. Counted!Start("upload") \/ Counted!StartFails("upload")
      BY <1>0, <1>2, <2>2 DEF Counted!Start, Counted!StartFails, DrawnJobs
    <2> QED BY <2>3 DEF Counted!Next
  <1>3. CASE Phase = "running" /\ Phase' = "over"
    <2>1. AllJobsEnded
      <3>1. Ended'
        BY <1>3 DEF Phase
      <3> QED BY <1>0, <3>1 DEF QuiescenceInv, NoJobOutlivesCall, AllJobsEnded
    <2>2. \A j \in JobIds : DrawnJobs["upload"][j] # "send"
      BY <2>1 DEF AllJobsEnded, Drawn, DrawnJobs
    <2>3. Counted!CallEnds("upload")
      BY <1>0, <1>3, <2>2 DEF Counted!CallEnds, DrawnJobs
    <2> QED BY <2>3 DEF Counted!Next
  <1> QED BY <1>1, <1>2, <1>3, PhaseMoves

LEMMA CountedStep ==
  ASSUME TypeInv, QuiescenceInv, QuiescenceInv', NothingDrawn, [Next]_vars
  PROVE  [Counted!Next]_(Counted!vars)
  <1>0. job \in [JobIds -> JobStates] /\ next \in JobIds
    BY DEF TypeInv, TypeOK
  <1>1. CASE UNCHANGED jobs
    BY <1>1, CountedPhase
  <1>2. CASE Launch
    <2>1. /\ Phase = "running" /\ Phase' = Phase /\ job[next] = "idle"
          /\ UNCHANGED <<retriesG, granted>>
      BY <1>0, <1>2 DEF Launch, Phase, Ended, TypeInv, Progress, JobIds
    <2>2. CASE sync
      <3>1. /\ job' = [job EXCEPT ![next] = "deferred"] /\ "deferred" \in JobStates
            /\ Drawn("deferred") = Drawn(job[next])
        BY <1>2, <2>1, <2>2 DEF Launch, Drawn, JobStates
      <3> QED BY <1>0, <2>1, <3>1, DrawnMoves, CountedUnchanged
    <2>3. CASE ~sync
      <3>1. job' = [job EXCEPT ![next] = "send"]
        BY <1>2, <2>3 DEF Launch
      <3> QED BY <1>0, <2>1, <3>1, CountedStarts, CountedJob DEF Counted!JobStep
    <2> QED BY <2>2, <2>3
  <1>3. CASE RunDeferred
    <2>1. /\ Phase = "running" /\ Phase' = Phase /\ job[next] = "deferred"
          /\ job' = [job EXCEPT ![next] = "send"] /\ UNCHANGED <<retriesG, granted>>
      BY <1>3 DEF RunDeferred, Phase, Ended, caller
    <2> QED BY <1>0, <2>1, CountedStarts, CountedJob DEF Counted!JobStep
  <1>4. ASSUME NEW j \in JobIds, SendPart(j) \/ ServerStores(j) \/ PartAnswered(j)
        PROVE  [Counted!Next]_(Counted!vars)
    <2>1. /\ job[j] \in {"send", "sent", "stored"} /\ Phase' = Phase
          /\ UNCHANGED <<retriesG, granted>>
      BY <1>4 DEF SendPart, ServerStores, PartAnswered, jobs, caller, Phase, Ended
    <2>2. CASE \E s \in {"send", "sent", "stored"} : job' = [job EXCEPT ![j] = s]
      <3>1. PICK s \in {"send", "sent", "stored"} : job' = [job EXCEPT ![j] = s]
        BY <2>2
      <3>2. s \in JobStates /\ Drawn(s) = Drawn(job[j])
        BY <2>1 DEF Drawn, JobStates
      <3> QED BY <2>1, <3>1, <3>2, DrawnMoves, CountedUnchanged
    <2>3. CASE job[j] = "stored" /\ job' = [job EXCEPT ![j] = "done"]
      BY <2>1, <2>3, RunningJob, CountedEnds, CountedJob DEF Counted!JobStep
    <2> QED BY <1>4, <2>2, <2>3 DEF SendPart, ServerStores, PartAnswered
  <1>5. ASSUME NEW j \in JobIds, FileRefused(j) \/ BodyTooShort(j) \/ PartFails(j)
        PROVE  [Counted!Next]_(Counted!vars)
    <2>1. job[j] \in {"send", "sent", "stored"} /\ Caught(j)
      BY <1>5 DEF FileRefused, BodyTooShort, PartFails
    <2>2. Phase' = Phase
      BY <2>1 DEF Caught, caller, Phase, Ended
    <2> QED BY <2>1, <2>2, RunningJob, CountedAttempt, CountedJob DEF Counted!JobStep
  <1>6. \/ UNCHANGED jobs \/ Launch \/ RunDeferred
        \/ \E j \in JobIds : SendPart(j) \/ ServerStores(j) \/ PartAnswered(j)
        \/ \E j \in JobIds : FileRefused(j) \/ BodyTooShort(j) \/ PartFails(j)
    BY DEF Next, CallerStep, JobStep, AttemptStep, CreateStep, CompleteStep,
           CreateUpload, CreateFails, CreateUnnamed, Collect, CollectFails, Unwind, LaunchFails,
           ServerCompletes, CompleteAnswered, CompleteFails,
           LateCompletion, OrphanArrives, Over, vars
  <1> QED BY <1>1, <1>2, <1>3, <1>4, <1>5, <1>6

(* To the counter that all the calls of the process share, an upload is a  *)
(* call of SharedRetries: it sets the counter back when it starts, also if *)
(* it fails before it has a job, draws on it only while it runs, and has   *)
(* no job drawing on it once it is over (upload.cpp:58-69, 115-148).       *)
THEOREM UploadIsOneCall == Spec => ImplementsSharedRetries
  <1>1. Init => Counted!Init
    BY DEF Init, Counted!Init, TheCall, Phase, Drawn
  <1>2. TypeInv /\ QuiescenceInv /\ QuiescenceInv' /\ NothingDrawn /\ [Next]_vars
          => [Counted!Next]_(Counted!vars)
    BY CountedStep
  <1>3. Init => NothingDrawn
    BY DEF Init, NothingDrawn
  <1> QED BY <1>1, <1>2, <1>3, NothingDrawnStep, TypeAlways, QuiescentAlways, PTL
          DEF Spec, ImplementsSharedRetries, Counted!Spec

-----------------------------------------------------------------------------
(* What ParallelUpload puts under the key is the source, for every split   *)
(* that wraps nowhere.                                                     *)

(* The plan: constant facts about the split of the two levels.             *)

\* Parts are numbered job by job, and a number gives back its job and part.
LEMMA NumberToPart ==
  ASSUME NEW j \in JobIds, NEW n \in 0 .. PartsPerJob - 1
  PROVE  /\ (PartNumber(j, n) - 1) \div PartsPerJob = j
         /\ (PartNumber(j, n) - 1) % PartsPerJob = n
  <1> DEFINE a == j * PartsPerJob + n
             q == a \div PartsPerJob
  <1>1. j \in Nat /\ PartsPerJob \in Nat \ {0} /\ j * PartsPerJob \in Nat
    BY CallAssumption DEF JobIds
  <1>2. a \in Nat
    BY <1>1
  <1>3. q \in Nat /\ q * PartsPerJob <= a /\ a < q * PartsPerJob + PartsPerJob
    BY <1>1, <1>2, DivBounds
  <1> HIDE DEF q
  <1>4. q = j
    <2>1. CASE q < j
      <3>1. (q + 1) * PartsPerJob <= j * PartsPerJob
        BY <1>1, <1>3, <2>1, ProductGrows
      <3>2. (q + 1) * PartsPerJob = q * PartsPerJob + PartsPerJob
        BY <1>1, <1>3, NextMultiple
      <3>3. q * PartsPerJob \in Nat
        BY <1>1, <1>3
      <3> QED BY <1>1, <1>3, <3>1, <3>2, <3>3
    <2>2. CASE q > j
      <3>1. (j + 1) * PartsPerJob <= q * PartsPerJob
        BY <1>1, <1>3, <2>2, ProductGrows
      <3>2. (j + 1) * PartsPerJob = j * PartsPerJob + PartsPerJob
        BY <1>1, NextMultiple
      <3>3. q * PartsPerJob \in Nat
        BY <1>1, <1>3
      <3> QED BY <1>1, <1>3, <3>1, <3>2, <3>3
    <2> QED BY <1>1, <1>3, <2>1, <2>2
  <1>5. PartNumber(j, n) - 1 = a
    BY <1>1 DEF PartNumber
  <1>6. a % PartsPerJob = a - q * PartsPerJob
    BY <1>1, <1>2 DEF q
  <1> QED BY <1>1, <1>4, <1>5, <1>6 DEF q

\* Every part number is the number of some part of some job.
LEMMA PartOfNumber ==
  ASSUME NEW k \in PartNumbers
  PROVE  \E j \in JobIds, n \in 0 .. PartsPerJob - 1 : k = PartNumber(j, n)
  <1> DEFINE q == (k - 1) \div PartsPerJob
  <1>1. PartsPerJob \in Nat \ {0} /\ Jobs \in Nat \ {0} /\ k \in Nat /\ k - 1 \in Nat
        /\ Jobs * PartsPerJob \in Nat /\ k <= Jobs * PartsPerJob
    BY CallAssumption DEF PartNumbers
  <1>2. /\ q \in Nat /\ q * PartsPerJob <= k - 1
        /\ k - 1 < q * PartsPerJob + PartsPerJob
    BY <1>1, DivBounds
  <1> HIDE DEF q
  <1>3. q \in JobIds
    <2>1. ASSUME q >= Jobs PROVE FALSE
      <3>1. Jobs * PartsPerJob <= q * PartsPerJob
        BY <1>1, <1>2, <2>1, ProductGrows
      <3>2. q * PartsPerJob \in Nat
        BY <1>1, <1>2
      <3> QED BY <1>1, <1>2, <3>1, <3>2
    <2>2. q < Jobs
      BY <1>1, <1>2, <2>1
    <2> QED BY <1>1, <1>2, <2>2 DEF JobIds
  <1>4. q * PartsPerJob \in Nat
    BY <1>1, <1>2
  <1>5. k - 1 - q * PartsPerJob \in 0 .. PartsPerJob - 1
    BY <1>1, <1>2, <1>4
  <1>6. k = PartNumber(q, k - 1 - q * PartsPerJob)
    <2>1. PartNumber(q, k - 1 - q * PartsPerJob)
            = q * PartsPerJob + (k - 1 - q * PartsPerJob) + 1
      BY DEF PartNumber
    <2> QED BY <1>1, <1>4, <2>1
  <1> QED BY <1>3, <1>5, <1>6

LEMMA PlanAt ==
  ASSUME NEW j \in JobIds, NEW n \in 0 .. PartsPerJob - 1
  PROVE  Plan[PartNumber(j, n)] = PlannedBody(j, n)
  BY NumberToPart, PartNumberRange DEF Plan

LEMMA PlannedTypes ==
  ASSUME NEW j \in JobIds, NEW n \in 0 .. PartsPerJob - 1
  PROVE  PlannedBody(j, n) \in Content
  BY PlanTypes DEF PlannedBody, Content

LEMMA PlanIsSeq ==
  /\ Plan \in Seq(Content)
  /\ Len(Plan) = Jobs * PartsPerJob
  <1>1. Jobs * PartsPerJob \in Nat
    BY CallAssumption
  <1>2. \A k \in PartNumbers : Plan[k] \in Content
    <2> TAKE k \in PartNumbers
    <2>1. PICK j \in JobIds, n \in 0 .. PartsPerJob - 1 : k = PartNumber(j, n)
      BY PartOfNumber
    <2> QED BY <2>1, PlanAt, PlannedTypes
  <1>3. Plan \in [1 .. Jobs * PartsPerJob -> Content]
    BY <1>2 DEF Plan, PartNumbers
  <1>4. Plan \in Seq(Content)
    BY <1>1, <1>3, SeqDef
  <1>5. DOMAIN Plan = 1 .. Len(Plan) /\ Len(Plan) \in Nat
    BY <1>4, LenProperties
  <1> QED BY <1>1, <1>3, <1>4, <1>5

\* Where part n of job j ends, part n + 1 starts, or the job's chunk ends.
LEMMA PlannedNext ==
  ASSUME Safe, NEW j \in JobIds, NEW n \in 0 .. PartsPerJob - 1
  PROVE  /\ PlannedBody(j, 0).from = JobFrom(j)
         /\ RangeEnd(PlannedBody(j, n)) =
              IF n = PartsPerJob - 1 THEN JobFrom(j) + Chunk(FileSize, Jobs, j)
              ELSE PlannedBody(j, n + 1).from
         /\ RangeEnd(PlannedBody(j, n)) <= JobFrom(j) + Chunk(FileSize, Jobs, j)
  <1> DEFINE c == Chunk(FileSize, Jobs, j)
  <1>1. c \in Nat /\ c + PartsPerJob <= Word /\ JobFrom(j) \in Nat
    BY PlanTypes
  <1>2. Fits(c, PartsPerJob)
    BY DEF Safe, SafeSplit, JobIds
  <1>3. PartSizeOf(j, n) = PieceLen(c, PartsPerJob, n)
    BY DEF PartSizeOf, PartLen
  <1> HIDE DEF c
  <1>0. Word \in Nat /\ PartsPerJob \in Nat \ {0}
    BY CallAssumption
  <1>10. ASSUME NEW m \in 0 .. PartsPerJob - 1
         PROVE  /\ PieceFrom(c, PartsPerJob, m) \in 0 .. c
                /\ PieceLen(c, PartsPerJob, m) \in Nat
                /\ PieceFrom(c, PartsPerJob, 0) = 0
                /\ m = PartsPerJob - 1 =>
                     PieceFrom(c, PartsPerJob, m) + PieceLen(c, PartsPerJob, m) = c
                /\ m # PartsPerJob - 1 =>
                     PieceFrom(c, PartsPerJob, m) + PieceLen(c, PartsPerJob, m)
                       = PieceFrom(c, PartsPerJob, m + 1)
    BY <1>0, <1>1, <1>2, <1>10, PiecesTile
  <1>4. /\ PieceFrom(c, PartsPerJob, 0) = 0
        /\ PieceFrom(c, PartsPerJob, n) \in 0 .. c
        /\ PieceLen(c, PartsPerJob, n) \in Nat
        /\ PieceFrom(c, PartsPerJob, n) + PieceLen(c, PartsPerJob, n) =
             IF n = PartsPerJob - 1 THEN c ELSE PieceFrom(c, PartsPerJob, n + 1)
    BY <1>10
  <1>5. n # PartsPerJob - 1 => PieceFrom(c, PartsPerJob, n + 1) \in 0 .. c
    BY <1>0, <1>10
  <1>6. PlannedBody(j, n) = [from |-> JobFrom(j) + PieceFrom(c, PartsPerJob, n),
                             size |-> PieceLen(c, PartsPerJob, n)]
    BY <1>3 DEF PlannedBody, c
  <1>7. PlannedBody(j, 0).from = JobFrom(j) + PieceFrom(c, PartsPerJob, 0)
    BY DEF PlannedBody, c
  <1>8. PlannedBody(j, n + 1).from = JobFrom(j) + PieceFrom(c, PartsPerJob, n + 1)
    BY DEF PlannedBody, c
  <1>9. RangeEnd(PlannedBody(j, n)) = JobFrom(j)
          + (PieceFrom(c, PartsPerJob, n) + PieceLen(c, PartsPerJob, n))
    BY <1>1, <1>4, <1>6 DEF RangeEnd
  <1> QED BY <1>1, <1>4, <1>5, <1>7, <1>8, <1>9 DEF c

\* The chunks of the jobs follow each other, from 0 to the end of the file.
LEMMA ChunksTile ==
  ASSUME Safe, NEW j \in JobIds
  PROVE  /\ JobFrom(0) = 0
         /\ JobFrom(j) + Chunk(FileSize, Jobs, j) =
              IF j = Jobs - 1 THEN FileSize ELSE JobFrom(j + 1)
         /\ JobFrom(j) + Chunk(FileSize, Jobs, j) <= FileSize
  <1>1. Fits(FileSize, Jobs)
    BY DEF Safe, SafeSplit
  <1>2. /\ PieceFrom(FileSize, Jobs, 0) = 0
        /\ PieceFrom(FileSize, Jobs, j) + PieceLen(FileSize, Jobs, j) =
             IF j = Jobs - 1 THEN FileSize ELSE PieceFrom(FileSize, Jobs, j + 1)
        /\ j # Jobs - 1 => PieceFrom(FileSize, Jobs, j + 1) \in 0 .. FileSize
    <2>1. /\ FileSize + Jobs <= Word /\ Word \in Nat
          /\ FileSize \in Nat /\ Jobs \in Nat \ {0}
      BY CallAssumption
    <2>2. ASSUME NEW m \in 0 .. Jobs - 1
          PROVE  /\ PieceFrom(FileSize, Jobs, m) \in 0 .. FileSize
                 /\ PieceFrom(FileSize, Jobs, 0) = 0
                 /\ m = Jobs - 1 =>
                      PieceFrom(FileSize, Jobs, m) + PieceLen(FileSize, Jobs, m) = FileSize
                 /\ m # Jobs - 1 =>
                      PieceFrom(FileSize, Jobs, m) + PieceLen(FileSize, Jobs, m)
                        = PieceFrom(FileSize, Jobs, m + 1)
      BY <1>1, <2>1, <2>2, PiecesTile
    <2> QED BY <2>1, <2>2 DEF JobIds
  <1> QED BY <1>2, CallAssumption DEF JobFrom, Chunk

LEMMA PlanReadable ==
  ASSUME Safe, NEW j \in JobIds, NEW n \in 0 .. PartsPerJob - 1
  PROVE  Readable(PlannedBody(j, n))
  <1>1. RangeEnd(PlannedBody(j, n)) <= JobFrom(j) + Chunk(FileSize, Jobs, j)
    BY PlannedNext
  <1>2. JobFrom(j) + Chunk(FileSize, Jobs, j) <= FileSize
    BY ChunksTile
  <1>3. PlannedBody(j, n) \in Content /\ JobFrom(j) \in Nat
        /\ Chunk(FileSize, Jobs, j) \in Nat
    BY PlannedTypes, PlanTypes
  <1> QED BY <1>1, <1>2, <1>3, CallAssumption DEF Readable, RangeEnd, Content

(* The parts of all the jobs, taken by number, are the file: each byte of  *)
(* it once and in its place.                                               *)
THEOREM PlanTiles ==
  ASSUME Safe
  PROVE  Tiles(Plan, FileSize)
  <1>1. Jobs * PartsPerJob \in Nat \ {0} /\ PartsPerJob - 1 \in 0 .. PartsPerJob - 1
        /\ 0 \in 0 .. PartsPerJob - 1 /\ 0 \in JobIds /\ Jobs - 1 \in JobIds
    BY CallAssumption DEF JobIds
  <1>2. Plan[1].from = 0
    <2>1. PartNumber(0, 0) = 1
      BY CallAssumption DEF PartNumber
    <2> QED BY <1>1, <2>1, PlanAt, PlannedNext, ChunksTile
  <1>3. ASSUME NEW k \in 1 .. Jobs * PartsPerJob - 1
        PROVE  Plan[k + 1].from = RangeEnd(Plan[k])
    <2>1. PICK j \in JobIds, n \in 0 .. PartsPerJob - 1 : k = PartNumber(j, n)
      BY <1>1, PartOfNumber DEF PartNumbers
    <2>2. CASE n # PartsPerJob - 1
      <3>1. n + 1 \in 0 .. PartsPerJob - 1
        BY <2>2, CallAssumption
      <3>2. k + 1 = PartNumber(j, n + 1)
        BY <2>1, CallAssumption DEF PartNumber, JobIds
      <3> QED BY <2>1, <2>2, <3>1, <3>2, PlanAt, PlannedNext
    <2>3. CASE n = PartsPerJob - 1
      <3>1. k = (j + 1) * PartsPerJob
        BY <2>1, <2>3, NextMultiple, CallAssumption DEF PartNumber, JobIds
      <3>2. j # Jobs - 1
        <4>1. k # Jobs * PartsPerJob
          BY <1>1
        <4>2. j = Jobs - 1 => j + 1 = Jobs
          BY CallAssumption
        <4> QED BY <3>1, <4>1, <4>2
      <3>3. j + 1 \in JobIds
        BY <3>2, CallAssumption DEF JobIds
      <3>4. k + 1 = PartNumber(j + 1, 0)
        BY <3>1, <3>3, CallAssumption DEF PartNumber, JobIds
      <3>5. Plan[k + 1].from = JobFrom(j + 1)
        BY <1>1, <3>3, <3>4, PlanAt, PlannedNext
      <3>6. RangeEnd(Plan[k]) = JobFrom(j) + Chunk(FileSize, Jobs, j)
        BY <2>1, <2>3, PlanAt, PlannedNext
      <3> QED BY <3>2, <3>5, <3>6, ChunksTile
    <2> QED BY <2>2, <2>3
  <1>4. RangeEnd(Plan[Jobs * PartsPerJob]) = FileSize
    <2>1. Jobs * PartsPerJob = (Jobs - 1) * PartsPerJob + PartsPerJob
      BY NextMultiple, CallAssumption
    <2>2. PartNumber(Jobs - 1, PartsPerJob - 1) = Jobs * PartsPerJob
      BY <2>1, CallAssumption DEF PartNumber
    <2>3. RangeEnd(Plan[Jobs * PartsPerJob])
            = JobFrom(Jobs - 1) + Chunk(FileSize, Jobs, Jobs - 1)
      BY <1>1, <2>2, PlanAt, PlannedNext
    <2> QED BY <1>1, <2>3, ChunksTile
  <1> QED BY <1>1, <1>2, <1>3, <1>4, PlanIsSeq DEF Tiles

-----------------------------------------------------------------------------
(* Preservation, one lemma for each part of the invariant.                 *)

Integrity == CallerInv /\ PlanInv /\ ListInv /\ ServerInv /\ ObjectInv /\ FaultInv

\* Only an answer moves a job to its next part.
LEMMA PartMoves ==
  ASSUME [Next]_vars
  PROVE  UNCHANGED <<i, offset, etags>> \/ \E j \in JobIds : PartAnswered(j)
  BY DEF Next, CallerStep, CreateStep, CompleteStep, CreateUpload, CreateFails, CreateUnnamed,
         Collect, CollectFails, Unwind, LaunchFails, ServerCompletes,
         CompleteAnswered, CompleteFails, LateCompletion, Launch,
         RunDeferred, OrphanArrives, Over, JobStep, AttemptStep, SendPart,
         FileRefused, ServerStores, BodyTooShort, PartFails, Caught, vars, jobs

LEMMA PlanStep ==
  ASSUME Safe, TypeInv, PlanInv, [Next]_vars
  PROVE  PlanInv'
  <1>1. CASE UNCHANGED <<i, offset, etags>>
    BY <1>1 DEF PlanInv, Body
  <1>2. ASSUME NEW j \in JobIds, PartAnswered(j)
        PROVE  PlanInv'
    <2>1. i[j] \in 0 .. PartsPerJob - 1 /\ Body(j) \in Content
      BY <1>2, SentTypes DEF PartAnswered
    <2>2. /\ i \in [JobIds -> 0 .. PartsPerJob] /\ offset \in [JobIds -> Nat]
          /\ etags \in [JobIds -> Seq(Content)]
      BY DEF TypeInv, TypeOK
    <2>3. Body(j) = PlannedBody(j, i[j]) /\ Len(etags[j]) = i[j]
      BY <2>1, CallAssumption DEF PlanInv
    <2>4. ASSUME NEW k \in JobIds, k # j
          PROVE  /\ i'[k] < PartsPerJob => Body(k)' = PlannedBody(k, i'[k])
                 /\ Len(etags'[k]) = i'[k]
                 /\ \A n \in 0 .. i'[k] - 1 : etags'[k][n + 1] = PlannedBody(k, n)
      <3>1. i'[k] = i[k] /\ offset'[k] = offset[k] /\ etags'[k] = etags[k]
        BY <1>2, <2>2, <2>4 DEF PartAnswered
      <3> QED BY <3>1 DEF PlanInv, Body
    <2>5. /\ i'[j] = i[j] + 1
          /\ offset'[j] = offset[j] + PartSizeOf(j, i[j])
          /\ etags'[j] = Append(etags[j], Body(j))
      BY <1>2, <2>2 DEF PartAnswered
    <2>6. offset'[j] = RangeEnd(PlannedBody(j, i[j]))
      BY <2>3, <2>5 DEF Body, RangeEnd
    <2>7. i'[j] < PartsPerJob => Body(j)' = PlannedBody(j, i'[j])
      <3> SUFFICES ASSUME i'[j] < PartsPerJob PROVE Body(j)' = PlannedBody(j, i'[j])
        OBVIOUS
      <3>1. offset'[j] = PlannedBody(j, i[j] + 1).from
        BY <2>1, <2>5, <2>6, PlannedNext, CallAssumption
      <3>2. Body(j)' = [from |-> offset'[j], size |-> PartSizeOf(j, i'[j])]
        BY DEF Body
      <3> QED BY <2>5, <3>1, <3>2 DEF PlannedBody
    <2>8. Len(etags'[j]) = i'[j]
      BY <2>1, <2>2, <2>3, <2>5
    <2>9. \A n \in 0 .. i'[j] - 1 : etags'[j][n + 1] = PlannedBody(j, n)
      <3>0. i'[j] - 1 = i[j]
        BY <2>1, <2>5
      <3> SUFFICES ASSUME NEW n \in 0 .. i[j] PROVE etags'[j][n + 1] = PlannedBody(j, n)
        BY <3>0
      <3>1. CASE n = i[j]
        BY <2>1, <2>2, <2>3, <2>5, <3>1
      <3>2. CASE n # i[j]
        <4>1. n \in 0 .. i[j] - 1
          BY <2>1, <3>2
        <4>2. etags[j][n + 1] = PlannedBody(j, n)
          BY <4>1 DEF PlanInv
        <4>3. n + 1 \in 1 .. Len(etags[j])
          BY <2>1, <2>3, <4>1
        <4> QED BY <2>1, <2>2, <2>5, <4>2, <4>3
      <3> QED BY <3>1, <3>2
    <2> QED BY <2>4, <2>7, <2>8, <2>9 DEF PlanInv
  <1> QED BY <1>1, <1>2, PartMoves

LEMMA ListStep ==
  ASSUME TypeInv, Integrity, [Next]_vars
  PROVE  ListInv'
  <1>0. /\ next \in JobIds /\ vetags \in Seq(Content)
        /\ Jobs \in Nat \ {0} /\ PartsPerJob \in Nat \ {0}
        /\ Jobs * PartsPerJob \in Nat /\ next * PartsPerJob \in Nat
    BY CallAssumption DEF TypeInv, TypeOK, JobIds
  <1>1. CASE UNCHANGED caller
    BY <1>1 DEF caller, Integrity, ListInv
  <1>2. CASE Launch
    BY <1>0, <1>2 DEF Launch, Integrity, ListInv
  <1>3. CASE Collect
    <2>1. /\ etags[next] \in Seq(Content)
          /\ Len(etags[next]) = PartsPerJob
          /\ \A n \in 0 .. PartsPerJob - 1 : etags[next][n + 1] = PlannedBody(next, n)
      <3>1. i[next] = PartsPerJob
        BY <1>0, <1>3 DEF Collect, TypeInv, TypeOK, Progress
      <3> QED BY <1>0, <3>1 DEF TypeInv, TypeOK, Integrity, PlanInv
    <2>2. /\ Len(vetags) = next * PartsPerJob
          /\ \A k \in 1 .. Len(vetags) : vetags[k] = Plan[k]
      BY <1>3 DEF Collect, Integrity, ListInv
    <2>3. /\ Len(vetags') = next * PartsPerJob + PartsPerJob
          /\ \A k \in 1 .. next * PartsPerJob + PartsPerJob :
               vetags'[k] = IF k <= next * PartsPerJob THEN vetags[k]
                            ELSE etags[next][k - next * PartsPerJob]
      <3> DEFINE s == vetags  t == etags[next]  w == next * PartsPerJob
      <3>1. vetags' = s \o t
        BY <1>3 DEF Collect
      <3>2. s \in Seq(Content) /\ t \in Seq(Content) /\ Len(s) = w /\ Len(t) = PartsPerJob
        BY <1>0, <2>1, <2>2
      <3> HIDE DEF s, t, w
      <3>3. /\ Len(s \o t) = Len(s) + Len(t)
            /\ \A k \in 1 .. Len(s) + Len(t) :
                 (s \o t)[k] = IF k <= Len(s) THEN s[k] ELSE t[k - Len(s)]
        BY <3>2, ConcatProperties
      <3>4. /\ Len(vetags') = w + PartsPerJob
            /\ \A k \in 1 .. w + PartsPerJob :
                 vetags'[k] = IF k <= w THEN s[k] ELSE t[k - w]
        BY <3>1, <3>2, <3>3
      <3> QED BY <3>4 DEF s, t, w
    <2>4. next * PartsPerJob + PartsPerJob = (next + 1) * PartsPerJob
      BY <1>0, NextMultiple DEF JobIds
    <2>5. (next + 1) * PartsPerJob <= Jobs * PartsPerJob
      BY <1>0, ProductGrows DEF JobIds
    <2>6. \A k \in 1 .. Len(vetags') : vetags'[k] = Plan[k]
      <3> SUFFICES ASSUME NEW k \in 1 .. next * PartsPerJob + PartsPerJob
                   PROVE  vetags'[k] = Plan[k]
        BY <2>3
      <3>1. CASE k <= next * PartsPerJob
        BY <1>0, <2>2, <2>3, <3>1
      <3>2. CASE ~(k <= next * PartsPerJob)
        <4> DEFINE n == k - next * PartsPerJob - 1
        <4>1. n \in 0 .. PartsPerJob - 1 /\ n + 1 = k - next * PartsPerJob
          BY <1>0, <3>2
        <4>2. k = PartNumber(next, n)
          BY <1>0 DEF PartNumber
        <4> HIDE DEF n
        <4>3. vetags'[k] = etags[next][n + 1]
          BY <2>3, <3>2, <4>1
        <4> QED BY <1>0, <2>1, <4>1, <4>2, <4>3, PlanAt
      <3> QED BY <3>1, <3>2
    <2>7. CASE next + 1 < Jobs
      BY <1>0, <1>3, <2>3, <2>4, <2>5, <2>6, <2>7 DEF Collect, ListInv
    <2>8. CASE ~(next + 1 < Jobs)
      <3>1. next + 1 = Jobs
        BY <1>0, <2>8 DEF JobIds
      <3> QED BY <1>0, <1>3, <2>3, <2>4, <2>6, <2>8, <3>1 DEF Collect, ListInv
    <2> QED BY <2>7, <2>8
  <1>4. CASE CollectFails \/ Unwind \/ LaunchFails
    BY <1>4 DEF CollectFails, Unwind, LaunchFails, Integrity, ListInv
  <1>5. CASE CreateStep \/ CompleteStep
    BY <1>5 DEF CreateStep, CreateUpload, CreateFails, CreateUnnamed, CompleteStep,
                ServerCompletes, CompleteAnswered, CompleteFails,
                Integrity, ListInv
  <1> QED BY <1>1, <1>2, <1>3, <1>4, <1>5, CallerMoves

\* A complete list is the plan.
LEMMA FullListIsPlan ==
  ASSUME TypeInv, ListInv, Len(vetags) = Jobs * PartsPerJob
  PROVE  vetags = Plan
  <1>1. vetags \in Seq(Content)
    BY DEF TypeInv, TypeOK
  <1> QED BY <1>1, PlanIsSeq, SeqEqual DEF ListInv

\* The list of a caller that is completing matches the parts on the server.
LEMMA CompleteListMatches ==
  ASSUME TypeInv, Integrity, main = "complete"
  PROVE  upload = "open" /\ vetags = Plan /\ ListMatches(vetags)
  <1>0. ~Unnamed
    BY CallAssumption DEF Integrity, CallerInv, Unnamed, JobIds
  <1>1. upload = "open" /\ Len(vetags) = Jobs * PartsPerJob
    BY <1>0 DEF Integrity, ServerInv, ListInv
  <1>2. vetags = Plan
    BY <1>1, FullListIsPlan DEF Integrity
  <1>3. ASSUME NEW k \in 1 .. Len(vetags)
        PROVE  k \in PartNumbers /\ stored[k] = vetags[k]
    <2>1. k \in PartNumbers
      BY <1>1 DEF PartNumbers
    <2>2. PICK j \in JobIds, n \in 0 .. PartsPerJob - 1 : k = PartNumber(j, n)
      BY <2>1, PartOfNumber
    <2>3. i[j] = PartsPerJob
      <3>1. job[j] = "done" /\ i[j] \in 0 .. PartsPerJob
        BY DEF Integrity, CallerInv, TypeInv, TypeOK
      <3> QED BY <3>1, CallAssumption DEF TypeInv, Progress
    <2>4. stored[k] = PlannedBody(j, n)
      BY <2>2, <2>3 DEF Integrity, ServerInv
    <2> QED BY <1>2, <2>1, <2>2, <2>4, PlanAt
  <1> QED BY <1>1, <1>2, <1>3 DEF ListMatches

\* The request of a job that is sending is the planned one, and can be read.
LEMMA SentIsPlanned ==
  ASSUME Safe, TypeInv, Integrity, NEW j \in JobIds, job[j] # "done"
  PROVE  /\ Body(j) = PlannedBody(j, i[j])
         /\ Body(j) = Plan[PartNumber(j, i[j])]
         /\ Sent(j) = [part |-> PartNumber(j, i[j]), body |-> Plan[PartNumber(j, i[j])]]
         /\ Readable(Body(j))
  <1>1. i[j] \in 0 .. PartsPerJob - 1
    BY SentTypes
  <1>2. Body(j) = PlannedBody(j, i[j])
    BY <1>1, CallAssumption DEF Integrity, PlanInv
  <1> QED BY <1>1, <1>2, PlanAt, PlanReadable DEF Sent

\* Parts on the server change only to what is planned.
LEMMA StoredStep ==
  ASSUME Safe, TypeInv, Integrity, [Next]_vars
  PROVE  \/ UNCHANGED stored
         \/ \E j \in JobIds : ServerStores(j)
              /\ stored' = [stored EXCEPT ![PartNumber(j, i[j])] = Plan[PartNumber(j, i[j])]]
         \/ \E p \in PartNumbers : stored' = [stored EXCEPT ![p] = Plan[p]] /\ UNCHANGED job
  <1>1. ASSUME NEW j \in JobIds, ServerStores(j)
        PROVE  stored' = [stored EXCEPT ![PartNumber(j, i[j])] = Plan[PartNumber(j, i[j])]]
    <2>1. Sent(j) = [part |-> PartNumber(j, i[j]), body |-> Plan[PartNumber(j, i[j])]]
      BY <1>1, SentIsPlanned DEF ServerStores
    <2>2. stored' = [stored EXCEPT ![Sent(j).part] = Sent(j).body]
      BY <1>1 DEF ServerStores, StorePart
    <2> QED BY <2>1, <2>2
  <1>2. ASSUME NEW r \in orphans, OrphanArrives(r)
        PROVE  \/ UNCHANGED stored
               \/ \E p \in PartNumbers :
                    stored' = [stored EXCEPT ![p] = Plan[p]] /\ UNCHANGED job
    BY <1>2 DEF OrphanArrives, StorePart, Integrity, ServerInv, TypeInv, TypeOK,
                Requests, jobs
  <1>3. \/ UNCHANGED stored
        \/ \E j \in JobIds : ServerStores(j)
        \/ \E r \in orphans : OrphanArrives(r)
    BY DEF Next, CallerStep, CreateStep, CompleteStep, CreateUpload, CreateFails, CreateUnnamed,
           Collect, CollectFails, Unwind, LaunchFails, ServerCompletes,
           CompleteAnswered, CompleteFails, LateCompletion, Publish,
           Launch, RunDeferred, Over, JobStep, AttemptStep, SendPart,
           FileRefused, PartAnswered, BodyTooShort, PartFails, Caught, vars, server
  <1> QED BY <1>1, <1>2, <1>3

\* A part the server has is never lost or replaced by another content.
LEMMA StoredStays ==
  ASSUME Safe, TypeInv, Integrity, [Next]_vars, NEW p \in PartNumbers
  PROVE  /\ stored'[p] \in {NoPart, Plan[p]}
         /\ stored[p] = Plan[p] => stored'[p] = Plan[p]
  <1>1. stored \in [PartNumbers -> Content \cup {NoPart}] /\ stored[p] \in {NoPart, Plan[p]}
    BY DEF TypeInv, TypeOK, Integrity, ServerInv
  <1>2. ASSUME NEW q \in PartNumbers, stored' = [stored EXCEPT ![q] = Plan[q]]
        PROVE  /\ stored'[p] \in {NoPart, Plan[p]}
               /\ stored[p] = Plan[p] => stored'[p] = Plan[p]
    BY <1>1, <1>2
  <1>3. ASSUME NEW j \in JobIds, ServerStores(j)
        PROVE  PartNumber(j, i[j]) \in PartNumbers
    BY <1>3, SentTypes DEF ServerStores
  <1> QED BY <1>1, <1>2, <1>3, StoredStep

LEMMA OrphanStep ==
  ASSUME Safe, TypeInv, Integrity, [Next]_vars
  PROVE  \A r \in orphans' : r.body = Plan[r.part]
  <1>1. \A r \in orphans : r.body = Plan[r.part]
    BY DEF Integrity, ServerInv
  <1>2. ASSUME NEW j \in JobIds, PartFails(j) \/ BodyTooShort(j)
        PROVE  orphans' \subseteq orphans \cup {Sent(j)} /\ job[j] # "done"
    BY <1>2 DEF PartFails, BodyTooShort, MayArriveLate
  <1>3. \/ orphans' \subseteq orphans
        \/ \E j \in JobIds : PartFails(j) \/ BodyTooShort(j)
    BY DEF Next, CallerStep, CreateStep, CompleteStep, CreateUpload, CreateFails, CreateUnnamed,
           Collect, CollectFails, Unwind, LaunchFails, ServerCompletes,
           CompleteAnswered, CompleteFails, LateCompletion,
           Launch, RunDeferred, Over, JobStep, AttemptStep, SendPart, ServerStores,
           FileRefused, PartAnswered, OrphanArrives, vars, net
  <1> QED BY <1>1, <1>2, <1>3, SentIsPlanned

\* The ETags of a job, and the part it is waiting for, are on the server.
LEMMA JobStoredStep ==
  ASSUME Safe, TypeInv, Integrity, [Next]_vars, NEW j \in JobIds
  PROVE  /\ \A n \in 0 .. i'[j] - 1 : stored'[PartNumber(j, n)] = PlannedBody(j, n)
         /\ job'[j] = "stored" => stored'[PartNumber(j, i'[j])] = PlannedBody(j, i'[j])
  <1>0. /\ i \in [JobIds -> 0 .. PartsPerJob] /\ job \in [JobIds -> JobStates]
        /\ stored \in [PartNumbers -> Content \cup {NoPart}]
        /\ PartsPerJob \in Nat \ {0} /\ i[j] \in 0 .. PartsPerJob
    BY CallAssumption DEF TypeInv, TypeOK
  <1>1. \A n \in 0 .. PartsPerJob - 1 : stored[PartNumber(j, n)] = PlannedBody(j, n)
                                          => stored'[PartNumber(j, n)] = PlannedBody(j, n)
    BY StoredStays, PlanAt, PartNumberRange
  <1>2. \A n \in 0 .. i[j] - 1 : stored'[PartNumber(j, n)] = PlannedBody(j, n)
    <2>1. \A n \in 0 .. i[j] - 1 : n \in 0 .. PartsPerJob - 1
      BY <1>0
    <2> QED BY <1>1, <2>1 DEF Integrity, ServerInv
  <1>3. CASE PartAnswered(j)
    <2>1. /\ i[j] \in 0 .. PartsPerJob - 1 /\ job[j] = "stored"
          /\ i'[j] - 1 = i[j] /\ job'[j] # "stored"
      <3>1. job[j] = "stored" /\ i'[j] = i[j] + 1 /\ job'[j] # "stored"
        BY <1>0, <1>3 DEF PartAnswered
      <3>2. i[j] \in 0 .. PartsPerJob - 1
        BY <3>1, SentTypes
      <3> QED BY <3>1, <3>2
    <2>2. stored'[PartNumber(j, i[j])] = PlannedBody(j, i[j])
      BY <1>1, <2>1 DEF Integrity, ServerInv
    <2>3. \A n \in 0 .. i[j] : n \in 0 .. i[j] - 1 \/ n = i[j]
      BY <1>0
    <2> QED BY <1>2, <2>1, <2>2, <2>3
  <1>4. CASE ServerStores(j)
    <2>1. i[j] \in 0 .. PartsPerJob - 1 /\ i' = i /\ job[j] # "done"
      BY <1>4, SentTypes DEF ServerStores
    <2>2. stored' = [stored EXCEPT ![PartNumber(j, i[j])] = Body(j)]
      BY <1>4 DEF ServerStores, StorePart, Sent
    <2>3. stored'[PartNumber(j, i[j])] = PlannedBody(j, i[j])
      BY <1>0, <2>1, <2>2, SentIsPlanned, PartNumberRange
    <2> QED BY <1>2, <2>1, <2>3
  <1>5. CASE ~PartAnswered(j) /\ ~ServerStores(j)
    <2>1. i'[j] = i[j]
      BY <1>0, <1>5, PartMoves DEF PartAnswered
    <2>2. job'[j] = "stored" => job[j] = "stored"
      BY <1>0, <1>5 DEF Next, CallerStep, CreateStep, CompleteStep, CreateUpload,
           CreateFails, CreateUnnamed, Collect, CollectFails, Unwind, LaunchFails, ServerCompletes,
           CompleteAnswered, CompleteFails, LateCompletion,
           Launch, RunDeferred, Over, JobStep, AttemptStep, SendPart, ServerStores,
           FileRefused, PartAnswered, BodyTooShort, PartFails, Caught,
           OrphanArrives, vars, jobs
    <2>3. job[j] = "stored" => i[j] \in 0 .. PartsPerJob - 1
      BY SentTypes
    <2> QED BY <1>1, <1>2, <2>1, <2>2, <2>3 DEF Integrity, ServerInv
  <1> QED BY <1>3, <1>4, <1>5

\* An upload that has no name gets none, and no part of it is stored.
LEMMA UnnamedStays ==
  ASSUME TypeInv, Unnamed, [Next]_vars, upload' = upload
  PROVE  Unnamed'
  <1>1. fault'
    BY DEF Unnamed, Next, CallerStep, CreateStep, CompleteStep, CreateUpload,
           CreateFails, CreateUnnamed, Collect, CollectFails, Unwind, LaunchFails,
           ServerCompletes, CompleteAnswered, CompleteFails, LateCompletion, Launch,
           RunDeferred, Over, JobStep, AttemptStep, SendPart, ServerStores,
           FileRefused, PartAnswered, BodyTooShort, PartFails, Caught,
           OrphanArrives, vars
  <1>2. ASSUME NEW j \in JobIds PROVE job'[j] \notin {"stored", "done"}
    <2>1. job[j] \notin {"stored", "done"} /\ job \in [JobIds -> JobStates] /\ next \in JobIds
      BY DEF Unnamed, TypeInv, TypeOK
    <2>2. ASSUME NEW k \in JobIds, JobStep(k) \/ AttemptStep(k)
          PROVE  job'[j] \notin {"stored", "done"}
      <3>1. job[k] \notin {"stored", "done"} /\ upload # "open"
        BY DEF Unnamed
      <3>2. \E s : s \notin {"stored", "done"} /\ job' = [job EXCEPT ![k] = s]
        BY <2>2, <3>1 DEF JobStep, AttemptStep, SendPart, FileRefused, ServerStores,
           PartAnswered, BodyTooShort, PartFails, Caught
      <3> QED BY <2>1, <3>2
    <2>3. ASSUME Launch \/ RunDeferred PROVE job'[j] \notin {"stored", "done"}
      BY <2>1, <2>3 DEF Launch, RunDeferred
    <2>4. \/ job' = job \/ Launch \/ RunDeferred
          \/ \E k \in JobIds : JobStep(k) \/ AttemptStep(k)
      BY DEF Next, CallerStep, CreateStep, CompleteStep, CreateUpload,
         CreateFails, CreateUnnamed, Collect, CollectFails, Unwind, LaunchFails,
         ServerCompletes, CompleteAnswered, CompleteFails, LateCompletion,
         OrphanArrives, Over, vars, jobs
    <2> QED BY <2>1, <2>2, <2>3, <2>4
  <1> QED BY <1>1, <1>2 DEF Unnamed

LEMMA ServerStep ==
  ASSUME Safe, TypeInv, Integrity, [Next]_vars
  PROVE  ServerInv'
  <1>1. main' \in {"launch", "collect", "complete"} =>
          \/ main \in {"launch", "collect", "complete"} /\ upload' = upload
          \/ CreateUpload \/ CreateUnnamed
    BY DEF Integrity, ObjectInv, Next, CallerStep, CreateStep, CompleteStep,
           CreateUpload, CreateFails, CreateUnnamed, Collect, CollectFails, Unwind, LaunchFails,
           ServerCompletes, CompleteAnswered, CompleteFails,
           LateCompletion, Launch, RunDeferred, Over, JobStep, AttemptStep, SendPart,
           ServerStores, FileRefused, PartAnswered, BodyTooShort, PartFails, Caught,
           OrphanArrives, vars, caller, server
  <1>2. CASE CreateUpload
    BY <1>2, StoredStays, OrphanStep, JobStoredStep DEF CreateUpload, ServerInv
  <1>3. CASE CreateUnnamed
    <2>1. upload' = "none" /\ fault' /\ job' = job /\ main = "create"
      BY <1>3 DEF CreateUnnamed, Integrity, ObjectInv, server, jobs
    <2>2. \A j \in JobIds : job[j] = "idle"
      BY <2>1 DEF TypeInv, Progress, TypeOK, JobIds
    <2>3. Unnamed'
      BY <2>1, <2>2 DEF Unnamed
    <2> QED BY <2>3, StoredStays, OrphanStep, JobStoredStep DEF ServerInv
  <1>4. CASE main \in {"launch", "collect", "complete"} /\ upload' = upload
    <2>1. CASE Unnamed
      BY <1>4, <2>1, UnnamedStays, StoredStays, OrphanStep, JobStoredStep DEF ServerInv
    <2>2. CASE ~Unnamed
      BY <1>4, <2>2, StoredStays, OrphanStep, JobStoredStep DEF Integrity, ServerInv
    <2> QED BY <2>1, <2>2
  <1>5. CASE main' \notin {"launch", "collect", "complete"}
    BY <1>5, StoredStays, OrphanStep, JobStoredStep DEF ServerInv
  <1> QED BY <1>1, <1>2, <1>3, <1>4, <1>5

LEMMA ObjectStep ==
  ASSUME TypeInv, Integrity, [Next]_vars
  PROVE  ObjectInv'
  <1>1. main \in {"complete", "completed", "returned"} => vetags = Plan
    BY FullListIsPlan DEF Integrity, ListInv
  <1>2. CASE ServerCompletes
    BY <1>1, <1>2 DEF ServerCompletes, Publish, Integrity, ObjectInv, net
  <1>3. CASE CompleteFails
    BY <1>1, <1>3 DEF CompleteFails, Integrity, ObjectInv, server
  <1>4. CASE LateCompletion
    <2>1. lateList = Plan /\ main = "threw" /\ main' = main /\ lateList' = NoList
      BY <1>4 DEF LateCompletion, Integrity, ObjectInv, caller
    <2>2. \/ object' = Plan /\ upload' = "closed"
          \/ UNCHANGED <<object, upload>>
      BY <1>4, <2>1 DEF LateCompletion, Publish, server
    <2> QED BY <2>1, <2>2 DEF Integrity, ObjectInv
  <1>5. CASE CreateStep
    <2>1. /\ main = "create" /\ main' \in {"launch", "threw"}
          /\ object' = object /\ upload' \in {"none", "open"} /\ lateList' = lateList
      BY <1>5 DEF CreateStep, CreateUpload, CreateFails, CreateUnnamed, net, server,
                  Integrity, ObjectInv
    <2>2. object = NoObject /\ lateList = NoList
      BY <2>1 DEF Integrity, ObjectInv
    <2> QED BY <2>1, <2>2 DEF ObjectInv
  <1>6. CASE CallerStep \/ CompleteAnswered \/ LaunchFails
    <2>1. UNCHANGED <<upload, object, lateList>>
      BY <1>6 DEF CallerStep, Launch, RunDeferred, Collect, CollectFails, Unwind,
                  CompleteAnswered, LaunchFails, server, net
    <2>2. /\ main # "threw" /\ main' # "create" /\ main' # "completed"
          /\ main' = "returned" => main = "completed"
      BY <1>6 DEF CallerStep, Launch, RunDeferred, Collect, CollectFails, Unwind,
                  CompleteAnswered, LaunchFails, caller
    <2> QED BY <2>1, <2>2 DEF Integrity, ObjectInv
  <1>9. CASE Over \/ UNCHANGED vars
    BY <1>9 DEF Over, vars, caller, server, net, Integrity, ObjectInv
  <1>7. ASSUME NEW j \in JobIds, JobStep(j) \/ AttemptStep(j)
        PROVE  ObjectInv'
    BY <1>7 DEF JobStep, AttemptStep, SendPart, ServerStores, FileRefused,
                PartAnswered, BodyTooShort, PartFails, MayArriveLate, Caught, caller, server,
                net, Integrity, ObjectInv
  <1>8. ASSUME NEW r \in orphans, OrphanArrives(r)
        PROVE  ObjectInv'
    BY <1>8 DEF OrphanArrives, caller, Integrity, ObjectInv
  <1> QED BY <1>2, <1>3, <1>4, <1>5, <1>6, <1>7, <1>8, <1>9 DEF Next, CompleteStep

\* A planned part can be read, and a complete list is accepted: only a fault
\* makes a job, and the caller, give up.
LEMMA FaultStep ==
  ASSUME Safe, TypeInv, Integrity, [Next]_vars
  PROVE  FaultInv'
  <1>0. source' = source /\ (fault => fault')
    <2>1. ASSUME NEW j \in JobIds, FileRefused(j)
          PROVE  source' = source /\ (fault => fault')
      BY <2>1 DEF FileRefused, Caught, call
    <2>2. CASE CompleteFails
      BY <2>2 DEF CompleteFails, call
    <2>3. CASE ~CompleteFails /\ ~ \E j \in JobIds : FileRefused(j)
      BY <2>3 DEF Next, CallerStep, CreateStep, CompleteStep, CreateUpload,
           CreateFails, CreateUnnamed, Collect, CollectFails, Unwind, LaunchFails, ServerCompletes,
           CompleteAnswered, LateCompletion, Launch,
           RunDeferred, OrphanArrives, Over, JobStep, AttemptStep, SendPart,
           ServerStores, PartAnswered, BodyTooShort, PartFails, Caught, vars, call
    <2> QED BY <2>1, <2>2, <2>3
  <1>6. ASSUME NEW j \in JobIds, job[j] = "failed"
        PROVE  job'[j] = "failed" /\ Body(j)' = Body(j)
    <2> DEFINE Stays == job'[j] = "failed" /\ i'[j] = i[j] /\ offset'[j] = offset[j]
    <2>1. /\ job \in [JobIds -> JobStates] /\ next \in JobIds
          /\ i \in [JobIds -> 0 .. PartsPerJob] /\ offset \in [JobIds -> Nat]
          /\ main = "launch" => job[next] = "idle"
      BY DEF TypeInv, TypeOK, Progress, JobIds
    <2>2. ASSUME UNCHANGED jobs PROVE Stays
      BY <1>6, <2>2 DEF jobs
    <2>3. ASSUME Launch \/ RunDeferred PROVE Stays
      BY <1>6, <2>1, <2>3 DEF Launch, RunDeferred
    <2>4. ASSUME NEW k \in JobIds, JobStep(k) \/ AttemptStep(k)
          PROVE  Stays
      <3>1. /\ k # j
            /\ \E s : job' = [job EXCEPT ![k] = s]
            /\ \E m : i' = [i EXCEPT ![k] = m] \/ UNCHANGED i
            /\ \E o : offset' = [offset EXCEPT ![k] = o] \/ UNCHANGED offset
        BY <1>6, <2>4 DEF JobStep, AttemptStep, SendPart, FileRefused, ServerStores,
           PartAnswered, BodyTooShort, PartFails, Caught
      <3> QED BY <1>6, <2>1, <3>1
    <2>5. \/ UNCHANGED jobs \/ Launch \/ RunDeferred
          \/ \E k \in JobIds : JobStep(k) \/ AttemptStep(k)
      BY DEF Next, CallerStep, CreateStep, CompleteStep, CreateUpload,
         CreateFails, CreateUnnamed, Collect, CollectFails, Unwind, LaunchFails, ServerCompletes,
         CompleteAnswered, CompleteFails, LateCompletion, OrphanArrives, Over, vars
    <2>6. Stays
      BY <2>2, <2>3, <2>4, <2>5
    <2> QED BY <2>6 DEF Body, PartSizeOf
  <1>7. GaveUpEmpty => GaveUpEmpty'
    BY <1>6 DEF GaveUpEmpty, FailedJobs
  <1> SUFFICES ASSUME CanSend, ~fault', ~GaveUpEmpty'
               PROVE  FailedJobs' = {} /\ main' \notin {"unwind", "threw"}
    BY <1>0 DEF FaultInv, CanSend
  <1>1. ~fault /\ FailedJobs = {} /\ main \notin {"unwind", "threw"}
    BY <1>0, <1>7 DEF Integrity, FaultInv
  <1>2. ASSUME NEW j \in JobIds, Caught(j), job[j] \in {"send", "sent", "stored"},
               job'[j] = "failed"
        PROVE  FileRefused(j) \/ BodyTooShort(j) \/ PartFails(j) => FALSE
    <2>1. ~FileRefused(j)
      BY DEF FileRefused
    <2>2. ~BodyTooShort(j)
      <3>1. /\ Readable(Body(j)) /\ job[j] # "done"
        BY <1>2, SentIsPlanned, SentTypes
      <3>2. Body(j).size # 0
        <4>1. Body(j)' = Body(j)
          BY <1>2 DEF Caught, Body, PartSizeOf
        <4> QED BY <1>2, <4>1 DEF GaveUpEmpty, FailedJobs
      <3>3. Asked(Body(j)) = Body(j).size
        BY <3>2 DEF Asked
      <3>4. ~(Body(j).from + Body(j).size > FileSize)
        BY <3>1, <1>2, SentTypes, CallAssumption DEF Readable, Content
      <3> QED BY <3>3, <3>4 DEF BodyTooShort
    <2>3. ~PartFails(j)
      BY DEF PartFails
    <2> QED BY <2>1, <2>2, <2>3
  <1>3. CompleteFails => fault'
    BY CompleteListMatches DEF CompleteFails, Acceptable
  <1>4. FailedJobs' = {}
    <2>1. ASSUME NEW j \in JobIds, job'[j] = "failed", job[j] # "failed"
          PROVE  FileRefused(j) \/ BodyTooShort(j) \/ PartFails(j)
      <3>1. job \in [JobIds -> JobStates]
        BY DEF TypeInv, TypeOK
      <3> QED BY <2>1, <3>1 DEF Next, CallerStep, CreateStep, CompleteStep,
            CreateUpload, CreateFails, CreateUnnamed, Collect, CollectFails, Unwind, LaunchFails,
            ServerCompletes, CompleteAnswered, CompleteFails,
            LateCompletion, Launch, RunDeferred, OrphanArrives, Over, JobStep,
            AttemptStep, SendPart, FileRefused, ServerStores, PartAnswered,
            BodyTooShort, PartFails, Caught, vars, jobs
    <2>2. ASSUME NEW j \in JobIds, job'[j] = "failed", job[j] # "failed"
          PROVE  FALSE
      BY <1>2, <2>1, <2>2 DEF FileRefused, BodyTooShort, PartFails
    <2> QED BY <1>1, <2>2 DEF FailedJobs
  <1>5. main' \notin {"unwind", "threw"}
    <2>1. ~CollectFails
      <3>1. next \in JobIds
        BY DEF TypeInv, TypeOK
      <3> QED BY <1>1, <3>1 DEF CollectFails, FailedJobs
    <2> QED BY <1>1, <1>3, <2>1, CallerMoves
            DEF Launch, Collect, Unwind, LaunchFails, CreateStep, CompleteStep,
                CreateUpload, CreateFails, CreateUnnamed, ServerCompletes, CompleteAnswered,
                CompleteFails, caller
  <1> QED BY <1>4, <1>5

-----------------------------------------------------------------------------
LEMMA IntegrityInit == ASSUME Init PROVE Integrity
  <1> USE DEF Init
  <1>1. CallerInv /\ ObjectInv
    BY DEF CallerInv, ObjectInv
  <1>2. PlanInv
    <2> SUFFICES ASSUME NEW j \in JobIds
                 PROVE  Body(j) = PlannedBody(j, 0)
      BY DEF PlanInv
    <2>1. PieceFrom(Chunk(FileSize, Jobs, j), PartsPerJob, 0) = 0
      <3>1. /\ Chunk(FileSize, Jobs, j) \in Nat
            /\ Chunk(FileSize, Jobs, j) + PartsPerJob <= Word
        BY PlanTypes
      <3>2. PieceSize(Chunk(FileSize, Jobs, j), PartsPerJob) \in Nat
        BY <3>1, PieceSizeBounds, CallAssumption
      <3> QED BY <3>2 DEF PieceFrom
    <2>2. JobFrom(j) + 0 = JobFrom(j)
      BY PlanTypes
    <2> QED BY <2>1, <2>2 DEF Body, PlannedBody
  <1>3. ListInv
    <2>1. Jobs * PartsPerJob \in Nat
      BY CallAssumption
    <2> QED BY <2>1 DEF ListInv
  <1>4. ServerInv
    BY DEF ServerInv
  <1>5. FaultInv
    BY DEF FaultInv, FailedJobs
  <1> QED BY <1>1, <1>2, <1>3, <1>4, <1>5 DEF Integrity

LEMMA IntegrityAlways ==
  ASSUME Safe
  PROVE  Spec => [](TypeInv /\ Integrity)
  <1>1. Init => Integrity
    BY IntegrityInit
  <1>2. TypeInv /\ Integrity /\ [Next]_vars => Integrity'
    <2> SUFFICES ASSUME TypeInv, Integrity, [Next]_vars PROVE Integrity'
      OBVIOUS
    <2>1. CallerInv'
      BY CallerInvStep DEF Integrity
    <2>2. PlanInv'
      BY PlanStep DEF Integrity
    <2> QED BY <2>1, <2>2, ListStep, ServerStep, ObjectStep, FaultStep DEF Integrity
  <1> QED BY <1>1, <1>2, TypeAlways, PTL DEF Spec

(* For every file size, number of jobs and parts whose split wraps         *)
(* nowhere, and whatever is lost, late or sent again: the object under the *)
(* key is the source.                                                      *)
THEOREM UploadIntact == Spec => []ObjectIsSource
  <1>1. CASE Safe
    <2>1. TypeInv /\ Integrity => ObjectIsSource
      BY <1>1, PlanTiles DEF Integrity, ObjectInv, ObjectIsSource
    <2> QED BY <1>1, <2>1, IntegrityAlways, PTL
  <1>2. CASE ~Safe
    <2>1. ObjectIsSource
      BY <1>2 DEF ObjectIsSource
    <2> QED BY <2>1, PTL
  <1> QED BY <1>1, <1>2

(* The ETags the caller will list are those of the parts the server holds. *)
THEOREM EtagsValid ==
  ASSUME Safe
  PROVE  Spec => []EtagsStayValid
  <1>1. TypeInv /\ Integrity => EtagsStayValid
    <2> SUFFICES ASSUME TypeInv, Integrity, NEW j \in JobIds, NEW n \in 1 .. Len(etags[j])
                 PROVE  stored[PartNumber(j, n - 1)] = etags[j][n]
      BY DEF EtagsStayValid
    <2>1. Len(etags[j]) = i[j] /\ i[j] \in 0 .. PartsPerJob
      BY DEF Integrity, PlanInv, TypeInv, TypeOK
    <2>2. n - 1 \in 0 .. i[j] - 1 /\ n = (n - 1) + 1
      BY <2>1, CallAssumption
    <2>3. etags[j][(n - 1) + 1] = PlannedBody(j, n - 1)
      BY <2>2 DEF Integrity, PlanInv
    <2>4. stored[PartNumber(j, n - 1)] = PlannedBody(j, n - 1)
      BY <2>2 DEF Integrity, ServerInv
    <2> QED BY <2>2, <2>3, <2>4
  <1> QED BY <1>1, IntegrityAlways, PTL

(* No interleaving makes an upload of a file fail by itself: an exception  *)
(* means that a request, or the start of a thread, failed, or that a job   *)
(* gave up at an empty part.                                               *)
THEOREM UploadFailsOnlyOnFault == Spec => []FailsOnlyOnFault
  <1>1. CASE Safe
    <2>1. TypeInv /\ Integrity => FailsOnlyOnFault
      BY DEF Integrity, FaultInv, FailsOnlyOnFault
    <2> QED BY <1>1, <2>1, IntegrityAlways, PTL
  <1>2. CASE ~Safe
    <2>1. FailsOnlyOnFault
      BY <1>2 DEF FailsOnlyOnFault
    <2> QED BY <2>1, PTL
  <1> QED BY <1>1, <1>2

(* The whole call, with its jobs, retries and late requests, is an atomic  *)
(* upload of the source.                                                   *)
THEOREM UploadIsAtomic ==
  ASSUME Safe
  PROVE  Spec => ImplementsAtomicUpload
  <1>1. Init => Atomic!Init
    BY DEF Init, Atomic!Init, Result
  <1>2. TypeInv /\ Integrity /\ (TypeInv /\ Integrity)' /\ [Next]_vars
          => [Atomic!Next]_(Atomic!vars)
    <2> SUFFICES ASSUME TypeInv, Integrity, (TypeInv /\ Integrity)', [Next]_vars
                 PROVE  [Atomic!Next]_(Atomic!vars)
      OBVIOUS
    <2> USE DEF Atomic!Next, Atomic!vars, Atomic!Publish, Atomic!ReturnOk,
                Atomic!ReturnError, Result
    <2>1. CASE CallerStep \/ CreateStep \/ LaunchFails
      <3>1. object' = object /\ main \notin {"returned", "threw"} /\ main' # "returned"
        BY <2>1 DEF CallerStep, Launch, RunDeferred, Collect, CollectFails, Unwind,
                    CreateStep, CreateUpload, CreateFails, CreateUnnamed, LaunchFails,
                     server, caller
      <3> QED BY <3>1
    <2>2. CASE ServerCompletes
      <3>1. object = NoObject /\ object' = Plan /\ main = "complete" /\ main' = "completed"
        BY <2>2, CompleteListMatches DEF ServerCompletes, Publish, Integrity, ObjectInv
      <3> QED BY <3>1
    <2>3. CASE CompleteFails
      BY <2>3 DEF CompleteFails, server
    <2>4. CASE CompleteAnswered
      BY <2>4 DEF CompleteAnswered, server, Integrity, ObjectInv
    <2>5. CASE LateCompletion
      <3>1. lateList = Plan /\ main = "threw" /\ main' = main
        BY <2>5 DEF LateCompletion, Integrity, ObjectInv, caller
      <3>2. object' = object \/ (object = NoObject /\ object' = Plan)
        BY <2>5, <3>1 DEF LateCompletion, Publish, server, Integrity, ObjectInv
      <3> QED BY <3>1, <3>2
    <2>6. ASSUME NEW j \in JobIds, JobStep(j) \/ AttemptStep(j)
          PROVE  object' = object /\ main' = main
      BY <2>6 DEF JobStep, AttemptStep, SendPart, ServerStores, FileRefused,
                  PartAnswered, BodyTooShort, PartFails, Caught, caller, server
    <2>7. ASSUME NEW r \in orphans, OrphanArrives(r)
          PROVE  object' = object /\ main' = main
      BY <2>7 DEF OrphanArrives, caller
    <2>8. CASE Over \/ UNCHANGED vars
      BY <2>8 DEF Over, vars, caller, server
    <2> QED BY <2>1, <2>2, <2>3, <2>4, <2>5, <2>6, <2>7, <2>8 DEF Next, CompleteStep
  <1> QED BY <1>1, <1>2, IntegrityAlways, PTL DEF Spec, ImplementsAtomicUpload, Atomic!Spec
=============================================================================
