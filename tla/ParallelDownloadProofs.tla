----------------------- MODULE ParallelDownloadProofs -----------------------
(***************************************************************************)
(* Theorems about ParallelDownload, for every number and size of versions, *)
(* number of jobs and parts, budget of retries and length of an error.     *)
(***************************************************************************)
EXTENDS ParallelDownload, PartitionProofs, FiniteSetTheorems

(* The split: constant facts, whatever wraps.                              *)

\* The assumptions on the constants, number by number.
LEMMA Constants ==
  /\ Jobs \in Nat \ {0} /\ PartsPerJob \in Nat \ {0} /\ MaxRetries \in Nat
  /\ ErrorLen \in Nat \ {0} /\ Word \in Nat \ {0}
  <1>1. 1 \in DOMAIN Sizes
    BY DownloadAssumption
  <1>2. Sizes[1] \in Nat /\ Sizes[1] + Jobs + PartsPerJob < Word
    BY <1>1, DownloadAssumption
  <1> QED BY <1>2, DownloadAssumption

LEMMA VersionSizes ==
  /\ 1 \in Versions /\ Versions = 1 .. Len(Sizes) /\ Len(Sizes) \in Nat
  /\ \A v \in Versions : Sizes[v] \in Nat /\ Sizes[v] + Jobs + PartsPerJob < Word
                                        /\ Sizes[v] < Word - 1
  /\ Word - 1 \in 0 .. Word - 1
  <1>1. /\ Versions = 1 .. Len(Sizes) /\ Len(Sizes) \in Nat /\ Len(Sizes) # 0
        /\ \A v \in Versions : Sizes[v] \in Nat /\ Sizes[v] + Jobs + PartsPerJob < Word
    BY DownloadAssumption DEF Versions
  <1>2. 1 \in Versions
    BY <1>1
  <1> QED BY <1>1, <1>2, Constants

LEMMA SplitWords ==
  ASSUME NEW total \in 0 .. Word - 1, NEW j \in JobIds
  PROVE  /\ JobFrom(total, j) \in Nat
         /\ Chunk(total, Jobs, j) \in 0 .. Word - 1
         /\ \A n \in PartIds :
              /\ PieceFrom(Chunk(total, Jobs, j), PartsPerJob, n) \in Nat
              /\ PartLen(total, Jobs, PartsPerJob, j, n) \in Nat
  <1>1. Word \in Nat \ {0} /\ Jobs \in Nat \ {0} /\ PartsPerJob \in Nat \ {0}
    BY Constants
  <1>2. j \in 0 .. Jobs - 1
    BY DEF JobIds
  <1>3. JobFrom(total, j) \in 0 .. Word - 1 /\ Chunk(total, Jobs, j) \in 0 .. Word - 1
    BY <1>1, <1>2, PieceWords DEF JobFrom, Chunk
  <1>4. ASSUME NEW n \in 0 .. PartsPerJob - 1
        PROVE  /\ PieceFrom(Chunk(total, Jobs, j), PartsPerJob, n) \in 0 .. Word - 1
               /\ PieceLen(Chunk(total, Jobs, j), PartsPerJob, n) \in 0 .. Word - 1
    BY <1>1, <1>3, <1>4, PieceWords
  <1> QED BY <1>3, <1>4 DEF PartIds, PartLen

\* The jobs are launched and waited for one after the other.
LEMMA FollowingJob ==
  ASSUME NEW j \in JobIds
  PROVE  j \in Nat /\ (j + 1 < Jobs => j + 1 \in JobIds)
  BY Constants DEF JobIds

-----------------------------------------------------------------------------
(* The destination.                                                        *)

LEMMA LengthOf ==
  ASSUME NEW n \in Nat, DOMAIN dest = 0 .. n - 1
  PROVE  Length = n
  BY FS_Interval DEF Length

LEMMA LengthOfNext ==
  ASSUME NEW n \in Nat, DOMAIN dest' = 0 .. n - 1
  PROVE  Length' = n
  BY FS_Interval DEF Length

Bytes == {Filler, Wrong} \cup Versions

DestOK == Length \in Nat /\ dest \in [0 .. Length - 1 -> Bytes]

LEMMA BlankDest ==
  ASSUME NEW n \in Nat
  PROVE  /\ dest = Blank(n) => Length = n /\ DestOK
         /\ dest' = Blank(n) => Length' = n /\ DestOK'
  <1>1. dest = Blank(n) => Length = n
    BY LengthOf DEF Blank
  <1>2. dest' = Blank(n) => Length' = n
    BY LengthOfNext DEF Blank
  <1> QED BY <1>1, <1>2 DEF DestOK, Blank, Bytes

LEMMA SameDest ==
  ASSUME DestOK, UNCHANGED dest
  PROVE  DestOK' /\ Length' = Length
  BY DEF DestOK, Length

\* What a write into the file does: the bytes of the body are in it, from the
\* offset on, and no other byte has changed.
Bodies == [version : {Wrong} \cup Versions, from : Nat, size : Nat]

LEMMA WriteEffect ==
  ASSUME DestOK, target = "file", NEW at \in Nat, NEW body \in Bodies, Write(at, body)
  PROVE  /\ DestOK'
         /\ body.size = 0 => Length' = Length
         /\ body.size # 0 => Length' = IF Length > at + body.size THEN Length
                                       ELSE at + body.size
         /\ \A p \in 0 .. Length - 1 : p < at \/ at + body.size <= p => dest'[p] = dest[p]
         /\ \A p \in at .. at + body.size - 1 :
              dest'[p] = IF at = body.from THEN body.version ELSE Wrong
  <1>1. body.size \in Nat /\ body.from \in Nat /\ body.version \in {Wrong} \cup Versions
    BY DEF Bodies
  <1>2. CASE body.size = 0
    <2>1. UNCHANGED dest
      BY <1>2 DEF Write
    <2> QED BY <1>1, <1>2, <2>1, SameDest
  <1>3. CASE body.size # 0
    <2> DEFINE mark == IF at = body.from THEN body.version ELSE Wrong
               end  == at + body.size
               n    == IF Length > end THEN Length ELSE end
    <2>1. Length \in Nat /\ end \in Nat /\ n \in Nat /\ end <= n /\ Length <= n
      BY <1>1 DEF DestOK
    <2>2. mark \in Bytes
      BY <1>1 DEF Bytes
    <2> HIDE DEF mark
    <2>3. dest' = [p \in 0 .. n - 1 |-> IF at <= p /\ p < end THEN mark
                                        ELSE IF p < Length THEN dest[p] ELSE Filler]
      BY <1>3 DEF Write, mark
    <2> HIDE DEF n
    <2>4. Length' = n
      BY <2>1, <2>3, LengthOfNext
    <2>5. \A p \in 0 .. n - 1 : p < Length => dest[p] \in Bytes
      BY <2>1 DEF DestOK
    <2>6. dest' \in [0 .. n - 1 -> Bytes]
      BY <2>2, <2>3, <2>5 DEF Bytes
    <2>7. DestOK'
      BY <2>1, <2>4, <2>6 DEF DestOK
    <2>8. \A p \in 0 .. Length - 1 : p < at \/ at + body.size <= p => dest'[p] = dest[p]
      BY <1>1, <2>1, <2>3
    <2>9. \A p \in at .. at + body.size - 1 : dest'[p] = mark
      BY <1>1, <2>1, <2>3
    <2> QED BY <1>3, <2>4, <2>7, <2>8, <2>9 DEF n, mark
  <1> QED BY <1>2, <1>3

LEMMA WriteTypes ==
  ASSUME DestOK, target \in {"file", "buffer"}, NEW at \in Nat, NEW body \in Bodies,
         Write(at, body)
  PROVE  DestOK'
  <1>1. CASE target = "buffer"
    BY <1>1, SameDest DEF Write
  <1>2. CASE target = "file"
    BY <1>2, WriteEffect
  <1> QED BY <1>1, <1>2

-----------------------------------------------------------------------------
(* Types.                                                                  *)

TypeInv == TypeOK /\ Progress

\* The part a job that has not ended is getting.
LEMMA CurrentPart ==
  ASSUME TypeInv, NEW j \in JobIds, job[j] # "done"
  PROVE  /\ i[j] \in PartIds
         /\ offset[j] \in Nat
         /\ PartSizeOf(j, i[j]) \in Nat
         /\ Last(j) \in Nat
  <1>1. i[j] \in PartIds /\ offset[j] \in Nat /\ size \in 0 .. Word - 1 /\ Word \in Nat
    BY Constants DEF TypeInv, TypeOK, Progress, PartIds
  <1>2. PartSizeOf(j, i[j]) \in Nat
    BY <1>1, SplitWords DEF PartSizeOf
  <1>3. Last(j) \in Nat
    <2> DEFINE e == offset[j] + PartSizeOf(j, i[j])
    <2>1. e \in Nat /\ Word >= 1
      BY <1>1, <1>2
    <2> HIDE DEF e
    <2> QED BY <1>1, <2>1 DEF Last, Sub, e
  <1> QED BY <1>1, <1>2, <1>3

LEMMA AnswerTypes ==
  ASSUME TypeInv, NEW j \in JobIds, job[j] # "done"
  PROVE  /\ ErrorBody \in Bodies
         /\ \A body \in Answers(j) :
              body \in Bodies /\ \A n \in Nat : [body EXCEPT !.size = n] \in Bodies
  <1>1. ErrorBody \in Bodies
    BY Constants DEF ErrorBody, Bodies
  <1>2. Served \in {0} \cup Versions
    BY VersionSizes DEF Served, TypeInv, TypeOK
  <1>3. \A v \in Versions : WholeObject(v) \in Bodies
    BY VersionSizes DEF WholeObject, Bodies
  <1>4. ASSUME NEW v \in Versions, First(j) <= Last(j), First(j) < Sizes[v]
        PROVE  RangeOf(v, First(j), Last(j)) \in Bodies
    <2>1. First(j) \in Nat /\ Last(j) \in Nat /\ Sizes[v] \in Nat
      BY CurrentPart, VersionSizes DEF First
    <2>2. Least(Last(j), Sizes[v] - 1) - First(j) + 1 \in Nat
      BY <1>4, <2>1 DEF Least
    <2> QED BY <2>1, <2>2 DEF RangeOf, Bodies
  <1>5. First(j) \in Nat /\ Last(j) \in Nat
    BY CurrentPart DEF First
  <1>6. ASSUME NEW body \in Answers(j)
        PROVE  body \in Bodies
    <2>1. CASE body = ErrorBody
      BY <1>1, <2>1
    <2>2. CASE body = WholeObject(Served) /\ Served # 0
      BY <1>2, <1>3, <2>2
    <2>3. CASE /\ Served # 0 /\ First(j) <= Last(j) /\ First(j) < Sizes[Served]
               /\ body = RangeOf(Served, First(j), Last(j))
      BY <1>2, <1>4, <2>3
    <2>4. Served # 0 => Sizes[Served] \in Nat
      BY <1>2, VersionSizes
    <2> QED BY <1>5, <1>6, <2>1, <2>2, <2>3, <2>4 DEF Answers
  <1> QED BY <1>1, <1>6 DEF Bodies

LEMMA InitTypes == ASSUME Init PROVE TypeInv
  <1>1. 0 \in JobIds
    BY Constants DEF JobIds
  <1>2. size \in 0 .. Word - 1 /\ size \in Nat
    <2>1. Sizes[1] \in 0 .. Word - 1 /\ 0 \in 0 .. Word - 1
      BY VersionSizes, Constants
    <2> QED BY <2>1, Constants DEF Init
  <1>3. DestOK
    BY <1>2, BlankDest DEF Init
  <1>4. /\ job \in [JobIds -> {"idle", "deferred", "send", "done", "failed"}]
        /\ i \in [JobIds -> 0 .. PartsPerJob] /\ offset \in [JobIds -> Nat]
    BY Constants DEF Init
  <1>5. cut \subseteq JobIds \X PartIds /\ latest \in {0} \cup Versions
    BY VersionSizes DEF Init
  <1>6. TypeOK
    BY <1>1, <1>2, <1>3, <1>4, <1>5 DEF Init, TypeOK, DestOK, Bytes
  <1> QED BY <1>6, Constants DEF Init, TypeInv, Progress

\* What an attempt that throws does to a job.
LEMMA CaughtTypes ==
  ASSUME TypeInv, NEW j \in JobIds, job[j] = "send", Caught(j)
  PROVE  /\ job' \in [JobIds -> {"idle", "deferred", "send", "done", "failed"}]
         /\ job'[j] \in {"send", "failed"}
         /\ \A k \in JobIds \ {j} : job'[k] = job[k]
         /\ retriesG' \in Nat /\ granted' \in Nat
         /\ UNCHANGED <<call, latest, caller, i, offset, cut>>
  <1>1. /\ job \in [JobIds -> {"idle", "deferred", "send", "done", "failed"}]
        /\ retriesG \in Nat /\ granted \in Nat
    BY DEF TypeInv, TypeOK
  <1>2. retriesG' = retriesG + 1 /\ granted' \in {granted, granted + 1}
    BY DEF Caught
  <1>3. UNCHANGED job \/ job' = [job EXCEPT ![j] = "failed"]
    BY DEF Caught
  <1> QED BY <1>1, <1>2, <1>3 DEF Caught

\* What an answer does to a job.
LEMMA NextPartTypes ==
  ASSUME TypeInv, NEW j \in JobIds, job[j] = "send", NextPart(j)
  PROVE  /\ job' \in [JobIds -> {"idle", "deferred", "send", "done", "failed"}]
         /\ job'[j] = IF i[j] + 1 = PartsPerJob THEN "done" ELSE "send"
         /\ i' \in [JobIds -> 0 .. PartsPerJob] /\ i'[j] = i[j] + 1
         /\ offset' \in [JobIds -> Nat] /\ offset'[j] = offset[j] + PartSizeOf(j, i[j])
         /\ \A k \in JobIds \ {j} :
              job'[k] = job[k] /\ i'[k] = i[k] /\ offset'[k] = offset[k]
         /\ UNCHANGED <<call, latest, caller, retriesG, granted>>
  <1>1. /\ job \in [JobIds -> {"idle", "deferred", "send", "done", "failed"}]
        /\ i \in [JobIds -> 0 .. PartsPerJob] /\ offset \in [JobIds -> Nat]
    BY DEF TypeInv, TypeOK
  <1>2. i[j] \in PartIds /\ PartSizeOf(j, i[j]) \in Nat
    BY CurrentPart
  <1>3. i[j] + 1 \in 0 .. PartsPerJob
    BY <1>2, Constants DEF PartIds
  <1>4. job'[j] = IF i[j] + 1 = PartsPerJob THEN "done" ELSE "send"
    BY <1>1 DEF NextPart
  <1> QED BY <1>1, <1>2, <1>3, <1>4 DEF NextPart

\* What launching a job does.
LEMMA LaunchMoves ==
  ASSUME TypeOK, Launch
  PROVE  /\ main = "launch" /\ main' \in {"launch", "wait"}
         /\ main' = "launch" => next' = next + 1
         /\ main' = "wait" => next' = 0
         /\ next' \in JobIds
         /\ job' \in [JobIds -> {"idle", "deferred", "send", "done", "failed"}]
         /\ job'[next] \in {"deferred", "send"}
         /\ \A k \in JobIds \ {next} : job'[k] = job[k]
         /\ UNCHANGED <<call, latest, size, i, offset, retriesG, granted, dest, cut, fault>>
  <1>1. /\ job \in [JobIds -> {"idle", "deferred", "send", "done", "failed"}]
        /\ next \in JobIds
    BY DEF TypeOK
  <1>2. job' = [job EXCEPT ![next] = "deferred"] \/ job' = [job EXCEPT ![next] = "send"]
    BY DEF Launch
  <1>3. \/ next + 1 < Jobs /\ next' = next + 1 /\ main' = "launch"
        \/ next' = 0 /\ main' = "wait"
    BY DEF Launch
  <1>4. 0 \in JobIds
    BY Constants DEF JobIds
  <1>5. main = "launch" /\ UNCHANGED <<call, latest, size, i, offset, retriesG, granted,
                                       dest, cut, fault>>
    BY DEF Launch
  <1>6. next' \in JobIds /\ main' \in {"launch", "wait"}
    BY <1>1, <1>3, <1>4, FollowingJob
  <1> QED BY <1>1, <1>2, <1>3, <1>5, <1>6

LEMMA NextTypes == ASSUME TypeInv, [Next]_vars PROVE TypeOK'
  <1> USE DEF TypeInv, TypeOK, call, caller, jobs
  <1>0. DestOK
    BY DEF DestOK, Bytes
  <1>1. ASSUME NEW total \in 0 .. Word - 1, Prepare(total), DestOK',
               fault' \in BOOLEAN
        PROVE  TypeOK'
    <2>1. offset' \in [JobIds -> Nat]
      BY <1>1, SplitWords DEF Prepare
    <2> QED BY <1>1, <2>1 DEF Prepare, DestOK, Bytes
  <1>2. CASE HeadStep
    <2>1. CASE SizeKnown
      <3>1. Sizes[latest] \in 0 .. Word - 1 /\ Sizes[latest] \in Nat
        BY <2>1, VersionSizes DEF SizeKnown
      <3> QED BY <1>1, <2>1, <3>1, BlankDest DEF SizeKnown
    <2>2. CASE SizeUnknown
      <3>1. fault' \in BOOLEAN
        BY <2>2 DEF SizeUnknown
      <3> QED BY <1>1, <2>2, <3>1, VersionSizes, BlankDest DEF SizeUnknown
    <2>3. CASE BufferGiven
      BY <1>0, <1>1, <2>3, SameDest DEF BufferGiven
    <2> QED BY <1>2, <2>1, <2>2, <2>3 DEF HeadStep
  <1>3. CASE Launch
    BY <1>0, <1>3, LaunchMoves, SameDest DEF DestOK, Bytes
  <1>4. CASE RunDeferred
    <2>1. /\ UNCHANGED dest
          /\ job' \in [JobIds -> {"idle", "deferred", "send", "done", "failed"}]
      BY <1>4 DEF RunDeferred
    <2> QED BY <1>0, <1>4, <2>1, SameDest DEF RunDeferred, DestOK, Bytes
  <1>5. CASE Wait \/ Unwind \/ StartFails \/ LaunchFails \/ NewVersion
    <2>1. /\ UNCHANGED dest /\ UNCHANGED <<call, size, job, i, offset, retriesG, granted, cut>>
          /\ next' \in JobIds /\ latest' \in {0} \cup Versions /\ fault' \in BOOLEAN
          /\ main' \in {"head", "launch", "wait", "unwind", "returned", "threw"}
      BY <1>5, FollowingJob DEF Wait, Unwind, StartFails, LaunchFails, NewVersion, Versions
    <2> QED BY <1>0, <2>1, SameDest DEF DestOK, Bytes
  <1>6. ASSUME NEW j \in JobIds, Attempt(j)
        PROVE  TypeOK'
    <2>1. job[j] = "send"
      BY <1>6 DEF Attempt, PartArrives, PartCut, PartRefused, NothingWritten
    <2>2. First(j) \in Nat /\ i[j] \in PartIds
      BY <2>1, CurrentPart DEF First
    <2>3. DestOK'
      <3>1. ASSUME NEW body \in Bodies, Write(First(j), body)
            PROVE  DestOK'
        BY <1>0, <2>2, <3>1, WriteTypes
      <3>2. CASE PartArrives(j)
        BY <2>1, <3>1, <3>2, AnswerTypes DEF PartArrives
      <3>3. CASE PartCut(j)
        <4>1. PICK body \in Answers(j) : \E n \in 0 .. body.size - 1 :
                Write(First(j), [body EXCEPT !.size = n])
          BY <3>3 DEF PartCut
        <4>2. PICK n \in 0 .. body.size - 1 : Write(First(j), [body EXCEPT !.size = n])
          BY <4>1
        <4>3. n \in Nat
          BY <2>1, <4>1, AnswerTypes DEF Bodies
        <4> QED BY <2>1, <3>1, <4>1, <4>2, <4>3, AnswerTypes
      <3>4. CASE PartRefused(j)
        BY <2>1, <3>1, <3>4, AnswerTypes DEF PartRefused
      <3>5. CASE NothingWritten(j)
        BY <1>0, <3>5, SameDest DEF NothingWritten
      <3> QED BY <1>6, <3>2, <3>3, <3>4, <3>5 DEF Attempt
    <2>4. fault' \in BOOLEAN
      <3>1. CASE PartArrives(j) \/ PartCut(j)
        BY <3>1 DEF PartArrives, PartCut
      <3>2. CASE PartRefused(j)
        BY <3>2 DEF PartRefused
      <3>3. CASE NothingWritten(j)
        BY <3>3 DEF NothingWritten
      <3> QED BY <1>6, <3>1, <3>2, <3>3 DEF Attempt
    <2>5. CASE NextPart(j)
      <3>1. cut' \subseteq JobIds \X PartIds
        BY <1>6, <2>1, <2>2, <2>5 DEF Attempt, PartArrives, PartCut, PartRefused,
                                      NothingWritten, Caught
      <3> QED BY <2>1, <2>3, <2>4, <2>5, <3>1, NextPartTypes DEF DestOK, Bytes
    <2>6. CASE Caught(j)
      BY <2>1, <2>3, <2>4, <2>6, CaughtTypes DEF DestOK, Bytes
    <2> QED BY <1>6, <2>5, <2>6 DEF Attempt, PartArrives, PartCut, PartRefused,
                                    NothingWritten
  <1>7. CASE UNCHANGED vars
    BY <1>0, <1>7, SameDest DEF vars, DestOK, Bytes
  <1> QED BY <1>2, <1>3, <1>4, <1>5, <1>6, <1>7 DEF Next, CallerStep, Over

\* What a step may do to the jobs: nothing, launch one, run one, or an attempt.
LEMMA JobMoves ==
  ASSUME TypeInv, [Next]_vars
  PROVE  \/ UNCHANGED jobs /\ UNCHANGED caller /\ UNCHANGED target
         \/ UNCHANGED jobs /\ (Wait \/ Unwind \/ StartFails \/ LaunchFails)
         \/ HeadStep \/ Launch \/ RunDeferred
         \/ \E j \in JobIds : job[j] = "send" /\ NextPart(j)
         \/ \E j \in JobIds : job[j] = "send" /\ Caught(j)
  BY DEF Next, CallerStep, Attempt, PartArrives, PartCut, PartRefused, NothingWritten,
         NewVersion, Over, Wait, Unwind, StartFails, LaunchFails, vars, call, caller, jobs

LEMMA NextProgress == ASSUME TypeInv, [Next]_vars PROVE Progress'
  <1> USE DEF TypeInv
  <1>0. /\ job \in [JobIds -> {"idle", "deferred", "send", "done", "failed"}]
        /\ next \in JobIds /\ i \in [JobIds -> 0 .. PartsPerJob]
    BY DEF TypeOK
  <1>1. CASE UNCHANGED jobs /\ UNCHANGED caller /\ UNCHANGED target
    BY <1>1 DEF Progress, jobs, caller
  <1>7. CASE UNCHANGED jobs /\ (Wait \/ Unwind \/ StartFails \/ LaunchFails)
    BY <1>7 DEF Progress, jobs, Wait, Unwind, StartFails, LaunchFails
  <1>2. CASE HeadStep
    <2>1. main = "head" /\ main' = "launch" /\ UNCHANGED <<job, i, next>>
      BY <1>2 DEF HeadStep, SizeKnown, SizeUnknown, BufferGiven, Prepare
    <2> QED BY <2>1 DEF Progress
  <1>3. CASE Launch
    <2>1. main = "launch" /\ job[next] = "idle" /\ i[next] = 0
      BY <1>0, <1>3 DEF Launch, Progress, JobIds
    <2>2. \A k \in JobIds : next' <= k /\ main' = "launch" => next <= k /\ k # next
      BY <1>0, <1>3, LaunchMoves DEF JobIds
    <2>3. main' # "head" /\ i' = i
      BY <1>3, LaunchMoves
    <2> QED BY <1>0, <1>3, <2>1, <2>2, <2>3, LaunchMoves, Constants DEF Progress
  <1>4. CASE RunDeferred
    BY <1>0, <1>4 DEF RunDeferred, Progress, caller
  <1>5. ASSUME NEW j \in JobIds, job[j] = "send", NextPart(j)
        PROVE  Progress'
    <2>1. UNCHANGED <<main, next, size, target>>
      BY <1>5, NextPartTypes DEF caller, call
    <2>2. i[j] \in 0 .. PartsPerJob - 1
      BY <1>5, CurrentPart DEF PartIds
    <2> QED BY <1>5, <2>1, <2>2, NextPartTypes, Constants DEF Progress
  <1>6. ASSUME NEW j \in JobIds, job[j] = "send", Caught(j)
        PROVE  Progress'
    <2>1. UNCHANGED <<main, next, size, target, i>>
      BY <1>6, CaughtTypes DEF caller, call
    <2> QED BY <1>6, <2>1, CaughtTypes DEF Progress
  <1> QED BY <1>1, <1>2, <1>3, <1>4, <1>5, <1>6, <1>7, JobMoves

LEMMA TypeAlways == Spec => []TypeInv
  <1>1. TypeInv /\ [Next]_vars => TypeInv'
    BY NextTypes, NextProgress DEF TypeInv
  <1> QED BY <1>1, InitTypes, PTL DEF Spec

(* Every variable keeps its type: no loop over the jobs or the parts runs  *)
(* past its end, and the offsets and sizes computed are natural numbers    *)
(* even when the size of the object is not known (download.cpp:88-132).    *)
THEOREM TypeCorrect == Spec => [](TypeOK /\ Progress)
  BY TypeAlways, PTL DEF TypeInv

-----------------------------------------------------------------------------
(* Retries, and the end of the call.                                       *)

\* A job that has ended stays as it is, and one that has not ended in a call
\* that is unwinding or over is sending.
LEMMA EndedStays ==
  ASSUME TypeInv, [Next]_vars, NEW k \in JobIds
  PROVE  /\ job[k] \in {"done", "failed"} => job'[k] = job[k]
         /\ main \in {"returned", "threw"} /\ job[k] # "send" => job'[k] = job[k]
         /\ main \in {"returned", "threw"} => main' = main
  <1>1. /\ job \in [JobIds -> {"idle", "deferred", "send", "done", "failed"}]
        /\ next \in JobIds
    BY DEF TypeInv, TypeOK
  <1>2. CASE UNCHANGED jobs /\ UNCHANGED caller
    BY <1>2 DEF jobs, caller
  <1>3. CASE UNCHANGED jobs /\ (Wait \/ Unwind \/ StartFails \/ LaunchFails)
    BY <1>3 DEF jobs, Wait, Unwind, StartFails, LaunchFails
  <1>4. CASE HeadStep
    BY <1>4 DEF HeadStep, SizeKnown, SizeUnknown, BufferGiven, Prepare
  <1>5. CASE Launch
    <2>1. main = "launch" /\ job[next] = "idle"
      BY <1>1, <1>5 DEF Launch, TypeInv, Progress, JobIds
    <2> QED BY <1>1, <1>5, <2>1, LaunchMoves DEF TypeInv
  <1>6. CASE RunDeferred
    BY <1>1, <1>6 DEF RunDeferred, caller
  <1>7. ASSUME NEW j \in JobIds, job[j] = "send", NextPart(j)
        PROVE  UNCHANGED main /\ (k # j => job'[k] = job[k])
    BY <1>7, NextPartTypes DEF caller
  <1>8. ASSUME NEW j \in JobIds, job[j] = "send", Caught(j)
        PROVE  UNCHANGED main /\ (k # j => job'[k] = job[k])
    BY <1>8, CaughtTypes DEF caller
  <1> QED BY <1>2, <1>3, <1>4, <1>5, <1>6, <1>7, <1>8, JobMoves

\* Only the handler of a failed attempt makes a job give up.
LEMMA FailsInHandler ==
  ASSUME TypeInv, [Next]_vars
  PROVE  \/ UNCHANGED <<retriesG, granted>> /\ FailedJobs' \subseteq FailedJobs
         \/ \E j \in JobIds : job[j] = "send" /\ Caught(j)
  <1>1. /\ job \in [JobIds -> {"idle", "deferred", "send", "done", "failed"}]
        /\ next \in JobIds
    BY DEF TypeInv, TypeOK
  <1>2. CASE UNCHANGED jobs
    BY <1>2 DEF jobs, FailedJobs
  <1>3. CASE HeadStep
    BY <1>3 DEF HeadStep, SizeKnown, SizeUnknown, BufferGiven, Prepare, FailedJobs
  <1>4. CASE Launch
    BY <1>1, <1>4, LaunchMoves DEF FailedJobs, TypeInv
  <1>5. CASE RunDeferred
    BY <1>1, <1>5 DEF RunDeferred, FailedJobs
  <1>6. ASSUME NEW j \in JobIds, job[j] = "send", NextPart(j)
        PROVE  UNCHANGED <<retriesG, granted>> /\ FailedJobs' \subseteq FailedJobs
    BY <1>6, NextPartTypes DEF FailedJobs
  <1> QED BY <1>2, <1>3, <1>4, <1>5, <1>6, JobMoves

LEMMA RetryStep ==
  ASSUME TypeInv, RetryInv, [Next]_vars
  PROVE  RetryInv'
  <1>1. retriesG \in Nat /\ granted \in Nat /\ MaxRetries \in Nat
    BY Constants DEF TypeInv, TypeOK
  <1>2. CASE UNCHANGED <<retriesG, granted>> /\ FailedJobs' \subseteq FailedJobs
    BY <1>2 DEF RetryInv
  <1>3. ASSUME NEW j \in JobIds, job[j] = "send", Caught(j)
        PROVE  RetryInv'
    <2>1. CASE retriesG > MaxRetries
      <3>1. granted' = granted /\ retriesG' = retriesG + 1
        BY <1>3, <2>1 DEF Caught
      <3> QED BY <1>1, <2>1, <3>1 DEF RetryInv, Least
    <2>2. CASE retriesG <= MaxRetries
      <3>1. granted' = granted + 1 /\ retriesG' = retriesG + 1 /\ UNCHANGED job
        BY <1>1, <1>3, <2>2 DEF Caught
      <3>2. FailedJobs' = FailedJobs
        BY <3>1 DEF FailedJobs
      <3>3. FailedJobs = {}
        BY <1>1, <2>2 DEF RetryInv, Least
      <3> QED BY <1>1, <2>2, <3>1, <3>2, <3>3 DEF RetryInv, Least
    <2> QED BY <1>1, <2>1, <2>2
  <1> QED BY <1>2, <1>3, FailsInHandler

(* The attempts that all the jobs together make again are bounded, by one  *)
(* more than cfg.maxRetries, and no job gives up before cfg.maxRetries of  *)
(* them have been made (download.cpp:64-69).                               *)
THEOREM RetriesBounded == Spec => [](RetriesNotLost /\ granted <= MaxRetries + 1)
  <1>1. ASSUME Init PROVE RetryInv
    <2>1. FailedJobs = {}
      BY <1>1 DEF Init, FailedJobs
    <2> QED BY <1>1, <2>1, Constants DEF Init, RetryInv, Least
  <1>2. TypeInv /\ RetryInv /\ [Next]_vars => RetryInv'
    BY RetryStep
  <1>3. ASSUME TypeInv, RetryInv PROVE RetriesNotLost /\ granted <= MaxRetries + 1
    BY <1>3, Constants DEF TypeInv, TypeOK, RetryInv, RetriesNotLost, Least
  <1> QED BY <1>1, <1>2, <1>3, TypeAlways, PTL DEF Spec

LEMMA WaitStep ==
  ASSUME TypeInv, WaitInv, [Next]_vars
  PROVE  WaitInv'
  <1>1. next \in JobIds
    BY DEF TypeInv, TypeOK
  <1>2. CASE main \in {"returned", "threw"}
    BY <1>2, EndedStays DEF WaitInv, AllJobsEnded
  <1>3. CASE Launch
    BY <1>3, LaunchMoves DEF WaitInv, TypeInv, JobIds
  <1>4. CASE Wait
    <2>1. \A j \in JobIds : j < next \/ j = next => job'[j] \in {"done", "failed"}
      BY <1>4 DEF Wait, WaitInv, jobs
    <2>2. \/ next + 1 < Jobs /\ next' = next + 1 /\ main' = "wait"
          \/ ~(next + 1 < Jobs) /\ main' = "returned"
      BY <1>4 DEF Wait
    <2> QED BY <1>1, <2>1, <2>2, Constants DEF WaitInv, JobIds
  <1>5. CASE Unwind
    BY <1>5 DEF Unwind, WaitInv, AllJobsEnded, jobs
  <1>11. CASE StartFails
    <2>1. UNCHANGED job /\ main' = "threw" /\ \A j \in JobIds : job[j] = "idle"
      BY <1>1, <1>11 DEF StartFails, TypeInv, Progress, JobIds, jobs
    <2> QED BY <2>1 DEF WaitInv, AllJobsEnded
  <1>6. CASE main' = main /\ next' = next /\ main \notin {"returned", "threw"}
    BY <1>6, EndedStays DEF WaitInv
  <1>7. CASE HeadStep \/ LaunchFails
    BY <1>7 DEF HeadStep, SizeKnown, SizeUnknown, BufferGiven, Prepare, LaunchFails, WaitInv
  <1>8. CASE RunDeferred
    BY <1>6, <1>8 DEF RunDeferred, caller
  <1>9. ASSUME NEW j \in JobIds, job[j] = "send", NextPart(j)
        PROVE  UNCHANGED <<main, next>>
    BY <1>9, NextPartTypes DEF caller
  <1>10. ASSUME NEW j \in JobIds, job[j] = "send", Caught(j)
         PROVE  UNCHANGED <<main, next>>
    BY <1>10, CaughtTypes DEF caller
  <1> QED BY <1>2, <1>3, <1>4, <1>5, <1>6, <1>7, <1>8, <1>9, <1>10, <1>11, JobMoves DEF caller

LEMMA WaitAlways == Spec => []WaitInv
  <1>1. Init => WaitInv
    BY DEF Init, WaitInv
  <1>2. TypeInv /\ WaitInv /\ [Next]_vars => WaitInv'
    BY WaitStep
  <1> QED BY <1>1, <1>2, TypeAlways, PTL DEF Spec

(* When Download returns, and when it throws in the middle of launching,   *)
(* no thread of it still writes into the file (download.cpp:122-132).      *)
THEOREM CallQuiescent == Spec => []NoJobOutlivesCall
  <1>1. WaitInv => NoJobOutlivesCall
    BY DEF WaitInv, NoJobOutlivesCall, Ended, AllJobsEnded
  <1> QED BY <1>1, WaitAlways, PTL

-----------------------------------------------------------------------------
(* The call as the counter of the process sees it.                         *)

JobStates == {"idle", "deferred", "send", "done", "failed"}

DrawnJobs == [c \in TheCall |-> [j \in JobIds |-> Drawn(job[j])]]

\* A step that changes nothing of the call but how one of its jobs draws on
\* the counter.
LEMMA DrawnMoves ==
  ASSUME TypeInv, NEW j \in JobIds, NEW s \in JobStates, job' = [job EXCEPT ![j] = s]
  PROVE  /\ DrawnJobs' = [DrawnJobs EXCEPT !["download"] = [@ EXCEPT ![j] = Drawn(s)]]
         /\ Drawn(s) = Drawn(job[j]) => DrawnJobs' = DrawnJobs
  <1>1. job \in [JobIds -> JobStates]
    BY DEF TypeInv, TypeOK, JobStates
  <1>2. \A k \in JobIds : Drawn(job'[k]) = IF k = j THEN Drawn(s) ELSE Drawn(job[k])
    BY <1>1
  <1> QED BY <1>2 DEF DrawnJobs, TheCall

\* Nothing is drawn before the first job is launched.
NothingDrawn == main = "head" => retriesG = 0 /\ granted = 0

LEMMA NothingDrawnStep == TypeInv /\ NothingDrawn /\ [Next]_vars => NothingDrawn'
  <1> SUFFICES ASSUME TypeInv, NothingDrawn, [Next]_vars, main' = "head"
               PROVE  retriesG' = 0 /\ granted' = 0
    BY DEF NothingDrawn
  <1>1. main = "head"
    BY JobMoves DEF caller, Launch, Wait, Unwind, StartFails, LaunchFails, RunDeferred, HeadStep,
       SizeKnown, SizeUnknown, BufferGiven, Prepare, NextPart, Caught
  <1>2. \A j \in JobIds : job[j] = "idle"
    BY <1>1 DEF TypeInv, Progress, JobIds
  <1> QED BY <1>1, <1>2, FailsInHandler DEF NothingDrawn

\* A job runs only while its call does.
LEMMA RunningJob ==
  ASSUME TypeInv, WaitInv, NEW j \in JobIds, job[j] = "send"
  PROVE  Phase = "running"
  <1>1. main # "head"
    BY DEF TypeInv, Progress, JobIds
  <1>2. ~Ended
    BY DEF WaitInv, AllJobsEnded, Ended
  <1> QED BY <1>1, <1>2 DEF Phase

\* The steps of SharedRetries, for its only call.
LEMMA CountedUnchanged ==
  ASSUME UNCHANGED <<Phase, DrawnJobs, retriesG, granted>>
  PROVE  UNCHANGED Counted!vars
  BY DEF Counted!vars, DrawnJobs

LEMMA CountedJob ==
  ASSUME NEW j \in JobIds, Counted!JobStep("download", j)
  PROVE  Counted!Next
  BY DEF Counted!Next, TheCall

LEMMA CountedAttempt ==
  ASSUME TypeInv, NEW j \in JobIds, job[j] = "send", Caught(j),
         Phase = "running", Phase' = Phase
  PROVE  Counted!AttemptFails("download", j)
  <1> USE DEF TheCall
  <1>1. /\ Drawn("send") = "send" /\ Drawn("failed") = "failed" /\ "failed" \in JobStates
        /\ retriesG \in Nat /\ MaxRetries \in Nat
    BY Constants DEF Drawn, JobStates, TypeInv, TypeOK
  <1>2. retriesG' = retriesG + 1 /\ DrawnJobs["download"][j] = "send"
    BY <1>1 DEF Caught, DrawnJobs
  <1>3. CASE retriesG < MaxRetries + 1
    <2>1. granted' = granted + 1 /\ UNCHANGED job
      BY <1>1, <1>3 DEF Caught
    <2>2. DrawnJobs' = DrawnJobs
      BY <2>1 DEF DrawnJobs
    <2> QED BY <1>2, <1>3, <2>1, <2>2 DEF Counted!AttemptFails, DrawnJobs
  <1>4. CASE ~(retriesG < MaxRetries + 1)
    <2>1. granted' = granted /\ job' = [job EXCEPT ![j] = "failed"]
      BY <1>1, <1>4 DEF Caught
    <2>2. DrawnJobs' = [DrawnJobs EXCEPT !["download"] = [@ EXCEPT ![j] = "failed"]]
      BY <1>1, <2>1, DrawnMoves
    <2> QED BY <1>2, <1>4, <2>1, <2>2 DEF Counted!AttemptFails, Counted!JobOf, DrawnJobs
  <1> QED BY <1>3, <1>4

\* A job that starts, or has its last part.
LEMMA CountedStarts ==
  ASSUME TypeInv, NEW j \in JobIds, job[j] \in {"idle", "deferred"},
         job' = [job EXCEPT ![j] = "send"], UNCHANGED <<retriesG, granted>>,
         Phase = "running", Phase' = Phase
  PROVE  Counted!JobStarts("download", j)
  <1> USE DEF TheCall
  <1>1. "send" \in JobStates /\ Drawn("send") = "send" /\ Drawn(job[j]) = "idle"
    BY DEF JobStates, Drawn
  <1>2. DrawnJobs' = [DrawnJobs EXCEPT !["download"] = [@ EXCEPT ![j] = "send"]]
    BY <1>1, DrawnMoves
  <1>3. DrawnJobs["download"][j] = "idle"
    BY <1>1 DEF DrawnJobs
  <1> QED BY <1>2, <1>3 DEF Counted!JobStarts, Counted!JobOf, DrawnJobs

LEMMA CountedEnds ==
  ASSUME TypeInv, NEW j \in JobIds, job[j] = "send",
         job' = [job EXCEPT ![j] = "done"], UNCHANGED <<retriesG, granted>>,
         Phase = "running", Phase' = Phase
  PROVE  Counted!JobEnds("download", j)
  <1> USE DEF TheCall
  <1>1. "done" \in JobStates /\ Drawn("done") = "done" /\ Drawn(job[j]) = "send"
    BY DEF JobStates, Drawn
  <1>2. DrawnJobs' = [DrawnJobs EXCEPT !["download"] = [@ EXCEPT ![j] = "done"]]
    BY <1>1, DrawnMoves
  <1>3. DrawnJobs["download"][j] = "send"
    BY <1>1 DEF DrawnJobs
  <1> QED BY <1>2, <1>3 DEF Counted!JobEnds, Counted!JobOf, DrawnJobs

LEMMA CountedStep ==
  ASSUME TypeInv, WaitInv, WaitInv', NothingDrawn, [Next]_vars
  PROVE  [Counted!Next]_(Counted!vars)
  <1>0. job \in [JobIds -> {"idle", "deferred", "send", "done", "failed"}] /\ next \in JobIds
    BY DEF TypeInv, TypeOK
  <1>1. CASE UNCHANGED jobs /\ UNCHANGED caller
    <2>1. UNCHANGED <<Phase, DrawnJobs, retriesG, granted>>
      BY <1>1 DEF jobs, caller, Phase, Ended, DrawnJobs
    <2> QED BY <2>1, CountedUnchanged
  <1>2. CASE UNCHANGED jobs /\ (Wait \/ Unwind \/ LaunchFails)
    <2>0. UNCHANGED <<job, retriesG, granted, DrawnJobs>> /\ Phase = "running"
      BY <1>2 DEF jobs, DrawnJobs, Wait, Unwind, LaunchFails, Phase, Ended
    <2>1. CASE Phase' = Phase
      BY <2>0, <2>1, CountedUnchanged
    <2>2. CASE Phase' # Phase
      <3>1. main' \in {"returned", "threw"} /\ Phase' = "over"
        BY <1>2, <2>2 DEF Wait, Unwind, LaunchFails, Phase, Ended
      <3>2. \A j \in JobIds : job[j] # "send"
        BY <2>0, <3>1 DEF WaitInv, AllJobsEnded
      <3>3. \A j \in JobIds : DrawnJobs["download"][j] # "send"
        BY <3>2 DEF Drawn, DrawnJobs, TheCall
      <3>4. Counted!CallEnds("download")
        BY <2>0, <3>1, <3>3 DEF Counted!CallEnds, DrawnJobs, TheCall
      <3> QED BY <3>4 DEF Counted!Next, TheCall
    <2> QED BY <2>1, <2>2
  <1>8. CASE StartFails
    <2>1. /\ Phase = "before" /\ Phase' = "over" /\ main = "head"
          /\ UNCHANGED <<job, retriesG, granted>>
      BY <1>8 DEF StartFails, Phase, Ended, jobs
    <2>2. UNCHANGED DrawnJobs /\ retriesG = 0 /\ granted = 0
      BY <2>1 DEF DrawnJobs, NothingDrawn
    <2>3. Counted!SetBack("download")
      BY <2>1, <2>2 DEF Counted!SetBack, Counted!Running, TheCall
    <2>4. Counted!StartFails("download")
      BY <2>1, <2>2, <2>3 DEF Counted!StartFails, DrawnJobs, TheCall
    <2> QED BY <2>4 DEF Counted!Next, TheCall
  <1>3. CASE HeadStep
    <2>1. /\ Phase = "before" /\ Phase' = "running" /\ main = "head"
          /\ UNCHANGED <<job, retriesG, granted>>
      BY <1>3 DEF HeadStep, SizeKnown, SizeUnknown, BufferGiven, Prepare, Phase, Ended
    <2>2. UNCHANGED DrawnJobs /\ retriesG = 0 /\ granted = 0
      BY <2>1 DEF DrawnJobs, NothingDrawn
    <2>3. Counted!SetBack("download")
      BY <2>1, <2>2 DEF Counted!SetBack, Counted!Running, TheCall
    <2>4. Counted!Start("download")
      BY <2>1, <2>2, <2>3 DEF Counted!Start, DrawnJobs, TheCall
    <2> QED BY <2>4 DEF Counted!Next, TheCall
  <1>4. CASE Launch
    <2>1. /\ Phase = "running" /\ Phase' = Phase /\ job[next] = "idle"
          /\ UNCHANGED <<retriesG, granted>>
      BY <1>0, <1>4 DEF Launch, Phase, Ended, TypeInv, Progress, JobIds
    <2>2. CASE sync
      <3>1. /\ job' = [job EXCEPT ![next] = "deferred"] /\ "deferred" \in JobStates
            /\ Drawn("deferred") = Drawn(job[next])
        BY <1>4, <2>1, <2>2 DEF Launch, Drawn, JobStates
      <3> QED BY <1>0, <2>1, <3>1, DrawnMoves, CountedUnchanged
    <2>3. CASE ~sync
      <3>1. job' = [job EXCEPT ![next] = "send"]
        BY <1>4, <2>3 DEF Launch
      <3> QED BY <1>0, <2>1, <3>1, CountedStarts, CountedJob DEF Counted!JobStep
    <2> QED BY <2>2, <2>3
  <1>5. CASE RunDeferred
    <2>1. /\ Phase = "running" /\ Phase' = Phase /\ job[next] = "deferred"
          /\ job' = [job EXCEPT ![next] = "send"] /\ UNCHANGED <<retriesG, granted>>
      BY <1>5 DEF RunDeferred, Phase, Ended, caller
    <2> QED BY <1>0, <2>1, CountedStarts, CountedJob DEF Counted!JobStep
  <1>6. ASSUME NEW j \in JobIds, job[j] = "send", NextPart(j)
        PROVE  [Counted!Next]_(Counted!vars)
    <2>1. Phase' = Phase /\ UNCHANGED <<retriesG, granted>>
      BY <1>6 DEF NextPart, caller, Phase, Ended
    <2>2. CASE job' = [job EXCEPT ![j] = "send"]
      <3>1. UNCHANGED DrawnJobs
        BY <1>6, <2>2, DrawnMoves DEF JobStates
      <3> QED BY <2>1, <3>1, CountedUnchanged
    <2>3. CASE job' = [job EXCEPT ![j] = "done"]
      BY <1>6, <2>1, <2>3, RunningJob, CountedEnds, CountedJob DEF Counted!JobStep
    <2> QED BY <1>6, <2>2, <2>3 DEF NextPart
  <1>7. ASSUME NEW j \in JobIds, job[j] = "send", Caught(j)
        PROVE  [Counted!Next]_(Counted!vars)
    <2>1. Phase' = Phase
      BY <1>7 DEF Caught, caller, Phase, Ended
    <2> QED BY <1>7, <2>1, RunningJob, CountedAttempt, CountedJob DEF Counted!JobStep
  <1> QED BY <1>1, <1>2, <1>3, <1>4, <1>5, <1>6, <1>7, <1>8, JobMoves

(* To the counter that all the downloads of the process share, a download  *)
(* is a call of SharedRetries with a budget that is larger by one: what is *)
(* proved there of calls that set each other's counter back is so of it    *)
(* (download.cpp:64-69, 107, 122-132).                                     *)
THEOREM DownloadIsOneCall == Spec => ImplementsSharedRetries
  <1>1. Init => Counted!Init
    BY DEF Init, Counted!Init, TheCall, Phase, Drawn
  <1>2. TypeInv /\ WaitInv /\ WaitInv' /\ NothingDrawn /\ [Next]_vars
          => [Counted!Next]_(Counted!vars)
    BY CountedStep
  <1>3. Init => NothingDrawn
    BY DEF Init, NothingDrawn
  <1> QED BY <1>1, <1>2, <1>3, NothingDrawnStep, TypeAlways, WaitAlways, PTL
          DEF Spec, ImplementsSharedRetries, Counted!Spec

-----------------------------------------------------------------------------
(* What a download puts into the file, however often the object is         *)
(* replaced meanwhile.                                                     *)

(* The ranges of the parts.                                                *)

\* The size of a version is far from where additions wrap.
LEMMA KnownSize ==
  ASSUME NEW total \in {Sizes[v] : v \in Versions}
  PROVE  /\ total \in 0 .. Word - 1 /\ total \in Nat /\ total # Word - 1
         /\ total + Jobs + PartsPerJob < Word
  BY VersionSizes, Constants

\* Every part lies inside its chunk, and every chunk inside the object.
LEMMA ChunkInside ==
  ASSUME TypeInv, Plain, NEW j \in JobIds
  PROVE  /\ size \in Nat /\ size + Jobs <= Word
         /\ JobFrom(size, j) \in Nat /\ Chunk(size, Jobs, j) \in Nat
         /\ JobFrom(size, j) + Chunk(size, Jobs, j) <= size
         /\ Chunk(size, Jobs, j) + PartsPerJob <= Word
         /\ Fits(Chunk(size, Jobs, j), PartsPerJob)
         /\ \A k \in JobIds : j < k =>
              JobFrom(size, j) + Chunk(size, Jobs, j) <= JobFrom(size, k)
  <1>1. /\ size \in Nat /\ Jobs \in Nat \ {0} /\ PartsPerJob \in Nat \ {0}
        /\ Word \in Nat /\ size + Jobs + PartsPerJob <= Word
    BY Constants, KnownSize DEF Plain
  <1>2. size + Jobs <= Word
    BY <1>1
  <1>3. Fits(size, Jobs) /\ Fits(Chunk(size, Jobs, j), PartsPerJob)
    BY DEF Plain, SafeSplit, JobIds
  <1>4. j \in 0 .. Jobs - 1
    BY DEF JobIds
  <1>5. /\ PieceFrom(size, Jobs, j) \in 0 .. size /\ PieceLen(size, Jobs, j) \in Nat
        /\ PieceFrom(size, Jobs, j) + PieceLen(size, Jobs, j) <= size
        /\ \A k \in 0 .. Jobs - 1 : j < k =>
             PieceFrom(size, Jobs, j) + PieceLen(size, Jobs, j) <= PieceFrom(size, Jobs, k)
    BY <1>1, <1>2, <1>3, <1>4, PiecesTile, PiecesApart
  <1> QED BY <1>1, <1>2, <1>3, <1>5 DEF JobFrom, Chunk, JobIds

\* The parts of a job follow each other, from the start of its chunk.
LEMMA PartInside ==
  ASSUME TypeInv, Plain, NEW j \in JobIds, NEW n \in PartIds
  PROVE  /\ PartFrom(j, n) \in Nat /\ PartSizeOf(j, n) \in Nat
         /\ PartFrom(j, 0) = JobFrom(size, j)
         /\ JobFrom(size, j) <= PartFrom(j, n)
         /\ PartFrom(j, n) + PartSizeOf(j, n) <= JobFrom(size, j) + Chunk(size, Jobs, j)
         /\ n + 1 < PartsPerJob => PartFrom(j, n) + PartSizeOf(j, n) = PartFrom(j, n + 1)
         /\ \A m \in PartIds : n < m => PartFrom(j, n) + PartSizeOf(j, n) <= PartFrom(j, m)
  <1> DEFINE c == Chunk(size, Jobs, j)
             f == JobFrom(size, j)
  <1>1. /\ c \in Nat /\ f \in Nat /\ PartsPerJob \in Nat \ {0} /\ Word \in Nat
        /\ c + PartsPerJob <= Word /\ Fits(c, PartsPerJob)
    BY Constants, ChunkInside
  <1>2. n \in 0 .. PartsPerJob - 1
    BY DEF PartIds
  <1> HIDE DEF c, f
  <1>3. /\ PieceFrom(c, PartsPerJob, n) \in 0 .. c /\ PieceLen(c, PartsPerJob, n) \in Nat
        /\ PieceFrom(c, PartsPerJob, 0) = 0
        /\ n # PartsPerJob - 1 =>
             PieceFrom(c, PartsPerJob, n) + PieceLen(c, PartsPerJob, n)
               = PieceFrom(c, PartsPerJob, n + 1)
    BY <1>1, <1>2, PiecesTile
  <1>4. /\ PieceFrom(c, PartsPerJob, n) + PieceLen(c, PartsPerJob, n) <= c
        /\ \A m \in 0 .. PartsPerJob - 1 : n < m =>
             PieceFrom(c, PartsPerJob, n) + PieceLen(c, PartsPerJob, n)
               <= PieceFrom(c, PartsPerJob, m)
    BY <1>1, <1>2, PiecesApart
  <1>5. \A m \in 0 .. PartsPerJob - 1 : PieceFrom(c, PartsPerJob, m) \in 0 .. c
    BY <1>1, PiecesTile
  <1>6. /\ \A m : PartFrom(j, m) = f + PieceFrom(c, PartsPerJob, m)
        /\ PartSizeOf(j, n) = PieceLen(c, PartsPerJob, n)
    BY DEF PartFrom, PartSizeOf, PartLen, c, f
  <1>7. \A m \in PartIds : n < m => PartFrom(j, n) + PartSizeOf(j, n) <= PartFrom(j, m)
    BY <1>1, <1>3, <1>4, <1>5, <1>6 DEF PartIds
  <1>8. n + 1 < PartsPerJob => PartFrom(j, n) + PartSizeOf(j, n) = PartFrom(j, n + 1)
    BY <1>1, <1>2, <1>3, <1>6
  <1>9. /\ PartFrom(j, n) \in Nat /\ PartSizeOf(j, n) \in Nat
        /\ PartFrom(j, 0) = f /\ f <= PartFrom(j, n)
        /\ PartFrom(j, n) + PartSizeOf(j, n) <= f + c
    BY <1>1, <1>2, <1>3, <1>4, <1>6
  <1> QED BY <1>7, <1>8, <1>9 DEF c, f

\* No byte belongs to two parts.
LEMMA PartsDisjoint ==
  ASSUME TypeInv, Plain, NEW j \in JobIds, NEW n \in PartIds,
         NEW k \in JobIds, NEW m \in PartIds, j # k \/ n # m
  PROVE  \/ PartFrom(j, n) + PartSizeOf(j, n) <= PartFrom(k, m)
         \/ PartFrom(k, m) + PartSizeOf(k, m) <= PartFrom(j, n)
  <1>1. /\ PartFrom(j, n) \in Nat /\ PartSizeOf(j, n) \in Nat
        /\ PartFrom(k, m) \in Nat /\ PartSizeOf(k, m) \in Nat
    BY PartInside
  <1>2. n \in Nat /\ m \in Nat /\ j \in Nat /\ k \in Nat
    BY DEF JobIds, PartIds
  <1>3. CASE j = k
    BY <1>2, <1>3, PartInside
  <1>4. ASSUME NEW a \in JobIds, NEW b \in JobIds, a < b, NEW p \in PartIds, NEW q \in PartIds
        PROVE  PartFrom(a, p) + PartSizeOf(a, p) <= PartFrom(b, q)
    <2>1. /\ PartFrom(a, p) + PartSizeOf(a, p) <= JobFrom(size, a) + Chunk(size, Jobs, a)
          /\ JobFrom(size, b) <= PartFrom(b, q)
          /\ PartFrom(a, p) \in Nat /\ PartSizeOf(a, p) \in Nat /\ PartFrom(b, q) \in Nat
      BY PartInside
    <2>2. /\ JobFrom(size, a) + Chunk(size, Jobs, a) <= JobFrom(size, b)
          /\ JobFrom(size, a) \in Nat /\ Chunk(size, Jobs, a) \in Nat /\ JobFrom(size, b) \in Nat
      BY <1>4, ChunkInside
    <2> QED BY <2>1, <2>2
  <1> QED BY <1>2, <1>3, <1>4

\* Every byte belongs to a part.
LEMMA PartsCover ==
  ASSUME TypeInv, Plain, NEW p \in 0 .. size - 1
  PROVE  \E j \in JobIds, n \in PartIds :
           p \in PartFrom(j, n) .. PartFrom(j, n) + PartSizeOf(j, n) - 1
  <1>1. /\ size \in Nat /\ Jobs \in Nat \ {0} /\ PartsPerJob \in Nat \ {0}
        /\ Word \in Nat /\ size + Jobs <= Word
    <2>1. size \in Nat /\ size + Jobs + PartsPerJob < Word
      BY KnownSize DEF Plain
    <2> QED BY <2>1, Constants
  <1>2. Fits(size, Jobs)
    BY DEF Plain, SafeSplit
  <1>3. PICK j \in 0 .. Jobs - 1 :
          /\ PieceFrom(size, Jobs, j) <= p
          /\ p < PieceFrom(size, Jobs, j) + PieceLen(size, Jobs, j)
    BY <1>1, <1>2, PiecesCover
  <1>4. j \in JobIds
    BY DEF JobIds
  <1> DEFINE c == Chunk(size, Jobs, j)
             f == JobFrom(size, j)
             q == p - f
  <1>5. /\ c \in Nat /\ f \in Nat /\ c + PartsPerJob <= Word /\ Fits(c, PartsPerJob)
    BY <1>4, ChunkInside
  <1>6. f <= p /\ p < f + c
    BY <1>3 DEF JobFrom, Chunk
  <1>7. q \in 0 .. c - 1
    BY <1>1, <1>5, <1>6
  <1> HIDE DEF c, f
  <1>8. PICK n \in 0 .. PartsPerJob - 1 :
          /\ PieceFrom(c, PartsPerJob, n) <= q
          /\ q < PieceFrom(c, PartsPerJob, n) + PieceLen(c, PartsPerJob, n)
    BY <1>1, <1>5, <1>7, PiecesCover
  <1>9. PartFrom(j, n) = f + PieceFrom(c, PartsPerJob, n)
        /\ PartSizeOf(j, n) = PieceLen(c, PartsPerJob, n)
    BY DEF PartFrom, PartSizeOf, PartLen, c, f
  <1>10. n \in PartIds /\ PartFrom(j, n) \in Nat /\ PartSizeOf(j, n) \in Nat
    <2>1. n \in PartIds
      BY DEF PartIds
    <2> QED BY <1>4, <2>1, PartInside
  <1>11. PartFrom(j, n) <= p /\ p < PartFrom(j, n) + PartSizeOf(j, n)
    <2>1. /\ PieceFrom(c, PartsPerJob, n) \in 0 .. c
          /\ PieceLen(c, PartsPerJob, n) \in Nat
      BY <1>1, <1>5, PiecesTile
    <2> QED BY <1>1, <1>5, <1>8, <1>9, <2>1
  <1> QED BY <1>1, <1>4, <1>10, <1>11

\* The first part starts the object, and no part is larger.
LEMMA FirstPart ==
  ASSUME TypeInv, Plain
  PROVE  /\ 0 \in JobIds /\ 0 \in PartIds /\ PartFrom(0, 0) = 0
         /\ \A j \in JobIds, n \in PartIds : PartSizeOf(j, n) <= PartSizeOf(0, 0)
  <1>1. /\ Jobs \in Nat \ {0} /\ PartsPerJob \in Nat \ {0} /\ Word \in Nat
        /\ 0 \in JobIds /\ 0 \in PartIds /\ 0 \in 0 .. Jobs - 1
    BY Constants DEF JobIds, PartIds
  <1>2. /\ size \in Nat /\ size + Jobs <= Word /\ Fits(size, Jobs)
        /\ \A j \in JobIds : /\ Chunk(size, Jobs, j) \in Nat
                             /\ Chunk(size, Jobs, j) + PartsPerJob <= Word
    BY <1>1, ChunkInside DEF Plain, SafeSplit
  <1>3. PartFrom(0, 0) = 0
    BY <1>1, <1>2, PartInside, PiecesTile DEF JobFrom
  <1>4. ASSUME NEW j \in JobIds, NEW n \in PartIds
        PROVE  PartSizeOf(j, n) <= PartSizeOf(0, 0)
    <2>1. Chunk(size, Jobs, j) <= Chunk(size, Jobs, 0)
      BY <1>1, <1>2, FirstIsLargest DEF Chunk, JobIds
    <2> DEFINE c == Chunk(size, Jobs, j)
               d == Chunk(size, Jobs, 0)
    <2>2. /\ c \in Nat /\ c + PartsPerJob <= Word
          /\ d \in Nat /\ d + PartsPerJob <= Word /\ c <= d
      BY <1>1, <1>2, <2>1
    <2>3. /\ PieceLen(c, PartsPerJob, n) = PartSizeOf(j, n)
          /\ PieceLen(c, PartsPerJob, 0) = PartSizeOf(j, 0)
          /\ PieceLen(d, PartsPerJob, 0) = PartSizeOf(0, 0)
      BY DEF PartSizeOf, PartLen
    <2>4. PartSizeOf(j, n) \in Nat /\ PartSizeOf(j, 0) \in Nat /\ PartSizeOf(0, 0) \in Nat
      BY <1>1, PartInside
    <2> HIDE DEF c, d
    <2>5. n \in 0 .. PartsPerJob - 1
      BY DEF PartIds
    <2>6. PieceLen(c, PartsPerJob, n) <= PieceLen(c, PartsPerJob, 0)
      BY <1>1, <2>2, <2>3, <2>4, <2>5, FirstIsLargest
    <2>7. PieceLen(c, PartsPerJob, 0) <= PieceLen(d, PartsPerJob, 0)
      BY <1>1, <2>2, FirstGrows
    <2> QED BY <2>3, <2>4, <2>6, <2>7
  <1> QED BY <1>1, <1>3, <1>4

-----------------------------------------------------------------------------
(* The steps of a plain download.                                          *)

\* A download that is plain after a step was so before it, or is starting.
LEMMA PlainBefore ==
  ASSUME TypeInv, [Next]_vars, Plain'
  PROVE  \/ HeadStep
         \/ Plain /\ UNCHANGED <<target, size, pinned>>
  <1>1. CASE HeadStep
    BY <1>1
  <1>2. CASE UNCHANGED <<target, size, pinned>> /\ (main # "head" \/ UNCHANGED main)
    <2>1. \A j \in JobIds, n \in PartIds : PartSizeOf(j, n)' = PartSizeOf(j, n)
      BY <1>2 DEF PartSizeOf
    <2> QED BY <1>2, <2>1 DEF Plain
  <1>3. CASE Launch \/ RunDeferred \/ Wait \/ Unwind \/ LaunchFails
    BY <1>2, <1>3 DEF Launch, RunDeferred, Wait, Unwind, LaunchFails, call, caller
  <1>7. ~StartFails
    BY DEF StartFails, Plain, TypeInv, Progress, call
  <1>4. CASE NewVersion
    BY <1>2, <1>4 DEF NewVersion, call, caller
  <1>5. ASSUME NEW j \in JobIds, Attempt(j)
        PROVE  UNCHANGED <<target, size, pinned, main>>
    <2>1. NextPart(j) \/ Caught(j)
      BY <1>5 DEF Attempt, PartArrives, PartCut, PartRefused, NothingWritten
    <2> QED BY <2>1 DEF NextPart, Caught, call, caller
  <1>6. CASE UNCHANGED vars
    BY <1>2, <1>6 DEF vars, call, caller
  <1> QED BY <1>1, <1>2, <1>3, <1>4, <1>5, <1>6, <1>7 DEF Next, CallerStep, Over

\* The split does not change once it is made.
LEMMA SameSplit ==
  ASSUME UNCHANGED size
  PROVE  /\ \A j, n : PartFrom(j, n)' = PartFrom(j, n)
         /\ \A j, n : PartSizeOf(j, n)' = PartSizeOf(j, n)
         /\ \A j, n : BytesOf(j, n)' = BytesOf(j, n)
         /\ ErrorsFit' = ErrorsFit /\ AllRanged' = AllRanged
  <1>1. /\ \A j, n : PartFrom(j, n)' = PartFrom(j, n)
        /\ \A j, n : PartSizeOf(j, n)' = PartSizeOf(j, n)
    BY DEF PartFrom, PartSizeOf, JobFrom
  <1>2. ErrorsFit' = ErrorsFit /\ AllRanged' = AllRanged
    BY DEF ErrorsFit, AllRanged, PartSizeOf
  <1> QED BY <1>1, <1>2 DEF BytesOf

\* An object is replaced by the next version; no version is served no more.
LEMMA SeenGrows ==
  ASSUME TypeInv, [Next]_vars, UNCHANGED pinned
  PROVE  /\ latest' = latest \/ (latest \in Versions /\ latest' \in Versions)
         /\ Seen \subseteq Seen'
  <1>1. latest \in {0} \cup Versions /\ latest \in Nat
    BY VersionSizes DEF TypeInv, TypeOK
  <1>2. \/ latest' = latest
        \/ latest \in Versions /\ latest' \in Versions /\ latest' = latest + 1
    <2>1. CASE NewVersion
      BY <1>1, <2>1 DEF NewVersion
    <2>2. CASE CallerStep \/ StartFails \/ LaunchFails \/ UNCHANGED vars
      BY <2>2 DEF CallerStep, HeadStep, SizeKnown, SizeUnknown, BufferGiven, Prepare, Launch,
         RunDeferred, Wait, Unwind, StartFails, LaunchFails, vars
    <2>3. ASSUME NEW j \in JobIds, Attempt(j) PROVE latest' = latest
      <3>1. NextPart(j) \/ Caught(j)
        BY <2>3 DEF Attempt, PartArrives, PartCut, PartRefused, NothingWritten
      <3> QED BY <3>1 DEF NextPart, Caught
    <2> QED BY <2>1, <2>2, <2>3 DEF Next, Over
  <1> QED BY <1>1, <1>2 DEF Seen

\* The start of a plain download: there is an object, and every job is at its
\* chunk.
LEMMA PlainStarts ==
  ASSUME TypeInv, HeadStep, Plain'
  PROVE  /\ Length' = size' /\ latest' \in Versions
         /\ \A j \in JobIds : i'[j] = 0 /\ offset'[j] = JobFrom(size', j)
         /\ UNCHANGED job /\ FailedJobs' = {}
  <1>1. main = "head" /\ UNCHANGED <<job, i, next, latest>>
        /\ \A j \in JobIds : offset'[j] = JobFrom(size', j)
    BY DEF HeadStep, SizeKnown, SizeUnknown, BufferGiven, Prepare
  <1>2. next = 0 /\ \A j \in JobIds : 0 <= j
    BY <1>1, Constants DEF TypeInv, Progress, JobIds
  <1>3. \A j \in JobIds : job[j] = "idle" /\ i[j] = 0
    BY <1>1, <1>2 DEF TypeInv, Progress
  <1>4. FailedJobs' = {}
    BY <1>1, <1>3 DEF FailedJobs
  <1>5. ~BufferGiven
    BY DEF BufferGiven, Plain, Prepare, call
  <1>6. ~SizeUnknown
    <2>1. size' # Word - 1
      BY KnownSize DEF Plain
    <2> QED BY <2>1 DEF SizeUnknown, Prepare
  <1>7. ASSUME SizeKnown PROVE Length' = size' /\ latest' \in Versions
    <2>1. latest \in Versions /\ size' = Sizes[latest] /\ dest' = Blank(Sizes[latest])
      BY <1>7 DEF SizeKnown, Prepare, TypeInv, TypeOK
    <2>2. Sizes[latest] \in Nat
      BY <2>1, VersionSizes
    <2> QED BY <1>1, <2>1, <2>2, BlankDest
  <1> QED BY <1>1, <1>3, <1>4, <1>5, <1>6, <1>7 DEF HeadStep

\* Where a job of a plain download is.
LEMMA AtPart ==
  ASSUME TypeInv, PlainInv, Plain, NEW j \in JobIds, job[j] = "send"
  PROVE  /\ i[j] \in PartIds /\ First(j) = PartFrom(j, i[j])
         /\ First(j) \in Nat /\ PartSizeOf(j, i[j]) \in Nat \ {0}
         /\ Last(j) = First(j) + PartSizeOf(j, i[j]) - 1
         /\ First(j) + PartSizeOf(j, i[j]) <= size /\ size \in Nat
         /\ Ranged(j) \/ (First(j) = 0 /\ PartSizeOf(j, i[j]) = 1 /\ ~AllRanged)
  <1>1. i[j] \in PartIds /\ i[j] < PartsPerJob
    BY CurrentPart, Constants DEF PartIds
  <1>2. First(j) = PartFrom(j, i[j])
    BY <1>1 DEF First, PlainInv
  <1>3. PartSizeOf(j, i[j]) > 0
    BY <1>1 DEF Plain
  <1>4. /\ PartFrom(j, i[j]) \in Nat /\ PartSizeOf(j, i[j]) \in Nat
        /\ PartFrom(j, i[j]) + PartSizeOf(j, i[j]) <= JobFrom(size, j) + Chunk(size, Jobs, j)
    BY <1>1, PartInside
  <1>5. /\ JobFrom(size, j) + Chunk(size, Jobs, j) <= size /\ size \in Nat
        /\ JobFrom(size, j) \in Nat /\ Chunk(size, Jobs, j) \in Nat
    BY ChunkInside
  <1>6. Last(j) = First(j) + PartSizeOf(j, i[j]) - 1
    BY <1>2, <1>3, <1>4 DEF Last, First, Sub
  <1>7. ASSUME ~Ranged(j)
        PROVE  First(j) = 0 /\ PartSizeOf(j, i[j]) = 1 /\ ~AllRanged
    <2>1. First(j) = 0 /\ PartSizeOf(j, i[j]) = 1
      BY <1>2, <1>3, <1>4, <1>6, <1>7 DEF Ranged
    <2>2. /\ 0 \in JobIds /\ 0 \in PartIds /\ PartFrom(0, 0) = 0 /\ PartSizeOf(0, 0) > 0
          /\ PartSizeOf(0, 0) \in Nat
      BY FirstPart, PartInside DEF Plain
    <2>3. ASSUME j # 0 \/ i[j] # 0
          PROVE  \/ PartFrom(0, 0) + PartSizeOf(0, 0) <= PartFrom(j, i[j])
                 \/ PartFrom(j, i[j]) + PartSizeOf(j, i[j]) <= PartFrom(0, 0)
      BY <1>1, <2>2, <2>3, PartsDisjoint
    <2>4. j = 0 /\ i[j] = 0
      BY <1>2, <2>1, <2>2, <2>3
    <2> QED BY <2>1, <2>4 DEF AllRanged
  <1> QED BY <1>1, <1>2, <1>3, <1>4, <1>5, <1>6, <1>7

\* When the first part is asked for without a range, every part is one byte.
LEMMA BytesAlone ==
  ASSUME TypeInv, Plain, ~AllRanged, NEW j \in JobIds, NEW n \in PartIds
  PROVE  PartSizeOf(j, n) = 1 /\ BytesOf(j, n) = {PartFrom(j, n)}
  <1>1. /\ PartSizeOf(j, n) <= PartSizeOf(0, 0) /\ PartSizeOf(j, n) > 0
        /\ PartSizeOf(j, n) \in Nat /\ PartSizeOf(0, 0) \in Nat /\ PartFrom(j, n) \in Nat
    BY FirstPart, PartInside DEF Plain
  <1>2. PartSizeOf(j, n) = 1
    BY <1>1 DEF AllRanged
  <1> QED BY <1>1, <1>2 DEF BytesOf

\* What a job is answered: the part it asked for, as far as the version has it,
\* or the whole object.
LEMMA AnswerOfPart ==
  ASSUME TypeInv, PlainInv, Plain, NEW j \in JobIds, job[j] = "send",
         NEW body \in Answers(j), body # ErrorBody
  PROVE  /\ body \in Bodies /\ body.version \in Seen /\ body.version \in Versions
         /\ body.from = First(j)
         /\ First(j) + body.size <= Sizes[body.version]
         /\ \A p \in BytesOf(j, i[j]) : p < Sizes[body.version] => p < First(j) + body.size
         /\ AllRanged => body.size <= PartSizeOf(j, i[j])
  <1>1. Served \in Seen /\ Served \in Versions
    <2>1. latest \in Versions
      BY DEF PlainInv
    <2> QED BY <2>1, VersionSizes DEF Served, Seen
  <1>2. /\ First(j) \in Nat /\ PartSizeOf(j, i[j]) \in Nat \ {0} /\ size \in Nat
        /\ Last(j) = First(j) + PartSizeOf(j, i[j]) - 1 /\ First(j) = PartFrom(j, i[j])
        /\ Ranged(j) \/ (First(j) = 0 /\ PartSizeOf(j, i[j]) = 1 /\ ~AllRanged)
    BY AtPart
  <1>3. Sizes[Served] \in Nat /\ Served # 0
    BY <1>1, VersionSizes
  <1>4. body \in Bodies
    BY AnswerTypes
  <1>5. BytesOf(j, i[j]) = First(j) .. Last(j)
    BY <1>2 DEF BytesOf
  <1>6. CASE Ranged(j)
    <2>1. First(j) <= Last(j) /\ Last(j) \in Nat
      BY <1>2
    <2>2. First(j) < Sizes[Served] /\ body = RangeOf(Served, First(j), Last(j))
      BY <1>2, <1>3, <1>6, <2>1 DEF Answers
    <2>3. /\ body.version = Served /\ body.from = First(j)
          /\ body.size = Least(Last(j), Sizes[Served] - 1) - First(j) + 1
      BY <2>2 DEF RangeOf
    <2>4. /\ First(j) + body.size <= Sizes[Served] /\ body.size <= PartSizeOf(j, i[j])
          /\ \A p \in First(j) .. Last(j) : p < Sizes[Served] => p < First(j) + body.size
      BY <1>2, <1>3, <2>1, <2>2, <2>3 DEF Least
    <2> QED BY <1>1, <1>4, <1>5, <2>3, <2>4
  <1>7. CASE ~Ranged(j)
    <2>1. body = WholeObject(Served) /\ First(j) = 0 /\ ~AllRanged
      BY <1>2, <1>3, <1>7 DEF Answers
    <2>2. body.version = Served /\ body.from = 0 /\ body.size = Sizes[Served]
      BY <2>1 DEF WholeObject
    <2>3. \A p \in First(j) .. Last(j) : p < Sizes[Served] => p < First(j) + body.size
      BY <1>3, <2>1, <2>2
    <2> QED BY <1>1, <1>3, <1>4, <1>5, <2>1, <2>2, <2>3
  <1> QED BY <1>6, <1>7

\* A request is refused only when the version is shorter than the size asked for.
LEMMA OnlyShortRefused ==
  ASSUME TypeInv, PlainInv, Plain, \A v \in Seen : size <= Sizes[v],
         NEW j \in JobIds, job[j] = "send"
  PROVE  ErrorBody \notin Answers(j)
  <1>1. Served \in Seen /\ Served \in Versions
    <2>1. latest \in Versions
      BY DEF PlainInv
    <2> QED BY <2>1, VersionSizes DEF Served, Seen
  <1>2. Sizes[Served] \in Nat /\ Served \in Nat /\ Served # 0 /\ size <= Sizes[Served]
    BY <1>1, VersionSizes
  <1>3. /\ First(j) \in Nat /\ PartSizeOf(j, i[j]) \in Nat \ {0} /\ size \in Nat
        /\ Last(j) = First(j) + PartSizeOf(j, i[j]) - 1
        /\ First(j) + PartSizeOf(j, i[j]) <= size
    BY AtPart
  <1>4. First(j) <= Last(j) /\ First(j) < Sizes[Served]
    BY <1>2, <1>3
  <1>5. \A body \in Answers(j) : body.version = Served
    BY <1>2, <1>3, <1>4 DEF Answers, RangeOf, WholeObject
  <1>6. ErrorBody.version # Served
    BY <1>2 DEF ErrorBody, Wrong
  <1> QED BY <1>5, <1>6

\* A write changes the bytes it covers, and no other.
LEMMA WriteIn ==
  ASSUME TypeInv, target = "file", NEW at \in Nat, NEW body \in Bodies, Write(at, body)
  PROVE  /\ Length' \in Nat /\ Length <= Length'
         /\ \A n \in Nat : Length <= n /\ at + body.size <= n => Length' <= n
         /\ \A p \in DOMAIN dest : /\ p \in DOMAIN dest'
                                   /\ p < at \/ at + body.size <= p => dest'[p] = dest[p]
         /\ \A p \in at .. at + body.size - 1 :
              p \in DOMAIN dest' /\ dest'[p] = IF at = body.from THEN body.version ELSE Wrong
  <1>1. DestOK /\ Length \in Nat /\ body.size \in Nat
    BY DEF TypeInv, TypeOK, DestOK, Bytes, Bodies
  <1>2. /\ DestOK'
        /\ body.size = 0 => Length' = Length
        /\ body.size # 0 => Length' = IF Length > at + body.size THEN Length
                                      ELSE at + body.size
        /\ \A p \in 0 .. Length - 1 : p < at \/ at + body.size <= p => dest'[p] = dest[p]
        /\ \A p \in at .. at + body.size - 1 :
             dest'[p] = IF at = body.from THEN body.version ELSE Wrong
    BY <1>1, WriteEffect
  <1>3. /\ Length' \in Nat /\ Length <= Length'
        /\ \A n \in Nat : Length <= n /\ at + body.size <= n => Length' <= n
        /\ body.size # 0 => at + body.size <= Length'
    BY <1>1, <1>2
  <1>4. DOMAIN dest = 0 .. Length - 1 /\ DOMAIN dest' = 0 .. Length' - 1
    BY <1>1, <1>2 DEF DestOK
  <1>5. at .. at + body.size - 1 \subseteq 0 .. Length' - 1
    BY <1>1, <1>3
  <1>6. 0 .. Length - 1 \subseteq 0 .. Length' - 1
    <2>1. \A a, b \in Nat : a <= b => 0 .. a - 1 \subseteq 0 .. b - 1
      OBVIOUS
    <2> QED BY <1>1, <1>3, <2>1
  <1> QED BY <1>2, <1>3, <1>4, <1>5, <1>6

\* Every job is where the split says, and gives up on a fault or on a version
\* that is too short only.
LEMMA PlainStep ==
  ASSUME TypeInv, PlainInv, [Next]_vars
  PROVE  PlainInv'
  <1> SUFFICES ASSUME Plain'
               PROVE  /\ latest' \in Versions
                      /\ \A j \in JobIds : i'[j] < PartsPerJob => offset'[j] = PartFrom(j, i[j])'
                      /\ (\A v \in Seen' : size' <= Sizes[v]) /\ FailedJobs' # {} => fault'
    BY DEF PlainInv
  <1>1. CASE HeadStep
    <2>1. \A j \in JobIds : i'[j] = 0 /\ offset'[j] = JobFrom(size', j)
      BY <1>1, PlainStarts
    <2>2. FailedJobs' = {} /\ latest' \in Versions
      BY <1>1, PlainStarts
    <2>3. 0 \in PartIds
      BY Constants DEF PartIds
    <2>4. ASSUME NEW j \in JobIds PROVE PartFrom(j, i[j])' = JobFrom(size', j)
      <3>0. size' \in 0 .. Word - 1
        BY KnownSize DEF Plain
      <3>1. PieceFrom(Chunk(size', Jobs, j), PartsPerJob, 0) = 0
        <4>1. Chunk(size', Jobs, j) \in 0 .. Word - 1
          BY <3>0, SplitWords
        <4>2. PieceSize(Chunk(size', Jobs, j), PartsPerJob) \in Int
          BY <4>1, Constants DEF PieceSize, CeilDiv
        <4> QED BY <4>2 DEF PieceFrom
      <3>2. JobFrom(size', j) \in Nat
        BY <3>0, SplitWords
      <3> QED BY <2>1, <2>4, <3>1, <3>2 DEF PartFrom
    <2> QED BY <2>1, <2>2, <2>4
  <1>2. CASE Plain /\ UNCHANGED <<target, size, pinned>>
    <2>1. \A j, n : PartFrom(j, n)' = PartFrom(j, n)
      BY <1>2, SameSplit
    <2>0. /\ Seen \subseteq Seen' /\ latest' \in Versions
          /\ (\A v \in Seen' : size' <= Sizes[v]) => (\A v \in Seen : size <= Sizes[v])
      BY <1>2, SeenGrows DEF PlainInv
    <2>2. CASE UNCHANGED <<i, offset>> /\ FailedJobs' \subseteq FailedJobs /\ (fault => fault')
      <3>1. \A j \in JobIds : i'[j] < PartsPerJob => offset'[j] = PartFrom(j, i[j])'
        BY <1>2, <2>1, <2>2 DEF PlainInv
      <3> QED BY <1>2, <2>0, <2>2, <3>1 DEF PlainInv
    <2>3. CASE Launch \/ RunDeferred \/ Wait \/ Unwind \/ StartFails \/ LaunchFails \/ NewVersion
               \/ UNCHANGED vars
      <3>1. UNCHANGED <<i, offset>> /\ (fault => fault')
        BY <2>3 DEF Launch, RunDeferred, Wait, Unwind, StartFails, LaunchFails, NewVersion,
                    vars, jobs
      <3>2. ~\E j \in JobIds : job[j] = "send" /\ Caught(j) /\ retriesG' = retriesG
        BY DEF Caught, TypeInv, TypeOK
      <3>3. UNCHANGED retriesG
        BY <2>3 DEF Launch, RunDeferred, Wait, Unwind, StartFails, LaunchFails, NewVersion,
                    vars, jobs
      <3>4. FailedJobs' \subseteq FailedJobs
        BY <3>2, <3>3, FailsInHandler
      <3> QED BY <2>2, <3>1, <3>4
    <2>4. ASSUME NEW j \in JobIds, Attempt(j)
          PROVE  /\ \A k \in JobIds : i'[k] < PartsPerJob => offset'[k] = PartFrom(k, i[k])'
                 /\ (\A v \in Seen' : size' <= Sizes[v]) /\ FailedJobs' # {} => fault'
      <3>1. job[j] = "send"
        BY <2>4 DEF Attempt, PartArrives, PartCut, PartRefused, NothingWritten
      <3>2. CASE NextPart(j)
        <4>1. i[j] \in PartIds /\ offset[j] = PartFrom(j, i[j])
          BY <1>2, <3>1, AtPart DEF First
        <4>2. i[j] + 1 < PartsPerJob =>
                PartFrom(j, i[j]) + PartSizeOf(j, i[j]) = PartFrom(j, i[j] + 1)
          BY <1>2, <4>1, PartInside
        <4>3. \A k \in JobIds : i'[k] < PartsPerJob => offset'[k] = PartFrom(k, i'[k])
          BY <1>2, <3>1, <3>2, <4>1, <4>2, NextPartTypes DEF PlainInv
        <4>4. FailedJobs' \subseteq FailedJobs
          BY <3>1, <3>2, NextPartTypes DEF FailedJobs
        <4>5. fault => fault'
          BY <2>4 DEF Attempt, PartArrives, PartCut, PartRefused, NothingWritten
        <4>6. \A k \in JobIds : PartFrom(k, i[k])' = PartFrom(k, i'[k])
          BY <1>2 DEF PartFrom, JobFrom
        <4> QED BY <1>2, <2>0, <4>3, <4>4, <4>5, <4>6 DEF PlainInv
      <3>3. CASE Caught(j)
        <4>1. UNCHANGED <<i, offset>>
          BY <3>1, <3>3, CaughtTypes
        <4>2. target = "file" /\ ~NextPart(j)
          BY <1>2, <3>3 DEF Plain, NextPart, Caught, TypeInv, TypeOK
        <4>3. ASSUME \A v \in Seen' : size' <= Sizes[v]
              PROVE  fault'
          <5>1. ErrorBody \notin Answers(j)
            BY <1>2, <2>0, <3>1, <4>3, OnlyShortRefused
          <5> QED BY <2>4, <4>2, <5>1 DEF Attempt, PartArrives, PartCut, PartRefused,
                                           NothingWritten
        <4>4. \A k \in JobIds : i'[k] < PartsPerJob => offset'[k] = PartFrom(k, i[k])'
          BY <1>2, <2>1, <4>1 DEF PlainInv
        <4> QED BY <4>3, <4>4
      <3> QED BY <2>4, <3>2, <3>3 DEF Attempt, PartArrives, PartCut, PartRefused,
                                      NothingWritten
    <2>5. CASE HeadStep
      BY <1>1, <2>5
    <2> QED BY <2>0, <2>3, <2>4, <2>5 DEF Next, CallerStep, Over
  <1> QED BY <1>1, <1>2, PlainBefore

-----------------------------------------------------------------------------
(* The parts in the file.                                                  *)

\* Part n of job k is in the file, from one version.
InFile(k, n) == \E v \in Seen : FilledFrom(v, BytesOf(k, n))

\* What a job writes, be it an answer or an error, leaves every other part that
\* is in the file as it is, or replaces it by that of another version.
LEMMA OthersKept ==
  ASSUME TypeInv, PlainInv, Plain, size <= Length, UNCHANGED size, Seen \subseteq Seen',
         NEW j \in JobIds, job[j] = "send", NEW body \in Bodies, Write(First(j), body),
         \/ body.size <= PartSizeOf(j, i[j])
         \/ ~AllRanged /\ body.version \in Seen /\ body.from = First(j),
         NEW k \in JobIds, NEW n \in PartIds, k # j \/ n # i[j], InFile(k, n)
  PROVE  InFile(k, n)'
  <1>1. /\ i[j] \in PartIds /\ First(j) = PartFrom(j, i[j]) /\ First(j) \in Nat
        /\ PartSizeOf(j, i[j]) \in Nat
    BY AtPart
  <1>2. /\ \A p \in DOMAIN dest : /\ p \in DOMAIN dest'
                                  /\ p < First(j) \/ First(j) + body.size <= p =>
                                      dest'[p] = dest[p]
        /\ \A p \in First(j) .. First(j) + body.size - 1 :
             p \in DOMAIN dest'
             /\ dest'[p] = IF First(j) = body.from THEN body.version ELSE Wrong
    BY <1>1, WriteIn DEF Plain
  <1>3. /\ PartFrom(k, n) \in Nat /\ PartSizeOf(k, n) \in Nat
        /\ \/ PartFrom(j, i[j]) + PartSizeOf(j, i[j]) <= PartFrom(k, n)
           \/ PartFrom(k, n) + PartSizeOf(k, n) <= PartFrom(j, i[j])
    BY <1>1, PartInside, PartsDisjoint
  <1>4. PICK v \in Seen : FilledFrom(v, BytesOf(k, n))
    BY DEF InFile
  <1>5. body.size \in Nat
    BY DEF Bodies
  <1>6. ASSUME \A p \in BytesOf(k, n) : p < First(j) \/ First(j) + body.size <= p
        PROVE  InFile(k, n)'
    <2>1. \A p \in BytesOf(k, n) : p < Sizes[v] => p \in DOMAIN dest' /\ dest'[p] = v
      <3> TAKE p \in BytesOf(k, n)
      <3> HAVE p < Sizes[v]
      <3>1. p \in DOMAIN dest /\ dest[p] = v
        BY <1>4 DEF FilledFrom
      <3> QED BY <1>2, <1>6, <3>1
    <2>2. FilledFrom(v, BytesOf(k, n))' /\ v \in Seen'
      BY <1>4, <2>1, SameSplit DEF FilledFrom
    <2> QED BY <2>2 DEF InFile
  <1>7. CASE body.size <= PartSizeOf(j, i[j])
    <2>1. \A p \in BytesOf(k, n) : p < First(j) \/ First(j) + body.size <= p
      BY <1>1, <1>3, <1>5, <1>7 DEF BytesOf
    <2> QED BY <1>6, <2>1
  <1>8. CASE ~AllRanged /\ body.version \in Seen /\ body.from = First(j)
    <2> DEFINE q == PartFrom(k, n)
    <2>1. BytesOf(k, n) = {q} /\ q \in Nat
      BY <1>3, <1>8, BytesAlone
    <2>2. CASE q < First(j) \/ First(j) + body.size <= q
      BY <1>6, <2>1, <2>2
    <2>3. CASE First(j) <= q /\ q < First(j) + body.size
      <3>1. q \in First(j) .. First(j) + body.size - 1
        BY <1>1, <1>5, <2>1, <2>3
      <3>2. q \in DOMAIN dest' /\ dest'[q] = body.version
        BY <1>2, <1>8, <3>1
      <3>3. FilledFrom(body.version, BytesOf(k, n))' /\ body.version \in Seen'
        BY <1>8, <2>1, <3>2, SameSplit DEF FilledFrom
      <3> QED BY <3>3 DEF InFile
    <2> QED BY <1>1, <1>5, <2>1, <2>2, <2>3
  <1> QED BY <1>7, <1>8

\* The part a job asks for is in the file when its answer has arrived in full.
LEMMA PartIsWritten ==
  ASSUME TypeInv, PlainInv, Plain, UNCHANGED size, Seen \subseteq Seen',
         NEW j \in JobIds, job[j] = "send", NEW n \in PartIds, n = i[j],
         NEW body \in Answers(j), body # ErrorBody, Write(First(j), body)
  PROVE  InFile(j, n)'
  <1>1. /\ First(j) = PartFrom(j, n) /\ First(j) \in Nat /\ PartSizeOf(j, n) \in Nat
    BY AtPart
  <1>2. /\ body \in Bodies /\ body.version \in Seen /\ body.from = First(j)
        /\ \A p \in BytesOf(j, n) : p < Sizes[body.version] => p < First(j) + body.size
    BY AnswerOfPart
  <1>3. \A p \in First(j) .. First(j) + body.size - 1 :
          p \in DOMAIN dest' /\ dest'[p] = body.version
    BY <1>1, <1>2, WriteIn DEF Plain
  <1>4. \A p \in BytesOf(j, n) : p < Sizes[body.version] =>
          p \in First(j) .. First(j) + body.size - 1
    BY <1>1, <1>2 DEF BytesOf, Bodies
  <1>5. FilledFrom(body.version, BytesOf(j, n))' /\ body.version \in Seen'
    BY <1>2, <1>3, <1>4, SameSplit DEF FilledFrom
  <1> QED BY <1>5 DEF InFile

\* The inductive invariant: the file never gets shorter than it was made, nor
\* longer unless a whole object does that, and the parts that were answered in
\* full are in it.
KeepsLength == AllRanged \/ \A v \in Seen : Sizes[v] <= size

Intact == Plain /\ ErrorsFit =>
  /\ size <= Length
  /\ KeepsLength => Length = size
  /\ \A k \in JobIds : \A n \in 0 .. i[k] - 1 : <<k, n>> \notin cut => InFile(k, n)

\* What is written by an attempt, whatever comes of it.
LEMMA WriteKeeps ==
  ASSUME TypeInv, PlainInv, Intact, Plain, ErrorsFit, UNCHANGED <<target, size>>,
         Seen \subseteq Seen', NEW j \in JobIds, job[j] = "send",
         NEW body \in Bodies, Write(First(j), body),
         \/ body.size <= PartSizeOf(j, i[j])
         \/ /\ ~AllRanged /\ body.version \in Seen /\ body.from = First(j)
            /\ First(j) + body.size <= Sizes[body.version]
  PROVE  /\ size <= Length' /\ (KeepsLength' => Length' = size)
         /\ \A k \in JobIds : \A n \in 0 .. i[k] - 1 : <<k, n>> \notin cut => InFile(k, n)'
  <1>1. /\ i[j] \in PartIds /\ First(j) \in Nat /\ size \in Nat
        /\ PartSizeOf(j, i[j]) \in Nat /\ First(j) + PartSizeOf(j, i[j]) <= size
    BY AtPart
  <1>2. size <= Length /\ (KeepsLength => Length = size) /\ body.size \in Nat
        /\ Length \in Nat
    BY DEF Intact, Bodies, TypeInv, TypeOK
  <1>3. /\ Length' \in Nat /\ Length <= Length'
        /\ \A n \in Nat : Length <= n /\ First(j) + body.size <= n => Length' <= n
    BY <1>1, WriteIn DEF Plain
  <1>4. ASSUME KeepsLength' PROVE Length' = size
    <2>1. KeepsLength
      BY <1>4, SameSplit DEF KeepsLength
    <2>2. First(j) + body.size <= size
      <3>1. CASE body.size <= PartSizeOf(j, i[j])
        BY <1>1, <1>2, <3>1
      <3>2. CASE /\ ~AllRanged /\ body.version \in Seen
                 /\ First(j) + body.size <= Sizes[body.version]
        <4>1. Sizes[body.version] <= size
          BY <2>1, <3>2 DEF KeepsLength
        <4>2. body.version \in Versions
          BY <3>2, VersionSizes DEF Seen, TypeInv, TypeOK
        <4>3. Sizes[body.version] \in Nat
          BY <4>2, VersionSizes
        <4> QED BY <1>1, <1>2, <3>2, <4>1, <4>3
      <3> QED BY <3>1, <3>2
    <2> QED BY <1>1, <1>2, <1>3, <2>1, <2>2
  <1>5. \A k \in JobIds : \A n \in 0 .. i[k] - 1 : n \in PartIds /\ (k # j \/ n # i[j])
    <2>1. \A k \in JobIds : i[k] \in 0 .. PartsPerJob
      BY DEF TypeInv, TypeOK
    <2> QED BY <2>1, Constants DEF PartIds
  <1>6. ASSUME NEW k \in JobIds, NEW n \in 0 .. i[k] - 1, <<k, n>> \notin cut
        PROVE  InFile(k, n)'
    <2>1. InFile(k, n)
      BY <1>6 DEF Intact
    <2> QED BY <1>2, <1>5, <2>1, OthersKept
  <1> QED BY <1>1, <1>2, <1>3, <1>4, <1>6

\* A step that writes nothing.
LEMMA UntouchedKept ==
  ASSUME Intact, Plain, ErrorsFit, UNCHANGED <<size, dest, i, cut>>, Seen \subseteq Seen'
  PROVE  /\ size <= Length' /\ (KeepsLength' => Length' = size)
         /\ \A k \in JobIds : \A n \in 0 .. i'[k] - 1 : <<k, n>> \notin cut' => InFile(k, n)'
  <1>1. KeepsLength' => KeepsLength
    BY SameSplit DEF KeepsLength
  <1>2. \A k, n : InFile(k, n) => InFile(k, n)'
    BY SameSplit DEF InFile, FilledFrom
  <1>3. Length' = Length
    BY DEF Length
  <1> QED BY <1>1, <1>2, <1>3 DEF Intact

\* One attempt.
LEMMA AttemptKeeps ==
  ASSUME TypeInv, PlainInv, Intact, Plain, ErrorsFit, UNCHANGED <<target, size>>,
         Seen \subseteq Seen', NEW j \in JobIds, Attempt(j)
  PROVE  /\ size <= Length' /\ (KeepsLength' => Length' = size)
         /\ \A k \in JobIds : \A n \in 0 .. i'[k] - 1 : <<k, n>> \notin cut' => InFile(k, n)'
  <1> DEFINE Kept == /\ size <= Length' /\ (KeepsLength' => Length' = size)
                     /\ \A k \in JobIds : \A n \in 0 .. i[k] - 1 :
                          <<k, n>> \notin cut => InFile(k, n)'
  <1>1. job[j] = "send"
    BY DEF Attempt, PartArrives, PartCut, PartRefused, NothingWritten
  <1>2. i[j] \in PartIds /\ PartSizeOf(j, i[j]) \in Nat
    BY <1>1, AtPart
  <1>3. ASSUME NEW body \in Answers(j), body # ErrorBody
        PROVE  /\ body \in Bodies /\ body.version \in Seen /\ body.from = First(j)
               /\ First(j) + body.size <= Sizes[body.version]
               /\ Sizes[body.version] \in Nat /\ First(j) \in Nat
               /\ body.size <= PartSizeOf(j, i[j]) \/ ~AllRanged
    BY <1>1, <1>3, AnswerOfPart, AtPart, VersionSizes
  <1>4. CASE PartArrives(j)
    <2>1. PICK body \in Answers(j) \ {ErrorBody} : Write(First(j), body)
      BY <1>4 DEF PartArrives
    <2>2. Kept
      BY <1>1, <1>3, <2>1, WriteKeeps
    <2>3. NextPart(j) /\ cut' = cut
      BY <1>4 DEF PartArrives
    <2>4. i'[j] = i[j] + 1 /\ \A k \in JobIds \ {j} : i'[k] = i[k]
      BY <1>1, <2>3, NextPartTypes
    <2>5. \A n \in PartIds : n = i[j] => InFile(j, n)'
      BY <1>1, <2>1, PartIsWritten
    <2>6. \A n \in 0 .. i'[j] - 1 : n \in 0 .. i[j] - 1 \/ (n \in PartIds /\ n = i[j])
      BY <1>2, <2>4 DEF PartIds
    <2> QED BY <2>2, <2>3, <2>4, <2>5, <2>6
  <1>5. CASE PartCut(j)
    <2>1. PICK body \in Answers(j) \ {ErrorBody} : \E n \in 0 .. body.size - 1 :
            Write(First(j), [body EXCEPT !.size = n])
      BY <1>5 DEF PartCut
    <2>2. PICK s \in 0 .. body.size - 1 : Write(First(j), [body EXCEPT !.size = s])
      BY <2>1
    <2>3. /\ body \in Bodies /\ body.version \in Seen /\ body.from = First(j)
          /\ First(j) + body.size <= Sizes[body.version]
          /\ Sizes[body.version] \in Nat /\ First(j) \in Nat
          /\ body.size <= PartSizeOf(j, i[j]) \/ ~AllRanged
      BY <1>3, <2>1
    <2> DEFINE short == [body EXCEPT !.size = s]
    <2>4. s \in Nat /\ s < body.size /\ body.size \in Nat
      BY <2>3 DEF Bodies
    <2>5. /\ short \in Bodies /\ short.size = s /\ short.version = body.version
          /\ short.from = First(j)
      BY <2>3, <2>4 DEF Bodies
    <2>6. Write(First(j), short)
      BY <2>2
    <2> HIDE DEF short
    <2>7. /\ First(j) + short.size <= Sizes[short.version]
          /\ short.size <= PartSizeOf(j, i[j]) \/ ~AllRanged
      BY <1>2, <2>3, <2>4, <2>5
    <2>8. Kept
      BY <1>1, <2>3, <2>5, <2>6, <2>7, WriteKeeps
    <2>9. NextPart(j) /\ cut' = cut \cup {<<j, i[j]>>}
      BY <1>5 DEF PartCut
    <2>10. i'[j] = i[j] + 1 /\ \A k \in JobIds \ {j} : i'[k] = i[k]
      BY <1>1, <2>9, NextPartTypes
    <2>11. \A n \in 0 .. i'[j] - 1 : n \in 0 .. i[j] - 1 \/ n = i[j]
      BY <1>2, <2>10 DEF PartIds
    <2> QED BY <2>8, <2>9, <2>10, <2>11
  <1>6. CASE PartRefused(j)
    <2>1. Write(First(j), ErrorBody) /\ Caught(j)
      BY <1>6 DEF PartRefused
    <2>2. ErrorBody \in Bodies
      BY <1>1, AnswerTypes
    <2>3. ErrorBody.size <= PartSizeOf(j, i[j])
      BY <1>2 DEF ErrorsFit, ErrorBody
    <2>4. Kept
      BY <1>1, <2>1, <2>2, <2>3, WriteKeeps
    <2> QED BY <1>1, <2>1, <2>4, CaughtTypes
  <1>7. CASE NothingWritten(j)
    <2>1. UNCHANGED <<dest, i, cut>>
      BY <1>1, <1>7, CaughtTypes DEF NothingWritten
    <2> QED BY <2>1, UntouchedKept
  <1> QED BY <1>4, <1>5, <1>6, <1>7 DEF Attempt

LEMMA IntactStep ==
  ASSUME TypeInv, PlainInv, Intact, [Next]_vars
  PROVE  Intact'
  <1> SUFFICES ASSUME Plain', ErrorsFit'
               PROVE  /\ size' <= Length' /\ (KeepsLength' => Length' = size')
                      /\ \A k \in JobIds : \A n \in 0 .. i'[k] - 1 :
                           <<k, n>> \notin cut' => InFile(k, n)'
    BY DEF Intact
  <1>1. CASE HeadStep
    <2>1. Length' = size' /\ \A k \in JobIds : i'[k] = 0
      BY <1>1, PlainStarts
    <2>2. size' \in Nat
      BY KnownSize DEF Plain
    <2> QED BY <2>1, <2>2
  <1>2. CASE Plain /\ UNCHANGED <<target, size, pinned>>
    <2>1. ErrorsFit /\ Seen \subseteq Seen'
      BY <1>2, SameSplit, SeenGrows
    <2>2. CASE UNCHANGED <<dest, i, cut>>
      BY <1>2, <2>1, <2>2, UntouchedKept
    <2>3. CASE Launch \/ RunDeferred \/ Wait \/ Unwind \/ StartFails \/ LaunchFails \/ NewVersion
               \/ UNCHANGED vars
      BY <2>2, <2>3 DEF Launch, RunDeferred, Wait, Unwind, StartFails, LaunchFails, NewVersion,
                        vars, jobs
    <2>4. ASSUME NEW j \in JobIds, Attempt(j)
          PROVE  /\ size' <= Length' /\ (KeepsLength' => Length' = size')
                 /\ \A k \in JobIds : \A n \in 0 .. i'[k] - 1 :
                      <<k, n>> \notin cut' => InFile(k, n)'
      BY <1>2, <2>1, <2>4, AttemptKeeps
    <2> QED BY <1>1, <2>3, <2>4 DEF Next, CallerStep, Over
  <1> QED BY <1>1, <1>2, PlainBefore

-----------------------------------------------------------------------------
(* The theorems.                                                           *)

LEMMA IntegrityAlways == Spec => [](TypeInv /\ WaitInv /\ PlainInv /\ Intact)
  <1>1. Init => PlainInv /\ Intact
    BY DEF Init, PlainInv, Intact, Plain
  <1>2. TypeInv /\ PlainInv /\ [Next]_vars => PlainInv'
    BY PlainStep
  <1>3. TypeInv /\ PlainInv /\ Intact /\ [Next]_vars => Intact'
    BY IntactStep
  <1> QED BY <1>1, <1>2, <1>3, TypeAlways, WaitAlways, PTL DEF Spec

(* No job of a plain download gives up unless something failed or a        *)
(* version was served that is shorter than the size asked for: the ranges  *)
(* the jobs compute are inside the object (download.cpp:88-97).            *)
THEOREM GivesUpOnFault == Spec => []GivesUpOnlyOnFault
  <1>1. PlainInv => GivesUpOnlyOnFault
    BY DEF PlainInv, GivesUpOnlyOnFault
  <1> QED BY <1>1, IntegrityAlways, PTL

(* A part that was answered in full stays in the file as some version had  *)
(* it, whatever failed before, whatever the other jobs write, and however  *)
(* often the object is replaced (object.cpp:171-198, download.cpp:88-102). *)
THEOREM AnsweredPartsStay == Spec => []AnsweredPartsAreThere
  <1>1. Intact => AnsweredPartsAreThere
    BY DEF Intact, InFile, AnsweredPartsAreThere
  <1> QED BY <1>1, IntegrityAlways, PTL

(* A plain download in which no job gave up and no answer was cut has all  *)
(* the bytes that the versions served have in common, and is the object,   *)
(* byte for byte and no longer, when it was not replaced.                  *)
THEOREM DownloadIsWhole == Spec => []RetriedIsWhole
  <1>1. ASSUME TypeInv, WaitInv, PlainInv, Intact, Plain, ErrorsFit, main = "returned",
               FailedJobs = {}, cut = {}
        PROVE  /\ \A p \in 0 .. size - 1 : (\A v \in Seen : p < Sizes[v]) =>
                    p \in DOMAIN dest /\ dest[p] \in Seen
               /\ KeepsLength => DOMAIN dest = 0 .. size - 1
               /\ \A v \in Versions : Seen = {v} /\ Sizes[v] = size => dest = File(v)
    <2>1. /\ DOMAIN dest = 0 .. Length - 1 /\ dest = [p \in DOMAIN dest |-> dest[p]]
          /\ KeepsLength => Length = size
      BY <1>1 DEF TypeInv, TypeOK, Intact
    <2>2. \A j \in JobIds : i[j] = PartsPerJob
      <3>1. \A j \in JobIds : job[j] = "done"
        BY <1>1 DEF WaitInv, FailedJobs
      <3> QED BY <1>1, <3>1, Constants DEF TypeInv, TypeOK, Progress
    <2>3. \A j \in JobIds, n \in PartIds : InFile(j, n)
      BY <1>1, <2>2 DEF Intact, PartIds
    <2>4. ASSUME NEW p \in 0 .. size - 1, \A v \in Seen : p < Sizes[v]
          PROVE  p \in DOMAIN dest /\ dest[p] \in Seen
      <3>1. PICK j \in JobIds, n \in PartIds : p \in BytesOf(j, n)
        BY <1>1, PartsCover DEF BytesOf
      <3>2. PICK v \in Seen : FilledFrom(v, BytesOf(j, n))
        BY <2>3 DEF InFile
      <3> QED BY <2>4, <3>1, <3>2 DEF FilledFrom
    <2>5. ASSUME NEW v \in Versions, Seen = {v}, Sizes[v] = size
          PROVE  dest = File(v)
      <3>1. Sizes[v] \in Nat
        BY VersionSizes
      <3>2. KeepsLength
        BY <2>5, <3>1 DEF KeepsLength
      <3>3. \A p \in 0 .. size - 1 : dest[p] = v
        BY <2>4, <2>5, <3>1
      <3> QED BY <2>1, <2>5, <3>2, <3>3 DEF File
    <2> QED BY <2>1, <2>4, <2>5
  <1>2. TypeInv /\ WaitInv /\ PlainInv /\ Intact => RetriedIsWhole
    BY <1>1 DEF RetriedIsWhole, KeepsLength
  <1> QED BY <1>2, IntegrityAlways, PTL
=============================================================================
