--------------------------- MODULE ParallelDownload ---------------------------
(***************************************************************************)
(* One call of Download (lib/src/download.cpp): the calling thread asks    *)
(* for the size of the object, makes a file of that size and launches the  *)
(* jobs; every job gets its parts one after the other, each a GET of a     *)
(* range written at the range's place in the file; the caller waits for    *)
(* the jobs.                                                               *)
(*                                                                         *)
(* A byte of the destination is known by what it is: the byte that belongs *)
(* there of some version of the object, filler, or anything else.          *)
(***************************************************************************)
EXTENDS Partition, FiniteSets

CONSTANTS
  Sizes,        \* the bytes of every version the object ever has
  Jobs,         \* cfg.jobs
  PartsPerJob,  \* cfg.partsPerJob
  MaxRetries,   \* cfg.maxRetries
  ErrorLen      \* bytes of the body of an error answer

ASSUME DownloadAssumption ==
  /\ Sizes \in Seq(Nat) /\ Sizes # <<>>
  /\ Jobs \in Nat \ {0} /\ PartsPerJob \in Nat \ {0}
  /\ MaxRetries \in Nat /\ ErrorLen \in Nat \ {0}
  /\ Word \in Nat
  /\ \A v \in DOMAIN Sizes : Sizes[v] + Jobs + PartsPerJob < Word

JobIds   == 0 .. Jobs - 1
PartIds  == 0 .. PartsPerJob - 1
Versions == DOMAIN Sizes

Filler == 0     \* a byte nothing was written to
Wrong  == -1    \* a byte of an error, or of another place of the object

VARIABLES
  target,   \* where the bytes go: cfg.file or cfg.data
  sync,     \* the argument of Download: serial transfer
  pinned,   \* versionId is that of version 1, not blank
  latest,   \* the current version of the object, 0: no object
  main,     \* what the calling thread is doing
  next,     \* the job it launches, then the job it waits for
  size,     \* fileSize, or cfg.size
  job,      \* what every job is doing
  i,        \* every job's loop variable
  offset,   \* every job's running offset
  retriesG, \* the retry counter shared by the jobs
  granted,  \* history: attempts made again
  dest,     \* the destination, byte by byte
  cut,      \* history: parts whose answer ended early
  fault     \* history: some request, open or thread failed

call   == <<target, sync, pinned>>
caller == <<main, next, size>>
jobs   == <<job, i, offset, retriesG, granted>>
vars   == <<call, latest, caller, jobs, dest, cut, fault>>

-----------------------------------------------------------------------------
(* The split, and the request of a part.                                   *)

JobFrom(total, j)    == PieceFrom(total, Jobs, j)
PartSizeOf(j, n)     == PartLen(size, Jobs, PartsPerJob, j, n)
PartFrom(j, n)       == JobFrom(size, j) + PieceFrom(Chunk(size, Jobs, j), PartsPerJob, n)

\* GetFileObject(..., offset, offset, offset + partSize - 1, ...): the range
\* header is left out when the last byte is 0.
First(j)  == offset[j]
Last(j)   == Sub(offset[j] + PartSizeOf(j, i[j]), 1)
Ranged(j) == Last(j) > 0

Ended == main \in {"returned", "threw"}

AllJobsEnded == \A j \in JobIds : job[j] \in {"idle", "deferred", "done", "failed"}

FailedJobs == {j \in JobIds : job[j] = "failed"}

-----------------------------------------------------------------------------
(* The server: what it may answer to the request of job j.                 *)

Served == IF pinned THEN 1 ELSE latest

WholeObject(v) == [version |-> v, from |-> 0, size |-> Sizes[v]]
ErrorBody      == [version |-> Wrong, from |-> 0, size |-> ErrorLen]

RangeOf(v, first, last) ==
  [version |-> v, from |-> first, size |-> Least(last, Sizes[v] - 1) - first + 1]

\* A range that ends before it starts is ignored or refused.
Answers(j) ==
  LET v == Served IN
  IF v = 0 THEN {ErrorBody}
  ELSE IF ~Ranged(j) THEN {WholeObject(v)}
  ELSE IF First(j) > Last(j) THEN {WholeObject(v), ErrorBody}
  ELSE IF First(j) >= Sizes[v] THEN {ErrorBody}
  ELSE {RangeOf(v, First(j), Last(j))}

\* Variant: the file is emptied when it is opened again.
WriteTruncated(at, body) ==
  LET mark == IF at = body.from THEN body.version ELSE Wrong
  IN IF target = "buffer" THEN UNCHANGED dest
     ELSE dest' = [p \in 0 .. at + body.size - 1 |-> IF at <= p THEN mark ELSE Filler]

\* The body is written at the part's offset, whatever it is.  The bytes of a
\* call with a buffer go to a file named after the buffer's text.
Length == Cardinality(DOMAIN dest)

Write(at, body) ==
  LET mark == IF at = body.from THEN body.version ELSE Wrong
      end  == at + body.size
  IN IF target = "buffer" \/ body.size = 0 THEN UNCHANGED dest
     ELSE dest' = [p \in 0 .. (IF Length > end THEN Length ELSE end) - 1 |->
                     IF at <= p /\ p < end THEN mark
                     ELSE IF p < Length THEN dest[p] ELSE Filler]

-----------------------------------------------------------------------------
Blank(n) == [p \in 0 .. n - 1 |-> Filler]

Init ==
  /\ target \in {"file", "buffer"} /\ sync \in BOOLEAN
  /\ latest \in {0, 1}
  /\ pinned \in BOOLEAN /\ (pinned => latest = 1)
  /\ main = "head" /\ next = 0
  /\ size = IF target = "buffer" THEN Sizes[1] ELSE 0
  /\ job = [j \in JobIds |-> "idle"]
  /\ i = [j \in JobIds |-> 0]
  /\ offset = [j \in JobIds |-> 0]
  /\ retriesG = 0 /\ granted = 0
  /\ dest = IF target = "buffer" THEN Blank(size) ELSE Blank(0)
  /\ cut = {} /\ fault = FALSE

-----------------------------------------------------------------------------
(* The calling thread: DownloadFile and DownloadData.                      *)

\* The jobs are given the size.
Prepare(total) ==
  /\ size' = total
  /\ offset' = [j \in JobIds |-> JobFrom(total, j)]
  /\ main' = "launch"
  /\ UNCHANGED <<call, latest, next, job, i, retriesG, granted, cut>>

\* Variant: the last byte is written at fileSize.
SizeKnownPlusOne ==
  /\ main = "head" /\ target = "file" /\ latest # 0
  /\ Prepare(Sizes[latest])
  /\ dest' = Blank(Sizes[latest] + 1)
  /\ UNCHANGED fault

\* GetObjectSize does not pass the version on: it is the size of the latest.
\* The last byte is written at fileSize - 1, which no seek reaches for 0.
SizeKnown ==
  /\ main = "head" /\ target = "file" /\ latest # 0
  /\ Prepare(Sizes[latest])
  /\ dest' = Blank(Sizes[latest])
  /\ UNCHANGED fault

\* GetObjectSize turns every failure into -1, a size_t here.
SizeUnknown ==
  /\ main = "head" /\ target = "file"
  /\ Prepare(Word - 1)
  /\ dest' = Blank(0)
  /\ fault' = (fault \/ latest # 0)

BufferGiven ==
  /\ main = "head" /\ target = "buffer"
  /\ Prepare(size)
  /\ UNCHANGED <<dest, fault>>

\* No endpoint is given, or neither a file nor a buffer: nothing is asked for.
StartFails ==
  /\ main = "head"
  /\ main' = "threw"
  /\ UNCHANGED <<call, latest, next, size, jobs, dest, cut, fault>>

Launch ==
  /\ main = "launch"
  /\ job' = [job EXCEPT ![next] = IF sync THEN "deferred" ELSE "send"]
  /\ IF next + 1 < Jobs
       THEN next' = next + 1 /\ UNCHANGED main
       ELSE next' = 0 /\ main' = "wait"
  /\ UNCHANGED <<call, latest, size, i, offset, retriesG, granted, dest, cut, fault>>

LaunchFails ==
  /\ main = "launch" /\ ~sync
  /\ main' = "unwind"
  /\ fault' = TRUE
  /\ UNCHANGED <<call, latest, next, size, jobs, dest, cut>>

\* i.wait() on a deferred job runs it in the calling thread.
RunDeferred ==
  /\ main = "wait" /\ job[next] = "deferred"
  /\ job' = [job EXCEPT ![next] = "send"]
  /\ UNCHANGED <<call, latest, caller, i, offset, retriesG, granted, dest, cut, fault>>

\* Variant: the index runs past the last job.
WaitPastEnd ==
  /\ main = "wait" /\ job[next] \in {"done", "failed"}
  /\ next' = next + 1
  /\ main' = IF next + 1 < Jobs THEN main ELSE "returned"
  /\ UNCHANGED <<call, latest, size, jobs, dest, cut, fault>>

\* i.wait() does not rethrow what the job threw.
Wait ==
  /\ main = "wait" /\ job[next] \in {"done", "failed"}
  /\ IF next + 1 < Jobs
       THEN next' = next + 1 /\ UNCHANGED main
       ELSE UNCHANGED next /\ main' = "returned"
  /\ UNCHANGED <<call, latest, size, jobs, dest, cut, fault>>

\* Variant: they do not.
UnwindAtOnce ==
  /\ main = "unwind"
  /\ main' = "threw"
  /\ UNCHANGED <<call, latest, next, size, jobs, dest, cut, fault>>

\* The destructors of the futures wait for the jobs that were launched.
Unwind ==
  /\ main = "unwind" /\ AllJobsEnded
  /\ main' = "threw"
  /\ UNCHANGED <<call, latest, next, size, jobs, dest, cut, fault>>

-----------------------------------------------------------------------------
(* A job: DownloadParts and the attempts of DownloadPart.                  *)

\* Variant: the offset grows by the size of a chunk.
NextPartByChunk(j) ==
  /\ i' = [i EXCEPT ![j] = @ + 1]
  /\ offset' = [offset EXCEPT ![j] = @ + Chunk(size, Jobs, j)]
  /\ job' = [job EXCEPT ![j] = IF i[j] + 1 = PartsPerJob THEN "done" ELSE "send"]
  /\ UNCHANGED <<call, latest, caller, retriesG, granted>>

NextPart(j) ==
  /\ i' = [i EXCEPT ![j] = @ + 1]
  /\ offset' = [offset EXCEPT ![j] = @ + PartSizeOf(j, i[j])]
  /\ job' = [job EXCEPT ![j] = IF i[j] + 1 = PartsPerJob THEN "done" ELSE "send"]
  /\ UNCHANGED <<call, latest, caller, retriesG, granted>>

\* Variants: ++retriesG >= maxRetries, and a retry that is not counted.
CaughtTooSoon(j) ==
  /\ retriesG' = retriesG + 1
  /\ IF retriesG + 1 >= MaxRetries
       THEN /\ UNCHANGED granted
            /\ job' = [job EXCEPT ![j] = "failed"]
       ELSE /\ granted' = granted + 1
            /\ UNCHANGED job
  /\ UNCHANGED <<call, latest, caller, i, offset, cut>>

CaughtUncounted(j) ==
  UNCHANGED <<call, latest, caller, jobs, cut>>

\* catch: if (retriesG++ > maxRetries) throw e; else get the part again
Caught(j) ==
  /\ retriesG' = retriesG + 1
  /\ IF retriesG > MaxRetries
       THEN /\ UNCHANGED granted
            /\ job' = [job EXCEPT ![j] = "failed"]
       ELSE /\ granted' = granted + 1
            /\ UNCHANGED job
  /\ UNCHANGED <<call, latest, caller, i, offset, cut>>

PartArrives(j) ==
  /\ job[j] = "send"
  /\ \E body \in Answers(j) \ {ErrorBody} : Write(First(j), body)
  /\ NextPart(j)
  /\ UNCHANGED <<cut, fault>>

\* The connection breaks, or a write fails, after the status has arrived: the
\* result of Send is not looked at and the status is no error.
PartCut(j) ==
  /\ job[j] = "send"
  /\ \E body \in Answers(j) \ {ErrorBody} : \E n \in 0 .. body.size - 1 :
       Write(First(j), [body EXCEPT !.size = n])
  /\ NextPart(j)
  /\ cut' = cut \cup {<<j, i[j]>>}
  /\ fault' = TRUE

\* The body of the error is in the file when HandleError throws.
PartRefused(j) ==
  /\ job[j] = "send"
  /\ Write(First(j), ErrorBody)
  /\ Caught(j)
  /\ fault' = (fault \/ ErrorBody \notin Answers(j))

\* The file cannot be opened, or no answer comes.  No file may be named after
\* the text of a buffer.
NothingWritten(j) ==
  /\ job[j] = "send"
  /\ Caught(j)
  /\ fault' = (fault \/ target = "file")
  /\ UNCHANGED dest

-----------------------------------------------------------------------------
\* Someone else puts another version.
NewVersion ==
  /\ ~Ended /\ latest # 0 /\ latest + 1 \in Versions
  /\ latest' = latest + 1
  /\ UNCHANGED <<call, caller, jobs, dest, cut, fault>>

Over == Ended /\ UNCHANGED vars

HeadStep == SizeKnown \/ SizeUnknown \/ BufferGiven

CallerStep == HeadStep \/ Launch \/ RunDeferred \/ Wait \/ Unwind

Attempt(j) == PartArrives(j) \/ PartCut(j) \/ PartRefused(j) \/ NothingWritten(j)

Next ==
  \/ CallerStep \/ StartFails \/ LaunchFails \/ NewVersion
  \/ \E j \in JobIds : Attempt(j)
  \/ Over

Spec == Init /\ [][Next]_vars

\* Threads run, and every request is answered or fails in the end.
FairSpec == Spec /\ WF_vars(CallerStep) /\ \A j \in JobIds : WF_vars(Attempt(j))

-----------------------------------------------------------------------------
(* Correctness.                                                            *)

TypeOK ==
  /\ target \in {"file", "buffer"} /\ sync \in BOOLEAN /\ pinned \in BOOLEAN
  /\ latest \in {0} \cup Versions
  /\ main \in {"head", "launch", "wait", "unwind", "returned", "threw"}
  /\ next \in JobIds /\ size \in 0 .. Word - 1
  /\ job \in [JobIds -> {"idle", "deferred", "send", "done", "failed"}]
  /\ i \in [JobIds -> 0 .. PartsPerJob]
  /\ offset \in [JobIds -> Nat]
  /\ retriesG \in Nat /\ granted \in Nat
  /\ Length \in Nat /\ dest \in [0 .. Length - 1 -> {Filler, Wrong} \cup Versions]
  /\ cut \subseteq JobIds \X PartIds
  /\ fault \in BOOLEAN

File(v) == [p \in 0 .. Sizes[v] - 1 |-> v]

\* The versions of the object that may have been served.
Seen == IF pinned THEN {1} ELSE 1 .. latest

\* A download whose size was that of some version that has bytes, and whose
\* split wraps nowhere and leaves no part empty.
Plain ==
  /\ target = "file" /\ main # "head" /\ size \in {Sizes[v] : v \in Versions} \ {0}
  /\ SafeSplit(size, Jobs, PartsPerJob)
  /\ \A j \in JobIds, n \in PartIds : PartSizeOf(j, n) > 0

\* The body of an error is no longer than any part.
ErrorsFit == \A j \in JobIds, n \in PartIds : ErrorLen <= PartSizeOf(j, n)

\* No part is asked for without a range, which would be the whole object.
AllRanged == PartSizeOf(0, 0) > 1

\* These bytes of version v are in the file, as far as it has them.
FilledFrom(v, bytes) ==
  \A p \in bytes : p < Sizes[v] => p \in DOMAIN dest /\ dest[p] = v

BytesOf(j, n) == PartFrom(j, n) .. PartFrom(j, n) + PartSizeOf(j, n) - 1

(* A part that was answered in full is in the file, whatever was written   *)
(* there by attempts that failed, whatever its neighbours, of the same and *)
(* of the other jobs, write meanwhile (object.cpp:171-198 writes every     *)
(* body, also an error's, at the offset of the part), and however often    *)
(* the object is replaced (the GETs name no version unless the caller      *)
(* does, download.cpp:92-102): a file may be torn between parts, but no    *)
(* part is.                                                                *)
AnsweredPartsAreThere == Plain /\ ErrorsFit =>
  \A j \in JobIds : \A n \in 0 .. i[j] - 1 : <<j, n>> \notin cut =>
    \E v \in Seen : FilledFrom(v, BytesOf(j, n))

(* A download in which no job gave up and no answer was cut has every byte *)
(* that all the versions served have, and is no longer than it was made,   *)
(* though parts were asked for again; it is the object, byte for byte, if  *)
(* the version whose size was asked for is the only one.                   *)
RetriedIsWhole ==
  Plain /\ ErrorsFit /\ main = "returned" /\ FailedJobs = {} /\ cut = {} =>
    /\ \A p \in 0 .. size - 1 : (\A v \in Seen : p < Sizes[v]) =>
         p \in DOMAIN dest /\ dest[p] \in Seen
    /\ AllRanged \/ (\A v \in Seen : Sizes[v] <= size) => DOMAIN dest = 0 .. size - 1
    /\ \A v \in Versions : Seen = {v} /\ Sizes[v] = size => dest = File(v)

(* A job gives up only if something failed, or a version was served that   *)
(* is shorter than the size asked for: the ranges the jobs compute are not *)
(* refused otherwise.                                                      *)
GivesUpOnlyOnFault ==
  Plain /\ (\A v \in Seen : size <= Sizes[v]) /\ FailedJobs # {} => fault

(* No retry is lost: whichever jobs fail, and in whatever order they draw  *)
(* on the counter, none gives up before all of them together have made     *)
(* cfg.maxRetries attempts again (download.cpp:64-69).                     *)
RetriesNotLost == FailedJobs # {} => granted >= MaxRetries

(* cfg.maxRetries is the "maximum number of retries" (s3-client.h:117).    *)
RetriesWithinMax == granted <= MaxRetries

(* Download leaves no thread behind that still writes into the file.       *)
NoJobOutlivesCall == Ended => AllJobsEnded

(* Every call returns or throws.                                           *)
Terminates == <>Ended

(* What the transfer test asserts when Download has returned               *)
(* (test/parallel-file-transfer-test.cpp:130-134): the file is the object. *)
ReturnsWhole ==
  target = "file" /\ main = "returned" => \E v \in Versions : dest = File(v)

(* To the counter of the downloads of the process the call is one call of  *)
(* SharedRetries, with a budget that is larger by one.                     *)
TheCall  == {"download"}
Phase    == IF main = "head" THEN "before" ELSE IF Ended THEN "over" ELSE "running"
Drawn(s) == IF s = "deferred" THEN "idle" ELSE s

Counted == INSTANCE SharedRetries WITH
  Calls      <- TheCall,
  MaxRetries <- [c \in TheCall |-> MaxRetries + 1],
  state      <- [c \in TheCall |-> Phase],
  job        <- [c \in TheCall |-> [j \in JobIds |-> Drawn(job[j])]],
  granted    <- [c \in TheCall |-> granted],
  sinceLast  <- [c \in TheCall |-> granted],
  resets     <- [c \in TheCall |-> 0],
  shared     <- [c \in TheCall |-> FALSE]

ImplementsSharedRetries == Counted!Spec

-----------------------------------------------------------------------------
(* The inductive invariants behind RetriesNotLost, NoJobOutlivesCall and   *)
(* GivesUpOnlyOnFault.                                                     *)

\* A job that has not ended has a part left, and is idle until launched.
Progress ==
  /\ \A j \in JobIds :
       /\ i[j] < PartsPerJob <=> job[j] # "done"
       /\ job[j] \in {"idle", "deferred"} => i[j] = 0
  /\ main = "head" => next = 0 /\ (target = "file" => size = 0)
  /\ main \in {"head", "launch"} => \A j \in JobIds : next <= j => job[j] = "idle"

\* The counter is the attempts granted until the budget is spent.
RetryInv ==
  /\ granted = Least(retriesG, MaxRetries + 1)
  /\ FailedJobs # {} => granted = MaxRetries + 1

\* The caller is past a job only when the job has ended.
WaitInv ==
  /\ main = "wait" => \A j \in JobIds : j < next => job[j] \in {"done", "failed"}
  /\ main = "returned" => \A j \in JobIds : job[j] \in {"done", "failed"}
  /\ main = "threw" => AllJobsEnded

\* There is an object, every job is where the split says, and gives up on a
\* fault or a version that is too short only.
PlainInv == Plain =>
  /\ latest \in Versions
  /\ \A j \in JobIds : i[j] < PartsPerJob => offset[j] = PartFrom(j, i[j])
  /\ (\A v \in Seen : size <= Sizes[v]) /\ FailedJobs # {} => fault
=============================================================================
