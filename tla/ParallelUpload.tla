--------------------------- MODULE ParallelUpload ---------------------------
(***************************************************************************)
(* One call of Upload (lib/src/upload.cpp): the calling thread creates a   *)
(* multipart upload, launches the jobs, collects their ETags in the order  *)
(* of the jobs and completes the upload.  A job sends its parts one after  *)
(* the other; a part that fails is sent again while the budget of retries, *)
(* one counter for all jobs, lasts.                                        *)
(*                                                                         *)
(* The server, and a network that loses requests, loses answers and        *)
(* delivers a request after its sender has given it up, are modelled from  *)
(* what the code expects of them.                                          *)
(***************************************************************************)
EXTENDS Partition, Sequences, FiniteSets

CONSTANTS
  FileSize,     \* bytes of the source
  Jobs,         \* cfg.jobs
  PartsPerJob,  \* cfg.partsPerJob
  MaxRetries,   \* cfg.maxRetries
  NoPart,       \* a part number the server has nothing for
  NoObject,     \* no object under the key
  NoList        \* no delayed completion

ASSUME CallAssumption ==
  /\ FileSize \in Nat
  /\ Jobs \in Nat \ {0}
  /\ PartsPerJob \in Nat \ {0}
  /\ MaxRetries \in Nat
  /\ Word \in Nat /\ FileSize + Jobs + PartsPerJob <= Word

JobIds      == 0 .. Jobs - 1
PartNumbers == 1 .. Jobs * PartsPerJob

\* A part's bytes, [from, size], stand for its content and for its ETag.
Content == [from : Nat, size : Nat]
Request == [part : Nat, body : Content]

ASSUME NullAssumption ==
  NoPart \notin Content /\ NoObject \notin Seq(Content) /\ NoList \notin Seq(Content)

VARIABLES
  source,   \* where the bytes come from: cfg.file or cfg.data
  sync,     \* the argument of Upload: serial transfer
  main,     \* what the calling thread is doing
  next,     \* the job it launches, then the job it collects
  vetags,   \* ETags collected
  job,      \* what every job is doing
  i,        \* every job's loop variable
  offset,   \* every job's running offset
  etags,    \* every job's result
  retriesG, \* the retry counter shared by the jobs
  granted,  \* history: attempts made again
  upload,   \* the multipart upload on the server
  stored,   \* its parts
  object,   \* the object under the key
  orphans,  \* part requests given up by their job, still on their way
  lateList, \* a completion given up by the caller, still on its way
  fault     \* history: some request failed

call   == <<source, sync>>
caller == <<main, next, vetags>>
jobs   == <<job, i, offset, etags, retriesG, granted>>
server == <<upload, stored, object>>
net    == <<orphans, lateList>>
vars   == <<call, caller, jobs, server, net, fault>>

-----------------------------------------------------------------------------
(* The split, UploadParts lines 97-107.                                    *)

\* Variants: the offset of a job from its shortened chunk, and numbers of
\* parts that two jobs share.
JobFromShortened(j)    == j * Chunk(FileSize, Jobs, j)
PartNumberShared(j, n) == j * (PartsPerJob - 1) + n + 1

JobFrom(j)       == PieceFrom(FileSize, Jobs, j)
PartSizeOf(j, n) == PartLen(FileSize, Jobs, PartsPerJob, j, n)
PartNumber(j, n) == j * PartsPerJob + n + 1

\* The request job j is sending: the range at its running offset.
Body(j)  == [from |-> offset[j], size |-> PartSizeOf(j, i[j])]
Sent(j)  == [part |-> PartNumber(j, i[j]), body |-> Body(j)]

\* A range that ends past the file is announced with a Content-Length that
\* the file cannot fill: the body is never complete.
Readable(b) == b.from + b.size <= FileSize

\* What libcurl is told to read from there on: for an empty part, whose
\* Content-Length is 0, as many bytes as the whole file has.
Asked(b) == IF b.size = 0 THEN FileSize ELSE b.size

Ended == main \in {"returned", "threw"}

\* No job of a thread of its own is running: what the destructors of the
\* futures of the launched jobs wait for.
AllJobsEnded == \A j \in JobIds : job[j] \in {"idle", "deferred", "done", "failed"}

-----------------------------------------------------------------------------
Init ==
  /\ source \in {"file", "buffer"}
  /\ sync \in BOOLEAN
  /\ main = "create" /\ next = 0 /\ vetags = <<>>
  /\ job = [j \in JobIds |-> "idle"]
  /\ i = [j \in JobIds |-> 0]
  /\ offset = [j \in JobIds |-> JobFrom(j)]
  /\ etags = [j \in JobIds |-> <<>>]
  /\ retriesG = 0 /\ granted = 0
  /\ upload = "none"
  /\ stored = [p \in PartNumbers |-> NoPart]
  /\ object = NoObject
  /\ orphans = {} /\ lateList = NoList
  /\ fault = FALSE

-----------------------------------------------------------------------------
(* The calling thread: UploadFile and UploadData.                          *)

CreateUpload ==
  /\ main = "create"
  /\ upload' = "open"
  /\ main' = "launch"
  /\ UNCHANGED <<call, next, vetags, jobs, stored, object, net, fault>>

\* Nothing is sent (no endpoint, a file that cannot be opened), or the request
\* or its answer is lost: the upload may have been created.
CreateFails ==
  /\ main = "create"
  /\ upload' \in {"none", "open"}
  /\ main' = "threw"
  /\ fault' = TRUE
  /\ UNCHANGED <<call, next, vetags, jobs, stored, object, net>>

\* The answer breaks off after its status: the identifier read from it is
\* empty, which nobody checks, and the upload the requests of the parts name
\* is none of the server's.
CreateUnnamed ==
  /\ main = "create"
  /\ main' = "launch"
  /\ fault' = TRUE
  /\ UNCHANGED <<call, next, vetags, jobs, server, net>>

\* async(launch::deferred | launch::async, UploadParts, ...)
Launch ==
  /\ main = "launch"
  /\ job' = [job EXCEPT ![next] = IF sync THEN "deferred" ELSE "send"]
  /\ IF next + 1 < Jobs
       THEN next' = next + 1 /\ UNCHANGED main
       ELSE next' = 0 /\ main' = "collect"
  /\ UNCHANGED <<call, vetags, i, offset, etags, retriesG, granted, server, net, fault>>

\* No thread can be started: async throws while earlier jobs are running.
LaunchFails ==
  /\ main = "launch" /\ ~sync
  /\ main' = "unwind"
  /\ fault' = TRUE
  /\ UNCHANGED <<call, next, vetags, jobs, server, net>>

\* f.get() on a deferred job runs it in the calling thread.
RunDeferred ==
  /\ main = "collect" /\ job[next] = "deferred"
  /\ job' = [job EXCEPT ![next] = "send"]
  /\ UNCHANGED <<call, caller, i, offset, etags, retriesG, granted, server, net, fault>>

\* Variants: the index runs past the last job, and the ETags are put in front
\* of those collected before.
CollectPastEnd ==
  /\ main = "collect" /\ job[next] = "done"
  /\ vetags' = vetags \o etags[next]
  /\ next' = next + 1
  /\ main' = IF next + 1 < Jobs THEN main ELSE "complete"
  /\ UNCHANGED <<call, jobs, server, net, fault>>

CollectInFront ==
  /\ main = "collect" /\ job[next] = "done"
  /\ vetags' = etags[next] \o vetags
  /\ IF next + 1 < Jobs
       THEN next' = next + 1 /\ UNCHANGED main
       ELSE UNCHANGED next /\ main' = "complete"
  /\ UNCHANGED <<call, jobs, server, net, fault>>

\* f.get() returns the ETags of the job.
Collect ==
  /\ main = "collect" /\ job[next] = "done"
  /\ vetags' = vetags \o etags[next]
  /\ IF next + 1 < Jobs
       THEN next' = next + 1 /\ UNCHANGED main
       ELSE UNCHANGED next /\ main' = "complete"
  /\ UNCHANGED <<call, jobs, server, net, fault>>

\* f.get() rethrows the exception of the job.
CollectFails ==
  /\ main = "collect" /\ job[next] = "failed"
  /\ main' = "unwind"
  /\ UNCHANGED <<call, next, vetags, jobs, server, net, fault>>

\* Variant: the exception leaves without waiting for the jobs.
UnwindAtOnce ==
  /\ main = "unwind"
  /\ main' = "threw"
  /\ UNCHANGED <<call, next, vetags, jobs, server, net, fault>>

\* The vector of futures is destroyed: every job that has a thread is waited
\* for, a deferred job never runs.  The upload is not aborted.
Unwind ==
  /\ main = "unwind" /\ AllJobsEnded
  /\ main' = "threw"
  /\ UNCHANGED <<call, next, vetags, jobs, server, net, fault>>

-----------------------------------------------------------------------------
(* A job: UploadParts and the attempts of DoUploadPart.                    *)

\* DoUploadPart's overload for files is the one called for a buffer too (the
\* operands of `cfg.data ? cfg.data : cfg.file` have the common type string):
\* the buffer's text is taken for a file name, and no such file exists.  An
\* empty file is refused as well (webclient.cpp:334-337).
CanSend == source = "file" /\ FileSize > 0

SendPart(j) ==
  /\ job[j] = "send" /\ CanSend
  /\ job' = [job EXCEPT ![j] = "sent"]
  /\ UNCHANGED <<call, caller, i, offset, etags, retriesG, granted, server, net, fault>>

\* The answer carries the ETag of the part.
PartAnswered(j) ==
  /\ job[j] = "stored"
  /\ etags' = [etags EXCEPT ![j] = Append(@, Body(j))]
  /\ i' = [i EXCEPT ![j] = @ + 1]
  /\ offset' = [offset EXCEPT ![j] = @ + PartSizeOf(j, i[j])]
  /\ job' = [job EXCEPT ![j] = IF i[j] + 1 = PartsPerJob THEN "done" ELSE "send"]
  /\ UNCHANGED <<call, caller, retriesG, granted, server, net, fault>>

\* Variants: a bound that is off by one, ++retriesG instead of retriesG++, and
\* a retry that is not counted.
CaughtWithin(j, again) ==
  /\ retriesG' = retriesG + 1
  /\ granted' = granted + (IF again THEN 1 ELSE 0)
  /\ job' = [job EXCEPT ![j] = IF again THEN "send" ELSE "failed"]
  /\ UNCHANGED <<call, caller, i, offset, etags, server>>

CaughtOneMore(j)  == CaughtWithin(j, retriesG <= MaxRetries)
CaughtOneLess(j)  == CaughtWithin(j, retriesG + 1 < MaxRetries)
CaughtUncounted(j) ==
  /\ job' = [job EXCEPT ![j] = "send"]
  /\ UNCHANGED <<call, caller, i, offset, etags, retriesG, granted, server>>

\* catch: if (retriesG++ < maxRetries) send the part again; else throw e;
Caught(j) ==
  /\ retriesG' = retriesG + 1
  /\ IF retriesG < MaxRetries
       THEN /\ granted' = granted + 1
            /\ job' = [job EXCEPT ![j] = "send"]
       ELSE /\ UNCHANGED granted
            /\ job' = [job EXCEPT ![j] = "failed"]
  /\ UNCHANGED <<call, caller, i, offset, etags, server>>

\* WebClient::UploadFile throws before any request is sent: it always does
\* without CanSend, and the file may not open.
FileRefused(j) ==
  /\ job[j] = "send"
  /\ Caught(j)
  /\ fault' = (fault \/ CanSend)
  /\ UNCHANGED net

\* A complete request may still be on its way when its job gives it up.
MayArriveLate(j) ==
  /\ \/ UNCHANGED orphans
     \/ /\ job[j] = "sent" /\ Readable(Body(j))
        /\ orphans' = orphans \cup {Sent(j)}
  /\ UNCHANGED lateList

\* The file ends before the bytes asked for.  A version of libcurl may ignore
\* it when the part is empty; the server has its request in any case.
BodyTooShort(j) ==
  /\ job[j] \in {"sent", "stored"}
  /\ Body(j).from + Asked(Body(j)) > FileSize
  /\ Caught(j)
  /\ MayArriveLate(j)
  /\ UNCHANGED fault

\* The request failed, its answer was lost, or the server answered with an
\* error; a request given up may still be on its way.
PartFails(j) ==
  /\ job[j] \in {"sent", "stored"}
  /\ Caught(j)
  /\ fault' = TRUE
  /\ MayArriveLate(j)

-----------------------------------------------------------------------------
(* The server.                                                             *)

StorePart(r) == stored' = [stored EXCEPT ![r.part] = r.body]

ServerStores(j) ==
  /\ job[j] = "sent" /\ upload = "open" /\ Readable(Body(j))
  /\ StorePart(Sent(j))
  /\ job' = [job EXCEPT ![j] = "stored"]
  /\ UNCHANGED <<call, caller, i, offset, etags, retriesG, granted, upload, object, net, fault>>

\* A request whose sender has given up, maybe long after the upload is over.
OrphanArrives(r) ==
  /\ orphans' = orphans \ {r}
  /\ IF upload = "open" THEN StorePart(r) ELSE UNCHANGED stored
  /\ UNCHANGED <<call, caller, jobs, upload, object, lateList, fault>>

\* Every part of the list has to be there under its number, with its ETag.
ListMatches(list) ==
  \A k \in 1 .. Len(list) : k \in PartNumbers /\ stored[k] = list[k]

Acceptable(list) == upload = "open" /\ ListMatches(list)

Publish(list) ==
  /\ object' = list
  /\ upload' = "closed"
  /\ UNCHANGED stored

\* CompleteMultipartUpload: part number k goes with the k-th ETag collected.
ServerCompletes ==
  /\ main = "complete" /\ Acceptable(vetags)
  /\ Publish(vetags)
  /\ main' = "completed"
  /\ UNCHANGED <<call, next, vetags, jobs, net, fault>>

CompleteAnswered ==
  /\ main = "completed"
  /\ main' = "returned"
  /\ UNCHANGED <<call, next, vetags, jobs, server, net, fault>>

\* Variant: the failure of the completion is not reported.
CompleteFailsSilently ==
  /\ main \in {"complete", "completed"}
  /\ main' = "returned"
  /\ fault' = TRUE
  /\ \/ UNCHANGED lateList
     \/ main = "complete" /\ lateList' = vetags
  /\ UNCHANGED <<call, next, vetags, jobs, server, orphans>>

\* CompleteMultipartUpload throws: the request or its answer is lost, or the
\* server refuses the list.  The request is not sent a second time.
CompleteFails ==
  /\ main \in {"complete", "completed"}
  /\ main' = "threw"
  /\ fault' = (fault \/ main = "completed" \/ Acceptable(vetags))
  /\ \/ UNCHANGED lateList
     \/ main = "complete" /\ lateList' = vetags
  /\ UNCHANGED <<call, next, vetags, jobs, server, orphans>>

LateCompletion ==
  /\ lateList # NoList
  /\ lateList' = NoList
  /\ IF Acceptable(lateList)
       THEN Publish(lateList)
       ELSE UNCHANGED server
  /\ UNCHANGED <<call, caller, jobs, orphans, fault>>

-----------------------------------------------------------------------------
\* The call is over and nothing is on its way.
Over ==
  /\ Ended /\ orphans = {} /\ lateList = NoList
  /\ UNCHANGED vars

CallerStep == Launch \/ RunDeferred \/ Collect \/ CollectFails \/ Unwind

CreateStep == CreateUpload \/ CreateFails \/ CreateUnnamed

CompleteStep == ServerCompletes \/ CompleteAnswered \/ CompleteFails

JobStep(j) == SendPart(j) \/ FileRefused(j)

AttemptStep(j) == ServerStores(j) \/ PartAnswered(j) \/ BodyTooShort(j) \/ PartFails(j)

Next ==
  \/ CallerStep \/ CreateStep \/ CompleteStep
  \/ LaunchFails \/ LateCompletion
  \/ \E j \in JobIds : JobStep(j) \/ AttemptStep(j)
  \/ \E r \in orphans : OrphanArrives(r)
  \/ Over

Spec == Init /\ [][Next]_vars

\* Threads run, and every request is answered or fails in the end.
Fairness ==
  /\ WF_vars(CallerStep) /\ WF_vars(CreateStep) /\ WF_vars(CompleteStep)
  /\ \A j \in JobIds : WF_vars(JobStep(j)) /\ WF_vars(AttemptStep(j))

FairSpec == Spec /\ Fairness

-----------------------------------------------------------------------------
(* Correctness.                                                            *)

Mains == {"create", "launch", "collect", "complete", "completed", "unwind",
          "returned", "threw"}
JobStates == {"idle", "deferred", "send", "sent", "stored", "done", "failed"}

Requests == [part : PartNumbers, body : Content]

TypeOK ==
  /\ source \in {"file", "buffer"} /\ sync \in BOOLEAN
  /\ main \in Mains /\ next \in JobIds
  /\ vetags \in Seq(Content)
  /\ job \in [JobIds -> JobStates]
  /\ i \in [JobIds -> 0 .. PartsPerJob]
  /\ offset \in [JobIds -> Nat]
  /\ etags \in [JobIds -> Seq(Content)]
  /\ retriesG \in Nat /\ granted \in Nat
  /\ upload \in {"none", "open", "closed"}
  /\ stored \in [PartNumbers -> Content \cup {NoPart}]
  /\ object \in Seq(Content) \cup {NoObject}
  /\ orphans \subseteq Requests
  /\ lateList \in Seq(Content) \cup {NoList}
  /\ fault \in BOOLEAN

\* A job that has not ended has a part left, and is idle until launched.
Progress ==
  /\ \A j \in JobIds :
       /\ i[j] < PartsPerJob <=> job[j] # "done"
       /\ job[j] \in {"idle", "deferred"} => i[j] = 0
  /\ main = "create" => next = 0
  /\ main \in {"create", "launch"} => \A j \in JobIds : next <= j => job[j] = "idle"

\* What makes RetryBudget inductive: the counter is the attempts granted
\* until the budget is spent, then one more for every job that gave up.
FailedJobs == {j \in JobIds : job[j] = "failed"}

RetryInv ==
  /\ granted = Least(retriesG, MaxRetries)
  /\ retriesG <= granted + Cardinality(FailedJobs)
  /\ FailedJobs # {} => granted = MaxRetries

Safe == SafeSplit(FileSize, Jobs, PartsPerJob)

\* A job has given up at a part without a byte.
GaveUpEmpty == \E j \in FailedJobs : Body(j).size = 0

\* What a split that wraps nowhere plans for part n of job j, and the list of
\* all parts by number.
PlannedBody(j, n) ==
  [from |-> JobFrom(j) + PieceFrom(Chunk(FileSize, Jobs, j), PartsPerJob, n),
   size |-> PartSizeOf(j, n)]

Plan == [k \in PartNumbers |->
           PlannedBody((k - 1) \div PartsPerJob, (k - 1) % PartsPerJob)]

(* What ends up under the key is the source, every byte once and in its    *)
(* place, whatever the order the jobs ran in, the parts that were sent     *)
(* twice and the requests that arrived late: the ETags collected job by    *)
(* job are numbered as the parts were (upload.cpp:142-148,                 *)
(* multipart_upload.cpp:55-60).                                            *)
ObjectIsSource == Safe /\ object # NoObject => Tiles(object, FileSize)

(* The same without the condition on the split, what the transfer test     *)
(* asserts of an upload (test/parallel-file-transfer-test.cpp:101-102).    *)
EveryObjectIsSource == object # NoObject => Tiles(object, FileSize)

(* The ETags a job has collected stay those of the parts on the server,    *)
(* although a request given up may write a part again after its answer.    *)
EtagsStayValid ==
  \A j \in JobIds : \A n \in 1 .. Len(etags[j]) :
    stored[PartNumber(j, n - 1)] = etags[j][n]

(* cfg.maxRetries bounds the attempts made again by all the jobs together, *)
(* the counter GetUploadRetries reports exceeds it by at most one for      *)
(* every job that gave up, and a job gives up only when every retry of the *)
(* call has been spent (upload.cpp:58-69).                                 *)
RetryBudget ==
  /\ granted <= MaxRetries
  /\ retriesG <= MaxRetries + Jobs
  /\ (\E j \in JobIds : job[j] = "failed") => granted = MaxRetries

(* Nothing of the call is left behind: when Upload returns or throws, even *)
(* from the middle of launching, no thread of it is running.               *)
NoJobOutlivesCall == Ended => AllJobsEnded

(* sync asks for a serial transfer (s3-client.h:162): one job at a time,   *)
(* in order.                                                               *)
SerialWhenSync ==
  sync => \A j, k \in JobIds :
    job[j] \notin {"idle", "deferred"} /\ k < j => job[k] = "done"

(* An upload of a file throws only if some request, the start of a thread  *)
(* or an open failed, or a job has given up at an empty part, for which    *)
(* the whole file is asked (webclient.cpp:334): no interleaving of the     *)
(* jobs makes the server refuse the list of ETags.                         *)
FailsOnlyOnFault ==
  Safe /\ CanSend /\ main = "threw" => fault \/ GaveUpEmpty

(* Every call returns or throws.                                           *)
Terminates == <>Ended

(* The call is an atomic upload: nothing, or the whole source at once.     *)
Result == IF main = "returned" THEN "ok"
          ELSE IF main = "threw" THEN "error" ELSE "pending"

Atomic == INSTANCE AtomicUpload WITH Source <- Plan, result <- Result

ImplementsAtomicUpload == Atomic!Spec

(* To the counter of the process the call is one call of SharedRetries:    *)
(* what is said there of calls that run together is said of this one.      *)
TheCall  == {"upload"}
Phase    == IF main = "create" THEN "before" ELSE IF Ended THEN "over" ELSE "running"
Drawn(s) == IF s \in {"idle", "deferred"} THEN "idle"
            ELSE IF s \in {"send", "sent", "stored"} THEN "send" ELSE s

Counted == INSTANCE SharedRetries WITH
  Calls      <- TheCall,
  MaxRetries <- [c \in TheCall |-> MaxRetries],
  state      <- [c \in TheCall |-> Phase],
  job        <- [c \in TheCall |-> [j \in JobIds |-> Drawn(job[j])]],
  granted    <- [c \in TheCall |-> granted],
  sinceLast  <- [c \in TheCall |-> granted],
  resets     <- [c \in TheCall |-> 0],
  shared     <- [c \in TheCall |-> FALSE]

ImplementsSharedRetries == Counted!Spec

-----------------------------------------------------------------------------
(* The inductive invariant behind ObjectIsSource and FailsOnlyOnFault.     *)

\* The caller is past a job only when the job is done.
CallerInv ==
  /\ main = "collect" => \A j \in JobIds : j < next => job[j] = "done"
  /\ main \in {"complete", "completed", "returned"} =>
       \A j \in JobIds : job[j] = "done"

\* Every job is where the plan says, and has the ETags of the parts before.
PlanInv == \A j \in JobIds :
  /\ i[j] < PartsPerJob => Body(j) = PlannedBody(j, i[j])
  /\ Len(etags[j]) = i[j]
  /\ \A n \in 0 .. i[j] - 1 : etags[j][n + 1] = PlannedBody(j, n)

\* The list collected is the plan, up to the job collected last.
ListInv ==
  /\ main \in {"create", "launch"} => Len(vetags) = 0
  /\ main = "collect" => Len(vetags) = next * PartsPerJob
  /\ main \in {"complete", "completed", "returned"} =>
       Len(vetags) = Jobs * PartsPerJob
  /\ Len(vetags) <= Jobs * PartsPerJob
  /\ \A k \in 1 .. Len(vetags) : vetags[k] = Plan[k]

\* The call has no name for its upload, and no part of it is ever answered.
Unnamed ==
  /\ upload = "none" /\ fault
  /\ \A j \in JobIds : job[j] \notin {"stored", "done"}

\* The server has nothing but planned parts, those of the ETags among them.
ServerInv ==
  /\ \A p \in PartNumbers : stored[p] \in {NoPart, Plan[p]}
  /\ \A r \in orphans : r.body = Plan[r.part]
  /\ \A j \in JobIds :
       /\ \A n \in 0 .. i[j] - 1 : stored[PartNumber(j, n)] = PlannedBody(j, n)
       /\ job[j] = "stored" => stored[PartNumber(j, i[j])] = PlannedBody(j, i[j])
  /\ main \in {"launch", "collect", "complete"} => upload = "open" \/ Unnamed

\* The object is published from the complete list only, and only once.
ObjectInv ==
  /\ lateList \in {NoList, Plan}
  /\ lateList # NoList => main = "threw"
  /\ object \in {NoObject, Plan}
  /\ main \in {"completed", "returned"} => object = Plan
  /\ upload # "closed" => object = NoObject
  /\ main = "create" => upload = "none"

FaultInv == CanSend =>
  /\ FailedJobs # {} => fault \/ GaveUpEmpty
  /\ main \in {"unwind", "threw"} => fault \/ GaveUpEmpty

IntegrityInv == Safe =>
  CallerInv /\ PlanInv /\ ListInv /\ ServerInv /\ ObjectInv /\ FaultInv
=============================================================================
