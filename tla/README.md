# A TLA+ model of s3client

`s3client` is a C++ client library for S3 object stores: signed requests sent
through libcurl, one C++ method per S3 operation, and, on top of them, transfers
of large objects in parallel: `Upload` and `Download` cut an object into jobs and
parts and run the jobs in threads.  This directory models the library, checks it
with TLC and proves the main properties of its transfers with TLAPS.  Paths below
are relative to the repository, `lib/src` being the implementation; a file named
alone, such as `upload.cpp`, is in `src/lib/src` or `src/lib/include`.

## The system

| Component | State it keeps | Operations | Talks to | Modelled by |
|---|---|---|---|---|
| Parallel upload (`upload.cpp`) | one atomic counter of retries per process, per-job offset and ETags, the list of futures | `Upload`, the jobs `UploadParts`, the attempts `DoUploadPart` | one `S3Api` of its own per job; all the jobs of all the calls share the counter | `ParallelUpload`, `SharedRetries` |
| Parallel download (`download.cpp`) | the same counter for downloads, per-job offset, the destination file | `Download`, `DownloadParts`, `DownloadPart` | `GetObjectSize`, `GetFileObject`; the jobs share the counter and the file | `ParallelDownload` |
| Split into jobs and parts (both files) | none: `size_t` arithmetic repeated in every job | chunk, part and offset computations | | `Partition`, `TransferPlan` |
| Multipart requests (`api/multipart_upload.cpp`) | a counter of retries of its own | create, upload a part (from memory, or from a file in three ways), complete, abort | `S3Api::Send`, `WebClient::UploadFile*` | `FileParts`, `S3Requests`, `ParallelUpload` |
| `WebClient`: the library (`webclient.cpp`) | instance counter, mutex, state of libcurl | constructors, move, destructor | libcurl | `CurlEnv` |
| `WebClient`: a handle | options that stay set from one request to the next, buffers | `SetMethod`, `SetHeaders`, `Set*Function`, `Upload*`, `Send`, move | libcurl | `CurlOptions`, `CurlHandle` |
| `WebClient`: bodies | position in a file, a mapping or memory; descriptors | the callbacks libcurl calls | files | `Streams`, `FileParts` |
| `S3Api` (`s3-api.h`, `api/s3-api.cpp`, `error.cpp`) | one `WebClient` and its buffers | `Config`, `Clear`, `Send`, `GetObjectSize`, `HandleError` | `WebClient`, signing | `CurlHandle`, `S3Requests` |
| Objects, buckets (`api/object.cpp`, `api/bucket.cpp`, ...) | none | one request each; an object into memory or a file | `S3Api::Send` | `S3Requests` |
| XML answers (`api/xml_parser.cpp`, `xml_path.cpp`), XML streams (`xmlstreams.h`) | the current element in the streams | records from lists of paths, documents from records | tinyxml2 | `XmlDocs` |
| Signing (`aws_sign.cpp`), low-level client (`s3-client.cpp`) | none | canonical request, signature, presigned URL; a request in one call | hashes, URL utilities | `Signing` |
| Utilities (`utility.cpp`, `url_utility.cpp`, `response_parser.cpp`) | none | credentials file, lists of parameters and headers, headers of answers | | `Settings`, `Responses` |
| Hashes (`lib/hash`) | the buffer of a hash in pieces | one message, a file in pieces, keyed hashes | | `Digests`, `Streams` |
| Applications (`apps/`) | none | command lines | the library | |

### What is hard in it, and what makes it correct

* **Interleaving of jobs.** The jobs of a transfer run in any order and draw on
  one counter of retries (`upload.cpp:62`, `download.cpp:64`).  Correct: the
  budget is neither exceeded nor lost, and what the jobs computed independently
  fits together (`RetryBudget`, `RetriesNotLost`, `ObjectIsSource`,
  `AnsweredPartsAreThere`).
* **Interleaving of calls.** The counter is of the process: a call that starts sets
  it back to 0 while others are drawing on it (`upload.cpp:48`).  What is left of
  the budget: it holds from one reset to the next, it is granted once more for
  every call that starts meanwhile, and it is all there for a call that runs alone
  (`BudgetSinceReset`, `BudgetPerReset`, `AloneSpendsAll`, and
  `ImplementsSharedRetries`, which ties a transfer to these calls).
* **Numbering by position.** `BuildEndUploadXML` numbers the ETags by their
  position in the list collected; the parts were numbered by the jobs.  Correct:
  the two agree whatever the order (`FailsOnlyOnFault`, `EtagsStayValid`).
* **Lost and late messages.** A part whose answer is lost is sent again, and the
  first request may be delivered after the second; the answer of a completion may
  be lost.  Correct: the upload is atomic (`ImplementsAtomicUpload`).
* **Wrapping arithmetic.** `min(partSize, chunkSize - i * partSize)` on `size_t`
  gives a *full* part when part `i` starts past the end.  Correct: exactly the
  splits that never wrap cover the object, each byte once (`SafeTransfersTile`,
  `OnlySafeTransfersTile`).
* **Errors written into the file.** `GetFileObject` writes the body of an answer
  before it looks at the status.  Correct: whatever is written there is replaced
  before the part counts as received (`RetriedIsWhole`).
* **Exceptions in the middle of launching or collecting.** Correct: no thread of
  the call outlives it (`NoJobOutlivesCall`).
* **A library that is not thread safe.** Correct: no object has a handle while
  libcurl is down, and the last one cleans it up (`HandlesNeedLibrary`,
  `CleanedUp`).
* **Options that stay set.** A handle keeps what earlier requests set: a method,
  data, functions, pointers into the object it was moved from.  Correct: what a
  call sends is its own, with its own method, and what it returns is made of its
  own answer; where that is not so, the properties say after which calls
  (`MethodKept`, `BodyIsOwn`, `OwnBuffers`, `ReturnsAnswered`, `ResultIsOwnAnswer`).
* **Descriptors are numbers.** `UploadFileUnbuffered` closes its descriptor twice
  (`webclient.cpp:367, 371`), the second time perhaps that of another thread;
  `UploadFile` leaves its file open when it cannot seek (`webclient.cpp:342`).
  Correct: nobody else's file is closed, and a part is read from its own, unless
  some thread reads unbuffered (`OnlyUnbufferedStrays`, `OwnBytes`,
  `DescriptorsAccounted`).
* **Bytes in pieces.** libcurl asks for the body in pieces of any size, hashes read
  files in pieces, and another process may cut the file meanwhile.  Correct: a
  body that went out is the range it should be, and a hash is that of the bytes
  read (`BodyIsRange`, `HashIsOfFile`).
* **Boundaries of formats.** Padding at the end of a block, headers that clash with
  those computed, sections that repeat, records with a field missing,
  headers found by the end of their name (`DigestsAreStandard`,
  `SignatureVerifies`, `SettingsRead`, `RecordsRead`, `AnswersRead`).

The hazards, each at its line, are listed in `PROJECT.json` with the properties
that would catch them, or with the reason why none does.

## The modules

Definitions under a comment that begins with *Variant* are altered forms of the
definition that follows them, one plausible mistake each.  Nothing uses them:
they are there to be put in the place of the original, to see that each property
can fail (`mutants` in `PROJECT.json`).  `*Proofs` hold theorems.

### Transfers

**`Partition`** has the arithmetic both transfers use, at both levels: `PieceSize`,
`PieceFrom`, `PieceLen` with the wrap of `size_t` (`Word` values), `SafeSplit`
(no subtraction wraps) and `Tiles` (ranges that make up an object, each byte
once and in order).  `TransferPlan` runs the loops of `UploadParts` and
`DownloadParts` over it, offset by addition as in the code.

**`ParallelUpload`** is one call of `Upload`, from a file or a buffer, serial or
parallel.  `main` is the calling thread:

| Action | Code |
|---|---|
| `CreateUpload`, `CreateFails` | `CreateMultipartUpload` and what precedes it |
| `CreateUnnamed` | its answer breaks off: the identifier is empty, which nobody checks, and the jobs are started |
| `Launch`, `LaunchFails` | the loop over `async(deferred or async, UploadParts, ...)`; no thread can be started |
| `RunDeferred` | `f.get()` on a deferred job runs it |
| `Collect`, `CollectFails` | `f.get()` returns the ETags, or rethrows |
| `Unwind` | the vector of futures is destroyed, which waits for the threads |
| `ServerCompletes`, `CompleteAnswered`, `CompleteFails` | `CompleteMultipartUpload` |
| `SendPart`, `PartAnswered`, `FileRefused`, `BodyTooShort`, `PartFails` | one turn of `UploadParts`, with the `catch` of `DoUploadPart` (`Caught`) |

The server keeps the parts by number and publishes the object when every part of
the list is there with its ETag.  The network may lose a request, lose an answer
after the server has acted, or deliver a request after its job has given it up:
`orphans` are such requests of parts, `lateList` such a completion.  A part's
bytes are the range `[from, size]` they come from, which also stands for the
ETag: two parts have the same ETag exactly when they have the same bytes.
`PartSizeOf` is evaluated in the job from the constants as the code does, and
`offset` is kept by addition.

**`AtomicUpload`** is what a caller may rely on: the object appears whole and at
once or not at all, "ok" only once it is there, and after an error it may be there
or still appear.  `ParallelUpload` implements it with `Source <- Plan` (the list
of planned parts) and the caller's outcome as `result`.

**`SharedRetries`** is several calls of `Upload` in
threads of one process.  A job is reduced to what the counter sees of it: it
ends, or an attempt fails and reads and increments the counter (`AttemptFails`,
atomic as `retriesG++` is).  `Start` sets the counter back whoever is running, and
so does a call that throws before it has a job (`StartFails`).  `ParallelUpload`
implements one call of it, and `ParallelDownload` one whose budget is larger by
one: what is shown here of several calls is about real transfers.

**`ParallelDownload`** (instantiated by `MCDownload`, which gives the sizes of the
versions of the object) is one call of `Download`: what makes it throw before a
request (`StartFails`), the HEAD, the file of that size, the jobs, and `wait()`.  The destination is a function from positions to
what is there: a byte of some version in its own place, filler, or anything
else.  `Answers` is what a server may answer to the request a part makes; the
answer may be cut (`PartCut`), replaced by an error whose body is written
(`PartRefused`), or missing (`NothingWritten`).  `NewVersion` is another client
that replaces the object, as often as there are versions.

**`FileParts`** is threads that each send one part with `UploadFilePart`, in one of
its three modes, over the process's table of open descriptors: `Open` takes the
lowest free number, as POSIX has it, `Seek`, `Send`, and the closes one by one
(`CloseFirst`, the first of the two of an unbuffered attempt, and `CloseLast`).  The bytes of a
part are those of whatever file its number stands for when they are read.

### One handle

**`S3Requests`** has every method of `S3Api` as the request it makes: method, data,
whether it goes through `Send`, into a file or from one, what its result is made
of.  **`CurlOptions`** has the options of a handle and what every setter of
`WebClient` does to them.  **`CurlHandle`** puts the two together: a state is the
options and the last call with its request and outcome; an action is a call of
the API with any answer, or the move of the object.  Any call may follow any
other.  An answer is complete, cut after its status, an error or none, and to a
call that sends data also "broken": the connection breaks while the body goes out,
with an error in whose text `Status` finds "32" or "PIPE" and which it takes for a
success (`webclient.cpp:445-457`).

### Bytes and formats

**`Digests`** is what is fed to a hash: lengths in blocks, padding, keys of keyed
hashes, with the rounds on a block an uninterpreted injective function.
**`Streams`** is one transfer of bytes in pieces: the callbacks that give libcurl the body
and the loop that hashes a file, over a file that may be cut between two reads.

**`Signing`** is what is signed of a request and of a URL, which headers go out
with it, `SendS3Request`, and what a server recomputes from what it receives.
Texts are records; HMACs are uninterpreted.  `RequestAccepted` and `UrlAccepted`
say which requests and URLs have to be accepted, and that one that is accepted is
what the caller asked for.  **`Settings`** is the file of
credentials line by line and the lists of parameters and headers.
**`Responses`** is what the regular expressions find in the headers of an answer,
over texts cut into words and marks.  **`XmlDocs`** is documents as sequences of
elements in document order, the element streams that make them, their text, the
lookups by path, and what `xml_parser.cpp` makes of them.  **`MCAlgorithms`**
takes the inputs of these one by one and compares with references; **`MCFormats`**
has them and the streams side by side.

### What a process has once

**`CurlEnv`** is the life of libcurl: constructors (`LockToInit`, `GlobalInit`,
`Count`, `EasyInit` and their failures), the move constructor (`MoveHandle`), and the
destructor
(`EasyCleanup`, before the mutex, then `LockToLeave`, `Discount`,
`GlobalCleanup`), one step for every access to shared state.

**`MCTransfers`** puts `TransferPlan`, `SharedRetries`, `FileParts` and `CurlEnv` side
by side for TLC.  They do not touch each other's state, so that interleaving them
would only multiply states: `shown` is the one that runs in a behaviour, and the
others rest, with nothing planned left and every call and thread over.

## The runs

| Run | Checks | Bounds, and why they are enough |
|---|---|---|
| `upload_core` | `TypeOK`, `ObjectIsSource`, `EtagsStayValid`, `RetryBudget`, `NoJobOutlivesCall`, `FailsOnlyOnFault`, `Terminates`, `ImplementsAtomicUpload`, `ImplementsSharedRetries` | 3 jobs of 2 parts of 7 bytes: a shortened chunk, a shortened part and an empty one, which asks for the whole file; 2 retries, fewer than the jobs, so that they compete for the last one and several give up after it |
| `download_core` | `TypeOK`, `AnsweredPartsAreThere`, `RetriedIsWhole`, `GivesUpOnlyOnFault`, `RetriesNotLost`, `NoJobOutlivesCall`, `Terminates` | versions of 5, 4 and 6 bytes, so that the object is replaced by a shorter one and that by a longer one at any time, 2 jobs of 2 parts, the second parts shorter, `maxRetries` 1, so two retries for two jobs; an error body of one byte |
| `transfers` | `SafeTransfersTile`, `OnlySafeTransfersTile` | every size up to 20 with up to 4 jobs of 4 parts: all remainders, sizes below and above jobs x parts, wraps at both levels |
| | `BudgetPerReset`, `BudgetSinceReset`, `AloneSpendsAll`, `Terminates` | 3 calls with budgets 2, 1 and 1, a job each: a call that resets the counter of two others, and a small budget that finds the counter spent by a large one; more jobs only repeat `AttemptFails` |
| | `OnlyUnbufferedStrays`, `OwnBytes`, `DescriptorsAccounted`, `PartsTerminate` | 2 threads, 3 descriptors, 2 attempts, every combination of modes: the descriptor closed twice is given to the other thread, attempts leave descriptors open until none is free |
| | `HandlesNeedLibrary`, `CleanedUp` | 3 objects: one that leaves, one that stays and one that comes; 2 failed constructions |
| `handle` | `MethodKept`, `BodyIsOwn`, `OwnBuffers`, `ReturnsAnswered`, `ResultIsOwnAnswer` | every sequence of calls, as the options are finite; 2 values of data, to tell those of one call from those of another |
| `formats` | `BodyIsRange`, `HashIsOfFile` | files of up to 13 bytes, blocks of 4 with a length of 2, pieces of 8, and room for up to 3 bytes: ends before, at and after the end of a block and of a piece, and in the bytes of the length |
| | `DigestsAreStandard`, `SettingsRead`, `SignatureVerifies`, `RecordsRead`, `AnswersRead` | keys and data of up to 11 bytes, almost three blocks; files of up to 5 lines of 8 kinds: two sections with two keys each need 6, one of them alone 3; lists, documents and answers of up to 3 elements: one before and one behind any; every request with up to 5 headers |

`Word` is 1000 in the transfers: larger than any sum that does not wrap, so that
a wrapped difference is, as in the program, larger than any size.
Deadlock is checked in all of these; an explicit `Over`, `PartsRest` or `Ended` step,
or one that keeps a plan that is complete or a sample that cannot grow, stands for
what is over and done.  The runs below that sample inputs do not check it.

The runs that end in a violation each state what the repository says of itself
and show the code doing something else:

| Run | What is claimed | What the code does |
|---|---|---|
| `upload_small_file` | the transfer test: an upload that returned is the data | `upload.cpp:103` wraps: with 9 bytes, 2 jobs and 4 parts job 0 sends 2 + 2 + 1 + 2 bytes and job 1 sends 1 + 1 + 1 + 1: two bytes twice, and the object has 11 |
| `download_swallows` | the transfer test: a download that returned is the data | `download.cpp:130`: `wait()` does not rethrow; the file holds the text of the errors |
| `download_retries` | `s3-client.h:117`: `maxRetries` is the "maximum number of retries" | `download.cpp:64`: `retriesG++ > maxRetries` lets one more through than `retriesG++ < maxRetries` of the upload does |
| `send_functions` | `s3-api.h:362-374`: `Send` with "configurable send and receive functions", the one "generating the data to send" | `s3-api.h:380` sends as usual, and `Config` sets both functions back first |
| `presign_methods` | `apps/presign_url.cpp:71`: "HTTP method: get \| put \| post \| delete" | `aws_sign.cpp:191` signs the method as it is given, and it goes out in upper case |
| `header_names` | `response_parser.h:69`: "Extract and return HTTP header" | `response_parser.cpp:105` finds the name at the end of another: `x-meta-etag: e2` gives the ETag e2 |
| `xml_shift` | `xmlstreams.h`: "An XML subtree is represented as record" | `xml_path.cpp:117` pairs texts by counting: the tags k1 (empty) and k2 = v1, written and read back, give k1 = v1 |

Exceptions that the passing properties name, because the code behaves so
whatever is claimed of it: `MethodKept`, `BodyIsOwn`, `ReturnsAnswered` and
`ResultIsOwnAnswer` say after which calls, or which errors, a handle goes wrong.
The others leave open what the code gets wrong and do not claim it right:
`RetriesNotLost` bounds the retries from below only, `OwnBuffers` allows the
functions of a call's own caller, `SignatureVerifies` says nothing of the
acceptance of a method in lower case in a URL, and `AnswersRead` nothing of an
answer in which a second name ends as the one that is looked for.

### Other disagreements, without a run

Met while modelling; the models do what the code does.

* *Transfers.* A buffer is taken for a file name, by uploads (`upload.cpp:104`,
  against `s3-client.h:159`) and by downloads (`download.cpp:99`, against
  `s3-client.h:166`).  `versionId` is not given to `GetObjectSize`
  (`download.cpp:113`, against `s3-client.h:170`): the object is cut or padded to
  the size of the latest version.  No GET names a version either unless the caller
  does: of an object that is replaced meanwhile the file has parts of both, and
  `Download` returns.  An error body longer than the last part stays behind
  the end of the file (`object.cpp:195`).  An upload whose identifier is missing
  from the answer starts its jobs with an empty one (`multipart_upload.cpp:203`).
  No path aborts a multipart upload: after an exception its parts stay on the
  server.  `cfg.offset` (`s3-client.h:113`) is read by neither transfer.
* *Parts of files.* `maxRetries` 0 sends for ever (`multipart_upload.cpp:109`).
  `UploadFileUnbuffered` and `UploadFileMM` have no default for a size of 0; an
  offset that is not that of a page cannot be mapped.
* *Library.* After a constructor that failed libcurl is never cleaned up
  (`webclient.cpp:478`, against `webclient.h:179`).
* *Handles and requests.* The result of `WebClient::Send` is ignored
  (`s3-api.h:333`), although `s3-api.h:174-176` speaks of send errors; data with a
  method other than PUT and POST sends nothing.  A send error whose text has "32"
  or "PIPE" counts as a success (`webclient.cpp:445-457`), and a put that broke so
  returns when its status is one of a success.
  `HeadObject` and the `GetObject` into a pointer build the `versionId` parameter
  and do not send it; `PutFileObject` does not use its offset; `HeadBucket` parses the
  body of an
  answer that has none.  `GetObject` refuses a body that fills the buffer
  exactly (`object.cpp:147`).
* *`SendS3Request`.* `ValidateConfig` accepts methods in any case
  (`s3-client.cpp:73-77`), but `head`, `delete` and `post` in lower case send a GET; a GET with
  data sends a PUT, signed as a GET.
* *Signing.* The test of `SignedURL` for `x-amz-` headers is inverted
  (`aws_sign.cpp:148`): they are canonical but not signed, so that a URL with one is
  refused, although the comment at `aws_sign.cpp:128-129` says that those with
  x-amz-meta "work without adding to signed headers".  A key that has to be escaped,
  and a signed header without a value, make the signature wrong.
* *Hashes.* A key longer than a block is hashed over the length of the data
  (`hmac256.cpp:72`); the one-shot `md5()` does not pad; `sha256_next` pads one
  buffer and feeds another; the hash of an empty file ends the program.
* *Credentials.* Keys under a nested one get the prefix of the first; keys before the first
  section end up in it; a section that is there twice counts once.
* *Answers.* As an ETag may come from metadata, the size of an object may be
  taken from metadata whose name ends in "length".  An ETag in front of which there
  is `&#34;` loses its last five characters, whatever they are.
  `ParseObjects` never finds the flag of a truncated list.
  `ParseListObjectVersions` looks for paths in mixed case in a dictionary in
  lower case and is always empty.
* *XML written.* Texts are not escaped.  `GenerateAclXML` puts the owner inside the
  list, writes its name as its id, nests the second grant in the first, and
  moves the permission out of a grant whose grantee is empty.

## Fairness

* *Transfers.* `FairSpec` assumes that a thread that can run does, and that
  a request is answered or fails in the end.  The first is the operating system's
  promise; jobs are independent threads (or are run by the calling thread), so weak
  fairness per job is enough: no job waits for another.  The second is *not*
  enforced by the code, which sets no timeout on a handle; it is the assumption
  under which `Terminates` holds, and the retries being finite is what the property
  is about.  No fairness is assumed of late messages, failures, or other clients.
* *`SharedRetries`.* The same: every call starts, every job goes on, a call whose jobs
  are over ends.  The counter being set back may prolong a call; that it cannot do
  so for ever is because only so many calls start.
* *`FileParts`.* Every thread goes on (`PartsFairSpec`); opening a file may fail as often as it
  likes, the attempts are finite.
  `TransfersSpec` has the fairness of both.
* The others state no liveness: `std::mutex` is not fair, a handle waits for its
  caller, and the algorithms are functions.

## What is proved

All theorems are for every value of the constants, under the assumptions of the
modules: at least one job and one part, sizes in the range of `size_t`
(`CallAssumption`: `FileSize + Jobs + PartsPerJob <= Word`, so that the roundings
up do not wrap; `DownloadAssumption`: the same with every version of the object;
`BoundsAssumption`: the same for all the sizes of `TransferPlan`),
distinct null values (`NullAssumption`, `DataAssumption`), a finite set of objects
(`ClientsAssumption`), budgets that are numbers (`RetriesAssumption`), descriptors
that are numbers and at least one attempt (`FilesAssumption`), blocks that have
room for the length and an even number of bytes (`DigestAssumption`), and pieces of
whole blocks (`StreamAssumption`).  The bounds of the samples are numbers
(`SamplesAssumption`).  The specifications proved about are `Spec`
(`LibrarySpec` in `CurlEnv`, `PartsSpec` in `FileParts`, `SplitSpec` in
`TransferPlan`, `SampleSpec` in `MCAlgorithms`), without fairness, which the
`FairSpec` of the runs implies.  `TransfersSpec` and `FormatsSpec` of the runs
`transfers` and `formats` have the behaviours of these, one component moving and the
others standing still in a state that theirs allow.

* **`PartitionProofs`.** `PiecesTile`: if piece `n - 1` starts inside, the pieces
  follow each other and end at the end.  `BigEnoughFits`: `(n - 1)^2` bytes are
  enough for that; the transfers of the tests, megabytes in a few parts, are far
  above.  The products are handled by three small lemmas on multiples; the size of a
  piece is bounded from the definition of `\div`.
* **`TransferPlanProofs`.** The loop of a job adds to its offset what a part has, so
  the offset is not a formula of the part but of all parts before it.  `Reached`
  says how far `k` parts of a chunk reach: to the start of part `k` as long as none
  has wrapped, and beyond the chunk from the wrapping one on.  `PlanInv` has the
  offset of every job there, the ranges that were made in their order, and every
  chunk that is done ending at the next one exactly when none of its parts wrapped.
  From it both directions: `SafeTransfers` (a split that does not wrap tiles the
  object) and `OnlySafeTransfers` (one that wraps never does).
* **`ParallelUploadProofs`.** `TypeCorrect`: `TypeOK` is not inductive alone, since
  `i[j] + 1` is in range only when the job has a part left; `Progress` says so.
  `RetriesBounded`: `RetryInv` ties the counter to the attempts granted and to the
  jobs that gave up: the counter may exceed the budget by one for each of them,
  which a bound alone would not carry over a step.  The lemma `NextRetries` reduces
  every step to `Caught` or to nothing.  `CallQuiescent`: no thread outlives the
  call, and a serial call runs its jobs in order.  `UploadIsOneCall`: the call
  implements `SharedRetries` for a single call, every failing attempt being
  `AttemptFails`.  It rests on `QuiescenceInv` (a job fails only while its call
  runs) and on `NothingDrawn` (the counter is 0 before the call has a job, so that
  setting it back changes nothing).  For splits that do not wrap (`Safe`),
  `IntegrityInv` says that every job is where the plan has it, that what it has
  collected, what the server stores and what is still on its way are all parts of
  one `Plan`, and that the object is nothing or the plan.  A request that arrives
  late then writes what is there already: that is why sending a part twice is
  harmless.  From it `UploadIntact` (with `PlanTiles`: the plan is the whole
  source), `EtagsValid`, `UploadFailsOnlyOnFault` (a part of the plan that is not
  empty can always be read, so that a job that gives up without a fault has an empty
  one) and `UploadIsAtomic`, the refinement of `AtomicUpload` step by step.
* **`SharedRetriesProofs`.** `RetriesInv`: since the last reset a call was granted
  no more than the counter shows and than its budget; all it was granted is that and
  one budget for each reset before; and a call that was never together with another
  sees only its own attempts in the counter.  From it `BudgetHeldBetweenResets`,
  `RetriesBounded` and `AloneSpendsItsBudget`.
* **`ParallelDownloadProofs`.** `TypeCorrect` also covers the download of an object
  whose size is unknown, where the whole split wraps (`SplitWords`); the lemma
  `WriteEffect` says what one write leaves in the file.  `RetriesBounded`:
  `RetryInv` again, with a budget that is one larger than that of the upload: no job
  gives up before `maxRetries` attempts were made again, and at most one more is
  made.
  `CallQuiescent`: `WaitInv`, the caller is past a job only when it has ended.
  `DownloadIsOneCall` is the same of a download, by `WaitInv`.
  The rest is about plain downloads (`Plain`: the size was that of some version, the
  split wraps nowhere and leaves no part empty) of an object that is replaced any
  number of times, by objects of any sizes.  The lemmas `PartsDisjoint` and
  `PartsCover` lift `PiecesApart` and `PiecesCover` to the two levels of the split.
  `PlainInv` has every job at its part, so that `AnswerOfPart`: what the server
  answers is that part of one version, as far as it has it; from it `GivesUpOnFault`,
  whose premise, no version served is shorter than the size read, is what a range
  needs to be answered.  `Intact` says that the file is no shorter than it was made
  and holds every part answered in full from *one* of the versions served: a
  write never ends behind the part it is for, unless it is a whole object (the
  request of a single first byte has no range header), so the writes of failed
  attempts and of the other jobs cannot harm it.  From it `AnsweredPartsStay`, and
  with `WaitInv` and `PartsCover` `DownloadIsWhole`: the file may be torn between
  parts, since no GET names a version, but no part is, and if one version was served
  with the size read it is that version.
* **`WebClientProofs`**, three parts.
  *The library* (`CurlEnv`).  `EnvInv`: the mutex is held exactly by the object that
  is inside, the counter is the number of objects counted plus the failed ones, and
  the library is up exactly when the counter is positive or the holder of the mutex
  is about to count or has just discounted.  From it `LibraryOutlivesHandles` and
  `LibraryCleanedUp`.
  *The handle* (`CurlHandle`), for any set of data.  `HandleInv` is the conjunction
  of the five properties with `OptInv`, which says what the options remember: the
  custom name is that of one of the calls made, no body is refused without a HEAD
  before, and the headers of the answer go to the object itself unless it was moved.
  Every call starts from `Clear`, so one lemma per kind of request says what it
  makes of any options, and the step follows from `OptInv`.  From it `MethodsKept`,
  `BodiesAreOwn`, `BuffersAreOwn`, `ReturnsAreAnswered` and `ResultsAreOwn`.
  *Parts of files* (`FileParts`).  `FilesInv`: as long as nobody has closed another's
  descriptor, every thread that holds a number has it in the table, and only an
  unbuffered attempt is between its two closes.  That `Open` finds a lowest free
  number is from the well-foundedness of the order.  From it `StraysAreUnbuffered`,
  `PartsAreOwn` and `DescriptorsUsed`.
* **`AlgorithmsProofs`**, four parts.
  *Bodies and digests* (`Streams`, `Digests`).  `BodyInv`: what has gone out is the
  range so far, as long as the file is not cut below a mapping.  `HashInv`: before
  the last piece whole blocks of the file have been fed, after it the standard
  padding of what was read.  It rests on the padding of a message of any length
  (`PaddedIsStandard`; the number of zeros is unique among a block's), which also
  gives `OneShotIsStandard` and, with two such messages one inside the other,
  `KeyedHashIsFormula`; from these `DigestsStandard`, the property of the run for
  every block and every length.  From the invariants `BodiesAreRanges` and
  `FilesAreHashedWhole`.
  *The signatures* (`Signing`), for any texts and any function of headers, where the
  run has one text for each field.  `SignTellsTexts` cancels the key; `WhatIsSigned`
  and `WhatArrives` compute the headers on both sides, and `MethodIsSent` the
  method.  From them `RequestsVerify` and `UrlsVerify`, and `SignaturesVerify` for
  the samples of the run.

  *Credentials and lists* (`Settings`).  The readers go through their lines and
  texts by recursive functions, each given by its value before.  That there is such
  a function for a list of any length is `LinesReadAre`, `PairsReadAre`, `StartsAre`: its
  beginnings exist one after the other, by `Upwards` (a set of numbers that has 0
  and with every number up to the bound the next has all of them), which needs no induction
  theorem with an operator in it.  The same lemma carries the invariants over the
  lines.  `FileInv`: every key and value of a section was made of lines below
  its header; `ReadPlain` says, for a file in which no line is nested or out of
  place, that every pair so far is kept in its section.  For lists, `Placed` says where the text of every pair is in the
  joined text, so that `PiecesAreSplit`: splitting finds the pairs again.  From these
  `SettingsAreRead`.
  *Headers of answers* (`Responses`).  `Laid` says where every header is in the text
  of the answer: that its name ends at `at[n]`, that its value is behind two signs,
  that names follow in order, and that what is sought is nowhere but at the end
  of a name.  `ScanInv` is what the search has found up to a character: the last value of
  every length so far, and no length ahead is in what was consumed.  It is not enough that
  the search finds the headers: a header without a value takes the name of the next
  one for it, so the invariant says that this never takes a length.  From it
  `SizeIsRead`; `ETagIsRead` takes the first place of the other search.  From both
  `AnswersAreRead`.

* **`DocumentsProofs`** is about `XmlDocs`, with documents of any size.  Its functions
  (the path of an element, the elements visited, what is written and read, the tags
  and grants added one by one) are recursive, over numbers or over parents; each is
  first given by its value one step before, by `Upwards` again.
  *Written and read.*  `BeginsAs` and `ReadSoFar` run over the elements: what is
  written up to element `k` begins the text, and once it is read the document so far
  is there and `k` is the current element.  The end tags between two elements are
  those up to the element around the second (`EndTagsTaken`), which the order of a
  document makes one of those around the first.  From it `WrittenDocumentsAreRead`.
  *Tables.*  A record of an answer is a row: elements of one shape, each below the
  element around the list or another of its row.  `TableIsLaid`, by induction over the
  rows, says where every row is; `SubPathsAre` and `ColumnIsRead` that the dictionary
  has, below the path of the rows, exactly one list of texts for every place in which
  some row has a text, in the order of the rows; and `RecordsAre` that for rows that
  have texts in the same places (`Even`) counting gives the rows back, with nothing
  under other paths.  Listings, buckets, the grants of an answer and the tags of a
  request are such tables, of one shape each; buckets whose names and dates differ in
  number are noticed without being even.  The ids of owners, looked up under each
  object, need no such evenness either.  A grant that is sent is a table of one row,
  in one of three shapes, behind the owner.  `RecordsInv` carries to `SampleSpec` that
  samples are lists of such records, and `RecordsAreRead` follows.

Only model-checked: termination, which rests on fairness, and downloads whose size is
unknown, whose split leaves parts empty or whose error bodies are longer than a part.
The library's induction theorems cannot be used with these provers; where a proof
needs an induction it goes through `Upwards`, which speaks of a set of numbers.

## What is not modelled, and why

* Third-party code and experiments: `dep/tinyxml2` (a copy of the library and a
  second one that ignores case, together almost half of the lines under `src`)
  is modelled by the documents it holds, and `scratch` (earlier hashes and trials,
  not built into the library) not at all.  `apps` parse a command line, make one
  call and print.
* The rounds of SHA-256 and MD5 on one block, which are bit arithmetic and best tested with
  vectors; a hash of a block is an uninterpreted value of what it has seen.
* `ValidateBucket` (called by nothing; it accepts only names of lower-case
  letters, eight or more, and throws `out_of_range` for shorter ones) and the checks
  `ValidateConfig` makes of a command line; `ParseURL`, which takes an endpoint
  apart; `ToMeta`, `MetaDataHeaders`, `XMLTags`, `CreatePath`,
  `ParseXMLPathElementsText`, which the library does not call.
* Indentation, attributes and templates of XML text, which no generator uses.
* The copy of a body into a caller's buffer (`object.cpp:140-165`), which has no state;
  its bound is among the disagreements.
* Timeouts: none is set.  The failure of the constructor of `S3Api` inside a job;
  a write that fails because the disk is full (it has the effect of `PartCut`;
  `WriteFile` does not report it); a file that changes its bytes, and not only its
  length, while it is uploaded.
* An abort of the multipart upload racing with its parts: `Upload` never aborts, and the
  server's answer to it is the only state there would be.

## Plan

What is left, most important first: an abstract specification of a handle, one
made for each request, which `CurlHandle` implements between two sticky calls; what a
download leaves when a part is empty; the calls of `AbortMultipartUpload` against
late parts.
