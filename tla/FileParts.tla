------------------------------ MODULE FileParts ------------------------------
(***************************************************************************)
(* Threads of one process that send parts of files with UploadFilePart     *)
(* (lib/src/api/multipart_upload.cpp), each with one of the three ways of  *)
(* reading of WebClient::UploadFile, UploadFileUnbuffered and UploadFileMM *)
(* (lib/src/webclient.cpp): what they share is the table of descriptors of *)
(* the process, where the lowest free number is the one opened next.       *)
(***************************************************************************)
EXTENDS Naturals

CONSTANTS
  Threads,   \* the threads, one part each
  Fds,       \* the descriptors the process may have
  MaxTries,  \* the argument maxRetries of UploadFilePart
  Free       \* no thread: the descriptor is not in use

ASSUME FilesAssumption ==
  /\ Fds \subseteq Nat /\ Fds # {}
  /\ MaxTries \in Nat \ {0}
  /\ Free \notin Threads

Modes == {"BUFFERED", "UNBUFFERED", "MEMORY_MAPPED"}

VARIABLES
  mode,     \* the argument iomode of every thread
  stage,    \* where every thread is in its attempt
  fd,       \* the descriptor of its attempt
  tryNum,   \* the number of the attempt
  table,    \* the thread that has opened a descriptor
  spoilt,   \* the threads whose file another has read, and moved on in
  sent,     \* how the request of the attempt went
  part,     \* the bytes the server has for every part
  leaked,   \* history: descriptors left open by an attempt
  stray,    \* history: a thread has closed what another had opened
  mapped    \* memory mappings that are not undone

partsVars == <<mode, stage, fd, tryNum, table, spoilt, sent, part, leaked, stray, mapped>>

-----------------------------------------------------------------------------
FreeFds    == {f \in Fds : table[f] = Free}
Lowest(S)  == CHOOSE f \in S : \A g \in S : f <= g

\* Any way of closing: nothing happens when the number is not in use, and
\* whoever has opened it loses it when it is.
Close(t) ==
  /\ table' = [table EXCEPT ![fd[t]] = Free]
  /\ stray' = (stray \/ table[fd[t]] \notin {t, Free})

\* Variant of catch: a failure is not counted.
CaughtUncounted(t) ==
  IF tryNum[t] = MaxTries /\ MaxTries = 1
    THEN stage' = [stage EXCEPT ![t] = "threw"] /\ UNCHANGED tryNum
    ELSE stage' = [stage EXCEPT ![t] = "open"] /\ UNCHANGED tryNum

\* catch: if (tryNum == maxRetries) throw; else the same with ++tryNum.
Caught(t) ==
  IF tryNum[t] = MaxTries
    THEN stage' = [stage EXCEPT ![t] = "threw"] /\ UNCHANGED tryNum
    ELSE stage' = [stage EXCEPT ![t] = "open"] /\ tryNum' = [tryNum EXCEPT ![t] = @ + 1]

-----------------------------------------------------------------------------
PartsInit ==
  /\ mode \in [Threads -> Modes]
  /\ stage = [t \in Threads |-> "open"]
  /\ fd \in [Threads -> {Lowest(Fds)}]
  /\ tryNum = [t \in Threads |-> 1]
  /\ table = [f \in Fds |-> Free]
  /\ spoilt = {}
  /\ sent = [t \in Threads |-> "no"]
  /\ part = [t \in Threads |-> "none"]
  /\ leaked = {} /\ stray = FALSE /\ mapped = {}

\* fopen, open
Open(t) ==
  /\ stage[t] = "open" /\ FreeFds # {}
  /\ LET f == Lowest(FreeFds) IN
       /\ fd' = [fd EXCEPT ![t] = f]
       /\ table' = [table EXCEPT ![f] = t]
  /\ spoilt' = spoilt \ {t}
  /\ stage' = [stage EXCEPT ![t] = "seek"]
  /\ UNCHANGED <<mode, tryNum, sent, part, leaked, stray, mapped>>

\* The file, or another descriptor, cannot be opened.
OpenFails(t) ==
  /\ stage[t] = "open"
  /\ Caught(t)
  /\ UNCHANGED <<mode, fd, table, spoilt, sent, part, leaked, stray, mapped>>

\* Variant: what closes the descriptor is passed by value, and gone at once.
SeekClosing(t) ==
  /\ stage[t] = "seek"
  /\ stage' = [stage EXCEPT ![t] = "send"]
  /\ table' = IF mode[t] = "UNBUFFERED" THEN [table EXCEPT ![fd[t]] = Free] ELSE table
  /\ mapped' = IF mode[t] = "MEMORY_MAPPED" THEN mapped \cup {<<t, tryNum[t]>>} ELSE mapped
  /\ UNCHANGED <<mode, fd, tryNum, spoilt, sent, part, leaked, stray>>

\* fseek, lseek, mmap
Seek(t) ==
  /\ stage[t] = "seek"
  /\ stage' = [stage EXCEPT ![t] = "send"]
  /\ mapped' = IF mode[t] = "MEMORY_MAPPED" THEN mapped \cup {<<t, tryNum[t]>>} ELSE mapped
  /\ UNCHANGED <<mode, fd, tryNum, table, spoilt, sent, part, leaked, stray>>

\* UploadFile throws before the FileInfo that closes the stream is there; the
\* others have their CloseFileDesc.
SeekFails(t) ==
  /\ stage[t] = "seek"
  /\ IF mode[t] = "BUFFERED"
       THEN Caught(t) /\ leaked' = leaked \cup {fd[t]} /\ UNCHANGED sent
       ELSE /\ stage' = [stage EXCEPT ![t] = "closeLast"]
            /\ sent' = [sent EXCEPT ![t] = "failed"]
            /\ UNCHANGED <<leaked, tryNum>>
  /\ UNCHANGED <<mode, fd, table, spoilt, part, stray, mapped>>

\* The thread's own bytes: from its mapping, or from a descriptor that nobody
\* else has closed, opened or read from since.
ReadsOwn(t) ==
  mode[t] = "MEMORY_MAPPED" \/ (table[fd[t]] = t /\ t \notin spoilt)
ReadsNothing(t) == mode[t] # "MEMORY_MAPPED" /\ table[fd[t]] = Free

\* Variant: a stream is closed twice too.
AfterSendTwice(t) == IF mode[t] = "MEMORY_MAPPED" THEN "closeLast" ELSE "close"

\* After the request: FileInfo closes once, FileDescInfo before CloseFileDesc.
AfterSend(t) == IF mode[t] = "UNBUFFERED" THEN "close" ELSE "closeLast"

\* UploadFileMM throws before munmap when the transfer fails.
Unmapped(t, result) ==
  IF result = "failed" THEN mapped ELSE mapped \ {<<t, tryNum[t]>>}

\* The request is sent and answered, with a success or with an error.  What
\* was read from another thread's file is missing there.
Send(t, result) ==
  /\ stage[t] = "send" /\ ~ReadsNothing(t) /\ result \in {"answered", "refused"}
  /\ part' = IF result = "refused" THEN part
             ELSE [part EXCEPT ![t] = IF ReadsOwn(t) THEN "own" ELSE "foreign"]
  /\ spoilt' = IF mode[t] # "MEMORY_MAPPED" /\ table[fd[t]] # t
                 THEN spoilt \cup {table[fd[t]]} ELSE spoilt
  /\ sent' = [sent EXCEPT ![t] = result]
  /\ mapped' = Unmapped(t, result)
  /\ stage' = [stage EXCEPT ![t] = AfterSend(t)]
  /\ UNCHANGED <<mode, fd, tryNum, table, leaked, stray>>

\* The request fails, for one because nothing can be read.
SendFails(t) ==
  /\ stage[t] = "send"
  /\ sent' = [sent EXCEPT ![t] = "failed"]
  /\ mapped' = Unmapped(t, "failed")
  /\ stage' = [stage EXCEPT ![t] = AfterSend(t)]
  /\ UNCHANGED <<mode, fd, tryNum, table, spoilt, part, leaked, stray>>

\* ~FileDescInfo, before ~CloseFileDesc
CloseFirst(t) ==
  /\ stage[t] = "close"
  /\ Close(t)
  /\ stage' = [stage EXCEPT ![t] = "closeLast"]
  /\ UNCHANGED <<mode, fd, tryNum, spoilt, sent, part, leaked, mapped>>

\* Variant: the descriptor stays open when the attempt has failed.
CloseWhenSent(t) ==
  /\ stage[t] = "closeLast"
  /\ IF sent[t] = "failed" THEN UNCHANGED <<table, stray>> ELSE Close(t)
  /\ IF sent[t] = "answered"
       THEN stage' = [stage EXCEPT ![t] = "done"] /\ UNCHANGED tryNum
       ELSE Caught(t)
  /\ UNCHANGED <<mode, fd, spoilt, sent, part, leaked, mapped>>

\* ~FileInfo, ~CloseFileDesc; what happened is then looked at: HandleError, or
\* the exception on its way to the catch.
CloseLast(t) ==
  /\ stage[t] = "closeLast"
  /\ Close(t)
  /\ IF sent[t] = "answered"
       THEN stage' = [stage EXCEPT ![t] = "done"] /\ UNCHANGED tryNum
       ELSE Caught(t)
  /\ UNCHANGED <<mode, fd, spoilt, sent, part, leaked, mapped>>

PartsOver == \A t \in Threads : stage[t] \in {"done", "threw"}
PartsRest == PartsOver /\ UNCHANGED partsVars

PartStep(t) ==
  \/ Open(t) \/ OpenFails(t) \/ Seek(t) \/ SeekFails(t)
  \/ \E result \in {"answered", "refused"} : Send(t, result)
  \/ SendFails(t) \/ CloseFirst(t) \/ CloseLast(t)

PartsNext == PartsRest \/ \E t \in Threads : PartStep(t)

PartsSpec == PartsInit /\ [][PartsNext]_partsVars
PartsFairSpec == PartsSpec /\ \A t \in Threads : WF_partsVars(PartStep(t))

-----------------------------------------------------------------------------
(* Properties                                                              *)

Holding(t) == stage[t] \in {"seek", "send", "close", "closeLast"}

\* Types; fd[t] is meant only while the thread holds it.
PartsTypeOK ==
  /\ mode \in [Threads -> Modes]
  /\ stage \in [Threads -> {"open", "seek", "send", "close", "closeLast", "done", "threw"}]
  /\ fd \in [Threads -> Fds]
  /\ tryNum \in [Threads -> 1 .. MaxTries]
  /\ table \in [Fds -> Threads \cup {Free}]
  /\ spoilt \subseteq Threads
  /\ sent \in [Threads -> {"no", "answered", "refused", "failed"}]
  /\ part \in [Threads -> {"none", "own", "foreign"}]
  /\ leaked \subseteq Fds
  /\ stray \in BOOLEAN
  /\ mapped \subseteq Threads \X (1 .. MaxTries)

\* Only a thread that reads without buffers, and closes its descriptor twice,
\* closes what another thread has opened.
OnlyUnbufferedStrays == stray => \E t \in Threads : mode[t] = "UNBUFFERED"

\* Until that has happened, a part the server has is made of the bytes of its
\* own file: no thread reads what another has opened, or loses its place.
OwnBytes == ~stray => \A t \in Threads : part[t] # "foreign"

\* ... and a descriptor is open exactly as long as an attempt uses it, except
\* those that UploadFile leaves open when it cannot move to the part.
DescriptorsAccounted ==
  ~stray =>
    /\ \A t \in Threads : stage[t] \in {"seek", "send", "close"} => table[fd[t]] = t
    /\ \A f \in Fds : table[f] # Free =>
         f \in leaked \/ (Holding(table[f]) /\ fd[table[f]] = f)

\* Every part is sent or given up: failures are counted, and a descriptor that
\* another thread has closed is an error like any other.
PartsTerminate == <>PartsOver
=============================================================================
