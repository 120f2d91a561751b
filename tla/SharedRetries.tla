---------------------------- MODULE SharedRetries ----------------------------
(***************************************************************************)
(* Several calls of Upload in threads of one process: their jobs draw on   *)
(* one counter of retries (lib/src/upload.cpp:48), which every call sets   *)
(* back to 0 when it starts, whoever is running then.  A job is what is    *)
(* left of it for the counter: it ends, or one of its attempts fails.      *)
(* ParallelUpload implements one call of it.  So does ParallelDownload,    *)
(* with a budget that is one larger, on a counter of its own.              *)
(***************************************************************************)
EXTENDS Naturals

CONSTANTS
  Calls,      \* the calls of Upload
  JobIds,     \* the jobs of each
  MaxRetries  \* cfg.maxRetries of every call

ASSUME RetriesAssumption == MaxRetries \in [Calls -> Nat]

VARIABLES
  state,     \* what every call is doing
  job,       \* what its jobs are doing
  retriesG,  \* the counter
  granted,   \* history: attempts made again, by call
  sinceLast, \* history: those since the counter was set back
  resets,    \* history: how often it was while the call ran
  shared     \* history: the call has run while another did

vars == <<state, job, retriesG, granted, sinceLast, resets, shared>>

Running   == {c \in Calls : state[c] = "running"}
JobOf(c, j, s) == job' = [job EXCEPT ![c] = [@ EXCEPT ![j] = s]]

Init ==
  /\ state = [c \in Calls |-> "before"]
  /\ job = [c \in Calls |-> [j \in JobIds |-> "idle"]]
  /\ retriesG = 0
  /\ granted = [c \in Calls |-> 0] /\ sinceLast = [c \in Calls |-> 0]
  /\ resets = [c \in Calls |-> 0]
  /\ shared = [c \in Calls |-> FALSE]

\* Variant: a call goes on with the counter as it is.
StartKeeping(c) ==
  /\ state[c] = "before"
  /\ state' = [state EXCEPT ![c] = "running"]
  /\ shared' = [d \in Calls |-> \/ shared[d]
                                \/ d \in Running
                                \/ d = c /\ Running # {}]
  /\ UNCHANGED <<job, granted, retriesG, sinceLast, resets>>

\* retriesG = 0 at the start of UploadFile and of UploadData.
SetBack(c) ==
  /\ retriesG' = 0
  /\ sinceLast' = [d \in Calls |-> 0]
  /\ resets' = [d \in Calls |-> IF d \in Running THEN resets[d] + 1 ELSE resets[d]]
  /\ shared' = [d \in Calls |-> \/ shared[d]
                                \/ d \in Running
                                \/ d = c /\ Running # {}]

Start(c) ==
  /\ state[c] = "before"
  /\ state' = [state EXCEPT ![c] = "running"]
  /\ SetBack(c)
  /\ UNCHANGED <<job, granted>>

\* The call throws before it has a job (the file cannot be opened, no upload is
\* created): the counter of the others has been set back all the same.
StartFails(c) ==
  /\ state[c] = "before"
  /\ state' = [state EXCEPT ![c] = "over"]
  /\ SetBack(c)
  /\ UNCHANGED <<job, granted>>

JobStarts(c, j) ==
  /\ state[c] = "running" /\ job[c][j] = "idle"
  /\ JobOf(c, j, "send")
  /\ UNCHANGED <<state, retriesG, granted, sinceLast, resets, shared>>

JobEnds(c, j) ==
  /\ state[c] = "running" /\ job[c][j] = "send"
  /\ JobOf(c, j, "done")
  /\ UNCHANGED <<state, retriesG, granted, sinceLast, resets, shared>>

\* Variants: one retry more than the budget, and an attempt that is made again
\* from the start without being counted.
AttemptFailsLate(c, j) ==
  /\ state[c] = "running" /\ job[c][j] = "send"
  /\ retriesG' = retriesG + 1
  /\ IF retriesG <= MaxRetries[c]
       THEN /\ granted' = [granted EXCEPT ![c] = @ + 1]
            /\ sinceLast' = [sinceLast EXCEPT ![c] = @ + 1]
            /\ UNCHANGED job
       ELSE /\ JobOf(c, j, "failed")
            /\ UNCHANGED <<granted, sinceLast>>
  /\ UNCHANGED <<state, resets, shared>>
AttemptUncounted(c, j) ==
  /\ state[c] = "running" /\ job[c][j] = "send"
  /\ JobOf(c, j, "idle")
  /\ UNCHANGED <<state, retriesG, granted, sinceLast, resets, shared>>

\* if (retriesG++ < maxRetries) send the part again; else throw e;
AttemptFails(c, j) ==
  /\ state[c] = "running" /\ job[c][j] = "send"
  /\ retriesG' = retriesG + 1
  /\ IF retriesG < MaxRetries[c]
       THEN /\ granted' = [granted EXCEPT ![c] = @ + 1]
            /\ sinceLast' = [sinceLast EXCEPT ![c] = @ + 1]
            /\ UNCHANGED job
       ELSE /\ JobOf(c, j, "failed")
            /\ UNCHANGED <<granted, sinceLast>>
  /\ UNCHANGED <<state, resets, shared>>

\* The call returns or throws when no job of it is running; a job that was
\* never started never is.
CallEnds(c) ==
  /\ state[c] = "running" /\ \A j \in JobIds : job[c][j] # "send"
  /\ state' = [state EXCEPT ![c] = "over"]
  /\ UNCHANGED <<job, retriesG, granted, sinceLast, resets, shared>>

AllOver == \A c \in Calls : state[c] = "over"
Over == AllOver /\ UNCHANGED vars

JobStep(c, j) == JobStarts(c, j) \/ JobEnds(c, j) \/ AttemptFails(c, j)
Next ==
  \/ Over
  \/ \E c \in Calls : Start(c) \/ StartFails(c) \/ CallEnds(c)
  \/ \E c \in Calls, j \in JobIds : JobStep(c, j)

Spec == Init /\ [][Next]_vars

\* Jobs run; a call that has been made starts and ends.
FairSpec ==
  /\ Spec
  /\ \A c \in Calls : WF_vars(Start(c)) /\ WF_vars(CallEnds(c))
  /\ \A c \in Calls, j \in JobIds : WF_vars(JobStep(c, j))

-----------------------------------------------------------------------------
(* Properties                                                              *)

TypeOK ==
  /\ state \in [Calls -> {"before", "running", "over"}]
  /\ job \in [Calls -> [JobIds -> {"idle", "send", "done", "failed"}]]
  /\ retriesG \in Nat
  /\ granted \in [Calls -> Nat] /\ sinceLast \in [Calls -> Nat]
  /\ resets \in [Calls -> Nat]
  /\ shared \in [Calls -> BOOLEAN]

\* A call that runs with others gets its budget once more for each of them that
\* starts in its time, and no more: whoever interferes, its retries are bounded.
BudgetPerReset ==
  \A c \in Calls : granted[c] <= MaxRetries[c] * (resets[c] + 1)

\* What the calls have been granted since the counter was set back is in the
\* counter: none of them gets more than its own budget from one reset to the
\* next, whatever the budgets of the others are.
BudgetSinceReset ==
  \A c \in Calls : sinceLast[c] <= MaxRetries[c] /\ sinceLast[c] <= retriesG

\* A call that ran alone has had exactly its own budget when one of its jobs
\* gives up.
AloneSpendsAll ==
  \A c \in Calls :
    ~shared[c] /\ (\E j \in JobIds : job[c][j] = "failed") => granted[c] = MaxRetries[c]

\* The calls end: there are only so many that can set the counter back.
Terminates == <>AllOver
=============================================================================
