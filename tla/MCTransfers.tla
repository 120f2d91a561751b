---------------------------- MODULE MCTransfers ----------------------------
(***************************************************************************)
(* What the transfers of a process share, besides the object: the split    *)
(* that each of their jobs computes for itself (TransferPlan), the counter *)
(* of retries (SharedRetries), the table of descriptors (FileParts) and    *)
(* libcurl (CurlEnv).  These do not touch each other's state, so a         *)
(* behaviour is one of one of them, and the others rest.                   *)
(***************************************************************************)
EXTENDS TransferPlan, SharedRetries, FileParts, CurlEnv

\* Two large budgets and a small one: the call of the small one starts the
\* counter anew under the large ones, and finds it spent by them.
MCCalls   == 1 .. 3
MCBudgets == [c \in MCCalls |-> IF c = 1 THEN 2 ELSE 1]

VARIABLE shown   \* the one that runs

transfersVars == <<splitVars, vars, partsVars, libraryVars, shown>>

-----------------------------------------------------------------------------
(* At rest: an object of one part is planned, the calls and the threads    *)
(* are over, there is no object with a handle.                             *)

SplitRests ==
  /\ total = 1 /\ jobs = 1 /\ parts = 1 /\ jobId = 0 /\ i = 1 /\ offset = 1
  /\ ranges = <<[from |-> 0, size |-> 1]>>

RetriesRest ==
  /\ state = [c \in Calls |-> "over"]
  /\ job = [c \in Calls |-> [j \in JobIds |-> "done"]]
  /\ retriesG = 0
  /\ granted = [c \in Calls |-> 0] /\ sinceLast = [c \in Calls |-> 0]
  /\ resets = [c \in Calls |-> 0] /\ shared = [c \in Calls |-> FALSE]

PartsAreSent ==
  /\ mode = [t \in Threads |-> "BUFFERED"]
  /\ stage = [t \in Threads |-> "done"]
  /\ fd = [t \in Threads |-> Lowest(Fds)]
  /\ tryNum = [t \in Threads |-> 1]
  /\ table = [f \in Fds |-> Free]
  /\ sent = [t \in Threads |-> "answered"] /\ part = [t \in Threads |-> "own"]
  /\ spoilt = {} /\ leaked = {} /\ stray = FALSE /\ mapped = {}

TransfersInit ==
  /\ shown \in {"split", "retries", "parts", "library"}
  /\ IF shown = "split"   THEN SplitInit ELSE SplitRests
  /\ IF shown = "retries" THEN Init      ELSE RetriesRest
  /\ IF shown = "parts"   THEN PartsInit ELSE PartsAreSent
  /\ LibraryInit

SplitMoves ==
  /\ shown = "split"
  /\ SplitNext \/ (Planned /\ UNCHANGED splitVars)
  /\ UNCHANGED <<vars, partsVars, libraryVars, shown>>

RetriesMove ==
  shown = "retries" /\ Next /\ UNCHANGED <<splitVars, partsVars, libraryVars, shown>>

PartsMove ==
  shown = "parts" /\ PartsNext /\ UNCHANGED <<splitVars, vars, libraryVars, shown>>

LibraryMoves ==
  shown = "library" /\ LibraryNext /\ UNCHANGED <<splitVars, vars, partsVars, shown>>

TransfersNext == SplitMoves \/ RetriesMove \/ PartsMove \/ LibraryMoves

\* The fairness of SharedRetries and of FileParts; an object with a handle waits
\* for its owner.
TransfersSpec ==
  /\ TransfersInit /\ [][TransfersNext]_transfersVars
  /\ \A c \in Calls : WF_vars(Start(c)) /\ WF_vars(CallEnds(c))
  /\ \A c \in Calls, j \in JobIds : WF_vars(JobStep(c, j))
  /\ \A t \in Threads : WF_partsVars(PartStep(t))
=============================================================================
