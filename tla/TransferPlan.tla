---------------------------- MODULE TransferPlan ----------------------------
(***************************************************************************)
(* The byte ranges a transfer asks for, job by job and part by part, in    *)
(* the order of the part numbers: the loops of UploadParts and             *)
(* DownloadParts, with the offset they keep by adding up the sizes.        *)
(***************************************************************************)
EXTENDS Partition

CONSTANTS MaxTotal,   \* bounds of the transfers explored
          MaxJobs,
          MaxParts

ASSUME BoundsAssumption ==
  /\ MaxTotal \in Nat /\ MaxJobs \in Nat \ {0} /\ MaxParts \in Nat \ {0}
  /\ Word \in Nat /\ Word > MaxTotal + MaxJobs + MaxParts

VARIABLES total, jobs, parts,  \* the object's size, cfg.jobs, cfg.partsPerJob
          jobId, i,            \* the job and its loop variable
          offset,              \* UploadParts' running offset
          ranges               \* the ranges asked for so far, by part number

splitVars == <<total, jobs, parts, jobId, i, offset, ranges>>

SplitInit ==
  /\ total \in 0 .. MaxTotal
  /\ jobs \in 1 .. MaxJobs
  /\ parts \in 1 .. MaxParts
  /\ jobId = 0 /\ i = 0 /\ ranges = <<>>
  /\ offset = PieceFrom(total, jobs, 0)

\* One turn of the loop over the parts of a job.
NextPart ==
  LET size == PartLen(total, jobs, parts, jobId, i) IN
  /\ i < parts
  /\ ranges' = Append(ranges, [from |-> offset, size |-> size])
  /\ offset' = offset + size
  /\ i' = i + 1
  /\ UNCHANGED <<total, jobs, parts, jobId>>

\* The next job starts at its own chunk, whatever the previous one covered.
NextJob ==
  /\ i = parts /\ jobId + 1 < jobs
  /\ jobId' = jobId + 1
  /\ i' = 0
  /\ offset' = PieceFrom(total, jobs, jobId + 1)
  /\ UNCHANGED <<total, jobs, parts, ranges>>

SplitNext == NextPart \/ NextJob

SplitSpec == SplitInit /\ [][SplitNext]_splitVars

-----------------------------------------------------------------------------

Planned == i = parts /\ jobId + 1 = jobs

SplitTypeOK ==
  /\ total \in 0 .. MaxTotal /\ jobs \in 1 .. MaxJobs /\ parts \in 1 .. MaxParts
  /\ jobId \in 0 .. jobs - 1 /\ i \in 0 .. parts
  /\ offset \in Nat
  /\ ranges \in Seq([from : Nat, size : Nat])

(* A transfer whose split wraps nowhere reads and writes every byte of the *)
(* object exactly once, in the order of the part numbers: the pieces that  *)
(* UploadParts and DownloadParts compute independently in every job meet.  *)
SafeTransfersTile ==
  Planned /\ SafeSplit(total, jobs, parts) => Tiles(ranges, total)

(* The condition is the weakest: as soon as one subtraction of the split   *)
(* wraps, the parts no longer make up the object.                          *)
OnlySafeTransfersTile ==
  Planned /\ Tiles(ranges, total) => SafeSplit(total, jobs, parts)
=============================================================================
