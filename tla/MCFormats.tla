----------------------------- MODULE MCFormats -----------------------------
(***************************************************************************)
(* Bytes and formats: a stream of Streams, or a sample of MCAlgorithms,    *)
(* while the other rests.                                                  *)
(***************************************************************************)
EXTENDS Streams, MCAlgorithms

VARIABLE shown   \* which of them it is

StreamRests ==
  /\ way = "sha256_file" /\ size = 0 /\ offset = 0 /\ want = 0
  /\ out = <<>> /\ taken = 0 /\ state = "exit" /\ cut = FALSE

SampleRests == sample = [tag |-> "file", input |-> <<>>]

FormatsInit ==
  \/ shown = "stream" /\ Init /\ SampleRests
  \/ shown = "sample" /\ SampleInit /\ StreamRests

StreamMoves == shown = "stream" /\ Next /\ UNCHANGED <<sample, shown>>

\* A sample that cannot grow, or is not a list, stays.
SampleMoves ==
  /\ shown = "sample"
  /\ SampleNext \/ UNCHANGED sample
  /\ UNCHANGED <<vars, shown>>

FormatsNext == StreamMoves \/ SampleMoves

FormatsSpec == FormatsInit /\ [][FormatsNext]_<<vars, sample, shown>>
=============================================================================
