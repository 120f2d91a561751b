------------------------------ MODULE MCDownload ------------------------------
(* The versions of the object for the runs of ParallelDownload.            *)
EXTENDS ParallelDownload

\* Parts of 2, 1, 1 and 1 bytes, of 1 byte each, and of 2, 1, 2 and 1 bytes: a
\* version is replaced by a shorter one, and that by a longer one.
MCSizes == <<5, 4, 6>>
=============================================================================
