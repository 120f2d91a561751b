------------------------------- MODULE CurlEnv -------------------------------
(***************************************************************************)
(* The life of libcurl under WebClient (lib/src/webclient.cpp): objects    *)
(* are constructed, moved and destroyed by any number of threads; the      *)
(* first one initialises the library, the last one cleans it up.  Neither  *)
(* call of libcurl is thread safe, and no handle outlives the library.     *)
(***************************************************************************)
EXTENDS Integers, FiniteSets

CONSTANTS Clients,      \* WebClient objects
          NoOne,        \* cleanupMutex_ is free
          MaxFailures   \* bound: constructions that fail

ASSUME ClientsAssumption ==
  /\ IsFiniteSet(Clients) /\ NoOne \notin Clients
  /\ MaxFailures \in Nat

VARIABLES
  pc,            \* what every object's constructor or destructor has done
  cleanupMutex_, \* the object whose constructor or destructor holds it
  numInstances_,
  library,       \* calls of curl_global_init not undone by curl_global_cleanup
  failed         \* history: constructions that failed once counted

libraryVars == <<pc, cleanupMutex_, numInstances_, library, failed>>

Stages == {"none", "entered", "ready", "counted", "live", "moved",
           "closed", "leaving", "left"}

Goto(c, stage) == pc' = [pc EXCEPT ![c] = stage]

LibraryInit ==
  /\ pc = [c \in Clients |-> "none"]
  /\ cleanupMutex_ = NoOne
  /\ numInstances_ = 0 /\ library = 0 /\ failed = 0

-----------------------------------------------------------------------------
(* InitEnv, the body of every constructor but the one that moves.          *)

LockToInit(c) ==
  /\ pc[c] = "none" /\ cleanupMutex_ = NoOne
  /\ cleanupMutex_' = c
  /\ Goto(c, "entered")
  /\ UNCHANGED <<numInstances_, library, failed>>

GlobalInit(c) ==
  /\ pc[c] = "entered"
  /\ library' = IF numInstances_ = 0 THEN library + 1 ELSE library
  /\ Goto(c, "ready")
  /\ UNCHANGED <<cleanupMutex_, numInstances_, failed>>

\* curl_global_init fails: the constructor throws, no object is left.
GlobalInitFails(c) ==
  /\ pc[c] = "entered" /\ numInstances_ = 0
  /\ cleanupMutex_' = NoOne
  /\ Goto(c, "none")
  /\ UNCHANGED <<numInstances_, library, failed>>

Count(c) ==
  /\ pc[c] = "ready"
  /\ numInstances_' = numInstances_ + 1
  /\ Goto(c, "counted")
  /\ UNCHANGED <<cleanupMutex_, library, failed>>

EasyInit(c) ==
  /\ pc[c] = "counted"
  /\ cleanupMutex_' = NoOne
  /\ Goto(c, "live")
  /\ UNCHANGED <<numInstances_, library, failed>>

\* Init throws: the object is never destroyed, and stays counted.
EasyInitFails(c) ==
  /\ pc[c] = "counted" /\ failed < MaxFailures
  /\ cleanupMutex_' = NoOne
  /\ failed' = failed + 1
  /\ Goto(c, "none")
  /\ UNCHANGED <<numInstances_, library>>

-----------------------------------------------------------------------------
\* The move constructor: the handle changes hands, nothing is counted.
MoveHandle(c, d) ==
  /\ pc[c] = "live" /\ pc[d] = "none"
  /\ pc' = [pc EXCEPT ![c] = "moved", ![d] = "live"]
  /\ UNCHANGED <<cleanupMutex_, numInstances_, library, failed>>

-----------------------------------------------------------------------------
(* ~WebClient.                                                             *)

\* An object that was moved from has no handle to clean up.
DestroyMoved(c) ==
  /\ pc[c] = "moved"
  /\ Goto(c, "none")
  /\ UNCHANGED <<cleanupMutex_, numInstances_, library, failed>>

\* curl_easy_cleanup, before the mutex is taken.
EasyCleanup(c) ==
  /\ pc[c] = "live"
  /\ Goto(c, "closed")
  /\ UNCHANGED <<cleanupMutex_, numInstances_, library, failed>>

LockToLeave(c) ==
  /\ pc[c] = "closed" /\ cleanupMutex_ = NoOne
  /\ cleanupMutex_' = c
  /\ Goto(c, "leaving")
  /\ UNCHANGED <<numInstances_, library, failed>>

Discount(c) ==
  /\ pc[c] = "leaving"
  /\ numInstances_' = numInstances_ - 1
  /\ Goto(c, "left")
  /\ UNCHANGED <<cleanupMutex_, library, failed>>

\* Variants: the count compared with the wrong number.
CleanupBelow(c, few) ==
  /\ pc[c] = "left"
  /\ library' = IF few THEN library - 1 ELSE library
  /\ cleanupMutex_' = NoOne
  /\ Goto(c, "none")
  /\ UNCHANGED <<numInstances_, failed>>

CleanupTooSoon(c) == CleanupBelow(c, numInstances_ <= 1)
CleanupAtOne(c)   == CleanupBelow(c, numInstances_ = 1)

GlobalCleanup(c) ==
  /\ pc[c] = "left"
  /\ library' = IF numInstances_ = 0 THEN library - 1 ELSE library
  /\ cleanupMutex_' = NoOne
  /\ Goto(c, "none")
  /\ UNCHANGED <<numInstances_, failed>>

-----------------------------------------------------------------------------
Construct(c) ==
  LockToInit(c) \/ GlobalInit(c) \/ GlobalInitFails(c) \/ Count(c)
    \/ EasyInit(c) \/ EasyInitFails(c)

Destroy(c) ==
  DestroyMoved(c) \/ EasyCleanup(c) \/ LockToLeave(c) \/ Discount(c)
    \/ GlobalCleanup(c)

LibraryNext ==
  \/ \E c \in Clients : Construct(c) \/ Destroy(c)
  \/ \E c, d \in Clients : MoveHandle(c, d)

LibrarySpec == LibraryInit /\ [][LibraryNext]_libraryVars

-----------------------------------------------------------------------------
(* Correctness.                                                            *)

LibraryTypeOK ==
  /\ pc \in [Clients -> Stages]
  /\ cleanupMutex_ \in Clients \cup {NoOne}
  /\ numInstances_ \in Nat /\ library \in Nat /\ failed \in 0 .. MaxFailures

\* Objects that have a handle, or are creating or cleaning up one.
WithHandle == {c \in Clients : pc[c] \in {"counted", "live"}}

Counted == {c \in Clients : pc[c] \in {"counted", "live", "closed", "leaving"}}

(* A handle exists only while libcurl is initialised: the destructor that  *)
(* cleans the library up, in one thread, never overtakes an object of      *)
(* another thread, although curl_easy_cleanup runs outside of the mutex    *)
(* (webclient.cpp:148-163, 460-480).                                       *)
HandlesNeedLibrary == WithHandle # {} => library = 1

(* "this code just guarantees that curl_global_init is called only once"   *)
(* (webclient.cpp:471-473), and cleaned up once.                           *)
InitialisedOnce == library \in {0, 1}

(* numInstances_ is the objects that exist, a handle that was moved        *)
(* counting once, and those whose construction failed.                     *)
CountIsRight == numInstances_ = Cardinality(Counted) + failed

(* The library is cleaned up when the last object goes, unless the         *)
(* construction of one has failed.                                         *)
CleanedUp ==
  (\A c \in Clients : pc[c] = "none") /\ failed = 0 => library = 0

-----------------------------------------------------------------------------
(* The inductive invariant behind HandlesNeedLibrary and CleanedUp.        *)

Inside == {"entered", "ready", "counted", "leaving", "left"}

MutexInv == \A c \in Clients : pc[c] \in Inside <=> cleanupMutex_ = c

\* The library is up when an object is counted, from its initialisation on,
\* and until the destructor that has counted to 0 has cleaned it up.
LibraryInv ==
  library = IF numInstances_ > 0 \/ \E c \in Clients : pc[c] \in {"ready", "left"}
              THEN 1 ELSE 0

EnvInv == MutexInv /\ CountIsRight /\ LibraryInv
=============================================================================
