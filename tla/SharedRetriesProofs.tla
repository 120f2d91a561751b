------------------------- MODULE SharedRetriesProofs -------------------------
(***************************************************************************)
(* Proofs about SharedRetries, for any number of calls and jobs and any    *)
(* budgets: types, the bounds on what a call is granted, and that a call   *)
(* which ran alone has had all of its budget when it gives up.             *)
(***************************************************************************)
EXTENDS SharedRetries, TLAPS

-----------------------------------------------------------------------------
(* The invariant.                                                          *)

\* What a running call was granted before the counter was last set back is
\* bounded by a budget for each time it was; what it was granted since is in
\* the counter.
GrantedSoFar ==
  \A c \in Calls :
    /\ state[c] = "before"  => granted[c] = 0 /\ resets[c] = 0
    /\ state[c] = "running" => granted[c] <= MaxRetries[c] * resets[c] + sinceLast[c]
    /\ state[c] = "over"    => granted[c] <= MaxRetries[c] * (resets[c] + 1)

\* Jobs run only while their call does.
JobsOfRunning ==
  \A c \in Calls : state[c] = "before" => \A j \in JobIds : job[c][j] = "idle"

\* A call that has run alone so far is the only one that runs, the counter is
\* its own, and one of its jobs gives up only when the counter has passed the
\* budget.
AloneCounts ==
  \A c \in Calls : ~shared[c] =>
    /\ state[c] = "before" => granted[c] = 0
    /\ state[c] = "running" =>
         /\ \A d \in Calls : state[d] = "running" => d = c
         /\ retriesG <= MaxRetries[c] => granted[c] = retriesG
         /\ retriesG > MaxRetries[c] => granted[c] = MaxRetries[c]
         /\ (\E j \in JobIds : job[c][j] = "failed") => retriesG > MaxRetries[c]
    /\ state[c] = "over" =>
         ((\E j \in JobIds : job[c][j] = "failed") => granted[c] = MaxRetries[c])

RetriesInv ==
  TypeOK /\ BudgetSinceReset /\ GrantedSoFar /\ JobsOfRunning /\ AloneCounts

-----------------------------------------------------------------------------
\* One budget more for one reset more.
LEMMA OneMore ==
  ASSUME NEW m \in Nat, NEW n \in Nat
  PROVE  m * n \in Nat /\ m * (n + 1) = m * n + m /\ m * n + m \in Nat
  OBVIOUS

\* Neither below nor above.
LEMMA Between ==
  ASSUME NEW m \in Nat, NEW n \in Nat, ~(m < n), ~(m > n)
  PROVE  m = n /\ m <= n
  OBVIOUS

LEMMA RetriesInit == Init => RetriesInv
<1> SUFFICES ASSUME Init PROVE RetriesInv
  OBVIOUS
<1> USE RetriesAssumption
<1>1. TypeOK /\ BudgetSinceReset
  BY DEF Init, TypeOK, BudgetSinceReset
<1>2. GrantedSoFar /\ JobsOfRunning /\ AloneCounts
  BY DEF Init, GrantedSoFar, JobsOfRunning, AloneCounts
<1> QED
  BY <1>1, <1>2 DEF RetriesInv

-----------------------------------------------------------------------------
\* A call that starts sets the counter back under all that run, also when it
\* does not get as far as its jobs.
LEMMA StartKeeps ==
  ASSUME NEW c \in Calls, RetriesInv, Start(c) \/ StartFails(c)
  PROVE  RetriesInv'
<1> USE RetriesAssumption DEF RetriesInv, TypeOK
<1>1. TypeOK'
  <2>1. /\ state' \in [Calls -> {"before", "running", "over"}]
        /\ retriesG' \in Nat /\ UNCHANGED <<job, granted>>
    BY DEF Start, StartFails, SetBack
  <2>0. /\ sinceLast' = [d \in Calls |-> 0]
        /\ shared' = [d \in Calls |-> shared[d] \/ d \in Running \/ (d = c /\ Running # {})]
    BY DEF Start, StartFails, SetBack
  <2>2. sinceLast' \in [Calls -> Nat] /\ shared' \in [Calls -> BOOLEAN]
    BY <2>0
  <2>3. resets' \in [Calls -> Nat]
    <3>1. \A d \in Calls : (IF d \in Running THEN resets[d] + 1 ELSE resets[d]) \in Nat
      OBVIOUS
    <3> QED
      BY <3>1 DEF Start, StartFails, SetBack
  <2> QED
    BY <2>1, <2>2, <2>3
<1>2. BudgetSinceReset'
  <2> SUFFICES ASSUME NEW d \in Calls
               PROVE  sinceLast'[d] <= MaxRetries[d] /\ sinceLast'[d] <= retriesG'
    BY DEF BudgetSinceReset
  <2>1. sinceLast'[d] = 0 /\ retriesG' = 0 /\ MaxRetries[d] \in Nat
    BY DEF Start, StartFails, SetBack
  <2> QED
    BY <2>1
<1>3. GrantedSoFar'
  <2> SUFFICES ASSUME NEW d \in Calls
               PROVE  /\ state'[d] = "before"  => granted'[d] = 0 /\ resets'[d] = 0
                      /\ state'[d] = "running" => granted'[d] <= MaxRetries[d] * resets'[d] + sinceLast'[d]
                      /\ state'[d] = "over"    => granted'[d] <= MaxRetries[d] * (resets'[d] + 1)
    BY DEF GrantedSoFar
  <2>1. granted'[d] = granted[d] /\ sinceLast'[d] = 0 /\ state[c] = "before"
    BY DEF Start, StartFails, SetBack
  <2>2. CASE d = c
    <3>0. MaxRetries[d] * 0 = 0 /\ MaxRetries[d] * (0 + 1) = MaxRetries[d] /\ MaxRetries[d] \in Nat
      OBVIOUS
    <3>1. granted[d] = 0 /\ resets[d] = 0 /\ state'[d] \in {"running", "over"} /\ resets'[d] = 0
      BY <2>2, <2>1 DEF Start, StartFails, SetBack, GrantedSoFar, Running
    <3> QED
      BY <3>0, <3>1, <2>1
  <2>3. CASE d # c /\ state[d] = "running"
    <3>1. state'[d] = "running" /\ resets'[d] = resets[d] + 1
      BY <2>3 DEF Start, StartFails, SetBack, Running
    <3>2. granted[d] <= MaxRetries[d] * resets[d] + sinceLast[d] /\ sinceLast[d] <= MaxRetries[d]
      BY <2>3 DEF GrantedSoFar, BudgetSinceReset
    <3>3. MaxRetries[d] * (resets[d] + 1) = MaxRetries[d] * resets[d] + MaxRetries[d]
          /\ MaxRetries[d] * resets[d] \in Nat
      BY OneMore
    <3>4. granted[d] <= MaxRetries[d] * resets'[d]
      <4> DEFINE p == MaxRetries[d] * resets[d]
      <4>1. p \in Nat /\ granted[d] <= p + sinceLast[d] /\ sinceLast[d] <= MaxRetries[d]
            /\ granted[d] \in Nat /\ sinceLast[d] \in Nat /\ MaxRetries[d] \in Nat
        BY <3>2, <3>3
      <4>2. MaxRetries[d] * resets'[d] = p + MaxRetries[d]
        BY <3>1, <3>3
      <4> HIDE DEF p
      <4>3. granted[d] <= p + MaxRetries[d]
        BY <4>1
      <4> QED
        BY <4>2, <4>3
    <3> QED
      <4> DEFINE q == MaxRetries[d] * resets'[d]
      <4>1. q \in Nat
        BY <3>1, OneMore
      <4>2. granted'[d] <= q + sinceLast'[d]
        <5> HIDE DEF q
        <5> QED
          BY <4>1, <3>4, <2>1 DEF q
      <4> QED
        BY <4>2, <3>1
  <2>4. CASE d # c /\ state[d] # "running"
    <3>1. state'[d] = state[d] /\ resets'[d] = resets[d]
      BY <2>4 DEF Start, StartFails, SetBack, Running
    <3> QED
      BY <3>1, <2>1, <2>4 DEF GrantedSoFar
  <2> QED
    BY <2>2, <2>3, <2>4
<1>4. JobsOfRunning'
  BY DEF Start, StartFails, SetBack, JobsOfRunning
<1>5. AloneCounts'
  <2> SUFFICES ASSUME NEW d \in Calls, ~shared'[d]
               PROVE  /\ state'[d] = "before" => granted'[d] = 0
                      /\ state'[d] = "running" =>
                           /\ \A e \in Calls : state'[e] = "running" => e = d
                           /\ retriesG' <= MaxRetries[d] => granted'[d] = retriesG'
                           /\ retriesG' > MaxRetries[d] => granted'[d] = MaxRetries[d]
                           /\ (\E j \in JobIds : job'[d][j] = "failed") => retriesG' > MaxRetries[d]
                      /\ state'[d] = "over" =>
                           ((\E j \in JobIds : job'[d][j] = "failed") => granted'[d] = MaxRetries[d])
    BY DEF AloneCounts
  <2>1. granted' = granted /\ job' = job /\ retriesG' = 0 /\ state[c] = "before"
    BY DEF Start, StartFails, SetBack
  <2>2. ~shared[d] /\ d \notin Running
    BY DEF Start, StartFails, SetBack
  <2>3. CASE d = c
    <3>1. Running = {} /\ granted[d] = 0 /\ state'[d] \in {"running", "over"}
      BY <2>3, <2>1 DEF Start, StartFails, SetBack, GrantedSoFar
    <3>2. \A j \in JobIds : job[d][j] = "idle"
      BY <2>3, <2>1 DEF JobsOfRunning
    <3>3. \A e \in Calls : state'[e] = "running" => e = d
      BY <3>1, <2>3 DEF Start, StartFails, SetBack, Running
    <3> QED
      BY <3>1, <3>2, <3>3, <2>1
  <2>4. CASE d # c
    <3>1. state'[d] = state[d] /\ state[d] # "running"
      BY <2>4, <2>2 DEF Start, StartFails, SetBack, Running
    <3> QED
      BY <3>1, <2>1, <2>2 DEF AloneCounts
  <2> QED
    BY <2>3, <2>4
<1> QED
  BY <1>1, <1>2, <1>3, <1>4, <1>5

-----------------------------------------------------------------------------
\* A job that starts or ends leaves the counter and the history alone.
LEMMA JobMoves ==
  ASSUME NEW c \in Calls, NEW j \in JobIds, RetriesInv,
         JobStarts(c, j) \/ JobEnds(c, j)
  PROVE  RetriesInv'
<1> USE DEF RetriesInv, TypeOK
<1>1. /\ UNCHANGED <<state, retriesG, granted, sinceLast, resets, shared>>
      /\ state[c] = "running"
      /\ \E s \in {"send", "done"} : job' = [job EXCEPT ![c] = [@ EXCEPT ![j] = s]]
  BY DEF JobStarts, JobEnds, JobOf
<1>2. TypeOK'
  BY <1>1
<1>3. BudgetSinceReset' /\ GrantedSoFar'
  BY <1>1 DEF BudgetSinceReset, GrantedSoFar
<1>4. JobsOfRunning'
  BY <1>1 DEF JobsOfRunning
<1>5. \A d \in Calls : (\E i \in JobIds : job'[d][i] = "failed")
                       => \E i \in JobIds : job[d][i] = "failed"
  BY <1>1
<1>6. AloneCounts'
  BY <1>1, <1>5 DEF AloneCounts
<1> QED
  BY <1>2, <1>3, <1>4, <1>6

\* A call that ends keeps what it was granted.
LEMMA EndKeeps ==
  ASSUME NEW c \in Calls, RetriesInv, CallEnds(c)
  PROVE  RetriesInv'
<1> USE RetriesAssumption DEF RetriesInv, TypeOK
<1>1. /\ UNCHANGED <<job, retriesG, granted, sinceLast, resets, shared>>
      /\ state[c] = "running" /\ state' = [state EXCEPT ![c] = "over"]
  BY DEF CallEnds
<1>2. TypeOK' /\ BudgetSinceReset' /\ JobsOfRunning'
  BY <1>1 DEF BudgetSinceReset, JobsOfRunning
<1>3. GrantedSoFar'
  <2> SUFFICES ASSUME NEW d \in Calls
               PROVE  /\ state'[d] = "before"  => granted'[d] = 0 /\ resets'[d] = 0
                      /\ state'[d] = "running" => granted'[d] <= MaxRetries[d] * resets'[d] + sinceLast'[d]
                      /\ state'[d] = "over"    => granted'[d] <= MaxRetries[d] * (resets'[d] + 1)
    BY DEF GrantedSoFar
  <2>1. CASE d # c
    BY <2>1, <1>1 DEF GrantedSoFar
  <2>2. CASE d = c
    <3> DEFINE p == MaxRetries[d] * resets[d]
    <3>1. /\ p \in Nat /\ MaxRetries[d] * (resets[d] + 1) = p + MaxRetries[d]
          /\ granted[d] <= p + sinceLast[d]
      BY <2>2, <1>1, OneMore DEF GrantedSoFar
    <3>2. /\ sinceLast[d] <= MaxRetries[d] /\ granted[d] \in Nat
          /\ sinceLast[d] \in Nat /\ MaxRetries[d] \in Nat
      BY DEF BudgetSinceReset
    <3> HIDE DEF p
    <3>3. granted[d] <= p + MaxRetries[d]
      BY <3>1, <3>2
    <3>4. state'[d] = "over" /\ granted' = granted /\ resets' = resets
      BY <2>2, <1>1
    <3> QED
      BY <3>1, <3>3, <3>4
  <2> QED
    BY <2>1, <2>2
<1>4. AloneCounts'
  <2> SUFFICES ASSUME NEW d \in Calls, ~shared'[d]
               PROVE  /\ state'[d] = "before" => granted'[d] = 0
                      /\ state'[d] = "running" =>
                           /\ \A e \in Calls : state'[e] = "running" => e = d
                           /\ retriesG' <= MaxRetries[d] => granted'[d] = retriesG'
                           /\ retriesG' > MaxRetries[d] => granted'[d] = MaxRetries[d]
                           /\ (\E j \in JobIds : job'[d][j] = "failed") => retriesG' > MaxRetries[d]
                      /\ state'[d] = "over" =>
                           ((\E j \in JobIds : job'[d][j] = "failed") => granted'[d] = MaxRetries[d])
    BY DEF AloneCounts
  <2>1. CASE d # c
    BY <2>1, <1>1 DEF AloneCounts
  <2>2. CASE d = c
    BY <2>2, <1>1 DEF AloneCounts
  <2> QED
    BY <2>1, <2>2
<1> QED
  BY <1>2, <1>3, <1>4

\* A failed attempt moves the counter and what its call was granted together.
LEMMA FailKeeps ==
  ASSUME NEW c \in Calls, NEW j \in JobIds, RetriesInv, AttemptFails(c, j)
  PROVE  RetriesInv'
<1> USE RetriesAssumption DEF RetriesInv, TypeOK
<1>0. /\ UNCHANGED <<state, resets, shared>> /\ state[c] = "running"
      /\ retriesG' = retriesG + 1
      /\ retriesG \in Nat /\ MaxRetries[c] \in Nat
  BY DEF AttemptFails
<1>1. CASE retriesG < MaxRetries[c]
  <2>1. /\ granted' = [granted EXCEPT ![c] = @ + 1]
        /\ sinceLast' = [sinceLast EXCEPT ![c] = @ + 1]
        /\ job' = job
    BY <1>1 DEF AttemptFails
  <2>2. TypeOK'
    BY <1>0, <2>1
  <2>3. BudgetSinceReset'
    <3> SUFFICES ASSUME NEW d \in Calls
                 PROVE  sinceLast'[d] <= MaxRetries[d] /\ sinceLast'[d] <= retriesG'
      BY DEF BudgetSinceReset
    <3>1. /\ sinceLast[d] <= MaxRetries[d] /\ sinceLast[d] <= retriesG
          /\ sinceLast[d] \in Nat /\ MaxRetries[d] \in Nat
      BY DEF BudgetSinceReset
    <3>2. CASE d = c
      <4>1. sinceLast'[d] = sinceLast[d] + 1
        BY <3>2, <2>1
      <4> QED
        BY <4>1, <3>1, <3>2, <1>0, <1>1
    <3>3. CASE d # c
      <4>1. sinceLast'[d] = sinceLast[d]
        BY <3>3, <2>1
      <4> QED
        BY <4>1, <3>1, <1>0
    <3> QED
      BY <3>2, <3>3
  <2>4. GrantedSoFar'
    <3> SUFFICES ASSUME NEW d \in Calls
                 PROVE  /\ state'[d] = "before"  => granted'[d] = 0 /\ resets'[d] = 0
                        /\ state'[d] = "running" => granted'[d] <= MaxRetries[d] * resets'[d] + sinceLast'[d]
                        /\ state'[d] = "over"    => granted'[d] <= MaxRetries[d] * (resets'[d] + 1)
      BY DEF GrantedSoFar
    <3>1. CASE d # c
      BY <3>1, <1>0, <2>1 DEF GrantedSoFar
    <3>2. CASE d = c
      <4> DEFINE p == MaxRetries[d] * resets[d]
      <4>1. /\ p \in Nat /\ granted[d] <= p + sinceLast[d]
            /\ granted[d] \in Nat /\ sinceLast[d] \in Nat
        BY <3>2, <1>0, OneMore DEF GrantedSoFar
      <4>2. MaxRetries[d] * resets'[d] = p
        BY <1>0
      <4>3. granted'[d] = granted[d] + 1 /\ sinceLast'[d] = sinceLast[d] + 1
            /\ state'[d] = "running"
        BY <3>2, <1>0, <2>1
      <4> HIDE DEF p
      <4>4. granted'[d] <= p + sinceLast'[d]
        BY <4>1, <4>3
      <4> QED
        BY <4>2, <4>3, <4>4
    <3> QED
      BY <3>1, <3>2
  <2>5. JobsOfRunning'
    BY <1>0, <2>1 DEF JobsOfRunning
  <2>6. AloneCounts'
    <3> SUFFICES ASSUME NEW d \in Calls, ~shared'[d]
                 PROVE  /\ state'[d] = "before" => granted'[d] = 0
                        /\ state'[d] = "running" =>
                             /\ \A e \in Calls : state'[e] = "running" => e = d
                             /\ retriesG' <= MaxRetries[d] => granted'[d] = retriesG'
                             /\ retriesG' > MaxRetries[d] => granted'[d] = MaxRetries[d]
                             /\ (\E i \in JobIds : job'[d][i] = "failed") => retriesG' > MaxRetries[d]
                        /\ state'[d] = "over" =>
                             ((\E i \in JobIds : job'[d][i] = "failed") => granted'[d] = MaxRetries[d])
      BY DEF AloneCounts
    <3>1. CASE d # c
      <4>1. state[d] # "running" /\ granted'[d] = granted[d]
        BY <3>1, <1>0, <2>1 DEF AloneCounts
      <4> QED
        BY <4>1, <1>0, <2>1 DEF AloneCounts
    <3>2. CASE d = c
      <4>1. /\ \A e \in Calls : state[e] = "running" => e = d
            /\ granted[d] = retriesG
            /\ ~ \E i \in JobIds : job[d][i] = "failed"
        BY <3>2, <1>0, <1>1 DEF AloneCounts
      <4>2. granted'[d] = retriesG + 1 /\ retriesG' <= MaxRetries[d]
        BY <4>1, <3>2, <2>1, <1>0, <1>1
      <4> QED
        BY <4>1, <4>2, <3>2, <1>0, <2>1
    <3> QED
      BY <3>1, <3>2
  <2> QED
    BY <2>2, <2>3, <2>4, <2>5, <2>6
<1>2. CASE ~(retriesG < MaxRetries[c])
  <2>1. /\ granted' = granted /\ sinceLast' = sinceLast
        /\ job' = [job EXCEPT ![c] = [@ EXCEPT ![j] = "failed"]]
    BY <1>2 DEF AttemptFails, JobOf
  <2>2. TypeOK'
    BY <1>0, <2>1
  <2>3. BudgetSinceReset'
    <3> SUFFICES ASSUME NEW d \in Calls
                 PROVE  sinceLast'[d] <= MaxRetries[d] /\ sinceLast'[d] <= retriesG'
      BY DEF BudgetSinceReset
    <3>1. /\ sinceLast[d] <= MaxRetries[d] /\ sinceLast[d] <= retriesG
          /\ sinceLast[d] \in Nat /\ sinceLast'[d] = sinceLast[d]
      BY <2>1 DEF BudgetSinceReset
    <3> QED
      BY <3>1, <1>0
  <2>4. GrantedSoFar'
    BY <1>0, <2>1 DEF GrantedSoFar
  <2>5. JobsOfRunning'
    BY <1>0, <2>1 DEF JobsOfRunning
  <2>6. AloneCounts'
    <3> SUFFICES ASSUME NEW d \in Calls, ~shared'[d]
                 PROVE  /\ state'[d] = "before" => granted'[d] = 0
                        /\ state'[d] = "running" =>
                             /\ \A e \in Calls : state'[e] = "running" => e = d
                             /\ retriesG' <= MaxRetries[d] => granted'[d] = retriesG'
                             /\ retriesG' > MaxRetries[d] => granted'[d] = MaxRetries[d]
                             /\ (\E i \in JobIds : job'[d][i] = "failed") => retriesG' > MaxRetries[d]
                        /\ state'[d] = "over" =>
                             ((\E i \in JobIds : job'[d][i] = "failed") => granted'[d] = MaxRetries[d])
      BY DEF AloneCounts
    <3>1. CASE d # c
      <4>1. state[d] # "running" /\ job'[d] = job[d]
        BY <3>1, <1>0, <2>1 DEF AloneCounts
      <4> QED
        BY <4>1, <1>0, <2>1 DEF AloneCounts
    <3>2. CASE d = c
      <4>1. /\ \A e \in Calls : state[e] = "running" => e = d
            /\ retriesG <= MaxRetries[d] => granted[d] = retriesG
            /\ retriesG > MaxRetries[d] => granted[d] = MaxRetries[d]
        BY <3>2, <1>0 DEF AloneCounts
      <4>2. retriesG \in Nat /\ MaxRetries[d] \in Nat /\ ~(retriesG < MaxRetries[d])
        BY <3>2, <1>0, <1>2
      <4>3. granted[d] = MaxRetries[d]
        <5>1. CASE retriesG > MaxRetries[d]
          BY <5>1, <4>1
        <5>2. CASE ~(retriesG > MaxRetries[d])
          <6>1. retriesG = MaxRetries[d] /\ retriesG <= MaxRetries[d]
            BY <5>2, <4>2, Between
          <6> QED
            BY <6>1, <4>1
        <5> QED
          BY <5>1, <5>2
      <4>4. granted'[d] = MaxRetries[d] /\ retriesG' > MaxRetries[d]
        BY <4>3, <3>2, <2>1, <1>0, <1>2
      <4>5. state'[d] = "running" /\ state' = state
        BY <3>2, <1>0
      <4> QED
        BY <4>1, <4>4, <4>5, <3>2, <1>0
    <3> QED
      BY <3>1, <3>2
  <2> QED
    BY <2>2, <2>3, <2>4, <2>5, <2>6
<1> QED
  BY <1>1, <1>2

-----------------------------------------------------------------------------
\* The invariant holds in every state.
THEOREM RetriesInvariant == Spec => []RetriesInv
<1>1. Init => RetriesInv
  BY RetriesInit
<1>2. RetriesInv /\ [Next]_vars => RetriesInv'
  <2> SUFFICES ASSUME RetriesInv, [Next]_vars PROVE RetriesInv'
    OBVIOUS
  <2>1. CASE UNCHANGED vars
    BY <2>1 DEF vars, RetriesInv, TypeOK, BudgetSinceReset, GrantedSoFar, JobsOfRunning,
      AloneCounts
  <2>2. CASE Over
    BY <2>1, <2>2 DEF Over, vars, RetriesInv, TypeOK, BudgetSinceReset, GrantedSoFar,
      JobsOfRunning, AloneCounts
  <2>3. ASSUME NEW c \in Calls, Start(c) \/ StartFails(c) PROVE RetriesInv'
    BY <2>3, StartKeeps
  <2>4. ASSUME NEW c \in Calls, CallEnds(c) PROVE RetriesInv'
    BY <2>4, EndKeeps
  <2>5. ASSUME NEW c \in Calls, NEW j \in JobIds, JobStep(c, j) PROVE RetriesInv'
    BY <2>5, JobMoves, FailKeeps DEF JobStep
  <2> QED
    BY <2>1, <2>2, <2>3, <2>4, <2>5 DEF Next
<1> QED
  BY <1>1, <1>2, PTL DEF Spec

\* Between two resets no call is granted more than its budget (TypeOK with it).
THEOREM BudgetHeldBetweenResets == Spec => [](TypeOK /\ BudgetSinceReset)
<1>1. RetriesInv => TypeOK /\ BudgetSinceReset
  BY DEF RetriesInv
<1> QED
  BY <1>1, RetriesInvariant, PTL

\* Calls that interfere are granted one more budget for each reset, and no more.
THEOREM RetriesBounded == Spec => []BudgetPerReset
<1>1. RetriesInv => BudgetPerReset
  <2> SUFFICES ASSUME RetriesInv, NEW c \in Calls
               PROVE  granted[c] <= MaxRetries[c] * (resets[c] + 1)
    BY DEF BudgetPerReset
  <2> USE RetriesAssumption DEF RetriesInv, TypeOK
  <2> DEFINE p == MaxRetries[c] * resets[c]
  <2>1. p \in Nat /\ MaxRetries[c] * (resets[c] + 1) = p + MaxRetries[c]
    BY OneMore
  <2>2. /\ sinceLast[c] <= MaxRetries[c] /\ granted[c] \in Nat
        /\ sinceLast[c] \in Nat /\ MaxRetries[c] \in Nat
    BY DEF BudgetSinceReset
  <2>3. state[c] = "running" => granted[c] <= p + sinceLast[c]
    BY DEF GrantedSoFar
  <2>4. CASE state[c] = "over"
    BY <2>4 DEF GrantedSoFar
  <2> HIDE DEF p
  <2>5. CASE state[c] = "running"
    <3>1. granted[c] <= p + MaxRetries[c]
      BY <2>1, <2>2, <2>3, <2>5
    <3> QED
      BY <3>1, <2>1
  <2>6. CASE state[c] = "before"
    <3>1. granted[c] = 0
      BY <2>6 DEF GrantedSoFar
    <3>2. 0 <= p + MaxRetries[c]
      BY <2>1, <2>2
    <3> QED
      BY <3>1, <3>2, <2>1
  <2> QED
    BY <2>4, <2>5, <2>6
<1> QED
  BY <1>1, RetriesInvariant, PTL

\* A call that ran alone gives up only with its whole budget spent.
THEOREM AloneSpendsItsBudget == Spec => []AloneSpendsAll
<1>1. RetriesInv => AloneSpendsAll
  <2> SUFFICES ASSUME RetriesInv, NEW c \in Calls, ~shared[c],
                      NEW j \in JobIds, job[c][j] = "failed"
               PROVE  granted[c] = MaxRetries[c]
    BY DEF AloneSpendsAll
  <2> USE RetriesAssumption DEF RetriesInv, TypeOK
  <2>1. CASE state[c] = "before"
    BY <2>1 DEF JobsOfRunning
  <2>2. CASE state[c] = "running"
    BY <2>2 DEF AloneCounts
  <2>3. CASE state[c] = "over"
    BY <2>3 DEF AloneCounts
  <2> QED
    BY <2>1, <2>2, <2>3
<1> QED
  BY <1>1, RetriesInvariant, PTL
=============================================================================
