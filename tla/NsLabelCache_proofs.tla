------------------------- MODULE NsLabelCache_proofs -------------------------
(***************************************************************************)
(* Proofs about NsLabelCache for every set of callers and every value of   *)
(* the durations: a lookup stays within its budget, what the cache serves  *)
(* is of bounded staleness, and the token is re-read in time.              *)
(***************************************************************************)
EXTENDS NsLabelCache, TLAPS

\* An attempt or a wait started early enough to end before the deadline.
BudgetInv ==
    \A p \in Caller :
        /\ pc[p] = "attempt" =>
             /\ stepAge[p] =< Attempt
             /\ elapsed[p] =< limit[p]
             /\ \/ elapsed[p] = stepAge[p]
                \/ elapsed[p] - stepAge[p] + Attempt =< Deadline(p)
        /\ pc[p] = "wait" =>
             /\ stepAge[p] =< Delay
             /\ elapsed[p] - stepAge[p] + Delay + Attempt =< Deadline(p)

\* A response is as stale as its attempt is old at most, an entry older by
\* what it has aged since.
StaleInv ==
    /\ since[label] = 0
    /\ Cached => since[entry] =< entryAge + Attempt
    /\ \A p \in Caller :
         pc[p] = "attempt" /\ resp[p] \in Label => since[resp[p]] =< stepAge[p]

\* The last rotation left the generation before it valid; a cached token
\* from before it is at least as old as it, or due to be re-read.
TokenInv ==
    /\ validGen =< fileGen /\ fileGen =< validGen + 1
    /\ token =< fileGen
    /\ token # 0 /\ token < fileGen =>
         tokenAge = TokenTTL \/ rotatedFor =< tokenAge

\* The token of an attempt is accepted: the attempt was started within
\* TokenTTL of the last rotation, or with the token of that rotation.
SentInv ==
    overlap >= TokenTTL + Attempt /\ ~readFails =>
    /\ token # 0 /\ token < validGen => tokenAge = TokenTTL
    /\ \A p \in Caller :
         /\ pc[p] = "attempt" =>
              /\ sent[p] >= validGen
              /\ sent[p] < fileGen => rotatedFor < TokenTTL + stepAge[p]
         /\ resp[p] # "401"

IInv == TypeOK /\ BudgetInv /\ StaleInv /\ TokenInv /\ SentInv

-----------------------------------------------------------------------------
\* The initial state is well typed.
LEMMA TypeInit == Init => TypeOK
<1> SUFFICES ASSUME Init PROVE TypeOK
  OBVIOUS
<1> USE DurationAssumption, ValueAssumption DEF Init
<1>1. since \in [Label -> 0..Horizon]
  BY DEF Horizon
<1>2. /\ pc \in [Caller -> {"idle", "attempt", "wait"}]
      /\ limit \in [Caller -> Nat]
      /\ elapsed \in [Caller -> Nat] /\ stepAge \in [Caller -> Nat]
      /\ sent \in [Caller -> 0..MaxGen]
      /\ resp \in [Caller -> Label \cup {None, "401"}]
  OBVIOUS
<1>3. enabled \in BOOLEAN /\ readFails \in BOOLEAN
  OBVIOUS
<1>4. /\ label \in Label
      /\ fileGen \in Gen /\ validGen \in Gen /\ rotatedFor \in 0..overlap
      /\ overlap \in Overlaps
      /\ entry \in Label \cup {None} /\ entryAge \in 0..(TTL + 1)
      /\ token \in 0..MaxGen /\ tokenAge \in 0..TokenTTL
  BY DEF Gen
<1> QED
  BY <1>1, <1>2, <1>3, <1>4 DEF TypeOK

\* Every step keeps the types.
LEMMA TypeStep ==
    TypeOK /\ [Next]_vars => TypeOK'
<1> SUFFICES ASSUME TypeOK, [Next]_vars PROVE TypeOK'
  OBVIOUS
<1> USE DurationAssumption, ValueAssumption
        DEF TypeOK, Gen, Horizon
<1>1. ASSUME NEW p \in Caller, GetLabel(p) PROVE TypeOK'
  BY <1>1
  DEF GetLabel, StartAttempt, CurrentToken,
      worldVars, fixedVars, cacheVars, callVars
<1>2. ASSUME NEW p \in Caller, AttemptSucceeds(p) PROVE TypeOK'
  BY <1>2
  DEF AttemptSucceeds, Return, worldVars, fixedVars, cacheVars, callVars
<1>3. ASSUME NEW p \in Caller, AttemptUnauthorized(p) PROVE TypeOK'
  BY <1>3
  DEF AttemptUnauthorized, Return, worldVars, fixedVars, cacheVars, callVars
<1>4. ASSUME NEW p \in Caller, AttemptFails(p) PROVE TypeOK'
  BY <1>4
  DEF AttemptFails, Return, RetryFits, worldVars, fixedVars, cacheVars, callVars
<1>5. ASSUME NEW p \in Caller, Retry(p) PROVE TypeOK'
  BY <1>5
  DEF Retry, StartAttempt, CurrentToken,
      worldVars, fixedVars, cacheVars, callVars
<1>6. ASSUME NEW p \in Caller, WaitCancelled(p) PROVE TypeOK'
  BY <1>6
  DEF WaitCancelled, Return, worldVars, fixedVars, cacheVars, callVars
<1>7. ASSUME NEW p \in Caller, ServerAnswers(p) PROVE TypeOK'
  BY <1>7
  DEF ServerAnswers, worldVars, fixedVars, cacheVars, callVars
<1>8. CASE Relabel
  BY <1>8
  DEF Relabel, worldVars, fixedVars, cacheVars, callVars
<1>9. CASE Rotate
  BY <1>9
  DEF Rotate, worldVars, fixedVars, cacheVars, callVars
<1>10. CASE Expire
  BY <1>10
  DEF Expire, worldVars, fixedVars, cacheVars, callVars
<1>11. CASE Tick
  BY <1>11
  DEF Tick, UpTo, worldVars, fixedVars, cacheVars, callVars
<1>12. CASE UNCHANGED vars
  BY <1>12 DEF vars, worldVars, fixedVars, cacheVars, callVars
<1> QED
  BY <1>1, <1>2, <1>3, <1>4, <1>5, <1>6, <1>7, <1>8, <1>9, <1>10, <1>11,
     <1>12
  DEF Next, CallStep, vars, worldVars, fixedVars, cacheVars, callVars

\* An attempt or a wait is begun only if it ends before the deadline.
LEMMA BudgetStep ==
    TypeOK /\ BudgetInv /\ [Next]_vars => BudgetInv'
<1> SUFFICES ASSUME TypeOK, BudgetInv, [Next]_vars PROVE BudgetInv'
  OBVIOUS
<1> USE DurationAssumption
        DEF TypeOK, BudgetInv, Deadline
<1>1. ASSUME NEW p \in Caller, GetLabel(p) PROVE BudgetInv'
  BY <1>1
  DEF GetLabel, StartAttempt, CurrentToken,
      worldVars, fixedVars, cacheVars, callVars
<1>2. ASSUME NEW p \in Caller, AttemptSucceeds(p) PROVE BudgetInv'
  BY <1>2
  DEF AttemptSucceeds, Return, worldVars, fixedVars, cacheVars, callVars
<1>3. ASSUME NEW p \in Caller, AttemptUnauthorized(p) PROVE BudgetInv'
  BY <1>3
  DEF AttemptUnauthorized, Return, worldVars, fixedVars, cacheVars, callVars
<1>4. ASSUME NEW p \in Caller, AttemptFails(p) PROVE BudgetInv'
  BY <1>4
  DEF AttemptFails, Return, RetryFits, worldVars, fixedVars, cacheVars, callVars
<1>5. ASSUME NEW p \in Caller, Retry(p) PROVE BudgetInv'
  BY <1>5
  DEF Retry, StartAttempt, CurrentToken,
      worldVars, fixedVars, cacheVars, callVars
<1>6. ASSUME NEW p \in Caller, WaitCancelled(p) PROVE BudgetInv'
  BY <1>6
  DEF WaitCancelled, Return, worldVars, fixedVars, cacheVars, callVars
<1>7. CASE Tick
  BY <1>7
  DEF Tick, UpTo, worldVars, fixedVars, cacheVars, callVars
<1>8. CASE UNCHANGED <<pc, limit, elapsed, stepAge>>
  BY <1>8
<1> QED
  BY <1>1, <1>2, <1>3, <1>4, <1>5, <1>6, <1>7, <1>8
  DEF Next, CallStep, ServerAnswers, Relabel, Rotate, Expire, vars,
      worldVars, fixedVars, cacheVars, callVars

\* An answer in flight and a stored one stay within their staleness.
LEMMA StaleStep ==
    TypeOK /\ BudgetInv /\ StaleInv /\ [Next]_vars => StaleInv'
<1> SUFFICES ASSUME TypeOK, BudgetInv, StaleInv, [Next]_vars PROVE StaleInv'
  OBVIOUS
<1> USE DurationAssumption, ValueAssumption
        DEF TypeOK, BudgetInv, StaleInv, Cached, Horizon
<1>1. ASSUME NEW p \in Caller, GetLabel(p) PROVE StaleInv'
  BY <1>1
  DEF GetLabel, StartAttempt, CurrentToken,
      worldVars, fixedVars, cacheVars, callVars
<1>2. ASSUME NEW p \in Caller, AttemptSucceeds(p) PROVE StaleInv'
  BY <1>2
  DEF AttemptSucceeds, Return, worldVars, fixedVars, cacheVars, callVars
<1>3. ASSUME NEW p \in Caller, AttemptUnauthorized(p) PROVE StaleInv'
  BY <1>3
  DEF AttemptUnauthorized, Return, worldVars, fixedVars, cacheVars, callVars
<1>4. ASSUME NEW p \in Caller, AttemptFails(p) PROVE StaleInv'
  BY <1>4
  DEF AttemptFails, Return, RetryFits, worldVars, fixedVars, cacheVars, callVars
<1>5. ASSUME NEW p \in Caller, Retry(p) PROVE StaleInv'
  BY <1>5
  DEF Retry, StartAttempt, CurrentToken,
      worldVars, fixedVars, cacheVars, callVars
<1>6. ASSUME NEW p \in Caller, WaitCancelled(p) PROVE StaleInv'
  BY <1>6
  DEF WaitCancelled, Return, worldVars, fixedVars, cacheVars, callVars
<1>7. ASSUME NEW p \in Caller, ServerAnswers(p) PROVE StaleInv'
  BY <1>7
  DEF ServerAnswers, worldVars, fixedVars, cacheVars, callVars
<1>8. CASE Relabel
  BY <1>8
  DEF Relabel, worldVars, fixedVars, cacheVars, callVars
<1>9. CASE Tick
  BY <1>9
  DEF Tick, UpTo, worldVars, fixedVars, cacheVars, callVars
<1>10. CASE UNCHANGED <<label, since, entry, entryAge, pc, stepAge, resp>>
  BY <1>10
<1> QED
  BY <1>1, <1>2, <1>3, <1>4, <1>5, <1>6, <1>7, <1>8, <1>9, <1>10
  DEF Next, CallStep, Rotate, Expire, vars,
      worldVars, fixedVars, cacheVars, callVars

\* A rotation makes the token due; a re-read brings the file's generation.
LEMMA TokenStep ==
    TypeOK /\ TokenInv /\ [Next]_vars => TokenInv'
<1> SUFFICES ASSUME TypeOK, TokenInv, [Next]_vars
             PROVE  TokenInv'
  OBVIOUS
<1> USE DurationAssumption, ValueAssumption
        DEF TypeOK, Gen, TokenInv
<1>1. ASSUME NEW p \in Caller, GetLabel(p) PROVE TokenInv'
  BY <1>1
  DEF GetLabel, StartAttempt, CurrentToken,
      worldVars, fixedVars, cacheVars, callVars
<1>2. ASSUME NEW p \in Caller, Retry(p) PROVE TokenInv'
  BY <1>2
  DEF Retry, StartAttempt, CurrentToken,
      worldVars, fixedVars, cacheVars, callVars
<1>3. CASE Rotate
  BY <1>3
  DEF Rotate, worldVars, fixedVars, cacheVars, callVars
<1>4. CASE Expire
  BY <1>4
  DEF Expire, worldVars, fixedVars, cacheVars, callVars
<1>5. CASE Tick
  BY <1>5
  DEF Tick, UpTo, worldVars, fixedVars, cacheVars, callVars
<1>6. CASE UNCHANGED <<fileGen, validGen, token, tokenAge, rotatedFor>>
  BY <1>6
<1> QED
  BY <1>1, <1>2, <1>3, <1>4, <1>5, <1>6
  DEF Next, CallStep, AttemptSucceeds, AttemptUnauthorized, AttemptFails,
      WaitCancelled, ServerAnswers, Relabel, vars, worldVars, fixedVars,
      cacheVars, callVars

\* A token in flight outlives its attempt.
LEMMA SentStep ==
    TypeOK /\ BudgetInv /\ TokenInv /\ SentInv /\ [Next]_vars => SentInv'
<1> SUFFICES ASSUME TypeOK, BudgetInv, TokenInv, SentInv, [Next]_vars
             PROVE  SentInv'
  OBVIOUS
<1> USE DurationAssumption, ValueAssumption
        DEF TypeOK, Gen, BudgetInv, TokenInv, SentInv
<1>1. ASSUME NEW p \in Caller, GetLabel(p) PROVE SentInv'
  BY <1>1
  DEF GetLabel, StartAttempt, CurrentToken,
      worldVars, fixedVars, cacheVars, callVars
<1>2. ASSUME NEW p \in Caller, AttemptSucceeds(p) PROVE SentInv'
  BY <1>2
  DEF AttemptSucceeds, Return, worldVars, fixedVars, cacheVars, callVars
<1>3. ASSUME NEW p \in Caller, AttemptUnauthorized(p) PROVE SentInv'
  BY <1>3
  DEF AttemptUnauthorized, Return, worldVars, fixedVars, cacheVars, callVars
<1>4. ASSUME NEW p \in Caller, AttemptFails(p) PROVE SentInv'
  BY <1>4
  DEF AttemptFails, Return, RetryFits, worldVars, fixedVars, cacheVars, callVars
<1>5. ASSUME NEW p \in Caller, Retry(p) PROVE SentInv'
  BY <1>5
  DEF Retry, StartAttempt, CurrentToken,
      worldVars, fixedVars, cacheVars, callVars
<1>6. ASSUME NEW p \in Caller, WaitCancelled(p) PROVE SentInv'
  BY <1>6
  DEF WaitCancelled, Return, worldVars, fixedVars, cacheVars, callVars
<1>7. ASSUME NEW p \in Caller, ServerAnswers(p) PROVE SentInv'
  BY <1>7
  DEF ServerAnswers, worldVars, fixedVars, cacheVars, callVars
<1>8. CASE Rotate
  BY <1>8
  DEF Rotate, worldVars, fixedVars, cacheVars, callVars
<1>9. CASE Expire
  BY <1>9
  DEF Expire, worldVars, fixedVars, cacheVars, callVars
<1>10. CASE Tick
  BY <1>10
  DEF Tick, UpTo, worldVars, fixedVars, cacheVars, callVars
<1>11. CASE UNCHANGED <<fileGen, validGen, token, tokenAge, rotatedFor, overlap,
                     readFails, pc, stepAge, sent, resp>>
  BY <1>11
<1> QED
  BY <1>1, <1>2, <1>3, <1>4, <1>5, <1>6, <1>7, <1>8, <1>9, <1>10, <1>11
  DEF Next, CallStep, Relabel, vars, worldVars, fixedVars, cacheVars, callVars

\* The inductive invariant holds initially.
LEMMA InvInit == Init => IInv
<1> SUFFICES ASSUME Init PROVE IInv
  OBVIOUS
<1>1. TypeOK
  BY TypeInit
<1>2. BudgetInv
  BY DEF Init, BudgetInv
<1>3. StaleInv
  BY DEF Init, StaleInv, Cached
<1>4. TokenInv /\ SentInv
  BY DurationAssumption, ValueAssumption DEF Init, TokenInv, SentInv
<1> QED
  BY <1>1, <1>2, <1>3, <1>4 DEF IInv

\* The inductive invariant holds in every reachable state of the cache.
THEOREM Invariance == Spec => []IInv
<1>1. Init => IInv
  BY InvInit
<1>2. IInv /\ [Next]_vars => IInv'
  BY TypeStep, BudgetStep, StaleStep, TokenStep, SentStep DEF IInv
<1> QED
  BY <1>1, <1>2, PTL DEF Spec

\* Every variable keeps its type.
THEOREM TypeCorrect == Spec => []TypeOK
<1>1. IInv => TypeOK
  BY DEF IInv
<1> QED
  BY <1>1, Invariance, PTL

\* A namespace lookup, with however many attempts and waits, is over within
\* nsLookupBudget and within what its context has left.
THEOREM LookupInTime == Spec => []BudgetKept
<1>1. IInv => BudgetKept
  BY DurationAssumption DEF IInv, TypeOK, BudgetInv, BudgetKept, Deadline
<1> QED
  BY <1>1, Invariance, PTL

\* What getCachedLabels serves was the label at most ttl plus one attempt
\* timeout ago, with any number of concurrent lookups.
THEOREM ServedFresh == Spec => []BoundedStaleness
<1>1. IInv => BoundedStaleness
  BY DurationAssumption DEF IInv, TypeOK, StaleInv, BoundedStaleness, Cached,
     Horizon
<1> QED
  BY <1>1, Invariance, PTL

\* No lookup of any caller gets a 401 if the API server accepts a rotated
\* token for tokenTTL and one attempt more and the file can be read: one
\* cached token, re-read every tokenTTL, is enough for any number of callers.
THEOREM NeverRefused == Spec => []NoUnauthorized
<1>1. IInv => NoUnauthorized
  BY DEF IInv, SentInv, NoUnauthorized
<1> QED
  BY <1>1, Invariance, PTL

==============================================================================
