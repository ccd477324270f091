---------------------------- MODULE NsLabelCache ----------------------------
(***************************************************************************)
(* The namespace-label cache of the NRI plugin (internal/nri/namespace.go) *)
(* for one namespace and the opt-in key: getLabel with its TTL, the retry  *)
(* loop that has to stay within its budget and the request's deadline, and *)
(* the service account token that is re-read from a file the kubelet       *)
(* rotates.  Callers are the goroutines that look the label up at the same *)
(* time: a request handler and a missed-container scan.                    *)
(*                                                                         *)
(* The API server, the kubelet's rotation and whoever edits the namespace  *)
(* are external.  One Tick is the unit of all durations.                   *)
(***************************************************************************)
EXTENDS Integers

CONSTANTS
    Caller,    \* goroutines that call getLabel
    Label,     \* what the namespace can say under the key, absence included
    TTL,       \* how long an entry is served (ttl)
    Budget,    \* nsLookupBudget
    Attempt,   \* nsLookupAttemptTimeout
    Delay,     \* nsLookupRetryDelay
    TokenTTL,  \* how long the token is not re-read (tokenTTL)
    Deadlines, \* the time a caller's context can have left when it calls
    Overlaps,  \* how long an API server may accept a token after its rotation
    MaxGen,    \* bound: token generations
    None       \* no entry, no response, no answer

ASSUME DurationAssumption ==
    /\ TTL \in Nat /\ Budget \in Nat /\ Attempt \in Nat /\ Delay \in Nat
    /\ TokenTTL \in Nat \ {0} /\ MaxGen \in Nat \ {0}
    /\ Deadlines \subseteq Nat /\ Overlaps \subseteq Nat
    /\ Attempt =< Budget

ASSUME ValueAssumption ==
    /\ None \notin Label \cup {"401"}
    /\ "401" \notin Label

Gen == 1..MaxGen

\* An age from which nothing is told apart any more.
Horizon == TTL + Attempt + 1

VARIABLES
    (* the world *)
    label,      \* what the namespace says now
    since,      \* since[v]: ticks since it last said v, up to Horizon
    fileGen,    \* the token generation in the file
    validGen,   \* the oldest generation the API server accepts
    rotatedFor, \* ticks since the last rotation, up to overlap
    overlap,    \* how long this API server accepts a token after its rotation
    readFails,  \* whether reading the token file may fail
    (* the cache *)
    enabled,    \* the client is not nil
    entry,      \* entries[namespace].labels, or None
    entryAge,   \* ticks since entry.fetched, up to TTL + 1
    token,      \* the cached token's generation, 0 before the first read
    tokenAge,   \* ticks since tokenFetched, up to TokenTTL
    (* the callers *)
    pc,         \* "idle", "attempt" or "wait"
    limit,      \* when the caller's context expires
    elapsed,    \* ticks since fetchLabelsWithRetry was entered
    stepAge,    \* ticks since the attempt or the wait began
    sent,       \* the token generation sent in the attempt
    resp        \* what the API server has answered, or None

fixedVars == <<overlap, readFails>>
worldVars == <<label, since, fileGen, validGen, rotatedFor, fixedVars>>
cacheVars == <<enabled, entry, entryAge, token, tokenAge>>
callVars == <<pc, limit, elapsed, stepAge, sent, resp>>
vars == <<worldVars, cacheVars, callVars>>

\* newNSLabelCache disables lookups for good if there is no token to read.
Init ==
    /\ label \in Label
    /\ since = [v \in Label |-> IF v = label THEN 0 ELSE Horizon]
    /\ overlap \in Overlaps /\ readFails \in BOOLEAN
    /\ fileGen = 1 /\ validGen = 1 /\ rotatedFor = overlap
    /\ enabled \in BOOLEAN
    /\ entry = None /\ entryAge = 0
    /\ token = 0 /\ tokenAge = 0
    /\ pc = [p \in Caller |-> "idle"]
    /\ limit = [p \in Caller |-> 0]
    /\ elapsed = [p \in Caller |-> 0]
    /\ stepAge = [p \in Caller |-> 0]
    /\ sent = [p \in Caller |-> 0]
    /\ resp = [p \in Caller |-> None]

-----------------------------------------------------------------------------
(* The cache                                                               *)

\* Fault: entries never expire.
CachedForever == entry # None

\* getCachedLabels finds an entry that is young enough.
Cached == entry # None /\ entryAge =< TTL

\* Fault: the token is read once and kept for the process's lifetime.
TokenReadOnce(p) ==
    /\ token' = IF token = 0 THEN fileGen ELSE token
    /\ sent' = [sent EXCEPT ![p] = token']
    /\ UNCHANGED tokenAge

\* currentToken: the cached generation while it is young, else the file's; if
\* the file cannot be read the last one stays in use.
CurrentToken(p) ==
    IF token # 0 /\ tokenAge < TokenTTL
    THEN /\ sent' = [sent EXCEPT ![p] = token]
         /\ UNCHANGED <<token, tokenAge>>
    ELSE \/ /\ token' = fileGen /\ tokenAge' = 0
            /\ sent' = [sent EXCEPT ![p] = fileGen]
         \/ /\ readFails
            /\ sent' = [sent EXCEPT ![p] = token]
            /\ UNCHANGED <<token, tokenAge>>

\* fetchLabels sends its request.
StartAttempt(p) ==
    /\ pc' = [pc EXCEPT ![p] = "attempt"]
    /\ stepAge' = [stepAge EXCEPT ![p] = 0]
    /\ resp' = [resp EXCEPT ![p] = None]
    /\ CurrentToken(p)

\* getLabel misses the cache (or the entry is too old) and starts a lookup.
\* A hit, or a disabled client, answers at once and changes nothing.
GetLabel(p) ==
    /\ pc[p] = "idle"
    /\ enabled
    /\ ~Cached
    /\ \E d \in Deadlines : limit' = [limit EXCEPT ![p] = d]
    /\ elapsed' = [elapsed EXCEPT ![p] = 0]
    /\ StartAttempt(p)
    /\ UNCHANGED <<worldVars, enabled, entry, entryAge>>

\* The lookup returns to getLabel's caller.
Return(p) ==
    /\ pc' = [pc EXCEPT ![p] = "idle"]
    /\ elapsed' = [elapsed EXCEPT ![p] = 0]
    /\ stepAge' = [stepAge EXCEPT ![p] = 0]
    /\ limit' = [limit EXCEPT ![p] = 0]
    /\ sent' = [sent EXCEPT ![p] = 0]
    /\ resp' = [resp EXCEPT ![p] = None]

\* Fault: the status code is not looked at.
AttemptAnyStatus(p) ==
    /\ pc[p] = "attempt"
    /\ resp[p] # None
    /\ entry' = resp[p] /\ entryAge' = 0
    /\ Return(p)
    /\ UNCHANGED <<worldVars, enabled, token, tokenAge>>

\* The labels arrive: they are stored as of now, over whatever is there.
AttemptSucceeds(p) ==
    /\ pc[p] = "attempt"
    /\ resp[p] \in Label
    /\ entry' = resp[p] /\ entryAge' = 0
    /\ Return(p)
    /\ UNCHANGED <<worldVars, enabled, token, tokenAge>>

\* A 401 ends the lookup at once.
AttemptUnauthorized(p) ==
    /\ pc[p] = "attempt"
    /\ resp[p] = "401"
    /\ Return(p)
    /\ UNCHANGED <<worldVars, cacheVars>>

\* The lookup's deadline: the budget, or the context's if that is earlier.
Deadline(p) == IF limit[p] < Budget THEN limit[p] ELSE Budget

\* Fault: there is time for the delay, not for the attempt after it.
DelayFits(p) == elapsed[p] + Delay =< Deadline(p)

\* A whole further attempt still fits.
RetryFits(p) == elapsed[p] + Delay + Attempt =< Deadline(p)

\* The attempt fails otherwise: no token, connection error, timeout, other
\* status, unreadable body.
AttemptFails(p) ==
    /\ pc[p] = "attempt"
    /\ IF RetryFits(p)
       THEN /\ pc' = [pc EXCEPT ![p] = "wait"]
            /\ stepAge' = [stepAge EXCEPT ![p] = 0]
            /\ UNCHANGED <<limit, elapsed, sent, resp>>
       ELSE Return(p)
    /\ UNCHANGED <<worldVars, cacheVars>>

\* Fault: every attempt gets a budget of its own.
RetryFreshBudget(p) ==
    /\ pc[p] = "wait"
    /\ stepAge[p] = Delay
    /\ StartAttempt(p)
    /\ elapsed' = [elapsed EXCEPT ![p] = 0]
    /\ UNCHANGED <<worldVars, enabled, entry, entryAge, limit>>

\* The delay is over: the next attempt, with the token as it is then.
Retry(p) ==
    /\ pc[p] = "wait"
    /\ stepAge[p] = Delay
    /\ StartAttempt(p)
    /\ UNCHANGED <<worldVars, enabled, entry, entryAge, limit, elapsed>>

\* The caller's context is cancelled while it waits to retry.
WaitCancelled(p) ==
    /\ pc[p] = "wait"
    /\ Return(p)
    /\ UNCHANGED <<worldVars, cacheVars>>

-----------------------------------------------------------------------------
(* The world                                                               *)

\* The API server answers the request it got: 401 for a token it no longer
\* accepts, the labels of this moment otherwise.  No token, no request.
ServerAnswers(p) ==
    /\ pc[p] = "attempt"
    /\ resp[p] = None
    /\ sent[p] # 0
    /\ resp' = [resp EXCEPT ![p] = IF sent[p] < validGen THEN "401" ELSE label]
    /\ UNCHANGED <<worldVars, cacheVars, pc, limit, elapsed, stepAge, sent>>

Relabel ==
    /\ label' \in Label \ {label}
    /\ since' = [since EXCEPT ![label'] = 0]
    /\ UNCHANGED <<fileGen, validGen, rotatedFor, fixedVars, cacheVars, callVars>>

\* The kubelet writes a new token; the old one is accepted for a while.
Rotate ==
    /\ fileGen < MaxGen
    /\ fileGen = validGen
    /\ fileGen' = fileGen + 1
    /\ rotatedFor' = 0
    /\ UNCHANGED <<label, since, validGen, fixedVars, cacheVars, callVars>>

Expire ==
    /\ validGen < fileGen
    /\ rotatedFor = overlap
    /\ validGen' = fileGen
    /\ UNCHANGED <<label, since, fileGen, rotatedFor, fixedVars, cacheVars, callVars>>

UpTo(n, max) == IF n < max THEN n + 1 ELSE n

\* Time passes, but not past the end of an attempt or a wait.
Tick ==
    /\ \A p \in Caller :
         /\ pc[p] = "attempt" => stepAge[p] < Attempt /\ elapsed[p] < limit[p]
         /\ pc[p] = "wait" => stepAge[p] < Delay
    /\ since' = [v \in Label |-> IF v = label THEN 0 ELSE UpTo(since[v], Horizon)]
    /\ rotatedFor' = UpTo(rotatedFor, overlap)
    /\ entryAge' = IF entry = None THEN 0 ELSE UpTo(entryAge, TTL + 1)
    /\ tokenAge' = IF token = 0 THEN 0 ELSE UpTo(tokenAge, TokenTTL)
    /\ elapsed' = [p \in Caller |->
                     IF pc[p] = "idle" THEN 0 ELSE elapsed[p] + 1]
    /\ stepAge' = [p \in Caller |->
                     IF pc[p] = "idle" THEN 0 ELSE stepAge[p] + 1]
    /\ UNCHANGED <<label, fileGen, validGen, fixedVars, enabled, entry, token, pc,
                   limit, sent, resp>>

-----------------------------------------------------------------------------
CallStep(p) ==
    \/ AttemptSucceeds(p) \/ AttemptUnauthorized(p) \/ AttemptFails(p)
    \/ Retry(p)

Next ==
    \/ \E p \in Caller :
         GetLabel(p) \/ CallStep(p) \/ WaitCancelled(p) \/ ServerAnswers(p)
    \/ Relabel \/ Rotate \/ Expire
    \/ Tick

Spec == Init /\ [][Next]_vars

\* Timers fire: an attempt that has run out of time ends, a wait is over.
TimeOut(p) ==
    \/ /\ stepAge[p] = Attempt \/ elapsed[p] = limit[p]
       /\ CallStep(p)
    \/ Retry(p)

\* Time passes and goroutines whose timer has fired run.
Fairness == WF_vars(Tick) /\ \A p \in Caller : WF_vars(TimeOut(p))

FairSpec == Spec /\ Fairness

-----------------------------------------------------------------------------
(* Properties                                                              *)

TypeOK ==
    /\ label \in Label
    /\ since \in [Label -> 0..Horizon]
    /\ fileGen \in Gen /\ validGen \in Gen /\ rotatedFor \in 0..overlap
    /\ overlap \in Overlaps /\ readFails \in BOOLEAN
    /\ enabled \in BOOLEAN
    /\ entry \in Label \cup {None} /\ entryAge \in 0..(TTL + 1)
    /\ token \in 0..MaxGen /\ tokenAge \in 0..TokenTTL
    /\ pc \in [Caller -> {"idle", "attempt", "wait"}]
    /\ limit \in [Caller -> Nat]
    /\ elapsed \in [Caller -> Nat] /\ stepAge \in [Caller -> Nat]
    /\ sent \in [Caller -> 0..MaxGen]
    /\ resp \in [Caller -> Label \cup {None, "401"}]

\* A lookup, retries and waits included, never takes longer than its budget,
\* nor than its caller's context has left: the NRI request that it is part
\* of must be answered in time (nsLookupBudget, fetchLabelsWithRetry).
BudgetKept ==
    \A p \in Caller : pc[p] # "idle" =>
        elapsed[p] =< Budget /\ elapsed[p] =< limit[p]

\* What getLabel serves from the cache was the namespace's label at most
\* TTL + Attempt ago, although an entry's age counts from the moment the
\* answer was stored and two lookups may store theirs in either order.
BoundedStaleness == Cached => since[entry] =< TTL + Attempt

\* If the API server accepts a rotated token for TokenTTL and one attempt
\* more, and the file can be read, no lookup of any caller is refused: the
\* token the callers share is re-read often enough (currentToken).
NoUnauthorized ==
    overlap >= TokenTTL + Attempt /\ ~readFails =>
        \A p \in Caller : resp[p] # "401"

\* Every lookup ends, whatever the API server does.
LookupEnds == \A p \in Caller : pc[p] # "idle" ~> pc[p] = "idle"

=============================================================================
