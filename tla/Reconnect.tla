----------------------------- MODULE Reconnect -----------------------------
(***************************************************************************)
(* The life of the plugin process (internal/nri/plugin.go): runNRI, which  *)
(* keeps a connection to the runtime with a backoff and gives up after a   *)
(* while, the readiness flag that readyz reports, and the shutdown in Run, *)
(* which waits for the verifiers and scans that handlers start.  Handlers  *)
(* are goroutines of the NRI stub: they outlive the connection they came   *)
(* from, and they are served until the stub is stopped.                    *)
(*                                                                         *)
(* The stub, the runtime and sync.WaitGroup are external.  One Tick is     *)
(* nriBackoffMin, 100 ms.                                                  *)
(***************************************************************************)
EXTENDS Integers

CONSTANTS
    BackoffMin, BackoffMax,  \* nriBackoffMin, nriBackoffMax
    GiveUp,       \* nriGiveUp
    AttemptMax,   \* how long stub.Run and the runtime take to synchronise
                  \* or to fail: their own timeouts
    MaxRequests   \* bound: requests the runtime sends

ASSUME ReconnectAssumption ==
    /\ BackoffMin \in Nat \ {0} /\ BackoffMax \in Nat
    /\ BackoffMin =< BackoffMax
    /\ GiveUp \in Nat /\ AttemptMax \in Nat /\ MaxRequests \in Nat

VARIABLES
    (* the connection *)
    link,       \* "none", "up" (connected) or "synced" (Synchronize called)
    attempt,    \* ticks since stub.Run was called, until it is synced
    requests,   \* requests sent so far
    (* runNRI *)
    rpc,        \* "run" (in stub.Run), "returned", "sleep" or "ended"
    failing,    \* ticks since failingSince, -1 while that is zero
    backoff, slept,
    result,     \* what runNRI has sent to errCh
    (* handlers in flight *)
    syncing,    \* Synchronize, before ready.Store
    adopting,   \* Synchronize, between ready.Store and verifyWG.Add
    creating,   \* CreateContainer, before verifyWG.Add
    ready,
    (* verifyWG: verifiers and scans *)
    early,      \* those started before stopCh was closed
    late,       \* those started after
    (* Run *)
    signal,     \* ctx is cancelled
    path,       \* the case Run's select took, "none" before
    main,       \* where Run is
    (* history *)
    deaf,       \* ticks since the plugin was last synchronised
    falseReady  \* ticks for which readyz has been wrong without a break

linkVars == <<link, attempt, requests>>
runVars == <<rpc, failing, backoff, slept, result>>
handlerVars == <<syncing, adopting, creating, ready>>
wgVars == <<early, late>>
mainVars == <<signal, path, main>>
histVars == <<deaf, falseReady>>
vars == <<linkVars, runVars, handlerVars, wgVars, mainVars, histVars>>

Alive == main \notin {"exited", "panicked"}

\* stopCh is closed.
Stopped == main # "serve"

Init ==
    /\ link = "none" /\ attempt = 0 /\ requests = 0
    /\ rpc = "run" /\ failing = -1 /\ backoff = BackoffMin /\ slept = 0
    /\ result = "none"
    /\ syncing = 0 /\ adopting = 0 /\ creating = 0 /\ ready = FALSE
    /\ early = 0 /\ late = 0
    /\ signal = FALSE /\ path = "none" /\ main = "serve"
    /\ deaf = 0 /\ falseReady = 0

-----------------------------------------------------------------------------
(* The runtime and the stub                                                *)

Connect ==
    /\ Alive
    /\ rpc = "run" /\ link = "none"
    /\ link' = "up"
    /\ UNCHANGED <<attempt, requests, runVars, handlerVars, wgVars, mainVars,
                   histVars>>

\* The runtime hands over its pods and containers, once per connection.
SendSynchronize ==
    /\ Alive
    /\ link = "up"
    /\ requests < MaxRequests
    /\ link' = "synced"
    /\ requests' = requests + 1
    /\ syncing' = syncing + 1
    /\ falseReady' = 0
    /\ UNCHANGED <<attempt, runVars, adopting, creating, ready, wgVars,
                   mainVars, deaf>>

SendCreate ==
    /\ Alive
    /\ link = "synced"
    /\ requests < MaxRequests
    /\ requests' = requests + 1
    /\ creating' = creating + 1
    /\ UNCHANGED <<link, attempt, runVars, syncing, adopting, ready, wgVars,
                   mainVars, histVars>>

\* stub.Run returns: it could not connect, the connection is lost, or the
\* context is cancelled.
RunReturns ==
    /\ Alive
    /\ rpc = "run"
    /\ rpc' = "returned"
    /\ link' = "none" /\ attempt' = 0
    /\ UNCHANGED <<requests, failing, backoff, slept, result, handlerVars,
                   wgVars, mainVars, histVars>>

-----------------------------------------------------------------------------
(* Handlers                                                                *)

\* verifyWG.Add(1)
Add ==
    IF Stopped THEN late' = late + 1 /\ UNCHANGED early
               ELSE early' = early + 1 /\ UNCHANGED late

\* Synchronize declares the plugin ready, whatever has become of its
\* connection, ...
SynchronizeReady ==
    /\ Alive
    /\ syncing > 0
    /\ syncing' = syncing - 1 /\ adopting' = adopting + 1
    /\ ready' = TRUE
    /\ deaf' = 0
    /\ UNCHANGED <<linkVars, runVars, creating, wgVars, mainVars, falseReady>>

\* ... adopts the staged containers and starts a scan.
SynchronizeScan ==
    /\ Alive
    /\ adopting > 0
    /\ adopting' = adopting - 1
    /\ Add
    /\ UNCHANGED <<linkVars, runVars, syncing, creating, ready, mainVars,
                   histVars>>

\* CreateContainer has injected, and starts a verifier.
CreateVerified ==
    /\ Alive
    /\ creating > 0
    /\ creating' = creating - 1
    /\ Add
    /\ UNCHANGED <<linkVars, runVars, syncing, adopting, ready, mainVars,
                   histVars>>

\* CreateContainer returns without an adjustment.
CreateSkipped ==
    /\ Alive
    /\ creating > 0
    /\ creating' = creating - 1
    /\ UNCHANGED <<linkVars, runVars, syncing, adopting, ready, wgVars,
                   mainVars, histVars>>

\* A verifier or a scan ends, verifyWG.Done: the last one wakes the waiter.
Done ==
    /\ Alive
    /\ \/ early > 0 /\ early' = early - 1 /\ UNCHANGED late
       \/ late > 0 /\ late' = late - 1 /\ UNCHANGED early
    /\ main' = IF main = "blocked" /\ early' + late' = 0 THEN "woken" ELSE main
    /\ UNCHANGED <<linkVars, runVars, handlerVars, signal, path, histVars>>

-----------------------------------------------------------------------------
(* runNRI                                                                  *)

\* Fault: a connection that worked does not count.
FailingForNaive == IF failing = -1 THEN 0 ELSE failing

\* Fault: every failure starts the clock anew.
FailingForReset == 0

\* How long the plugin has been without a working connection.
FailingFor == IF ready \/ failing = -1 THEN 0 ELSE failing

\* Fault: ready stays as it is.
SwapReadyNot == UNCHANGED ready

\* ready.Swap(false)
SwapReady == ready' = FALSE

\* stub.Run has returned: end, give up, or sleep and try again.
HandleReturn ==
    /\ Alive
    /\ rpc = "returned"
    /\ SwapReady
    /\ falseReady' = IF ready' THEN falseReady ELSE 0
    /\ slept' = 0
    /\ IF signal
       THEN /\ rpc' = "ended" /\ result' = "nil"
            /\ UNCHANGED <<failing, backoff>>
       ELSE /\ failing' = FailingFor
            /\ backoff' = IF ready \/ failing = -1 THEN BackoffMin ELSE backoff
            /\ IF FailingFor > GiveUp
               THEN rpc' = "ended" /\ result' = "error"
               ELSE rpc' = "sleep" /\ UNCHANGED result
    /\ UNCHANGED <<linkVars, syncing, adopting, creating, wgVars, mainVars,
                   deaf>>

\* Fault: the backoff is not capped.
NextBackoffUncapped == 2 * backoff

\* The backoff after this one.
NextBackoff == IF 2 * backoff < BackoffMax THEN 2 * backoff ELSE BackoffMax

SleepEnds ==
    /\ Alive
    /\ rpc = "sleep"
    /\ \/ /\ slept = backoff
          /\ rpc' = "run"
          /\ backoff' = NextBackoff
          /\ UNCHANGED result
       \/ /\ signal
          /\ rpc' = "ended" /\ result' = "nil"
          /\ UNCHANGED backoff
    /\ UNCHANGED <<linkVars, failing, slept, handlerVars, wgVars, mainVars,
                   histVars>>

-----------------------------------------------------------------------------
(* Run                                                                     *)

\* SIGTERM or SIGINT.
Signal ==
    /\ Alive
    /\ ~signal
    /\ signal' = TRUE
    /\ UNCHANGED <<linkVars, runVars, handlerVars, wgVars, path, main,
                   histVars>>

\* Fault: only the signal ends the process.
SelectSignalOnly ==
    /\ main = "serve"
    /\ signal /\ path' = "signal"
    /\ main' = "closed"
    /\ UNCHANGED <<linkVars, runVars, handlerVars, wgVars, signal, histVars>>

\* Run's select; stopCleanup and stopCh are closed.
Select ==
    /\ main = "serve"
    /\ \/ signal /\ path' = "signal"
       \/ result # "none" /\ path' = result
    /\ main' = "closed"
    /\ UNCHANGED <<linkVars, runVars, handlerVars, wgVars, signal, histVars>>

\* Fault: nobody is waited for.
WaitNot ==
    /\ main = "closed"
    /\ main' = "http"
    /\ UNCHANGED <<linkVars, runVars, handlerVars, wgVars, signal, path,
                   histVars>>

\* verifyWG.Wait() goes on at once if the counter is zero, else it blocks.
Wait ==
    /\ main = "closed"
    /\ main' = IF early + late = 0 THEN "http" ELSE "blocked"
    /\ UNCHANGED <<linkVars, runVars, handlerVars, wgVars, signal, path,
                   histVars>>

\* The waiter runs again after the counter was zero.  If it is not any more,
\* sync panics: "WaitGroup is reused before previous Wait has returned".
WaitReturns ==
    /\ main = "woken"
    /\ main' = IF early + late = 0 THEN "http" ELSE "panicked"
    /\ UNCHANGED <<linkVars, runVars, handlerVars, wgVars, signal, path,
                   histVars>>

\* srv.Shutdown; the stub has ended by itself unless there was a signal.
ShutdownHTTP ==
    /\ main = "http"
    /\ main' = IF path = "signal" THEN "stop" ELSE "exited"
    /\ UNCHANGED <<linkVars, runVars, handlerVars, wgVars, signal, path,
                   histVars>>

StopStub ==
    /\ main = "stop"
    /\ link' = "none"
    /\ main' = "exited"
    /\ UNCHANGED <<attempt, requests, runVars, handlerVars, wgVars, signal,
                   path, histVars>>

-----------------------------------------------------------------------------
DeafBound == GiveUp + 2 * (BackoffMax + AttemptMax)

UpTo(n, max) == IF n < max THEN n + 1 ELSE n

\* Time passes, but not past a timer, and not while runNRI, Synchronize or
\* Run has a step to take that waits for nothing.
Tick ==
    /\ Alive
    /\ syncing = 0 /\ adopting = 0
    /\ rpc # "returned"
    /\ rpc = "sleep" => slept < backoff /\ ~signal
    /\ rpc = "run" /\ link # "synced" => attempt < AttemptMax
    /\ \/ main = "serve" /\ ~signal /\ result = "none"
       \/ main = "blocked"
    /\ attempt' = IF rpc = "run" /\ link # "synced" THEN attempt + 1 ELSE attempt
    /\ slept' = IF rpc = "sleep" THEN slept + 1 ELSE slept
    /\ failing' = IF failing = -1 THEN -1 ELSE UpTo(failing, GiveUp + 1)
    /\ deaf' = IF link = "synced" THEN 0 ELSE UpTo(deaf, DeafBound + 1)
    /\ falseReady' = IF ready /\ link # "synced"
                     THEN UpTo(falseReady, BackoffMax + AttemptMax + 1) ELSE 0
    /\ UNCHANGED <<link, requests, rpc, backoff, result, handlerVars, wgVars,
                   mainVars>>

Handler ==
    SynchronizeReady \/ SynchronizeScan \/ CreateVerified \/ CreateSkipped

RunNRI == HandleReturn \/ SleepEnds

Run == Select \/ Wait \/ WaitReturns \/ ShutdownHTTP \/ StopStub

\* The process is gone.
Ended == ~Alive /\ UNCHANGED vars

Next ==
    \/ Connect \/ SendSynchronize \/ SendCreate \/ RunReturns
    \/ Handler \/ Done \/ RunNRI
    \/ Signal \/ Run
    \/ Tick
    \/ Ended

Spec == Init /\ [][Next]_vars

\* Goroutines are scheduled; verifiers and scans end, by their timers or
\* because stopCh is closed.
FairSpec ==
    /\ Spec
    /\ WF_vars(Handler) /\ WF_vars(Done) /\ WF_vars(RunNRI) /\ WF_vars(Run)

-----------------------------------------------------------------------------
(* Properties                                                              *)

TypeOK ==
    /\ link \in {"none", "up", "synced"}
    /\ attempt \in 0..AttemptMax /\ requests \in 0..MaxRequests
    /\ rpc \in {"run", "returned", "sleep", "ended"}
    /\ failing \in -1..(GiveUp + 1)
    /\ backoff \in BackoffMin..BackoffMax /\ slept \in 0..BackoffMax
    /\ result \in {"none", "nil", "error"}
    /\ syncing \in Nat /\ adopting \in Nat /\ creating \in Nat
    /\ ready \in BOOLEAN
    /\ early \in Nat /\ late \in Nat
    /\ signal \in BOOLEAN /\ path \in {"none", "signal", "nil", "error"}
    /\ main \in {"serve", "closed", "blocked", "woken", "http", "stop",
                 "exited", "panicked"}
    /\ deaf \in 0..(DeafBound + 1)
    /\ falseReady \in 0..(BackoffMax + AttemptMax + 1)

\* The process lets the kubelet restart it only after it has had no working
\* connection for longer than nriGiveUp, however many connections were made
\* and lost before (runNRI: failingSince).
GiveUpJustified ==
    [][result = "none" /\ result' = "error" => deaf > GiveUp]_vars

\* It does so in time: a running plugin is without a Synchronize for at most
\* the give-up time, two backoffs and two attempts.  That keeps the first
\* sweep of the orphan cleaner away from an empty tracked set.
DeafBounded == main = "serve" => deaf =< DeafBound

\* A Synchronize that outlives its connection declares the plugin ready after
\* runNRI has declared it not to be (plugin.go:438 against 404), so that the
\* plugin may be Ready while disconnected, which docs/architecture.md:200 says
\* it is not.  readyz is then wrong until the next attempt fails or is
\* synchronised: a backoff and an attempt at most, as long as the process
\* serves.
FalseReadyBounded == main = "serve" => falseReady =< BackoffMax + AttemptMax

\* No verifier and no scan that was started before the shutdown is cut off by
\* the end of the process: Run has waited for them (verifyWG).
NoneAbandoned == main = "exited" => early = 0

\* After a signal, and after runNRI has given up, the process ends, although
\* handlers of the runtime's last requests go on starting goroutines that it
\* waits for.
ShutdownEnds == (signal \/ result # "none") ~> ~Alive

\* On SIGTERM the plugin exits cleanly.
CleanExit == main # "panicked"

=============================================================================
