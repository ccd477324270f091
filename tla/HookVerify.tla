----------------------------- MODULE HookVerify -----------------------------
(***************************************************************************)
(* The race that verifyHookCompletion (internal/nri/plugin.go) runs for    *)
(* each injected container: a goroutine of the plugin waits for the hook's *)
(* timeout, counted from CreateContainer, polls the staged directory for   *)
(* hook.done and otherwise counts the hook as incomplete.  Meanwhile the   *)
(* runtime starts the hook process (internal/runtime/hook) some time after *)
(* CreateContainer, kills it when it has run for the same timeout, may     *)
(* remove the container, and the plugin may shut down.                     *)
(*                                                                         *)
(* One Tick is a poll interval, 100 ms.                                    *)
(***************************************************************************)
EXTENDS Integers

CONSTANTS
    Timeout,   \* hookTimeoutSec, in ticks
    Polls,     \* how often hook.done is polled for
    MaxDelay   \* bound: ticks from CreateContainer to the start of the hook

ASSUME HookVerifyAssumption ==
    Timeout \in Nat /\ Polls \in Nat \ {0} /\ MaxDelay \in Nat

VARIABLES
    hook,      \* the hook process: "ignored" if the runtime never runs it
    hookAge,   \* ticks it has run
    delay,     \* ticks from CreateContainer to its start
    crumbs,    \* the breadcrumb files in the staged directory
    lost,      \* history: breadcrumbs that could not be written
    removal,   \* RemoveContainer's RemoveAll: "no", "files" gone, "dir" gone
    vpc,       \* where verifyHookCompletion is
    age,       \* ticks since CreateContainer, up to where it matters
    polls,     \* polls done
    pollAge,   \* ticks since the last poll
    counted,   \* what was counted in HookIncompleteTotal, and with which text
    stop       \* stopCh is closed

hookVars == <<hook, hookAge, delay>>
verifyVars == <<vpc, polls, pollAge, counted>>
crumbVars == <<crumbs, lost>>
vars == <<hookVars, crumbVars, removal, verifyVars, age, stop>>

\* CreateContainer has staged the bundle and started the goroutine.
Init ==
    /\ hook \in {"pending", "ignored"} /\ hookAge = 0 /\ delay = 0
    /\ crumbs = {} /\ lost = {}
    /\ removal = "no"
    /\ vpc = "wait" /\ polls = 0 /\ pollAge = 0 /\ counted = "no"
    /\ age = 0
    /\ stop = FALSE

-----------------------------------------------------------------------------
(* The hook process                                                        *)

\* breadcrumb: the file is there, or writing it has failed, for whatever
\* reason; the hook ignores that and goes on.
Breadcrumb(name) ==
    \/ /\ removal = "no"
       /\ crumbs' = crumbs \cup {name}
       /\ UNCHANGED lost
    \/ /\ lost' = lost \cup {name}
       /\ UNCHANGED crumbs

HookStart ==
    /\ hook = "pending"
    /\ hook' = "running" /\ hookAge' = 0 /\ delay' = age
    /\ Breadcrumb("started")
    /\ UNCHANGED <<removal, verifyVars, age, stop>>

\* The processors ran and the wrapper context is persisted.
HookDone ==
    /\ hook = "running"
    /\ hook' = "done"
    /\ Breadcrumb("done")
    /\ UNCHANGED <<hookAge, delay, removal, verifyVars, age, stop>>

\* An error return before hook.done (state, spec, wrapper context); the
\* process still exits with success, and the container starts.
HookFailsOpen ==
    /\ hook = "running"
    /\ hook' = "failed"
    /\ UNCHANGED <<hookAge, delay, crumbVars, removal, verifyVars, age, stop>>

\* The runtime kills the hook at its deadline, counted from its start.
HookKilled ==
    /\ hook = "running"
    /\ hookAge = Timeout
    /\ hook' = "killed"
    /\ UNCHANGED <<hookAge, delay, crumbVars, removal, verifyVars, age, stop>>

-----------------------------------------------------------------------------
(* RemoveContainer and shutdown                                            *)

\* The runtime removes the container, not while its hook runs.  RemoveAll
\* takes the files first and the directory then.
RemoveFiles ==
    /\ removal = "no"
    /\ hook # "running"
    /\ hook' = IF hook = "pending" THEN "ignored" ELSE hook
    /\ removal' = "files"
    /\ crumbs' = {}
    /\ UNCHANGED <<hookAge, delay, lost, verifyVars, age, stop>>

RemoveDir ==
    /\ removal = "files"
    /\ removal' = "dir"
    /\ UNCHANGED <<hookVars, crumbVars, verifyVars, age, stop>>

\* Run closes stopCh and then waits for verifyWG.
CloseStop ==
    /\ ~stop
    /\ stop' = TRUE
    /\ UNCHANGED <<hookVars, crumbVars, removal, verifyVars, age>>

-----------------------------------------------------------------------------
(* verifyHookCompletion                                                    *)

VerifyTimeout ==
    /\ vpc = "wait"
    /\ age >= Timeout
    /\ vpc' = "poll"
    /\ UNCHANGED <<hookVars, crumbVars, removal, polls, pollAge, counted, age,
                   stop>>

\* Stat hook.done: completed, or sleep for a poll interval.
VerifyPoll ==
    /\ vpc = "poll"
    /\ vpc' = IF "done" \in crumbs THEN "ended" ELSE "sleep"
    /\ polls' = polls + 1 /\ pollAge' = 0
    /\ UNCHANGED <<hookVars, crumbVars, removal, counted, age, stop>>

\* Fault: one poll too many.
VerifyPollExtra ==
    /\ vpc = "sleep"
    /\ pollAge = 1
    /\ vpc' = IF polls =< Polls THEN "poll" ELSE "dir"
    /\ UNCHANGED <<hookVars, crumbVars, removal, polls, pollAge, counted, age,
                   stop>>

\* Fault: hook.done is looked for only once.
VerifyPollOnce ==
    /\ vpc = "sleep"
    /\ pollAge = 1
    /\ vpc' = "dir"
    /\ UNCHANGED <<hookVars, crumbVars, removal, polls, pollAge, counted, age,
                   stop>>

\* The sleep is over: poll again, or give up on hook.done.
VerifyPollAgain ==
    /\ vpc = "sleep"
    /\ pollAge = 1
    /\ vpc' = IF polls < Polls THEN "poll" ELSE "dir"
    /\ UNCHANGED <<hookVars, crumbVars, removal, polls, pollAge, counted, age,
                   stop>>

\* Both waits are cut short by stopCh.
VerifyStopped ==
    /\ vpc \in {"wait", "sleep"}
    /\ stop
    /\ vpc' = "ended"
    /\ UNCHANGED <<hookVars, crumbVars, removal, polls, pollAge, counted, age,
                   stop>>

\* Stat the directory: a container that is gone is skipped silently.
VerifyDir ==
    /\ vpc = "dir"
    /\ vpc' = IF removal = "dir" THEN "ended" ELSE "started"
    /\ UNCHANGED <<hookVars, crumbVars, removal, polls, pollAge, counted, age,
                   stop>>

\* Fault: a hook that started is not counted.
VerifyCountNotRun ==
    /\ vpc = "started"
    /\ vpc' = "ended"
    /\ counted' = IF "started" \in crumbs THEN "no" ELSE "not-run"
    /\ UNCHANGED <<hookVars, crumbVars, removal, polls, pollAge, age, stop>>

\* Stat hook.started: either text, the counter goes up.
VerifyCount ==
    /\ vpc = "started"
    /\ vpc' = "ended"
    /\ counted' = IF "started" \in crumbs THEN "incomplete" ELSE "not-run"
    /\ UNCHANGED <<hookVars, crumbVars, removal, polls, pollAge, age, stop>>

-----------------------------------------------------------------------------
\* 100 ms pass: not past a timer of the goroutine, the kill of the hook, the
\* start of the hook at the latest, or the end of a RemoveAll.
Tick ==
    /\ vpc \in {"wait", "sleep", "ended"}
    /\ vpc = "wait" => age < Timeout
    /\ vpc = "sleep" => pollAge < 1
    /\ hook = "running" => hookAge < Timeout
    /\ hook = "pending" => age < MaxDelay
    /\ removal # "files"
    /\ age' = IF age < Timeout + MaxDelay THEN age + 1 ELSE age
    /\ hookAge' = IF hook = "running" THEN hookAge + 1 ELSE hookAge
    /\ pollAge' = IF vpc = "sleep" THEN pollAge + 1 ELSE pollAge
    /\ UNCHANGED <<hook, delay, crumbVars, removal, vpc, polls, counted, stop>>

Verify ==
    \/ VerifyTimeout \/ VerifyPoll \/ VerifyPollAgain \/ VerifyStopped
    \/ VerifyDir \/ VerifyCount

Next ==
    \/ HookStart \/ HookDone \/ HookFailsOpen \/ HookKilled
    \/ RemoveFiles \/ RemoveDir \/ CloseStop
    \/ Verify
    \/ Tick

Spec == Init /\ [][Next]_vars

\* The goroutine is scheduled, time passes, the runtime meets its deadlines
\* and RemoveAll goes on.
FairSpec ==
    /\ Spec
    /\ WF_vars(Verify) /\ WF_vars(Tick)
    /\ WF_vars(HookStart) /\ WF_vars(HookKilled) /\ WF_vars(RemoveDir)

-----------------------------------------------------------------------------
(* Properties                                                              *)

TypeOK ==
    /\ hook \in {"pending", "ignored", "running", "done", "failed", "killed"}
    /\ hookAge \in 0..Timeout /\ delay \in 0..MaxDelay
    /\ crumbs \subseteq {"started", "done"} /\ lost \subseteq {"started", "done"}
    /\ removal \in {"no", "files", "dir"}
    /\ vpc \in {"wait", "poll", "sleep", "dir", "started", "ended"}
    /\ age \in 0..(Timeout + MaxDelay)
    /\ polls \in 0..Polls /\ pollAge \in 0..1
    /\ counted \in {"no", "incomplete", "not-run"}
    /\ stop \in BOOLEAN

\* The goroutine's clock starts at CreateContainer, the hook's when it
\* starts: the hook's deadline is later than the goroutine's by the delay,
\* and only the polls make up for that.
Late == (IF hook = "pending" THEN age ELSE delay) > Polls - 2

\* A hook is counted as incomplete only if it was killed or returned early,
\* and as not run only if it never ran (or its container was removed under
\* the goroutine's eyes); a hook that completes is not counted.  This holds
\* up to the delay at which the last poll is still after the hook's deadline
\* and, with the delay one tick longer, no more; and it takes the breadcrumb
\* that tells: where writing it has failed, which the hook ignores
\* (breadcrumb.go:20), a completed hook without hook.done is counted, and one
\* without hook.started is taken for one that did not run.
CountedRightly ==
    ~Late =>
    /\ counted = "incomplete" => hook \in {"killed", "failed"} \/ "done" \in lost
    /\ counted = "not-run" =>
         hook = "ignored" \/ removal # "no" \/ "started" \in lost
    /\ hook = "done" => counted = "no" \/ "done" \in lost

\* A hook that the runtime killed is counted, unless its container is removed
\* or the plugin shuts down.
KilledCounted ==
    hook = "killed" ~> counted # "no" \/ removal # "no" \/ stop

=============================================================================
