-------------------------- MODULE HookVerify_proofs --------------------------
(***************************************************************************)
(* For every timeout, number of polls and delay of the hook: the goroutine *)
(* counts a hook rightly if it was started early enough for the last poll  *)
(* to come after its deadline.                                             *)
(***************************************************************************)
EXTENDS HookVerify, TLAPS

\* Ticks since CreateContainer, told from where the goroutine is: age stops
\* counting at its bound.
Elapsed ==
    IF vpc = "wait" THEN age
    ELSE IF vpc = "sleep" THEN Timeout + polls - 1 + pollAge
    ELSE Timeout + polls

\* The hook's clock and the goroutine's are one delay apart until the
\* goroutine has ended.
Clocks ==
    /\ hook = "pending" => delay = 0 /\ age =< MaxDelay
    /\ vpc = "wait" => age =< Timeout /\ polls = 0
    /\ vpc = "poll" => polls < Polls
    /\ vpc = "sleep" => polls >= 1
    /\ vpc \in {"dir", "started"} => polls = Polls
    /\ vpc # "ended" /\ hook = "pending" => age = Elapsed
    /\ vpc # "ended" /\ hook = "running" => hookAge = Elapsed - delay

\* While the staged directory is there its breadcrumbs tell how far the hook
\* has got, but for those that could not be written; the container is not
\* removed while the hook may still run.
Breadcrumbs ==
    /\ "started" \in lost => hook \notin {"pending", "ignored"}
    /\ "done" \in lost => hook = "done"
    /\ removal = "no" =>
         /\ "started" \in crumbs <=>
              hook \notin {"pending", "ignored"} /\ "started" \notin lost
         /\ "done" \in crumbs <=> hook = "done" /\ "done" \notin lost
    /\ removal # "no" => crumbs = {} /\ hook \notin {"pending", "running"}

\* The hook has completed and said so.
ToldDone == hook = "done" /\ "done" \notin lost

\* The last poll has been made and has not found hook.done.
PolledOut == (vpc = "sleep" /\ polls = Polls) \/ vpc \in {"dir", "started"}

\* Then a hook that was not late is over, and if it completed and said so, its
\* directory went before the last poll, altogether before the next tick.
Verdict ==
    /\ vpc # "ended" => counted = "no"
    /\ counted = "incomplete" => hook \notin {"pending", "ignored"}
    /\ ~Late /\ counted # "no" => hook \notin {"pending", "running"}
    /\ ~Late /\ PolledOut =>
         /\ hook \notin {"pending", "running"}
         /\ ToldDone => removal # "no"
         /\ ToldDone /\ (vpc # "sleep" \/ pollAge = 1) => removal = "dir"
         /\ vpc = "started" => ~ToldDone

IInv == TypeOK /\ Clocks /\ Breadcrumbs /\ Verdict /\ CountedRightly

-----------------------------------------------------------------------------
\* Right after CreateContainer nothing has run, expired or been counted.
LEMMA InitIInv == Init => IInv
<1> SUFFICES ASSUME Init PROVE IInv
  OBVIOUS
<1> USE HookVerifyAssumption DEF Init
<1>1. stop \in BOOLEAN
  OBVIOUS
<1>2. TypeOK
  BY <1>1 DEF TypeOK
<1>3. Clocks
  BY DEF Clocks, Elapsed
<1>4. Breadcrumbs
  BY DEF Breadcrumbs
<1>5. Verdict /\ CountedRightly
  BY DEF Verdict, PolledOut, CountedRightly
<1> QED
  BY <1>2, <1>3, <1>4, <1>5 DEF IInv

\* No clock or count leaves its range.
LEMMA TypeStep ==
    ASSUME TypeOK, Clocks, [Next]_vars
    PROVE  TypeOK'
<1> USE HookVerifyAssumption DEF TypeOK, Clocks, Elapsed
<1>1. CASE HookStart
  <2>1. crumbs' \subseteq {"started", "done"} /\ lost' \subseteq {"started", "done"}
    BY <1>1 DEF HookStart, Breadcrumb
  <2> QED
    BY <1>1, <2>1 DEF HookStart, verifyVars
<1>2. CASE HookDone
  BY <1>2 DEF HookDone, Breadcrumb, hookVars, crumbVars, verifyVars
<1>3. CASE HookFailsOpen
  BY <1>3 DEF HookFailsOpen, hookVars, crumbVars, verifyVars
<1>4. CASE HookKilled
  BY <1>4 DEF HookKilled, hookVars, crumbVars, verifyVars
<1>5. CASE RemoveFiles
  BY <1>5 DEF RemoveFiles, hookVars, crumbVars, verifyVars
<1>6. CASE RemoveDir
  BY <1>6 DEF RemoveDir, hookVars, crumbVars, verifyVars
<1>7. CASE CloseStop
  BY <1>7 DEF CloseStop, hookVars, crumbVars, verifyVars
<1>8. CASE VerifyTimeout
  BY <1>8 DEF VerifyTimeout, hookVars, crumbVars, verifyVars
<1>9. CASE VerifyPoll
  BY <1>9 DEF VerifyPoll, hookVars, crumbVars, verifyVars
<1>10. CASE VerifyPollAgain
  BY <1>10 DEF VerifyPollAgain, hookVars, crumbVars, verifyVars
<1>11. CASE VerifyStopped
  BY <1>11 DEF VerifyStopped, hookVars, crumbVars, verifyVars
<1>12. CASE VerifyDir
  BY <1>12 DEF VerifyDir, hookVars, crumbVars, verifyVars
<1>13. CASE VerifyCount
  BY <1>13 DEF VerifyCount, hookVars, crumbVars, verifyVars
<1>14. CASE Tick
  BY <1>14 DEF Tick, hookVars, crumbVars, verifyVars
<1>15. CASE UNCHANGED vars
  BY <1>15 DEF vars, hookVars, crumbVars, verifyVars
<1> QED
  BY <1>1, <1>2, <1>3, <1>4, <1>5, <1>6, <1>7,
     <1>8, <1>9, <1>10, <1>11, <1>12, <1>13, <1>14, <1>15
     DEF Next, Verify

\* No step moves one of the two clocks without the other.
LEMMA ClocksStep ==
    ASSUME TypeOK, Clocks, [Next]_vars
    PROVE  Clocks'
<1> USE HookVerifyAssumption DEF TypeOK, Clocks, Elapsed
<1>1. CASE HookStart
  BY <1>1 DEF HookStart, Breadcrumb, hookVars, crumbVars, verifyVars
<1>2. CASE HookDone
  BY <1>2 DEF HookDone, Breadcrumb, hookVars, crumbVars, verifyVars
<1>3. CASE HookFailsOpen
  BY <1>3 DEF HookFailsOpen, hookVars, crumbVars, verifyVars
<1>4. CASE HookKilled
  BY <1>4 DEF HookKilled, hookVars, crumbVars, verifyVars
<1>5. CASE RemoveFiles
  BY <1>5 DEF RemoveFiles, hookVars, crumbVars, verifyVars
<1>6. CASE RemoveDir
  BY <1>6 DEF RemoveDir, hookVars, crumbVars, verifyVars
<1>7. CASE CloseStop
  BY <1>7 DEF CloseStop, hookVars, crumbVars, verifyVars
<1>8. CASE VerifyTimeout
  BY <1>8 DEF VerifyTimeout, hookVars, crumbVars, verifyVars
<1>9. CASE VerifyPoll
  BY <1>9 DEF VerifyPoll, hookVars, crumbVars, verifyVars
<1>10. CASE VerifyPollAgain
  BY <1>10 DEF VerifyPollAgain, hookVars, crumbVars, verifyVars
<1>11. CASE VerifyStopped
  BY <1>11 DEF VerifyStopped, hookVars, crumbVars, verifyVars
<1>12. CASE VerifyDir
  BY <1>12 DEF VerifyDir, hookVars, crumbVars, verifyVars
<1>13. CASE VerifyCount
  BY <1>13 DEF VerifyCount, hookVars, crumbVars, verifyVars
<1>14. CASE Tick
  BY <1>14 DEF Tick, hookVars, crumbVars, verifyVars
<1>15. CASE UNCHANGED vars
  BY <1>15 DEF vars, hookVars, crumbVars, verifyVars
<1> QED
  BY <1>1, <1>2, <1>3, <1>4, <1>5, <1>6, <1>7,
     <1>8, <1>9, <1>10, <1>11, <1>12, <1>13, <1>14, <1>15
     DEF Next, Verify

\* The breadcrumbs follow the hook until the directory goes.
LEMMA BreadcrumbsStep ==
    ASSUME TypeOK, Breadcrumbs, [Next]_vars
    PROVE  Breadcrumbs'
<1> USE HookVerifyAssumption DEF TypeOK, Breadcrumbs
<1>1. CASE HookStart
  BY <1>1 DEF HookStart, Breadcrumb, hookVars, crumbVars, verifyVars
<1>2. CASE HookDone
  BY <1>2 DEF HookDone, Breadcrumb, hookVars, crumbVars, verifyVars
<1>3. CASE HookFailsOpen
  BY <1>3 DEF HookFailsOpen, hookVars, crumbVars, verifyVars
<1>4. CASE HookKilled
  BY <1>4 DEF HookKilled, hookVars, crumbVars, verifyVars
<1>5. CASE RemoveFiles
  BY <1>5 DEF RemoveFiles, hookVars, crumbVars, verifyVars
<1>6. CASE RemoveDir
  BY <1>6 DEF RemoveDir, hookVars, crumbVars, verifyVars
<1>7. CASE CloseStop
  BY <1>7 DEF CloseStop, hookVars, crumbVars, verifyVars
<1>8. CASE VerifyTimeout
  BY <1>8 DEF VerifyTimeout, hookVars, crumbVars, verifyVars
<1>9. CASE VerifyPoll
  BY <1>9 DEF VerifyPoll, hookVars, crumbVars, verifyVars
<1>10. CASE VerifyPollAgain
  BY <1>10 DEF VerifyPollAgain, hookVars, crumbVars, verifyVars
<1>11. CASE VerifyStopped
  BY <1>11 DEF VerifyStopped, hookVars, crumbVars, verifyVars
<1>12. CASE VerifyDir
  BY <1>12 DEF VerifyDir, hookVars, crumbVars, verifyVars
<1>13. CASE VerifyCount
  BY <1>13 DEF VerifyCount, hookVars, crumbVars, verifyVars
<1>14. CASE Tick
  BY <1>14 DEF Tick, hookVars, crumbVars, verifyVars
<1>15. CASE UNCHANGED vars
  BY <1>15 DEF vars, hookVars, crumbVars, verifyVars
<1> QED
  BY <1>1, <1>2, <1>3, <1>4, <1>5, <1>6, <1>7,
     <1>8, <1>9, <1>10, <1>11, <1>12, <1>13, <1>14, <1>15
     DEF Next, Verify

\* What the last poll has found out stays true.
LEMMA VerdictStep ==
    ASSUME TypeOK, Clocks, Breadcrumbs, Verdict, [Next]_vars
    PROVE  Verdict'
<1> USE HookVerifyAssumption
        DEF TypeOK, Clocks, Elapsed, Breadcrumbs, PolledOut, ToldDone, Verdict, Late
<1>1. CASE HookStart
  BY <1>1 DEF HookStart, Breadcrumb, hookVars, crumbVars, verifyVars
<1>2. CASE HookDone
  BY <1>2 DEF HookDone, Breadcrumb, hookVars, crumbVars, verifyVars
<1>3. CASE HookFailsOpen
  BY <1>3 DEF HookFailsOpen, hookVars, crumbVars, verifyVars
<1>4. CASE HookKilled
  BY <1>4 DEF HookKilled, hookVars, crumbVars, verifyVars
<1>5. CASE RemoveFiles
  BY <1>5 DEF RemoveFiles, hookVars, crumbVars, verifyVars
<1>6. CASE RemoveDir
  BY <1>6 DEF RemoveDir, hookVars, crumbVars, verifyVars
<1>7. CASE CloseStop
  BY <1>7 DEF CloseStop, hookVars, crumbVars, verifyVars
<1>8. CASE VerifyTimeout
  BY <1>8 DEF VerifyTimeout, hookVars, crumbVars, verifyVars
<1>9. CASE VerifyPoll
  BY <1>9 DEF VerifyPoll, hookVars, crumbVars, verifyVars
<1>10. CASE VerifyPollAgain
  BY <1>10 DEF VerifyPollAgain, hookVars, crumbVars, verifyVars
<1>11. CASE VerifyStopped
  BY <1>11 DEF VerifyStopped, hookVars, crumbVars, verifyVars
<1>12. CASE VerifyDir
  BY <1>12 DEF VerifyDir, hookVars, crumbVars, verifyVars
<1>13. CASE VerifyCount
  BY <1>13 DEF VerifyCount, hookVars, crumbVars, verifyVars
<1>14. CASE Tick
  BY <1>14 DEF Tick, hookVars, crumbVars, verifyVars
<1>15. CASE UNCHANGED vars
  BY <1>15 DEF vars, hookVars, crumbVars, verifyVars
<1> QED
  BY <1>1, <1>2, <1>3, <1>4, <1>5, <1>6, <1>7,
     <1>8, <1>9, <1>10, <1>11, <1>12, <1>13, <1>14, <1>15
     DEF Next, Verify

\* What is counted is right, and stays right.
LEMMA CountedStep ==
    ASSUME IInv, [Next]_vars
    PROVE  CountedRightly'
<1> USE HookVerifyAssumption
        DEF IInv, TypeOK, Clocks, Elapsed, Breadcrumbs, PolledOut, ToldDone, Verdict,
            Late, CountedRightly
<1>1. CASE HookStart
  BY <1>1 DEF HookStart, Breadcrumb, hookVars, crumbVars, verifyVars
<1>2. CASE HookDone
  BY <1>2 DEF HookDone, Breadcrumb, hookVars, crumbVars, verifyVars
<1>3. CASE HookFailsOpen
  BY <1>3 DEF HookFailsOpen, hookVars, crumbVars, verifyVars
<1>4. CASE HookKilled
  BY <1>4 DEF HookKilled, hookVars, crumbVars, verifyVars
<1>5. CASE RemoveFiles
  BY <1>5 DEF RemoveFiles, hookVars, crumbVars, verifyVars
<1>6. CASE RemoveDir
  BY <1>6 DEF RemoveDir, hookVars, crumbVars, verifyVars
<1>7. CASE CloseStop
  BY <1>7 DEF CloseStop, hookVars, crumbVars, verifyVars
<1>8. CASE VerifyTimeout
  BY <1>8 DEF VerifyTimeout, hookVars, crumbVars, verifyVars
<1>9. CASE VerifyPoll
  BY <1>9 DEF VerifyPoll, hookVars, crumbVars, verifyVars
<1>10. CASE VerifyPollAgain
  BY <1>10 DEF VerifyPollAgain, hookVars, crumbVars, verifyVars
<1>11. CASE VerifyStopped
  BY <1>11 DEF VerifyStopped, hookVars, crumbVars, verifyVars
<1>12. CASE VerifyDir
  BY <1>12 DEF VerifyDir, hookVars, crumbVars, verifyVars
<1>13. CASE VerifyCount
  BY <1>13 DEF VerifyCount, hookVars, crumbVars, verifyVars
<1>14. CASE Tick
  BY <1>14 DEF Tick, hookVars, crumbVars, verifyVars
<1>15. CASE UNCHANGED vars
  BY <1>15 DEF vars, hookVars, crumbVars, verifyVars
<1> QED
  BY <1>1, <1>2, <1>3, <1>4, <1>5, <1>6, <1>7,
     <1>8, <1>9, <1>10, <1>11, <1>12, <1>13, <1>14, <1>15
     DEF Next, Verify

-----------------------------------------------------------------------------
\* The inductive invariant: the two clocks stay one delay apart, and the last
\* poll decides.
THEOREM Inductive == Spec => []IInv
<1>1. IInv /\ [Next]_vars => IInv'
  BY TypeStep, ClocksStep, BreadcrumbsStep, VerdictStep, CountedStep DEF IInv
<1> QED
  BY InitIInv, <1>1, PTL DEF Spec

\* Every variable keeps its type, the polls their number and the hook's run
\* its timeout.
THEOREM TypeCorrect == Spec => []TypeOK
<1>1. IInv => TypeOK
  BY DEF IInv
<1> QED
  BY <1>1, Inductive, PTL

\* verifyHookCompletion counts a hook as incomplete or as not run only when
\* it is, for every timeout, number of polls and delay of the hook up to the
\* one at which the last poll is still after the hook's deadline, but for a
\* breadcrumb that could not be written.
THEOREM CountsRightly == Spec => []CountedRightly
<1>1. IInv => CountedRightly
  BY DEF IInv
<1> QED
  BY <1>1, Inductive, PTL

=============================================================================
