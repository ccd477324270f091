-------------------------- MODULE Reconnect_proofs --------------------------
(***************************************************************************)
(* What runNRI and the shutdown guarantee for all durations and any number *)
(* of connections and requests.                                            *)
(***************************************************************************)
EXTENDS Reconnect, TLAPS

USE ReconnectAssumption

USE DEF linkVars, runVars, handlerVars, wgVars, mainVars, histVars

-----------------------------------------------------------------------------
(* Types                                                                   *)

LEMMA DeafBoundNat == DeafBound \in Nat
  BY DEF DeafBound

LEMMA Ranges ==
    /\ BackoffMin \in BackoffMin..BackoffMax
    /\ {-1, 0} \subseteq -1..(GiveUp + 1)
  OBVIOUS

LEMMA TypeInit == Init => TypeOK
  <1> SUFFICES ASSUME Init PROVE TypeOK
      OBVIOUS
  <1>1. failing \in -1..(GiveUp + 1) /\ backoff \in BackoffMin..BackoffMax
        BY Ranges DEF Init
  <1>2. ready \in BOOLEAN /\ signal \in BOOLEAN
        BY Zenon DEF Init
  <1>3. /\ attempt \in 0..AttemptMax /\ requests \in 0..MaxRequests
        /\ slept \in 0..BackoffMax
        /\ falseReady \in 0..(BackoffMax + AttemptMax + 1)
        /\ deaf \in 0..(DeafBound + 1)
        /\ syncing \in Nat /\ adopting \in Nat /\ creating \in Nat
        /\ early \in Nat /\ late \in Nat
        BY DeafBoundNat DEF Init
  <1> QED
      BY <1>1, <1>2, <1>3 DEF Init, TypeOK

LEMMA TypeStep == TypeOK /\ [Next]_vars => TypeOK'
  <1> SUFFICES ASSUME TypeOK, [Next]_vars PROVE TypeOK'
      OBVIOUS
  <1> USE DeafBoundNat DEF TypeOK
  <1>1. CASE Connect
        BY <1>1 DEF Connect
  <1>2. CASE SendSynchronize
        BY <1>2 DEF SendSynchronize
  <1>3. CASE SendCreate
        BY <1>3 DEF SendCreate
  <1>4. CASE RunReturns
        BY <1>4 DEF RunReturns
  <1>5. CASE SynchronizeReady
        BY <1>5 DEF SynchronizeReady
  <1>6. CASE SynchronizeScan
        BY <1>6 DEF SynchronizeScan, Add, Stopped
  <1>7. CASE CreateVerified
        BY <1>7 DEF CreateVerified, Add, Stopped
  <1>8. CASE CreateSkipped
        BY <1>8 DEF CreateSkipped
  <1>9. CASE Done
        BY <1>9 DEF Done
  <1>10. CASE HandleReturn
    <2>1. failing' \in -1..(GiveUp + 1) /\ backoff' \in BackoffMin..BackoffMax
          BY <1>10, Ranges DEF HandleReturn, FailingFor
    <2>2. ready' \in BOOLEAN
          BY <1>10, Zenon DEF HandleReturn, SwapReady
    <2>3. falseReady' \in 0..(BackoffMax + AttemptMax + 1)
          BY <1>10 DEF HandleReturn
    <2> QED
        BY <1>10, <2>1, <2>2, <2>3 DEF HandleReturn
  <1>11. CASE SleepEnds
        BY <1>11 DEF SleepEnds, NextBackoff
  <1>12. CASE Signal
        BY <1>12 DEF Signal
  <1>13. CASE Select
        BY <1>13 DEF Select
  <1>14. CASE Wait
        BY <1>14 DEF Wait
  <1>15. CASE WaitReturns
        BY <1>15 DEF WaitReturns
  <1>16. CASE ShutdownHTTP
        BY <1>16 DEF ShutdownHTTP
  <1>17. CASE StopStub
        BY <1>17 DEF StopStub
  <1>18. CASE Tick
        BY <1>18 DEF Tick, UpTo
  <1>19. CASE UNCHANGED vars
        BY <1>19 DEF vars
  <1> QED
      BY <1>1, <1>2, <1>3, <1>4, <1>5, <1>6, <1>7, <1>8, <1>9, <1>10,
         <1>11, <1>12, <1>13, <1>14, <1>15, <1>16, <1>17, <1>18, <1>19
         DEF Next, Handler, RunNRI, Run, Ended

\* The variables of the connection, runNRI and Run keep their types; the
\* backoff stays between nriBackoffMin and nriBackoffMax.
THEOREM TypeCorrect == Spec => []TypeOK
  BY TypeInit, TypeStep, PTL DEF Spec

-----------------------------------------------------------------------------
(* The shutdown                                                            *)

\* Once stopCh is closed nothing is counted as started before, so what Run
\* has waited for stays at zero.
Waited ==
    main \in {"woken", "http", "stop", "exited"} => early = 0

LEMMA WaitedStep == TypeOK /\ Waited /\ [Next]_vars => Waited'
  <1> SUFFICES ASSUME TypeOK, Waited, [Next]_vars PROVE Waited'
      OBVIOUS
  <1> USE DEF TypeOK, Waited
  <1>1. CASE Connect
        BY <1>1 DEF Connect
  <1>2. CASE SendSynchronize
        BY <1>2 DEF SendSynchronize
  <1>3. CASE SendCreate
        BY <1>3 DEF SendCreate
  <1>4. CASE RunReturns
        BY <1>4 DEF RunReturns
  <1>5. CASE SynchronizeReady
        BY <1>5 DEF SynchronizeReady
  <1>6. CASE SynchronizeScan
        BY <1>6 DEF SynchronizeScan, Add, Stopped
  <1>7. CASE CreateVerified
        BY <1>7 DEF CreateVerified, Add, Stopped
  <1>8. CASE CreateSkipped
        BY <1>8 DEF CreateSkipped
  <1>9. CASE Done
        BY <1>9 DEF Done
  <1>10. CASE HandleReturn
        BY <1>10 DEF HandleReturn, SwapReady, FailingFor
  <1>11. CASE SleepEnds
        BY <1>11 DEF SleepEnds, NextBackoff
  <1>12. CASE Signal
        BY <1>12 DEF Signal
  <1>13. CASE Select
        BY <1>13 DEF Select
  <1>14. CASE Wait
        BY <1>14 DEF Wait
  <1>15. CASE WaitReturns
        BY <1>15 DEF WaitReturns
  <1>16. CASE ShutdownHTTP
        BY <1>16 DEF ShutdownHTTP
  <1>17. CASE StopStub
        BY <1>17 DEF StopStub
  <1>18. CASE Tick
        BY <1>18 DEF Tick, UpTo, DeafBound
  <1>19. CASE UNCHANGED vars
        BY <1>19 DEF vars
  <1> QED
      BY <1>1, <1>2, <1>3, <1>4, <1>5, <1>6, <1>7, <1>8, <1>9, <1>10,
         <1>11, <1>12, <1>13, <1>14, <1>15, <1>16, <1>17, <1>18, <1>19
         DEF Next, Handler, RunNRI, Run, Ended

\* No verifier and no scan that was started before the shutdown is cut off,
\* for any number of them.
THEOREM AllWaitedFor == Spec => []NoneAbandoned
  <1>1. Init => Waited
        BY DEF Init, Waited
  <1>2. Waited => NoneAbandoned
        BY DEF Waited, NoneAbandoned
  <1> QED
      BY <1>1, <1>2, TypeInit, TypeStep, WaitedStep, PTL DEF Spec

-----------------------------------------------------------------------------
(* The connection                                                          *)

\* A connection lives within stub.Run, and one that is synchronised has a
\* Synchronize under way or has made the plugin ready.
Connected ==
    /\ link # "none" => rpc = "run"
    /\ link = "synced" => syncing > 0 \/ ready
    /\ rpc = "ended" => result # "none"

LEMMA ConnectedStep == TypeOK /\ Connected /\ [Next]_vars => Connected'
  <1> SUFFICES ASSUME TypeOK, Connected, [Next]_vars PROVE Connected'
      OBVIOUS
  <1> USE DEF TypeOK, Connected
  <1>1. CASE Connect
        BY <1>1 DEF Connect
  <1>2. CASE SendSynchronize
        BY <1>2 DEF SendSynchronize
  <1>3. CASE SendCreate
        BY <1>3 DEF SendCreate
  <1>4. CASE RunReturns
        BY <1>4 DEF RunReturns
  <1>5. CASE SynchronizeReady
        BY <1>5 DEF SynchronizeReady
  <1>6. CASE SynchronizeScan
        BY <1>6 DEF SynchronizeScan, Add, Stopped
  <1>7. CASE CreateVerified
        BY <1>7 DEF CreateVerified, Add, Stopped
  <1>8. CASE CreateSkipped
        BY <1>8 DEF CreateSkipped
  <1>9. CASE Done
        BY <1>9 DEF Done
  <1>10. CASE HandleReturn
        BY <1>10 DEF HandleReturn, SwapReady, FailingFor
  <1>11. CASE SleepEnds
        BY <1>11 DEF SleepEnds, NextBackoff
  <1>12. CASE Signal
        BY <1>12 DEF Signal
  <1>13. CASE Select
        BY <1>13 DEF Select
  <1>14. CASE Wait
        BY <1>14 DEF Wait
  <1>15. CASE WaitReturns
        BY <1>15 DEF WaitReturns
  <1>16. CASE ShutdownHTTP
        BY <1>16 DEF ShutdownHTTP
  <1>17. CASE StopStub
        BY <1>17 DEF StopStub
  <1>18. CASE Tick
        BY <1>18 DEF Tick, UpTo, DeafBound
  <1>19. CASE UNCHANGED vars
        BY <1>19 DEF vars
  <1> QED
      BY <1>1, <1>2, <1>3, <1>4, <1>5, <1>6, <1>7, <1>8, <1>9, <1>10,
         <1>11, <1>12, <1>13, <1>14, <1>15, <1>16, <1>17, <1>18, <1>19
         DEF Next, Handler, RunNRI, Run, Ended

\* How long a counter that starts at the return of stub.Run can have run:
\* the sleep and the attempt since.
Since(n) ==
    /\ rpc = "sleep" => n =< slept
    /\ rpc = "run" => n =< slept + attempt
    /\ rpc = "returned" => n =< BackoffMax + AttemptMax

\* readyz is wrong for no longer than the present round takes.
Round ==
    /\ Since(falseReady)
    /\ rpc = "ended" /\ main = "serve" => falseReady =< BackoffMax + AttemptMax

LEMMA RoundStep == TypeOK /\ Connected /\ Round /\ [Next]_vars => Round'
  <1> SUFFICES ASSUME TypeOK, Connected, Round, [Next]_vars PROVE Round'
      OBVIOUS
  <1> USE DEF TypeOK, Connected, Round, Since
  <1>1. CASE Connect
        BY <1>1 DEF Connect
  <1>2. CASE SendSynchronize
        BY <1>2 DEF SendSynchronize
  <1>3. CASE SendCreate
        BY <1>3 DEF SendCreate
  <1>4. CASE RunReturns
        BY <1>4 DEF RunReturns
  <1>5. CASE SynchronizeReady
        BY <1>5 DEF SynchronizeReady
  <1>6. CASE SynchronizeScan
        BY <1>6 DEF SynchronizeScan, Add, Stopped
  <1>7. CASE CreateVerified
        BY <1>7 DEF CreateVerified, Add, Stopped
  <1>8. CASE CreateSkipped
        BY <1>8 DEF CreateSkipped
  <1>9. CASE Done
        BY <1>9 DEF Done
  <1>10. CASE HandleReturn
        BY <1>10 DEF HandleReturn, SwapReady, FailingFor
  <1>11. CASE SleepEnds
        BY <1>11 DEF SleepEnds, NextBackoff
  <1>12. CASE Signal
        BY <1>12 DEF Signal
  <1>13. CASE Select
        BY <1>13 DEF Select
  <1>14. CASE Wait
        BY <1>14 DEF Wait
  <1>15. CASE WaitReturns
        BY <1>15 DEF WaitReturns
  <1>16. CASE ShutdownHTTP
        BY <1>16 DEF ShutdownHTTP
  <1>17. CASE StopStub
        BY <1>17 DEF StopStub
  <1>18. CASE Tick
        BY <1>18 DEF Tick, UpTo, DeafBound
  <1>19. CASE UNCHANGED vars
        BY <1>19 DEF vars
  <1> QED
      BY <1>1, <1>2, <1>3, <1>4, <1>5, <1>6, <1>7, <1>8, <1>9, <1>10,
         <1>11, <1>12, <1>13, <1>14, <1>15, <1>16, <1>17, <1>18, <1>19
         DEF Next, Handler, RunNRI, Run, Ended

\* For all durations readyz is wrong for at most a backoff and an attempt.
THEOREM ReadyzHonest == Spec => []FalseReadyBounded
  <1>1. Init => Connected /\ Round
        BY DEF Init, Connected, Round, Since
  <1>2. TypeOK /\ Round => FalseReadyBounded
        BY DEF TypeOK, Round, Since, FalseReadyBounded
  <1> QED
      BY <1>1, <1>2, TypeInit, TypeStep, ConnectedStep, RoundStep, PTL DEF Spec

-----------------------------------------------------------------------------
(* Giving up                                                               *)

\* The give-up timer starts at most a round after the plugin was last
\* synchronised, and is looked at once per round.
Deaf ==
    /\ ready \/ failing = -1 => Since(deaf)
    /\ ~ready /\ failing # -1 /\ failing =< GiveUp /\ rpc # "ended" =>
         deaf =< failing + BackoffMax + AttemptMax
    /\ rpc = "sleep" => deaf =< GiveUp + BackoffMax + AttemptMax + slept
    /\ rpc = "run" => deaf =< GiveUp + BackoffMax + AttemptMax + slept + attempt
    /\ rpc = "returned" \/ (rpc = "ended" /\ main = "serve") =>
         deaf =< DeafBound

LEMMA DeafStep == TypeOK /\ Connected /\ Deaf /\ [Next]_vars => Deaf'
  <1> SUFFICES ASSUME TypeOK, Connected, Deaf, [Next]_vars PROVE Deaf'
      OBVIOUS
  <1> USE DEF TypeOK, Connected, Deaf, Since, DeafBound
  <1>1. CASE Connect
        BY <1>1 DEF Connect
  <1>2. CASE SendSynchronize
        BY <1>2 DEF SendSynchronize
  <1>3. CASE SendCreate
        BY <1>3 DEF SendCreate
  <1>4. CASE RunReturns
        BY <1>4 DEF RunReturns
  <1>5. CASE SynchronizeReady
        BY <1>5 DEF SynchronizeReady
  <1>6. CASE SynchronizeScan
        BY <1>6 DEF SynchronizeScan, Add, Stopped
  <1>7. CASE CreateVerified
        BY <1>7 DEF CreateVerified, Add, Stopped
  <1>8. CASE CreateSkipped
        BY <1>8 DEF CreateSkipped
  <1>9. CASE Done
        BY <1>9 DEF Done
  <1>10. CASE HandleReturn
        BY <1>10 DEF HandleReturn, SwapReady, FailingFor
  <1>11. CASE SleepEnds
        BY <1>11 DEF SleepEnds, NextBackoff
  <1>12. CASE Signal
        BY <1>12 DEF Signal
  <1>13. CASE Select
        BY <1>13 DEF Select
  <1>14. CASE Wait
        BY <1>14 DEF Wait
  <1>15. CASE WaitReturns
        BY <1>15 DEF WaitReturns
  <1>16. CASE ShutdownHTTP
        BY <1>16 DEF ShutdownHTTP
  <1>17. CASE StopStub
        BY <1>17 DEF StopStub
  <1>18. CASE Tick
        BY <1>18 DEF Tick, UpTo, DeafBound
  <1>19. CASE UNCHANGED vars
        BY <1>19 DEF vars
  <1> QED
      BY <1>1, <1>2, <1>3, <1>4, <1>5, <1>6, <1>7, <1>8, <1>9, <1>10,
         <1>11, <1>12, <1>13, <1>14, <1>15, <1>16, <1>17, <1>18, <1>19
         DEF Next, Handler, RunNRI, Run, Ended

\* For all durations a plugin that serves is without a Synchronize for at
\* most the give-up time and two rounds.
THEOREM GivesUpInTime == Spec => []DeafBounded
  <1>1. Init => Connected /\ Deaf
        BY DEF Init, Connected, Deaf, Since, DeafBound
  <1>2. TypeOK /\ Deaf => DeafBounded
        BY DEF TypeOK, Deaf, Since, DeafBound, DeafBounded
  <1> QED
      BY <1>1, <1>2, TypeInit, TypeStep, ConnectedStep, DeafStep, PTL DEF Spec

\* The give-up timer never runs ahead of the time without a Synchronize.
Honest == ~ready /\ rpc # "ended" => failing =< deaf

LEMMA HonestStep == TypeOK /\ Connected /\ Honest /\ [Next]_vars => Honest'
  <1> SUFFICES ASSUME TypeOK, Connected, Honest, [Next]_vars PROVE Honest'
      OBVIOUS
  <1> USE DEF TypeOK, Connected, Honest, DeafBound
  <1>1. CASE Connect
        BY <1>1 DEF Connect
  <1>2. CASE SendSynchronize
        BY <1>2 DEF SendSynchronize
  <1>3. CASE SendCreate
        BY <1>3 DEF SendCreate
  <1>4. CASE RunReturns
        BY <1>4 DEF RunReturns
  <1>5. CASE SynchronizeReady
        BY <1>5 DEF SynchronizeReady
  <1>6. CASE SynchronizeScan
        BY <1>6 DEF SynchronizeScan, Add, Stopped
  <1>7. CASE CreateVerified
        BY <1>7 DEF CreateVerified, Add, Stopped
  <1>8. CASE CreateSkipped
        BY <1>8 DEF CreateSkipped
  <1>9. CASE Done
        BY <1>9 DEF Done
  <1>10. CASE HandleReturn
        BY <1>10 DEF HandleReturn, SwapReady, FailingFor
  <1>11. CASE SleepEnds
        BY <1>11 DEF SleepEnds, NextBackoff
  <1>12. CASE Signal
        BY <1>12 DEF Signal
  <1>13. CASE Select
        BY <1>13 DEF Select
  <1>14. CASE Wait
        BY <1>14 DEF Wait
  <1>15. CASE WaitReturns
        BY <1>15 DEF WaitReturns
  <1>16. CASE ShutdownHTTP
        BY <1>16 DEF ShutdownHTTP
  <1>17. CASE StopStub
        BY <1>17 DEF StopStub
  <1>18. CASE Tick
        BY <1>18 DEF Tick, UpTo, DeafBound
  <1>19. CASE UNCHANGED vars
        BY <1>19 DEF vars
  <1> QED
      BY <1>1, <1>2, <1>3, <1>4, <1>5, <1>6, <1>7, <1>8, <1>9, <1>10,
         <1>11, <1>12, <1>13, <1>14, <1>15, <1>16, <1>17, <1>18, <1>19
         DEF Next, Handler, RunNRI, Run, Ended

\* For all durations the process gives up only after more than nriGiveUp
\* without a working connection.
THEOREM NoRashExit == Spec => GiveUpJustified
  <1>1. Init => Connected /\ Honest
        BY DEF Init, Connected, Honest
  <1>2. ASSUME TypeOK, Honest, [Next]_vars, result = "none", result' = "error"
        PROVE  deaf > GiveUp
    <2>1. HandleReturn
          BY <1>2 DEF Next, Handler, RunNRI, Run, Ended, vars, Connect,
             SendSynchronize, SendCreate, RunReturns, SynchronizeReady,
             SynchronizeScan, CreateVerified, CreateSkipped, Done, SleepEnds,
             Signal, Select, Wait, WaitReturns, ShutdownHTTP, StopStub, Tick
    <2> QED
        BY <1>2, <2>1 DEF HandleReturn, FailingFor, Honest, TypeOK
  <1>3. TypeOK /\ Honest /\ [Next]_vars =>
          [result = "none" /\ result' = "error" => deaf > GiveUp]_vars
        BY <1>2
  <1> QED
      BY <1>1, <1>3, TypeInit, TypeStep, ConnectedStep, HonestStep, PTL
         DEF Spec, GiveUpJustified

=============================================================================
