------------------------- MODULE FabricClientProofs -------------------------
(***************************************************************************)
(* CallInv is inductive, for every mode, timeout and number of retries;    *)
(* the safety properties of FabricClient follow from it.                   *)
(***************************************************************************)
EXTENDS FabricClient, TLAPS

(* The service and the backoff only ever ask for natural delays.            *)
LEMMA DelayType ==
  ASSUME TypeOK, NEW after \in RetryAfters \cup {NoDelay}
  PROVE  DelayBeforeRetry(after) \in Nat
BY OptionsAssumption, TimeAssumption DEF DelayBeforeRetry, TypeOK, NoDelay

(* What a call may end with.                                                *)
LEMMA OutcomeType ==
  /\ Pending \in Outcomes /\ Thrown \in Outcomes
  /\ Returned \in Outcomes /\ OperationFailed \in Outcomes
  /\ \A s \in Statuses \cup {0}, doubt \in BOOLEAN : ApiError(s, doubt) \in Outcomes
BY DEF Outcomes, Pending, Thrown, Returned, OperationFailed, ApiError

LEMMA ResponseType ==
  /\ NoResponse \in Responses
  /\ \A s \in Statuses, after \in RetryAfters \cup {NoDelay} : TypeOK =>
       [status |-> s, after |-> after, shows |-> op] \in Responses
BY DEF Responses, NoResponse, TypeOK

LEMMA FieldType ==
  \A r \in Responses :
    r.status \in Statuses \cup {0} /\ r.after \in RetryAfters \cup {NoDelay}
BY DEF Responses

LEMMA TypeInit == Init => TypeOK
<1> SUFFICES ASSUME Init PROVE TypeOK
  OBVIOUS
<1>1. ambiguous \in BOOLEAN
  BY DEF Init
<1> QED
  BY <1>1, OptionsAssumption, TimeAssumption, OutcomeType, ResponseType DEF Init, TypeOK

(* What a poll leads to, whichever result the caller waits for.              *)
LEMMA PolledParts ==
  ASSUME Polled
  PROVE  /\ pc = "body" /\ stage = "poll"
         /\ UNCHANGED <<mode, clock, limit, response, serviceVars>>
         /\ \/ Succeeded /\ StartRequest("result", limit) /\ UNCHANGED <<wake, asked>>
            \/ /\ Succeeded /\ Settle(Returned)
               /\ UNCHANGED <<stage, attempt, ambiguous, deadline, wake, asked>>
            \/ /\ response.shows = "failed" /\ Settle(OperationFailed)
               /\ UNCHANGED <<stage, attempt, ambiguous, deadline, wake, asked>>
            \/ Pause(limit) /\ UNCHANGED <<stage, attempt, ambiguous, deadline>>
  BY Zenon DEF Polled

(* What the loop of pollOperation and a new request leave behind.            *)
LEMMA PauseType ==
  ASSUME TypeOK, NEW until \in Nat, Pause(until)
  PROVE  /\ wake' \in Nat /\ asked' \in Nat
         /\ outcome' \in Outcomes /\ pc' \in {"pause", "done"}
<1> DEFINE delay == IF response.after = NoDelay THEN PollInterval ELSE response.after
<1>1. delay \in Nat /\ response.after \in Nat \cup {NoDelay}
  BY FieldType, TimeAssumption DEF TypeOK
<1>2. ASSUME clock < until PROVE Smaller(delay, until - clock) \in Nat
  BY <1>1, <1>2, TimeAssumption DEF Smaller, TypeOK
<1> QED
  BY <1>1, <1>2, OutcomeType, TimeAssumption DEF Pause, TypeOK, Settle

LEMMA StartType ==
  ASSUME TypeOK, NEW until \in Nat, NEW next \in {"submit", "poll", "result"},
         StartRequest(next, until)
  PROVE  /\ deadline' \in Nat /\ attempt' \in 0..MaxRetries /\ ambiguous' = FALSE
         /\ outcome' \in Outcomes /\ pc' \in {"token", "done"} /\ stage' = next
BY OutcomeType, OptionsAssumption, TimeAssumption
   DEF StartRequest, StartAttempt, Smaller, Settle, TypeOK

LEMMA CallInit == Init => CallInv
<1> SUFFICES ASSUME Init PROVE CallInv
  OBVIOUS
<1>1. TypeOK
  BY TypeInit
<1> QED
  BY <1>1 DEF Init, CallInv, RejectionIsFinal, IsDefinitiveRejection, VerdictIsTrue, StageInv,
     DoubtInv, OnceInv, ShownInv, AskedInv, RetryInv, LimitInv, Asking, Untouched,
     Pending, NoResponse, NoDelay

LEMMA AmbiguousType == TypeOK /\ [Next]_vars => ambiguous' \in BOOLEAN
<1> SUFFICES ASSUME TypeOK, [Next]_vars PROVE ambiguous' \in BOOLEAN
  OBVIOUS
<1>1. ambiguous \in BOOLEAN
  BY DEF TypeOK
<1>2. ASSUME NEW r, NEW u, StartRequest(r, u) PROVE ambiguous' \in BOOLEAN
  BY <1>2 DEF StartRequest
<1>3. ASSUME NEW s \in Statuses, NEW after \in RetryAfters \cup {NoDelay}, TakeReply(s, after)
      PROVE  ambiguous' \in BOOLEAN
  <2>1. UNCHANGED ambiguous \/ ambiguous' = (ambiguous \/ IsAmbiguousTransientStatus(s))
    BY <1>3 DEF TakeReply
  <2> QED
    BY <2>1, <1>1
<1>4. CASE Reads
  BY <1>4, <1>1, <1>2 DEF Reads, BodyFails, Rejected, Submitted, Polled, ResultRead, callVars
<1> QED
  BY <1>1, <1>2, <1>3, <1>4 DEF Next, Client, Service, Begin, TokenSettles, Dispatch,
     TokenFails, LoseReply, Replies, Retry, PollAgain, ExecuteLate, FinishOperation, Tick,
     callVars, vars

LEMMA TypeNext == TypeOK /\ RetryInv /\ [Next]_vars => TypeOK'
<1> SUFFICES ASSUME TypeOK, RetryInv, [Next]_vars PROVE TypeOK'
  OBVIOUS
<1> USE OptionsAssumption, TimeAssumption, OutcomeType
<1>a. ambiguous' \in BOOLEAN
  BY AmbiguousType
<1> USE DEF TypeOK, callVars, serviceVars, Settle
<1>1. CASE Begin
  BY <1>1, <1>a DEF Begin, StartRequest, StartAttempt, Smaller
<1>2. CASE TokenSettles
  BY <1>2 DEF TokenSettles, Dispatch, TokenFails
<1>3. CASE LoseReply
  BY <1>3, <1>a, DelayType DEF LoseReply, CopyOutOfHand, SleepOrThrow, CanRetry
<1>4. CASE Replies
  BY <1>4, <1>a, DelayType, ResponseType DEF Replies, TakeReply, ServiceAnswers, CopyOutOfHand, SleepOrThrow
<1>5. CASE Retry
  BY <1>5 DEF Retry, StartAttempt, RetryInv, CanRetry
<1>6. CASE Reads
  <2>1. CASE BodyFails \/ Rejected \/ ResultRead
    BY <2>1, FieldType DEF BodyFails, Rejected, ResultRead
  <2>2. CASE Submitted
    <3>1. clock + OperationTimeout \in Nat
      OBVIOUS
    <3> QED
      BY <2>2, <3>1, PauseType DEF Submitted
  <2>3. CASE Polled
    <3>1. limit \in Nat
      OBVIOUS
    <3>2. ASSUME Pause(limit), UNCHANGED <<stage, attempt, ambiguous, deadline>> PROVE TypeOK'
      BY <2>3, <3>1, <3>2, PauseType DEF Polled
    <3>3. ASSUME StartRequest("result", limit), UNCHANGED <<wake, asked>> PROVE TypeOK'
      BY <2>3, <1>a, <3>1, <3>3, StartType DEF Polled
    <3> QED
      BY <2>3, <3>2, <3>3 DEF Polled
  <2> HIDE DEF TypeOK
  <2> QED
    BY ONLY <1>6, <2>1, <2>2, <2>3 DEF Reads
<1>7. CASE PollAgain
  BY <1>7, <1>a DEF PollAgain, StartRequest, StartAttempt, Smaller
<1>8. CASE Service
  BY <1>8 DEF Service, ExecuteLate, FinishOperation
<1>9. CASE Tick
  BY <1>9 DEF Tick
<1>10. CASE UNCHANGED vars
  BY <1>10 DEF vars
<1> QED
  BY <1>1, <1>2, <1>3, <1>4, <1>5, <1>6, <1>7, <1>8, <1>9, <1>10 DEF Next, Client

-----------------------------------------------------------------------------
LEMMA StageNext == CallInv /\ [Next]_vars => StageInv'
<1> SUFFICES ASSUME CallInv, [Next]_vars PROVE StageInv'
  OBVIOUS
<1> USE DEF CallInv, StageInv, callVars, Settle
<1>1. CASE Begin
  BY <1>1 DEF Begin, StartRequest, StartAttempt
<1>2. CASE TokenSettles
  BY <1>2 DEF TokenSettles, Dispatch, TokenFails
<1>3. CASE LoseReply
  BY <1>3 DEF LoseReply, SleepOrThrow
<1>4. CASE Replies
  BY <1>4 DEF Replies, TakeReply, SleepOrThrow
<1>5. CASE Retry
  BY <1>5 DEF Retry, StartAttempt
<1>6. CASE Reads
  BY <1>6 DEF Reads, BodyFails, Rejected, Submitted, Polled, ResultRead, Pause,
     StartRequest, StartAttempt
<1>7. CASE PollAgain
  BY <1>7 DEF PollAgain, StartRequest, StartAttempt
<1>8. CASE Service \/ Tick \/ UNCHANGED vars
  BY <1>8 DEF Service, ExecuteLate, FinishOperation, Tick, vars
<1> QED
  BY <1>1, <1>2, <1>3, <1>4, <1>5, <1>6, <1>7, <1>8 DEF Next, Client

(* What an attempt in doubt leaves behind, and what one that is not may.     *)
LEMMA DoubtNext == CallInv /\ [Next]_vars => DoubtInv' /\ OnceInv' /\ RejectionIsFinal'
<1> SUFFICES ASSUME CallInv, [Next]_vars PROVE DoubtInv' /\ OnceInv' /\ RejectionIsFinal'
  OBVIOUS
<1> USE DEF CallInv, StageInv, Pending, DoubtInv, OnceInv, RejectionIsFinal, IsDefinitiveRejection, Asking,
            Untouched, callVars, serviceVars, Settle, Thrown
<1>1. CASE Begin
  BY <1>1 DEF Begin, StartRequest, StartAttempt
<1>2. CASE TokenSettles
  BY <1>2 DEF TokenSettles, Dispatch, TokenFails
<1>3. CASE LoseReply
  <2>0. pc = "sent"
    BY <1>3 DEF LoseReply
  <2>1. stage = "submit" /\ mode # "transient" => pc' = "done" /\ ~ambiguous'
    BY <1>3 DEF LoseReply, RetryTransportErrors, Mode
  <2>2. pc' = "done" \/ (pc' = "backoff" /\ ambiguous')
    BY <1>3 DEF LoseReply, SleepOrThrow
  <2>3. UNCHANGED <<mode, stage, response>> /\ (outcome' = outcome \/ outcome' = Thrown)
    BY <1>3 DEF LoseReply, SleepOrThrow
  <2>4. (stage = "submit" /\ ~ambiguous => applied' + late' <= 1)
        /\ (stage # "submit" => UNCHANGED <<late, applied>>)
    BY <1>3 DEF LoseReply, CopyOutOfHand, TypeOK
  <2> QED
    BY <2>0, <2>1, <2>2, <2>3, <2>4
<1>4. ASSUME NEW s \in Statuses, NEW after \in RetryAfters \cup {NoDelay}, TakeReply(s, after)
      PROVE  DoubtInv' /\ OnceInv' /\ RejectionIsFinal'
  <2>1. pc = "sent" /\ outcome = Pending /\ UNCHANGED <<mode, stage>>
    BY <1>4 DEF TakeReply
  <2>2. stage # "submit" => UNCHANGED <<late, applied>>
    BY <1>4 DEF TakeReply, ServiceAnswers, CopyOutOfHand, Statuses
  <2>3. stage = "submit" /\ ~ambiguous =>
          /\ s \in {400, 429} => applied' = 0 /\ late' = 0
          /\ applied' + late' <= 1
    BY <1>4 DEF TakeReply, ServiceAnswers, CopyOutOfHand, Statuses, TypeOK
  <2>a. mode # "transient" /\ stage = "submit" /\ ShouldRetryStatus(s) =>
          s = 429 /\ ~IsAmbiguousTransientStatus(s)
    BY OptionsAssumption DEF ShouldRetryStatus, Retryable, Mode, TypeOK, AllModes,
       IsAmbiguousTransientStatus
  <2>b. \/ UNCHANGED ambiguous
        \/ ShouldRetryStatus(s) /\ ambiguous' = (ambiguous \/ IsAmbiguousTransientStatus(s))
    BY <1>4 DEF TakeReply
  <2>4. CASE pc' = "body"
    <3>1. response'.status = s /\ UNCHANGED <<ambiguous, outcome>>
      BY <1>4, <2>4 DEF TakeReply, SleepOrThrow
    <3> QED
      BY <2>1, <2>2, <2>3, <2>4, <3>1 DEF Statuses
  <2>5. CASE pc' = "backoff"
    <3>1. /\ UNCHANGED outcome
          /\ ~ambiguous' => ~ambiguous /\ ~IsAmbiguousTransientStatus(s)
          /\ ShouldRetryStatus(s)
      BY <1>4, <2>5 DEF TakeReply, SleepOrThrow
    <3>2. mode # "transient" /\ stage = "submit" => s = 429 /\ (ambiguous' => ambiguous)
      BY <2>a, <2>b, <3>1
    <3> QED
      BY <2>1, <2>2, <2>3, <2>5, <3>1, <3>2
         DEF Statuses, ShouldRetryStatus, IsTransientStatus, IsAmbiguousTransientStatus
  <2>6. CASE pc' = "done"
    <3>1. outcome' = Thrown \/ outcome' = ApiError(s, ambiguous')
      BY <1>4, <2>1, <2>6 DEF TakeReply, SleepOrThrow
    <3>2. mode # "transient" /\ stage = "submit" => (ambiguous' => ambiguous)
      BY <2>a, <2>b
    <3>3. ~ambiguous' => ~ambiguous
      BY <2>b
    <3> QED
      BY <2>1, <2>2, <2>3, <2>6, <3>1, <3>2, <3>3 DEF Statuses, ApiError
  <2> QED
    BY <1>4, <2>4, <2>5, <2>6 DEF TakeReply, SleepOrThrow
<1>5. CASE Retry
  BY <1>5 DEF Retry, StartAttempt
<1>6. CASE Reads
  <2>1. CASE BodyFails \/ Rejected \/ Submitted \/ ResultRead
    BY <2>1 DEF BodyFails, Rejected, Submitted, ResultRead, Pause, ApiError, Returned
  <2>2. CASE Polled
    BY <2>2, PolledParts DEF Pause, StartRequest, StartAttempt, Returned, OperationFailed
  <2> QED
    BY <1>6, <2>1, <2>2 DEF Reads
<1>7. CASE PollAgain
  BY <1>7 DEF PollAgain, StartRequest, StartAttempt
<1>8. CASE Service
  BY <1>8 DEF Service, ExecuteLate, FinishOperation, TypeOK
<1>9. CASE Tick
  BY <1>9 DEF Tick
<1>10. CASE UNCHANGED vars
  BY <1>10 DEF vars
<1> QED
  BY <1>1, <1>2, <1>3, <1>4, <1>5, <1>6, <1>7, <1>8, <1>9, <1>10 DEF Next, Client, Replies

(* What the client saw of the operation is still so.                        *)
LEMMA ShownNext == CallInv /\ [Next]_vars => ShownInv' /\ VerdictIsTrue'
<1> SUFFICES ASSUME CallInv, [Next]_vars PROVE ShownInv' /\ VerdictIsTrue'
  OBVIOUS
<1> USE DEF CallInv, StageInv, Pending, ShownInv, VerdictIsTrue, Asking, callVars, serviceVars, Settle, Thrown
<1>1. CASE Begin
  BY <1>1 DEF Begin, StartRequest, StartAttempt
<1>2. CASE TokenSettles
  BY <1>2 DEF TokenSettles, Dispatch, TokenFails
<1>3. CASE LoseReply
  BY <1>3 DEF LoseReply, CopyOutOfHand, SleepOrThrow, TypeOK
<1>4. CASE Replies
  BY <1>4 DEF Replies, TakeReply, ServiceAnswers, CopyOutOfHand, SleepOrThrow, ApiError,
     IsTransientStatus, Statuses, TypeOK
<1>5. CASE Retry
  BY <1>5 DEF Retry, StartAttempt
<1>6. CASE Reads
  <2>1. CASE BodyFails \/ Rejected \/ Submitted \/ ResultRead
    BY <2>1, OptionsAssumption DEF BodyFails, Rejected, Submitted, ResultRead, Pause,
       ApiError, Returned, IsAccepted, TypeOK
  <2>2. CASE Polled
    <3>1. /\ pc = "body" /\ stage = "poll"
          /\ UNCHANGED <<op, applied, late, response>>
      BY <2>2, PolledParts
    <3>2. CASE Succeeded /\ StartRequest("result", limit)
      BY <3>1, <3>2 DEF StartRequest, StartAttempt, Succeeded, TypeOK
    <3>3. CASE Succeeded /\ Settle(Returned) /\ UNCHANGED stage
      BY <3>1, <3>3 DEF Returned, Succeeded, TypeOK
    <3>4. CASE response.shows = "failed" /\ Settle(OperationFailed) /\ UNCHANGED stage
      BY <3>1, <3>4 DEF OperationFailed, TypeOK
    <3>5. CASE Pause(limit) /\ UNCHANGED stage
      BY <3>1, <3>5 DEF Pause, TypeOK
    <3> QED
      BY <2>2, PolledParts, <3>2, <3>3, <3>4, <3>5
  <2> QED
    BY <1>6, <2>1, <2>2 DEF Reads
<1>7. CASE PollAgain
  BY <1>7 DEF PollAgain, StartRequest, StartAttempt
<1>8. CASE Service
  BY <1>8 DEF Service, ExecuteLate, FinishOperation, TypeOK
<1>9. CASE Tick
  BY <1>9 DEF Tick
<1>10. CASE UNCHANGED vars
  BY <1>10 DEF vars
<1> QED
  BY <1>1, <1>2, <1>3, <1>4, <1>5, <1>6, <1>7, <1>8, <1>9, <1>10 DEF Next, Client

(* Sleeps, deadlines and the retries that are left.                          *)
LEMMA TimerNext == CallInv /\ [Next]_vars => AskedInv' /\ RetryInv' /\ LimitInv'
<1> SUFFICES ASSUME CallInv, [Next]_vars PROVE AskedInv' /\ RetryInv' /\ LimitInv'
  OBVIOUS
<1> USE TimeAssumption DEF CallInv, AskedInv, RetryInv, LimitInv, CanRetry, callVars,
        serviceVars, Settle, TypeOK
<1>1. CASE Begin
  BY <1>1 DEF Begin, StartRequest, StartAttempt
<1>2. CASE TokenSettles
  BY <1>2 DEF TokenSettles, Dispatch, TokenFails
<1>3. CASE LoseReply
  BY <1>3 DEF LoseReply, SleepOrThrow
<1>4. CASE Replies
  BY <1>4, DelayType DEF Replies, TakeReply, SleepOrThrow, DelayBeforeRetry
<1>5. CASE Retry
  BY <1>5 DEF Retry, StartAttempt
<1>6. CASE Reads
  <2>1. CASE BodyFails \/ Rejected \/ ResultRead
    BY <2>1 DEF BodyFails, Rejected, ResultRead
  <2>2. ASSUME NEW until \in Nat, pc = "body", Pause(until), limit' = until,
               UNCHANGED <<clock, attempt>>
        PROVE  AskedInv' /\ RetryInv' /\ LimitInv'
    <3>1. /\ pc' = "done" \/ pc' = "pause"
          /\ asked' <= clock \/ (response.after # NoDelay /\ asked' = clock + response.after)
      BY <2>2 DEF Pause
    <3>2. ASSUME pc' = "pause", response.after # NoDelay
          PROVE  wake' >= until \/ wake' = clock + response.after
      BY <2>2, <3>2, FieldType DEF Pause, Smaller
    <3>3. wake' \in Nat
      BY <2>2, PauseType
    <3> QED
      BY <2>2, <3>1, <3>2, <3>3, FieldType
  <2>3. CASE Submitted
    <3>1. CASE pc' = "done"
      BY <3>1
    <3>2. CASE pc' # "done"
      BY <2>2, <2>3, <3>2 DEF Submitted
    <3> QED
      BY <3>1, <3>2
  <2>4. CASE Polled
    <3>0. pc = "body" /\ limit \in Nat /\ limit' = limit /\ UNCHANGED clock
      BY <2>4 DEF Polled
    <3>1. CASE Pause(limit) /\ UNCHANGED attempt
      BY ONLY <2>2, <3>0, <3>1
    <3>2. CASE StartRequest("result", limit) /\ UNCHANGED <<wake, asked>>
      BY <2>4, <3>2 DEF Polled, StartRequest, StartAttempt, Smaller
    <3>3. CASE pc' = "done"
      BY <3>3
    <3> QED
      BY <2>4, <3>0, <3>1, <3>2, <3>3 DEF Polled
  <2> QED
    BY <1>6, <2>1, <2>3, <2>4 DEF Reads
<1>7. CASE PollAgain
  BY <1>7 DEF PollAgain, StartRequest, StartAttempt, Smaller
<1>8. CASE Service
  BY <1>8 DEF Service, ExecuteLate, FinishOperation
<1>9. CASE Tick
  BY <1>9 DEF Tick
<1>10. CASE UNCHANGED vars
  BY <1>10 DEF vars
<1> QED
  BY <1>1, <1>2, <1>3, <1>4, <1>5, <1>6, <1>7, <1>8, <1>9, <1>10 DEF Next, Client

-----------------------------------------------------------------------------
(* CallInv holds in every state of every call, whatever the options.        *)
THEOREM CallInvariant == Spec => []CallInv
<1>1. CallInv /\ [Next]_vars => CallInv'
  BY TypeNext, StageNext, DoubtNext, ShownNext, TimerNext DEF CallInv
<1> QED
  BY CallInit, <1>1, PTL DEF Spec

(* A definitive rejection proves that no attempt was executed or will be:   *)
(* the ground on which the adapters forget a create intent.                 *)
THEOREM RejectionIsFinalCorrect == Spec => []RejectionIsFinal
BY CallInvariant, PTL DEF CallInv

(* Without transient retries the service executes the request at most once.  *)
THEOREM MutatesOnceCorrect == Spec => []MutatesOnce
<1>1. CallInv => MutatesOnce
  BY DEF CallInv, OnceInv, MutatesOnce
<1> QED
  BY <1>1, CallInvariant, PTL

(* waitForOperation reports what became of the operation.                   *)
THEOREM VerdictIsTrueCorrect == Spec => []VerdictIsTrue
BY CallInvariant, PTL DEF CallInv

(* No request goes out before the time the service asked for.               *)
THEOREM WaitsAsAskedCorrect == Spec => WaitsAsAsked
<1>1. CallInv /\ [Next]_vars => [Dispatches => clock >= asked]_vars
  BY DEF CallInv, AskedInv, Dispatches, TypeOK
<1> QED
  BY <1>1, CallInvariant, PTL DEF Spec, WaitsAsAsked

(* No request goes out after its deadline or the operation's.               *)
THEOREM NeverLateCorrect == Spec => NeverLate
<1>1. ASSUME CallInv, Dispatches, [Next]_vars
      PROVE  clock < deadline /\ (stage # "submit" => clock < limit)
  <2>1. clock < deadline
    BY <1>1 DEF Dispatches, Settle, SleepOrThrow, StartAttempt, StartRequest, Pause, vars,
       Next, Client, Service, Begin, TokenSettles, Dispatch, TokenFails, LoseReply, Replies,
       TakeReply, Retry, Reads, BodyFails, Rejected, Submitted, Polled, ResultRead,
       PollAgain, ExecuteLate, FinishOperation, Tick
  <2> QED
    BY <1>1, <2>1 DEF CallInv, LimitInv, Dispatches, TypeOK
<1> QED
  BY <1>1, CallInvariant, PTL DEF Spec, NeverLate
=============================================================================
