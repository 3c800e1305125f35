---------------------------- MODULE FabricClient ----------------------------
(***************************************************************************)
(* One call through FabricClient (src/src/fabric/client.ts): request with  *)
(* its attempts, backoff, Retry-After and deadline, and waitForOperation,  *)
(* which polls the long-running operation that a 202 announces.  The       *)
(* service may execute a request whose reply is lost, slow or a 5xx, at    *)
(* once or at any later time, so what the client throws is all the caller  *)
(* has to decide whether the mutation may still take effect.               *)
(*                                                                         *)
(* Time is a clock that may pass any timer before the client runs again.   *)
(***************************************************************************)
EXTENDS Integers

CONSTANTS
  Modes,            \* retry modes the call may be made with
  Accepted,         \* acceptedStatuses of the call
  ReadResults,      \* waitForOperation (TRUE), waitForOperationCompletion
  MaxRetries,       \* options.maxRetries
  BaseDelay,        \* options.retryBaseDelayMs
  RequestTimeout,   \* options.requestTimeoutMs
  OperationTimeout, \* options.operationTimeoutMs
  PollInterval,     \* options.operationPollIntervalMs
  RetryAfters,      \* delays the service may ask for
  MaxClock          \* bound: the last instant of the instance

AllModes == {"never", "throttling-only", "transient"}
Statuses == {200, 201, 202, 400, 408, 429, 503}

Backoff(n) == BaseDelay * 2^n

ASSUME OptionsAssumption ==
  /\ Modes \subseteq AllModes
  /\ Accepted \subseteq Statuses \cap 200..299 \* as every mutation has it
  /\ ReadResults \in SUBSET BOOLEAN
  /\ MaxRetries \in Nat
  /\ \A n \in 0..MaxRetries : Backoff(n) \in Nat
ASSUME TimeAssumption ==
  /\ RequestTimeout \in Nat
  /\ OperationTimeout \in Nat
  /\ PollInterval \in Nat
  /\ RetryAfters \subseteq Nat
  /\ MaxClock \in Nat

VARIABLES
  mode,      \* the call's retryable and retryMode options
  clock,     \* options.now()
  stage,     \* which request: the caller's, a poll, or the result's
  pc,        \* what the client awaits
  attempt,   \* retries of this request so far
  ambiguous, \* priorAttemptAmbiguous
  deadline,  \* requestDeadline of this request
  limit,     \* deadline of the operation (pollOperation)
  wake,      \* when the sleep under way ends
  response,  \* the response whose body is being read
  outcome,   \* what the call returned or threw
  late,      \* copies of the caller's request the service may yet execute
  applied,   \* how often the service executed the caller's request
  op,        \* state of the long-running operation
  asked      \* instant before which the service asked not to be called

callVars    == <<stage, attempt, ambiguous, deadline, limit>>
serviceVars == <<late, applied, op>>
vars == <<mode, clock, callVars, pc, wake, response, outcome, serviceVars, asked>>

NoDelay    == -1
NoResponse == [status |-> 0, after |-> NoDelay, shows |-> "none"]
Pending    == [kind |-> "pending", status |-> 0, ambiguous |-> FALSE]
Returned   == [kind |-> "returned", status |-> 0, ambiguous |-> FALSE]
Thrown   == [kind |-> "error", status |-> 0, ambiguous |-> FALSE]
OperationFailed == [kind |-> "operationFailed", status |-> 0, ambiguous |-> FALSE]
ApiError(s, doubt) == [kind |-> "apiError", status |-> s, ambiguous |-> doubt]

IsTransientStatus(s) == s \in {408, 429, 500, 502, 503, 504}
\* Mutant: a server error is taken to have done nothing.
IsAmbiguousTimeoutOnly(s) == s = 408
IsAmbiguousTransientStatus(s) == s = 408 \/ s >= 500

(* Polls and result reads are GETs with the default options.                *)
Mode       == IF stage = "submit" THEN mode ELSE "transient"
IsAccepted(s) == IF stage = "submit" THEN s \in Accepted ELSE s \in 200..299
Retryable  == Mode # "never"
\* Mutant: throttling-only is forgotten.
ShouldRetryAnyTransient(s) == Retryable /\ IsTransientStatus(s)
ShouldRetryStatus(s) ==
  Retryable /\ IF Mode = "throttling-only" THEN s = 429 ELSE IsTransientStatus(s)
RetryTransportErrors == Mode = "transient"
DelayByBackoff(after) == Backoff(attempt)
CanRetry == attempt < MaxRetries
DelayBeforeRetry(after) == IF after = NoDelay THEN Backoff(attempt) ELSE after
Succeeded == response.shows = "succeeded"

Smaller(a, b) == IF a < b THEN a ELSE b

(* The caller's rule for an error that proves nothing was or will be done.  *)
IsDefinitiveRejection(o) ==
  /\ o.kind = "apiError"
  /\ ~o.ambiguous
  /\ o.status \in 400..499 \ {408, 429}
-----------------------------------------------------------------------------
Settle(o) == pc' = "done" /\ outcome' = o

(* The top of the loop: ask for a token, within the request's deadline.     *)
StartAttempt(until) ==
  IF clock < until
  THEN pc' = "token" /\ UNCHANGED outcome
  ELSE Settle(Thrown)

\* Mutant: a poll may outlive its operation.
StartUnlimitedRequest(next, until) ==
  /\ stage' = next /\ attempt' = 0 /\ ambiguous' = FALSE
  /\ deadline' = clock + RequestTimeout
  /\ StartAttempt(clock + RequestTimeout)

(* A new request: its own deadline, no attempt made yet.                    *)
StartRequest(next, until) ==
  /\ stage' = next
  /\ attempt' = 0
  /\ ambiguous' = FALSE
  /\ deadline' = Smaller(until, clock + RequestTimeout)
  /\ StartAttempt(Smaller(until, clock + RequestTimeout))

Init ==
  /\ mode \in Modes
  /\ clock = 0
  /\ stage = "submit" /\ attempt = 0 /\ ambiguous = FALSE
  /\ deadline = RequestTimeout /\ limit = 0
  /\ pc = "start" /\ wake = 0 /\ response = NoResponse /\ outcome = Pending
  /\ late = 0 /\ applied = 0 /\ op = "none" /\ asked = 0

Begin ==
  /\ pc = "start"
  /\ StartRequest("submit", clock + RequestTimeout)
  /\ UNCHANGED <<mode, clock, limit, wake, response, serviceVars, asked>>

(* The token arrives and, with time left, the request goes out at once.     *)
Dispatch ==
  /\ pc = "token"
  /\ IF clock < deadline
     THEN pc' = "sent" /\ UNCHANGED outcome
     ELSE Settle(Thrown)
  /\ UNCHANGED <<mode, clock, callVars, wake, response, serviceVars, asked>>

TokenFails ==
  /\ pc = "token"
  /\ Settle(Thrown)
  /\ UNCHANGED <<mode, clock, callVars, wake, response, serviceVars, asked>>

(* sleepForRetryOrThrow: no sleep that would not end before the deadline.    *)
SleepOrThrow(delay, error) ==
  IF deadline - clock <= 0
  THEN Settle(Thrown) /\ UNCHANGED wake
  ELSE IF delay >= deadline - clock
       THEN Settle(error) /\ UNCHANGED wake
       ELSE pc' = "backoff" /\ wake' = clock + delay /\ UNCHANGED outcome

(* What a copy of the caller's request may come to once it is out of hand:  *)
(* never arrives, is executed now, or may yet be.                           *)
CopyOutOfHand ==
  IF stage # "submit"
  THEN UNCHANGED <<late, applied>>
  ELSE \/ UNCHANGED <<late, applied>>
       \/ applied' = applied + 1 /\ UNCHANGED late
       \/ late' = late + 1 /\ UNCHANGED applied

(* The transport fails, or the deadline aborts the fetch.                   *)
LoseReply ==
  /\ pc = "sent"
  /\ CopyOutOfHand
  /\ IF RetryTransportErrors /\ CanRetry
     THEN /\ ambiguous' = TRUE
          /\ SleepOrThrow(Backoff(attempt), Thrown)
     ELSE Settle(Thrown) /\ UNCHANGED <<ambiguous, wake>>
  /\ UNCHANGED <<mode, clock, stage, attempt, deadline, limit, response, op, asked>>

(* How the service comes to answer s: a success was executed, a definitive  *)
(* client error was not, a timeout or server error says nothing.            *)
ServiceAnswers(s) ==
  /\ stage # "submit" => s \notin {201, 202}
  /\ IF stage = "submit" /\ s \in 200..299
     THEN /\ applied' = applied + 1
          /\ op' = IF s = 202 THEN "running" ELSE op
          /\ UNCHANGED late
     ELSE /\ UNCHANGED op
          /\ IF s \in {408, 503}
             THEN CopyOutOfHand
             ELSE UNCHANGED <<late, applied>>

(* The response's head arrives.  One that will be retried is not read.      *)
TakeReply(s, after) ==
  /\ pc = "sent"
  /\ ServiceAnswers(s)
  /\ IF ~(Retryable /\ IsTransientStatus(s) /\ CanRetry)
     THEN /\ pc' = "body"
          /\ response' = [status |-> s, after |-> after, shows |-> op]
          /\ UNCHANGED <<ambiguous, wake, outcome, asked>>
     ELSE /\ UNCHANGED response
          /\ IF ShouldRetryStatus(s)
             THEN /\ ambiguous' = (ambiguous \/ IsAmbiguousTransientStatus(s))
                  /\ SleepOrThrow(DelayBeforeRetry(after), ApiError(s, ambiguous'))
                  /\ asked' = IF after = NoDelay THEN asked ELSE clock + after
             ELSE /\ Settle(ApiError(s, ambiguous))
                  /\ UNCHANGED <<ambiguous, wake, asked>>
  /\ UNCHANGED <<mode, clock, stage, attempt, deadline, limit>>

Retry ==
  /\ pc = "backoff"
  /\ clock >= wake
  /\ attempt' = attempt + 1
  /\ StartAttempt(deadline)
  /\ UNCHANGED <<mode, clock, stage, ambiguous, deadline, limit, wake, response,
                 serviceVars, asked>>

\* Mutant: no timer races the body.
BodyFailsEarly ==
  /\ pc = "body" /\ clock < deadline
  /\ Settle(Thrown)
  /\ UNCHANGED <<mode, clock, callVars, wake, response, serviceVars, asked>>

(* The body stalls or breaks: a rejection keeps its status.                 *)
BodyFails ==
  /\ pc = "body"
  /\ Settle(IF IsAccepted(response.status) THEN Thrown
            ELSE ApiError(response.status, ambiguous))
  /\ UNCHANGED <<mode, clock, callVars, wake, response, serviceVars, asked>>

Rejected ==
  /\ pc = "body"
  /\ clock < deadline
  /\ ~IsAccepted(response.status)
  /\ Settle(ApiError(response.status, ambiguous))
  /\ UNCHANGED <<mode, clock, callVars, wake, response, serviceVars, asked>>

(* The loop of pollOperation: sleep, for no longer than the operation has.  *)
Pause(until) ==
  LET delay == IF response.after = NoDelay THEN PollInterval ELSE response.after
  IN IF clock < until
     THEN /\ pc' = "pause"
          /\ wake' = clock + Smaller(delay, until - clock)
          /\ asked' = IF response.after = NoDelay THEN asked ELSE clock + response.after
          /\ UNCHANGED outcome
     ELSE Settle(Thrown) /\ UNCHANGED <<wake, asked>>

(* The caller's request is answered; a 202 that names its operation is      *)
(* waited for.                                                              *)
Submitted ==
  /\ pc = "body" /\ stage = "submit"
  /\ clock < deadline
  /\ IsAccepted(response.status)
  /\ IF response.status = 202
     THEN \/ /\ stage' = "poll"
             /\ limit' = clock + OperationTimeout
             /\ Pause(clock + OperationTimeout)
          \/ Settle(Thrown) /\ UNCHANGED <<stage, limit, wake, asked>>
     ELSE Settle(Returned) /\ UNCHANGED <<stage, limit, wake, asked>>
  /\ UNCHANGED <<mode, clock, attempt, ambiguous, deadline, response, serviceVars>>

PollAgain ==
  /\ pc = "pause"
  /\ clock >= wake
  /\ IF clock >= limit
     THEN Settle(Thrown) /\ UNCHANGED <<stage, attempt, ambiguous, deadline>>
     ELSE StartRequest("poll", limit)
  /\ UNCHANGED <<mode, clock, limit, wake, response, serviceVars, asked>>

Polled ==
  /\ pc = "body" /\ stage = "poll"
  /\ clock < deadline
  /\ IsAccepted(response.status)
  /\ \/ /\ Succeeded /\ TRUE \in ReadResults
        /\ StartRequest("result", limit)
        /\ UNCHANGED <<wake, asked>>
     \/ /\ Succeeded /\ FALSE \in ReadResults
        /\ Settle(Returned)
        /\ UNCHANGED <<stage, attempt, ambiguous, deadline, wake, asked>>
     \/ /\ response.shows = "failed" /\ ~Succeeded
        /\ Settle(OperationFailed)
        /\ UNCHANGED <<stage, attempt, ambiguous, deadline, wake, asked>>
     \/ /\ response.shows # "failed" /\ ~Succeeded
        /\ Pause(limit)
        /\ UNCHANGED <<stage, attempt, ambiguous, deadline>>
  /\ UNCHANGED <<mode, clock, limit, response, serviceVars>>

ResultRead ==
  /\ pc = "body" /\ stage = "result"
  /\ clock < deadline
  /\ IsAccepted(response.status)
  /\ Settle(Returned)
  /\ UNCHANGED <<mode, clock, callVars, wake, response, serviceVars, asked>>
-----------------------------------------------------------------------------
(* The service, at any time: a late copy is executed, the operation ends.   *)
ExecuteLate ==
  /\ late > 0
  /\ late' = late - 1
  /\ applied' = applied + 1
  /\ UNCHANGED <<mode, clock, callVars, pc, wake, response, outcome, op, asked>>

FinishOperation ==
  /\ op = "running"
  /\ op' \in {"succeeded", "failed"}
  /\ UNCHANGED <<mode, clock, callVars, pc, wake, response, outcome, late, applied, asked>>

Tick ==
  /\ pc \notin {"start", "done"}
  /\ clock < MaxClock
  /\ clock' = clock + 1
  /\ UNCHANGED <<mode, callVars, pc, wake, response, outcome, serviceVars, asked>>

Replies == \E s \in Statuses, after \in RetryAfters \cup {NoDelay} : TakeReply(s, after)
TokenSettles == Dispatch \/ TokenFails
Reads   == BodyFails \/ Rejected \/ Submitted \/ Polled \/ ResultRead
Client  == Begin \/ TokenSettles \/ LoseReply \/ Replies \/ Retry \/ Reads \/ PollAgain
Service == ExecuteLate \/ FinishOperation

Next == Client \/ Service \/ Tick

(* Timers fire and what the client awaits settles: getToken and the body    *)
(* are raced with a timer, the fetch is aborted by one.                     *)
Spec == Init /\ [][Next]_vars /\ WF_vars(Client) /\ WF_vars(Tick)
-----------------------------------------------------------------------------
(* The variables keep their types.                                          *)
Responses == [status : Statuses \cup {0}, after : RetryAfters \cup {NoDelay},
              shows : {"none", "running", "succeeded", "failed"}]
Outcomes == [kind : {"pending", "returned", "error", "operationFailed", "apiError"},
             status : Statuses \cup {0}, ambiguous : BOOLEAN]
TypeOK ==
  /\ mode \in Modes
  /\ clock \in 0..MaxClock
  /\ stage \in {"submit", "poll", "result"}
  /\ pc \in {"start", "token", "sent", "backoff", "body", "pause", "done"}
  /\ attempt \in 0..MaxRetries
  /\ ambiguous \in BOOLEAN
  /\ deadline \in Nat /\ limit \in Nat /\ wake \in Nat /\ asked \in Nat
  /\ response \in Responses
  /\ outcome \in Outcomes
  /\ late \in Nat /\ applied \in Nat
  /\ op \in {"none", "running", "succeeded", "failed"}

(* What a caller may take as a definitive rejection (workspace-identity.ts   *)
(* and the other adapters drop the create intent on it): no attempt was     *)
(* executed, and none ever will be.                                         *)
RejectionIsFinal ==
  stage = "submit" /\ IsDefinitiveRejection(outcome) => applied = 0 /\ late = 0

(* A mutation sent with retryable false, or with throttling-only retries    *)
(* (network-protection.ts), takes effect at most once however often the     *)
(* client retried.                                                          *)
MutatesOnce == mode # "transient" => applied + late <= 1

(* What waitForOperation reports is what happened: it returns only after    *)
(* the operation succeeded, and blames the operation only if it failed -    *)
(* applyApprovedPlan forgets the pending operation on that error.           *)
VerdictIsTrue ==
  /\ outcome.kind = "returned" => applied > 0 /\ (stage # "submit" => op = "succeeded")
  /\ outcome.kind = "operationFailed" => op = "failed"

Dispatches == pc = "token" /\ pc' = "sent"

(* No request goes out before the delay the service last asked for is over, *)
(* whatever deadline cut the wait short.                                    *)
WaitsAsAsked == [][Dispatches => clock >= asked]_vars

(* No request goes out once its own deadline, or the operation's, is over,  *)
(* however long the token or a sleep took.                                  *)
NeverLate ==
  [][Dispatches => clock < deadline /\ (stage # "submit" => clock < limit)]_vars

(* Every call settles, however the service answers.                         *)
Settles == <>(pc = "done")
-----------------------------------------------------------------------------
(* The inductive invariant.                                                 *)
Asking    == pc \in {"start", "token", "sent", "backoff"}
Untouched == applied = 0 /\ late = 0

(* A call ends once.                                                        *)
StageInv ==
  /\ pc # "done" => outcome = Pending
  /\ pc = "start" => stage = "submit" /\ ~ambiguous
  /\ pc = "pause" => stage = "poll"

(* Until an attempt is in doubt, none has touched anything.                  *)
DoubtInv ==
  stage = "submit" /\ ~ambiguous =>
    /\ Asking => Untouched
    /\ pc = "body" /\ response.status \in 400..499 \ {408} => Untouched

(* Only transient retries go on after an attempt in doubt.                   *)
OnceInv == mode # "transient" => (stage = "submit" => ~ambiguous) /\ applied + late <= 1

(* What was read of the operation is still so.                              *)
ShownInv ==
  /\ stage = "submit" /\ pc = "body" /\ response.status \in 200..299 => applied > 0
  /\ stage = "submit" /\ Asking => op = "none"
  /\ stage # "submit" => applied > 0
  /\ stage = "result" => op = "succeeded"
  /\ response.shows \in {"succeeded", "failed"} => op = response.shows

(* A sleep ends no sooner than asked, unless the operation ends first.       *)
AskedInv ==
  \/ pc = "done"
  \/ asked <= clock
  \/ pc = "backoff" /\ asked <= wake
  \/ pc = "pause" /\ (asked <= wake \/ limit <= wake)

(* A retry is only slept for when one is left.                              *)
RetryInv == pc = "backoff" => CanRetry

LimitInv == stage # "submit" /\ pc \notin {"pause", "done"} => deadline <= limit

CallInv ==
  /\ TypeOK /\ RejectionIsFinal /\ VerdictIsTrue
  /\ StageInv /\ DoubtInv /\ OnceInv /\ ShownInv /\ AskedInv
  /\ RetryInv /\ LimitInv
=============================================================================
