------------------------------- MODULE LlmCall -------------------------------
(***************************************************************************)
(* One structured call to the language model: LlmProvider with its         *)
(* retries and its json_object fallback, the TracedLlmClient around it,    *)
(* and llm::structured, which decodes the answer                           *)
(* (crates/chat/src/assistant/llm).  The provider itself is external: a    *)
(* request is answered, refused or times out, quickly or slowly.           *)
(***************************************************************************)
EXTENDS Integers, Sequences

CONSTANTS
    MaxRetries,     \* LLM_MAX_RETRIES
    SlowAnswer,     \* LLM_TIMEOUT_MS: what a timeout takes, and the slowest answer
    TraceFaults     \* may the INSERT of a trace err?

ASSUME LlmAssumption == MaxRetries \in Nat /\ SlowAnswer \in Nat /\ TraceFaults \in BOOLEAN

RETRY_BASE_DELAY_MS == 500
RETRY_MAX_DELAY     == 8000
RETRY_BUDGET        == 45000

VARIABLES
    stage,    \* "schema", then "fallback"; "trace", "decode", "malformed"; "returned"
    attempt,  \* retries made by this send_with_retry
    began,    \* ms of the call that had passed when it began
    took,     \* ms of the call that have passed
    slept,    \* ms of them it has slept between two attempts
    outcome,  \* what the call returns
    traces    \* the traces the call recorded, and whether the row was written

llmVars == <<stage, attempt, began, took, slept, outcome, traces>>

Results == {"none", "ok", "timeout", "malformed", "error"}

LlmTypeOK ==
    /\ stage \in {"schema", "fallback", "trace", "decode", "malformed", "returned"}
    /\ attempt \in 0..MaxRetries
    /\ began \in Nat /\ took \in Nat /\ slept \in Nat
    /\ outcome \in Results
    /\ traces \in Seq([status : Results, written : BOOLEAN])

LlmInit ==
    /\ stage = "schema" /\ attempt = 0 /\ began = 0 /\ took = 0 /\ slept = 0
    /\ outcome = "none" /\ traces = <<>>

Sending == stage \in {"schema", "fallback"}
Durations == {0, SlowAnswer}

\* retry_delay with the least (0) and the largest (1) jitter; the delay is
\* shifted left by the attempt, at most by five.
RetryDelay(k, jitter) ==
    LET base == RETRY_BASE_DELAY_MS * <<1, 2, 4, 8, 16, 32>>[IF k < 5 THEN k + 1 ELSE 6]
        wait == IF base < RETRY_MAX_DELAY THEN base ELSE RETRY_MAX_DELAY
    IN  wait + (wait * jitter) \div 4

\* The request of an attempt took d, and the call has its result.
SettleCall(d, result) ==
    /\ took' = took + d
    /\ outcome' = result
    /\ stage' = "trace"
    /\ UNCHANGED <<attempt, began, slept, traces>>

\* The answer is a JSON object or array, or parse_structured_content errs.
Answered(d, wellFormed) == Sending /\ SettleCall(d, IF wellFormed THEN "ok" ELSE "malformed")

\* Deviation: the deadline is compared before the delay is added.
MayRetryLate(d, jitter) == attempt < MaxRetries /\ took - began + d <= RETRY_BUDGET

\* send_with_retry: a transient error (429, 5xx, connection) is retried while
\* attempts are left and the next wait ends before the deadline, which is
\* RETRY_BUDGET after the loop began.
MayRetry(d, jitter) ==
    /\ attempt < MaxRetries
    /\ took - began + d + RetryDelay(attempt, jitter) <= RETRY_BUDGET

TransientRetried(d, jitter) ==
    /\ Sending
    /\ MayRetry(d, jitter)
    /\ attempt' = attempt + 1
    /\ slept'   = slept + RetryDelay(attempt, jitter)
    /\ took'    = took + d + RetryDelay(attempt, jitter)
    /\ UNCHANGED <<stage, began, outcome, traces>>

TransientFinal(d, jitter) ==
    /\ Sending
    /\ ~MayRetry(d, jitter)
    /\ SettleCall(d, "error")

\* "LLM request timed out" holds neither of the words is_transient_error
\* looks for: it is not retried.  classify_status does know it.
TimedOut == Sending /\ SettleCall(SlowAnswer, "timeout")

\* A 400 to the schema request starts the fallback, a second loop with
\* attempts and a deadline of its own.
BadRequest(d) ==
    /\ stage = "schema"
    /\ stage' = "fallback"
    /\ attempt' = 0
    /\ took' = took + d
    /\ began' = took + d
    /\ UNCHANGED <<slept, outcome, traces>>

\* Any other refusal, and a 400 to the fallback, end the call.
Refused(d) == Sending /\ SettleCall(d, "error")

Trace(status, written) ==
    /\ written \/ TraceFaults
    /\ traces' = Append(traces, [status |-> status, written |-> written])

\* TracedLlmClient::structured_value records success and error alike; a trace
\* that cannot be written is dropped.
RecordTrace(written) ==
    /\ stage = "trace"
    /\ Trace(outcome, written)
    /\ stage' = IF outcome = "ok" THEN "decode" ELSE "returned"
    /\ UNCHANGED <<attempt, began, took, slept, outcome>>

\* llm::structured: decode, with one level of wrapping removed.
Decode(matches) ==
    /\ stage = "decode"
    /\ outcome' = IF matches THEN "ok" ELSE "malformed"
    /\ stage' = IF matches THEN "returned" ELSE "malformed"
    /\ UNCHANGED <<attempt, began, took, slept, traces>>

RecordMalformed(written) ==
    /\ stage = "malformed"
    /\ Trace("malformed", written)
    /\ stage' = "returned"
    /\ UNCHANGED <<attempt, began, took, slept, outcome>>

LlmNext ==
    \/ \E d \in Durations, b \in BOOLEAN : Answered(d, b)
    \/ \E d \in Durations, jitter \in {0, 1} :
           TransientRetried(d, jitter) \/ TransientFinal(d, jitter)
    \/ \E d \in Durations : BadRequest(d) \/ Refused(d)
    \/ TimedOut
    \/ \E b \in BOOLEAN : RecordTrace(b) \/ Decode(b) \/ RecordMalformed(b)

LlmSpec == LlmInit /\ [][LlmNext]_llmVars

-----------------------------------------------------------------------------
(* Properties *)

\* A job is not kept by one call for good: over both loops, with any mix of
\* fast and slow failures, timeouts and jitter, the call sleeps no longer than
\* two budgets, and its last request begins before they have run out.  (One
\* budget, the "ceiling for all waiting inside one call" of provider.rs, it may
\* exceed: send_with_retry sets a deadline for each loop.)
CallIsBounded ==
    /\ slept <= 2 * RETRY_BUDGET
    /\ took <= 2 * (RETRY_BUDGET + SlowAnswer)
=============================================================================
