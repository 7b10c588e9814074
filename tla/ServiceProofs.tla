---------------------------- MODULE ServiceProofs ----------------------------
(***************************************************************************)
(* Proofs about four services around the job: the limit on identifier      *)
(* lookups, the retries of a language model call, the audit channel and    *)
(* the vector index, for any number of lookups, retries, events, replicas  *)
(* and syncs, and any limit, capacity, batch size and catalogs; and about  *)
(* all the services of ServicesMC together.                                *)
(***************************************************************************)
EXTENDS ServicesMC, AuthProofs, DialogueProofs

-----------------------------------------------------------------------------
(* The limit on identifier lookups *)

\* At most one lookup is about to set the expiry, and while it is, the key it
\* created is still there and one admission is kept for it: the decision of
\* the lookup that opens a window comes a round trip after its INCR, when
\* later lookups may already have been admitted.
Opening(l) == lookup[l] = "expire"

LimitInv ==
    /\ counter \in Nat /\ admitted \in Nat
    /\ expiring \in BOOLEAN /\ abandoned \in BOOLEAN
    /\ lookup \in [Lookups -> {"idle", "incr", "expire", "admitted", "refused"}]
    /\ \A k, l \in Lookups : Opening(k) /\ Opening(l) => k = l
    /\ expiring => counter # 0
    /\ admitted <= counter /\ admitted <= LookupLimit
    /\ \A l \in Lookups : Opening(l) =>
          ~expiring /\ admitted < counter /\ admitted < LookupLimit
    /\ counter # 0 /\ ~expiring /\ ~abandoned => \E l \in Lookups : Opening(l)

\* The limit invariant is inductive.
LEMMA NextLimitInv == LimitInv /\ [LimitNext]_limitVars => LimitInv'
<1> SUFFICES ASSUME LimitInv, [LimitNext]_limitVars PROVE LimitInv'
  OBVIOUS
<1> USE LookupAssumption
<1>0. CASE UNCHANGED limitVars
  BY <1>0 DEF LimitInv, Opening, limitVars
<1>1. ASSUME NEW l \in Lookups, BeginLookup(l) PROVE LimitInv'
  <2>1. \A k \in Lookups : Opening(k)' <=> Opening(k)
    BY <1>1 DEF LimitInv, Opening, BeginLookup
  <2> QED BY <1>1, <2>1 DEF LimitInv, BeginLookup
<1>2. ASSUME NEW l \in Lookups, Increment(l) PROVE LimitInv'
  <2>1. CASE counter = 0
    <3>1. \A k \in Lookups : Opening(k)' <=> k = l
      BY <1>2, <2>1 DEF LimitInv, Opening, Increment
    <3> QED BY <1>2, <2>1, <3>1 DEF LimitInv, Increment
  <2>2. CASE counter # 0
    <3>1. \A k \in Lookups : Opening(k)' <=> Opening(k)
      BY <1>2, <2>2 DEF LimitInv, Opening, Increment, Admit
    <3> QED BY <1>2, <2>2, <3>1 DEF LimitInv, Increment, Admit
  <2> QED BY <2>1, <2>2
<1>3. ASSUME NEW l \in Lookups, SetExpiry(l) PROVE LimitInv'
  <2>1. \A k \in Lookups : ~Opening(k)'
    BY <1>3 DEF LimitInv, Opening, SetExpiry, Admit
  <2>2. Opening(l)
    BY <1>3 DEF Opening, SetExpiry
  <2>3. counter \in Nat /\ counter # 0
    BY <2>2 DEF LimitInv
  <2>4. expiring' \in BOOLEAN /\ expiring'
    BY <1>3, <2>3 DEF SetExpiry
  <2> QED BY <1>3, <2>1, <2>2, <2>3, <2>4 DEF LimitInv, SetExpiry, Admit
<1>4. ASSUME NEW l \in Lookups, NEW applied \in BOOLEAN, LookupFails(l, applied) PROVE LimitInv'
  <2>1. \A k \in Lookups : Opening(k)' <=> Opening(k) /\ k # l
    BY <1>4 DEF LimitInv, Opening, LookupFails
  <2>2. CASE lookup[l] = "incr"
    BY <1>4, <2>1, <2>2 DEF LimitInv, LookupFails, Opening
  <2>3. CASE lookup[l] = "expire"
    BY <1>4, <2>1, <2>3 DEF LimitInv, LookupFails, Opening
  <2> QED BY <1>4, <2>2, <2>3 DEF LookupFails
<1>5. CASE WindowEnds
  <2>1. counter' = 0 /\ admitted' = 0 /\ ~expiring' /\ expiring' \in BOOLEAN
    BY <1>5 DEF WindowEnds
  <2>2. \A k \in Lookups : ~Opening(k)'
    BY <1>5 DEF LimitInv, WindowEnds, Opening
  <2> QED BY <1>5, <2>1, <2>2 DEF LimitInv, WindowEnds
<1> QED BY <1>0, <1>1, <1>2, <1>3, <1>4, <1>5 DEF LimitNext

\* The lookups that may have incremented the counter.
Counted == {l \in Lookups : lookup[l] \in {"expire", "admitted", "refused"}}

WithinCounted == counter <= Cardinality(Counted)

\* A lookup increments the counter at most once.
LEMMA NextCounted == LimitInv /\ WithinCounted /\ [LimitNext]_limitVars => WithinCounted'
<1> SUFFICES ASSUME LimitInv, counter <= Cardinality(Counted), [LimitNext]_limitVars
             PROVE  counter' <= Cardinality(Counted')
  BY DEF WithinCounted
<1>a. IsFiniteSet(Counted) /\ Cardinality(Counted) \in Nat /\ counter \in Nat
  BY LookupAssumption, FS_Subset, FS_CardinalityType DEF Counted, LimitInv
<1>b. ASSUME Counted' = Counted, counter' <= counter, counter' \in Nat
      PROVE  counter' <= Cardinality(Counted')
  <2>1. Cardinality(Counted') = Cardinality(Counted)
    BY <1>b, Zenon
  <2> QED BY <1>a, <1>b, <2>1
<1>c. ASSUME NEW l, l \notin Counted, Counted' = Counted \union {l}, counter' \in {counter, counter + 1}
      PROVE  counter' <= Cardinality(Counted')
  <2>1. Cardinality(Counted \union {l}) = Cardinality(Counted) + 1
    BY <1>a, <1>c, FS_AddElement
  <2>2. Cardinality(Counted') = Cardinality(Counted) + 1
    BY <1>c, <2>1, Zenon
  <2> QED BY <1>a, <1>c, <2>2
<1>0. CASE UNCHANGED limitVars
  BY <1>0, <1>a, <1>b DEF limitVars, Counted
<1>1. ASSUME NEW l \in Lookups, BeginLookup(l) \/ SetExpiry(l) PROVE counter' <= Cardinality(Counted')
  BY <1>1, <1>a, <1>b DEF BeginLookup, SetExpiry, Admit, Counted, LimitInv
<1>2. ASSUME NEW l \in Lookups, Increment(l) PROVE counter' <= Cardinality(Counted')
  <2>1. l \notin Counted /\ Counted' = Counted \union {l}
    BY <1>2 DEF Increment, Admit, Counted, LimitInv
  <2> QED BY <1>2, <1>c, <2>1 DEF Increment
<1>3. ASSUME NEW l \in Lookups, NEW applied \in BOOLEAN, LookupFails(l, applied)
      PROVE  counter' <= Cardinality(Counted')
  <2>1. CASE lookup[l] = "incr"
    <3>1. l \notin Counted /\ Counted' = Counted \union {l}
      BY <1>3, <2>1 DEF LookupFails, Counted, LimitInv
    <3> QED BY <1>3, <1>c, <3>1 DEF LookupFails
  <2>2. CASE lookup[l] = "expire"
    <3>1. Counted' = Counted
      BY <1>3, <2>2 DEF LookupFails, Counted, LimitInv
    <3> QED BY <1>3, <1>a, <1>b, <2>2, <3>1 DEF LookupFails
  <2> QED BY <1>3, <2>1, <2>2 DEF LookupFails
<1>4. CASE WindowEnds
  BY <1>4, <1>a, <1>b DEF WindowEnds, Counted
<1> QED BY <1>0, <1>1, <1>2, <1>3, <1>4 DEF LimitNext

\* What the limit starts with.
LEMMA InitLimitInv == LimitInit => LimitInv /\ WithinCounted
<1> SUFFICES ASSUME LimitInit PROVE LimitInv /\ WithinCounted
  OBVIOUS
<1>1. ~expiring /\ expiring \in BOOLEAN /\ ~abandoned /\ abandoned \in BOOLEAN
  BY DEF LimitInit
<1>2. LimitInv
  BY <1>1, LookupAssumption DEF LimitInit, LimitInv, Opening
<1>3. Cardinality(Counted) \in Nat
  BY LookupAssumption, FS_Subset, FS_CardinalityType DEF Counted
<1> QED BY <1>2, <1>3 DEF LimitInit, WithinCounted

\* The counter and the admissions never exceed the lookups there are.
LEMMA LimitTypes == LimitInv /\ WithinCounted => LimitTypeOK
<1> SUFFICES ASSUME LimitInv, WithinCounted PROVE LimitTypeOK
  OBVIOUS
<1>1. /\ Cardinality(Lookups) \in Nat /\ Cardinality(Counted) \in Nat
      /\ Cardinality(Counted) <= Cardinality(Lookups)
  BY LookupAssumption, FS_Subset, FS_CardinalityType DEF Counted
<1> QED BY <1>1 DEF LimitInv, LimitTypeOK, WithinCounted

\* No window admits more lookups than the limit, however the two commands of
\* the lookups interleave, fail or are cut off, and only an interrupted
\* opener leaves a window without an end.
THEOREM LookupsLimited == LimitSpec => [](LimitTypeOK /\ WithinLookupLimit)
<1>1. LimitInv => WithinLookupLimit
  BY DEF LimitInv, Opening, WithinLookupLimit
<1>2. LimitSpec => [](LimitInv /\ WithinCounted)
  BY InitLimitInv, NextLimitInv, NextCounted, PTL DEF LimitSpec
<1> QED BY <1>1, <1>2, LimitTypes, PTL

-----------------------------------------------------------------------------
(* The retries of a language model call *)

\* Each loop ends its waits within a budget of its own, and the second begins
\* within a budget and one request; a settled call keeps what the loops left.
RetryInv ==
    /\ LlmTypeOK
    /\ stage = "schema" => began = 0 /\ slept <= took /\ took <= RETRY_BUDGET
    /\ stage = "fallback" =>
        /\ began <= took
        /\ began <= RETRY_BUDGET + SlowAnswer
        /\ took <= began + RETRY_BUDGET
        /\ slept <= RETRY_BUDGET + took - began
    /\ ~Sending => CallIsBounded

\* A delay is a number of milliseconds.
LEMMA RetryDelayType ==
    ASSUME NEW k \in Nat, NEW jitter \in {0, 1}
    PROVE  RetryDelay(k, jitter) \in Nat
<1> DEFINE shift == <<1, 2, 4, 8, 16, 32>>[IF k < 5 THEN k + 1 ELSE 6]
           base  == 500 * shift
           wait  == IF base < 8000 THEN base ELSE 8000
<1>1. shift \in {1, 2, 4, 8, 16, 32}
  <2>1. CASE k < 5
    <3>1. k \in {0, 1, 2, 3, 4}
      BY <2>1
    <3> QED BY <2>1, <3>1
  <2>2. CASE ~(k < 5)
    BY <2>2
  <2> QED BY <2>1, <2>2
<1> HIDE DEF shift
<1>2. wait \in Nat
  BY <1>1
<1> HIDE DEF wait
<1>3. wait * jitter \in Nat
  BY <1>2
<1>4. (wait * jitter) \div 4 \in Nat
  BY <1>3
<1>5. RetryDelay(k, jitter) = wait + (wait * jitter) \div 4
  BY DEF RetryDelay, RETRY_BASE_DELAY_MS, RETRY_MAX_DELAY, wait, shift
<1> QED BY <1>2, <1>4, <1>5

\* A call begins with its budget.
LEMMA InitRetryInv == LlmInit => RetryInv
  BY LlmAssumption DEF LlmInit, RetryInv, LlmTypeOK, Results, Sending, RETRY_BUDGET

\* A request that settles the call adds at most the time it may take.
LEMMA SettlingKeepsRetryInv ==
    ASSUME RetryInv, Sending, NEW d \in Nat, d <= SlowAnswer, NEW result \in Results,
           SettleCall(d, result)
    PROVE  RetryInv'
<1>1. LlmTypeOK'
  BY DEF RetryInv, LlmTypeOK, SettleCall
<1>2. ~Sending' /\ stage' = "trace"
  BY DEF SettleCall, Sending
<1>3. took' = took + d /\ slept' = slept /\ took \in Nat /\ slept \in Nat /\ began \in Nat
  BY DEF SettleCall, RetryInv, LlmTypeOK
<1>4. CASE stage = "schema"
  <2>1. CallIsBounded'
    BY <1>3, <1>4, LlmAssumption DEF RetryInv, CallIsBounded, RETRY_BUDGET
  <2> QED BY <1>1, <1>2, <2>1 DEF RetryInv
<1>5. CASE stage = "fallback"
  <2>1. CallIsBounded'
    BY <1>3, <1>5, LlmAssumption DEF RetryInv, CallIsBounded, RETRY_BUDGET
  <2> QED BY <1>1, <1>2, <2>1 DEF RetryInv
<1> QED BY <1>4, <1>5 DEF Sending

\* A retry is taken only if its wait ends within the budget of its loop.
LEMMA RetryingKeepsRetryInv ==
    ASSUME RetryInv, NEW d \in Nat, NEW jitter \in {0, 1}, TransientRetried(d, jitter)
    PROVE  RetryInv'
<1> DEFINE wait == RetryDelay(attempt, jitter)
<1>0. attempt \in 0..MaxRetries /\ attempt \in Nat /\ MaxRetries \in Nat
  BY LlmAssumption DEF RetryInv, LlmTypeOK
<1>1. wait \in Nat
  BY <1>0, RetryDelayType
<1>2. /\ attempt < MaxRetries /\ took - began + d + wait <= RETRY_BUDGET
      /\ attempt' = attempt + 1 /\ slept' = slept + wait /\ took' = took + d + wait
      /\ UNCHANGED <<stage, began, outcome, traces>> /\ Sending
  BY DEF TransientRetried, MayRetry
<1> HIDE DEF wait
<1>3. LlmTypeOK'
  BY <1>0, <1>1, <1>2 DEF RetryInv, LlmTypeOK
<1>4. took \in Nat /\ slept \in Nat /\ began \in Nat
  BY DEF RetryInv, LlmTypeOK
<1>5. CASE stage = "schema"
  BY <1>1, <1>2, <1>3, <1>4, <1>5 DEF RetryInv, Sending, RETRY_BUDGET
<1>6. CASE stage = "fallback"
  BY <1>1, <1>2, <1>3, <1>4, <1>6, LlmAssumption DEF RetryInv, Sending, RETRY_BUDGET
<1> QED BY <1>2, <1>5, <1>6 DEF Sending

\* Every step of a call stays within it.
LEMMA NextRetryInv == RetryInv /\ [LlmNext]_llmVars => RetryInv'
<1> SUFFICES ASSUME RetryInv, [LlmNext]_llmVars PROVE RetryInv'
  OBVIOUS
<1>0. \A d \in Durations : d \in Nat /\ d <= SlowAnswer
  BY LlmAssumption DEF Durations
<1>1. ASSUME NEW d \in Durations, NEW jitter \in {0, 1}, TransientRetried(d, jitter)
      PROVE  RetryInv'
  BY <1>0, <1>1, RetryingKeepsRetryInv
<1>2. ASSUME NEW d \in Durations, NEW result \in Results, Sending, SettleCall(d, result)
      PROVE  RetryInv'
  BY <1>0, <1>2, SettlingKeepsRetryInv
<1>3. ASSUME NEW d \in Durations, BadRequest(d) PROVE RetryInv'
  <2>1. d \in Nat /\ d <= SlowAnswer
    BY <1>0
  <2> QED BY <1>3, <2>1, LlmAssumption DEF BadRequest, RetryInv, LlmTypeOK, Sending, RETRY_BUDGET
<1>4. ASSUME NEW b \in BOOLEAN, RecordTrace(b) \/ RecordMalformed(b) PROVE RetryInv'
  <2>1. PICK status \in Results : traces' = Append(traces, [status |-> status, written |-> b])
    BY <1>4 DEF RecordTrace, RecordMalformed, Trace, RetryInv, LlmTypeOK, Results
  <2>2. [status |-> status, written |-> b] \in [status : Results, written : BOOLEAN]
    OBVIOUS
  <2>3. traces' \in Seq([status : Results, written : BOOLEAN])
    BY <2>1, <2>2 DEF RetryInv, LlmTypeOK
  <2> QED BY <1>4, <2>3 DEF RecordTrace, RecordMalformed, RetryInv, LlmTypeOK, Sending, CallIsBounded
<1>5. ASSUME NEW b \in BOOLEAN, Decode(b) PROVE RetryInv'
  BY <1>5 DEF Decode, RetryInv, LlmTypeOK, Results, Sending, CallIsBounded
<1>6. ASSUME NEW d \in Durations, NEW b \in BOOLEAN, Answered(d, b) PROVE RetryInv'
  BY <1>2, <1>6 DEF Answered, Results
<1>7. ASSUME TimedOut PROVE RetryInv'
  BY <1>2, <1>7 DEF TimedOut, Results, Durations
<1>8. ASSUME NEW d \in Durations, Refused(d) \/ \E jitter \in {0, 1} : TransientFinal(d, jitter)
      PROVE  RetryInv'
  BY <1>2, <1>8 DEF Refused, TransientFinal, Results
<1>9. CASE UNCHANGED llmVars
  BY <1>9 DEF llmVars, RetryInv, LlmTypeOK, Sending, CallIsBounded
<1> QED BY <1>1, <1>3, <1>4, <1>5, <1>6, <1>7, <1>8, <1>9 DEF LlmNext

\* However its requests fail, a call of two loops sleeps at most two budgets
\* and is over two requests after them.
THEOREM CallStaysBounded == LlmSpec => [](LlmTypeOK /\ CallIsBounded)
<1>1. RetryInv => LlmTypeOK /\ CallIsBounded
  BY LlmAssumption DEF RetryInv, LlmTypeOK, CallIsBounded, Sending, RETRY_BUDGET
<1> QED BY <1>1, InitRetryInv, NextRetryInv, PTL DEF LlmSpec

-----------------------------------------------------------------------------
(* The audit channel *)

Increasing(s) == \A i, j \in 1..Len(s) : i < j => s[i] < s[j]
Precedes(s, t)  == \A a \in ToSet(s), b \in ToSet(t) : a < b

\* What a sequence holds, and its order, under the operations of the channel
\* and of the worker.
LEMMA Appended ==
    ASSUME NEW s \in Seq(Nat), NEW e \in Nat
    PROVE  /\ Append(s, e) \in Seq(Nat) /\ Len(Append(s, e)) = Len(s) + 1
           /\ ToSet(Append(s, e)) = ToSet(s) \union {e}
           /\ Increasing(s) /\ (\A a \in ToSet(s) : a < e) => Increasing(Append(s, e))
<1>1. /\ Append(s, e) \in Seq(Nat) /\ Len(Append(s, e)) = Len(s) + 1
      /\ \A i \in 1..Len(s) : Append(s, e)[i] = s[i]
      /\ Append(s, e)[Len(s) + 1] = e
      /\ DOMAIN s = 1..Len(s) /\ DOMAIN Append(s, e) = 1..(Len(s) + 1)
  OBVIOUS
<1>2. 1..(Len(s) + 1) = 1..Len(s) \union {Len(s) + 1}
  OBVIOUS
<1>3. ToSet(Append(s, e)) = ToSet(s) \union {e}
  BY <1>1, <1>2 DEF ToSet
<1>4. \A i \in 1..Len(s) : s[i] \in ToSet(s) /\ s[i] \in Nat
  BY <1>1 DEF ToSet
<1> QED BY <1>1, <1>3, <1>4 DEF Increasing

\* The head and the tail of increasing events.
LEMMA Taken ==
    ASSUME NEW s \in Seq(Nat), s # <<>>
    PROVE  /\ Tail(s) \in Seq(Nat) /\ Len(Tail(s)) = Len(s) - 1
           /\ Head(s) \in Nat
           /\ ToSet(s) = {Head(s)} \union ToSet(Tail(s))
           /\ Increasing(s) => /\ Increasing(Tail(s))
                               /\ \A b \in ToSet(Tail(s)) : Head(s) < b
<1>1. /\ Tail(s) \in Seq(Nat) /\ Len(Tail(s)) = Len(s) - 1 /\ Len(s) \in Nat \ {0}
      /\ \A i \in 1..(Len(s) - 1) : Tail(s)[i] = s[i + 1]
      /\ Head(s) = s[1] /\ s[1] \in Nat
      /\ DOMAIN s = 1..Len(s) /\ DOMAIN Tail(s) = 1..(Len(s) - 1)
  OBVIOUS
<1>2. \A i \in 1..Len(s) : i = 1 \/ (i - 1 \in 1..(Len(s) - 1) /\ s[i] = Tail(s)[i - 1])
  BY <1>1
<1>3. \A i \in 1..(Len(s) - 1) : i + 1 \in 1..Len(s) /\ 1 \in 1..Len(s)
  BY <1>1
<1>4. ToSet(s) = {Head(s)} \union ToSet(Tail(s))
  <2>1. {Head(s)} \union ToSet(Tail(s)) \subseteq ToSet(s)
    BY <1>1, <1>3 DEF ToSet
  <2>2. ToSet(s) \subseteq {Head(s)} \union ToSet(Tail(s))
    <3> SUFFICES ASSUME NEW x \in ToSet(s) PROVE x = Head(s) \/ x \in ToSet(Tail(s))
      OBVIOUS
    <3>1. PICK i \in 1..Len(s) : x = s[i]
      BY <1>1 DEF ToSet
    <3> QED BY <1>1, <1>2, <3>1 DEF ToSet
  <2> QED BY <2>1, <2>2
<1>5. Increasing(s) => Increasing(Tail(s))
  BY <1>1, <1>3 DEF Increasing
<1>6. Increasing(s) => \A b \in ToSet(Tail(s)) : Head(s) < b
  BY <1>1, <1>3 DEF Increasing, ToSet
<1> QED BY <1>1, <1>4, <1>5, <1>6

\* Events one after the other.
LEMMA Joined ==
    ASSUME NEW s \in Seq(Nat), NEW t \in Seq(Nat)
    PROVE  /\ s \o t \in Seq(Nat)
           /\ ToSet(s \o t) = ToSet(s) \union ToSet(t)
           /\ Increasing(s) /\ Increasing(t) /\ Precedes(s, t) => Increasing(s \o t)
<1>1. /\ s \o t \in Seq(Nat) /\ Len(s \o t) = Len(s) + Len(t)
      /\ Len(s) \in Nat /\ Len(t) \in Nat
      /\ \A i \in 1..Len(s) : (s \o t)[i] = s[i]
      /\ \A i \in 1..Len(t) : (s \o t)[i + Len(s)] = t[i]
      /\ DOMAIN s = 1..Len(s) /\ DOMAIN t = 1..Len(t) /\ DOMAIN (s \o t) = 1..Len(s \o t)
  OBVIOUS
<1>2. \A i \in 1..Len(s \o t) :
        \/ i \in 1..Len(s) /\ (s \o t)[i] = s[i]
        \/ i - Len(s) \in 1..Len(t) /\ (s \o t)[i] = t[i - Len(s)]
  <2> SUFFICES ASSUME NEW i \in 1..Len(s \o t), i \notin 1..Len(s)
               PROVE  i - Len(s) \in 1..Len(t) /\ (s \o t)[i] = t[i - Len(s)]
    BY <1>1
  <2>1. i - Len(s) \in 1..Len(t) /\ (i - Len(s)) + Len(s) = i
    BY <1>1
  <2> QED BY <1>1, <2>1
<1>3. /\ \A i \in 1..Len(s) : i \in 1..Len(s \o t)
      /\ \A i \in 1..Len(t) : i + Len(s) \in 1..Len(s \o t)
  BY <1>1
<1>4. ToSet(s \o t) = ToSet(s) \union ToSet(t)
  <2>1. ToSet(s) \union ToSet(t) \subseteq ToSet(s \o t)
    BY <1>1, <1>3 DEF ToSet
  <2>2. ToSet(s \o t) \subseteq ToSet(s) \union ToSet(t)
    BY <1>1, <1>2 DEF ToSet
  <2> QED BY <2>1, <2>2
<1>5. ASSUME Increasing(s), Increasing(t), Precedes(s, t),
             NEW i \in 1..Len(s \o t), NEW j \in 1..Len(s \o t), i < j
      PROVE  (s \o t)[i] < (s \o t)[j]
  <2>1. CASE j \in 1..Len(s)
    BY <1>1, <1>5, <2>1 DEF Increasing
  <2>2. CASE i \notin 1..Len(s)
    <3>1. /\ i - Len(s) \in 1..Len(t) /\ (s \o t)[i] = t[i - Len(s)]
          /\ j - Len(s) \in 1..Len(t) /\ (s \o t)[j] = t[j - Len(s)]
      BY <1>1, <1>2, <1>5, <2>2
    <3>2. i - Len(s) < j - Len(s)
      BY <1>1, <1>5
    <3> QED BY <1>5, <3>1, <3>2 DEF Increasing
  <2>3. CASE i \in 1..Len(s) /\ j \notin 1..Len(s)
    <3>1. (s \o t)[i] \in ToSet(s) /\ (s \o t)[j] \in ToSet(t)
      BY <1>1, <1>2, <2>3 DEF ToSet
    <3> QED BY <1>5, <3>1 DEF Precedes
  <2>4. j \in 1..Len(s) => i \in 1..Len(s)
    BY <1>1, <1>5
  <2> QED BY <2>1, <2>2, <2>3, <2>4
<1> QED BY <1>1, <1>4, <1>5 DEF Increasing

\* No events at all.
LEMMA NoEvents ==
    /\ <<>> \in Seq(Nat) /\ Len(<<>>) = 0
    /\ ToSet(<<>>) = {}
    /\ Increasing(<<>>)
<1>1. Len(<<>>) = 0 /\ <<>> \in Seq(Nat) /\ 1..0 = {}
  OBVIOUS
<1>2. DOMAIN <<>> = {}
  BY <1>1
<1>3. ToSet(<<>>) = {}
  BY <1>2 DEF ToSet
<1>4. Increasing(<<>>)
  BY <1>1 DEF Increasing
<1> QED BY <1>1, <1>3, <1>4

\* The events in the four places.
OnTheWay == ToSet(stored) \union ToSet(inserting) \union ToSet(batch) \union ToSet(channel)

\* The four places of an event, from the oldest to the newest.  They are
\* kept apart: what a place holds is older than what the next ones hold, so
\* an event that moves on keeps its order, and one that is dropped leaves
\* the rest in order.  The worker holds a batch it is inserting only while
\* it inserts.
AuditInv ==
    /\ recorded \in Nat /\ recorded <= MaxEvents
    /\ stored \in Seq(Nat) /\ inserting \in Seq(Nat)
    /\ batch \in Seq(Nat) /\ channel \in Seq(Nat)
    /\ Len(channel) <= QueueCapacity /\ Len(batch) < AuditBatchSize
    /\ closed \in BOOLEAN
    /\ worker \in {"select", "insert", "last", "stopped"}
    /\ worker \in {"select", "stopped"} => inserting = <<>>
    /\ Increasing(stored) /\ Increasing(inserting) /\ Increasing(batch) /\ Increasing(channel)
    /\ Precedes(stored, inserting) /\ Precedes(stored, batch) /\ Precedes(stored, channel)
    /\ Precedes(inserting, batch) /\ Precedes(inserting, channel)
    /\ Precedes(batch, channel)
    /\ OnTheWay \intersect lost = {}
    /\ OnTheWay \union lost = 1..recorded

\* The audit invariant is inductive.
LEMMA NextAuditInv == AuditInv /\ [AuditNext]_auditVars => AuditInv'
<1> SUFFICES ASSUME AuditInv, [AuditNext]_auditVars PROVE AuditInv'
  OBVIOUS
<1> USE AuditAssumption
<1>e. <<>> \in Seq(Nat) /\ Len(<<>>) = 0 /\ ToSet(<<>>) = {} /\ Increasing(<<>>)
  BY NoEvents
<1>n. ToSet(stored) \union ToSet(inserting) \union ToSet(batch) \union ToSet(channel) \subseteq 1..recorded
  BY DEF AuditInv, OnTheWay
<1>0. CASE UNCHANGED auditVars
  BY <1>0 DEF AuditInv, OnTheWay, Increasing, Precedes, auditVars
<1>1. CASE Record
  <2>i. recorded' = recorded + 1 /\ recorded \in Nat
    BY <1>1 DEF Record, AuditInv
  <2>r. recorded' = recorded + 1 /\ 1..recorded' = 1..recorded \union {recorded + 1}
    BY <2>i
  <2>s. UNCHANGED <<batch, inserting, stored, closed, worker>> /\ recorded + 1 <= MaxEvents
    BY <1>1 DEF Record, AuditInv
  <2>1. CASE Len(channel) < QueueCapacity /\ worker # "stopped"
    <3>1. channel' = Append(channel, recorded + 1) /\ lost' = lost
      BY <1>1, <2>1 DEF Record
    <3>2. \A a \in ToSet(channel) : a < recorded + 1
      BY <1>n DEF AuditInv
    <3>3. /\ channel' \in Seq(Nat) /\ Len(channel') = Len(channel) + 1
          /\ ToSet(channel') = ToSet(channel) \union {recorded + 1}
          /\ Increasing(channel')
      BY <3>1, <3>2, Appended DEF AuditInv
    <3> QED BY <1>n, <2>r, <2>s, <2>1, <3>1, <3>3 DEF AuditInv, OnTheWay, Precedes, Increasing
  <2>2. CASE ~(Len(channel) < QueueCapacity /\ worker # "stopped")
    <3>1. lost' = lost \union {recorded + 1} /\ channel' = channel
      BY <1>1, <2>2 DEF Record
    <3> QED BY <1>n, <2>r, <2>s, <3>1 DEF AuditInv, OnTheWay, Precedes, Increasing
  <2> QED BY <2>1, <2>2
<1>2. CASE Receive
  <2>s. /\ UNCHANGED <<recorded, stored, lost, closed>> /\ channel # <<>>
        /\ channel' = Tail(channel) /\ worker = "select" /\ inserting = <<>>
    BY <1>2 DEF Receive, AuditInv
  <2>1. /\ channel' \in Seq(Nat) /\ Len(channel') <= QueueCapacity
        /\ Head(channel) \in Nat
        /\ ToSet(channel) = {Head(channel)} \union ToSet(channel')
        /\ Increasing(channel')
        /\ \A b \in ToSet(channel') : Head(channel) < b
    BY <2>s, Taken DEF AuditInv
  <2> DEFINE more == Append(batch, Head(channel))
  <2>2. \A a \in ToSet(batch) : a < Head(channel)
    BY <2>1 DEF AuditInv, Precedes
  <2>3. /\ more \in Seq(Nat) /\ Len(more) = Len(batch) + 1
        /\ ToSet(more) = ToSet(batch) \union {Head(channel)}
        /\ Increasing(more)
    BY <2>1, <2>2, Appended DEF AuditInv
  <2>4. \A a \in ToSet(more), b \in ToSet(channel') : a < b
    BY <2>1, <2>2, <2>3 DEF AuditInv, Precedes
  <2>5. \A a \in ToSet(stored), b \in ToSet(more) : a < b
    BY <2>1, <2>3 DEF AuditInv, Precedes
  <2>6. CASE Len(batch) + 1 >= AuditBatchSize
    <3>1. inserting' = more /\ batch' = <<>> /\ worker' = "insert"
      BY <1>2, <2>6 DEF Receive
    <3> HIDE DEF more
    <3>2. OnTheWay' = OnTheWay
      BY <1>e, <2>s, <2>1, <2>3, <3>1 DEF OnTheWay
    <3>3. /\ Precedes(stored, inserting)' /\ Precedes(stored, batch)' /\ Precedes(stored, channel)'
          /\ Precedes(inserting, batch)' /\ Precedes(inserting, channel)' /\ Precedes(batch, channel)'
      BY <1>e, <2>s, <2>1, <2>3, <2>4, <2>5, <3>1 DEF AuditInv, Precedes
    <3>4. Increasing(stored)' /\ Increasing(inserting)' /\ Increasing(batch)' /\ Increasing(channel)'
      BY <1>e, <2>s, <2>1, <2>3, <3>1 DEF AuditInv, Increasing
    <3> QED BY <1>e, <2>s, <2>1, <2>3, <3>1, <3>2, <3>3, <3>4 DEF AuditInv
  <2>7. CASE ~(Len(batch) + 1 >= AuditBatchSize)
    <3>1. batch' = more /\ inserting' = inserting /\ worker' = worker
      BY <1>2, <2>7 DEF Receive
    <3>2. Len(more) < AuditBatchSize
      BY <2>3, <2>7 DEF AuditInv
    <3> HIDE DEF more
    <3> QED BY <1>e, <2>s, <2>1, <2>3, <2>4, <2>5, <3>1, <3>2
            DEF AuditInv, OnTheWay, Precedes, Increasing
  <2> QED BY <2>6, <2>7
<1>3. CASE Tick \/ ReceiveNone
  <2>1. /\ inserting = <<>> /\ inserting' = batch /\ batch' = <<>>
        /\ UNCHANGED <<recorded, channel, stored, lost, closed>>
        /\ worker' \in {"insert", "last", "stopped"}
        /\ worker' = "stopped" => batch = <<>>
    BY <1>3 DEF Tick, ReceiveNone, AuditInv
  <2> QED BY <1>e, <2>1 DEF AuditInv, OnTheWay, Precedes, Increasing
<1>4. ASSUME worker \in {"insert", "last"}, stored' = stored \o inserting, lost' = lost,
             inserting' = <<>>, worker' = AfterInsert,
             UNCHANGED <<recorded, channel, batch, closed>>
      PROVE  AuditInv'
  <2>1. /\ stored' \in Seq(Nat)
        /\ ToSet(stored') = ToSet(stored) \union ToSet(inserting)
        /\ Increasing(stored')
    BY <1>4, Joined DEF AuditInv
  <2> QED BY <1>e, <1>4, <2>1 DEF AuditInv, OnTheWay, Precedes, Increasing, AfterInsert
<1>5. CASE InsertBatch
  BY <1>4, <1>5 DEF InsertBatch
<1>6. ASSUME NEW known \in BOOLEAN, InsertFails(known) PROVE AuditInv'
  <2>1. CASE ~known
    BY <1>4, <1>6, <2>1 DEF InsertFails
  <2>2. CASE known
    <3>1. /\ worker \in {"insert", "last"} /\ stored' = stored
          /\ lost' = lost \union ToSet(inserting)
          /\ inserting' = <<>> /\ worker' = AfterInsert
          /\ UNCHANGED <<recorded, channel, batch, closed>>
      BY <1>6, <2>2 DEF InsertFails
    <3>2. \A e \in ToSet(inserting) : e \notin ToSet(stored) \union ToSet(batch) \union ToSet(channel)
      BY <1>n DEF AuditInv, Precedes
    <3>3. OnTheWay' = ToSet(stored) \union ToSet(batch) \union ToSet(channel)
      BY <1>e, <3>1 DEF OnTheWay
    <3>4. OnTheWay' \intersect lost' = {} /\ OnTheWay' \union lost' = 1..recorded
      BY <3>1, <3>2, <3>3 DEF AuditInv, OnTheWay
    <3> QED BY <1>e, <3>1, <3>4 DEF AuditInv, Precedes, Increasing, AfterInsert
  <2> QED BY <2>1, <2>2
<1>7. CASE CloseChannel
  <2>1. closed' \in BOOLEAN
    BY <1>7 DEF CloseChannel
  <2> QED BY <1>7, <2>1 DEF CloseChannel, AuditInv, OnTheWay, Precedes, Increasing
<1>8. CASE CrashWorker
  <2>1. closed' \in BOOLEAN
    BY <1>8 DEF CrashWorker
  <2>2. /\ channel' = <<>> /\ batch' = <<>> /\ inserting' = <<>> /\ worker' = "stopped"
        /\ lost' = lost \union ToSet((channel \o batch) \o inserting)
        /\ UNCHANGED <<recorded, stored>>
    BY <1>8 DEF CrashWorker
  <2>3. channel \o batch \in Seq(Nat) /\ ToSet(channel \o batch) = ToSet(channel) \union ToSet(batch)
    BY Joined DEF AuditInv
  <2>4. ToSet((channel \o batch) \o inserting) = ToSet(channel) \union ToSet(batch) \union ToSet(inserting)
    BY <2>3, Joined DEF AuditInv
  <2>5. \A e \in ToSet(stored) : e \notin ToSet(inserting) \union ToSet(batch) \union ToSet(channel)
    BY <1>n DEF AuditInv, Precedes
  <2>6. OnTheWay' = ToSet(stored)
    BY <1>e, <2>2 DEF OnTheWay
  <2>7. OnTheWay' \intersect lost' = {} /\ OnTheWay' \union lost' = 1..recorded
    BY <2>2, <2>4, <2>5, <2>6 DEF AuditInv, OnTheWay
  <2> QED BY <1>e, <2>1, <2>2, <2>7 DEF AuditInv, Precedes, Increasing
<1> QED
  BY <1>0, <1>1, <1>2, <1>3, <1>5, <1>6, <1>7, <1>8 DEF AuditNext

\* Every event is accounted for: on its way, stored once or lost, and stored
\* in the order of recording, for any capacity and batch size.
THEOREM AuditNothingUnaccounted == AuditSpec => [](AuditTypeOK /\ AuditAccounted)
<1>1. AuditInit => AuditInv
  <2> SUFFICES ASSUME AuditInit PROVE AuditInv
    OBVIOUS
  <2>1. closed \in BOOLEAN
    BY DEF AuditInit
  <2>2. recorded = 0 /\ 1..0 = {}
    BY DEF AuditInit
  <2> QED BY <2>1, <2>2, NoEvents, AuditAssumption DEF AuditInit, AuditInv, OnTheWay, Precedes
<1>2. AuditInv => AuditAccounted
  <2> SUFFICES ASSUME AuditInv PROVE AuditAccounted
    OBVIOUS
  <2> DEFINE a == stored \o inserting
             b == a \o batch
             way == b \o channel
  <2>1. a \in Seq(Nat) /\ ToSet(a) = ToSet(stored) \union ToSet(inserting) /\ Increasing(a)
    BY Joined DEF AuditInv
  <2>2. Precedes(a, batch) /\ Precedes(a, channel)
    BY <2>1 DEF AuditInv, Precedes
  <2> HIDE DEF a
  <2>3. b \in Seq(Nat) /\ ToSet(b) = ToSet(a) \union ToSet(batch) /\ Increasing(b)
    BY <2>1, <2>2, Joined DEF AuditInv
  <2>4. Precedes(b, channel)
    BY <2>2, <2>3 DEF AuditInv, Precedes
  <2> HIDE DEF b
  <2>5. ToSet(way) = ToSet(b) \union ToSet(channel) /\ Increasing(way)
    BY <2>3, <2>4, Joined DEF AuditInv
  <2>6. ToSet(way) = OnTheWay
    BY <2>1, <2>3, <2>5 DEF OnTheWay
  <2>7. way = stored \o inserting \o batch \o channel
    BY DEF a, b
  <2> HIDE DEF way
  <2>8. Increasing(stored) /\ ToSet(way) \intersect lost = {} /\ ToSet(way) \union lost = 1..recorded
    BY <2>6 DEF AuditInv
  <2> QED BY <2>5, <2>7, <2>8 DEF AuditAccounted, Increasing
<1>3. AuditInv => AuditTypeOK
  <2> SUFFICES ASSUME AuditInv PROVE AuditTypeOK
    OBVIOUS
  <2>1. ASSUME NEW s \in Seq(Nat), ToSet(s) \subseteq 1..recorded PROVE s \in Seq(Events)
    <3>1. \A i \in 1..Len(s) : s[i] \in ToSet(s)
      BY DEF ToSet
    <3>2. \A i \in 1..Len(s) : s[i] \in Events
      BY <2>1, <3>1, AuditAssumption DEF AuditInv, Events
    <3> QED BY <3>2
  <2>2. /\ ToSet(stored) \subseteq 1..recorded /\ ToSet(inserting) \subseteq 1..recorded
        /\ ToSet(batch) \subseteq 1..recorded /\ ToSet(channel) \subseteq 1..recorded
        /\ lost \subseteq 1..recorded
    BY DEF AuditInv, OnTheWay
  <2>3. lost \subseteq Events /\ recorded \in 0..MaxEvents
    BY <2>2, AuditAssumption DEF AuditInv, Events
  <2> QED BY <2>1, <2>2, <2>3 DEF AuditInv, AuditTypeOK
<1> QED BY <1>1, <1>2, <1>3, NextAuditInv, PTL DEF AuditSpec

-----------------------------------------------------------------------------
(* The vector index *)

SyncRecords == [at : SyncSteps, boot : BOOLEAN, docs : DocumentSets \union {{}},
                edit : Nat, began : Nat]

VersionRecords == [rows : DocumentSets \union {{}}, synced : Nat]

\* Replica r is in the transaction that writes the index.
Writing(r) == sync[r].at \in {"upsert", "rows", "commit"}

\* The state the argument reads; no sync has read files of the future.
IndexTyped ==
    /\ disk \in Catalogs
    /\ edits \in Nat /\ clock \in Nat /\ raced \in BOOLEAN
    /\ indexed \in Int /\ indexed <= edits
    /\ sync \in [CatalogReplicas -> SyncRecords]
    /\ \A r \in CatalogReplicas : sync[r].edit <= edits
    /\ versions \in [DOMAIN versions -> VersionRecords]

\* A version has the rows of its own hash, and now() tells transactions
\* apart: the committed ones and those under way.
Stamped ==
    /\ \A h \in DOMAIN versions : versions[h].rows = h /\ versions[h].synced <= clock
    /\ \A g, h \in DOMAIN versions : versions[g].synced = versions[h].synced => g = h
    /\ \A r \in CatalogReplicas : Writing(r) =>
          /\ sync[r].began <= clock
          /\ \A h \in DOMAIN versions : versions[h].synced # sync[r].began
    /\ \A q, r \in CatalogReplicas :
          Writing(q) /\ Writing(r) /\ sync[q].began = sync[r].began => q = r

\* Version d is newer than every other one if it is stamped t.
Newest(d, t) == \A h \in DOMAIN versions \ {d} : versions[h].synced < t

\* Unless an edit raced them, all syncs under way write what the files hold,
\* and began after every other version was begun: whichever of them commits
\* last, and however much earlier than the others it began, the version of
\* the files stays the newest.
SyncsAgree ==
    ~raced => \A r \in CatalogReplicas : InSync(r) =>
        /\ sync[r].docs = BuildDocuments(disk) /\ sync[r].edit = edits
        /\ Writing(r) => Newest(BuildDocuments(disk), sync[r].began)

\* The version of the files is there and the newest.
IndexRight ==
    ~raced /\ indexed = edits =>
        /\ BuildDocuments(disk) \in DOMAIN versions
        /\ Newest(BuildDocuments(disk), versions[BuildDocuments(disk)].synced)

IndexInv == IndexTyped /\ Stamped /\ SyncsAgree /\ IndexRight

\* Every non-empty set of naturals with an upper bound has a greatest one.
LEMMA GreatestNatural ==
    ASSUME NEW T \in SUBSET Nat, T # {}, NEW b \in Nat, \A y \in T : y <= b
    PROVE  \E x \in T : \A y \in T : y <= x
<1> DEFINE U == {b - y : y \in T}
<1>1. U \in SUBSET Nat /\ U # {}
  <2>1. \A y \in T : b - y \in Nat
    OBVIOUS
  <2> QED BY <2>1
<1>2. IsWellFoundedOn(OpToRel(<, Nat), Nat)
  BY NatLessThanWellFounded
<1> HIDE DEF U
<1>3. PICK u \in U : \A v \in U : ~(<<v, u>> \in OpToRel(<, Nat))
  BY <1>1, <1>2, WFMin
<1>4. \A v \in U : ~(v < u)
  BY <1>1, <1>3 DEF OpToRel
<1>5. PICK x \in T : u = b - x
  BY DEF U
<1>6. ASSUME NEW y \in T PROVE y <= x
  <2>1. b - y \in U
    BY DEF U
  <2>2. ~(b - y < b - x)
    BY <1>4, <1>5, <2>1
  <2> QED BY <2>2
<1> QED BY <1>6

\* The latest version is one of them, and no other is newer.
LEMMA LatestIsNewest ==
    ASSUME IndexTyped, Stamped, DOMAIN versions # {}
    PROVE  /\ LatestCatalogVersion \in DOMAIN versions
           /\ Newest(LatestCatalogVersion, versions[LatestCatalogVersion].synced)
<1> DEFINE T == {versions[h].synced : h \in DOMAIN versions}
           Top(h) == \A g \in DOMAIN versions : versions[g].synced <= versions[h].synced
<1>0. \A h \in DOMAIN versions : versions[h].synced \in Nat
  BY DEF IndexTyped, VersionRecords
<1>1. T \in SUBSET Nat /\ T # {} /\ \A y \in T : y <= clock
  BY <1>0 DEF Stamped
<1>2. clock \in Nat
  BY DEF IndexTyped
<1>3. PICK t \in T : \A y \in T : y <= t
  <2> HIDE DEF T
  <2> QED BY <1>1, <1>2, GreatestNatural
<1>4. \E h \in DOMAIN versions : Top(h)
  BY <1>3
<1>5. LatestCatalogVersion = CHOOSE h \in DOMAIN versions : Top(h)
  BY DEF LatestCatalogVersion
<1>6. LatestCatalogVersion \in DOMAIN versions /\ Top(LatestCatalogVersion)
  <2> HIDE DEF Top
  <2> QED BY <1>4, <1>5
<1> DEFINE top == LatestCatalogVersion
<1>7. top \in DOMAIN versions /\ Top(top)
  BY <1>6
<1> HIDE DEF top
<1>8. Newest(top, versions[top].synced)
  BY <1>0, <1>7 DEF Newest, Stamped
<1> QED BY <1>7, <1>8 DEF top

\* The version that is newer than every other one is the latest one, and the
\* searches rank its rows.
LEMMA NewestIsSearched ==
    ASSUME IndexTyped, Stamped, NEW d \in DOMAIN versions, Newest(d, versions[d].synced)
    PROVE  LatestCatalogVersion = d /\ SearchedRows = d
<1>0. \A h \in DOMAIN versions : versions[h].synced \in Nat
  BY DEF IndexTyped, VersionRecords
<1>1. PICK top : top = LatestCatalogVersion
  OBVIOUS
<1>2. top \in DOMAIN versions /\ Newest(top, versions[top].synced)
  BY <1>1, LatestIsNewest
<1>3. top = d
  BY <1>0, <1>2 DEF Newest
<1>4. versions # << >>
  OBVIOUS
<1> QED BY <1>1, <1>3, <1>4 DEF SearchedRows, Stamped

\* A sync that is given up, or has nothing left to write, leaves the others
\* and the index as they are.
LEMMA DropsSync ==
    ASSUME IndexInv, NEW r \in CatalogReplicas, sync' = [sync EXCEPT ![r] = Idle],
           UNCHANGED <<disk, edits, versions, clock, indexed, raced>>
    PROVE  IndexInv'
<1>1. Idle \in SyncRecords /\ Idle.at = "idle" /\ Idle.edit = 0
  BY DEF Idle, SyncRecords, SyncSteps
<1>2. IndexTyped'
  BY <1>1 DEF IndexInv, IndexTyped
<1>3. \A q \in CatalogReplicas :
         /\ InSync(q)' => InSync(q) /\ sync'[q] = sync[q]
         /\ Writing(q)' => Writing(q) /\ sync'[q] = sync[q]
  BY <1>1 DEF IndexInv, IndexTyped, InSync, Writing
<1>4. Stamped'
  BY <1>3 DEF IndexInv, Stamped
<1>5. SyncsAgree'
  BY <1>3 DEF IndexInv, SyncsAgree, Newest
<1>6. IndexRight'
  BY DEF IndexInv, IndexRight, Newest
<1> QED BY <1>2, <1>4, <1>5, <1>6 DEF IndexInv

\* A sync that goes one step on, outside the transaction or inside it.
LEMMA MovesSync ==
    ASSUME IndexInv, NEW r \in CatalogReplicas, NEW to \in SyncSteps, InSync(r),
           to \in {"upsert", "rows", "commit"} => Writing(r),
           sync' = [sync EXCEPT ![r].at = to],
           UNCHANGED <<disk, edits, versions, clock, indexed, raced>>
    PROVE  IndexInv'
<1>1. /\ sync' \in [CatalogReplicas -> SyncRecords]
      /\ \A q \in CatalogReplicas : /\ sync'[q].docs = sync[q].docs
                                    /\ sync'[q].edit = sync[q].edit
                                    /\ sync'[q].began = sync[q].began
                                    /\ sync'[q].at = IF q = r THEN to ELSE sync[q].at
  BY DEF IndexInv, IndexTyped, SyncRecords
<1>2. IndexTyped'
  BY <1>1 DEF IndexInv, IndexTyped
<1>3. \A q \in CatalogReplicas : (InSync(q)' => InSync(q)) /\ (Writing(q)' => Writing(q))
  BY <1>1 DEF InSync, Writing
<1>4. Stamped'
  BY <1>1, <1>3 DEF IndexInv, Stamped
<1>5. SyncsAgree'
  BY <1>1, <1>3 DEF IndexInv, SyncsAgree, Newest
<1>6. IndexRight'
  BY DEF IndexInv, IndexRight, Newest
<1> QED BY <1>2, <1>4, <1>5, <1>6 DEF IndexInv

\* What Settle does to the sync of r: it is no longer under way, and the
\* edits it saw count as indexed.
LEMMA Settles ==
    ASSUME IndexInv, NEW r \in CatalogReplicas, InSync(r), Settle(r)
    PROVE  /\ sync' \in [CatalogReplicas -> SyncRecords]
           /\ \A q \in CatalogReplicas : sync'[q].edit <= edits
           /\ \A q \in CatalogReplicas :
                 /\ InSync(q)' => InSync(q) /\ sync'[q] = sync[q] /\ q # r
                 /\ Writing(q)' => Writing(q) /\ sync'[q] = sync[q] /\ q # r
           /\ indexed' \in Int /\ indexed' <= edits
<1>1. Idle \in SyncRecords /\ Idle.at = "idle" /\ Idle.edit = 0
  BY DEF Idle, SyncRecords, SyncSteps
<1>2. PICK s \in SyncRecords : /\ sync' = [sync EXCEPT ![r] = s]
                               /\ s.at \in {"idle", "reload"} /\ s.edit <= edits
  <2>1. CASE sync[r].boot
    <3> DEFINE s == [sync[r] EXCEPT !.at = "reload"]
    <3>1. s \in SyncRecords /\ s.at = "reload" /\ s.edit <= edits
      BY DEF IndexInv, IndexTyped, SyncRecords, SyncSteps
    <3>2. sync' = [sync EXCEPT ![r] = s]
      BY <2>1 DEF Settle, IndexInv, IndexTyped
    <3> QED BY <3>1, <3>2
  <2>2. CASE ~sync[r].boot
    <3>1. sync' = [sync EXCEPT ![r] = Idle]
      BY <2>2 DEF Settle, IndexInv, IndexTyped
    <3>2. Idle.edit <= edits
      BY <1>1 DEF IndexInv, IndexTyped
    <3> QED BY <1>1, <3>1, <3>2
  <2> QED BY <2>1, <2>2
<1>3. /\ sync' \in [CatalogReplicas -> SyncRecords]
      /\ \A q \in CatalogReplicas : sync'[q].edit <= edits
  BY <1>2 DEF IndexInv, IndexTyped
<1>4. ASSUME NEW q \in CatalogReplicas
      PROVE  /\ InSync(q)' => InSync(q) /\ sync'[q] = sync[q] /\ q # r
             /\ Writing(q)' => Writing(q) /\ sync'[q] = sync[q] /\ q # r
  BY <1>2 DEF IndexInv, IndexTyped, InSync, Writing
<1>5. indexed' \in Int /\ indexed' <= edits
  <2>1. sync[r].edit \in Nat /\ sync[r].edit <= edits
    BY DEF IndexInv, IndexTyped, SyncRecords
  <2> QED BY <2>1 DEF Settle, IndexInv, IndexTyped
<1> QED BY <1>3, <1>4, <1>5

\* A start or a rebuild reads the files as they are.  If it is the first one
\* after a race, what was indexed in the race counts no longer.
LEMMA StartsSync ==
    ASSUME IndexInv, NEW r \in CatalogReplicas, NEW starts \in BOOLEAN, NEW always \in BOOLEAN,
           StartSync(r, starts, always)
    PROVE  IndexInv'
<1>1. PICK s \in SyncRecords :
         /\ sync' = [sync EXCEPT ![r] = s] /\ s.at \in {"latest", "embed"}
         /\ s.docs = BuildDocuments(disk) /\ s.edit = edits
  <2> DEFINE s == [at |-> IF always THEN "embed" ELSE "latest", boot |-> starts,
                   docs |-> BuildDocuments(disk), edit |-> edits, began |-> 0]
  <2>1. BuildDocuments(disk) \in DocumentSets
    BY DEF DocumentSets, IndexInv, IndexTyped
  <2>2. s \in SyncRecords
    BY <2>1 DEF SyncRecords, SyncSteps, IndexInv, IndexTyped
  <2>3. s.at \in {"latest", "embed"}
    OBVIOUS
  <2>4. sync' = [sync EXCEPT ![r] = s]
    BY DEF StartSync
  <2> QED BY <2>2, <2>3, <2>4
<1>2. UNCHANGED <<disk, edits, versions, clock>>
  BY DEF StartSync
<1>3. /\ raced' = (raced /\ \E q \in CatalogReplicas : InSync(q))
      /\ indexed' = IF raced /\ ~raced' THEN -1 ELSE indexed
  BY DEF StartSync
<1>4. \A q \in CatalogReplicas : sync'[q] = IF q = r THEN s ELSE sync[q]
  BY <1>1 DEF IndexInv, IndexTyped
<1>5. IndexTyped'
  <2>1. raced' \in BOOLEAN
    BY <1>3 DEF IndexInv, IndexTyped
  <2>2. indexed' \in Int /\ indexed' <= edits
    BY <1>3 DEF IndexInv, IndexTyped
  <2>3. sync' \in [CatalogReplicas -> SyncRecords]
    BY <1>1 DEF IndexInv, IndexTyped
  <2>4. \A q \in CatalogReplicas : sync'[q].edit <= edits
    BY <1>1, <1>4 DEF IndexInv, IndexTyped
  <2> QED BY <1>2, <2>1, <2>2, <2>3, <2>4 DEF IndexInv, IndexTyped
<1>6. \A q \in CatalogReplicas : Writing(q)' => q # r /\ Writing(q)
  BY <1>1, <1>4 DEF Writing
<1>7. \A q \in CatalogReplicas : q # r => (InSync(q)' <=> InSync(q))
  BY <1>4 DEF InSync
<1>8. Stamped'
  BY <1>2, <1>4, <1>6 DEF IndexInv, Stamped
<1>9. SyncsAgree'
  <2> SUFFICES ASSUME ~raced', NEW q \in CatalogReplicas, InSync(q)'
               PROVE  /\ sync'[q].docs = BuildDocuments(disk) /\ sync'[q].edit = edits
                      /\ Writing(q)' => Newest(BuildDocuments(disk), sync'[q].began)
    BY <1>2 DEF SyncsAgree, Newest
  <2>1. CASE q = r
    BY <1>1, <1>4, <1>6, <2>1
  <2>2. CASE q # r
    <3>1. InSync(q) /\ ~raced
      BY <1>3, <1>7, <2>2
    <3> QED BY <1>4, <1>6, <2>2, <3>1 DEF IndexInv, SyncsAgree
  <2> QED BY <2>1, <2>2
<1>10. IndexRight'
  <2> SUFFICES ASSUME ~raced', indexed' = edits
               PROVE  /\ BuildDocuments(disk) \in DOMAIN versions
                      /\ Newest(BuildDocuments(disk), versions[BuildDocuments(disk)].synced)
    BY <1>2 DEF IndexRight, Newest
  <2>1. ~raced /\ indexed = edits
    BY <1>3 DEF IndexInv, IndexTyped
  <2> QED BY <2>1 DEF IndexInv, IndexRight
<1> QED BY <1>5, <1>8, <1>9, <1>10 DEF IndexInv

\* A sync that finds its documents in the latest version ends there: that
\* version is newer than every other one.
LEMMA FindsIndexed ==
    ASSUME IndexInv, NEW r \in CatalogReplicas, sync[r].at = "latest",
           AlreadyIndexed(sync[r].docs), Settle(r), UNCHANGED versions
    PROVE  IndexInv'
<1>0. InSync(r)
  BY DEF InSync
<1>1. /\ sync' \in [CatalogReplicas -> SyncRecords]
      /\ \A q \in CatalogReplicas : sync'[q].edit <= edits
      /\ \A q \in CatalogReplicas :
            /\ InSync(q)' => InSync(q) /\ sync'[q] = sync[q] /\ q # r
            /\ Writing(q)' => Writing(q) /\ sync'[q] = sync[q] /\ q # r
      /\ indexed' \in Int /\ indexed' <= edits
  BY <1>0, Settles
<1>2. UNCHANGED <<disk, edits, clock, raced, versions>>
  BY DEF Settle
<1>3. IndexTyped'
  BY <1>1, <1>2 DEF IndexInv, IndexTyped
<1>4. Stamped'
  BY <1>1, <1>2 DEF IndexInv, Stamped
<1>5. SyncsAgree'
  BY <1>1, <1>2 DEF IndexInv, SyncsAgree, Newest
<1>6. IndexRight'
  <2> SUFFICES ASSUME ~raced
               PROVE  /\ BuildDocuments(disk) \in DOMAIN versions
                      /\ Newest(BuildDocuments(disk), versions[BuildDocuments(disk)].synced)
    BY <1>2 DEF IndexRight, Newest
  <2>1. BuildDocuments(disk) = sync[r].docs
    BY <1>0 DEF IndexInv, SyncsAgree
  <2>2. DOMAIN versions # {}
    <3>1. versions # << >>
      BY DEF AlreadyIndexed
    <3>2. versions = [h \in DOMAIN versions |-> versions[h]]
      BY DEF IndexInv, IndexTyped
    <3>3. DOMAIN versions = {} => versions = << >>
      BY <3>2
    <3> QED BY <3>1, <3>3
  <2>3. LatestCatalogVersion \in DOMAIN versions
        /\ Newest(LatestCatalogVersion, versions[LatestCatalogVersion].synced)
    BY <2>2, LatestIsNewest DEF IndexInv
  <2>4. LatestCatalogVersion = BuildDocuments(disk)
    BY <2>1 DEF AlreadyIndexed
  <2> QED BY <2>3, <2>4
<1> QED BY <1>3, <1>4, <1>5, <1>6 DEF IndexInv

\* The commit makes the version of what this sync read the one stamped with
\* the start of its transaction.
LEMMA CommitsSync ==
    ASSUME IndexInv, NEW r \in CatalogReplicas, Commit(r)
    PROVE  IndexInv'
<1> DEFINE d == sync[r].docs
           t == sync[r].began
<1>0. InSync(r) /\ Writing(r) /\ d \in DocumentSets \union {{}} /\ t \in Nat
  BY DEF Commit, InSync, Writing, IndexInv, IndexTyped, SyncRecords
<1>1. /\ sync' \in [CatalogReplicas -> SyncRecords]
      /\ \A q \in CatalogReplicas : sync'[q].edit <= edits
      /\ \A q \in CatalogReplicas :
            /\ InSync(q)' => InSync(q) /\ sync'[q] = sync[q] /\ q # r
            /\ Writing(q)' => Writing(q) /\ sync'[q] = sync[q] /\ q # r
      /\ indexed' \in Int /\ indexed' <= edits
  BY <1>0, Settles DEF Commit
<1>2. UNCHANGED <<disk, edits, clock, raced>>
  BY DEF Commit, Settle
<1>3. /\ versions' = [h \in DOMAIN versions \union {d} |->
                        IF h = d THEN [rows |-> d, synced |-> t] ELSE versions[h]]
  BY DEF Commit
<1>4. t <= clock /\ \A h \in DOMAIN versions : versions[h].synced # t
  BY <1>0 DEF IndexInv, Stamped
<1>5. \A q \in CatalogReplicas : Writing(q)' => sync'[q].began # t
  BY <1>0, <1>1 DEF IndexInv, Stamped
<1>6. ~raced => d = BuildDocuments(disk) /\ Newest(d, t)
  BY <1>0 DEF IndexInv, SyncsAgree
<1> HIDE DEF d, t
<1>7. /\ DOMAIN versions' = DOMAIN versions \union {d}
      /\ versions'[d].rows = d /\ versions'[d].synced = t
      /\ \A h \in DOMAIN versions \ {d} : versions'[h] = versions[h]
  BY <1>3
<1>8. IndexTyped'
  <2>1. \A h \in DOMAIN versions : versions[h] \in VersionRecords
    BY DEF IndexInv, IndexTyped
  <2>2. [rows |-> d, synced |-> t] \in VersionRecords
    BY <1>0 DEF VersionRecords
  <2>3. versions' \in [DOMAIN versions' -> VersionRecords]
    BY <1>3, <2>1, <2>2
  <2> QED BY <1>1, <1>2, <2>3 DEF IndexInv, IndexTyped
<1>9. Stamped'
  <2>1. \A h \in DOMAIN versions' : versions'[h].rows = h /\ versions'[h].synced <= clock
    BY <1>4, <1>7 DEF IndexInv, Stamped
  <2>2. \A g, h \in DOMAIN versions' : versions'[g].synced = versions'[h].synced => g = h
    BY <1>4, <1>7 DEF IndexInv, Stamped
  <2>3. ASSUME NEW q \in CatalogReplicas, Writing(q)'
        PROVE  /\ sync'[q].began <= clock
               /\ \A h \in DOMAIN versions' : versions'[h].synced # sync'[q].began
    BY <1>1, <1>5, <1>7, <2>3 DEF IndexInv, Stamped
  <2>4. \A p, q \in CatalogReplicas :
            Writing(p)' /\ Writing(q)' /\ sync'[p].began = sync'[q].began => p = q
    BY <1>1 DEF IndexInv, Stamped
  <2> QED BY <1>2, <2>1, <2>2, <2>3, <2>4 DEF Stamped
<1>10. ASSUME ~raced, NEW q \in CatalogReplicas, Writing(q)'
       PROVE  \A h \in DOMAIN versions' \ {d} : versions'[h].synced < sync'[q].began
  <2>1. Writing(q) /\ InSync(q) /\ sync'[q] = sync[q]
    BY <1>1, <1>10 DEF InSync, Writing
  <2>2. Newest(d, sync[q].began)
    BY <1>6, <1>10, <2>1 DEF IndexInv, SyncsAgree
  <2> QED BY <1>7, <2>1, <2>2 DEF Newest
<1>11. SyncsAgree'
  <2> SUFFICES ASSUME ~raced', NEW q \in CatalogReplicas, InSync(q)'
               PROVE  /\ sync'[q].docs = BuildDocuments(disk') /\ sync'[q].edit = edits'
                      /\ Writing(q)' =>
                           \A h \in DOMAIN versions' \ {BuildDocuments(disk')} :
                               versions'[h].synced < sync'[q].began
    BY DEF SyncsAgree, Newest
  <2>1. sync'[q].docs = BuildDocuments(disk') /\ sync'[q].edit = edits'
    BY <1>1, <1>2 DEF IndexInv, SyncsAgree
  <2>2. d = BuildDocuments(disk')
    BY <1>2, <1>6
  <2> QED BY <1>2, <1>10, <2>1, <2>2
<1>12. IndexRight'
  <2> SUFFICES ASSUME ~raced'
               PROVE  /\ BuildDocuments(disk') \in DOMAIN versions'
                      /\ \A h \in DOMAIN versions' \ {BuildDocuments(disk')} :
                             versions'[h].synced < versions'[BuildDocuments(disk')].synced
    BY DEF IndexRight, Newest
  <2>1. d = BuildDocuments(disk') /\ Newest(d, t)
    BY <1>2, <1>6
  <2> QED BY <1>7, <2>1 DEF Newest
<1> QED BY <1>8, <1>9, <1>11, <1>12 DEF IndexInv

\* The transaction that begins has the highest now() so far.
LEMMA BeginsSync ==
    ASSUME IndexInv, NEW r \in CatalogReplicas, BeginTransaction(r)
    PROVE  IndexInv'
<1> DEFINE s == [sync[r] EXCEPT !.at = "upsert", !.began = clock + 1]
<1>0. InSync(r)
  BY DEF BeginTransaction, InSync
<1>1. s \in SyncRecords /\ s.at = "upsert" /\ s.began = clock + 1
      /\ s.docs = sync[r].docs /\ s.edit = sync[r].edit
  <2>1. sync[r] \in SyncRecords /\ clock + 1 \in Nat
    BY DEF IndexInv, IndexTyped
  <2> QED BY <2>1 DEF SyncRecords, SyncSteps
<1>2. sync' = [sync EXCEPT ![r] = s] /\ clock' = clock + 1
      /\ UNCHANGED <<disk, edits, versions, indexed, raced>>
  BY DEF BeginTransaction, IndexInv, IndexTyped
<1> HIDE DEF s
<1>3. \A q \in CatalogReplicas : sync'[q] = IF q = r THEN s ELSE sync[q]
  BY <1>2 DEF IndexInv, IndexTyped
<1>4. /\ clock \in Nat
      /\ \A h \in DOMAIN versions : versions[h].synced \in Nat
      /\ \A q \in CatalogReplicas : sync[q].began \in Nat
  BY DEF IndexInv, IndexTyped, VersionRecords, SyncRecords
<1>5. IndexTyped'
  <2>1. sync' \in [CatalogReplicas -> SyncRecords]
    BY <1>1, <1>2 DEF IndexInv, IndexTyped
  <2>2. \A q \in CatalogReplicas : sync'[q].edit <= edits
    BY <1>1, <1>3 DEF IndexInv, IndexTyped
  <2> QED BY <1>2, <1>4, <2>1, <2>2 DEF IndexInv, IndexTyped
<1>6. \A q \in CatalogReplicas : q # r => (Writing(q)' <=> Writing(q)) /\ (InSync(q)' <=> InSync(q))
  BY <1>3 DEF Writing, InSync
<1>7. \A h \in DOMAIN versions : versions[h].synced < clock + 1
  BY <1>4 DEF IndexInv, Stamped
<1>8. Stamped'
  <2>1. \A h \in DOMAIN versions : versions[h].rows = h /\ versions[h].synced <= clock + 1
    BY <1>4, <1>7 DEF IndexInv, Stamped
  <2>2. ASSUME NEW q \in CatalogReplicas, Writing(q)'
        PROVE  /\ sync'[q].began <= clock + 1
               /\ \A h \in DOMAIN versions : versions[h].synced # sync'[q].began
    <3>1. CASE q = r
      BY <1>1, <1>3, <1>4, <1>7, <3>1
    <3>2. CASE q # r
      BY <1>3, <1>4, <1>6, <2>2, <3>2 DEF IndexInv, Stamped
    <3> QED BY <3>1, <3>2
  <2>3. \A q \in CatalogReplicas : q # r /\ Writing(q) => sync[q].began < clock + 1
    BY <1>4 DEF IndexInv, Stamped
  <2>4. ASSUME NEW p \in CatalogReplicas, NEW q \in CatalogReplicas,
               Writing(p)', Writing(q)', sync'[p].began = sync'[q].began
        PROVE  p = q
    BY <1>1, <1>3, <1>4, <1>6, <2>3, <2>4 DEF IndexInv, Stamped
  <2> QED BY <1>2, <2>1, <2>2, <2>4 DEF IndexInv, Stamped
<1>9. SyncsAgree'
  <2> SUFFICES ASSUME ~raced, NEW q \in CatalogReplicas, InSync(q)'
               PROVE  /\ sync'[q].docs = BuildDocuments(disk) /\ sync'[q].edit = edits
                      /\ Writing(q)' => Newest(BuildDocuments(disk), sync'[q].began)
    BY <1>2 DEF SyncsAgree, Newest
  <2>1. CASE q = r
    <3>1. sync'[q].began = clock + 1
      BY <1>1, <1>3, <2>1
    <3>2. Newest(BuildDocuments(disk), sync'[q].began)
      BY <1>7, <3>1 DEF Newest
    <3> QED BY <1>0, <1>1, <1>3, <2>1, <3>2 DEF IndexInv, SyncsAgree
  <2>2. CASE q # r
    BY <1>3, <1>6, <2>2 DEF IndexInv, SyncsAgree
  <2> QED BY <2>1, <2>2
<1>10. IndexRight'
  BY <1>2 DEF IndexInv, IndexRight, Newest
<1> QED BY <1>5, <1>8, <1>9, <1>10 DEF IndexInv

\* An edit either races a sync, or comes when there is none; nothing has
\* indexed it yet.
LEMMA EditsFiles ==
    ASSUME IndexInv, NEW c \in Catalogs, EditFiles(c)
    PROVE  IndexInv'
<1>1. /\ disk' = c /\ edits' = edits + 1 /\ UNCHANGED <<sync, versions, clock, indexed>>
      /\ raced' = (raced \/ \E r \in CatalogReplicas : InSync(r))
  BY DEF EditFiles
<1>2. \A r \in CatalogReplicas : sync[r].edit \in Nat
  BY DEF IndexInv, IndexTyped, SyncRecords
<1>3. IndexTyped'
  <2>1. raced' \in BOOLEAN
    BY <1>1 DEF IndexInv, IndexTyped
  <2> QED BY <1>1, <1>2, <2>1 DEF IndexInv, IndexTyped
<1>4. Stamped'
  BY <1>1 DEF IndexInv, Stamped, Writing
<1>5. SyncsAgree'
  BY <1>1 DEF SyncsAgree, InSync
<1>6. IndexRight'
  BY <1>1 DEF IndexRight, IndexInv, IndexTyped
<1> QED BY <1>3, <1>4, <1>5, <1>6 DEF IndexInv

\* The index invariant is inductive.
LEMMA NextIndexInv == IndexInv /\ [IndexNext]_indexVars => IndexInv'
<1> SUFFICES ASSUME IndexInv, [IndexNext]_indexVars PROVE IndexInv'
  OBVIOUS
<1>0. CASE UNCHANGED indexVars
  BY <1>0 DEF indexVars, IndexInv, IndexTyped, Stamped, SyncsAgree, IndexRight, Newest,
              InSync, Writing
<1>1. ASSUME NEW r \in CatalogReplicas, NEW starts \in BOOLEAN, NEW always \in BOOLEAN,
             StartSync(r, starts, always)
      PROVE  IndexInv'
  BY <1>1, StartsSync
<1>2. ASSUME NEW r \in CatalogReplicas, ReadLatest(r) PROVE IndexInv'
  <2>1. CASE AlreadyIndexed(sync[r].docs)
    BY <1>2, <2>1, FindsIndexed DEF ReadLatest
  <2>2. CASE ~AlreadyIndexed(sync[r].docs)
    <3>1. InSync(r) /\ sync' = [sync EXCEPT ![r].at = "embed"] /\ "embed" \in SyncSteps
          /\ UNCHANGED <<disk, edits, versions, clock, indexed, raced>>
      BY <1>2, <2>2 DEF ReadLatest, Goto, InSync, SyncSteps
    <3> QED BY <3>1, MovesSync
  <2> QED BY <2>1, <2>2
<1>3. ASSUME NEW r \in CatalogReplicas, EmbedDocuments(r) PROVE IndexInv'
  <2>1. InSync(r) /\ sync' = [sync EXCEPT ![r].at = "begin"] /\ "begin" \in SyncSteps
        /\ UNCHANGED <<disk, edits, versions, clock, indexed, raced>>
    BY <1>3 DEF EmbedDocuments, Goto, InSync, SyncSteps
  <2> QED BY <2>1, MovesSync
<1>4. ASSUME NEW r \in CatalogReplicas, BeginTransaction(r) PROVE IndexInv'
  BY <1>4, BeginsSync
<1>5. ASSUME NEW r \in CatalogReplicas, UpsertCatalogVersion(r) PROVE IndexInv'
  <2>1. InSync(r) /\ Writing(r) /\ sync' = [sync EXCEPT ![r].at = "rows"] /\ "rows" \in SyncSteps
        /\ UNCHANGED <<disk, edits, versions, clock, indexed, raced>>
    BY <1>5 DEF UpsertCatalogVersion, Goto, InSync, Writing, SyncSteps
  <2> QED BY <2>1, MovesSync
<1>6. ASSUME NEW r \in CatalogReplicas, ReplaceRows(r) PROVE IndexInv'
  <2>1. InSync(r) /\ Writing(r) /\ sync' = [sync EXCEPT ![r].at = "commit"] /\ "commit" \in SyncSteps
        /\ UNCHANGED <<disk, edits, versions, clock, indexed, raced>>
    BY <1>6 DEF ReplaceRows, Goto, InSync, Writing, SyncSteps
  <2> QED BY <2>1, MovesSync
<1>7. ASSUME NEW r \in CatalogReplicas, Commit(r) PROVE IndexInv'
  BY <1>7, CommitsSync
<1>8. ASSUME NEW r \in CatalogReplicas, SyncFails(r) \/ LoadCatalog(r) \/ StopReplica(r)
      PROVE  IndexInv'
  <2>1. sync' = [sync EXCEPT ![r] = Idle] /\ UNCHANGED <<disk, edits, versions, clock, indexed, raced>>
    BY <1>8 DEF SyncFails, Fail, LoadCatalog, StopReplica
  <2> QED BY <2>1, DropsSync
<1>9. ASSUME NEW c \in Catalogs, EditFiles(c) PROVE IndexInv'
  BY <1>9, EditsFiles
<1> QED BY <1>0, <1>1, <1>2, <1>3, <1>4, <1>5, <1>6, <1>7, <1>8, <1>9 DEF IndexNext

\* What the bounds of the model and the values of its rows come to.
Unbegun == {r \in CatalogReplicas : sync[r].at \in {"latest", "embed", "begin"}}

IndexBounded ==
    /\ edits <= MaxFileEdits /\ -1 <= indexed
    /\ memory \in [CatalogReplicas -> Catalogs \union {NoCatalog}]
    /\ \A r \in CatalogReplicas : /\ sync[r].began <= clock
                                  /\ Writing(r) => 1 <= sync[r].began
                                  /\ InSync(r) => sync[r].docs \in DocumentSets
    /\ DOMAIN versions \subseteq DocumentSets
    /\ \A h \in DOMAIN versions : 1 <= versions[h].synced
    /\ clock + Cardinality(Unbegun) <= MaxSyncs

\* The syncs that have not begun their transaction are finitely many, and
\* fewer of them are no more.
LEMMA FewerUnbegun ==
    /\ IsFiniteSet(Unbegun) /\ Cardinality(Unbegun) \in Nat
    /\ Unbegun' \subseteq Unbegun => Cardinality(Unbegun') <= Cardinality(Unbegun)
<1>1. IsFiniteSet(Unbegun) /\ Cardinality(Unbegun) \in Nat
  BY IndexAssumption, FS_Subset, FS_CardinalityType DEF Unbegun
<1> QED BY <1>1, FS_Subset

\* A step of a sync that begins no transaction, writes no version and leaves
\* the files alone keeps the bounds.
LEMMA SyncKeepsBounds ==
    ASSUME IndexTyped, IndexBounded, NEW r \in CatalogReplicas, NEW new \in SyncRecords,
           sync' = [sync EXCEPT ![r] = new], UNCHANGED <<edits, versions, clock>>,
           indexed' \in Int, -1 <= indexed',
           memory' \in [CatalogReplicas -> Catalogs \union {NoCatalog}],
           new.began <= clock,
           new.at \in {"upsert", "rows", "commit"} => 1 <= new.began,
           new.at \notin {"idle", "reload"} => new.docs \in DocumentSets,
           new.at \in {"latest", "embed", "begin"} => sync[r].at \in {"latest", "embed", "begin"}
    PROVE  IndexBounded'
<1>1. \A q \in CatalogReplicas : sync'[q] = IF q = r THEN new ELSE sync[q]
  BY DEF IndexTyped
<1>2. Unbegun' \subseteq Unbegun
  BY <1>1 DEF Unbegun
<1>3. Cardinality(Unbegun') \in Nat
  <2>1. IsFiniteSet(Unbegun')
    BY <1>2, FewerUnbegun, FS_Subset
  <2> QED BY <2>1, FS_CardinalityType
<1>4. clock' + Cardinality(Unbegun') <= MaxSyncs
  BY <1>2, <1>3, FewerUnbegun, IndexAssumption DEF IndexBounded, IndexTyped
<1>5. \A q \in CatalogReplicas : /\ sync'[q].began <= clock
                                 /\ Writing(q)' => 1 <= sync'[q].began
                                 /\ InSync(q)' => sync'[q].docs \in DocumentSets
  BY <1>1 DEF IndexBounded, Writing, InSync
<1> QED BY <1>4, <1>5 DEF IndexBounded

\* A sync that has settled is over, or about to load the catalog.
LEMMA SettledBounds ==
    ASSUME IndexInv, IndexBounded, NEW r \in CatalogReplicas, Settle(r), InSync(r), UNCHANGED versions
    PROVE  IndexBounded'
<1>1. PICK new : /\ new = IF sync[r].boot THEN [sync[r] EXCEPT !.at = "reload"] ELSE Idle
                 /\ sync' = [sync EXCEPT ![r] = new]
  BY DEF Settle
<1>2. sync[r] \in SyncRecords
  BY DEF IndexInv, IndexTyped
<1>3. /\ new \in SyncRecords /\ new.at \in {"idle", "reload"}
      /\ new.began \in {0, sync[r].began}
  BY <1>1, <1>2 DEF SyncRecords, Idle, SyncSteps
<1>4. indexed' \in Int /\ -1 <= indexed'
  BY <1>2 DEF Settle, IndexInv, IndexTyped, IndexBounded, SyncRecords
<1>5. new.began <= clock
  BY <1>3 DEF IndexInv, IndexTyped, IndexBounded
<1> QED BY <1>1, <1>3, <1>4, <1>5, SyncKeepsBounds DEF Settle, IndexInv, IndexBounded

\* Every step keeps the bounds.
LEMMA NextIndexBounded == IndexInv /\ IndexBounded /\ [IndexNext]_indexVars => IndexBounded'
<1> SUFFICES ASSUME IndexInv, IndexBounded, [IndexNext]_indexVars PROVE IndexBounded'
  OBVIOUS
<1>a. /\ IndexTyped /\ clock \in Nat /\ edits \in Nat /\ indexed \in Int
      /\ \A r \in CatalogReplicas : sync[r] \in SyncRecords
      /\ Idle \in SyncRecords /\ Idle.at = "idle" /\ Idle.began = 0
  BY DEF IndexInv, IndexTyped, Idle, SyncRecords, SyncSteps
<1>0. CASE UNCHANGED indexVars
  BY <1>0 DEF indexVars, IndexBounded, Writing, InSync, Unbegun
<1>1. ASSUME NEW r \in CatalogReplicas, NEW starts \in BOOLEAN, NEW always \in BOOLEAN,
             StartSync(r, starts, always)
      PROVE  IndexBounded'
  <2>1. PICK new : /\ new = [at |-> IF always THEN "embed" ELSE "latest", boot |-> starts,
                              docs |-> BuildDocuments(disk), edit |-> edits, began |-> 0]
                   /\ sync' = [sync EXCEPT ![r] = new]
    BY <1>1 DEF StartSync
  <2>2. BuildDocuments(disk) \in DocumentSets
    BY <1>a DEF IndexTyped, DocumentSets
  <2>3. \A q \in CatalogReplicas : sync'[q] = IF q = r THEN new ELSE sync[q]
    BY <1>a, <2>1 DEF IndexTyped
  <2>4. Unbegun' = Unbegun \union {r} /\ r \notin Unbegun
    BY <1>1, <2>1, <2>3 DEF Unbegun, StartSync
  <2>5. Cardinality(Unbegun') = Cardinality(Unbegun) + 1
    <3>1. Cardinality(Unbegun \union {r}) = Cardinality(Unbegun) + 1
      BY <2>4, FewerUnbegun, FS_AddElement
    <3> QED BY <2>4, <3>1, Zenon
  <2>6. clock + Cardinality(Unbegun) < MaxSyncs
    BY <1>1 DEF StartSync, Begun, Unbegun
  <2>7. clock' + Cardinality(Unbegun') <= MaxSyncs
    BY <1>1, <1>a, <2>5, <2>6, FewerUnbegun, IndexAssumption DEF StartSync
  <2>8. \A q \in CatalogReplicas : /\ sync'[q].began <= clock
                                   /\ Writing(q)' => 1 <= sync'[q].began
                                   /\ InSync(q)' => sync'[q].docs \in DocumentSets
    BY <1>a, <2>1, <2>2, <2>3 DEF IndexBounded, Writing, InSync
  <2>9. -1 <= indexed'
    BY <1>1, <1>a DEF StartSync, IndexBounded
  <2> QED BY <1>1, <2>7, <2>8, <2>9 DEF StartSync, IndexBounded
<1>2. ASSUME NEW r \in CatalogReplicas, NEW from, NEW to,
             from \in SyncSteps \ {"idle", "reload"}, to \in SyncSteps \ {"idle", "reload"},
             Goto(r, from, to), UNCHANGED <<edits, memory, versions, clock, indexed>>,
             to \in {"latest", "embed", "begin"} => from \in {"latest", "embed", "begin"},
             to \in {"upsert", "rows", "commit"} => from \in {"upsert", "rows", "commit"}
      PROVE  IndexBounded'
  <2>1. PICK new : new = [sync[r] EXCEPT !.at = to] /\ sync' = [sync EXCEPT ![r] = new]
    BY <1>2 DEF Goto
  <2>2. /\ new \in SyncRecords /\ new.at = to
        /\ new.docs = sync[r].docs /\ new.began = sync[r].began /\ sync[r].at = from
    BY <1>2, <1>a, <2>1 DEF SyncRecords, Goto
  <2>3. /\ new.began <= clock
        /\ to \in {"upsert", "rows", "commit"} => 1 <= new.began
        /\ new.docs \in DocumentSets
    BY <1>2, <2>2 DEF IndexBounded, Writing, InSync
  <2> QED BY <1>2, <1>a, <2>1, <2>2, <2>3, SyncKeepsBounds DEF IndexBounded
<1>3. ASSUME NEW r \in CatalogReplicas, ReadLatest(r) PROVE IndexBounded'
  <2>1. CASE AlreadyIndexed(sync[r].docs)
    <3>1. Settle(r) /\ InSync(r) /\ UNCHANGED versions
      BY <1>3, <2>1 DEF ReadLatest, InSync
    <3> QED BY <3>1, SettledBounds
  <2>2. CASE ~AlreadyIndexed(sync[r].docs)
    BY <1>2, <1>3, <2>2 DEF ReadLatest, SyncSteps
  <2> QED BY <2>1, <2>2
<1>4. ASSUME NEW r \in CatalogReplicas,
             EmbedDocuments(r) \/ UpsertCatalogVersion(r) \/ ReplaceRows(r)
      PROVE  IndexBounded'
  BY <1>2, <1>4 DEF EmbedDocuments, UpsertCatalogVersion, ReplaceRows, SyncSteps
<1>5. ASSUME NEW r \in CatalogReplicas, BeginTransaction(r) PROVE IndexBounded'
  <2>1. PICK new : /\ new = [sync[r] EXCEPT !.at = "upsert", !.began = clock + 1]
                   /\ sync' = [sync EXCEPT ![r] = new]
    BY <1>5 DEF BeginTransaction
  <2>2. new.at = "upsert" /\ new.began = clock + 1 /\ new.docs = sync[r].docs
    BY <1>a, <2>1 DEF SyncRecords
  <2>3. \A q \in CatalogReplicas : sync'[q] = IF q = r THEN new ELSE sync[q]
    BY <1>a, <2>1 DEF IndexTyped
  <2>4. Unbegun' = Unbegun \ {r} /\ r \in Unbegun
    BY <1>5, <2>2, <2>3 DEF Unbegun, BeginTransaction
  <2>5. Cardinality(Unbegun') = Cardinality(Unbegun) - 1
    <3>1. Cardinality(Unbegun \ {r}) = Cardinality(Unbegun) - 1
      BY <2>4, FewerUnbegun, FS_RemoveElement
    <3> QED BY <2>4, <3>1, Zenon
  <2>6. clock' = clock + 1 /\ UNCHANGED <<edits, memory, versions, indexed>>
    BY <1>5 DEF BeginTransaction
  <2>7. clock' + Cardinality(Unbegun') <= MaxSyncs
    BY <1>a, <2>5, <2>6, FewerUnbegun, IndexAssumption DEF IndexBounded
  <2>8. \A q \in CatalogReplicas : /\ sync'[q].began <= clock'
                                   /\ Writing(q)' => 1 <= sync'[q].began
                                   /\ InSync(q)' => sync'[q].docs \in DocumentSets
    <3>1. ASSUME NEW q \in CatalogReplicas
          PROVE  /\ sync'[q].began <= clock'
                 /\ Writing(q)' => 1 <= sync'[q].began
                 /\ InSync(q)' => sync'[q].docs \in DocumentSets
      <4>1. CASE q = r
        BY <1>5, <1>a, <2>2, <2>3, <2>6, <4>1 DEF IndexBounded, InSync, BeginTransaction
      <4>2. CASE q # r
        <5>1. sync[q].began \in Nat
          BY <1>a DEF SyncRecords
        <5> QED BY <1>a, <2>3, <2>6, <4>2, <5>1 DEF IndexBounded, InSync, Writing
      <4> QED BY <4>1, <4>2
    <3> QED BY <3>1
  <2> QED BY <2>6, <2>7, <2>8 DEF IndexBounded
<1>6. ASSUME NEW r \in CatalogReplicas, Commit(r) PROVE IndexBounded'
  <2>1. PICK new : /\ new = IF sync[r].boot THEN [sync[r] EXCEPT !.at = "reload"] ELSE Idle
                   /\ sync' = [sync EXCEPT ![r] = new]
    BY <1>6 DEF Commit, Settle
  <2>2. /\ new.at \in {"idle", "reload"} /\ new.began \in {0, sync[r].began}
    BY <1>a, <2>1 DEF SyncRecords
  <2>3. \A q \in CatalogReplicas : sync'[q] = IF q = r THEN new ELSE sync[q]
    BY <1>a, <2>1 DEF IndexTyped
  <2>4. Unbegun' \subseteq Unbegun
    BY <2>2, <2>3 DEF Unbegun
  <2>5. Cardinality(Unbegun') \in Nat
    <3>1. IsFiniteSet(Unbegun')
      BY <2>4, FewerUnbegun, FS_Subset
    <3> QED BY <3>1, FS_CardinalityType
  <2>6. UNCHANGED <<edits, memory, clock>>
    BY <1>6 DEF Commit, Settle
  <2>7. clock' + Cardinality(Unbegun') <= MaxSyncs
    BY <1>a, <2>4, <2>5, <2>6, FewerUnbegun, IndexAssumption DEF IndexBounded
  <2>8. \A q \in CatalogReplicas : /\ sync'[q].began <= clock
                                   /\ Writing(q)' => 1 <= sync'[q].began
                                   /\ InSync(q)' => sync'[q].docs \in DocumentSets
    BY <1>a, <2>2, <2>3 DEF IndexBounded, Writing, InSync
  <2>9. /\ sync[r].docs \in DocumentSets /\ 1 <= sync[r].began
        /\ sync[r].edit \in Nat
    BY <1>6, <1>a DEF Commit, IndexBounded, Writing, InSync, SyncRecords
  <2>10. /\ DOMAIN versions' \subseteq DocumentSets
         /\ \A h \in DOMAIN versions' : 1 <= versions'[h].synced
    BY <1>6, <2>9 DEF Commit, IndexBounded
  <2>11. -1 <= indexed'
    BY <1>6, <1>a, <2>9 DEF Commit, Settle, IndexBounded
  <2> QED BY <2>6, <2>7, <2>8, <2>10, <2>11 DEF IndexBounded
<1>7. ASSUME NEW r \in CatalogReplicas, SyncFails(r) \/ LoadCatalog(r) \/ StopReplica(r)
      PROVE  IndexBounded'
  <2>1. sync' = [sync EXCEPT ![r] = Idle] /\ UNCHANGED <<disk, edits, versions, clock, indexed, raced>>
    BY <1>7 DEF SyncFails, Fail, LoadCatalog, StopReplica
  <2>2. memory' \in [CatalogReplicas -> Catalogs \union {NoCatalog}]
    BY <1>7, <1>a DEF SyncFails, Fail, LoadCatalog, StopReplica, IndexBounded, IndexTyped
  <2>3. PICK new : new = Idle
    OBVIOUS
  <2>4. new \in SyncRecords /\ new.at = "idle" /\ new.began <= clock
    BY <1>a, <2>3
  <2>5. indexed' \in Int /\ -1 <= indexed'
    BY <1>a, <2>1 DEF IndexBounded
  <2> QED BY <1>a, <2>1, <2>2, <2>3, <2>4, <2>5, SyncKeepsBounds
<1>8. ASSUME NEW c \in Catalogs, EditFiles(c) PROVE IndexBounded'
  BY <1>8, <1>a, IndexAssumption DEF EditFiles, IndexBounded, Writing, InSync, Unbegun
<1> QED BY <1>0, <1>1, <1>3, <1>4, <1>5, <1>6, <1>7, <1>8 DEF IndexNext

\* No sync is under way and no version written when the index is first made.
LEMMA InitIndexInv == IndexInit => IndexInv /\ IndexBounded
<1> SUFFICES ASSUME IndexInit PROVE IndexInv /\ IndexBounded
  OBVIOUS
<1>1. Idle \in SyncRecords /\ Idle.at = "idle" /\ Idle.edit = 0
  BY DEF Idle, SyncRecords, SyncSteps
<1>2. \A r \in CatalogReplicas : ~InSync(r) /\ ~Writing(r)
  BY <1>1 DEF IndexInit, InSync, Writing
<1>3. DOMAIN versions = {} /\ versions \in [DOMAIN versions -> VersionRecords]
  BY DEF IndexInit
<1>4. IndexTyped
  <2>1. sync \in [CatalogReplicas -> SyncRecords] /\ \A r \in CatalogReplicas : sync[r] = Idle
    BY <1>1 DEF IndexInit
  <2>2. edits = 0 /\ clock = 0 /\ indexed = -1 /\ raced = FALSE /\ disk \in Catalogs
    BY DEF IndexInit
  <2>3. \A r \in CatalogReplicas : sync[r].edit <= edits
    BY <1>1, <2>1, <2>2
  <2>4. edits \in Nat /\ clock \in Nat /\ raced \in BOOLEAN
    BY <2>2
  <2>5. indexed \in Int /\ indexed <= edits
    BY <2>2
  <2> QED BY <1>3, <2>1, <2>2, <2>3, <2>4, <2>5 DEF IndexTyped
<1>5. Stamped
  BY <1>2, <1>3 DEF Stamped
<1>6. SyncsAgree /\ IndexRight
  BY <1>2 DEF SyncsAgree, IndexRight, IndexInit
<1>7. Cardinality(Unbegun) = 0
  <2>1. Unbegun = {}
    BY <1>1 DEF Unbegun, IndexInit
  <2> QED BY <2>1, FS_EmptySet
<1>8. IndexBounded
  <2>1. \A r \in CatalogReplicas : sync[r].began <= clock
    BY DEF IndexInit, Idle
  <2> QED BY <1>2, <1>3, <1>7, <2>1, IndexAssumption DEF IndexInit, IndexBounded
<1> QED BY <1>4, <1>5, <1>6, <1>8 DEF IndexInv

\* The bounds hold the types of the index.
LEMMA IndexTypes == IndexInv /\ IndexBounded => IndexTypeOK
<1> SUFFICES ASSUME IndexInv, IndexBounded PROVE IndexTypeOK
  OBVIOUS
<1>1. /\ edits \in 0 .. MaxFileEdits /\ indexed \in -1 .. MaxFileEdits /\ raced \in BOOLEAN
      /\ disk \in Catalogs
  BY IndexAssumption DEF IndexInv, IndexTyped, IndexBounded
<1>2. clock \in 0 .. MaxSyncs
  BY FewerUnbegun, IndexAssumption DEF IndexInv, IndexTyped, IndexBounded
<1>3. ASSUME NEW r \in CatalogReplicas
      PROVE  sync[r] \in [at : SyncSteps, boot : BOOLEAN, docs : DocumentSets \union {{}},
                          edit : 0 .. MaxFileEdits, began : 0 .. MaxSyncs]
  <2>1. /\ sync[r] \in SyncRecords /\ sync[r].edit <= edits /\ sync[r].began <= clock
    BY DEF IndexInv, IndexTyped, IndexBounded
  <2>2. sync[r].edit \in 0 .. MaxFileEdits /\ sync[r].began \in 0 .. MaxSyncs
    BY <1>1, <1>2, <2>1, IndexAssumption DEF SyncRecords
  <2> QED BY <2>1, <2>2 DEF SyncRecords
<1>4. ASSUME NEW h \in DOMAIN versions
      PROVE  h \in DocumentSets /\ versions[h] \in [rows : DocumentSets, synced : 1 .. MaxSyncs]
  <2>1. /\ versions[h] \in VersionRecords /\ h \in DocumentSets
        /\ versions[h].rows = h /\ versions[h].synced <= clock /\ 1 <= versions[h].synced
    BY <1>4 DEF IndexInv, IndexTyped, Stamped, IndexBounded
  <2>2. versions[h].synced \in 1 .. MaxSyncs
    BY <1>2, <2>1, IndexAssumption DEF VersionRecords
  <2> QED BY <2>1, <2>2 DEF VersionRecords
<1>5. sync \in [CatalogReplicas -> [at : SyncSteps, boot : BOOLEAN, docs : DocumentSets \union {{}},
                                   edit : 0 .. MaxFileEdits, began : 0 .. MaxSyncs]]
  BY <1>3 DEF IndexInv, IndexTyped
<1>6. memory \in [CatalogReplicas -> Catalogs \union {NoCatalog}]
  BY DEF IndexBounded
<1> QED BY <1>1, <1>2, <1>4, <1>5, <1>6 DEF IndexTypeOK

\* The searches rank exactly the documents of the files once a sync of them
\* has ended well and no edit raced one, whatever starts, rebuilds, failures
\* and crashes of any number of replicas came before (and even while further
\* syncs are under way): ChatAppState::new, vector_index_rebuild and
\* KnowledgeIndexSync (index/sync.rs, index/repository.rs).
THEOREM IndexFollows ==
    IndexInit /\ [][IndexNext]_indexVars => [](IndexTypeOK /\ IndexFollowsFiles)
<1>1. IndexInv => IndexFollowsFiles
  BY NewestIsSearched DEF IndexInv, IndexRight, IndexFollowsFiles
<1>2. IndexInit /\ [][IndexNext]_indexVars => [](IndexInv /\ IndexBounded)
  BY InitIndexInv, NextIndexInv, NextIndexBounded, PTL
<1> QED BY <1>1, <1>2, IndexTypes, PTL

-----------------------------------------------------------------------------
(* All of them, beside each other *)

\* A step of the services is a step of each of them, or none.
LEMMA StepsOfServices ==
    [ServicesNext]_servicesVars =>
        /\ [AuthNext]_authVars /\ [AuditNext]_auditVars /\ [LlmNext]_llmVars
        /\ [LimitNext]_limitVars /\ [IndexNext]_indexVars /\ [DialogueNext]_dialogueVars
        /\ [running = "catalog" /\ CatalogNext]_catalogVars
        /\ running' = running
<1> SUFFICES ASSUME [ServicesNext]_servicesVars
             PROVE  /\ [AuthNext]_authVars /\ [AuditNext]_auditVars /\ [LlmNext]_llmVars
                    /\ [LimitNext]_limitVars /\ [IndexNext]_indexVars
                    /\ [DialogueNext]_dialogueVars
                    /\ [running = "catalog" /\ CatalogNext]_catalogVars
                    /\ running' = running
  OBVIOUS
<1>1. CASE ServicesNext
  BY <1>1 DEF ServicesNext
<1>2. CASE UNCHANGED servicesVars
  BY <1>2 DEF servicesVars
<1> QED BY <1>1, <1>2

\* A service that does not serve a catalog has none.
CatalogOrNone == IF running = "catalog" THEN CatalogInv
                 ELSE files = NoFiles /\ served = {} /\ catalogEdits = 0

\* The services start as each of them does.
LEMMA ServicesStart ==
    ServicesInit => /\ AuthInit /\ AuditInit /\ LlmInit /\ LimitInit /\ IndexInit /\ DialogueInit
                    /\ running \in Services /\ CatalogOrNone
  BY InitCatalogInv DEF ServicesInit, CatalogOrNone

\* The catalog is served as it is when it is alone.
LEMMA NextCatalogOrNone ==
    /\ CatalogOrNone /\ running' = running /\ [running = "catalog" /\ CatalogNext]_catalogVars
        => CatalogOrNone'
    /\ CatalogOrNone => CatalogTypeOK /\ ServedPlansOrAsks
<1>1. ASSUME CatalogOrNone, running' = running, [running = "catalog" /\ CatalogNext]_catalogVars
      PROVE  CatalogOrNone'
  <2>1. CASE running = "catalog"
    BY <1>1, <2>1, NextCatalogInv DEF CatalogOrNone
  <2>2. CASE running # "catalog"
    BY <1>1, <2>2 DEF CatalogOrNone, catalogVars
  <2> QED BY <2>1, <2>2
<1>2. ASSUME CatalogOrNone PROVE CatalogTypeOK /\ ServedPlansOrAsks
  <2>1. CASE running = "catalog"
    BY <1>2, <2>1, CatalogInvSuffices DEF CatalogOrNone
  <2>2. CASE running # "catalog"
    <3>1. Cardinality({}) = 0
      BY FS_EmptySet
    <3>2. CatalogTypeOK
      <4>1. served = {} /\ catalogEdits = 0 /\ files = [garbled |-> TRUE]
        BY <1>2, <2>2 DEF CatalogOrNone, NoFiles
      <4>2. files.garbled \in BOOLEAN
        BY <4>1
      <4>3. Cardinality(served) = 0
        BY <3>1, <4>1, Zenon
      <4> QED BY <4>1, <4>2, <4>3, EditsBound DEF CatalogTypeOK
    <3>3. ServedPlansOrAsks
      BY <1>2, <2>2 DEF CatalogOrNone, ServedPlansOrAsks
    <3> QED BY <3>2, <3>3
  <2> QED BY <2>1, <2>2
<1> QED BY <1>1, <1>2

\* Each service behaves beside the others as it does alone.
LEMMA ServicesAlone ==
    ServicesSpec => /\ AuthSpec /\ AuditSpec /\ LlmSpec /\ LimitSpec /\ DialogueSpec
                    /\ IndexInit /\ [][IndexNext]_indexVars
                    /\ [](running \in Services /\ CatalogOrNone)
<1>1. running \in Services /\ running' = running => (running \in Services)'
  OBVIOUS
<1> QED BY <1>1, StepsOfServices, ServicesStart, NextCatalogOrNone, PTL
       DEF ServicesSpec, AuthSpec, AuditSpec, LlmSpec, LimitSpec, DialogueSpec

\* Every service keeps its state within its types, however many accounts,
\* events, retries, lookups, replicas, edits and turns there are.
THEOREM ServicesTypeCorrect == ServicesSpec => []ServicesTypeOK
<1>1. ServicesSpec => []( /\ running \in Services
                          /\ AuthTypeOK /\ AuditTypeOK /\ LlmTypeOK /\ LimitTypeOK
                          /\ IndexTypeOK /\ CatalogTypeOK /\ DialogueTypeOK)
  BY ServicesAlone, AuthTypeCorrect, AuditNothingUnaccounted, CallStaysBounded,
     LookupsLimited, IndexFollows, NextCatalogOrNone, InconsistentForMetric, PTL
<1> QED BY <1>1, PTL DEF ServicesTypeOK

\* And what is proved of each of them alone holds of the services together:
\* the specification that the run checks on a small instance.
THEOREM ServicesKeepPromises ==
    ServicesSpec => []( /\ OneDefaultKey /\ LoggedOutStaysOut /\ RestrictedKeyRestricts
                        /\ AuditAccounted /\ CallIsBounded /\ WithinLookupLimit
                        /\ IndexFollowsFiles /\ ServedPlansOrAsks
                        /\ InconsistentOnlyOnMetric /\ RetrievedHonoursFilters)
  BY ServicesAlone, OneKey, LoggedOutForGood, KeyRestricts, AuditNothingUnaccounted,
     CallStaysBounded, LookupsLimited, IndexFollows, NextCatalogOrNone,
     InconsistentForMetric, FiltersHonoured, PTL
=============================================================================
