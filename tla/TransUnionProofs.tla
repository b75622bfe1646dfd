--------------------------- MODULE TransUnionProofs ---------------------------
(***************************************************************************)
(* Proofs about TransUnion, for any settings, lifetimes and bounds that     *)
(* satisfy its assumptions: a token taken from the cache is alive when it   *)
(* arrives, and the retry loop makes the requests it may make and no others.*)
(***************************************************************************)
EXTENDS TransUnion, TLAPS

\* The token is recorded to expire no later than the bureau lets it expire, and
\* a request that uses it unasked has started before the margin.
TokenSound ==
  /\ token.recorded <= token.real
  /\ call.pc = "sending" /\ call.cached =>
       /\ call.began < token.recorded - Margin
       /\ clock <= call.began + Transit

Turned == {"busy", "timeout"}

\* Where the loop stands, by the requests it has made
LoopPhases ==
  /\ call.pc \in {"token", "asking", "sending"} =>
       /\ call.outcome = "none"
       /\ Len(answers) = call.attempt - 1
       /\ \A i \in 1..Len(answers) : answers[i] \in Turned
  /\ call.pc = "backoff" =>
       /\ call.outcome = "none"
       /\ Len(answers) = call.attempt
       /\ \A i \in 1..Len(answers) : answers[i] \in Turned

IInv == TypeOK /\ TokenSound /\ LoopPhases /\ RetriesJustified
-----------------------------------------------------------------------------
\* Types: the values that a step gives to token, call, log and clock.

\* What a row of the log adds
LEMMA LogTyped ==
  ASSUME TypeOK, NEW kind \in Kinds, LogApiCall(kind), call.attempt >= 1
  PROVE  /\ log' \in Seq(LogRow)
         /\ session' \in {"complete", "incomplete", "broken"}
  <1>1. [attempt |-> call.attempt, status |-> kind] \in LogRow
    BY Settings DEF TypeOK, Call, LogRow
  <1>2. Append(log, [attempt |-> call.attempt, status |-> kind]) \in Seq(LogRow)
    BY <1>1 DEF TypeOK
  <1>3. CASE log' = Append(log, [attempt |-> call.attempt, status |-> kind])
             /\ UNCHANGED session
    BY <1>2, <1>3 DEF TypeOK
  <1>4. CASE session' \in {"incomplete", "broken"} /\ UNCHANGED log
    BY <1>4 DEF TypeOK
  <1>5. CASE log' = <<>> /\ session' = "broken"
    BY <1>5
  <1> QED
    BY <1>3, <1>4, <1>5 DEF LogApiCall

\* A new program counter keeps the call in its type
LEMMA ProceedTyped ==
  ASSUME TypeOK, NEW pc \in {"asking", "backoff"}, Proceed(pc)
  PROVE  call' \in Call
  <1>1. clock \in Nat
    BY Settings DEF TypeOK
  <1> QED
    BY <1>1 DEF TypeOK, Call, Proceed

LEMMA EndTyped ==
  ASSUME TypeOK, NEW outcome \in Outcomes, End(outcome)
  PROVE  call' \in Call
  BY DEF TypeOK, Call, End

LEMMA TypeOK_Init == Init => TypeOK
  BY Settings DEF Init, TypeOK, Call, Operations, Outcomes

LEMMA TypeOK_Start ==
  ASSUME TypeOK, NEW op \in Operations, Start(op)
  PROVE  TypeOK'
  <1>1. call' \in Call
    BY Settings DEF TypeOK, Start, Call, Outcomes
  <1> QED
    BY <1>1 DEF TypeOK, Start, vars

LEMMA TypeOK_TokenGranted ==
  ASSUME TypeOK, TokenGranted
  PROVE  TypeOK'
  <1>1. PICK life \in Lifetimes, issued \in call.began..clock :
          token' = [recorded |-> ExpiryOf(life), real |-> issued + life]
    BY DEF TokenGranted
  <1>2. call.began \in Nat /\ clock \in Nat /\ life \in Nat
    BY Settings DEF TypeOK, Call
  <1>3. token' \in [recorded : Nat, real : Nat]
    BY <1>1, <1>2 DEF ExpiryOf
  <1>4. call' \in Call
    BY <1>2 DEF TypeOK, TokenGranted, Call
  <1> QED
    BY <1>3, <1>4 DEF TypeOK, TokenGranted

LEMMA TypeOK_Respond ==
  ASSUME TypeOK, NEW kind \in Kinds, Respond(kind)
  PROVE  TypeOK'
  <1>1. call.attempt >= 1
    BY DEF TypeOK, Respond
  <1>2. answers' \in Seq(Kinds)
    BY DEF TypeOK, Respond
  <1>3. /\ log' \in Seq(LogRow)
        /\ session' \in {"complete", "incomplete", "broken"}
    <2>1. CASE kind = "lost"
      BY <2>1 DEF TypeOK, Respond
    <2>2. CASE kind /= "lost"
      <3>1. LogApiCall(kind)
        BY <2>2 DEF Respond
      <3> QED
        BY <1>1, <3>1, LogTyped
    <2> QED
      BY <2>1, <2>2
  <1>4. call' \in Call /\ call'.attempt = call.attempt
    <2>1. CASE kind \in Retryable
      <3>1. Proceed("backoff")
        BY <2>1 DEF Respond
      <3> QED
        BY <3>1, ProceedTyped DEF Proceed, TypeOK, Call
    <2>2. CASE kind \notin Retryable
      <3>1. PICK outcome \in {"report", "error"} : End(outcome)
        BY <2>2 DEF Respond
      <3> QED
        BY <3>1, EndTyped DEF End, Outcomes, TypeOK, Call
    <2> QED
      BY <2>1, <2>2
  <1>5. token' = token /\ clock' = clock
    BY DEF Respond
  <1> QED
    BY <1>1, <1>2, <1>3, <1>4, <1>5 DEF TypeOK

LEMMA TypeOK_Next ==
  ASSUME TypeOK, [Next]_vars
  PROVE  TypeOK'
  <1>1. ASSUME NEW op \in Operations, Start(op)
        PROVE  TypeOK'
    BY <1>1, TypeOK_Start
  <1>2. CASE UseCached
    <2>1. clock \in Nat
      BY Settings DEF TypeOK
    <2>2. call' \in Call /\ call'.attempt = call.attempt
      BY <1>2, <2>1 DEF TypeOK, UseCached, Call
    <2> QED
      BY <1>2, <2>2 DEF TypeOK, UseCached
  <1>3. CASE AskToken
    BY <1>3, ProceedTyped DEF TypeOK, AskToken, Proceed, Call
  <1>4. CASE TokenGranted
    BY <1>4, TypeOK_TokenGranted
  <1>5. CASE TokenFails
    <2>1. PICK outcome \in {"error", "unhealthy"} : End(outcome)
      BY <1>5 DEF TokenFails
    <2> QED
      BY <1>5, <2>1, EndTyped DEF TypeOK, TokenFails, End, Outcomes, Call
  <1>6. ASSUME NEW kind \in Kinds, Respond(kind)
        PROVE  TypeOK'
    BY <1>6, TypeOK_Respond
  <1>7. CASE HealthAnswer
    <2>1. PICK outcome \in {"healthy", "degraded", "unhealthy"} : End(outcome)
      BY <1>7 DEF HealthAnswer
    <2> QED
      BY <1>7, <2>1, EndTyped DEF TypeOK, HealthAnswer, End, Outcomes, Call
  <1>8. CASE WakeUp
    <2>1. CASE call.attempt < MaxRetries
      <3>1. call' = [call EXCEPT !.pc = "token", !.attempt = @ + 1]
        BY <1>8, <2>1 DEF WakeUp
      <3>2. call.attempt + 1 \in 0..MaxRetries /\ call.attempt + 1 >= 1
        BY <2>1, Settings DEF TypeOK, Call
      <3>3. call' \in Call /\ call'.attempt >= 1
        BY <3>1, <3>2 DEF TypeOK, Call
      <3> QED
        BY <1>8, <3>3 DEF TypeOK, WakeUp
    <2>2. CASE ~(call.attempt < MaxRetries)
      <3>1. End("exhausted")
        BY <1>8, <2>2 DEF WakeUp
      <3> QED
        BY <1>8, <3>1, EndTyped DEF TypeOK, WakeUp, End, Outcomes, Call
    <2> QED
      BY <2>1, <2>2
  <1>9. CASE Settle
    BY <1>9 DEF TypeOK, Settle, Call
  <1>10. CASE Tick
    BY <1>10, Settings DEF TypeOK, Tick
  <1>11. CASE UNCHANGED vars
    BY <1>11 DEF TypeOK, vars
  <1> QED
    BY <1>1, <1>2, <1>3, <1>4, <1>5, <1>6, <1>7, <1>8, <1>9, <1>10, <1>11
       DEF Next, Advance

\* Token, call, log and clock stay of their types.
THEOREM TypeCorrect == Spec => []TypeOK
  <1> QED
    BY TypeOK_Init, TypeOK_Next, PTL DEF Spec
-----------------------------------------------------------------------------
\* The cached token.

LEMMA TokenSound_Init == Init => TokenSound
  BY DEF Init, TokenSound

\* Only a token that is granted, a look at the cache, and time touch the parts
LEMMA TokenSound_Next ==
  ASSUME TypeOK, TokenSound, [Next]_vars
  PROVE  TokenSound'
  <1> USE SafeMargin
  <1>a. clock \in Nat /\ call.began \in Nat /\ token.recorded \in Nat
        /\ token.real \in Nat
    BY Settings DEF TypeOK, Call
  <1>1. ASSUME NEW op \in Operations, Start(op)
        PROVE  TokenSound'
    BY <1>1 DEF TokenSound, Start
  <1>2. CASE UseCached
    <2>1. call'.pc = "sending" /\ call'.began = clock
      BY <1>2 DEF UseCached, TypeOK, Call
    <2> QED
      BY <1>a, <1>2, <2>1 DEF TokenSound, UseCached, Reusable
  <1>3. CASE AskToken
    BY <1>3 DEF TokenSound, AskToken, Proceed, TypeOK, Call
  <1>4. CASE TokenGranted
    <2>1. PICK life \in Lifetimes, issued \in call.began..clock :
            token' = [recorded |-> ExpiryOf(life), real |-> issued + life]
      BY <1>4 DEF TokenGranted
    <2>2. token'.recorded <= token'.real
      BY <1>a, <2>1, Settings DEF ExpiryOf
    <2>3. ~call'.cached
      BY <1>4 DEF TokenGranted, TypeOK, Call
    <2> QED
      BY <2>2, <2>3 DEF TokenSound
  <1>5. CASE TokenFails
    BY <1>5 DEF TokenSound, TokenFails, End, TypeOK, Call
  <1>6. ASSUME NEW kind \in Kinds, Respond(kind)
        PROVE  TokenSound'
    BY <1>6 DEF TokenSound, Respond, Proceed, End, TypeOK, Call
  <1>7. CASE HealthAnswer
    BY <1>7 DEF TokenSound, HealthAnswer, End, TypeOK, Call
  <1>8. CASE WakeUp
    BY <1>8 DEF TokenSound, WakeUp, End, TypeOK, Call
  <1>9. CASE Settle
    BY <1>9 DEF TokenSound, Settle, TypeOK, Call
  <1>10. CASE Tick
    BY <1>a, <1>10 DEF TokenSound, Tick
  <1>11. CASE UNCHANGED vars
    BY <1>11 DEF TokenSound, vars
  <1> QED
    BY <1>1, <1>2, <1>3, <1>4, <1>5, <1>6, <1>7, <1>8, <1>9, <1>10, <1>11
       DEF Next, Advance

LEMMA TokenSound_Alive ==
  ASSUME TypeOK, TokenSound
  PROVE  CachedTokenAlive
  BY SafeMargin, Settings DEF TypeOK, Call, TokenSound, CachedTokenAlive

\* A cached token is alive as long as its request is on its way.
THEOREM CachedTokensAlive == Spec => []CachedTokenAlive
  <1>1. Init => TypeOK /\ TokenSound
    BY TypeOK_Init, TokenSound_Init
  <1>2. TypeOK /\ TokenSound /\ [Next]_vars => (TypeOK /\ TokenSound)'
    BY TypeOK_Next, TokenSound_Next
  <1>3. TypeOK /\ TokenSound => CachedTokenAlive
    BY TokenSound_Alive
  <1> QED
    BY <1>1, <1>2, <1>3, PTL DEF Spec
-----------------------------------------------------------------------------
\* The retry loop.

LEMMA Loop_Init == Init => LoopPhases /\ RetriesJustified
  BY Settings DEF Init, LoopPhases, RetriesJustified

\* One more answer, after which the loop waits, returns or raises
LEMMA Loop_Respond ==
  ASSUME IInv, NEW kind \in Kinds, Respond(kind)
  PROVE  (LoopPhases /\ RetriesJustified)'
  <1> DEFINE n == call.attempt
  <1>1. /\ n \in 1..MaxRetries
        /\ Len(answers) = n - 1
        /\ answers \in Seq(Kinds)
        /\ \A i \in 1..Len(answers) : answers[i] \in Turned
        /\ call.outcome = "none"
    BY Settings DEF IInv, TypeOK, Call, LoopPhases, Respond
  <1>2. /\ answers' = Append(answers, kind)
        /\ Len(answers') = n
        /\ answers'[n] = kind
        /\ \A i \in 1..n - 1 : answers'[i] \in Turned
    BY <1>1, Settings DEF Respond
  <1>3. CASE kind \in Retryable
    <2>1. /\ call'.pc = "backoff" /\ call'.outcome = "none"
          /\ call'.attempt = n
      BY <1>1, <1>3 DEF Respond, Proceed, IInv, TypeOK, Call
    <2>2. \A i \in 1..n : answers'[i] \in Turned
      BY <1>1, <1>2, <1>3 DEF Retryable, Turned
    <2> QED
      BY <1>1, <1>2, <2>1, <2>2, Settings
         DEF LoopPhases, RetriesJustified, Turned
  <1>4. CASE kind \notin Retryable
    <2>1. /\ call'.pc = "done"
          /\ call'.outcome = IF kind = "report" THEN "report" ELSE "error"
      BY <1>4 DEF Respond, End, IInv, TypeOK, Call
    <2> QED
      BY <1>1, <1>2, <2>1, Settings DEF LoopPhases, RetriesJustified, Turned
  <1> QED
    BY <1>3, <1>4

\* Back at the head of the loop, or out of it
LEMMA Loop_WakeUp ==
  ASSUME IInv, WakeUp
  PROVE  (LoopPhases /\ RetriesJustified)'
  <1>1. /\ call.pc = "backoff" /\ call.outcome = "none"
        /\ Len(answers) = call.attempt
        /\ call.attempt \in 1..MaxRetries
        /\ \A i \in 1..Len(answers) : answers[i] \in Turned
        /\ answers' = answers
    BY Settings DEF IInv, TypeOK, Call, LoopPhases, WakeUp
  <1>2. CASE call.attempt < MaxRetries
    <2>1. /\ call'.pc = "token" /\ call'.outcome = "none"
          /\ call'.attempt = call.attempt + 1
      BY <1>1, <1>2 DEF WakeUp, IInv, TypeOK, Call
    <2> QED
      BY <1>1, <2>1, Settings DEF LoopPhases, RetriesJustified, Turned
  <1>3. CASE ~(call.attempt < MaxRetries)
    <2>1. call'.pc = "done" /\ call'.outcome = "exhausted"
      BY <1>1, <1>3 DEF WakeUp, End, IInv, TypeOK, Call
    <2>2. Len(answers) = MaxRetries /\ MaxRetries \in 1..Len(answers)
      BY <1>1, <1>3, Settings
    <2> QED
      BY <1>1, <2>1, <2>2, Settings DEF LoopPhases, RetriesJustified, Turned
  <1> QED
    BY <1>2, <1>3

LEMMA Loop_Next ==
  ASSUME IInv, [Next]_vars
  PROVE  (LoopPhases /\ RetriesJustified)'
  <1>1. ASSUME NEW op \in Operations, Start(op)
        PROVE  (LoopPhases /\ RetriesJustified)'
    <2>1. /\ call'.pc = "token" /\ call'.outcome = "none"
          /\ call'.attempt = 1 /\ answers' = <<>>
      BY <1>1 DEF Start
    <2> QED
      BY <2>1, Settings DEF LoopPhases, RetriesJustified
  <1>2. CASE UseCached
    BY <1>2 DEF IInv, TypeOK, Call, LoopPhases, RetriesJustified, UseCached
  <1>3. CASE AskToken
    BY <1>3 DEF IInv, TypeOK, Call, LoopPhases, RetriesJustified, AskToken,
                Proceed
  <1>4. CASE TokenGranted
    BY <1>4 DEF IInv, TypeOK, Call, LoopPhases, RetriesJustified, TokenGranted
  <1>5. CASE TokenFails
    BY <1>5 DEF IInv, TypeOK, Call, LoopPhases, RetriesJustified, TokenFails,
                End
  <1>6. ASSUME NEW kind \in Kinds, Respond(kind)
        PROVE  (LoopPhases /\ RetriesJustified)'
    BY <1>6, Loop_Respond
  <1>7. CASE HealthAnswer
    BY <1>7 DEF IInv, TypeOK, Call, LoopPhases, RetriesJustified, HealthAnswer,
                End
  <1>8. CASE WakeUp
    BY <1>8, Loop_WakeUp
  <1>9. CASE Settle
    BY <1>9 DEF IInv, TypeOK, Call, LoopPhases, RetriesJustified, Settle
  <1>10. CASE Tick
    BY <1>10 DEF IInv, LoopPhases, RetriesJustified, Tick
  <1>11. CASE UNCHANGED vars
    BY <1>11 DEF IInv, LoopPhases, RetriesJustified, vars
  <1> QED
    BY <1>1, <1>2, <1>3, <1>4, <1>5, <1>6, <1>7, <1>8, <1>9, <1>10, <1>11
       DEF Next, Advance

\* A fetch makes at most MaxRetries requests, tries again only after refusals
\* for the moment and timeouts, and gives up only when all its attempts are used.
THEOREM RetriesAreJustified == Spec => []RetriesJustified
  <1>1. Init => IInv
    BY TypeOK_Init, TokenSound_Init, Loop_Init DEF IInv
  <1>2. IInv /\ [Next]_vars => IInv'
    BY TypeOK_Next, TokenSound_Next, Loop_Next DEF IInv
  <1>3. IInv => RetriesJustified
    BY DEF IInv
  <1> QED
    BY <1>1, <1>2, <1>3, PTL DEF Spec
-----------------------------------------------------------------------------
\* The log.

\* A fetch that ends or asks for a token makes no request and writes no row
LEMMA Log_Kept ==
  ASSUME LogTellsAnswers, UNCHANGED <<answers, log, session>>
  PROVE  LogTellsAnswers'
  BY DEF LogTellsAnswers

LEMMA RowsNumbered ==
  ASSUME TypeOK
  PROVE  /\ Len(log) \in Nat
         /\ \A i \in 1..Len(log) : log[i].attempt \in Nat \ {0}
  <1>1. \A i \in 1..Len(log) : log[i] \in LogRow
    BY DEF TypeOK
  <1> QED
    BY <1>1, Settings DEF TypeOK, LogRow

\* The row of the request just answered is the last, and the only new one
LEMMA Log_Appended ==
  ASSUME IInv, LogTellsAnswers, NEW kind \in Kinds \ {"lost"}, NEW n \in 1..MaxRetries,
         n = Len(answers) + 1,
         answers' = Append(answers, kind),
         log' = Append(log, [attempt |-> n, status |-> kind]),
         session \in {"complete", "incomplete"}, session' = session
  PROVE  LogTellsAnswers'
  <1> DEFINE row == [attempt |-> n, status |-> kind]
             m == Len(log)
  <1>1. /\ answers \in Seq(Kinds) /\ log \in Seq(LogRow) /\ row \in LogRow
        /\ n \in Nat /\ m \in Nat
    BY Settings DEF IInv, TypeOK, LogRow
  <1>2. /\ Len(answers') = n /\ answers'[n] = kind
        /\ \A i \in 1..n - 1 : answers'[i] = answers[i]
    BY <1>1
  <1>3. /\ Len(log') = m + 1 /\ log'[m + 1] = row
        /\ \A i \in 1..m : log'[i] = log[i]
    BY <1>1
  <1>4. \A i \in 1..m : /\ log[i].attempt \in 1..n - 1
                        /\ log[i].status = answers[log[i].attempt]
                        /\ \A j \in 1..i - 1 : log[j].attempt < log[i].attempt
    <2>1. \A i \in 1..m : log[i].attempt \in Nat \ {0}
      BY RowsNumbered DEF IInv
    <2>2. session /= "broken" /\ Len(answers) = n - 1
      BY <1>1
    <2> HIDE DEF row
    <2> QED
      BY <1>1, <2>1, <2>2 DEF LogTellsAnswers
  <1>5. row.attempt = n /\ row.status = kind
    OBVIOUS
  <1> HIDE DEF row, m
  <1>6. ASSUME NEW i \in 1..m + 1
        PROVE  /\ log'[i].attempt <= n
               /\ log'[i].status = answers'[log'[i].attempt]
               /\ \A j \in 1..i - 1 : log'[j].attempt < log'[i].attempt
    <2>1. CASE i = m + 1
      BY <1>1, <1>2, <1>3, <1>4, <1>5, <2>1
    <2>2. CASE i \in 1..m
      <3>1. \A j \in 1..i - 1 : j \in 1..m
        BY <1>1, <2>2
      <3>2. log[i].attempt \in 1..n - 1 /\ n - 1 < n
        BY <1>1, <1>4, <2>2
      <3> QED
        BY <1>1, <1>2, <1>3, <1>4, <2>2, <3>1, <3>2
    <2>3. i = m + 1 \/ i \in 1..m
      BY <1>1
    <2> QED
      BY <2>1, <2>2, <2>3
  <1>7. ASSUME session = "complete", NEW k \in 1..n, answers'[k] /= "lost"
        PROVE  \E i \in 1..m + 1 : log'[i].attempt = k
    <2>1. CASE k = n
      BY <1>1, <1>3, <1>5, <2>1
    <2>2. CASE k /= n
      <3>1. k \in 1..Len(answers) /\ answers[k] /= "lost"
        BY <1>1, <1>2, <1>7, <2>2
      <3>2. PICK i \in 1..m : log[i].attempt = k
        BY <1>7, <3>1 DEF LogTellsAnswers, m
      <3> QED
        BY <1>1, <1>3, <3>2
    <2> QED
      BY <2>1, <2>2
  <1> QED
    BY <1>2, <1>3, <1>6, <1>7 DEF LogTellsAnswers

\* Without a new row, a request that was answered leaves the log incomplete
LEMMA Log_Missed ==
  ASSUME IInv, LogTellsAnswers, NEW kind \in Kinds,
         answers' = Append(answers, kind), log' = log,
         \/ kind = "lost" /\ session' = session
         \/ session' = IF session = "broken" THEN "broken" ELSE "incomplete"
  PROVE  LogTellsAnswers'
  <1> DEFINE n == Len(answers)
  <1>1. /\ answers \in Seq(Kinds) /\ n \in Nat
        /\ Len(answers') = n + 1 /\ answers'[n + 1] = kind
        /\ \A i \in 1..n : answers'[i] = answers[i]
    BY DEF IInv, TypeOK
  <1>2. /\ session' = "complete" => session = "complete" /\ kind = "lost"
        /\ session' /= "broken" => session /= "broken"
    OBVIOUS
  <1>3. \A i \in 1..Len(log) : log[i].attempt \in Nat \ {0}
    BY RowsNumbered DEF IInv
  <1>4. ASSUME session' = "complete", NEW k \in 1..Len(answers'), answers'[k] /= "lost"
        PROVE  \E i \in 1..Len(log) : log[i].attempt = k
    <2>1. k \in 1..n /\ answers[k] /= "lost"
      BY <1>1, <1>2, <1>4
    <2> QED
      BY <1>2, <1>4, <2>1 DEF LogTellsAnswers
  <1>5. ASSUME session' /= "broken", NEW i \in 1..Len(log)
        PROVE  /\ log[i].attempt \in 1..n
               /\ log[i].status = answers[log[i].attempt]
               /\ \A j \in 1..i - 1 : log[j].attempt < log[i].attempt
    BY <1>1, <1>2, <1>3, <1>5 DEF LogTellsAnswers
  <1> HIDE DEF n
  <1> QED
    BY <1>1, <1>4, <1>5 DEF LogTellsAnswers

LEMMA Log_Respond ==
  ASSUME IInv, LogTellsAnswers, NEW kind \in Kinds, Respond(kind)
  PROVE  LogTellsAnswers'
  <1>1. /\ answers' = Append(answers, kind)
        /\ call.attempt \in 1..MaxRetries /\ Len(answers) = call.attempt - 1
    BY Settings DEF IInv, TypeOK, Call, LoopPhases, Respond
  <1>2. CASE kind = "lost"
    BY <1>1, <1>2, Log_Missed DEF Respond
  <1>3. CASE kind /= "lost"
    <2>1. LogApiCall(kind)
      BY <1>3 DEF Respond
    <2>2. CASE /\ session \in {"complete", "incomplete"}
               /\ log' = Append(log, [attempt |-> call.attempt, status |-> kind])
               /\ session' = session
      <3>1. call.attempt = Len(answers) + 1 /\ kind \in Kinds \ {"lost"}
        BY <1>1, <1>3, Settings
      <3> QED
        BY <1>1, <2>2, <3>1, Log_Appended
    <2>3. CASE /\ session' = IF session = "broken" THEN "broken" ELSE "incomplete"
               /\ log' = log
      BY <1>1, <2>3, Log_Missed
    <2>4. CASE log' = <<>> /\ session' = "broken"
      BY <2>4 DEF LogTellsAnswers
    <2> QED
      BY <2>1, <2>2, <2>3, <2>4 DEF LogApiCall
  <1> QED
    BY <1>2, <1>3

LEMMA Log_Next ==
  ASSUME IInv, LogTellsAnswers, [Next]_vars
  PROVE  LogTellsAnswers'
  <1>1. ASSUME NEW op \in Operations, Start(op)
        PROVE  LogTellsAnswers'
    BY <1>1 DEF Start, LogTellsAnswers
  <1>2. ASSUME NEW kind \in Kinds, Respond(kind)
        PROVE  LogTellsAnswers'
    BY <1>2, Log_Respond
  <1>3. ASSUME UseCached \/ AskToken \/ TokenGranted \/ TokenFails
                 \/ HealthAnswer \/ WakeUp \/ Settle \/ Tick \/ UNCHANGED vars
        PROVE  LogTellsAnswers'
    <2>1. UNCHANGED <<answers, log, session>>
      BY <1>3 DEF UseCached, AskToken, TokenGranted, TokenFails, HealthAnswer,
                  WakeUp, Settle, Tick, vars
    <2> QED
      BY <2>1, Log_Kept
  <1> QED
    BY <1>1, <1>2, <1>3 DEF Next, Advance

\* Whatever errors the log swallows, its rows are those of report requests that
\* were made, in order; unless it has swallowed one, every report request that
\* was answered or timed out has its row.
THEOREM LogTellsEveryAnswer == Spec => []LogTellsAnswers
  <1>1. Init => IInv /\ LogTellsAnswers
    BY TypeOK_Init, TokenSound_Init, Loop_Init DEF IInv, Init, LogTellsAnswers
  <1>2. IInv /\ LogTellsAnswers /\ [Next]_vars => (IInv /\ LogTellsAnswers)'
    BY TypeOK_Next, TokenSound_Next, Loop_Next, Log_Next DEF IInv
  <1> QED
    BY <1>1, <1>2, PTL DEF Spec
=============================================================================
