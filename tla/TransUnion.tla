------------------------------ MODULE TransUnion ------------------------------
(***************************************************************************)
(* TransUnion: one TransUnionProvider, its cached access token, the retry   *)
(* loop of fetch_credit_report with its log, and the health check           *)
(* (transunion.py). A provider belongs to one database session, so that its *)
(* calls come one after the other.                                         *)
(***************************************************************************)
EXTENDS Integers, Sequences

CONSTANTS
  MaxRetries,  \* TRANSUNION_MAX_RETRIES
  Transit,     \* the longest time until a request has arrived or failed
  Margin,      \* the 60 seconds before its expiry in which no token is reused
  Lifetimes,   \* the values of expires_in
  MaxTime,     \* bound: the clock stops here
  MaxCalls     \* bound: calls of the provider

\* Connecting and sending may take TRANSUNION_TIMEOUT_SECONDS (30) each
ASSUME SafeMargin == Transit \in Nat /\ Margin \in Nat /\ Transit <= Margin
ASSUME Settings == /\ MaxRetries \in Nat \ {0}
                   /\ Lifetimes \subseteq Nat
                   /\ MaxTime \in Nat
                   /\ MaxCalls \in Nat

VARIABLES
  token,    \* _token_expires_at, and when the bureau lets the token expire
  call,     \* the call at work and its local variables
  answers,  \* what became of each request of this fetch, in order
  log,      \* rows of bureau_api_logs flushed by this fetch, in order
  session,  \* whether the session has taken every row
  clock     \* time.time()

vars == <<token, call, answers, log, session, clock>>

Operations == {"fetch", "health"}

\* 200, 200 that cannot be normalized, 429 or 503, any other status,
\* httpx.TimeoutException, any other exception of httpx
Kinds == {"report", "unusable", "busy", "refused", "timeout", "lost"}

Outcomes == {"none", "report", "error", "exhausted", "healthy", "degraded",
             "unhealthy"}

\* began: when the request under way was started, or, for the token, looked at
Call == [pc : {"idle", "token", "asking", "sending", "backoff", "done"},
         op : Operations, attempt : 0..MaxRetries, began : Nat,
         cached : BOOLEAN, outcome : Outcomes, number : 0..MaxCalls]

LogRow == [attempt : 1..MaxRetries, status : Kinds]
-----------------------------------------------------------------------------
\* A slip: whatever is no report is tried again
RetryableUnlessReport == Kinds \ {"report"}

\* The status codes and the exception after which the loop continues
Retryable == {"busy", "timeout"}

\* A slip: the margin is forgotten
ReusableToTheEnd == clock < token.recorded

Reusable == clock < token.recorded - Margin

\* A slip: the lifetime counts from the arrival of the answer
ExpiryFromAnswer(life) == clock + life

ExpiryOf(life) == call.began + life

Proceed(pc) == call' = [call EXCEPT !.pc = pc, !.began = clock]

End(outcome) == call' = [call EXCEPT !.pc = "done", !.outcome = outcome]

\* A slip: a call that timed out leaves no row
LogApiCallAnswered(kind) ==
  \/ /\ session = "complete"
     /\ log' = IF kind = "timeout" THEN log
               ELSE Append(log, [attempt |-> call.attempt, status |-> kind])
     /\ UNCHANGED session
  \/ /\ session' = IF session = "broken" THEN "broken" ELSE "incomplete"
     /\ UNCHANGED log
  \/ log' = <<>> /\ session' = "broken"

\* _log_api_call swallows its errors: the row cannot be encrypted and is
\* missing, or its flush fails and takes the session's earlier rows with it
LogApiCall(kind) ==
  \/ /\ session \in {"complete", "incomplete"}
     /\ log' = Append(log, [attempt |-> call.attempt, status |-> kind])
     /\ UNCHANGED session
  \/ /\ session' = IF session = "broken" THEN "broken" ELSE "incomplete"
     /\ UNCHANGED log
  \/ log' = <<>> /\ session' = "broken"
-----------------------------------------------------------------------------
Start(op) ==
  /\ call.pc = "idle" /\ call.number < MaxCalls
  /\ call' = [pc |-> "token", op |-> op, attempt |-> 1, began |-> clock,
              cached |-> FALSE, outcome |-> "none", number |-> call.number + 1]
  /\ answers' = <<>>
  /\ log' = <<>>
  /\ session' = "complete"
  /\ UNCHANGED <<token, clock>>

UseCached ==
  /\ call.pc = "token" /\ Reusable
  /\ call' = [call EXCEPT !.pc = "sending", !.began = clock, !.cached = TRUE]
  /\ UNCHANGED <<token, answers, log, session, clock>>

AskToken ==
  /\ call.pc = "token" /\ ~Reusable
  /\ Proceed("asking")
  /\ UNCHANGED <<token, answers, log, session, clock>>

\* The bureau issues the token at some time while the request is under way
TokenGranted ==
  /\ call.pc = "asking"
  /\ \E life \in Lifetimes, issued \in call.began..clock :
       token' = [recorded |-> ExpiryOf(life), real |-> issued + life]
  /\ call' = [call EXCEPT !.pc = "sending", !.began = clock, !.cached = FALSE]
  /\ UNCHANGED <<answers, log, session, clock>>

\* raise_for_status and the exceptions of httpx: no retry catches them
TokenFails ==
  /\ call.pc = "asking"
  /\ End(IF call.op = "fetch" THEN "error" ELSE "unhealthy")
  /\ UNCHANGED <<token, answers, log, session, clock>>

\* The bureau gives no report for a token that has expired
Respond(kind) ==
  /\ call.pc = "sending" /\ call.op = "fetch"
  /\ kind \in {"report", "unusable"} => clock < token.real
  /\ answers' = Append(answers, kind)
  /\ IF kind = "lost" THEN UNCHANGED <<log, session>> ELSE LogApiCall(kind)
  /\ IF kind \in Retryable THEN Proceed("backoff")
     ELSE End(IF kind = "report" THEN "report" ELSE "error")
  /\ UNCHANGED <<token, clock>>

HealthAnswer ==
  /\ call.pc = "sending" /\ call.op = "health"
  /\ \E outcome \in {"healthy", "degraded", "unhealthy"} :
       /\ outcome = "healthy" => clock < token.real
       /\ End(outcome)
  /\ UNCHANGED <<token, answers, log, session, clock>>

\* A slip: one attempt too many
WakeUpOnceMore ==
  /\ call.pc = "backoff"
  /\ IF call.attempt <= MaxRetries
     THEN call' = [call EXCEPT !.pc = "token", !.attempt = @ + 1]
     ELSE End("exhausted")
  /\ UNCHANGED <<token, answers, log, session, clock>>

\* A slip: after its last attempt the loop does not end
WakeUpToRetry ==
  /\ call.pc = "backoff" /\ call.attempt < MaxRetries
  /\ call' = [call EXCEPT !.pc = "token", !.attempt = @ + 1]
  /\ UNCHANGED <<token, answers, log, session, clock>>

\* The back-off is slept after the last attempt as well
WakeUp ==
  /\ call.pc = "backoff"
  /\ IF call.attempt < MaxRetries
     THEN call' = [call EXCEPT !.pc = "token", !.attempt = @ + 1]
     ELSE End("exhausted")
  /\ UNCHANGED <<token, answers, log, session, clock>>

\* The call returns or raises
Settle ==
  /\ call.pc = "done"
  /\ call' = [call EXCEPT !.pc = "idle"]
  /\ UNCHANGED <<token, answers, log, session, clock>>

\* A token is answered at any time, a request arrives within Transit
Tick ==
  /\ clock < MaxTime
  /\ call.pc = "sending" => clock < call.began + Transit
  /\ call.pc /= "token"
  /\ clock' = clock + 1
  /\ UNCHANGED <<token, call, answers, log, session>>

Init ==
  /\ token = [recorded |-> 0, real |-> 0]
  /\ call = [pc |-> "idle", op |-> "health", attempt |-> 0, began |-> 0,
             cached |-> FALSE, outcome |-> "none", number |-> 0]
  /\ answers = <<>>
  /\ log = <<>>
  /\ session = "complete"
  /\ clock = 0

\* What the provider does once it has been called
Advance ==
  \/ UseCached \/ AskToken \/ TokenGranted \/ TokenFails
  \/ (\E kind \in Kinds : Respond(kind)) \/ HealthAnswer
  \/ WakeUp \/ Settle

Next == (\E op \in Operations : Start(op)) \/ Advance \/ Tick

\* Awaits complete, time out or raise
Spec == Init /\ [][Next]_vars /\ WF_vars(Advance)
-----------------------------------------------------------------------------
(***************************************************************************)
(* Properties.                                                             *)
(***************************************************************************)

\* Token, call and log have the values the provider can give them.
TypeOK ==
  /\ token \in [recorded : Nat, real : Nat]
  /\ call \in Call
  /\ call.pc \in {"token", "asking", "sending", "backoff"} => call.attempt >= 1
  /\ answers \in Seq(Kinds)
  /\ log \in Seq(LogRow)
  /\ session \in {"complete", "incomplete", "broken"}
  /\ clock \in 0..MaxTime

\* A token taken from the cache is alive when the bureau sees it, however long
\* the request for it took to be answered and the request with it to arrive.
CachedTokenAlive ==
  call.pc = "sending" /\ call.cached => clock < token.real

\* A fetch makes MaxRetries requests at most, each after the first only because
\* the one before was turned away for the moment or timed out; it gives up
\* after MaxRetries such requests and never before, and returns a report if the
\* last request brought one.
RetriesJustified ==
  /\ Len(answers) <= MaxRetries
  /\ \A i \in 1..Len(answers) - 1 : answers[i] \in {"busy", "timeout"}
  /\ call.outcome = "exhausted" =>
       /\ Len(answers) = MaxRetries
       /\ answers[MaxRetries] \in {"busy", "timeout"}
  /\ call.outcome = "report" =>
       Len(answers) > 0 /\ answers[Len(answers)] = "report"

\* Unless an error was swallowed, the log has a row for each report request
\* that was answered or timed out, and whatever was swallowed its rows are those
\* of requests that were made, in order, with the number of their attempt. This
\* is less than "all calls": requests for a token, and report requests lost to
\* any other exception, reach no logging, so nothing is said of their rows.
LogTellsAnswers ==
  /\ session = "complete" =>
       \A n \in 1..Len(answers) : answers[n] /= "lost" =>
         \E i \in 1..Len(log) : log[i].attempt = n
  /\ session /= "broken" =>
       \A i \in 1..Len(log) :
         /\ log[i].attempt <= Len(answers)
         /\ log[i].status = answers[log[i].attempt]
         /\ \A j \in 1..i - 1 : log[j].attempt < log[i].attempt

\* Every call of the provider returns or raises in the end.
FetchEnds == call.pc /= "idle" ~> call.pc = "idle"
=============================================================================
