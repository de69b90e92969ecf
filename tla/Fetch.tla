------------------------------- MODULE Fetch --------------------------------
(***************************************************************************)
(* How a collection run asks the source for pages: SourceClient.fetch with *)
(* its retries and redirects, and the RequestBudget it shares with the     *)
(* browser that answers challenges.                                        *)
(*                                                                         *)
(* Every request, whoever makes it, is counted and paced by acquire.  The  *)
(* source is external: it may answer, ask for patience, redirect, drop the *)
(* connection or challenge.  Time is counted in units of which the pacing  *)
(* interval is a few; time passes only where the code sleeps, so requests  *)
(* are never further apart here than they have to be.                      *)
(***************************************************************************)
EXTENDS Integers

CONSTANTS
  MaxRequests,      \* network.max_requests_per_run
  MaxRetries,       \* network.max_retries
  MaxRedirects,     \* network.max_redirects
  MaxConsecutive,   \* network.max_consecutive_challenges
  MinIntervals,     \* values of network.min_interval_seconds
  MaxInterval,      \* RequestBudget.max_interval, which nothing sets
  Jitter,
  Patience,         \* numbers of seconds the source uses as Retry-After
  MaxFetches        \* bound: calls of fetch in the run

ASSUME FetchAssumption ==
  /\ {MaxRequests, MaxRetries, MaxRedirects, MaxConsecutive, Jitter, MaxFetches} \subseteq Nat
  /\ MinIntervals \cup Patience \cup {MaxInterval} \subseteq Nat

VARIABLES
  \* --- RequestBudget ---
  requests, consecutive,   \* stats.requests, stats.consecutive_challenges
  minInterval, interval, nextAllowed,
  challenged,              \* stats.challenges > 0
  \* --- the call of fetch in progress ---
  phase, attempt, hop,
  last,                    \* failure_kind of the latest attempt, or "ok"
  fetches,                 \* calls made so far
  browser,                 \* there is a challenge_solver
  \* --- the clock, and what it showed ---
  now,
  lastAt,                  \* when the latest request was sent
  askedUntil               \* the source asked not to be called before this

budget == <<requests, consecutive, minInterval, interval, nextAllowed, challenged>>
call   == <<phase, attempt, hop, last, fetches, browser>>
clock  == <<now, lastAt, askedUntil>>
fetchVars   == <<budget, call, clock>>

Endings == {"none", "ok", "blocked_destination", "budget_exhausted", "access_control",
            "refused", "transient", "dropped"}

Larger(a, b)  == IF a > b THEN a ELSE b
Smaller(a, b) == IF a < b THEN a ELSE b

-----------------------------------------------------------------------------
FetchInit ==
  /\ requests = 0 /\ consecutive = 0 /\ nextAllowed = 0 /\ challenged = FALSE
  /\ minInterval \in MinIntervals /\ interval = minInterval
  /\ phase = "ready" /\ attempt = 0 /\ hop = 0 /\ last = "none" /\ fetches = 0
  /\ browser \in BOOLEAN
  /\ now = 0 /\ lastAt = 0 /\ askedUntil = 0

Begin ==
  /\ phase = "ready" /\ fetches < MaxFetches
  /\ fetches' = fetches + 1
  /\ attempt' = 1 /\ hop' = 0 /\ last' = "none"
  /\ phase' = "check"
  /\ UNCHANGED <<browser, budget, clock>>

\* fetch returns its latest attempt.
Return(how) ==
  /\ last' = how /\ phase' = "ready" /\ attempt' = 0 /\ hop' = 0
  /\ UNCHANGED <<fetches, browser>>

\* Slip for RequestsSpaced: the next turn is reckoned from before the wait.
Acquire_StaleClock ==
  /\ requests < MaxRequests
  /\ requests' = requests + 1
  /\ now' = Larger(now, nextAllowed)
  /\ \E j \in 0 .. Jitter : nextAllowed' = now + interval + j
  /\ lastAt' = now'
  /\ UNCHANGED <<consecutive, minInterval, interval, challenged, askedUntil>>

\* RequestBudget.acquire: wait for the turn, and set the next one.
Acquire ==
  /\ requests < MaxRequests
  /\ requests' = requests + 1
  /\ now' = Larger(now, nextAllowed)
  /\ \E j \in 0 .. Jitter : nextAllowed' = now' + interval + j
  /\ lastAt' = now'
  /\ UNCHANGED <<consecutive, minInterval, interval, challenged, askedUntil>>

\* The run visits the listing with the browser before its first fetch, whatever
\* comes of it.  The visit is a request like any other.
Prime ==
  /\ phase = "ready" /\ fetches = 0 /\ requests = 0 /\ browser
  /\ Acquire
  /\ UNCHANGED call

\* UrlPolicy.check refuses the URL, first or redirected.
Blocked ==
  /\ phase = "check"
  /\ Return("blocked_destination")
  /\ UNCHANGED <<budget, clock>>

\* Slip for EveryFetchEnds: wait for budget that nobody refills.
Exhausted_Waits ==
  /\ phase = "check" /\ requests >= MaxRequests
  /\ UNCHANGED fetchVars

Exhausted ==
  /\ phase = "check" /\ requests >= MaxRequests
  /\ Return("budget_exhausted")
  /\ UNCHANGED <<budget, clock>>

Send ==
  /\ phase = "check"
  /\ Acquire
  /\ phase' = "sent"
  /\ UNCHANGED <<attempt, hop, last, fetches, browser>>

-----------------------------------------------------------------------------
(* What the source answers.                                                *)

\* Slip for RetryAfterHonoured: seconds are taken for a point in time.
HonourRetryAfter_Absolute(seconds) == nextAllowed' = Larger(nextAllowed, seconds)

\* RequestBudget.honour_retry_after.
HonourRetryAfter(seconds) == nextAllowed' = Larger(nextAllowed, now + seconds)

\* A Retry-After header may come with any response.  Most carry none, and one that is
\* no number, such as a date, is passed over.
Response ==
  /\ \/ \E seconds \in Patience : /\ HonourRetryAfter(seconds)
                                 /\ askedUntil' = Larger(askedUntil, now + seconds)
     \/ UNCHANGED <<nextAllowed, askedUntil>>
  /\ UNCHANGED <<requests, minInterval, interval, challenged, now, lastAt>>

NoResponse == UNCHANGED <<requests, minInterval, interval, nextAllowed, challenged, clock>>

Answer ==
  /\ phase = "sent"
  /\ Response
  /\ Return("ok")
  /\ consecutive' = 0

\* Not found, gone, forbidden, or a connection that breaks in a way that is not
\* worth another attempt.
Refuse ==
  /\ phase = "sent"
  /\ Response \/ NoResponse
  /\ Return("refused")
  /\ UNCHANGED consecutive

\* Only MaxRedirects redirects are followed; a further one is an answer.
Redirect ==
  /\ phase = "sent" /\ hop < MaxRedirects
  /\ Response
  /\ hop' = hop + 1
  /\ phase' = "check"
  /\ UNCHANGED <<consecutive, attempt, last, fetches, browser>>

Challenge ==
  /\ phase = "sent"
  /\ Response
  /\ phase' = "challenged"
  /\ last' = "access_control"
  /\ UNCHANGED <<consecutive, attempt, hop, fetches, browser>>

\* 429 and 5xx, or no response at all.
Fail ==
  /\ phase = "sent"
  /\ \/ Response /\ last' = "transient"
     \/ NoResponse /\ last' = "dropped"
  /\ phase' = "failed"
  /\ UNCHANGED <<consecutive, attempt, hop, fetches, browser>>

-----------------------------------------------------------------------------
(* Trying again.                                                           *)

\* Slip for EveryStepCounts: another try after a challenge or a failure is free.
Again_Uncounted ==
  attempt' = attempt /\ hop' = 0 /\ phase' = "check" /\ UNCHANGED <<last, fetches, browser>>

Again == /\ attempt' = attempt + 1 /\ hop' = 0 /\ phase' = "check" /\ UNCHANGED <<last, fetches, browser>>

\* One unit stands for the backoff, which differs only in length.
Backoff == now' = now + 1 /\ UNCHANGED <<lastAt, askedUntil>>

GiveUp ==
  /\ phase = "failed" /\ attempt > MaxRetries
  /\ Return(last)
  /\ UNCHANGED <<budget, clock>>

RetryFailed ==
  /\ phase = "failed" /\ attempt <= MaxRetries
  /\ Again
  /\ Backoff
  /\ UNCHANGED budget

\* record_challenge: the run paces itself anew, and counts to the wall.  It slows down,
\* unless it was configured to be slower than max_interval, which it then becomes.
RecordChallenge ==
  /\ consecutive' = consecutive + 1
  /\ challenged' = TRUE
  /\ interval' = Smaller(2 * interval, MaxInterval)
  /\ UNCHANGED <<requests, minInterval, nextAllowed>>

Wall == consecutive + 1 > MaxConsecutive

\* _handle_challenge catches ChallengeWall: only this fetch ends.
StopAtChallenge ==
  /\ phase = "challenged"
  /\ Wall \/ attempt > MaxRetries + 1
  /\ RecordChallenge
  /\ Return("access_control")
  /\ UNCHANGED clock

ContinueAfterChallenge ==
  /\ phase = "challenged"
  /\ ~Wall /\ attempt <= MaxRetries + 1
  /\ RecordChallenge
  /\ \/ browser /\ phase' = "solve" /\ UNCHANGED <<attempt, hop, last, fetches, browser, clock>>
     \/ ~browser /\ Again /\ Backoff

\* The browser visit is a request like any other.  It may be refused, by the URL
\* policy or the budget, or bring no cookies: then back off.
Solve ==
  /\ phase = "solve"
  /\ Acquire
  /\ Again

SolveFailed ==
  /\ phase = "solve"
  /\ \/ Acquire /\ phase' = "solved_nothing" /\ UNCHANGED <<attempt, hop, last, fetches, browser>>
     \/ Again /\ Backoff /\ UNCHANGED budget

BackoffUnsolved ==
  /\ phase = "solved_nothing"
  /\ Again /\ Backoff
  /\ UNCHANGED budget

Progress ==
  \/ Exhausted \/ Send \/ Answer \/ Refuse \/ Redirect \/ Challenge \/ Fail
  \/ GiveUp \/ RetryFailed \/ StopAtChallenge \/ ContinueAfterChallenge
  \/ Solve \/ SolveFailed \/ BackoffUnsolved

FetchNext == Prime \/ Begin \/ Blocked \/ Progress

\* A call that was made runs on; every request ends, for it has timeouts.  That the
\* policy refuses a URL is never what keeps it going.
FetchSpec == FetchInit /\ [][FetchNext]_fetchVars /\ WF_fetchVars(Progress)

-----------------------------------------------------------------------------
(* Properties.                                                             *)

Sending == requests' > requests

\* The configured interval, but no more than max_interval once a challenge came.
Floor == IF challenged THEN Smaller(minInterval, MaxInterval) ELSE minInterval

\* Two requests are never closer together than the configured interval, be they
\* pages, hops of a redirect, retries or visits of the browser; a challenge never
\* brings them closer, except down to max_interval (acquire and record_challenge).
RequestsSpaced == [][Sending /\ requests > 0 => lastAt' - lastAt >= Floor]_fetchVars

\* Once the source has asked for patience, in seconds, nothing reaches it before that,
\* not even another attempt, another page or the browser (honour_retry_after and
\* acquire).
RetryAfterHonoured == [][Sending => lastAt' >= askedUntil]_fetchVars

\* No step of a fetch is for nothing: it ends the fetch, begins one of its
\* MaxRetries + 2 attempts or follows one of MaxRedirects hops, or else gets that hop
\* further.  Challenges, failures and visits of the browser count for the same
\* attempts, in whichever order they come (fetch, _handle_challenge and _attempt).
StepsLeft == [check |-> 4, sent |-> 3, challenged |-> 2, failed |-> 2,
              solve |-> 1, solved_nothing |-> 0]

Further ==
  \/ attempt' = attempt + 1 /\ attempt' <= MaxRetries + 2
  \/ attempt' = attempt /\ hop' = hop + 1 /\ hop' <= MaxRedirects
  \/ attempt' = attempt /\ hop' = hop /\ StepsLeft[phase'] < StepsLeft[phase]

EveryStepCounts == [][phase # "ready" => phase' = "ready" \/ Further]_fetchVars

\* However the source mixes challenges, failures and redirects, a fetch ends.
EveryFetchEnds == (phase # "ready") ~> (phase = "ready")
=============================================================================
