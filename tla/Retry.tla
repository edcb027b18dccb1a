-------------------------------- MODULE Retry --------------------------------
(***************************************************************************)
(* urllib3.util.retry.Retry and the loop that HTTPConnectionPool.urlopen    *)
(* makes of it: one request, sent again after errors, redirects and bad     *)
(* statuses until the budget, or the caller's luck, runs out.               *)
(*                                                                         *)
(* The recursion of urlopen is the loop; each recursive call gets the Retry *)
(* object that increment() returned, so the object is the loop's variable.  *)
(*                                                                         *)
(* PoolManager.urlopen is a loop around this one: it follows the redirects  *)
(* itself, and starts the urlopen of the next pool with a Retry object of   *)
(* its own.                                                                 *)
(***************************************************************************)
EXTENDS Integers

CONSTANTS
    None,             \* the value None of a counter
    Disabled,         \* the value False of a counter
    Starts,           \* the counters the caller may pass, functions on Kinds
    allowed_methods,  \* allowed_methods
    Methods,          \* the methods of requests, GET among them
    respect_retry_after_header,
    raise_on_redirect, \* the argument raise_on_redirect
    raise_on_status,
    Managed,          \* whether a PoolManager follows the redirects: the choices
    backoff_factor, backoff_max,
    MaxAttempts       \* bound: repeated attempts, for unlimited budgets

Errors == {"connect", "read", "other"}
Kinds  == {"total", "redirect", "status"} \cup Errors
Counter == Int \cup {None, Disabled}

ASSUME CounterAssumption == None \notin Int /\ Disabled \notin Int /\ None # Disabled
ASSUME StartsAssumption  == Starts \subseteq [Kinds -> Counter]
ASSUME MethodsAssumption == "GET" \in Methods
ASSUME FlagsAssumption   == /\ respect_retry_after_header \in BOOLEAN
                            /\ raise_on_redirect \in BOOLEAN
                            /\ raise_on_status \in BOOLEAN
                            /\ Managed \subseteq BOOLEAN
ASSUME BoundsAssumption  == backoff_factor \in Nat /\ backoff_max \in Nat /\ MaxAttempts \in Nat

VARIABLES
    managed,  \* a PoolManager follows the redirects; it never changes
    start,    \* history: the counters the caller passed
    count,    \* the counters of the current Retry object
    passed,   \* the counters of PoolManager's kw["retries"], None without any
    streak,   \* how many last entries of its history are not redirects
    method,   \* the method of the next attempt
    used,     \* history: used[k] attempts were repeated because of k
    wait,     \* how long the thread slept before this attempt: [why, time]
    phase     \* "sending", "returned" a response, "raised"

vars == <<managed, start, count, passed, streak, method, used, wait, phase>>

\* Waiting for Retry-After is left abstract: RetryAfter stands for its seconds.
NoWait     == [why |-> "backoff", time |-> 0]
RetryAfter == [why |-> "retry-after", time |-> 0]

\* Retry.__init__: a disabled total or redirect allows no redirect and returns
\* the redirect response instead of raising.  (It runs again in new(), where no
\* counter is False any more.)
NoRedirects(c) == c["redirect"] = Disabled \/ c["total"] = Disabled
Construct(c) == IF NoRedirects(c) THEN [c EXCEPT !["redirect"] = 0] ELSE c

Init ==
    /\ managed \in Managed
    /\ start \in Starts
    /\ count = Construct(start)
    /\ passed \in IF managed THEN {count, None} ELSE {None}
    /\ streak = 0
    /\ method \in Methods
    /\ used = [k \in Kinds |-> 0]
    /\ wait = NoWait
    /\ phase = "sending"

-----------------------------------------------------------------------------
MethodRetryable == allowed_methods = {} \/ method \in allowed_methods

\* x - 1, where None stays None and False counts as 0
Dec(x) == CASE x = None -> None [] x = Disabled -> -1 [] OTHER -> x - 1

\* Mutant of Incremented: only the counter of the cause is decremented.
IncrementedCause(c, k) == [c EXCEPT ![k] = Dec(@)]

\* increment() on counters c: the total and the one of cause k are decremented.
Incremented(c, k) == [c EXCEPT !["total"] = Dec(@), ![k] = Dec(@)]

\* is_exhausted(): a counter is below zero.  None, False and 0 do not count.
Exhausted(c) == \E k \in Kinds : c[k] \notin {None, Disabled} /\ c[k] < 0

\* Mutant of Reraised: a read error is retried whatever the method is.
ReraisedNoMethod(k) ==
    count["total"] = Disabled \/ (k # "other" /\ count[k] = Disabled)

\* increment() raises an error of kind k again: retries are disabled, or the
\* request may have been acted on and its method is not to be repeated.
Reraised(k) ==
    \/ count["total"] = Disabled
    \/ k \in {"connect", "read"} /\ count[k] = Disabled
    \/ k = "read" /\ ~MethodRetryable

\* is_retry(): the response's status is in status_forcelist (listed), or the
\* status and a Retry-After header ask for a retry.
IsRetry(listed, retryafter) ==
    /\ MethodRetryable
    /\ \/ listed
       \/ /\ count["total"] \notin {None, Disabled, 0}
          /\ respect_retry_after_header /\ retryafter

\* Mutant of Backoff: the first error is not treated apart.
BackoffLinear(n) == backoff_factor * (n - 2)

\* get_backoff_time() after n errors in a row (jitter left out)
Backoff(n) ==
    IF n <= 1 THEN 0
    ELSE IF backoff_factor * 2^(n - 1) <= backoff_max
         THEN backoff_factor * 2^(n - 1) ELSE backoff_max

\* urlopen goes on with the Retry object that increment() of c returned.
Again(c, k, n, w) ==
    /\ count' = Incremented(c, k)
    /\ streak' = n
    /\ used' = [used EXCEPT ![k] = @ + 1, !["total"] = @ + 1]
    /\ wait' = w
    /\ UNCHANGED <<managed, start, phase>>

End(how) ==
    /\ phase' = how
    /\ UNCHANGED <<managed, start, count, passed, streak, method, used, wait>>

\* The attempt fails with an error of kind k.
Error(k) ==
    /\ phase = "sending" /\ used["total"] < MaxAttempts
    /\ IF Reraised(k) \/ Exhausted(Incremented(count, k))
       THEN End("raised")
       ELSE /\ Again(count, k, streak + 1,
                     [why |-> "backoff", time |-> Backoff(streak + 1)])
            /\ UNCHANGED <<passed, method>>

\* What a redirect counts against: PoolManager uses its own Retry object if it
\* has one, and else the one the pool's urlopen ended with (response.retries).
Basis == IF passed = None THEN count ELSE passed

\* A redirect response.  303 makes the next attempt a GET.  A pool sleeps for
\* Retry-After (sleep_for_retry), a manager does not; there is no backoff.
Redirect(see_other, retryafter) ==
    /\ phase = "sending" /\ used["total"] < MaxAttempts
    /\ IF Exhausted(Incremented(Basis, "redirect"))
       THEN End(IF raise_on_redirect /\ ~NoRedirects(start) THEN "raised" ELSE "returned")
       ELSE /\ Again(Basis, "redirect", 0,
                     IF retryafter /\ ~managed THEN RetryAfter ELSE NoWait)
            /\ passed' = IF managed THEN count' ELSE passed
            /\ method' = IF see_other THEN "GET" ELSE method

\* Any other response: repeated if is_retry() says so, otherwise returned.
Status(listed, retryafter) ==
    /\ phase = "sending" /\ used["total"] < MaxAttempts
    /\ IF ~IsRetry(listed, retryafter)
       THEN End("returned")
       ELSE IF Exhausted(Incremented(count, "status"))
       THEN End(IF raise_on_status THEN "raised" ELSE "returned")
       ELSE /\ Again(count, "status", streak + 1,
                     IF retryafter /\ respect_retry_after_header THEN RetryAfter
                     ELSE [why |-> "backoff", time |-> Backoff(streak + 1)])
            /\ UNCHANGED <<passed, method>>

Next == \/ \E k \in Errors : Error(k)
        \/ \E b, r \in BOOLEAN : Redirect(b, r) \/ Status(b, r)

Spec == Init /\ [][Next]_vars

\* Every attempt ends, in a response or in an error (requests have timeouts).
FairSpec == Spec /\ WF_vars(Next)

-----------------------------------------------------------------------------
TypeOK ==
    /\ managed \in Managed
    /\ start \in Starts
    /\ count \in [Kinds -> Counter]
    /\ passed \in [Kinds -> Counter] \cup {None}
    /\ streak \in Nat
    /\ method \in Methods
    /\ used \in [Kinds -> Nat]
    /\ wait \in [why : {"backoff", "retry-after"}, time : Nat]
    /\ phase \in {"sending", "returned", "raised"}

\* What counter value c allows: a number of retries, none if it is negative or
\* False.
Allows(c, n) == CASE c = None -> TRUE
                  [] c = Disabled -> n = 0
                  [] OTHER -> n = 0 \/ n <= c

\* "Total number of retries to allow. Takes precedence over other counts": a
\* pool repeats a request at most total times, over all its causes together.
TotalRespected == ~managed => Allows(start["total"], used["total"])

\* "How many connection-related errors to retry on", and the same for each of
\* the other counts: each bounds the retries of its own cause.
CountsRespected == ~managed => \A k \in Kinds : Allows(start[k], used[k])

\* The same promise about total to the caller of a PoolManager, which redirects
\* the request from pool to pool.
TotalOverPools == Allows(start["total"], used["total"])

\* "How many redirects to perform.  Limit this to avoid infinite redirect loops":
\* also over the pools that a PoolManager sends the request through.
RedirectsRespected == Allows(start["redirect"], used["redirect"])

\* A request whose method is not in allowed_methods is not sent again once the
\* server may have acted on it: after a read error, or after a response that is
\* not a redirect.
NoUnsafeRepeat ==
    [][(used'["read"] > used["read"] \/ used'["status"] > used["status"])
          => MethodRetryable]_vars

\* With a total, or a limit for each cause, the loop ends, and so do the two
\* nested loops of a manager and its pools.
Limited == start["total"] # None \/ \A k \in Kinds \ {"total"} : start[k] # None
LoopEnds == Limited ~> phase # "sending"
==============================================================================
