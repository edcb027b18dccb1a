----------------------------- MODULE RetryProofs -----------------------------
(***************************************************************************)
(* Proofs about Retry, for any counters, methods and bound: a request is    *)
(* not repeated more often than the caller's counters allow.                *)
(***************************************************************************)
EXTENDS Retry, FiniteSetTheorems, TLAPS

\* The types of what the proofs talk about
BudgetType ==
    /\ start \in [Kinds -> Counter]
    /\ count \in [Kinds -> Counter]
    /\ passed \in [Kinds -> Counter] \cup {None}
    /\ used \in [Kinds -> Nat]

\* Counter k started as s, repeated n attempts and is now c: what was spent is
\* missing, and spending never went below zero.  (A counter that starts below
\* zero stays there until the first increment finds it exhausted.)
Spent(s, n, c) ==
    /\ s = None => c = None
    /\ s = Disabled => c = Disabled /\ n = 0
    /\ s \in Int => c \in Int /\ c = s - n /\ (n = 0 \/ c >= 0)

Budget == \A k \in Kinds : Spent(Construct(start)[k], used[k], count[k])

\* Redirects are paid from the counters that the next one counts against.
RedirectBudget ==
    Spent(Construct(start)["redirect"], used["redirect"], Basis["redirect"])

\* A manager's errors are paid from a budget that the next redirect restores,
\* so that only its redirects are bounded.
IInv == BudgetType /\ RedirectBudget /\ (~managed => passed = None /\ Budget)

LEMMA ConstructType ==
    ASSUME NEW c \in [Kinds -> Counter]
    PROVE  /\ Construct(c) \in [Kinds -> Counter]
           /\ Construct(c)["redirect"] # Disabled
           /\ \A k \in Kinds \ {"redirect"} : Construct(c)[k] = c[k]
           /\ Construct(c)["redirect"] \in {0, c["redirect"]}
BY CounterAssumption DEF Construct, NoRedirects, Kinds, Errors, Counter

LEMMA InitInv == Init => IInv
<1> SUFFICES ASSUME Init PROVE IInv
  OBVIOUS
<1>1. start \in [Kinds -> Counter]
  BY StartsAssumption DEF Init
<1>2. BudgetType
  BY <1>1, ConstructType DEF Init, BudgetType
<1>3. Budget
  BY <1>1, <1>2, ConstructType DEF Init, Budget, BudgetType, Spent, Counter
<1>4. Basis = count /\ (~managed => passed = None)
  BY DEF Init, Basis
<1> QED BY <1>2, <1>3, <1>4 DEF IInv, RedirectBudget, Budget, Kinds

LEMMA DecType == ASSUME NEW x \in Counter
                 PROVE  /\ Dec(x) \in Counter
                        /\ x = None => Dec(x) = None
                        /\ x = Disabled => Dec(x) = -1
                        /\ x \in Int => Dec(x) = x - 1
BY CounterAssumption DEF Dec, Counter

LEMMA IncrementedType ==
    ASSUME NEW c \in [Kinds -> Counter], NEW k \in Kinds \ {"total"}
    PROVE  /\ Incremented(c, k) \in [Kinds -> Counter]
           /\ Incremented(c, k)["total"] = Dec(c["total"])
           /\ Incremented(c, k)[k] = Dec(c[k])
           /\ \A j \in Kinds \ {"total", k} : Incremented(c, k)[j] = c[j]
BY DecType DEF Incremented, Kinds

\* One more retry, paid: it was not disabled, nor exhausted by the payment.
LEMMA SpendOne ==
    ASSUME NEW s \in Counter, NEW n \in Nat, NEW c \in Counter, Spent(s, n, c),
           s # Disabled, Dec(c) \in Int => Dec(c) >= 0
    PROVE  Spent(s, n + 1, Dec(c))
<1>1. CASE s = None
  BY <1>1, DecType, CounterAssumption DEF Spent
<1>2. CASE s \in Int
  <2>1. c \in Int /\ c = s - n /\ Dec(c) = c - 1
    BY <1>2, DecType DEF Spent
  <2> QED BY <1>2, <2>1, CounterAssumption DEF Spent
<1> QED BY <1>1, <1>2 DEF Counter

LEMMA NotExhausted ==
    ASSUME NEW c \in [Kinds -> Counter], ~Exhausted(c), NEW k \in Kinds, c[k] \in Int
    PROVE  c[k] >= 0
BY CounterAssumption DEF Exhausted

\* A repeated attempt spends the total and the counter of its cause.
LEMMA AgainBudget ==
    ASSUME BudgetType, Budget, NEW k \in Kinds \ {"total"},
           start' = start, count' = Incremented(count, k),
           used' = [used EXCEPT ![k] = @ + 1, !["total"] = @ + 1],
           ~Exhausted(Incremented(count, k))
    PROVE  Budget'
<1> USE DEF BudgetType
<1> DEFINE new == Incremented(count, k)
<1> DEFINE s == Construct(start)
<1>1. /\ new \in [Kinds -> Counter]
      /\ new["total"] = Dec(count["total"]) /\ new[k] = Dec(count[k])
      /\ \A j \in Kinds \ {"total", k} : new[j] = count[j]
  BY IncrementedType
<1>2. "total" \in Kinds /\ k \in Kinds
  BY DEF Kinds
<1>3. /\ used'["total"] = used["total"] + 1 /\ used'[k] = used[k] + 1
      /\ \A j \in Kinds \ {"total", k} : used'[j] = used[j]
  BY <1>2
<1>4. ASSUME NEW j \in {"total", k}
      PROVE  Spent(s[j], used[j] + 1, new[j])
  <2>1. j \in Kinds /\ Spent(s[j], used[j], count[j]) /\ used[j] \in Nat
    BY <1>2 DEF Budget
  <2>2. new[j] = Dec(count[j]) /\ count[j] \in Counter /\ s[j] \in Counter
    BY <1>1, <2>1, ConstructType
  <2>3. new[j] \in Int => new[j] >= 0
    BY <1>1, <2>1, NotExhausted
  <2>4. s[j] # Disabled
    \* decremented to -1 it would have been exhausted
    BY <2>1, <2>2, <2>3, DecType DEF Spent
  <2> QED BY <2>1, <2>2, <2>3, <2>4, SpendOne
<1>5. Construct(start)' = s
  BY DEF Construct, NoRedirects
<1>6. ASSUME NEW j \in Kinds PROVE Spent(s[j], used'[j], count'[j])
  BY <1>1, <1>3, <1>4 DEF Budget
<1> QED BY <1>5, <1>6 DEF Budget

LEMMA AgainType ==
    ASSUME BudgetType, NEW c \in [Kinds -> Counter], NEW k \in Kinds \ {"total"},
           start' = start, count' = Incremented(c, k), passed' \in {passed, count'},
           used' = [used EXCEPT ![k] = @ + 1, !["total"] = @ + 1]
    PROVE  BudgetType'
<1>1. count' \in [Kinds -> Counter]
  BY IncrementedType
<1>2. k \in Kinds /\ "total" \in Kinds
  BY DEF Kinds
<1>3. used' \in [Kinds -> Nat]
  BY <1>2 DEF BudgetType
<1> QED BY <1>1, <1>3 DEF BudgetType

LEMMA BasisType == ASSUME BudgetType PROVE Basis \in [Kinds -> Counter]
BY DEF BudgetType, Basis

\* Errors and statuses leave the redirects' budget alone.
LEMMA AgainInv ==
    ASSUME IInv, NEW k \in Kinds \ {"total", "redirect"},
           UNCHANGED <<managed, start, passed>>, count' = Incremented(count, k),
           used' = [used EXCEPT ![k] = @ + 1, !["total"] = @ + 1],
           ~Exhausted(Incremented(count, k))
    PROVE  IInv'
<1>1. BudgetType /\ BudgetType'
  BY AgainType DEF IInv, BudgetType
<1>2. "redirect" \in Kinds /\ k # "redirect"
  BY DEF Kinds
<1>3. used'["redirect"] = used["redirect"]
  BY <1>1, <1>2 DEF BudgetType
<1>4. count'["redirect"] = count["redirect"]
  BY <1>1, <1>2, IncrementedType DEF BudgetType
<1>5. Basis'["redirect"] = Basis["redirect"]
  BY <1>4 DEF Basis
<1>6. Construct(start)' = Construct(start)
  BY DEF Construct, NoRedirects
<1>7. RedirectBudget'
  BY <1>3, <1>5, <1>6 DEF IInv, RedirectBudget
<1> QED BY <1>1, <1>7, AgainBudget DEF IInv

\* A redirect spends what Basis has left.
LEMMA RedirectInv ==
    ASSUME IInv, UNCHANGED <<managed, start>>, count' = Incremented(Basis, "redirect"),
           passed' = IF managed THEN count' ELSE passed,
           used' = [used EXCEPT !["redirect"] = @ + 1, !["total"] = @ + 1],
           ~Exhausted(Incremented(Basis, "redirect"))
    PROVE  IInv'
<1>1. BudgetType /\ Basis \in [Kinds -> Counter]
  BY BasisType DEF IInv
<1>2. "redirect" \in Kinds \ {"total"} /\ "total" \in Kinds
  BY DEF Kinds
<1>3. BudgetType'
  BY <1>1, <1>2, AgainType
<1>4. Basis' = count' /\ Construct(start)' = Construct(start)
  BY DEF IInv, Basis, Construct, NoRedirects
<1>5. used'["redirect"] = used["redirect"] + 1 /\ used["redirect"] \in Nat
  BY <1>1, <1>2 DEF BudgetType
<1>6. count'["redirect"] = Dec(Basis["redirect"]) /\ count' \in [Kinds -> Counter]
  BY <1>1, <1>2, IncrementedType
<1>7. count'["redirect"] \in Int => count'["redirect"] >= 0
  BY <1>2, <1>6, NotExhausted
<1>8. /\ Construct(start)["redirect"] \in Counter \ {Disabled}
      /\ Basis["redirect"] \in Counter
  BY <1>1, <1>2, ConstructType DEF BudgetType
<1>9. RedirectBudget'
  BY <1>4, <1>5, <1>6, <1>7, <1>8, SpendOne DEF IInv, RedirectBudget
<1>10. ASSUME ~managed PROVE passed' = None /\ Budget'
  <2>1. passed = None /\ Budget /\ Basis = count
    BY <1>10 DEF IInv, Basis
  <2> QED BY <1>1, <1>2, <1>10, <2>1, AgainBudget
<1> QED BY <1>3, <1>9, <1>10 DEF IInv

LEMMA EndInv == ASSUME IInv, UNCHANGED <<managed, start, count, passed, used>> PROVE IInv'
BY DEF IInv, BudgetType, RedirectBudget, Basis, Budget, Construct, NoRedirects

LEMMA NextInv == IInv /\ [Next]_vars => IInv'
<1> SUFFICES ASSUME IInv, [Next]_vars PROVE IInv'
  OBVIOUS
<1>1. ASSUME NEW k \in Errors, Error(k) PROVE IInv'
  <2>1. k \in Kinds \ {"total", "redirect"}
    BY DEF Kinds, Errors
  <2> QED BY <1>1, <2>1, AgainInv, EndInv DEF Error, End, Again
<1>2. ASSUME NEW b \in BOOLEAN, NEW r \in BOOLEAN, Redirect(b, r) PROVE IInv'
  BY <1>2, RedirectInv, EndInv DEF Redirect, End, Again
<1>3. ASSUME NEW b \in BOOLEAN, NEW r \in BOOLEAN, Status(b, r) PROVE IInv'
  <2>1. "status" \in Kinds \ {"total", "redirect"}
    BY DEF Kinds
  <2> QED BY <1>3, <2>1, AgainInv, EndInv DEF Status, End, Again
<1>4. CASE UNCHANGED vars
  BY <1>4, EndInv DEF vars
<1> QED BY <1>1, <1>2, <1>3, <1>4 DEF Next

LEMMA Invariance == Spec => []IInv
BY InitInv, NextInv, PTL DEF Spec

\* What a counter's budget means for the caller's setting of it.
LEMMA SpentAllows ==
    ASSUME BudgetType, NEW k \in Kinds, NEW c, Spent(Construct(start)[k], used[k], c)
    PROVE  Allows(start[k], used[k])
<1>1. start \in [Kinds -> Counter] /\ start[k] \in Counter /\ used[k] \in Nat
  BY DEF BudgetType
<1>2. CASE Construct(start)[k] = start[k]
  BY <1>1, <1>2, CounterAssumption DEF Allows, Spent, Counter
<1>3. CASE Construct(start)[k] # start[k]
  <2>1. Construct(start)[k] = 0
    BY <1>1, <1>3, ConstructType
  <2>2. used[k] = 0
    BY <1>1, <2>1 DEF Spent
  <2> QED BY <1>1, <2>2, CounterAssumption DEF Allows, Counter
<1> QED BY <1>2, <1>3

\* Whoever follows the redirects, they are bounded by the caller's limit.
THEOREM RedirectsAreRespected == Spec => []RedirectsRespected
<1>1. IInv => RedirectsRespected
  BY SpentAllows DEF IInv, RedirectBudget, RedirectsRespected, Kinds
<1> QED BY <1>1, Invariance, PTL

\* Whatever limits the caller sets, each cause of a retry is bounded by its own
\* (without a manager, which starts again after a redirect).
THEOREM CountsAreRespected == Spec => []CountsRespected
<1>1. IInv => CountsRespected
  BY SpentAllows DEF IInv, Budget, CountsRespected
<1> QED BY <1>1, Invariance, PTL

\* Without a manager, a request is repeated at most total times, over all
\* causes together.
THEOREM TotalIsRespected == Spec => []TotalRespected
<1>1. CountsRespected => TotalRespected
  BY DEF CountsRespected, TotalRespected, Kinds
<1> QED BY <1>1, CountsAreRespected, PTL

\* get_backoff_time() is a number of seconds, whatever the factor and the maximum:
\* a power of 2 counts the subsets of a set.
LEMMA BackoffType == ASSUME NEW n \in Nat PROVE Backoff(n) \in Nat
<1>1. CASE n <= 1
  BY <1>1 DEF Backoff
<1>2. CASE n > 1
  <2>1. IsFiniteSet(1..(n - 1)) /\ Cardinality(1..(n - 1)) = n - 1
    BY <1>2, FS_Interval
  <2>2. 2^(n - 1) \in Nat
    BY <2>1, FS_SUBSET, FS_CardinalityType
  <2>3. ASSUME NEW m \in Nat PROVE backoff_factor * m \in Nat
    BY <2>3, BoundsAssumption
  <2> QED BY <1>2, <2>2, <2>3, BoundsAssumption DEF Backoff
<1> QED BY <1>1, <1>2

\* What the proofs above leave out of the state's type
OtherType ==
    /\ managed \in Managed
    /\ start \in Starts
    /\ streak \in Nat
    /\ method \in Methods
    /\ wait \in [why : {"backoff", "retry-after"}, time : Nat]
    /\ phase \in {"sending", "returned", "raised"}

LEMMA OtherTypeInit == Init => OtherType
BY DEF Init, OtherType, NoWait

LEMMA OtherTypeNext == OtherType /\ [Next]_vars => OtherType'
<1> SUFFICES ASSUME OtherType, [Next]_vars PROVE OtherType'
  OBVIOUS
<1> USE DEF OtherType
<1>1. NoWait \in [why : {"backoff", "retry-after"}, time : Nat]
      /\ RetryAfter \in [why : {"backoff", "retry-after"}, time : Nat]
      /\ [why |-> "backoff", time |-> Backoff(streak + 1)]
           \in [why : {"backoff", "retry-after"}, time : Nat]
  BY BackoffType DEF NoWait, RetryAfter
<1>2. ASSUME NEW k \in Errors, Error(k) PROVE OtherType'
  BY <1>1, <1>2 DEF Error, End, Again
<1>3. ASSUME NEW b \in BOOLEAN, NEW r \in BOOLEAN, Redirect(b, r) PROVE OtherType'
  BY <1>1, <1>3, MethodsAssumption DEF Redirect, End, Again
<1>4. ASSUME NEW b \in BOOLEAN, NEW r \in BOOLEAN, Status(b, r) PROVE OtherType'
  BY <1>1, <1>4 DEF Status, End, Again
<1>5. CASE UNCHANGED vars
  BY <1>5 DEF vars
<1> QED BY <1>2, <1>3, <1>4, <1>5 DEF Next

\* Every variable of the loop keeps its type: no counter turns into something that
\* increment() and is_exhausted() do not expect.
THEOREM TypeCorrect == Spec => []TypeOK
<1>1. Spec => []OtherType
  BY OtherTypeInit, OtherTypeNext, PTL DEF Spec
<1>2. IInv /\ OtherType => TypeOK
  BY DEF IInv, BudgetType, OtherType, TypeOK
<1> QED BY <1>1, <1>2, Invariance, PTL

\* A request whose method is not to be repeated is not sent again after a read
\* error or because of a response that is not a redirect: what an attempt is
\* repeated for is either neither of them, or increment() and is_retry() have
\* looked at the method.
THEOREM UnsafeIsNotRepeated == Spec => NoUnsafeRepeat
<1> DEFINE Safe == (used'["read"] > used["read"] \/ used'["status"] > used["status"])
                      => MethodRetryable
<1>1. IInv /\ [Next]_vars => [Safe]_vars
  <2> SUFFICES ASSUME IInv, [Next]_vars PROVE Safe \/ UNCHANGED vars
    OBVIOUS
  <2>1. used \in [Kinds -> Nat]
    BY DEF IInv, BudgetType
  <2>2. {"read", "status", "total", "redirect"} \subseteq Kinds /\ Errors \subseteq Kinds
        /\ "status" \notin Errors
    BY DEF Kinds, Errors
  <2>3. UNCHANGED used => Safe
    BY <2>1, <2>2
  <2>4. ASSUME NEW k \in Kinds \ {"read", "status"}, NEW c, NEW n, NEW w, Again(c, k, n, w)
        PROVE  Safe
    BY <2>1, <2>2, <2>4 DEF Again
  <2>5. ASSUME NEW k \in Errors, Error(k) PROVE Safe
    <3>1. CASE k = "read"
      <4>1. MethodRetryable \/ UNCHANGED used
        BY <2>5, <3>1 DEF Error, End, Reraised
      <4> QED BY <4>1, <2>3
    <3>2. CASE k # "read"
      <4>1. k \in Kinds \ {"read", "status"}
        BY <2>2, <3>2
      <4> QED BY <2>3, <2>4, <2>5, <4>1 DEF Error, End
    <3> QED BY <3>1, <3>2
  <2>6. ASSUME NEW b \in BOOLEAN, NEW r \in BOOLEAN, Redirect(b, r) PROVE Safe
    BY <2>2, <2>3, <2>4, <2>6 DEF Redirect, End
  <2>7. ASSUME NEW b \in BOOLEAN, NEW r \in BOOLEAN, Status(b, r) PROVE Safe
    <3>1. MethodRetryable \/ UNCHANGED used
      BY <2>7 DEF Status, End, IsRetry
    <3> QED BY <3>1, <2>3
  <2> QED BY <2>5, <2>6, <2>7 DEF Next
<1> QED BY <1>1, Invariance, PTL DEF Spec, NoUnsafeRepeat
================================================================================
