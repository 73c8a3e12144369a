--------------------------- MODULE CadenceProofs ----------------------------
(***************************************************************************)
(* The probes of the active collectors.  The first part is about the       *)
(* budget, whoever asks it and when; the second about the cadence in       *)
(* front of it, which implements the first: any configuration that is      *)
(* accepted starves no collector, and a suspicion is answered.             *)
(***************************************************************************)
EXTENDS Cadence, TLAPS, WellFoundedInduction

(***************************************************************************)
(* For all capacities, periods, costs and numbers of collectors: the rate  *)
(* of each bucket holds over every window of time, and a pause lets each   *)
(* collector send one more probe at most.                                  *)
(***************************************************************************)
\* What the constants of one bucket and of one collector are.
LEMMA ConstantFacts ==
  ASSUME NEW c \in Collectors
  PROVE  /\ Kind[c] \in Kinds
         /\ Cost[c] \in Nat \ {0}
         /\ Targets[c] \in Nat \ {0}
BY BudgetAssumption

\* What a full bucket holds.
LEMMA BucketFacts ==
  ASSUME NEW k \in Kinds
  PROVE  /\ Capacity[k] \in Nat \ {0}
         /\ Period[k] \in Nat \ {0}
         /\ Full(k) \in Nat
BY BudgetAssumption DEF Full

\* A product of naturals is one: the arithmetic of a refill.
LEMMA ProductNat == \A m, n \in Nat : m * n \in Nat
OBVIOUS

\* A refill never takes tokens away and never overfills the bucket.
LEMMA RefilledFacts ==
  ASSUME TypeOK, NEW k \in Kinds
  PROVE  /\ Refilled(k) \in Nat
         /\ Refilled(k) <= Full(k)
         /\ Refilled(k) <= tokens[k] + (now - last[k]) * Capacity[k]
<1> DEFINE grown == tokens[k] + (now - last[k]) * Capacity[k]
<1>1. tokens[k] \in Nat /\ now - last[k] \in Nat
  BY DEF TypeOK
<1>2. (now - last[k]) * Capacity[k] \in Nat
  BY <1>1, BucketFacts, ProductNat
<1>3. grown \in Nat
  BY <1>1, <1>2
<1>4. Full(k) \in Nat
  BY BucketFacts
<1> HIDE DEF grown
<1>5. (IF grown < Full(k) THEN grown ELSE Full(k)) \in Nat
  BY <1>3, <1>4
<1>6. (IF grown < Full(k) THEN grown ELSE Full(k)) <= Full(k)
  BY <1>3, <1>4
<1>7. (IF grown < Full(k) THEN grown ELSE Full(k)) <= grown
  BY <1>3, <1>4
<1>8. Refilled(k) = IF grown < Full(k) THEN grown ELSE Full(k)
  BY DEF Refilled, grown
<1>. QED BY <1>5, <1>6, <1>7, <1>8 DEF grown

-----------------------------------------------------------------------------
\* The full buckets, idle collectors and open window of the start are well typed.
LEMMA InitType == Init => TypeOK
<1> SUFFICES ASSUME Init PROVE TypeOK
  OBVIOUS
<1>1. ASSUME NEW k \in Kinds
      PROVE  /\ tokens[k] \in Nat /\ tokens[k] <= Full(k)
             /\ last[k] = 0 /\ spent[k] = 0
  <2>1. tokens[k] = Full(k) /\ last[k] = 0 /\ spent[k] = 0
    BY DEF Init
  <2>. QED BY <2>1, BucketFacts
<1>2. /\ tokens \in [Kinds -> Nat] /\ last \in [Kinds -> Nat] /\ spent \in [Kinds -> Nat]
  <2>1. tokens = [k \in Kinds |-> tokens[k]]
    BY DEF Init
  <2>. QED BY <1>1, <2>1 DEF Init
<1>3. now \in Nat /\ mark \in 0 .. now /\ \A k \in Kinds : last[k] <= now
  <2>1. now = 0 /\ mark = 0
    BY DEF Init
  <2>. QED BY <1>1, <2>1
<1>4. /\ paused \in BOOLEAN
      /\ at \in [Collectors -> {"idle", "probe", "ask", "send"}]
      /\ \A c \in Collectors : at[c] = "idle"
      /\ left \in [Collectors -> Nat] /\ late \in [Collectors -> Nat]
  BY DEF Init
<1>. QED BY <1>1, <1>2, <1>3, <1>4 DEF TypeOK

\* A bucket written back with what a refill, less what is taken, leaves in it.
LEMMA TouchType ==
  ASSUME TypeOK, NEW k \in Kinds, NEW n \in Nat, n <= Refilled(k),
         tokens' = [tokens EXCEPT ![k] = n], last' = [last EXCEPT ![k] = now]
  PROVE  /\ tokens' \in [Kinds -> Nat]
         /\ \A j \in Kinds : tokens'[j] <= Full(j)
         /\ last' \in [Kinds -> Nat]
         /\ \A j \in Kinds : last'[j] <= now
<1>1. Refilled(k) \in Nat /\ Refilled(k) <= Full(k) /\ Full(k) \in Nat
  BY RefilledFacts, BucketFacts
<1>2. n <= Full(k)
  BY <1>1
<1>. QED BY <1>2 DEF TypeOK

\* Going on to the next target keeps the types of a collect under way.
LEMMA NextTargetType ==
  ASSUME TypeOK, NEW c \in Collectors, at[c] # "idle", NextTarget(c)
  PROVE  /\ at' \in [Collectors -> {"idle", "probe", "ask", "send"}]
         /\ left' \in [Collectors -> Nat]
         /\ \A d \in Collectors : at'[d] # "idle" => left'[d] > 0
<1>1. left[c] \in Nat /\ left[c] > 0
  BY DEF TypeOK
<1>. QED BY <1>1 DEF TypeOK, NextTarget

\* Every step of the program and of the observer keeps every type.
LEMMA StepType == TypeOK /\ [Next]_vars => TypeOK'
<1> SUFFICES ASSUME TypeOK, [Next]_vars PROVE TypeOK'
  OBVIOUS
<1>1. ASSUME NEW c \in Collectors, Collect(c) PROVE TypeOK'
  BY <1>1, ConstantFacts DEF Collect, TypeOK, bucketVars
<1>2. ASSUME NEW c \in Collectors, AskPaused(c) PROVE TypeOK'
  BY <1>2, NextTargetType DEF AskPaused, TypeOK, bucketVars
<1>3. ASSUME NEW c \in Collectors, Ask(c) PROVE TypeOK'
  BY <1>3 DEF Ask, TypeOK, bucketVars
<1>4. ASSUME NEW c \in Collectors, Grant(c) PROVE TypeOK'
  <2> DEFINE k == Kind[c]
             n == Refilled(k) - Cost[c] * Period[k]
  <2>1. k \in Kinds /\ Cost[c] \in Nat /\ Period[k] \in Nat
    BY ConstantFacts, BucketFacts
  <2>2. Cost[c] * Period[k] \in Nat
    BY <2>1, ProductNat
  <2>3. Refilled(k) \in Nat /\ Refilled(k) >= Cost[c] * Period[k]
    BY <1>4, <2>1, RefilledFacts DEF Grant
  <2>4. n \in Nat /\ n <= Refilled(k)
    BY <2>2, <2>3
  <2>5. tokens' = [tokens EXCEPT ![k] = n] /\ last' = [last EXCEPT ![k] = now]
    BY <1>4 DEF Grant
  <2> HIDE DEF n
  <2>6. /\ tokens' \in [Kinds -> Nat] /\ \A j \in Kinds : tokens'[j] <= Full(j)
        /\ last' \in [Kinds -> Nat] /\ \A j \in Kinds : last'[j] <= now
    BY <2>1, <2>4, <2>5, TouchType
  <2>7. spent' \in [Kinds -> Nat]
    BY <1>4, <2>1 DEF Grant, TypeOK
  <2>8. at' \in [Collectors -> {"idle", "probe", "ask", "send"}]
        /\ \A d \in Collectors : at'[d] # "idle" => left'[d] > 0
    BY <1>4 DEF Grant, TypeOK
  <2>9. UNCHANGED <<now, paused, left, mark, late>>
    BY <1>4 DEF Grant
  <2>. QED BY <2>6, <2>7, <2>8, <2>9 DEF TypeOK, Full
<1>5. ASSUME NEW c \in Collectors, Deny(c) PROVE TypeOK'
  <2> DEFINE k == Kind[c]
  <2>1. k \in Kinds
    BY ConstantFacts
  <2>2. Refilled(k) \in Nat /\ Refilled(k) <= Refilled(k)
    BY <2>1, RefilledFacts
  <2>3. tokens' = [tokens EXCEPT ![k] = Refilled(k)] /\ last' = [last EXCEPT ![k] = now]
    BY <1>5 DEF Deny
  <2>4. /\ tokens' \in [Kinds -> Nat] /\ \A j \in Kinds : tokens'[j] <= Full(j)
        /\ last' \in [Kinds -> Nat] /\ \A j \in Kinds : last'[j] <= now
    BY <2>1, <2>2, <2>3, TouchType
  <2>5. at[c] # "idle" /\ NextTarget(c)
    BY <1>5 DEF Deny
  <2>6. UNCHANGED <<now, spent, paused, mark, late>>
    BY <1>5 DEF Deny
  <2>. QED BY <2>4, <2>5, <2>6, NextTargetType DEF TypeOK, Full
<1>6. ASSUME NEW c \in Collectors, Send(c) PROVE TypeOK'
  BY <1>6, NextTargetType DEF Send, TypeOK, bucketVars
<1>7. ASSUME NEW k \in Kinds, Available(k) PROVE TypeOK'
  <2>1. Refilled(k) \in Nat /\ Refilled(k) <= Refilled(k)
    BY <1>7, RefilledFacts
  <2>2. tokens' = [tokens EXCEPT ![k] = Refilled(k)] /\ last' = [last EXCEPT ![k] = now]
    BY <1>7 DEF Available
  <2>3. /\ tokens' \in [Kinds -> Nat] /\ \A j \in Kinds : tokens'[j] <= Full(j)
        /\ last' \in [Kinds -> Nat] /\ \A j \in Kinds : last'[j] <= now
    BY <1>7, <2>1, <2>2, TouchType
  <2>. QED BY <1>7, <2>3 DEF Available, TypeOK, Full
<1>8. CASE Pause
  BY <1>8 DEF Pause, TypeOK, bucketVars
<1>9. CASE Resume
  BY <1>9 DEF Resume, TypeOK, bucketVars
<1>10. CASE Advance
  BY <1>10 DEF Advance, TypeOK, bucketVars
<1>11. CASE Mark
  BY <1>11 DEF Mark, TypeOK
<1>12. CASE UNCHANGED vars
  BY <1>12 DEF vars, bucketVars, TypeOK
<1>. QED BY <1>1, <1>2, <1>3, <1>4, <1>5, <1>6, <1>7, <1>8, <1>9, <1>10, <1>11, <1>12
         DEF Next, Collector

\* The buckets and the collectors are well typed in every reachable state, and no
\* bucket holds more than its capacity.
THEOREM TypeCorrect == Spec => []TypeOK
BY InitType, StepType, PTL DEF Spec

-----------------------------------------------------------------------------
(***************************************************************************)
(* The inductive invariant behind RateEnforced.  What a bucket has granted *)
(* since the mark and what it still holds came out of one full bucket and  *)
(* the refill between the mark and its last update.  A bucket not updated  *)
(* since the mark has granted nothing.                                     *)
(***************************************************************************)
Balance(k) ==
  IF last[k] >= mark
    THEN spent[k] * Period[k] + tokens[k] <= Full(k) + (last[k] - mark) * Capacity[k]
    ELSE spent[k] = 0

BalanceOK == \A k \in Kinds : Balance(k)

\* Refilling a bucket now keeps its balance.
LEMMA RefillBalance ==
  ASSUME TypeOK, NEW k \in Kinds, Balance(k)
  PROVE  spent[k] * Period[k] + Refilled(k) <= Full(k) + (now - mark) * Capacity[k]
<1> DEFINE C == Capacity[k]
           S == spent[k] * Period[k]
           a == last[k] - mark
           b == now - last[k]
<1>1. /\ C \in Nat /\ Full(k) \in Nat /\ tokens[k] \in Nat
      /\ last[k] \in Nat /\ mark \in Nat /\ now \in Nat /\ last[k] <= now /\ mark <= now
      /\ spent[k] \in Nat /\ Period[k] \in Nat
  BY BucketFacts DEF TypeOK
<1>2. S \in Nat
  BY <1>1, ProductNat
<1>3. Refilled(k) \in Nat /\ Refilled(k) <= Full(k) /\ Refilled(k) <= tokens[k] + b * C
  BY RefilledFacts
<1>4. CASE last[k] >= mark
  <2>1. a \in Nat /\ b \in Nat /\ now - mark = a + b
    BY <1>1, <1>4
  <2>2. S + tokens[k] <= Full(k) + a * C
    BY <1>4 DEF Balance
  <2> HIDE DEF S, a, b, C
  <2>3. a * C \in Nat /\ b * C \in Nat /\ (a + b) * C = a * C + b * C
    BY <1>1, <2>1
  <2>4. S + Refilled(k) <= Full(k) + (a + b) * C
    BY <1>1, <1>2, <1>3, <2>2, <2>3
  <2>. QED BY <2>1, <2>4 DEF S, C
<1>5. CASE ~(last[k] >= mark)
  <2>1. S = 0
    BY <1>1, <1>5 DEF Balance
  <2>2. (now - mark) * C \in Nat
    <3>1. now - mark \in Nat
      BY <1>1
    <3>. QED BY <1>1, <3>1, ProductNat
  <2> HIDE DEF S, C
  <2>3. S + Refilled(k) <= Full(k) + (now - mark) * C
    BY <1>1, <1>3, <2>1, <2>2
  <2>. QED BY <2>3 DEF S, C
<1>. QED BY <1>4, <1>5

\* The balance implies the rate.
LEMMA BalanceRate == TypeOK /\ BalanceOK => RateEnforced
<1> SUFFICES ASSUME TypeOK, BalanceOK, NEW k \in Kinds
             PROVE  spent[k] * Period[k] <= Capacity[k] * (Period[k] + (now - mark))
  BY DEF RateEnforced
<1> DEFINE w == now - mark
<1>1. spent[k] * Period[k] + Refilled(k) <= Full(k) + w * Capacity[k]
  BY RefillBalance DEF BalanceOK
<1>2. /\ Capacity[k] \in Nat /\ Period[k] \in Nat /\ spent[k] \in Nat
      /\ w \in Nat /\ Refilled(k) \in Nat
  BY BucketFacts, RefilledFacts DEF TypeOK
<1> HIDE DEF w
<1>3. /\ spent[k] * Period[k] \in Nat
      /\ Full(k) + w * Capacity[k] = Capacity[k] * (Period[k] + w)
      /\ Full(k) + w * Capacity[k] \in Nat
  BY <1>2 DEF Full
<1>4. spent[k] * Period[k] <= Capacity[k] * (Period[k] + w)
  BY <1>1, <1>2, <1>3
<1>. QED BY <1>4 DEF w

\* Every step keeps the balance of every bucket.
LEMMA StepBalance == TypeOK /\ BalanceOK /\ [Next]_vars => BalanceOK'
<1> SUFFICES ASSUME TypeOK, BalanceOK, [Next]_vars, NEW j \in Kinds PROVE Balance(j)'
  BY DEF BalanceOK
<1>a. Balance(j) /\ last[j] \in Nat /\ mark \in Nat /\ now \in Nat /\ last[j] <= now /\ mark <= now
  BY DEF BalanceOK, TypeOK
<1>b. ASSUME UNCHANGED <<bucketVars, mark>> PROVE Balance(j)'
  BY <1>a, <1>b DEF Balance, bucketVars, Full
<1>c. ASSUME NEW k \in Kinds, k # j, NEW x, NEW y,
             tokens' = [tokens EXCEPT ![k] = x], last' = [last EXCEPT ![k] = now],
             spent' = spent \/ spent' = [spent EXCEPT ![k] = y], mark' = mark
      PROVE  Balance(j)'
  <2>1. tokens'[j] = tokens[j] /\ last'[j] = last[j] /\ spent'[j] = spent[j]
    BY <1>c DEF TypeOK
  <2>. QED BY <1>a, <1>c, <2>1 DEF Balance, Full
<1>d. ASSUME tokens' = [tokens EXCEPT ![j] = Refilled(j)], last' = [last EXCEPT ![j] = now],
             spent' = spent, mark' = mark
      PROVE  Balance(j)'
  <2>1. tokens'[j] = Refilled(j) /\ last'[j] = now /\ spent'[j] = spent[j]
    BY <1>d DEF TypeOK
  <2>2. spent[j] * Period[j] + Refilled(j) <= Full(j) + (now - mark) * Capacity[j]
    BY <1>a, RefillBalance
  <2>. QED BY <1>a, <1>d, <2>1, <2>2 DEF Balance, Full
<1>1. ASSUME NEW c \in Collectors, Collect(c) \/ AskPaused(c) \/ Ask(c) \/ Send(c)
      PROVE  Balance(j)'
  BY <1>1, <1>b DEF Collect, AskPaused, Ask, Send
<1>2. ASSUME NEW c \in Collectors, Grant(c) PROVE Balance(j)'
  <2> DEFINE k == Kind[c]
             p == Cost[c] * Period[k]
  <2>1. k \in Kinds /\ Cost[c] \in Nat /\ Period[k] \in Nat
    BY ConstantFacts, BucketFacts
  <2>2. CASE k # j
    BY <1>2, <1>c, <2>1, <2>2 DEF Grant
  <2>3. CASE k = j
    <3>1. tokens'[j] = Refilled(j) - p /\ last'[j] = now /\ spent'[j] = spent[j] + Cost[c]
      BY <1>2, <2>1, <2>3 DEF Grant, TypeOK
    <3>2. spent[j] * Period[j] + Refilled(j) <= Full(j) + (now - mark) * Capacity[j]
      BY <1>a, RefillBalance
    <3>3. spent[j] \in Nat /\ Refilled(j) \in Nat /\ Full(j) \in Nat /\ Capacity[j] \in Nat
      BY RefilledFacts, BucketFacts DEF TypeOK
    <3>4. (spent[j] + Cost[c]) * Period[j] = spent[j] * Period[j] + p
          /\ p \in Nat /\ spent[j] * Period[j] \in Nat
      BY <2>1, <2>3, <3>3
    <3>5. now - mark \in Nat /\ (now - mark) * Capacity[j] \in Nat
      BY <1>a, <3>3, ProductNat
    <3> HIDE DEF p
    <3>6. (spent[j] + Cost[c]) * Period[j] + (Refilled(j) - p)
            <= Full(j) + (now - mark) * Capacity[j]
      BY <3>2, <3>3, <3>4, <3>5
    <3>7. mark' = mark
      BY <1>2 DEF Grant
    <3>. QED BY <1>a, <3>1, <3>6, <3>7 DEF Balance, Full
  <2>. QED BY <2>2, <2>3
<1>3. ASSUME NEW c \in Collectors, Deny(c) PROVE Balance(j)'
  <2>1. Kind[c] \in Kinds
    BY ConstantFacts
  <2>2. CASE Kind[c] # j
    BY <1>3, <1>c, <2>1, <2>2 DEF Deny
  <2>3. CASE Kind[c] = j
    BY <1>3, <1>d, <2>3 DEF Deny
  <2>. QED BY <2>2, <2>3
<1>4. ASSUME NEW k \in Kinds, Available(k) PROVE Balance(j)'
  <2>1. CASE k # j
    BY <1>4, <1>c, <2>1 DEF Available
  <2>2. CASE k = j
    BY <1>4, <1>d, <2>2 DEF Available
  <2>. QED BY <2>1, <2>2
<1>5. CASE Pause \/ Resume \/ Advance \/ UNCHANGED vars
  BY <1>5, <1>b DEF Pause, Resume, Advance, vars
<1>6. CASE Mark
  <2>1. /\ mark' = now /\ spent'[j] = 0 /\ last' = last /\ tokens' = tokens
    BY <1>6 DEF Mark
  <2>2. tokens[j] \in Nat /\ tokens[j] <= Full(j) /\ Period[j] \in Nat
        /\ Capacity[j] \in Nat /\ Full(j) \in Nat
    BY BucketFacts DEF TypeOK
  <2>3. CASE last[j] = now
    <3>1. 0 * Period[j] + tokens[j] <= Full(j) + (now - now) * Capacity[j]
      BY <1>a, <2>2
    <3>2. last'[j] >= mark' /\ Full(j)' = Full(j)
      BY <1>a, <2>1, <2>3 DEF Full
    <3>. QED BY <2>1, <2>3, <3>1, <3>2 DEF Balance
  <2>4. CASE last[j] # now
    <3>1. ~(last'[j] >= mark')
      BY <1>a, <2>1, <2>4
    <3>. QED BY <2>1, <3>1 DEF Balance
  <2>. QED BY <2>3, <2>4
<1>. QED BY <1>1, <1>2, <1>3, <1>4, <1>5, <1>6 DEF Next, Collector

\* For every configuration, over every window of time, each bucket grants at
\* most one burst and its rate.
THEOREM RateCorrect == Spec => []RateEnforced
<1>1. Init => BalanceOK
  <2> SUFFICES ASSUME Init, NEW k \in Kinds PROVE Balance(k)
    BY DEF BalanceOK
  <2>1. last[k] = 0 /\ mark = 0 /\ spent[k] = 0 /\ tokens[k] = Full(k)
    BY DEF Init
  <2>2. Full(k) \in Nat /\ Period[k] \in Nat /\ Capacity[k] \in Nat
    BY BucketFacts
  <2>3. 0 * Period[k] + Full(k) <= Full(k) + (0 - 0) * Capacity[k]
    BY <2>2
  <2>. QED BY <2>1, <2>3 DEF Balance
<1>2. TypeOK /\ BalanceOK /\ [Next]_vars => BalanceOK'
  BY StepBalance
<1>. QED BY <1>1, <1>2, TypeCorrect, BalanceRate, PTL DEF Spec

-----------------------------------------------------------------------------
\* A collector that has sent a probe during this pause is past the acquisition
\* it was in when the pause came, and the pause stops the next one.
LateOK ==
  \A c \in Collectors :
    /\ late[c] \in {0, 1}
    /\ late[c] = 1 => paused /\ at[c] \in {"idle", "probe"}

\* Every step keeps it.
LEMMA StepLate == TypeOK /\ LateOK /\ [Next]_vars => LateOK'
<1> SUFFICES ASSUME TypeOK, LateOK, [Next]_vars, NEW d \in Collectors
             PROVE  late'[d] \in {0, 1} /\ (late'[d] = 1 => paused' /\ at'[d] \in {"idle", "probe"})
  BY DEF LateOK
<1>a. late[d] \in {0, 1} /\ (late[d] = 1 => paused /\ at[d] \in {"idle", "probe"})
  BY DEF LateOK
<1>1. ASSUME NEW c \in Collectors, Collect(c) \/ AskPaused(c) \/ Ask(c) \/ Grant(c) \/ Deny(c)
      PROVE  late'[d] \in {0, 1} /\ (late'[d] = 1 => paused' /\ at'[d] \in {"idle", "probe"})
  BY <1>a, <1>1 DEF Collect, AskPaused, Ask, Grant, Deny, NextTarget, TypeOK
<1>2. ASSUME NEW c \in Collectors, Send(c)
      PROVE  late'[d] \in {0, 1} /\ (late'[d] = 1 => paused' /\ at'[d] \in {"idle", "probe"})
  <2>1. late[c] = 0 /\ at[c] = "send"
    BY <1>2 DEF Send, LateOK
  <2>2. CASE c = d
    BY <1>2, <2>1, <2>2 DEF Send, NextTarget, TypeOK
  <2>3. CASE c # d
    BY <1>2, <1>a, <2>3 DEF Send, NextTarget, TypeOK
  <2>. QED BY <2>2, <2>3
<1>3. CASE \E k \in Kinds : Available(k)
  BY <1>3, <1>a DEF Available
<1>4. CASE Pause \/ Resume \/ Advance \/ Mark \/ UNCHANGED vars
  BY <1>4, <1>a DEF Pause, Resume, Advance, Mark, vars
<1>. QED BY <1>1, <1>2, <1>3, <1>4 DEF Next, Collector

\* However many collectors and targets there are, each collector sends at most
\* one probe after a pause.
THEOREM PauseCorrect == Spec => []AtMostOneLateProbe
<1>1. Init => LateOK
  BY DEF Init, LateOK
<1>2. TypeOK /\ LateOK /\ [Next]_vars => LateOK'
  BY StepLate
<1>3. LateOK => AtMostOneLateProbe
  BY DEF LateOK, AtMostOneLateProbe
<1>. QED BY <1>1, <1>2, <1>3, TypeCorrect, PTL DEF Spec

-----------------------------------------------------------------------------
\* What is switched on, and how often, is settled when the program starts.
Configured == enabled \subseteq Collectors /\ interval \in [Collectors -> Nat \ {0}] /\ Accepts(interval)

\* Whatever is loaded is a configuration: defaults fill what nobody set.
LEMMA InitConfigured == CadenceInit => Configured
<1> SUFFICES ASSUME CadenceInit PROVE Configured
  OBVIOUS
<1>1. enabled \subseteq Collectors
  BY CadenceAssumption DEF CadenceInit
<1>2. PICK file \in Files, env \in Environments : interval = Merged(file, env) /\ Accepts(interval)
  BY DEF CadenceInit
<1>3. /\ env \in [DOMAIN env -> Nat \ {0}] /\ file \in [DOMAIN file -> Nat \ {0}]
      /\ Default \in [Collectors -> Nat \ {0}]
  BY CadenceAssumption
<1>4. Merged(file, env) \in [Collectors -> Nat \ {0}]
  BY <1>3 DEF Merged
<1>. QED BY <1>1, <1>2, <1>4 DEF Configured

\* No step changes the configuration.
LEMMA StepConfigured == [CadenceNext]_cadenceVars => UNCHANGED configVars
BY DEF CadenceNext, Begin, SkipRound, Probe, Finish, Score, Elapse, Unrelated, cadenceVars

\* So it is one throughout.
LEMMA AlwaysConfigured == CadenceSpec => []Configured
<1>1. Configured /\ UNCHANGED configVars => Configured'
  BY DEF Configured, configVars, Accepts
<1>. QED BY <1>1, InitConfigured, StepConfigured, PTL DEF CadenceSpec

\* Every step of a collector that is on time is one of the budget's, or skips it.
LEMMA CadenceIsBudget == Configured /\ [CadenceNext]_cadenceVars => [Next]_vars
<1> SUFFICES ASSUME Configured, [CadenceNext]_cadenceVars PROVE [Next]_vars
  OBVIOUS
<1>1. ASSUME NEW c \in Collectors, Begin(c) PROVE Next
  BY <1>1 DEF Begin, Next, Collector
<1>2. ASSUME NEW c \in Collectors, SkipRound(c) PROVE UNCHANGED vars
  BY <1>2 DEF SkipRound
<1>3. ASSUME NEW c \in Collectors, NEW ok \in BOOLEAN, Probe(c, ok) PROVE Next
  BY <1>3 DEF Probe, Next, Collector
<1>4. ASSUME NEW s \in {0, Watch, Critical}, Score(s) PROVE UNCHANGED vars
  BY <1>4 DEF Score
<1>5. CASE Elapse
  BY <1>5 DEF Elapse, Next
<1>6. CASE Unrelated /\ (Pause \/ Resume \/ Mark)
  BY <1>6 DEF Next
<1>7. ASSUME NEW c \in enabled, Available(Kind[c]) PROVE Next
  BY <1>7, ConstantFacts DEF Configured, Next
<1>8. CASE UNCHANGED cadenceVars
  BY <1>8 DEF cadenceVars
<1>. QED BY <1>1, <1>2, <1>3, <1>4, <1>5, <1>6, <1>7, <1>8 DEF CadenceNext

\* The collectors with their cadence implement the budget without one: what is
\* proved of the rate and of the pause holds whatever wakes a collector.
THEOREM CadenceImplementsBudget == CadenceSpec => Spec
<1>1. CadenceInit => Init
  BY DEF CadenceInit
<1>. QED BY <1>1, AlwaysConfigured, CadenceIsBudget, PTL DEF CadenceSpec, Spec

-----------------------------------------------------------------------------
\* The last suspicion that was acted on lies less than a cooldown behind the last
\* rise, and who is not woken has begun since.
Answered ==
  /\ now \in Nat /\ rose \in Nat \cup {Never} /\ suspected \in Nat \cup {Never}
  /\ began \in [Collectors -> Nat \cup {Never}]
  /\ rose # Never =>
       /\ suspected # Never /\ suspected <= rose /\ rose <= now /\ rose - suspected < Cooldown
       /\ \A c \in Pulled : c \notin woken => began[c] >= suspected
  /\ rose = Never => suspected = Never

\* A rise of severity that is acted on wakes everyone; one that is not lies
\* within the cooldown of one that was.
LEMMA ScoreAnswers ==
  ASSUME Answered, NEW s \in {0, Watch, Critical}, Score(s)
  PROVE  Answered'
<1>1. /\ UNCHANGED <<now, began>> /\ Suspect(s) /\ now \in Nat /\ now # Never
  BY DEF Score, vars, roundVars, Answered, Never
<1>2. CASE UNCHANGED <<suspected, woken, rose>>
  BY <1>1, <1>2 DEF Answered
<1>3. CASE rose' = now /\ UNCHANGED <<suspected, woken>> /\ CoolingDown
  BY <1>1, <1>3 DEF Answered, CoolingDown
<1>4. CASE rose' = now /\ suspected' = now /\ woken' = woken \cup Pulled
  BY <1>1, <1>4, CadenceAssumption DEF Answered
<1>. QED BY <1>1, <1>2, <1>3, <1>4 DEF Suspect

\* Every other step leaves severity alone, and a round begins no earlier than
\* now.
LEMMA AnsweredStep == Answered /\ [CadenceNext]_cadenceVars => Answered'
<1> SUFFICES ASSUME Answered, [CadenceNext]_cadenceVars PROVE Answered'
  OBVIOUS
<1>1. ASSUME NEW c \in Collectors, Begin(c) \/ SkipRound(c) PROVE Answered'
  <2>1. /\ now' = now /\ woken' = woken \ {c} /\ began' = [began EXCEPT ![c] = now]
        /\ UNCHANGED suspicionVars
    BY <1>1 DEF Begin, SkipRound, Collect, vars
  <2>. QED BY <2>1 DEF Answered, suspicionVars
<1>2. ASSUME UNCHANGED <<suspicionVars, woken, began>>, now' \in {now, now + 1}
      PROVE  Answered'
  BY <1>2 DEF Answered, suspicionVars
<1>3. ASSUME NEW c \in Collectors, NEW ok \in BOOLEAN, Probe(c, ok) PROVE Answered'
  <2>1. now' = now
    BY <1>3 DEF Probe, AskPaused, Deny, Send, Ask, Grant
  <2>2. UNCHANGED <<suspicionVars, woken, began>>
    BY <1>3 DEF Probe, Finish, restVars, roundVars
  <2>. QED BY <1>2, <2>1, <2>2
<1>4. CASE Elapse
  BY <1>2, <1>4 DEF Elapse, Advance, Unrelated, restVars, roundVars
<1>5. CASE Unrelated /\ (Pause \/ Resume \/ Mark)
  BY <1>2, <1>5 DEF Unrelated, Pause, Resume, Mark, restVars, roundVars
<1>6. CASE Unrelated /\ \E c \in enabled : Available(Kind[c])
  BY <1>2, <1>6 DEF Unrelated, Available, restVars, roundVars
<1>7. CASE UNCHANGED cadenceVars
  BY <1>2, <1>7 DEF cadenceVars, vars, restVars, roundVars
<1>. QED BY <1>1, <1>3, <1>4, <1>5, <1>6, <1>7, ScoreAnswers DEF CadenceNext

\* Whatever the severity does, and however often, each slow probe that is switched
\* on has begun within a cooldown of the last rise, or is woken.
THEOREM SuspicionCorrect == CadenceSpec => []SuspicionIsAnswered
<1>1. CadenceInit => Answered
  BY DEF CadenceInit, Init, Answered, Never
<1>2. Answered /\ [CadenceNext]_cadenceVars => Answered'
  BY AnsweredStep
<1>3. Answered => SuspicionIsAnswered
  <2> SUFFICES ASSUME Answered, NEW c \in enabled \cap Pulled, rose # Never, c \notin woken
               PROVE  began[c] > rose - Cooldown
    BY DEF SuspicionIsAnswered
  <2>1. c \in Collectors /\ Cooldown \in Nat
    BY CadenceAssumption
  <2>2. /\ rose \in Nat /\ suspected \in Nat /\ began[c] \in Nat \cup {Never}
        /\ rose - suspected < Cooldown /\ began[c] >= suspected
    BY <2>1 DEF Answered
  <2>. QED BY <2>1, <2>2 DEF Never
<1>. QED BY <1>1, <1>2, <1>3, PTL DEF CadenceSpec

-----------------------------------------------------------------------------
(***************************************************************************)
(* Why an accepted cadence is not starved.  A rest lasts at least half an  *)
(* interval, and half an interval refills half a probe: so a bucket that   *)
(* was emptied holds one after two rests.  The invariant keeps, for each   *)
(* worker that has been granted nothing yet, what its bucket will hold.    *)
(***************************************************************************)
\* What the bucket would hold at t, if it could not overflow.
Level(k, t) == tokens[k] + (t - last[k]) * Capacity[k]

\* The later of two moments.
Later(t, u) == IF t < u THEN u ELSE t

\* Half a probe before the first round that is refused, a whole one after it.
Owed(c, level) ==
  IF barren[c] = 0 THEN 2 * level >= Period[Kind[c]] ELSE level >= Period[Kind[c]]

\* What a worker that has its bucket to itself may count on: between rounds,
\* and in a round that was granted nothing yet, it is owed a part of a probe.
Paced(c) ==
  /\ barren[c] < 2
  /\ at[c] = "idle" =>
       /\ ~granted[c]
       /\ due[c] > MaxTime \/ Owed(c, Level(Kind[c], Later(now, due[c])))
  /\ at[c] \in {"probe", "ask"} => granted[c] \/ Owed(c, Level(Kind[c], now))
  /\ at[c] = "send" => granted[c]

\* Types; only who is switched on ever works, and only the slow probes are
\* woken.
CadenceTypeOK ==
  /\ TypeOK /\ now <= MaxTime /\ Configured
  /\ due \in [Collectors -> Nat] /\ fails \in [Collectors -> 0 .. FailCap]
  /\ woken \subseteq Pulled
  /\ granted \in [Collectors -> BOOLEAN] /\ barren \in [Collectors -> 0 .. 2]
  /\ \A c \in Collectors \ enabled : at[c] = "idle"

\* A product is no less than a factor, and grows with the other.
LEMMA Products ==
  /\ \A a \in Nat, b \in Nat : a * b \in Nat
  /\ \A a \in Nat, b \in Nat \ {0} : a * b >= a
  /\ \A a, b, d \in Nat : a <= b => a * d <= b * d
OBVIOUS

\* Half an interval refills half a probe.
LEMMA HalfIsEnough ==
  ASSUME NEW r \in Nat, NEW i \in Nat, NEW cap \in Nat, NEW per \in Nat, NEW targets \in Nat \ {0},
         i <= 2 * r, per * targets <= cap * i
  PROVE  r * cap \in Nat /\ 2 * (r * cap) >= per
<1>1. per * targets \in Nat /\ per <= per * targets
  BY Products
<1>2. i * cap <= (2 * r) * cap /\ i * cap = cap * i /\ cap * i \in Nat
  BY Products
<1>3. (2 * r) * cap = 2 * (r * cap) /\ r * cap \in Nat
  BY Products
<1>. QED BY <1>1, <1>2, <1>3

\* What every number inherits from all smaller ones holds of every number: among
\* those it does not hold of there would be a least.
LEMMA FromAllSmaller ==
  ASSUME NEW T, \A n \in Nat : (\A m \in Nat : m < n => m \in T) => n \in T
  PROVE  \A n \in Nat : n \in T
<1>. DEFINE others == {n \in Nat : n \notin T}
<1>1. SUFFICES ASSUME others # {} PROVE FALSE
  OBVIOUS
<1>2. others \subseteq Nat
  OBVIOUS
<1>3. \E n \in others : \A m \in others : ~(<<m, n>> \in OpToRel(<, Nat))
  <2>. HIDE DEF others
  <2>. QED BY <1>1, <1>2, WFMin, NatLessThanWellFounded, Zenon
<1>4. \E n \in others : \A m \in others : ~(m < n)
  BY <1>2, <1>3, Zenon DEF OpToRel
<1>. QED BY <1>2, <1>4

\* There are powers of two up to any exponent.
LEMMA PowersExist ==
  ASSUME NEW k \in Nat
  PROVE  \E f : f = [n \in 0 .. k |-> IF n = 0 THEN 1 ELSE 2 * f[n - 1]]
<1>. DEFINE Is(f, j) == f = [n \in 0 .. j |-> IF n = 0 THEN 1 ELSE 2 * f[n - 1]]
            T == {j \in Nat : \E f : Is(f, j)}
<1>1. ASSUME NEW j \in Nat, \A m \in Nat : m < j => m \in T PROVE j \in T
  <2>1. CASE j = 0
    <3>1. Is([n \in 0 .. 0 |-> 1], 0)
      OBVIOUS
    <3>. QED BY <2>1, <3>1
  <2>2. CASE j # 0
    <3>0. j - 1 \in T
      <4>. HIDE DEF T
      <4>. QED BY <1>1, <2>2
    <3>1. PICK f : Is(f, j - 1)
      BY <3>0
    <3>. DEFINE g == [n \in 0 .. j |-> IF n = j THEN 2 * f[j - 1] ELSE f[n]]
    <3>2. ASSUME NEW n \in 0 .. j PROVE g[n] = IF n = 0 THEN 1 ELSE 2 * g[n - 1]
      <4>1. CASE n = j
        BY <2>2, <4>1
      <4>2. CASE n # j
        BY <2>2, <3>1, <4>2
      <4>. QED BY <4>1, <4>2
    <3>3. Is(g, j)
      BY <3>2
    <3>. QED BY <3>3
  <2>. QED BY <2>1, <2>2
<1>2. \A j \in Nat : j \in T
  <2>. HIDE DEF T
  <2>. QED BY <1>1, FromAllSmaller
<1>. QED BY <1>2

\* Powers of two are positive.
LEMMA PowersPositive == \A n \in 0 .. FailCap : Doubled[n] \in Nat \ {0}
<1>. DEFINE T == {n \in Nat : n <= FailCap => Doubled[n] \in Nat \ {0}}
<1>0. FailCap \in Nat
  BY CadenceAssumption
<1>1. Doubled = [n \in 0 .. FailCap |-> IF n = 0 THEN 1 ELSE 2 * Doubled[n - 1]]
  BY <1>0, PowersExist DEF Doubled
<1>2. ASSUME NEW n \in Nat, \A m \in Nat : m < n => m \in T PROVE n \in T
  <2>1. CASE n <= FailCap /\ n = 0
    BY <1>0, <1>1, <2>1
  <2>2. CASE n <= FailCap /\ n # 0
    <3>1. Doubled[n - 1] \in Nat \ {0}
      BY <1>0, <1>2, <2>2
    <3>2. Doubled[n] = 2 * Doubled[n - 1]
      BY <1>0, <1>1, <2>2
    <3>. QED BY <3>1, <3>2
  <2>. QED BY <2>1, <2>2
<1>3. \A n \in Nat : n \in T
  <2>. HIDE DEF T
  <2>. QED BY <1>2, FromAllSmaller
<1>. QED BY <1>0, <1>3

\* Backing off never shortens a rest.
LEMMA BackoffFacts ==
  ASSUME NEW n \in 0 .. FailCap
  PROVE  Backoff(n) \in Nat \ {0}
<1>. USE CadenceAssumption
<1>1. CASE n < BackoffAfter
  BY <1>1 DEF Backoff
<1>2. CASE ~(n < BackoffAfter)
  <2>. DEFINE m == n - BackoffAfter + 1
  <2>1. m \in 0 .. FailCap /\ m \in Nat
    BY <1>2
  <2>. HIDE DEF m
  <2>2. Doubled[m] \in Nat \ {0}
    BY <2>1, PowersPositive
  <2>3. Backoff(n) = IF Doubled[m] < MaxBackoff THEN Doubled[m] ELSE MaxBackoff
    BY <1>2 DEF Backoff, m
  <2>. QED BY <2>2, <2>3
<1>. QED BY <1>1, <1>2

\* A rest takes half the interval at least, or lasts beyond the end of the clock.
LEMMA RestFacts ==
  ASSUME CadenceTypeOK, NEW c \in Collectors, NEW ok, Rest(c, ok)
  PROVE  /\ fails' \in [Collectors -> 0 .. FailCap]
         /\ \E r \in Nat : /\ due' = [due EXCEPT ![c] = now + r]
                           /\ interval[c] <= 2 * r \/ now + r > MaxTime
<1>1. fails' \in [Collectors -> 0 .. FailCap]
  BY CadenceAssumption DEF Rest, CadenceTypeOK
<1>2. PICK r \in Rests(c, fails'[c]) : due' = [due EXCEPT ![c] = now + r]
  BY DEF Rest
<1>3. r \in Nat /\ now \in Nat /\ MaxTime \in Nat /\ Jitter \in 0 .. 50 /\ interval[c] \in Nat
  BY BudgetAssumption, CadenceAssumption DEF Rests, CadenceTypeOK, TypeOK, Configured
<1>4. CASE r = MaxTime + 1
  <2>1. now + r > MaxTime
    BY <1>3, <1>4
  <2>. QED BY <1>1, <1>2, <1>3, <2>1
<1>5. CASE r # MaxTime + 1
  <2>1. PICK b \in Battery : 100 * r >= (interval[c] * b * Backoff(fails'[c])) * (100 - Jitter)
    BY <1>5 DEF Rests
  <2>. DEFINE base == interval[c] * b * Backoff(fails'[c])
  <2>2. b \in Nat \ {0} /\ Backoff(fails'[c]) \in Nat \ {0}
    BY <1>1, BackoffFacts, CadenceAssumption
  <2>3. interval[c] * b \in Nat /\ interval[c] * b >= interval[c]
    BY <1>3, <2>2, Products
  <2>4. base \in Nat /\ base >= interval[c] * b
    BY <2>2, <2>3, Products
  <2>5. 100 * r >= base * (100 - Jitter)
    BY <2>1
  <2>. HIDE DEF base
  <2>6. 50 * base <= (100 - Jitter) * base /\ (100 - Jitter) * base = base * (100 - Jitter)
        /\ base * (100 - Jitter) \in Nat
    BY <1>3, <2>4, Products
  <2>7. interval[c] <= base
    BY <1>3, <2>3, <2>4
  <2>8. interval[c] <= 2 * r
    BY <1>3, <2>4, <2>5, <2>6, <2>7
  <2>. QED BY <1>1, <1>2, <1>3, <2>8
<1>. QED BY <1>4, <1>5

\* The end of a probe keeps the types.
LEMMA FinishType ==
  ASSUME CadenceTypeOK, NEW c \in Collectors, NEW ok, Finish(c, ok), paused \in BOOLEAN
  PROVE  /\ due' \in [Collectors -> Nat] /\ fails' \in [Collectors -> 0 .. FailCap]
         /\ granted' \in [Collectors -> BOOLEAN] /\ barren' \in [Collectors -> 0 .. 2]
         /\ UNCHANGED <<configVars, woken>>
<1>1. CASE left[c] > 1
  BY <1>1 DEF Finish, CadenceTypeOK
<1>2. CASE ~(left[c] > 1)
  <2>1. /\ Rest(c, ok) /\ UNCHANGED <<configVars, woken>>
        /\ granted' = [granted EXCEPT ![c] = FALSE]
        /\ barren' = [barren EXCEPT ![c] =
             IF granted[c] \/ paused THEN 0 ELSE IF @ < 2 THEN @ + 1 ELSE @]
    BY <1>2 DEF Finish
  <2>2. PICK r \in Nat : due' = [due EXCEPT ![c] = now + r]
    BY <2>1, RestFacts
  <2>3. fails' \in [Collectors -> 0 .. FailCap]
    BY <2>1, RestFacts
  <2>4. due' \in [Collectors -> Nat]
    BY <2>2 DEF CadenceTypeOK, TypeOK
  <2>5. granted' \in [Collectors -> BOOLEAN] /\ barren' \in [Collectors -> 0 .. 2]
    BY <2>1 DEF CadenceTypeOK
  <2>. QED BY <2>1, <2>3, <2>4, <2>5
<1>. QED BY <1>1, <1>2

\* The types hold at the start,
LEMMA CadenceInitType == CadenceInit => CadenceTypeOK
<1> SUFFICES ASSUME CadenceInit PROVE CadenceTypeOK
  OBVIOUS
<1>1. Init /\ TypeOK
  BY InitType DEF CadenceInit
<1>2. Configured
  BY InitConfigured
<1>3. /\ now <= MaxTime
      /\ due \in [Collectors -> Nat] /\ fails \in [Collectors -> 0 .. FailCap]
      /\ woken \subseteq Pulled
      /\ granted \in [Collectors -> BOOLEAN] /\ barren \in [Collectors -> 0 .. 2]
      /\ \A c \in Collectors \ enabled : at[c] = "idle"
  BY BudgetAssumption, CadenceAssumption DEF CadenceInit, Init
<1>. QED BY <1>1, <1>2, <1>3 DEF CadenceTypeOK

\* and every step keeps them.
LEMMA CadenceStepType == CadenceTypeOK /\ [CadenceNext]_cadenceVars => CadenceTypeOK'
<1> SUFFICES ASSUME CadenceTypeOK, [CadenceNext]_cadenceVars PROVE CadenceTypeOK'
  OBVIOUS
<1>1. TypeOK' /\ Configured' /\ enabled' = enabled
  <2>1. Configured /\ TypeOK /\ UNCHANGED configVars
    BY StepConfigured DEF CadenceTypeOK
  <2>2. Configured'
    BY <2>1 DEF Configured, configVars, Accepts
  <2>. QED BY <2>1, <2>2, CadenceIsBudget, StepType DEF configVars
<1>2. ASSUME NEW c \in Collectors, Begin(c) PROVE CadenceTypeOK'
  <2>1. /\ c \in enabled /\ now' = now /\ at' = [at EXCEPT ![c] = "probe"]
        /\ woken' \subseteq woken /\ UNCHANGED <<due, fails, granted, barren>>
    BY <1>2 DEF Begin, OnTime, Collect
  <2>2. \A d \in Collectors \ enabled : at'[d] = "idle"
    BY <2>1 DEF CadenceTypeOK, TypeOK
  <2>. QED BY <1>1, <2>1, <2>2 DEF CadenceTypeOK
<1>3. ASSUME NEW c \in Collectors, SkipRound(c) PROVE CadenceTypeOK'
  <2>1. /\ Rest(c, TRUE) /\ woken' \subseteq woken /\ UNCHANGED <<now, at, granted, barren>>
    BY <1>3 DEF SkipRound, vars
  <2>2. PICK r \in Nat : due' = [due EXCEPT ![c] = now + r]
    BY <2>1, RestFacts
  <2>3. fails' \in [Collectors -> 0 .. FailCap]
    BY <2>1, RestFacts
  <2>4. due' \in [Collectors -> Nat]
    BY <2>2 DEF CadenceTypeOK, TypeOK
  <2>. QED BY <1>1, <2>1, <2>3, <2>4 DEF CadenceTypeOK
<1>4. ASSUME NEW c \in Collectors, NEW ok \in BOOLEAN, Probe(c, ok) PROVE CadenceTypeOK'
  <2>1. paused \in BOOLEAN
    BY DEF CadenceTypeOK, TypeOK
  <2>2. at[c] # "idle" /\ c \in enabled /\ now' = now /\ \A d \in Collectors : d # c => at'[d] = at[d]
    BY <1>4 DEF Probe, AskPaused, Deny, Send, Ask, Grant, NextTarget, CadenceTypeOK, TypeOK
  <2>3. \A d \in Collectors \ enabled : at'[d] = "idle"
    BY <2>2 DEF CadenceTypeOK
  <2>4. CASE Finish(c, TRUE) \/ Finish(c, ok)
    <3>1. /\ due' \in [Collectors -> Nat] /\ fails' \in [Collectors -> 0 .. FailCap]
          /\ granted' \in [Collectors -> BOOLEAN] /\ barren' \in [Collectors -> 0 .. 2]
          /\ UNCHANGED <<configVars, woken>>
      BY <2>1, <2>4, FinishType
    <3>. QED BY <1>1, <2>2, <2>3, <3>1 DEF CadenceTypeOK
  <2>5. CASE Ask(c) /\ UNCHANGED <<configVars, restVars, suspicionVars, roundVars>>
    BY <1>1, <2>2, <2>3, <2>5 DEF CadenceTypeOK, restVars, roundVars
  <2>6. CASE /\ granted' = [granted EXCEPT ![c] = TRUE]
             /\ UNCHANGED <<configVars, restVars, suspicionVars, began, barren>>
    BY <1>1, <2>2, <2>3, <2>6 DEF CadenceTypeOK, restVars
  <2>. QED BY <1>4, <2>4, <2>5, <2>6 DEF Probe
<1>5. ASSUME NEW s \in {0, Watch, Critical}, Score(s) PROVE CadenceTypeOK'
  <2>1. /\ UNCHANGED <<now, at, due, fails, granted, barren>> /\ Suspect(s)
    BY <1>5 DEF Score, vars, roundVars
  <2>2. woken' \subseteq Pulled
    BY <2>1 DEF Suspect, CadenceTypeOK
  <2>. QED BY <1>1, <2>1, <2>2 DEF CadenceTypeOK
<1>6. ASSUME UNCHANGED <<at, due, fails, woken, granted, barren>>, now' <= MaxTime
      PROVE CadenceTypeOK'
  BY <1>1, <1>6 DEF CadenceTypeOK
<1>7. CASE Elapse
  <2>1. now' <= MaxTime
    BY <1>7, BudgetAssumption DEF Elapse, Advance, CadenceTypeOK, TypeOK
  <2>. QED BY <1>6, <1>7, <2>1 DEF Elapse, Advance, Unrelated, restVars, roundVars
<1>8. CASE Unrelated /\ (Pause \/ Resume \/ Mark)
  BY <1>6, <1>8 DEF Unrelated, Pause, Resume, Mark, restVars, roundVars, CadenceTypeOK
<1>9. CASE Unrelated /\ \E c \in enabled : Available(Kind[c])
  BY <1>6, <1>9 DEF Unrelated, Available, restVars, roundVars, CadenceTypeOK
<1>10. CASE UNCHANGED cadenceVars
  BY <1>6, <1>10 DEF cadenceVars, vars, restVars, roundVars, CadenceTypeOK
<1>. QED BY <1>2, <1>3, <1>4, <1>5, <1>7, <1>8, <1>9, <1>10 DEF CadenceNext

-----------------------------------------------------------------------------
\* A level only rises with the time.
LEMMA LevelFacts ==
  ASSUME TypeOK, NEW k \in Kinds, NEW t \in Nat, NEW r \in Nat, t >= last[k]
  PROVE  /\ Level(k, t) \in Nat
         /\ r * Capacity[k] \in Nat
         /\ Level(k, t + r) = Level(k, t) + r * Capacity[k]
<1>. DEFINE cap == Capacity[k]
            gap == t - last[k]
<1>1. cap \in Nat /\ tokens[k] \in Nat /\ last[k] \in Nat /\ gap \in Nat
  BY BucketFacts DEF TypeOK
<1>2. t + r - last[k] = gap + r
  BY <1>1
<1>. HIDE DEF gap
<1>3. gap * cap \in Nat /\ r * cap \in Nat /\ (gap + r) * cap = gap * cap + r * cap
  BY <1>1
<1>. QED BY <1>1, <1>2, <1>3 DEF Level, gap

\* What the numbers of an accepted collector are.
LEMMA AcceptedFacts ==
  ASSUME CadenceTypeOK, NEW c \in enabled \cap Checked
  PROVE  /\ c \in Collectors /\ Kind[c] \in Kinds /\ c \notin woken
         /\ Period[Kind[c]] \in Nat \ {0} /\ Capacity[Kind[c]] \in Nat \ {0}
         /\ Targets[c] \in Nat \ {0} /\ interval[c] \in Nat /\ Cost[c] * Period[Kind[c]] = Period[Kind[c]]
         /\ Period[Kind[c]] * Targets[c] <= Capacity[Kind[c]] * interval[c]
         /\ Full(Kind[c]) \in Nat /\ Period[Kind[c]] <= Full(Kind[c])
<1>1. c \in Collectors /\ c \notin woken /\ Cost[c] = 1
  BY CadenceAssumption DEF CadenceTypeOK
<1>2. /\ Kind[c] \in Kinds /\ Targets[c] \in Nat \ {0}
      /\ interval[c] \in Nat /\ Period[Kind[c]] * Targets[c] <= Capacity[Kind[c]] * interval[c]
  BY <1>1, ConstantFacts DEF CadenceTypeOK, Configured, Accepts
<1>3. Period[Kind[c]] \in Nat \ {0} /\ Capacity[Kind[c]] \in Nat \ {0} /\ Full(Kind[c]) \in Nat
  BY <1>2, BucketFacts
<1>4. Period[Kind[c]] * Capacity[Kind[c]] >= Period[Kind[c]]
      /\ Period[Kind[c]] * Capacity[Kind[c]] = Capacity[Kind[c]] * Period[Kind[c]]
  BY <1>3, Products
<1>5. Cost[c] * Period[Kind[c]] = Period[Kind[c]]
  BY <1>1, <1>3
<1>. QED BY <1>1, <1>2, <1>3, <1>4, <1>5 DEF Full

\* After a rest the bucket holds half a probe more than before it.
LEMMA RestRefills ==
  ASSUME CadenceTypeOK, NEW c \in enabled \cap Checked, NEW r \in Nat, interval[c] <= 2 * r
  PROVE  /\ Level(Kind[c], now) \in Nat
         /\ 2 * Level(Kind[c], now + r) >= 2 * Level(Kind[c], now) + Period[Kind[c]]
         /\ Later(now, now + r) = now + r
<1>. DEFINE k == Kind[c]
<1>1. /\ k \in Kinds /\ Period[k] \in Nat /\ Capacity[k] \in Nat /\ Targets[c] \in Nat \ {0}
      /\ interval[c] \in Nat /\ Period[k] * Targets[c] <= Capacity[k] * interval[c]
  BY AcceptedFacts
<1>2. r * Capacity[k] \in Nat /\ 2 * (r * Capacity[k]) >= Period[k]
  BY <1>1, HalfIsEnough
<1>3. now \in Nat /\ now >= last[k] /\ TypeOK
  BY <1>1 DEF CadenceTypeOK, TypeOK
<1>4. Level(k, now) \in Nat /\ Level(k, now + r) = Level(k, now) + r * Capacity[k]
  BY <1>1, <1>3, LevelFacts
<1>5. Later(now, now + r) = now + r
  BY <1>3 DEF Later
<1>. HIDE DEF k
<1>6. 2 * Level(k, now + r) >= 2 * Level(k, now) + Period[k]
  BY <1>1, <1>2, <1>4
<1>. QED BY <1>4, <1>5, <1>6 DEF k

\* The end of a round that has taken nothing from the bucket since the level was so
\* high: granted or paused, it is the first of its kind; else it is one more.
LEMMA RoundEnds ==
  ASSUME CadenceTypeOK, NEW c \in enabled \cap Checked, NEW ok, Paced(c), now' = now,
         ~(left[c] > 1), Finish(c, ok), NextTarget(c),
         granted[c] \/ paused \/ (barren[c] = 0 /\ 2 * Level(Kind[c], now) >= Period[Kind[c]]),
         tokens'[Kind[c]] + (now - last'[Kind[c]]) * Capacity[Kind[c]] = Level(Kind[c], now),
         last'[Kind[c]] \in Nat, last'[Kind[c]] <= now, tokens'[Kind[c]] \in Nat
  PROVE  Paced(c)'
<1>. DEFINE k == Kind[c]
<1>1. /\ Rest(c, ok)
      /\ granted' = [granted EXCEPT ![c] = FALSE]
      /\ barren' = [barren EXCEPT ![c] =
           IF granted[c] \/ paused THEN 0 ELSE IF @ < 2 THEN @ + 1 ELSE @]
      /\ at' = [at EXCEPT ![c] = IF left[c] > 1 THEN "probe" ELSE "idle"]
  BY DEF Finish, NextTarget
<1>2. c \in Collectors /\ k \in Kinds /\ Period[k] \in Nat /\ Capacity[k] \in Nat /\ now \in Nat
  BY AcceptedFacts DEF CadenceTypeOK, TypeOK
<1>3. PICK r \in Nat : /\ due' = [due EXCEPT ![c] = now + r]
                       /\ interval[c] <= 2 * r \/ now + r > MaxTime
  BY <1>1, <1>2, RestFacts
<1>4. /\ at'[c] = "idle" /\ granted'[c] = FALSE /\ due'[c] = now + r
      /\ barren'[c] = IF granted[c] \/ paused THEN 0 ELSE 1
  BY <1>1, <1>2, <1>3 DEF CadenceTypeOK, TypeOK
<1>5. CASE now + r > MaxTime
  BY <1>4, <1>5 DEF Paced
<1>6. CASE interval[c] <= 2 * r
  <2>1. /\ Level(k, now) \in Nat /\ 2 * Level(k, now + r) >= 2 * Level(k, now) + Period[k]
        /\ Later(now, now + r) = now + r
    BY <1>6, RestRefills
  <2>2. now >= last[k] /\ TypeOK
    BY <1>2 DEF CadenceTypeOK, TypeOK
  <2>3. Level(k, now + r) = Level(k, now) + r * Capacity[k] /\ r * Capacity[k] \in Nat
    BY <1>2, <2>2, LevelFacts
  <2>. PICK t \in Nat : t = now + r
    BY <1>2
  <2>. DEFINE gap == now - last'[k]
  <2>4. gap \in Nat /\ t - last'[k] = gap + r
    BY <1>2
  <2>5. (t - last'[k]) * Capacity[k] = (now - last'[k]) * Capacity[k] + r * Capacity[k]
    <3>. HIDE DEF gap
    <3>1. (gap + r) * Capacity[k] = gap * Capacity[k] + r * Capacity[k]
      BY <1>2, <2>4
    <3>. QED BY <2>4, <3>1 DEF gap
  <2>6. (now - last'[k]) * Capacity[k] \in Nat
    BY <1>2, <2>4, Products
  <2>7. tokens'[k] + (t - last'[k]) * Capacity[k] = Level(k, now + r)
    BY <2>1, <2>3, <2>5, <2>6
  <2>8. IF barren'[c] = 0 THEN 2 * Level(k, now + r) >= Period[k] ELSE Level(k, now + r) >= Period[k]
    BY <1>2, <1>4, <2>1, <2>3
  <2>9. Owed(c, Level(Kind[c], Later(now, due[c])))'
    <3>1. Later(now, due[c])' = now + r
      BY <1>4, <2>1 DEF Later
    <3>2. PICK n \in Nat : n = Level(k, now + r)
      BY <2>1, <2>3
    <3>3. Level(Kind[c], Later(now, due[c]))' = n
      <4>1. tokens'[k] + (t - last'[k]) * Capacity[k] = n
        BY <2>7, <3>2
      <4>2. Level(Kind[c], Later(now, due[c]))' =
              tokens'[k] + (Later(now, due[c])' - last'[k]) * Capacity[k]
        BY Zenon DEF Level
      <4>3. Later(now, due[c])' = t
        BY <3>1
      <4>4. Level(Kind[c], Later(now, due[c]))' = tokens'[k] + (t - last'[k]) * Capacity[k]
        BY <4>2, <4>3, Zenon
      <4>. QED BY <4>1, <4>4
    <3>. QED BY <2>8, <3>2, <3>3 DEF Owed
  <2>. QED BY <1>4, <2>9 DEF Paced
<1>. QED BY <1>3, <1>5, <1>6

\* What leaves the worker and its bucket alone.
LEMMA BystanderPaced ==
  ASSUME NEW c, Paced(c), now' = now,
         at'[c] = at[c], due'[c] = due[c], granted'[c] = granted[c], barren'[c] = barren[c],
         tokens'[Kind[c]] = tokens[Kind[c]], last'[Kind[c]] = last[Kind[c]]
  PROVE  Paced(c)'
<1>1. \A t : tokens'[Kind[c]] + (t - last'[Kind[c]]) * Capacity[Kind[c]] = Level(Kind[c], t)
  BY DEF Level
<1>2. Level(Kind[c], now)' = Level(Kind[c], now)
  BY Zenon, <1>1 DEF Level
<1>3. Level(Kind[c], Later(now, due[c]))' = Level(Kind[c], Later(now, due[c]))
  BY Zenon, <1>1 DEF Level, Later
<1>4. Owed(c, Level(Kind[c], now))' <=> Owed(c, Level(Kind[c], now))
  BY <1>2 DEF Owed
<1>5. Owed(c, Level(Kind[c], Later(now, due[c])))' <=> Owed(c, Level(Kind[c], Later(now, due[c])))
  BY <1>3 DEF Owed
<1>. QED BY <1>4, <1>5 DEF Paced

\* A round begins when the rest is over: a checked collector is never woken.
LEMMA BeginPaced ==
  ASSUME CadenceTypeOK, NEW c \in enabled \cap Checked, Paced(c), Begin(c)
  PROVE  Paced(c)'
<1>1. /\ at[c] = "idle" /\ at' = [at EXCEPT ![c] = "probe"]
      /\ UNCHANGED <<now, tokens, last, due, granted, barren>>
      /\ now >= due[c] /\ c \in Collectors
  BY AcceptedFacts DEF Begin, OnTime, Collect, bucketVars
<1>2. now \in Nat /\ due[c] \in Nat /\ MaxTime \in Nat /\ now <= MaxTime /\ at'[c] = "probe"
  BY <1>1, BudgetAssumption DEF CadenceTypeOK, TypeOK
<1>3. Later(now, due[c]) = now /\ ~(due[c] > MaxTime)
  BY <1>1, <1>2 DEF Later
<1>4. Owed(c, Level(Kind[c], now)) /\ barren[c] < 2
  BY <1>1, <1>3 DEF Paced
<1>5. Owed(c, Level(Kind[c], now))'
  BY <1>1, <1>4 DEF Owed, Level
<1>. QED BY <1>1, <1>2, <1>4, <1>5 DEF Paced

\* A round in a pause ends at once, and the bucket fills on.
LEMMA SkipPaced ==
  ASSUME CadenceTypeOK, NEW c \in enabled \cap Checked, Paced(c), SkipRound(c)
  PROVE  Paced(c)'
<1>. DEFINE k == Kind[c]
<1>1. /\ at[c] = "idle" /\ Rest(c, TRUE) /\ now >= due[c] /\ c \in Collectors
      /\ UNCHANGED <<now, tokens, last, at, granted, barren>>
  BY AcceptedFacts DEF SkipRound, OnTime, vars, bucketVars
<1>2. /\ now \in Nat /\ due[c] \in Nat /\ MaxTime \in Nat /\ now <= MaxTime /\ k \in Kinds
      /\ Period[k] \in Nat
  BY <1>1, BudgetAssumption, AcceptedFacts DEF CadenceTypeOK, TypeOK
<1>3. Later(now, due[c]) = now /\ ~(due[c] > MaxTime)
  BY <1>1, <1>2 DEF Later
<1>4. Owed(c, Level(k, now)) /\ barren[c] < 2 /\ ~granted[c]
  BY <1>1, <1>3 DEF Paced
<1>5. PICK r \in Nat : due' = [due EXCEPT ![c] = now + r]
  BY <1>1, RestFacts
<1>6. due'[c] = now + r
  BY <1>1, <1>5 DEF CadenceTypeOK
<1>7. Later(now, due[c])' = now + r
  BY <1>1, <1>2, <1>6 DEF Later
<1>8. now >= last[k] /\ TypeOK
  BY <1>2 DEF CadenceTypeOK, TypeOK
<1>9. PICK m \in Nat, n \in Nat : m = Level(k, now) /\ n = Level(k, now + r) /\ m <= n
  <2>1. /\ Level(k, now) \in Nat /\ r * Capacity[k] \in Nat
        /\ Level(k, now + r) = Level(k, now) + r * Capacity[k]
    BY <1>2, <1>8, LevelFacts
  <2>. QED BY <2>1
<1>10. Level(Kind[c], Later(now, due[c]))' = n
  <2>1. Level(Kind[c], Later(now, due[c]))' =
          tokens'[k] + (Later(now, due[c])' - last'[k]) * Capacity[k]
    BY Zenon DEF Level
  <2>2. Level(k, now + r) = tokens'[k] + ((now + r) - last'[k]) * Capacity[k]
    BY <1>1, Zenon DEF Level
  <2>. QED BY <1>7, <1>9, <2>1, <2>2, Zenon
<1>11. Owed(c, Level(Kind[c], Later(now, due[c])))'
  <2>1. Owed(c, m)
    BY <1>4, <1>9
  <2>2. Owed(c, n)
    BY <1>2, <1>9, <2>1 DEF Owed
  <2>. QED BY <1>1, <1>10, <2>2 DEF Owed
<1>. QED BY <1>1, <1>4, <1>11 DEF Paced

\* A refill that the bucket has room for leaves what it would hold as it was; one
\* that fills the bucket leaves a whole probe in it.
LEMMA RefillPaced ==
  ASSUME CadenceTypeOK, NEW c \in enabled \cap Checked,
         tokens'[Kind[c]] = Refilled(Kind[c]), last'[Kind[c]] = now
  PROVE  \/ \A t \in Nat : t >= now =>
               tokens'[Kind[c]] + (t - last'[Kind[c]]) * Capacity[Kind[c]] = Level(Kind[c], t)
         \/ /\ Refilled(Kind[c]) >= Period[Kind[c]]
            /\ \A t \in Nat : t >= now =>
                 /\ tokens'[Kind[c]] + (t - last'[Kind[c]]) * Capacity[Kind[c]] \in Nat
                 /\ tokens'[Kind[c]] + (t - last'[Kind[c]]) * Capacity[Kind[c]] >= Period[Kind[c]]
<1>. DEFINE k == Kind[c]
<1>1. /\ k \in Kinds /\ Period[k] \in Nat /\ Capacity[k] \in Nat
      /\ Full(k) \in Nat /\ Period[k] <= Full(k)
  BY AcceptedFacts
<1>2. now \in Nat /\ now >= last[k] /\ TypeOK
  BY <1>1 DEF CadenceTypeOK, TypeOK
<1>3. Level(k, now) \in Nat
  BY <1>1, <1>2, LevelFacts
<1>4. Refilled(k) = IF Level(k, now) < Full(k) THEN Level(k, now) ELSE Full(k)
  BY DEF Refilled, Level
<1>5. CASE Level(k, now) < Full(k)
  <2>1. ASSUME NEW t \in Nat, t >= now
        PROVE  tokens'[k] + (t - last'[k]) * Capacity[k] = Level(k, t)
    <3>. PICK r \in Nat : t = now + r
      <4>1. t - now \in Nat /\ t = now + (t - now)
        BY <1>2, <2>1
      <4>. QED BY <4>1
    <3>1. Level(k, now + r) = Level(k, now) + r * Capacity[k] /\ r * Capacity[k] \in Nat
      BY <1>1, <1>2, LevelFacts
    <3>2. t - last'[k] = r /\ tokens'[k] = Level(k, now)
      BY <1>2, <1>4, <1>5
    <3>. QED BY <3>1, <3>2
  <2>. QED BY <2>1
<1>6. CASE ~(Level(k, now) < Full(k))
  <2>1. Refilled(k) = Full(k) /\ tokens'[k] = Full(k)
    BY <1>4, <1>6
  <2>2. ASSUME NEW t \in Nat, t >= now
        PROVE  /\ tokens'[k] + (t - last'[k]) * Capacity[k] \in Nat
               /\ tokens'[k] + (t - last'[k]) * Capacity[k] >= Period[k]
    <3>. PICK r \in Nat : r = t - last'[k]
      BY <1>2, <2>2
    <3>1. r * Capacity[k] \in Nat
      BY <1>1, Products
    <3>. QED BY <1>1, <2>1, <3>1
  <2>. QED BY <1>1, <2>1, <2>2
<1>. QED BY <1>5, <1>6

\* A look at the bucket takes nothing from what the collector is owed.
LEMMA AvailablePaced ==
  ASSUME CadenceTypeOK, NEW c \in enabled \cap Checked, Paced(c), Available(Kind[c]),
         UNCHANGED <<due, granted, barren>>
  PROVE  Paced(c)'
<1>. DEFINE k == Kind[c]
            at1(t) == tokens'[k] + (t - last'[k]) * Capacity[k]
<1>1. /\ k \in Kinds /\ Period[k] \in Nat /\ c \in Collectors
  BY AcceptedFacts
<1>2. UNCHANGED <<now, at, due, granted, barren>> /\ tokens'[k] = Refilled(k) /\ last'[k] = now
  BY <1>1 DEF Available, CadenceTypeOK, TypeOK
<1>3. now \in Nat /\ due[c] \in Nat
  BY <1>1 DEF CadenceTypeOK, TypeOK
<1>4. PICK u \in Nat : u = Later(now, due[c]) /\ u >= now
  BY <1>3 DEF Later
<1>5. Later(now, due[c])' = u
  BY <1>2, <1>4 DEF Later
<1>6. /\ Level(Kind[c], now)' = at1(now)
      /\ Level(Kind[c], Later(now, due[c]))' = at1(u)
  <2>1. Level(Kind[c], now)' = tokens'[k] + (now' - last'[k]) * Capacity[k]
    BY Zenon DEF Level
  <2>2. Level(Kind[c], Later(now, due[c]))' =
          tokens'[k] + (Later(now, due[c])' - last'[k]) * Capacity[k]
    BY Zenon DEF Level
  <2>. QED BY <1>2, <1>5, <2>1, <2>2, Zenon
<1>7. CASE \A t \in Nat : t >= now => at1(t) = Level(k, t)
  <2>1. at1(now) = Level(k, now) /\ at1(u) = Level(k, u)
    BY <1>3, <1>4, <1>7
  <2>2. Level(Kind[c], now)' = Level(Kind[c], now)
        /\ Level(Kind[c], Later(now, due[c]))' = Level(Kind[c], Later(now, due[c]))
    BY <1>4, <1>6, <2>1, Zenon
  <2>. HIDE DEF at1, k
  <2>3. Owed(c, Level(Kind[c], now))' <=> Owed(c, Level(Kind[c], now))
    BY <1>2, <2>2 DEF Owed
  <2>4. Owed(c, Level(Kind[c], Later(now, due[c])))' <=> Owed(c, Level(Kind[c], Later(now, due[c])))
    BY <1>2, <2>2 DEF Owed
  <2>. QED BY <1>2, <2>3, <2>4 DEF Paced
<1>8. CASE \A t \in Nat : t >= now => at1(t) \in Nat /\ at1(t) >= Period[k]
  <2>. PICK m \in Nat, n \in Nat : m = at1(now) /\ n = at1(u) /\ m >= Period[k] /\ n >= Period[k]
    BY <1>3, <1>4, <1>8
  <2>1. Level(Kind[c], now)' = m /\ Level(Kind[c], Later(now, due[c]))' = n
    BY <1>6
  <2>2. Owed(c, m) /\ Owed(c, n)
    BY <1>1 DEF Owed
  <2>. HIDE DEF at1
  <2>3. Owed(c, Level(Kind[c], now))'
    BY <1>2, <2>1, <2>2 DEF Owed
  <2>4. Owed(c, Level(Kind[c], Later(now, due[c])))'
    BY <1>2, <2>1, <2>2 DEF Owed
  <2>. QED BY <1>2, <2>3, <2>4 DEF Paced
<1>9. (\A t \in Nat : t >= now => at1(t) = Level(k, t))
      \/ (\A t \in Nat : t >= now => at1(t) \in Nat /\ at1(t) >= Period[k])
  BY <1>2, RefillPaced
<1>. QED BY <1>7, <1>8, <1>9

\* A tick of the clock takes nothing from it either.
LEMMA ElapsePaced ==
  ASSUME CadenceTypeOK, NEW c \in enabled \cap Checked, Paced(c), Elapse
  PROVE  Paced(c)'
<1>. DEFINE k == Kind[c]
<1>1. k \in Kinds /\ Period[k] \in Nat /\ c \in Collectors /\ Capacity[k] \in Nat
  BY AcceptedFacts
<1>2. now' = now + 1 /\ UNCHANGED <<tokens, last, at, due, granted, barren>>
  BY DEF Elapse, Advance, Unrelated, bucketVars, restVars, roundVars
<1>3. now \in Nat /\ due[c] \in Nat /\ TypeOK /\ now >= last[k]
  BY <1>1 DEF CadenceTypeOK, TypeOK
<1>4. ASSUME NEW t \in Nat, NEW r \in Nat, t >= now, Owed(c, Level(k, t))
      PROVE  (barren[c] = 0 => 2 * Level(k, t + r) >= Period[k])
             /\ (barren[c] # 0 => Level(k, t + r) >= Period[k])
  <2>. t >= last[k] /\ last[k] \in Nat
    BY <1>1, <1>3, <1>4 DEF TypeOK
  <2>1. /\ Level(k, t) \in Nat /\ r * Capacity[k] \in Nat
        /\ Level(k, t + r) = Level(k, t) + r * Capacity[k]
    BY <1>1, <1>3, LevelFacts
  <2>. QED BY <1>1, <1>4, <2>1 DEF Owed
<1>5. Level(Kind[c], now)' = Level(k, now + 1)
  <2>1. Level(Kind[c], now)' = tokens'[k] + (now' - last'[k]) * Capacity[k]
    BY Zenon DEF Level
  <2>2. Level(k, now + 1) = tokens[k] + ((now + 1) - last[k]) * Capacity[k]
    BY DEF Level
  <2>. QED BY <1>2, <2>1, <2>2, Zenon
<1>6. PICK r \in Nat : Later(now, due[c])' = Later(now, due[c]) + r
  <2>1. Later(now, due[c])' = IF now + 1 < due[c] THEN due[c] ELSE now + 1
    BY <1>2, Zenon DEF Later
  <2>2. Later(now, due[c]) = IF now < due[c] THEN due[c] ELSE now
    BY DEF Later
  <2>3. CASE now + 1 <= due[c]
    <3>1. Later(now, due[c])' = Later(now, due[c]) + 0
      BY <1>3, <2>1, <2>2, <2>3
    <3>. QED BY <3>1
  <2>4. CASE due[c] < now + 1
    <3>1. Later(now, due[c])' = Later(now, due[c]) + 1
      BY <1>3, <2>1, <2>2, <2>4
    <3>. QED BY <3>1
  <2>. QED BY <1>3, <2>3, <2>4
<1>7. Level(Kind[c], Later(now, due[c]))' = Level(k, Later(now, due[c]) + r)
  <2>1. Level(Kind[c], Later(now, due[c]))' =
          tokens'[k] + (Later(now, due[c])' - last'[k]) * Capacity[k]
    BY Zenon DEF Level
  <2>2. Level(k, Later(now, due[c]) + r) = tokens[k] + ((Later(now, due[c]) + r) - last[k]) * Capacity[k]
    BY Zenon DEF Level
  <2>. QED BY <1>2, <1>6, <2>1, <2>2, Zenon
<1>8. Owed(c, Level(Kind[c], now)) => Owed(c, Level(Kind[c], now))'
  <2>1. Owed(c, Level(Kind[c], now)) =>
           IF barren[c] = 0 THEN 2 * Level(k, now + 1) >= Period[k] ELSE Level(k, now + 1) >= Period[k]
    BY <1>3, <1>4
  <2>. QED BY <1>2, <1>5, <2>1, Zenon DEF Owed
<1>9. Owed(c, Level(Kind[c], Later(now, due[c]))) => Owed(c, Level(Kind[c], Later(now, due[c])))'
  <2>1. Later(now, due[c]) \in Nat /\ Later(now, due[c]) >= now
    BY <1>3 DEF Later
  <2>. QED BY <1>2, <1>4, <1>7, <2>1 DEF Owed
<1>. QED BY <1>2, <1>8, <1>9 DEF Paced

\* What a bucket says of one probe: a refusal tells that it holds less than one.
LEMMA DenialFacts ==
  ASSUME CadenceTypeOK, NEW c \in enabled \cap Checked, Deny(c)
  PROVE  /\ tokens'[Kind[c]] + (now - last'[Kind[c]]) * Capacity[Kind[c]] = Level(Kind[c], now)
         /\ last'[Kind[c]] = now /\ tokens'[Kind[c]] \in Nat
         /\ Level(Kind[c], now) \in Nat /\ Level(Kind[c], now) < Period[Kind[c]]
<1>. DEFINE k == Kind[c]
<1>1. /\ k \in Kinds /\ Period[k] \in Nat /\ Cost[c] * Period[k] = Period[k]
      /\ Capacity[k] \in Nat /\ Full(k) \in Nat /\ Period[k] <= Full(k)
  BY AcceptedFacts
<1>2. Refilled(k) < Cost[c] * Period[k] /\ tokens'[k] = Refilled(k) /\ last'[k] = now
  BY <1>1 DEF Deny, CadenceTypeOK, TypeOK
<1>3. now \in Nat /\ now >= last[k] /\ TypeOK
  BY <1>1 DEF CadenceTypeOK, TypeOK
<1>4. Level(k, now) \in Nat
  BY <1>1, <1>3, LevelFacts
<1>5. Refilled(k) = IF Level(k, now) < Full(k) THEN Level(k, now) ELSE Full(k)
  BY DEF Refilled, Level
<1>6. Level(k, now) < Period[k] /\ tokens'[k] = Level(k, now)
  BY <1>1, <1>2, <1>4, <1>5
<1>7. (now - last'[k]) * Capacity[k] = 0
  BY <1>1, <1>2, <1>3
<1>. QED BY <1>2, <1>4, <1>6, <1>7

\* A refused probe leaves the bucket as full as it was; a round without a grant
\* is followed by a rest that fills the other half.
LEMMA DenyPaced ==
  ASSUME CadenceTypeOK, NEW c \in enabled \cap Checked, Paced(c), Deny(c), Finish(c, TRUE)
  PROVE  Paced(c)'
<1>. DEFINE k == Kind[c]
<1>1. c \in Collectors /\ k \in Kinds /\ Period[k] \in Nat /\ now \in Nat
  BY AcceptedFacts DEF CadenceTypeOK, TypeOK
<1>2. /\ tokens'[k] + (now - last'[k]) * Capacity[k] = Level(k, now)
      /\ last'[k] = now /\ tokens'[k] \in Nat /\ Level(k, now) \in Nat /\ Level(k, now) < Period[k]
  BY DenialFacts
<1>3. at[c] = "ask" /\ now' = now /\ NextTarget(c)
  BY DEF Deny
<1>4. granted[c] \/ Owed(c, Level(k, now))
  BY <1>3 DEF Paced
<1>5. CASE left[c] > 1
  <2>1. at'[c] = "probe" /\ UNCHANGED <<due, granted, barren>>
    BY <1>1, <1>3, <1>5 DEF Finish, NextTarget, CadenceTypeOK, TypeOK
  <2>2. Level(Kind[c], now)' = Level(Kind[c], now)
    <3>1. Level(Kind[c], now)' = tokens'[k] + (now' - last'[k]) * Capacity[k]
      BY Zenon DEF Level
    <3>. QED BY <1>2, <1>3, <3>1, Zenon
  <2>3. Owed(c, Level(Kind[c], now))' <=> Owed(c, Level(Kind[c], now))
    BY <2>1, <2>2 DEF Owed
  <2>. QED BY <1>4, <2>1, <2>3 DEF Paced
<1>6. CASE ~(left[c] > 1)
  <2>1. granted[c] \/ (barren[c] = 0 /\ 2 * Level(k, now) >= Period[k])
    BY <1>1, <1>2, <1>4 DEF Owed
  <2>2. last'[k] \in Nat /\ last'[k] <= now
    BY <1>1, <1>2
  <2>. QED BY <1>2, <1>3, <1>6, <2>1, <2>2, RoundEnds
<1>. QED BY <1>5, <1>6

\* A round that ends without asking the bucket: paused, or after a probe was sent.
LEMMA PassPaced ==
  ASSUME CadenceTypeOK, NEW c \in enabled \cap Checked, NEW ok, Paced(c),
         AskPaused(c) \/ Send(c), Finish(c, ok)
  PROVE  Paced(c)'
<1>. DEFINE k == Kind[c]
<1>1. c \in Collectors /\ k \in Kinds /\ now \in Nat
  BY AcceptedFacts DEF CadenceTypeOK, TypeOK
<1>2. /\ UNCHANGED <<now, tokens, last>> /\ NextTarget(c)
      /\ (at[c] = "probe" /\ paused) \/ (at[c] = "send" /\ granted[c])
  BY DEF AskPaused, Send, bucketVars, Paced
<1>3. CASE left[c] > 1
  <2>1. at'[c] = "probe" /\ UNCHANGED <<due, granted, barren>>
    BY <1>1, <1>2, <1>3 DEF Finish, NextTarget, CadenceTypeOK, TypeOK
  <2>2. CASE granted[c]
    BY <2>1, <2>2 DEF Paced
  <2>3. CASE at[c] = "probe"
    BY <1>2, <2>1, <2>3, BystanderPaced
  <2>. QED BY <1>2, <2>2, <2>3
<1>4. CASE ~(left[c] > 1)
  <2>1. /\ tokens'[k] + (now - last'[k]) * Capacity[k] = Level(k, now)
        /\ last'[k] \in Nat /\ last'[k] <= now /\ tokens'[k] \in Nat
    BY <1>1, <1>2 DEF Level, CadenceTypeOK, TypeOK
  <2>. QED BY <1>2, <1>4, <2>1, RoundEnds
<1>. QED BY <1>3, <1>4

\* Every step of the collector itself.
LEMMA ProbePaced ==
  ASSUME CadenceTypeOK, NEW c \in enabled \cap Checked, NEW ok \in BOOLEAN, Paced(c), Probe(c, ok)
  PROVE  Paced(c)'
<1>1. c \in Collectors
  BY AcceptedFacts
<1>2. CASE AskPaused(c) /\ Finish(c, TRUE)
  BY <1>2, PassPaced
<1>3. CASE Deny(c) /\ Finish(c, TRUE)
  BY <1>3, DenyPaced
<1>4. CASE Send(c) /\ Finish(c, ok)
  BY <1>4, PassPaced
<1>5. CASE Ask(c) /\ UNCHANGED <<configVars, restVars, suspicionVars, roundVars>>
  <2>1. /\ at[c] = "probe" /\ at'[c] = "ask" /\ UNCHANGED <<now, tokens, last, granted, barren>>
    BY <1>1, <1>5 DEF Ask, bucketVars, roundVars, CadenceTypeOK, TypeOK
  <2>2. Owed(c, Level(Kind[c], now))' <=> Owed(c, Level(Kind[c], now))
    BY <2>1 DEF Owed, Level
  <2>. QED BY <2>1, <2>2 DEF Paced
<1>6. CASE /\ Grant(c) /\ granted' = [granted EXCEPT ![c] = TRUE]
           /\ UNCHANGED <<configVars, restVars, suspicionVars, began, barren>>
  <2>1. at'[c] = "send" /\ granted'[c] = TRUE /\ barren'[c] = barren[c]
    BY <1>1, <1>6 DEF Grant, CadenceTypeOK, TypeOK
  <2>. QED BY <2>1 DEF Paced
<1>. QED BY <1>2, <1>3, <1>4, <1>5, <1>6 DEF Probe

\* No one else touches a worker, or a bucket that is its own.
LEMMA OthersPaced ==
  ASSUME CadenceTypeOK, NEW c \in enabled \cap Checked, Alone(c), Paced(c),
         NEW d \in Collectors, d # c, Begin(d) \/ SkipRound(d) \/ \E ok \in BOOLEAN : Probe(d, ok)
  PROVE  Paced(c)'
<1>1. c \in Collectors /\ Kind[c] \in Kinds /\ Kind[d] \in Kinds
  BY AcceptedFacts, ConstantFacts
<1>2. d \in enabled
  <2>1. CASE Begin(d) \/ SkipRound(d)
    BY <2>1 DEF Begin, SkipRound, OnTime
  <2>2. CASE \E ok \in BOOLEAN : Probe(d, ok)
    BY <2>2 DEF Probe, AskPaused, Deny, Send, Ask, Grant, CadenceTypeOK
  <2>. QED BY <2>1, <2>2
<1>3. Kind[d] # Kind[c]
  BY <1>2 DEF Alone
<1>4. CASE Begin(d)
  <2>1. /\ now' = now /\ at'[c] = at[c] /\ UNCHANGED <<due, granted, barren, tokens, last>>
    BY <1>1, <1>4 DEF Begin, Collect, bucketVars, CadenceTypeOK, TypeOK
  <2>. QED BY <2>1, BystanderPaced
<1>5. CASE SkipRound(d)
  <2>1. UNCHANGED <<now, at, granted, barren, tokens, last>> /\ Rest(d, TRUE)
    BY <1>5 DEF SkipRound, vars, bucketVars
  <2>2. due'[c] = due[c]
    BY <1>1, <2>1 DEF Rest, CadenceTypeOK
  <2>. QED BY <2>1, <2>2, BystanderPaced
<1>6. ASSUME NEW ok \in BOOLEAN, Probe(d, ok) PROVE Paced(c)'
  <2>1. now' = now /\ at'[c] = at[c]
    BY <1>1, <1>6 DEF Probe, AskPaused, Deny, Send, Ask, Grant, NextTarget, CadenceTypeOK, TypeOK
  <2>2. tokens'[Kind[c]] = tokens[Kind[c]] /\ last'[Kind[c]] = last[Kind[c]]
    BY <1>1, <1>3, <1>6
       DEF Probe, AskPaused, Deny, Send, Ask, Grant, bucketVars, CadenceTypeOK, TypeOK
  <2>3. due'[c] = due[c] /\ granted'[c] = granted[c] /\ barren'[c] = barren[c]
    BY <1>1, <1>6 DEF Probe, Finish, Rest, restVars, roundVars, CadenceTypeOK
  <2>. QED BY <2>1, <2>2, <2>3, BystanderPaced
<1>. QED BY <1>4, <1>5, <1>6

\* Every worker that is alone at its bucket keeps its pace.
AllPaced == \A c \in enabled \cap Checked : Alone(c) => Paced(c)

\* At the start the bucket is full,
LEMMA PacedInit == CadenceInit => AllPaced
<1> SUFFICES ASSUME CadenceInit, NEW c \in enabled \cap Checked PROVE Paced(c)
  BY DEF AllPaced
<1>1. CadenceTypeOK
  BY CadenceInitType
<1>2. /\ c \in Collectors /\ Kind[c] \in Kinds /\ Period[Kind[c]] \in Nat /\ Full(Kind[c]) \in Nat
      /\ Period[Kind[c]] <= Full(Kind[c]) /\ Capacity[Kind[c]] \in Nat
  BY <1>1, AcceptedFacts
<1>3. /\ at[c] = "idle" /\ ~granted[c] /\ due[c] = 0 /\ now = 0 /\ barren[c] = 0
      /\ tokens[Kind[c]] = Full(Kind[c]) /\ last[Kind[c]] = 0
  BY <1>2 DEF CadenceInit, Init
<1>4. Level(Kind[c], Later(now, due[c])) = Full(Kind[c])
  BY <1>2, <1>3 DEF Level, Later
<1>. QED BY <1>2, <1>3, <1>4 DEF Paced, Owed

\* and every step keeps the pace.
LEMMA PacedStep == CadenceTypeOK /\ AllPaced /\ [CadenceNext]_cadenceVars => AllPaced'
<1> SUFFICES ASSUME CadenceTypeOK, AllPaced, [CadenceNext]_cadenceVars PROVE AllPaced'
  OBVIOUS
<1>0. enabled' = enabled
  BY StepConfigured DEF configVars
<1> SUFFICES ASSUME NEW c \in enabled \cap Checked, Alone(c) PROVE Paced(c)'
  BY <1>0 DEF AllPaced, Alone
<1>1. Paced(c) /\ c \in Collectors /\ Kind[c] \in Kinds
  BY AcceptedFacts DEF AllPaced
<1>2. ASSUME NEW d \in Collectors, Begin(d) \/ SkipRound(d) \/ \E ok \in BOOLEAN : Probe(d, ok)
      PROVE  Paced(c)'
  BY <1>1, <1>2, BeginPaced, SkipPaced, ProbePaced, OthersPaced
<1>3. ASSUME UNCHANGED <<now, at, tokens, last, due, granted, barren>> PROVE Paced(c)'
  BY <1>1, <1>3, BystanderPaced
<1>4. ASSUME NEW s \in {0, Watch, Critical}, Score(s) PROVE Paced(c)'
  BY <1>3, <1>4 DEF Score, vars, bucketVars, roundVars
<1>5. CASE Elapse
  BY <1>1, <1>5, ElapsePaced
<1>6. CASE Unrelated /\ (Pause \/ Resume \/ Mark)
  BY <1>3, <1>6 DEF Unrelated, Pause, Resume, Mark, bucketVars, restVars, roundVars
<1>7. ASSUME Unrelated, NEW d \in enabled, Available(Kind[d]) PROVE Paced(c)'
  <2>1. UNCHANGED <<now, at, due, granted, barren>>
    BY <1>7 DEF Unrelated, Available, restVars, roundVars
  <2>2. CASE d = c
    BY <1>1, <1>7, <2>1, <2>2, AvailablePaced
  <2>3. CASE d # c
    <3>1. Kind[d] # Kind[c] /\ Kind[d] \in Kinds
      BY <2>3, ConstantFacts DEF Alone, CadenceTypeOK, Configured
    <3>2. tokens'[Kind[c]] = tokens[Kind[c]] /\ last'[Kind[c]] = last[Kind[c]]
      BY <1>1, <1>7, <3>1 DEF Available, CadenceTypeOK, TypeOK
    <3>. QED BY <1>1, <2>1, <3>2, BystanderPaced
  <2>. QED BY <2>2, <2>3
<1>8. CASE UNCHANGED cadenceVars
  BY <1>3, <1>8 DEF cadenceVars, vars, bucketVars, restVars, roundVars
<1>. QED BY <1>2, <1>4, <1>5, <1>6, <1>7, <1>8 DEF CadenceNext

\* An interval that the loader accepts never starves its collector, whatever jitter,
\* battery, failures and pauses do to the rests, and whoever looks at the bucket: of
\* two rounds in a row, one is granted a probe.
THEOREM AcceptedCorrect == CadenceSpec => []AcceptedIsNotStarved
<1>1. CadenceInit => CadenceTypeOK /\ AllPaced
  BY CadenceInitType, PacedInit
<1>2. CadenceTypeOK /\ AllPaced /\ [CadenceNext]_cadenceVars => (CadenceTypeOK /\ AllPaced)'
  BY CadenceStepType, PacedStep
<1>3. AllPaced => AcceptedIsNotStarved
  BY DEF AllPaced, Paced, AcceptedIsNotStarved
<1>. QED BY <1>1, <1>2, <1>3, PTL DEF CadenceSpec
=============================================================================
