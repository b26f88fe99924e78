--------------------------- MODULE AccountsProofs ---------------------------
(***************************************************************************)
(* A proof about Accounts, for every set of users and addresses and every  *)
(* finite pool of threads: the limiter's table and the logins that it has  *)
(* let through stay within their bounds together (Bounded), and what the   *)
(* table does not know of an address was pardoned or pushed out            *)
(* (Reasoned).                                                             *)
(***************************************************************************)
EXTENDS Accounts, FiniteSetTheorems, TLAPS

StrictOrder(R, S) ==
    /\ R \subseteq S \X S
    /\ \A a \in S : <<a, a>> \notin R
    /\ \A a, b, c \in S : <<a, b>> \in R /\ <<b, c>> \in R => <<a, c>> \in R
    /\ \A a, b \in S : a # b => <<a, b>> \in R \/ <<b, a>> \in R

\* The table is finite, and the latest failures of those in it came one after another.
Listing ==
    /\ failures \in [Addresses -> Nat \cup {Missing}]
    /\ IsFiniteSet(InTable)
    /\ StrictOrder(before, InTable)

\* A login is counted under a name that no other endpoint counts under.
Callers ==
    /\ DOMAIN handler = Pool
    /\ \A t \in Pool : handler[t].at = "login" => handler[t].from \in Addresses \ Counted

\* The table lets no more through than may fail, and keeps to its size.
Bounded ==
    /\ \A a \in Addresses \ Counted :
         Count(a) + Cardinality(Trying(a)) <= MaxFailures + Cardinality(Pool) - 1
    /\ \A a \in Counted : Count(a) <= MaxFailures
    /\ Cardinality({a \in Addresses : failures[a] # Missing}) <= MaxKeys

\* It knows the latest failures of an address, and there is a reason if not all of them.
Reasoned ==
    /\ failed \in [Addresses -> Nat]
    /\ \A a \in Addresses :
         Count(a) <= failed[a] /\ (Count(a) < failed[a] => Excused(a))

ThrottleInv == Listing /\ Callers /\ Bounded /\ Reasoned

-----------------------------------------------------------------------------
LEMMA LaterCount ==
  ASSUME NEW S, IsFiniteSet(S), NEW R, StrictOrder(R, S), NEW a \in S, NEW b \in S,
         <<a, b>> \in R
  PROVE  Cardinality({c \in S : <<b, c>> \in R}) < Cardinality({c \in S : <<a, c>> \in R})
<1> DEFINE A == {c \in S : <<a, c>> \in R}
           B == {c \in S : <<b, c>> \in R}
<1>1. B \subseteq A /\ b \in A /\ b \notin B
  BY DEF StrictOrder
<1>2. A \subseteq S
  OBVIOUS
<1> HIDE DEF A, B
<1>3. IsFiniteSet(A)
  BY <1>2, FS_Subset
<1>4. IsFiniteSet(B) /\ Cardinality(B) <= Cardinality(A) /\ Cardinality(B) # Cardinality(A)
  BY <1>1, <1>3, FS_Subset
<1>5. Cardinality(A) \in Nat /\ Cardinality(B) \in Nat
  BY <1>3, <1>4, FS_CardinalityType
<1>6. Cardinality(B) < Cardinality(A)
  BY <1>4, <1>5
<1> QED BY <1>6 DEF A, B

\* In a line, at most k have fewer than k behind them.
LEMMA LatestFew ==
  ASSUME NEW S, IsFiniteSet(S), NEW R, StrictOrder(R, S), NEW k \in Nat,
         NEW K \in SUBSET S,
         \A a \in K : Cardinality({b \in S : <<a, b>> \in R}) < k
  PROVE  IsFiniteSet(K) /\ Cardinality(K) <= k
<1> DEFINE Behind(a) == {b \in S : <<a, b>> \in R}
           f == [a \in K |-> Cardinality(Behind(a))]
<1>1. \A a \in S : Cardinality(Behind(a)) \in Nat
  <2> SUFFICES ASSUME NEW a \in S PROVE Cardinality(Behind(a)) \in Nat
    OBVIOUS
  <2>1. Behind(a) \in SUBSET S
    OBVIOUS
  <2> HIDE DEF Behind
  <2> QED BY <2>1, FS_Subset, FS_CardinalityType
<1>2. f \in [K -> 0 .. k - 1]
  <2> SUFFICES ASSUME NEW a \in K PROVE Cardinality(Behind(a)) \in 0 .. k - 1
    OBVIOUS
  <2> QED BY <1>1
<1>3. \A a, b \in K : a # b => f[a] # f[b]
  <2> SUFFICES ASSUME NEW a \in K, NEW b \in K, a # b
               PROVE  Cardinality(Behind(a)) # Cardinality(Behind(b))
    OBVIOUS
  <2>1. <<a, b>> \in R \/ <<b, a>> \in R
    BY DEF StrictOrder
  <2>2. Cardinality(Behind(a)) \in Nat /\ Cardinality(Behind(b)) \in Nat
    BY <1>1
  <2>3. \/ Cardinality(Behind(b)) < Cardinality(Behind(a))
        \/ Cardinality(Behind(a)) < Cardinality(Behind(b))
    BY <2>1, LaterCount
  <2> HIDE DEF Behind
  <2> QED BY <2>2, <2>3
<1> HIDE DEF f
<1>4. f \in Injection(K, 0 .. k - 1)
  BY <1>2, <1>3 DEF Injection, IsInjective
<1>5. IsFiniteSet(0 .. k - 1) /\ Cardinality(0 .. k - 1) = k
  BY FS_Interval
<1> QED BY <1>4, <1>5, FS_Injection

\* A part of a line is a line.
LEMMA PartOfOrder ==
  ASSUME NEW S, NEW R, StrictOrder(R, S), NEW T \in SUBSET S
  PROVE  StrictOrder(R \cap (T \X T), T)
BY DEF StrictOrder

Listed(table) == {a \in Addresses : table[a] # Missing}

\* Sweeping leaves no count higher than it was, and at most MaxKeys of one entry more.
LEMMA Capped ==
  ASSUME NEW table \in [Addresses -> Nat \cup {Missing}], NEW order,
         IsFiniteSet(Listed(table)), Cardinality(Listed(table)) <= MaxKeys + 1,
         StrictOrder(order, Listed(table)), Cap(table, order)
  PROVE  /\ Listing' /\ Cardinality(InTable') <= MaxKeys
         /\ \A a \in Addresses :
              \/ failures'[a] = table[a] /\ crowd'[a] = crowd[a]
              \/ failures'[a] = Missing /\ table[a] \in {Missing, 0} /\ crowd'[a] = crowd[a]
              \/ failures'[a] = Missing /\ 2 * crowd'[a] > MaxKeys
<1> DEFINE listed == Listed(table)
           fresh == Fresh(table)
           After(a) == Later(table, order, a)
           n == Cardinality(fresh)
           half == {a \in fresh : Cardinality(After(a)) < n - n \div 2}
           kept == IF Cardinality(listed) <= MaxKeys THEN listed
                   ELSE IF n <= MaxKeys THEN fresh ELSE half
<1>1. /\ failures' = [a \in Addresses |-> IF a \in kept THEN table[a] ELSE Missing]
      /\ before' = order \cap (kept \X kept)
      /\ crowd' = [a \in Addresses |-> IF a \in fresh \ kept THEN Cardinality(After(a))
                                       ELSE crowd[a]]
  <2>1. Kept(table, order) = kept
    BY Zenon DEF Kept, Listed
  <2> HIDE DEF kept
  <2> QED BY <2>1, Zenon DEF Cap
<1>2. fresh \in SUBSET listed /\ half \in SUBSET fresh /\ listed \subseteq Addresses
  BY DEF Listed, Fresh
<1> HIDE DEF half
<1>3. kept \in SUBSET listed
  BY <1>2
<1>4. IsFiniteSet(fresh) /\ n \in Nat /\ n <= MaxKeys + 1
  <2>1. IsFiniteSet(fresh) /\ n <= Cardinality(listed)
    BY <1>2, FS_Subset
  <2>2. n \in Nat /\ Cardinality(listed) \in Nat
    BY <2>1, FS_CardinalityType
  <2> HIDE DEF fresh, listed
  <2> QED BY <2>1, <2>2, LimitAssumption DEF listed
<1>5. IsFiniteSet(half) /\ Cardinality(half) <= n - n \div 2
  <2> DEFINE R == order \cap (fresh \X fresh)
             k == n - n \div 2
  <2>1. StrictOrder(R, fresh)
    BY <1>2, PartOfOrder
  <2>2. k \in Nat
    <3> HIDE DEF fresh, n
    <3> QED BY <1>4
  <2>3. \A a \in half : Cardinality({b \in fresh : <<a, b>> \in R}) < k
    <3>1. \A a \in fresh : After(a) = {b \in fresh : <<a, b>> \in R}
      BY DEF Later
    <3>2. \A a \in half : a \in fresh /\ Cardinality(After(a)) < k
      BY DEF half
    <3> HIDE DEF R, fresh, After, k
    <3> QED BY <3>1, <3>2
  <2>4. half \in SUBSET fresh
    BY <1>2
  <2> HIDE DEF R, fresh, k
  <2>5. IsFiniteSet(half) /\ Cardinality(half) <= k
    BY <1>4, <2>1, <2>2, <2>3, <2>4, LatestFew
  <2> QED BY <2>5 DEF k
<1>6. IsFiniteSet(kept) /\ Cardinality(kept) <= MaxKeys
  <2>1. CASE Cardinality(listed) <= MaxKeys
    BY <2>1
  <2>2. CASE ~(Cardinality(listed) <= MaxKeys) /\ n <= MaxKeys
    BY <2>2, <1>4
  <2>3. CASE ~(Cardinality(listed) <= MaxKeys) /\ ~(n <= MaxKeys)
    <3>1. kept = half
      BY <2>3
    <3>2. Cardinality(half) \in Nat
      BY <1>5, FS_CardinalityType
    <3>3. n - n \div 2 <= MaxKeys
      <4> HIDE DEF n
      <4> QED BY <1>4, LimitAssumption
    <3> HIDE DEF kept, n
    <3> QED BY <1>4, <1>5, <3>1, <3>2, <3>3, LimitAssumption
  <2> QED BY <2>1, <2>2, <2>3
<1>7. ASSUME NEW a \in fresh \ kept
      PROVE  2 * Cardinality(After(a)) > MaxKeys
  <2>1. ~(Cardinality(listed) <= MaxKeys) /\ ~(n <= MaxKeys) /\ kept = half
    BY <1>2, <1>7
  <2>2. ~(Cardinality(After(a)) < n - n \div 2)
    BY <1>7, <2>1 DEF half
  <2>3. Cardinality(After(a)) \in Nat
    <3>1. After(a) \in SUBSET fresh
      BY DEF Later
    <3> HIDE DEF After, fresh
    <3> QED BY <1>4, <3>1, FS_Subset, FS_CardinalityType
  <2> HIDE DEF After, n, kept
  <2> QED BY <1>4, <2>1, <2>2, <2>3, LimitAssumption
<1> HIDE DEF kept
<1>11. ASSUME NEW a \in Addresses
       PROVE  \/ failures'[a] = table[a] /\ crowd'[a] = crowd[a]
              \/ failures'[a] = Missing /\ table[a] \in {Missing, 0} /\ crowd'[a] = crowd[a]
              \/ failures'[a] = Missing /\ 2 * crowd'[a] > MaxKeys
  <2> HIDE DEF After
  <2>1. CASE a \in kept
    BY <1>1, <2>1
  <2>2. CASE a \in fresh \ kept
    BY <1>1, <1>7, <2>2
  <2>3. CASE a \notin kept /\ a \notin fresh
    <3>1. table[a] \in {Missing, 0}
      BY <2>3 DEF Fresh
    <3> QED BY <1>1, <2>3, <3>1
  <2> QED BY <2>1, <2>2, <2>3
<1>8. failures' \in [Addresses -> Nat \cup {Missing}]
  BY <1>1
<1>9. InTable' = kept
  BY <1>1, <1>2, <1>3 DEF InTable, Listed
<1>10. StrictOrder(before', InTable')
  BY <1>1, <1>3, <1>9, PartOfOrder
<1> QED BY <1>6, <1>8, <1>9, <1>10, <1>11 DEF Listing

\* record_failure: the caller has failed once more, and no other more often.
LEMMA Recorded ==
  ASSUME Listing, Cardinality(InTable) <= MaxKeys, NEW a \in Addresses, RecordFailure(a)
  PROVE  /\ Listing' /\ Cardinality(InTable') <= MaxKeys
         /\ failures'[a] \in {Missing, Count(a) + 1}
         /\ \A b \in Addresses \ {a} : failures'[b] \in {Missing, failures[b]}
         /\ Reasoned => Reasoned'
<1> DEFINE table == [failures EXCEPT ![a] = Count(a) + 1]
           order == Without(a) \cup ((InTable \ {a}) \X {a})
<1>1. Cap(table, order)
  BY DEF RecordFailure
<1>2. Count(a) + 1 \in Nat /\ Count(a) + 1 # Missing
  BY MissingAssumption DEF Count, Listing
<1>3. /\ table \in [Addresses -> Nat \cup {Missing}]
      /\ table[a] = Count(a) + 1
      /\ \A b \in Addresses \ {a} : table[b] = failures[b]
  BY <1>2 DEF Listing
<1> HIDE DEF table
<1>4. Listed(table) = InTable \cup {a}
  BY <1>2, <1>3 DEF Listed, InTable
<1>5. IsFiniteSet(Listed(table)) /\ Cardinality(Listed(table)) <= MaxKeys + 1
  <2>1. Cardinality(InTable) \in Nat
    BY FS_CardinalityType DEF Listing
  <2> QED BY <1>4, <2>1, FS_AddElement, LimitAssumption DEF Listing
<1>6. StrictOrder(order, InTable \cup {a})
  BY DEF Listing, StrictOrder, Without
<1> HIDE DEF order
<1>7. /\ Listing' /\ Cardinality(InTable') <= MaxKeys
      /\ \A b \in Addresses :
           \/ failures'[b] = table[b] /\ crowd'[b] = crowd[b]
           \/ failures'[b] = Missing /\ table[b] \in {Missing, 0} /\ crowd'[b] = crowd[b]
           \/ failures'[b] = Missing /\ 2 * crowd'[b] > MaxKeys
  BY <1>1, <1>3, <1>4, <1>5, <1>6, Capped
<1>8. ASSUME Reasoned PROVE Reasoned'
  <2>1. failed' = [failed EXCEPT ![a] = failed[a] + 1] /\ pardoned' = pardoned
    BY DEF RecordFailure
  <2>2. failed' \in [Addresses -> Nat]
    BY <1>8, <2>1 DEF Reasoned
  <2>3. ASSUME NEW b \in Addresses
        PROVE  Count(b)' <= failed'[b] /\ (Count(b)' < failed'[b] => Excused(b)')
    <3> DEFINE was == IF b = a THEN Count(a) + 1 ELSE Count(b)
    <3>1. was \in Nat /\ failed'[b] \in Nat /\ was <= failed'[b]
          /\ (was < failed'[b] => Excused(b))
      BY <1>2, <1>8, <2>1, <2>2 DEF Reasoned, Count, Listing
    <3>2. was = IF table[b] = Missing THEN 0 ELSE table[b]
      BY <1>2, <1>3 DEF Count
    <3> HIDE DEF was
    <3>3. CASE failures'[b] = table[b] /\ crowd'[b] = crowd[b]
      BY <2>1, <3>1, <3>2, <3>3 DEF Count, Excused
    <3>4. CASE failures'[b] = Missing /\ table[b] \in {Missing, 0} /\ crowd'[b] = crowd[b]
      BY <2>1, <3>1, <3>2, <3>4 DEF Count, Excused
    <3>5. CASE failures'[b] = Missing /\ 2 * crowd'[b] > MaxKeys
      BY <3>1, <3>5 DEF Count, Excused
    <3> QED BY <1>7, <3>3, <3>4, <3>5
  <2> QED BY <2>2, <2>3 DEF Reasoned
<1> QED BY <1>3, <1>7, <1>8

\* reset: the caller is in the table no more.
LEMMA Forgotten ==
  ASSUME Listing, Cardinality(InTable) <= MaxKeys, NEW a \in Addresses, Reset(a)
  PROVE  /\ Listing' /\ Cardinality(InTable') <= MaxKeys
         /\ failures' = [failures EXCEPT ![a] = Missing]
         /\ Reasoned => Reasoned'
<1>1. failures' = [failures EXCEPT ![a] = Missing] /\ before' = Without(a)
  BY DEF Reset
<1>2. failures' \in [Addresses -> Nat \cup {Missing}]
  BY <1>1 DEF Listing
<1>3. InTable' = InTable \ {a}
  BY <1>1 DEF InTable, Listing
<1>4. IsFiniteSet(InTable') /\ Cardinality(InTable') <= MaxKeys
  <2>1. IsFiniteSet(InTable') /\ Cardinality(InTable') <= Cardinality(InTable)
    BY <1>3, FS_Subset DEF Listing
  <2>2. Cardinality(InTable) \in Nat /\ Cardinality(InTable') \in Nat
    BY <2>1, FS_CardinalityType DEF Listing
  <2> QED BY <2>1, <2>2, LimitAssumption
<1>5. StrictOrder(before', InTable')
  BY <1>1, <1>3 DEF Listing, StrictOrder, Without
<1>6. ASSUME Reasoned PROVE Reasoned'
  <2>1. /\ UNCHANGED <<failed, crowd>>
        /\ pardoned' = IF Count(a) > 0 THEN pardoned \cup {a} ELSE pardoned
    BY DEF Reset
  <2>2. ASSUME NEW b \in Addresses
        PROVE  Count(b)' <= failed[b] /\ (Count(b)' < failed[b] => Excused(b)')
    <3>1. Excused(b) => Excused(b)'
      BY <2>1 DEF Excused
    <3>2. CASE b # a
      BY <1>1, <1>6, <3>1, <3>2 DEF Reasoned, Count, Listing
    <3>3. CASE b = a
      <4>1. Count(a)' = 0 /\ Count(a) \in Nat
        BY <1>1 DEF Count, Listing
      <4>2. CASE Count(a) > 0
        BY <1>6, <2>1, <3>3, <4>1, <4>2 DEF Reasoned, Excused
      <4>3. CASE Count(a) = 0
        BY <1>6, <3>1, <3>3, <4>1, <4>3 DEF Reasoned
      <4> QED BY <4>1, <4>2, <4>3
    <3> QED BY <3>2, <3>3
  <2> QED BY <1>6, <2>1, <2>2 DEF Reasoned
<1> QED BY <1>1, <1>2, <1>4, <1>5, <1>6 DEF Listing

LEMMA CountType ==
  ASSUME Listing, NEW a \in Addresses
  PROVE  Count(a) \in Nat
BY DEF Listing, Count

LEMMA TryingType ==
  ASSUME NEW a
  PROVE  /\ IsFiniteSet(Trying(a)) /\ Cardinality(Trying(a)) \in Nat
         /\ Cardinality(Pool) \in Nat /\ Cardinality(Trying(a)) <= Cardinality(Pool)
<1>1. Trying(a) \in SUBSET Pool
  BY DEF Trying
<1>2. IsFiniteSet(Trying(a)) /\ Cardinality(Trying(a)) <= Cardinality(Pool)
  BY <1>1, ThreadAssumption, FS_Subset
<1> QED BY <1>2, ThreadAssumption, FS_CardinalityType

\* An address that fails no more often, and from which no more logins are being tried,
\* is throttled as before.
LEMMA Eased ==
  ASSUME Listing, Listing', Bounded, NEW a \in Addresses,
         Count(a)' <= Count(a), Trying(a)' \subseteq Trying(a)
  PROVE  /\ a \notin Counted =>
              Count(a)' + Cardinality(Trying(a)') <= MaxFailures + Cardinality(Pool) - 1
         /\ a \in Counted => Count(a)' <= MaxFailures
<1>1. Count(a) \in Nat /\ Count(a)' \in Nat
  BY CountType DEF Listing, Count
<1>2. /\ Cardinality(Trying(a)) \in Nat /\ Cardinality(Trying(a)') \in Nat
      /\ Cardinality(Trying(a)') <= Cardinality(Trying(a))
  <2>1. IsFiniteSet(Trying(a)) /\ Cardinality(Trying(a)) \in Nat
    BY TryingType
  <2>2. IsFiniteSet(Trying(a)') /\ Cardinality(Trying(a)') <= Cardinality(Trying(a))
    BY <2>1, FS_Subset
  <2> QED BY <2>1, <2>2, FS_CardinalityType
<1>3. Cardinality(Pool) \in Nat
  BY TryingType
<1>4. /\ a \notin Counted =>
           Count(a) + Cardinality(Trying(a)) <= MaxFailures + Cardinality(Pool) - 1
      /\ a \in Counted => Count(a) <= MaxFailures
  BY DEF Bounded
<1> QED BY <1>1, <1>2, <1>3, <1>4, LimitAssumption

LEMMA ThrottleInit == ASSUME AccountsInit PROVE ThrottleInv
<1>1. InTable = {}
  BY DEF AccountsInit, InTable
<1>2. Listing
  BY <1>1, FS_EmptySet DEF AccountsInit, Listing, StrictOrder
<1>3. Callers
  BY DEF AccountsInit, Callers, Free
<1>4. Bounded
  <2>1. \A a \in Addresses : Count(a) = 0
    BY DEF AccountsInit, Count
  <2>2. \A a \in Addresses : Trying(a) = {} /\ Cardinality(Trying(a)) = 0
    BY FS_EmptySet DEF AccountsInit, Trying, Free
  <2>3. Cardinality(Pool) \in Nat
    BY ThreadAssumption, FS_CardinalityType
  <2>4. Cardinality({a \in Addresses : failures[a] # Missing}) <= MaxKeys
    BY <1>1, FS_EmptySet, LimitAssumption DEF InTable
  <2> QED BY <2>1, <2>2, <2>3, <2>4, CountedAssumption, LimitAssumption DEF Bounded
<1>5. Reasoned
  BY DEF AccountsInit, Reasoned, Count
<1> QED BY <1>2, <1>3, <1>4, <1>5 DEF ThrottleInv

\* A step that leaves the limiter and the logins in progress as they are, or ends one
LEMMA NoneFails ==
  ASSUME ThrottleInv, Listing', Callers', Reasoned', Cardinality(InTable') <= MaxKeys,
         \A a \in Addresses : Count(a)' <= Count(a) /\ Trying(a)' \subseteq Trying(a)
  PROVE  ThrottleInv'
<1>1. \A a \in Addresses :
        /\ a \notin Counted =>
             Count(a)' + Cardinality(Trying(a)') <= MaxFailures + Cardinality(Pool) - 1
        /\ a \in Counted => Count(a)' <= MaxFailures
  BY Eased DEF ThrottleInv
<1>2. Bounded'
  BY <1>1, CountedAssumption DEF Bounded, InTable
<1> QED BY <1>2 DEF ThrottleInv

\* login asks before the password is compared: at most every thread is then trying.
LEMMA LoginBegins ==
  ASSUME ThrottleInv, NEW t \in Pool, NEW u \in Users, NEW a \in Addresses,
         LoginBegin(t, u, a)
  PROVE  ThrottleInv'
<1>1. /\ a \notin Counted /\ Count(a) < MaxFailures /\ Ask(a)
      /\ handler' = [handler EXCEPT ![t] = [at |-> "login", user |-> u, from |-> a]]
  BY DEF LoginBegin, Start, Ask, IsAllowed
<1>2. /\ Listing' /\ Cardinality(InTable') <= MaxKeys /\ Reasoned'
      /\ \A b \in Addresses : Count(b)' = Count(b)
  <2>1. CASE Count(a) = 0
    <3>1. Reset(a)
      BY <1>1, <2>1 DEF Ask
    <3>2. /\ Listing' /\ Cardinality(InTable') <= MaxKeys /\ Reasoned'
          /\ failures' = [failures EXCEPT ![a] = Missing]
      BY <3>1, Forgotten DEF ThrottleInv, Bounded, InTable
    <3>3. \A b \in Addresses : Count(b)' = Count(b)
      BY <2>1, <3>2 DEF Count, ThrottleInv, Listing
    <3> QED BY <3>2, <3>3
  <2>2. CASE Count(a) # 0
    <3>1. UNCHANGED limiter
      BY <1>1, <2>2 DEF Ask
    <3> QED BY <3>1 DEF limiter, noted, ThrottleInv, Bounded, Listing, InTable, Count,
                       Reasoned, Excused
  <2> QED BY <2>1, <2>2
<1>3. Callers'
  BY <1>1 DEF ThrottleInv, Callers
<1>4. \A b \in Addresses \ {a} : Trying(b)' \subseteq Trying(b)
  BY <1>1 DEF Trying, ThrottleInv, Callers
<1>5. Count(a)' + Cardinality(Trying(a)') <= MaxFailures + Cardinality(Pool) - 1
  <2>1. Trying(a)' \in SUBSET Pool
    BY DEF Trying
  <2>2. IsFiniteSet(Trying(a)') /\ Cardinality(Trying(a)') <= Cardinality(Pool)
    BY <2>1, ThreadAssumption, FS_Subset
  <2>3. Cardinality(Trying(a)') \in Nat /\ Cardinality(Pool) \in Nat
    BY <2>2, ThreadAssumption, FS_CardinalityType
  <2>4. Count(a) \in Nat
    BY CountType DEF ThrottleInv
  <2> QED BY <1>1, <1>2, <2>2, <2>3, <2>4, LimitAssumption
<1>6. \A b \in Addresses \ {a} :
        /\ b \notin Counted =>
             Count(b)' + Cardinality(Trying(b)') <= MaxFailures + Cardinality(Pool) - 1
        /\ b \in Counted => Count(b)' <= MaxFailures
  <2> SUFFICES ASSUME NEW b \in Addresses \ {a}
               PROVE  /\ b \notin Counted => Count(b)' + Cardinality(Trying(b)')
                                               <= MaxFailures + Cardinality(Pool) - 1
                      /\ b \in Counted => Count(b)' <= MaxFailures
    OBVIOUS
  <2>1. Count(b)' <= Count(b)
    BY <1>2, CountType DEF ThrottleInv
  <2> QED BY <1>2, <1>4, <2>1, Eased DEF ThrottleInv
<1>7. Bounded'
  BY <1>1, <1>2, <1>5, <1>6, CountedAssumption DEF Bounded, InTable
<1> QED BY <1>2, <1>3, <1>7 DEF ThrottleInv

\* A wrong password moves a login from those that are being tried to those that failed.
LEMMA LoginFails ==
  ASSUME ThrottleInv, NEW t \in Pool, NEW a, a = handler[t].from, LoginWrong(t)
  PROVE  ThrottleInv'
<1>1. /\ a \in Addresses \ Counted /\ t \in Trying(a)
      /\ RecordFailure(a) /\ handler' = [handler EXCEPT ![t] = Free]
  BY DEF LoginWrong, Answer, ThrottleInv, Callers, Trying
<1>2. /\ Listing' /\ Cardinality(InTable') <= MaxKeys /\ Reasoned'
      /\ failures'[a] \in {Missing, Count(a) + 1}
      /\ \A b \in Addresses \ {a} : failures'[b] \in {Missing, failures[b]}
  BY <1>1, Recorded DEF ThrottleInv, Bounded, InTable
<1>3. Callers'
  BY <1>1 DEF ThrottleInv, Callers, Free
<1>4. \A b \in Addresses : Trying(b)' = Trying(b) \ {t}
  BY <1>1 DEF Trying, ThrottleInv, Callers, Free
<1>5. Count(a)' + Cardinality(Trying(a)') <= MaxFailures + Cardinality(Pool) - 1
  <2>1. IsFiniteSet(Trying(a)) /\ Cardinality(Trying(a)) \in Nat /\ Cardinality(Pool) \in Nat
    BY TryingType
  <2>2. Cardinality(Trying(a)') = Cardinality(Trying(a)) - 1
    BY <1>1, <1>4, <2>1, FS_RemoveElement
  <2>3. Count(a) \in Nat
    BY <1>1, CountType DEF ThrottleInv
  <2>4. Count(a)' \in {0, Count(a) + 1}
    BY <1>2 DEF Count
  <2>5. Count(a) + Cardinality(Trying(a)) <= MaxFailures + Cardinality(Pool) - 1
    BY <1>1 DEF ThrottleInv, Bounded
  <2> QED BY <2>1, <2>2, <2>3, <2>4, <2>5, LimitAssumption
<1>6. \A b \in Addresses \ {a} :
        /\ b \notin Counted =>
             Count(b)' + Cardinality(Trying(b)') <= MaxFailures + Cardinality(Pool) - 1
        /\ b \in Counted => Count(b)' <= MaxFailures
  <2> SUFFICES ASSUME NEW b \in Addresses \ {a}
               PROVE  /\ b \notin Counted => Count(b)' + Cardinality(Trying(b)')
                                               <= MaxFailures + Cardinality(Pool) - 1
                      /\ b \in Counted => Count(b)' <= MaxFailures
    OBVIOUS
  <2>1. Count(b)' <= Count(b)
    BY <1>2 DEF Count, ThrottleInv, Listing
  <2> QED BY <1>2, <1>4, <2>1, Eased DEF ThrottleInv
<1>7. Bounded'
  BY <1>1, <1>2, <1>5, <1>6, CountedAssumption DEF Bounded, InTable
<1> QED BY <1>2, <1>3, <1>7 DEF ThrottleInv

\* An attempt that is counted at once is counted only while it is allowed.
LEMMA AttemptCounts ==
  ASSUME ThrottleInv, NEW a \in Addresses, Attempt(a)
  PROVE  ThrottleInv'
<1>1. a \in Counted /\ Count(a) < MaxFailures /\ RecordFailure(a) /\ UNCHANGED handler
  BY DEF Attempt, IsAllowed
<1>2. /\ Listing' /\ Cardinality(InTable') <= MaxKeys /\ Reasoned'
      /\ failures'[a] \in {Missing, Count(a) + 1}
      /\ \A b \in Addresses \ {a} : failures'[b] \in {Missing, failures[b]}
  BY <1>1, Recorded DEF ThrottleInv, Bounded, InTable
<1>3. Callers' /\ \A b \in Addresses : Trying(b)' = Trying(b)
  BY <1>1 DEF ThrottleInv, Callers, Trying
<1>4. Count(a)' <= MaxFailures
  <2>1. Count(a) \in Nat
    BY CountType DEF ThrottleInv
  <2>2. Count(a)' \in {0, Count(a) + 1}
    BY <1>2 DEF Count
  <2> QED BY <1>1, <2>1, <2>2, LimitAssumption
<1>5. \A b \in Addresses \ {a} :
        /\ b \notin Counted =>
             Count(b)' + Cardinality(Trying(b)') <= MaxFailures + Cardinality(Pool) - 1
        /\ b \in Counted => Count(b)' <= MaxFailures
  <2> SUFFICES ASSUME NEW b \in Addresses \ {a}
               PROVE  /\ b \notin Counted => Count(b)' + Cardinality(Trying(b)')
                                               <= MaxFailures + Cardinality(Pool) - 1
                      /\ b \in Counted => Count(b)' <= MaxFailures
    OBVIOUS
  <2>1. Count(b)' <= Count(b)
    BY <1>2 DEF Count, ThrottleInv, Listing
  <2> QED BY <1>2, <1>3, <2>1, Eased DEF ThrottleInv
<1>6. Bounded'
  BY <1>1, <1>2, <1>4, <1>5, CountedAssumption DEF Bounded, InTable
<1> QED BY <1>2, <1>3, <1>6 DEF ThrottleInv

LEMMA ThrottleNext == ASSUME ThrottleInv, [AccountsNext]_accountsVars PROVE ThrottleInv'
<1>a. ASSUME UNCHANGED limiter,
             \/ UNCHANGED handler
             \/ \E t \in Pool : \E w :
                  handler' = [handler EXCEPT ![t] = w] /\ w.at # "login"
      PROVE  ThrottleInv'
  <2>1. /\ Listing' /\ Cardinality(InTable') <= MaxKeys /\ Reasoned'
        /\ \A a \in Addresses : Count(a)' = Count(a)
    BY <1>a DEF limiter, noted, ThrottleInv, Bounded, Listing, InTable, Count, Reasoned,
                Excused
  <2>2. Callers' /\ \A a \in Addresses : Trying(a)' \subseteq Trying(a)
    BY <1>a DEF ThrottleInv, Callers, Trying
  <2>3. \A a \in Addresses : Count(a)' <= Count(a)
    BY <2>1, CountType DEF ThrottleInv
  <2> QED BY <2>1, <2>2, <2>3, NoneFails
<1>1. ASSUME NEW u \in Users, Signup(u) \/ Logout(u) PROVE ThrottleInv'
  BY <1>1, <1>a DEF Signup, Logout
<1>2. ASSUME NEW t \in Pool, NEW u \in Users, ChangeBegin(t, u) PROVE ThrottleInv'
  <2> DEFINE w == [at |-> "change", user |-> u, seen |-> account[u]]
  <2>1. handler' = [handler EXCEPT ![t] = w] /\ w.at # "login" /\ UNCHANGED limiter
    BY <1>2 DEF ChangeBegin, Start
  <2> HIDE DEF w
  <2> QED BY <1>a, <2>1
<1>3. ASSUME NEW t \in Pool, NEW u \in Users, NEW a \in Addresses, LoginBegin(t, u, a)
      PROVE  ThrottleInv'
  BY <1>3, LoginBegins
<1>4. ASSUME NEW t \in Pool, LoginWrong(t) PROVE ThrottleInv'
  BY <1>4, LoginFails
<1>5. ASSUME NEW t \in Pool, LoginRight(t) PROVE ThrottleInv'
  <2>1. /\ handler[t].from \in Addresses /\ Reset(handler[t].from)
        /\ handler' = [handler EXCEPT ![t] = Free]
    BY <1>5 DEF LoginRight, Answer, ThrottleInv, Callers
  <2>2. /\ Listing' /\ Cardinality(InTable') <= MaxKeys /\ Reasoned'
        /\ failures' = [failures EXCEPT ![handler[t].from] = Missing]
    BY <2>1, Forgotten DEF ThrottleInv, Bounded, InTable
  <2>3. Callers' /\ \A a \in Addresses : Trying(a)' \subseteq Trying(a)
    BY <2>1 DEF ThrottleInv, Callers, Trying, Free
  <2>4. \A a \in Addresses : Count(a)' <= Count(a)
    BY <2>2 DEF Count, ThrottleInv, Listing
  <2> QED BY <2>2, <2>3, <2>4, NoneFails
<1>6. ASSUME NEW t \in Pool, ChangeEnd(t) \/ AdminEnd(t) PROVE ThrottleInv'
  <2>1. handler' = [handler EXCEPT ![t] = Free] /\ Free.at # "login" /\ UNCHANGED limiter
    BY <1>6 DEF ChangeEnd, AdminEnd, Answer, Free
  <2> QED BY <1>a, <2>1
<1>7. ASSUME NEW a \in Addresses, Pass(a) PROVE ThrottleInv'
  <2> DEFINE rest == failed[a] - 1
  <2>1. /\ failed[a] > 0 /\ failed' = [failed EXCEPT ![a] = rest]
        /\ failures' = IF rest < Count(a) THEN [failures EXCEPT ![a] = rest] ELSE failures
        /\ pardoned' = IF rest <= Count(a) THEN pardoned \ {a} ELSE pardoned
        /\ crowd' = IF rest <= Count(a) THEN [crowd EXCEPT ![a] = 0] ELSE crowd
        /\ UNCHANGED <<before, handler>>
    BY <1>7, Zenon DEF Pass
  <2>2. /\ failed[a] \in Nat /\ Count(a) \in Nat /\ Count(a) <= failed[a]
        /\ rest \in Nat /\ rest # Missing
    BY <2>1, MissingAssumption, CountType DEF ThrottleInv, Reasoned
  <2> HIDE DEF rest
  <2>3. /\ failures' \in [Addresses -> Nat \cup {Missing}]
        /\ Count(a)' = (IF rest < Count(a) THEN rest ELSE Count(a))
        /\ \A b \in Addresses \ {a} : failures'[b] = failures[b] /\ Count(b)' = Count(b)
        /\ failures'[a] = Missing <=> failures[a] = Missing
    <3>1. rest < Count(a) => failures[a] # Missing
      BY <2>2 DEF Count
    <3> QED BY <2>1, <2>2, <3>1 DEF Count, ThrottleInv, Listing
  <2>4. InTable' = InTable
    BY <2>3 DEF InTable
  <2>5. Listing' /\ Cardinality(InTable') <= MaxKeys
    BY <2>1, <2>3, <2>4 DEF ThrottleInv, Bounded, Listing, InTable
  <2>6. Reasoned'
    <3>1. failed' \in [Addresses -> Nat]
      BY <2>1, <2>2 DEF ThrottleInv, Reasoned
    <3>2. ASSUME NEW b \in Addresses \ {a}
          PROVE  Count(b)' <= failed'[b] /\ (Count(b)' < failed'[b] => Excused(b)')
      <4>1. Excused(b) => Excused(b)'
        BY <2>1, <3>2 DEF Excused
      <4> QED BY <2>1, <2>3, <4>1 DEF ThrottleInv, Reasoned
    <3>3. Count(a)' <= failed'[a]
      BY <2>1, <2>2, <2>3 DEF ThrottleInv, Reasoned
    <3>4. Count(a)' < failed'[a] => Excused(a)'
      <4>1. SUFFICES ASSUME Count(a)' < failed'[a] PROVE Excused(a)'
        OBVIOUS
      <4>2. failed'[a] = rest
        BY <2>1 DEF ThrottleInv, Reasoned
      <4>3. Count(a) < rest
        BY <2>2, <2>3, <4>1, <4>2
      <4>4. rest < failed[a]
        BY <2>2 DEF rest
      <4>5. Excused(a) /\ UNCHANGED <<pardoned, crowd>>
        BY <2>1, <2>2, <4>3, <4>4 DEF ThrottleInv, Reasoned
      <4> QED BY <4>5 DEF Excused
    <3> QED BY <3>1, <3>2, <3>3, <3>4 DEF Reasoned
  <2>7. Callers' /\ \A b \in Addresses : Trying(b)' = Trying(b)
    BY <2>1 DEF ThrottleInv, Callers, Trying
  <2>8. \A b \in Addresses : Count(b)' <= Count(b)
    BY <2>2, <2>3, CountType DEF ThrottleInv
  <2> QED BY <2>5, <2>6, <2>7, <2>8, NoneFails
<1>8. ASSUME NEW a \in Addresses, Attempt(a) PROVE ThrottleInv'
  BY <1>8, AttemptCounts
<1>9. ASSUME NEW t \in Pool, NEW by \in Users, NEW u \in Users,
             \/ Approve(t, by, u) \/ Reject(t, by, u) \/ Toggle(t, by, u)
             \/ ResetPassword(t, by, u) \/ DeleteUser(t, by, u)
      PROVE  ThrottleInv'
  <2>1. ASSUME NEW at \in AdminWork, Administer(t, by, at, u) PROVE ThrottleInv'
    <3> DEFINE w == [at |-> at, user |-> u, seen |-> account[u]]
    <3>1. handler' = [handler EXCEPT ![t] = w] /\ w.at # "login" /\ UNCHANGED limiter
      BY <2>1 DEF Administer, Start, AdminWork
    <3> HIDE DEF w
    <3> QED BY <1>a, <3>1
  <2> QED BY <1>9, <2>1 DEF Approve, Reject, Toggle, ResetPassword, DeleteUser, AdminWork
<1>10. CASE UNCHANGED accountsVars
  BY <1>10, <1>a DEF accountsVars
<1> QED BY <1>1, <1>2, <1>3, <1>4, <1>5, <1>6, <1>7, <1>8, <1>9, <1>10
        DEF AccountsNext, OwnStep, AdminStep

\* What the table knows and what it does not, together: a failure too many has its reason.
LEMMA TooManyIsExcused == ASSUME ThrottleInv PROVE Throttled
<1>1. ASSUME NEW a \in Addresses, failed[a] + Cardinality(Trying(a)) > Limit(a)
      PROVE  Excused(a)
  <2>1. /\ Count(a) \in Nat /\ failed[a] \in Nat /\ Count(a) <= failed[a]
        /\ Count(a) < failed[a] => Excused(a)
    BY CountType DEF ThrottleInv, Reasoned
  <2>2. Cardinality(Trying(a)) \in Nat /\ Cardinality(Pool) \in Nat
    BY TryingType
  <2>3. CASE a \in Counted
    <3>1. Trying(a) = {}
      BY <2>3 DEF Trying, ThrottleInv, Callers
    <3>2. Cardinality(Trying(a)) = 0
      BY <3>1, FS_EmptySet
    <3>3. Count(a) <= MaxFailures
      BY <2>3 DEF ThrottleInv, Bounded
    <3> QED BY <1>1, <2>1, <2>3, <3>2, <3>3, LimitAssumption DEF Limit
  <2>4. CASE a \notin Counted
    <3>1. Count(a) + Cardinality(Trying(a)) <= MaxFailures + Cardinality(Pool) - 1
      BY <2>4 DEF ThrottleInv, Bounded
    <3> QED BY <1>1, <2>1, <2>2, <2>4, <3>1, LimitAssumption DEF Limit
  <2> QED BY <2>3, <2>4
<1> QED BY <1>1 DEF ThrottleInv, Bounded, Throttled, InTable

\* Whatever the order in which logins ask the limiter, compare passwords and report: no
\* address fails more often in a window than it may, but for one login of each other thread,
\* unless the right password was given meanwhile, or more than half as many others as the
\* table holds had failed since when it was dropped; and the table keeps to its size.
THEOREM FailuresAreBounded == AccountsSpec => []Throttled
<1>1. ThrottleInv /\ [AccountsNext]_accountsVars => ThrottleInv'
  BY ThrottleNext
<1> QED BY <1>1, TooManyIsExcused, ThrottleInit, PTL DEF AccountsSpec
=============================================================================
