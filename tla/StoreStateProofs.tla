--------------------------- MODULE StoreStateProofs ---------------------------
(***************************************************************************)
(* What the operators of Backoff and StoreState compute, for every value:  *)
(* the schedule survives the log's text, apply leaves messages messages,   *)
(* the sorted lists are sorted and complete, and a replay is one apply per *)
(* record.  The theorems about the modules built from these operators cite *)
(* them.                                                                   *)
(***************************************************************************)
EXTENDS StoreState, FiniteSetTheorems, TLAPS

(***************************************************************************)
(* String then Parse is the identity on every duration: the trailing units *)
(* that fmtDuration trims are exactly zero ones.                           *)
(***************************************************************************)
THEOREM DurationRoundTrip ==
    ASSUME NEW d \in Nat
    PROVE  ParseDuration(FmtDuration(d)) = d
<1> DEFINE h == d \div 3600
           m == (d % 3600) \div 60
           s == d % 60
<1>1. h \in Nat /\ m \in Nat /\ s \in Nat
    OBVIOUS
<1>2. d = h * 3600 + m * 60 + s
    OBVIOUS
<1>3. (d < 60 => h = 0 /\ m = 0) /\ (d < 3600 => h = 0)
    OBVIOUS
<1>4. QED
    BY <1>1, <1>2, <1>3
    DEF ParseDuration, FmtDuration, UnitsPrinted, UnitsTrimmed, Number, SecondsIn

(***************************************************************************)
(* The schedule init was given is the schedule every later command reads   *)
(* from a config or snapshot record, and its text always parses.           *)
(***************************************************************************)
THEOREM ScheduleRoundTrip ==
    ASSUME NEW s \in Schedule
    PROVE  /\ Parses(ScheduleText(s))
           /\ ParseSchedule(ScheduleText(s)) = s
<1>1. s \in Seq(Nat) /\ Len(s) \in Nat /\ Len(s) <= MaxEntries
    BY DEF Schedule
<1>2. Len(ScheduleText(s)) = Len(s)
    BY <1>1 DEF ScheduleText
<1>3. ASSUME NEW i \in 1..Len(s)
      PROVE  ParseDuration(ScheduleText(s)[i]) = s[i]
    BY <1>1, <1>3, DurationRoundTrip DEF ScheduleText
<1>4. s = [i \in 1..Len(s) |-> s[i]]
    BY <1>1
<1>5. QED
    BY <1>1, <1>2, <1>3, <1>4 DEF Parses, ParseSchedule

-----------------------------------------------------------------------------
(***************************************************************************)
(* Whatever treats a message leaves it a message.                          *)
(***************************************************************************)
LEMMA NewMessageType ==
    ASSUME NEW name \in Names, NEW now \in Nat
    PROVE  NewMessage(name, now) \in Message
    BY DEF NewMessage, Message, Reasons, States, Verdicts

LEMMA OrphanedType ==
    ASSUME NEW m \in Message
    PROVE  Orphaned(m) \in Message
    BY DEF Orphaned, Message, Reasons, States, NoTime

LEMMA RequeuedType ==
    ASSUME NEW m \in Message, NEW now \in Nat
    PROVE  Requeued(m, now) \in Message
    BY DEF Requeued, Message, Reasons, States

LEMMA AttemptedType ==
    ASSUME NEW m \in Message, NEW r,
           r.verdict \in Verdicts, r.outcome \in Outcomes, r.nextDue \in Nat
    PROVE  Attempted(m, r) \in Message
<1> DEFINE attempts == Append(m.attempts, r.verdict)
<1>1. attempts \in Seq(Verdicts) /\ m.failStreak + 1 \in Nat
    BY DEF Message
<1>2. [m EXCEPT !.attempts = attempts] \in Message
    BY <1>1 DEF Message
<1>3. CASE r.outcome = "delivered"
    BY <1>2, <1>3 DEF Attempted, DeliveredNow, RetriedAt, Exhausted, Message, States, NoTime
<1>4. CASE r.outcome = "retry"
    BY <1>1, <1>2, <1>4 DEF Attempted, DeliveredNow, RetriedAt, Exhausted, Message
<1>5. CASE r.outcome = "dead"
    BY <1>1, <1>2, <1>5 DEF Attempted, DeliveredNow, RetriedAt, Exhausted, Message, States, Reasons, NoTime
<1>6. QED
    BY <1>3, <1>4, <1>5 DEF Outcomes

-----------------------------------------------------------------------------
(***************************************************************************)
(* A finite set is listed completely, without repetition and in order,     *)
(* when the order is a strict total one: the rank of an element, the       *)
(* number of those up to it, is its place.                                 *)
(***************************************************************************)
TotallyOrders(before, S) ==
    /\ \A a, b \in S : a # b => <<a, b>> \in before \/ <<b, a>> \in before
    /\ \A a, b \in S : <<a, b>> \in before => <<b, a>> \notin before
    /\ \A a, b, c \in S :
          <<a, b>> \in before /\ <<b, c>> \in before => <<a, c>> \in before

LEMMA ArrangedProperties ==
    ASSUME NEW S, IsFiniteSet(S), NEW before, TotallyOrders(before, S)
    PROVE  LET f == Arranged(S, before)
               n == Cardinality(S)
           IN  /\ n \in Nat
               /\ f \in [1..n -> S]
               /\ \A j, k \in 1..n : f[j] = f[k] => j = k
               /\ \A a \in S : \E k \in 1..n : f[k] = a
               /\ \A j, k \in 1..n : j < k => <<f[j], f[k]>> \in before
<1> DEFINE n == Cardinality(S)
           UpTo(a) == {b \in S : b = a \/ <<b, a>> \in before}
           rank == [a \in S |-> Cardinality(UpTo(a))]
           Ordered(f) == \A j, k \in 1..n : j < k => <<f[j], f[k]>> \in before
<1>1. n \in Nat /\ IsFiniteSet(1..n) /\ Cardinality(1..n) = n
  <2>1. n \in Nat
    BY FS_CardinalityType
  <2> HIDE DEF n
  <2>2. IsFiniteSet(1..n) /\ Cardinality(1..n) = IF 1 > n THEN 0 ELSE n - 1 + 1
    BY <2>1, FS_Interval
  <2> QED
    BY <2>1, <2>2
<1>2. ASSUME NEW a \in S
      PROVE  IsFiniteSet(UpTo(a)) /\ rank[a] \in 1..n /\ rank[a] \in Nat
  <2>1. UpTo(a) \in SUBSET S /\ UpTo(a) # {}
    OBVIOUS
  <2>2. IsFiniteSet(UpTo(a)) /\ Cardinality(UpTo(a)) <= n
    BY <2>1, FS_Subset
  <2>3. Cardinality(UpTo(a)) \in Nat /\ Cardinality(UpTo(a)) # 0
    BY <2>1, <2>2, FS_CardinalityType, FS_EmptySet
  <2> HIDE DEF UpTo, n
  <2> QED
    BY <1>1, <2>2, <2>3
<1>3. ASSUME NEW a \in S, NEW b \in S, <<a, b>> \in before
      PROVE  rank[a] < rank[b]
  <2>1. UpTo(a) \in SUBSET UpTo(b) /\ UpTo(a) # UpTo(b)
    BY <1>3 DEF TotallyOrders
  <2>2. IsFiniteSet(UpTo(b)) /\ rank[a] \in Nat /\ rank[b] \in Nat
    BY <1>1, <1>2
  <2>3. Cardinality(UpTo(a)) <= Cardinality(UpTo(b)) /\ Cardinality(UpTo(b)) # Cardinality(UpTo(a))
    BY <2>1, <2>2, FS_Subset
  <2> HIDE DEF UpTo
  <2> QED
    BY <2>2, <2>3
<1>4. ASSUME NEW a \in S, NEW b \in S, rank[a] = rank[b]
      PROVE  a = b
  <2>1. <<a, b>> \notin before /\ <<b, a>> \notin before
    <3>1. rank[a] \in Nat /\ rank[b] \in Nat
      BY <1>1, <1>2
    <3> HIDE DEF rank
    <3> QED
      BY <1>3, <1>4, <3>1
  <2> QED
    BY <2>1 DEF TotallyOrders
<1>5. rank \in Surjection(S, 1..n)
  <2>1. rank \in [S -> 1..n]
    BY <1>2
  <2> HIDE DEF rank
  <2>2. rank \in Injection(S, 1..n)
    BY <1>4, <2>1 DEF Injection, IsInjective
  <2> HIDE DEF n
  <2>3. Cardinality(S) = Cardinality(1..n)
    BY <1>1 DEF n
  <2> QED
    BY <1>1, <2>2, <2>3, FS_Injection
<1>6. \E f \in [1..n -> S] : Ordered(f)
  <2> DEFINE f == [k \in 1..n |-> CHOOSE a \in S : rank[a] = k]
  <2>1. ASSUME NEW k \in 1..n
        PROVE  f[k] \in S /\ rank[f[k]] = k
    <3> HIDE DEF rank
    <3>1. \E a \in S : rank[a] = k
      BY <1>5 DEF Surjection
    <3> QED
      BY <3>1
  <2>2. f \in [1..n -> S]
    BY <2>1
  <2>3. ASSUME NEW j \in 1..n, NEW k \in 1..n, j < k
        PROVE  <<f[j], f[k]>> \in before
    <3>1. f[j] \in S /\ f[k] \in S /\ rank[f[j]] = j /\ rank[f[k]] = k
      BY <2>1
    <3> HIDE DEF f, rank, n
    <3>2. f[j] # f[k] /\ <<f[k], f[j]>> \notin before
      BY <1>1, <1>3, <2>3, <3>1
    <3> QED
      BY <3>1, <3>2 DEF TotallyOrders
  <2> HIDE DEF f
  <2> QED
    BY <2>2, <2>3
<1> DEFINE g == Arranged(S, before)
<1>7. g \in [1..n -> S] /\ Ordered(g)
  BY <1>6 DEF Arranged
<1>8. ASSUME NEW j \in 1..n, NEW k \in 1..n, g[j] = g[k]
      PROVE  j = k
  <2> HIDE DEF g
  <2>1. \A a \in S : <<a, a>> \notin before
    BY DEF TotallyOrders
  <2>2. g[j] \in S /\ ~(j < k) /\ ~(k < j)
    BY <1>7, <1>8, <2>1
  <2> HIDE DEF n
  <2> QED
    BY <1>1, <2>2
<1>9. \A a \in S : \E k \in 1..n : g[k] = a
  <2> HIDE DEF g, n
  <2>1. g \in Injection(1..n, S)
    BY <1>7, <1>8 DEF Injection, IsInjective
  <2>2. Cardinality(1..n) = Cardinality(S)
    BY <1>1 DEF n
  <2>3. g \in Surjection(1..n, S)
    BY <2>1, <2>2, FS_Injection
  <2> QED
    BY <2>3 DEF Surjection
<1> QED
  BY <1>1, <1>7, <1>8, <1>9

\* A listing holds what is at the indices, once if it is once in the list, and a
\* place before another comes from an index before the other's.
IsListing(new, list, indices, before) ==
    /\ ToSet(new) = {list[i] : i \in indices}
    /\ IsInjective(list) => IsInjective(new)
    /\ \A j, k \in 1..Len(new) : j < k =>
          \E a, b \in indices :
              <<a, b>> \in before /\ new[j] = list[a] /\ new[k] = list[b]

LEMMA ListingProperties ==
    ASSUME NEW X, NEW list \in Seq(X), NEW indices \in SUBSET (1..Len(list)),
           NEW before, TotallyOrders(before, indices)
    PROVE  /\ Listing(list, indices, before) \in Seq(X)
           /\ IsListing(Listing(list, indices, before), list, indices, before)
<1> DEFINE order == Arranged(indices, before)
           n == Cardinality(indices)
           new == Listing(list, indices, before)
<1>1. IsFiniteSet(indices)
  <2>1. Len(list) \in Nat
    OBVIOUS
  <2>2. IsFiniteSet(1..Len(list))
    BY <2>1, FS_Interval
  <2> QED
    BY <2>2, FS_Subset
<1>2. /\ n \in Nat
      /\ order \in [1..n -> indices]
      /\ \A j, k \in 1..n : order[j] = order[k] => j = k
      /\ \A a \in indices : \E k \in 1..n : order[k] = a
      /\ \A j, k \in 1..n : j < k => <<order[j], order[k]>> \in before
  BY <1>1, ArrangedProperties
<1>3. new = [k \in 1..n |-> list[order[k]]]
  BY DEF Listing
<1> HIDE DEF order, n, new
<1>4. ASSUME NEW k \in 1..n
      PROVE  order[k] \in indices /\ order[k] \in 1..Len(list) /\ list[order[k]] \in X
  <2>1. order[k] \in indices
    BY <1>2
  <2>2. order[k] \in 1..Len(list)
    BY <2>1
  <2> QED
    BY <2>1, <2>2
<1>5. new \in Seq(X) /\ Len(new) = n /\ DOMAIN new = 1..n
  BY <1>2, <1>3, <1>4
<1>6. ToSet(new) = {list[i] : i \in indices}
  <2>1. ASSUME NEW k \in 1..n
        PROVE  \E i \in indices : new[k] = list[i]
    BY <1>3, <1>4, <2>1
  <2>2. ASSUME NEW i \in indices
        PROVE  \E k \in 1..n : new[k] = list[i]
    <3>1. PICK k \in 1..n : order[k] = i
      BY <1>2
    <3>2. new[k] = list[i]
      BY <1>3, <3>1
    <3> QED
      BY <3>2
  <2>3. ToSet(new) = {new[k] : k \in 1..n}
    BY <1>5 DEF ToSet
  <2> QED
    BY <2>1, <2>2, <2>3
<1>7. ASSUME IsInjective(list)
      PROVE  IsInjective(new)
  <2>1. ASSUME NEW j \in 1..n, NEW k \in 1..n, new[j] = new[k]
        PROVE  j = k
    <3>1. list[order[j]] = list[order[k]]
      BY <1>3, <2>1
    <3>2. order[j] = order[k]
      BY <1>4, <1>7, <3>1 DEF IsInjective
    <3> QED
      BY <1>2, <3>2
  <2> QED
    BY <1>5, <2>1 DEF IsInjective
<1>8. ASSUME NEW j \in 1..Len(new), NEW k \in 1..Len(new), j < k
      PROVE  \E a, b \in indices :
                 <<a, b>> \in before /\ new[j] = list[a] /\ new[k] = list[b]
  BY <1>2, <1>3, <1>4, <1>5, <1>8
<1> QED
  BY <1>5, <1>6, <1>7, <1>8 DEF new, IsListing

LEMMA SublistProperties ==
    ASSUME NEW X, NEW list \in Seq(X), NEW indices \in SUBSET (1..Len(list))
    PROVE  /\ Sublist(list, indices) \in Seq(X)
           /\ ToSet(Sublist(list, indices)) = {list[i] : i \in indices}
           /\ IsInjective(list) => IsInjective(Sublist(list, indices))
<1> DEFINE before == {p \in indices \X indices : p[1] < p[2]}
<1>1. TotallyOrders(before, indices)
  BY DEF TotallyOrders
<1>2. Sublist(list, indices) = Listing(list, indices, before)
  BY DEF Sublist
<1> HIDE DEF before
<1>3. /\ Listing(list, indices, before) \in Seq(X)
      /\ IsListing(Listing(list, indices, before), list, indices, before)
  BY <1>1, ListingProperties
<1> QED
  BY <1>2, <1>3 DEF IsListing

LEMMA WithoutProperties ==
    ASSUME NEW X, NEW list \in Seq(X), NEW v
    PROVE  /\ Without(list, v) \in Seq(X)
           /\ ToSet(Without(list, v)) = ToSet(list) \ {v}
           /\ IsInjective(list) => IsInjective(Without(list, v))
<1> DEFINE kept == {i \in 1..Len(list) : list[i] # v}
<1>1. kept \in SUBSET (1..Len(list)) /\ Without(list, v) = Sublist(list, kept)
  BY DEF Without
<1>2. {list[i] : i \in kept} = ToSet(list) \ {v}
  BY DEF ToSet
<1> HIDE DEF kept
<1> QED
  BY <1>1, <1>2, SublistProperties

\* A new element at the end of a list is in it, once.
ListsAlso(longer, list, x) == ToSet(longer) = ToSet(list) \cup {x} /\ IsInjective(longer)

LEMMA ListedAppend ==
    ASSUME NEW X, NEW list \in Seq(X), IsInjective(list), NEW x \in X, x \notin ToSet(list)
    PROVE  ListsAlso(Append(list, x), list, x)
<1> DEFINE longer == Append(list, x)
           n == Len(list)
<1>1. /\ n \in Nat
      /\ DOMAIN list = 1..n
      /\ DOMAIN longer = 1..n + 1
      /\ \A i \in 1..n : longer[i] = list[i]
      /\ longer[n + 1] = x
  OBVIOUS
<1> HIDE DEF longer, n
<1>2. \A i \in 1..n + 1 : i \in 1..n \/ i = n + 1
  BY <1>1
<1>3. 1..n \subseteq 1..n + 1 /\ n + 1 \in 1..n + 1
  BY <1>1
<1>4. ToSet(longer) = ToSet(list) \cup {x}
  BY <1>1, <1>2, <1>3, Zenon DEF ToSet
<1>5. \A i \in 1..n : longer[i] # x
  BY <1>1 DEF ToSet
<1>6. IsInjective(longer)
  BY <1>1, <1>2, <1>5 DEF IsInjective
<1> QED
  BY <1>4, <1>6 DEF longer, ListsAlso

\* The rest of a list is the list without its first element.
LEMMA ListedTail ==
    ASSUME NEW X, NEW list \in Seq(X), list # <<>>, IsInjective(list)
    PROVE  /\ Head(list) \in X /\ Tail(list) \in Seq(X) /\ IsInjective(Tail(list))
           /\ ToSet(list) = ToSet(Tail(list)) \cup {Head(list)}
           /\ Head(list) \notin ToSet(Tail(list))
           /\ \A i \in 1..Len(Tail(list)) :
                 i + 1 \in 1..Len(list) /\ Tail(list)[i] = list[i + 1]
<1> DEFINE rest == Tail(list)
           n == Len(rest)
<1>1. /\ n \in Nat /\ Len(list) = n + 1
      /\ DOMAIN list = 1..n + 1 /\ DOMAIN rest = 1..n
      /\ \A i \in 1..n : rest[i] = list[i + 1]
      /\ Head(list) = list[1]
      /\ rest \in Seq(X) /\ Head(list) \in X
  OBVIOUS
<1> HIDE DEF rest, n
<1>2. \A i \in 1..n : i + 1 \in 1..n + 1 /\ i + 1 # 1
  BY <1>1
<1>3. 1 \in 1..n + 1 /\ \A i \in 1..n + 1 : i = 1 \/ \E j \in 1..n : i = j + 1
  <2>1. 1 \in 1..n + 1
    BY <1>1
  <2>2. ASSUME NEW i \in 1..n + 1, i # 1
        PROVE  \E j \in 1..n : i = j + 1
    <3>1. i - 1 \in 1..n /\ i = (i - 1) + 1
      BY <1>1, <2>2
    <3> QED
      BY <3>1
  <2> QED
    BY <2>1, <2>2
<1>4. ToSet(list) = ToSet(rest) \cup {Head(list)}
  <2>1. ASSUME NEW i \in 1..n + 1
        PROVE  list[i] \in ToSet(rest) \cup {Head(list)}
    <3>1. CASE i = 1
      BY <1>1, <3>1
    <3>2. CASE i # 1
      <4>1. PICK j \in 1..n : i = j + 1
        BY <1>3, <3>2
      <4>2. list[i] = rest[j] /\ j \in DOMAIN rest
        BY <1>1, <4>1
      <4> QED
        BY <4>2 DEF ToSet
    <3> QED
      BY <3>1, <3>2
  <2>2. ASSUME NEW j \in 1..n
        PROVE  rest[j] \in ToSet(list)
    BY <1>1, <1>2 DEF ToSet
  <2>3. Head(list) \in ToSet(list)
    BY <1>1, <1>3 DEF ToSet
  <2> QED
    BY <1>1, <2>1, <2>2, <2>3 DEF ToSet
<1>5. Head(list) \notin ToSet(rest)
  BY <1>1, <1>2, <1>3 DEF ToSet, IsInjective
<1>6. IsInjective(rest)
  <2>1. ASSUME NEW i \in 1..n, NEW j \in 1..n, rest[i] = rest[j]
        PROVE  i = j
    <3>1. list[i + 1] = list[j + 1] /\ i + 1 \in DOMAIN list /\ j + 1 \in DOMAIN list
      BY <1>1, <1>2, <2>1
    <3>2. i + 1 = j + 1
      BY <3>1 DEF IsInjective
    <3> QED
      BY <3>2
  <2> QED
    BY <1>1, <2>1 DEF IsInjective
<1> QED
  BY <1>1, <1>2, <1>4, <1>5, <1>6 DEF rest

-----------------------------------------------------------------------------
(***************************************************************************)
(* A store as far as the engine reads it: what its messages are, and an    *)
(* order that lists each of them once.                                     *)
(***************************************************************************)
StoreType(s) ==
    /\ DOMAIN s = {"schedule", "endpoints", "epOrder", "messages", "msgOrder"}
    /\ s.schedule \in Schedule
    /\ \A id \in DOMAIN s.messages : id \in Ids /\ s.messages[id] \in Message
    /\ s.msgOrder \in Seq(Ids)
    /\ ToSet(s.msgOrder) = DOMAIN s.messages /\ IsInjective(s.msgOrder)

IsDue(s, id, now) == s.messages[id].state = "pending" /\ s.messages[id].nextDue <= now

\* Due lists what is due and nothing else, no message twice, and none before one
\* that was due sooner.
LEMMA DueProperties ==
    ASSUME NEW s, StoreType(s), NEW now \in Int
    PROVE  LET list == Due(s, now)
           IN  /\ list \in Seq(DOMAIN s.messages)
               /\ ToSet(list) = {id \in DOMAIN s.messages : IsDue(s, id, now)}
               /\ IsInjective(list)
               /\ \A j, k \in 1..Len(list) :
                     j < k => s.messages[list[j]].nextDue <= s.messages[list[k]].nextDue
<1> DEFINE due == {i \in 1..Len(s.msgOrder) : IsDue(s, s.msgOrder[i], now)}
           When(i) == s.messages[s.msgOrder[i]].nextDue
           before == {p \in due \X due :
                         \/ When(p[1]) < When(p[2])
                         \/ When(p[1]) = When(p[2]) /\ p[1] < p[2]}
           list == Due(s, now)
<1>1. list = Listing(s.msgOrder, due, before)
  BY DEF Due, IsDue
<1>2. /\ s.msgOrder \in Seq(DOMAIN s.messages)
      /\ \A i \in 1..Len(s.msgOrder) : s.msgOrder[i] \in DOMAIN s.messages
  BY DEF StoreType, ToSet
<1>3. \A i \in due : When(i) \in Nat
  BY <1>2 DEF StoreType, Message
<1>4. TotallyOrders(before, due)
  <2> HIDE DEF due, When
  <2>1. \A a, b \in due :
            <<a, b>> \in before <=>
                \/ When(a) < When(b)
                \/ When(a) = When(b) /\ a < b
    OBVIOUS
  <2>2. due \subseteq Int
    BY DEF due
  <2> HIDE DEF before
  <2> QED
    BY <1>3, <2>1, <2>2 DEF TotallyOrders
<1>5. due \in SUBSET (1..Len(s.msgOrder))
  OBVIOUS
<1> HIDE DEF before, list, due
<1>6. list \in Seq(DOMAIN s.messages) /\ IsListing(list, s.msgOrder, due, before)
  BY <1>1, <1>2, <1>4, <1>5, ListingProperties
<1>7. ToSet(list) = {id \in DOMAIN s.messages : IsDue(s, id, now)}
  <2>1. ASSUME NEW id \in DOMAIN s.messages
        PROVE  \E i \in 1..Len(s.msgOrder) : s.msgOrder[i] = id
    BY DEF StoreType, ToSet
  <2>2. ToSet(list) = {s.msgOrder[i] : i \in due}
    BY <1>6 DEF IsListing
  <2> QED
    BY <1>2, <2>1, <2>2 DEF due
<1>8. ASSUME NEW j \in 1..Len(list), NEW k \in 1..Len(list), j < k
      PROVE  s.messages[list[j]].nextDue <= s.messages[list[k]].nextDue
  <2>1. PICK a \in due, b \in due :
            <<a, b>> \in before /\ list[j] = s.msgOrder[a] /\ list[k] = s.msgOrder[b]
    BY <1>6, <1>8 DEF IsListing
  <2>2. When(a) <= When(b)
    BY <1>3, <2>1 DEF before
  <2> QED
    BY <2>1, <2>2
<1> QED
  BY <1>6, <1>7, <1>8 DEF list, IsListing, StoreType

-----------------------------------------------------------------------------
LEMMA MinProperties ==
    ASSUME NEW S \in SUBSET Nat, S # {}
    PROVE  Min(S) \in S /\ \A n \in S : Min(S) <= n
<1> DEFINE R == OpToRel(<, Nat)
<1>1. \A m, n \in Nat : <<m, n>> \in R <=> m < n
  BY DEF OpToRel
<1>2. IsWellFoundedOn(R, Nat)
  BY NatLessThanWellFounded
<1> HIDE DEF R
<1>3. \E m \in S : \A n \in S : <<n, m>> \notin R
  BY <1>2, WFMin
<1>4. \E m \in S : \A n \in S : m <= n
  <2>1. PICK m \in S : \A n \in S : <<n, m>> \notin R
    BY <1>3
  <2>2. ASSUME NEW n \in S
        PROVE  m <= n
    <3>1. m \in Nat /\ n \in Nat /\ ~(n < m)
      BY <1>1, <2>1
    <3> QED
      BY <3>1
  <2> QED
    BY <2>2
<1> QED
  BY <1>4 DEF Min

LEMMA LeastElement ==
    ASSUME NEW S \in SUBSET Nat, S # {}
    PROVE  \E n \in S : \A m \in S : n <= m
  BY MinProperties

LEMMA MessagesFinite ==
    ASSUME NEW s, StoreType(s)
    PROVE  IsFiniteSet(DOMAIN s.messages)
<1>1. Len(s.msgOrder) \in Nat /\ IsFiniteSet(1..Len(s.msgOrder))
  BY FS_Interval DEF StoreType
<1>2. s.msgOrder \in Surjection(1..Len(s.msgOrder), DOMAIN s.messages)
  BY DEF StoreType, ToSet, Surjection
<1> QED
  BY <1>1, <1>2, FS_Surjection

\* The least of some due times; zero when there are none.
IsLeast(d, S) == IF S = {} THEN d = NoTime ELSE d \in S /\ \A e \in S : d <= e

\* The due times of the messages among the first n that wait.
Waits(s, order, n) ==
    {s.messages[id].nextDue : id \in {order[i] : i \in 1..n} \cap InState(s, "pending")}

\* No message that waits is due at the zero time.
WaitsHonestly(s) ==
    \A id \in DOMAIN s.messages : s.messages[id].state = "pending" => s.messages[id].nextDue # NoTime

LEMMA LeastUnique ==
    ASSUME NEW S \in SUBSET Nat, NEW d, NEW e, IsLeast(d, S), IsLeast(e, S)
    PROVE  d = e
<1>1. CASE S = {}
  BY <1>1 DEF IsLeast
<1>2. CASE S # {}
  <2>1. d \in S /\ e \in S /\ d <= e /\ e <= d
    BY <1>2 DEF IsLeast
  <2>2. d \in Nat /\ e \in Nat
    BY <2>1
  <2> QED
    BY <2>1, <2>2
<1> QED
  BY <1>1, <1>2

LEMMA SoonerIsLeast ==
    ASSUME NEW S \in SUBSET (Nat \ {NoTime}), NEW d, IsLeast(d, S),
           NEW m, m.nextDue \in Nat, m.state = "pending" => m.nextDue # NoTime
    PROVE  IsLeast(Sooner(d, m), IF m.state = "pending" THEN S \cup {m.nextDue} ELSE S)
<1> DEFINE due == m.nextDue
<1>1. due \in Nat /\ d \in Nat
  <2>1. CASE S = {}
    BY <2>1 DEF IsLeast, NoTime
  <2>2. CASE S # {}
    BY <2>2 DEF IsLeast
  <2> QED
    BY <2>1, <2>2
<1>2. CASE m.state # "pending"
  BY <1>2 DEF Sooner
<1>3. CASE m.state = "pending" /\ S = {}
  BY <1>1, <1>3 DEF Sooner, IsLeast
<1>4. CASE m.state = "pending" /\ S # {}
  <2>1. d \in S /\ d # NoTime /\ \A e \in S : e \in Nat /\ d <= e
    BY <1>4 DEF IsLeast
  <2>2. Sooner(d, m) = IF due < d THEN due ELSE d
    BY <1>4, <2>1 DEF Sooner
  <2> HIDE DEF due
  <2>3. IsLeast(Sooner(d, m), S \cup {due})
    BY <1>1, <2>1, <2>2 DEF IsLeast
  <2> QED
    BY <1>4, <2>3 DEF due
<1> QED
  BY <1>2, <1>3, <1>4

\* One message more in the loop.
LEMMA LeastOfOneMore ==
    ASSUME NEW s, StoreType(s), WaitsHonestly(s), NEW order \in Seq(DOMAIN s.messages),
           NEW n \in 1..Len(order), NEW d, IsLeast(d, Waits(s, order, n - 1))
    PROVE  IsLeast(Sooner(d, s.messages[order[n]]), Waits(s, order, n))
<1> DEFINE m == s.messages[order[n]]
           before == {order[i] : i \in 1..n - 1}
           pending == InState(s, "pending")
<1>1. order[n] \in DOMAIN s.messages /\ m \in Message /\ m.nextDue \in Nat
  BY DEF StoreType, Message
<1>2. {order[i] : i \in 1..n} = before \cup {order[n]}
  <2>1. n \in Nat /\ \A i \in 1..n : i \in 1..n - 1 \/ i = n
    OBVIOUS
  <2>2. n \in 1..n /\ 1..n - 1 \subseteq 1..n
    BY <2>1
  <2> QED
    BY <2>1, <2>2, Zenon
<1>3. Waits(s, order, n - 1) \in SUBSET (Nat \ {NoTime})
  BY DEF Waits, InState, WaitsHonestly, StoreType, Message
<1>4. IsLeast(Sooner(d, m), IF m.state = "pending" THEN Waits(s, order, n - 1) \cup {m.nextDue}
                            ELSE Waits(s, order, n - 1))
  BY <1>1, <1>3, SoonerIsLeast DEF WaitsHonestly
<1>5. order[n] \in pending <=> m.state = "pending"
  BY <1>1 DEF InState
<1> HIDE DEF before, pending
<1>6. Waits(s, order, n) = IF m.state = "pending" THEN Waits(s, order, n - 1) \cup {m.nextDue}
                           ELSE Waits(s, order, n - 1)
  BY <1>2, <1>5 DEF Waits, before, pending
<1> QED
  BY <1>4, <1>6

\* What the loop has after each message.
Shows(f, s, order) ==
    f = [n \in 0..Len(order) |-> IF n = 0 THEN NoTime ELSE Sooner(f[n - 1], s.messages[order[n]])]

LEMMA ShownExists ==
    ASSUME NEW s, StoreType(s), WaitsHonestly(s), NEW order \in Seq(DOMAIN s.messages)
    PROVE  \E f : Shows(f, s, order)
<1> DEFINE Least(n) == LET S == Waits(s, order, n) IN IF S = {} THEN NoTime ELSE Min(S)
           f == [n \in 0..Len(order) |-> Least(n)]
<1>1. ASSUME NEW n \in 0..Len(order)
      PROVE  Waits(s, order, n) \in SUBSET Nat /\ IsLeast(Least(n), Waits(s, order, n))
  <2>1. Waits(s, order, n) \in SUBSET Nat
    BY DEF Waits, InState, StoreType, Message
  <2> QED
    BY <2>1, MinProperties DEF IsLeast
<1>2. Least(0) = NoTime
  BY DEF Waits
<1>3. ASSUME NEW n \in 1..Len(order)
      PROVE  Least(n) = Sooner(Least(n - 1), s.messages[order[n]])
  <2>1. n \in 0..Len(order) /\ n - 1 \in 0..Len(order)
    OBVIOUS
  <2>2. IsLeast(Least(n - 1), Waits(s, order, n - 1))
    BY <1>1, <2>1
  <2> DEFINE d == Sooner(Least(n - 1), s.messages[order[n]])
             e == Least(n)
             S == Waits(s, order, n)
  <2>3. IsLeast(d, S) /\ IsLeast(e, S) /\ S \in SUBSET Nat
    BY <1>1, <2>1, <2>2, LeastOfOneMore
  <2> HIDE DEF d, e, S
  <2>4. d = e
    BY <2>3, LeastUnique
  <2> QED
    BY <2>4 DEF d, e
<1> HIDE DEF Least
<1>4. ASSUME NEW n \in 0..Len(order)
      PROVE  f[n] = IF n = 0 THEN NoTime ELSE Sooner(f[n - 1], s.messages[order[n]])
  <2>1. CASE n = 0
    BY <1>2, <2>1
  <2>2. CASE n # 0
    <3>1. n \in 1..Len(order) /\ n - 1 \in 0..Len(order)
      BY <2>2
    <3>2. f[n] = Least(n) /\ f[n - 1] = Least(n - 1)
      BY <3>1
    <3> QED
      BY <1>3, <2>2, <3>1, <3>2
  <2> QED
    BY <2>1, <2>2
<1>5. f = [n \in 0..Len(order) |-> f[n]]
  OBVIOUS
<1> HIDE DEF f
<1> QED
  BY <1>4, <1>5 DEF Shows

\* The loop ends with the least due time, in whatever order it takes the messages.
LEMMA EarliestIsLeast ==
    ASSUME NEW s, StoreType(s), WaitsHonestly(s), NEW order \in Seq(DOMAIN s.messages)
    PROVE  IsLeast(EarliestDue(s, order), Waits(s, order, Len(order)))
<1> DEFINE shown == CHOOSE f : f = [n \in 0..Len(order) |->
                        IF n = 0 THEN NoTime ELSE Sooner(f[n - 1], s.messages[order[n]])]
           Bad == {n \in 0..Len(order) : ~IsLeast(shown[n], Waits(s, order, n))}
<1>1. EarliestDue(s, order) = shown[Len(order)]
  BY DEF EarliestDue
<1>2. \E f : f = [n \in 0..Len(order) |->
                    IF n = 0 THEN NoTime ELSE Sooner(f[n - 1], s.messages[order[n]])]
  BY ShownExists DEF Shows
<1>3. Shows(shown, s, order)
  BY <1>2 DEF Shows
<1> HIDE DEF shown
<1>4. \A n \in 0..Len(order) :
          shown[n] = IF n = 0 THEN NoTime ELSE Sooner(shown[n - 1], s.messages[order[n]])
  BY <1>3 DEF Shows
<1>5. Bad = {}
  <2> SUFFICES ASSUME Bad # {} PROVE FALSE
    OBVIOUS
  <2>1. Bad \in SUBSET Nat
    OBVIOUS
  <2>2. PICK n \in Bad : \A m \in Bad : n <= m
    BY <2>1, LeastElement
  <2>3. n \in 0..Len(order) /\ ~IsLeast(shown[n], Waits(s, order, n))
    BY <2>2
  <2>4. n # 0
    BY <1>4, <2>3 DEF IsLeast, Waits
  <2>5. n \in 1..Len(order) /\ n - 1 \in 0..Len(order) /\ n - 1 \notin Bad
    BY <2>2, <2>3, <2>4
  <2>6. IsLeast(shown[n - 1], Waits(s, order, n - 1))
    BY <2>5
  <2> QED
    BY <1>4, <2>3, <2>4, <2>5, <2>6, LeastOfOneMore
<1>6. Len(order) \in 0..Len(order)
  OBVIOUS
<1> QED
  BY <1>1, <1>5, <1>6

\* What status shows and what deliver finds to do agree, at any time.
LEMMA CountsAgreeWithDue ==
    ASSUME NEW s, StoreType(s), WaitsHonestly(s), NEW now \in Int,
           NEW order \in SetToSeqs(DOMAIN s.messages)
    PROVE  Due(s, now) # <<>> <=> Counts(s, order).pending > 0 /\ Counts(s, order).nextDue <= now
<1> DEFINE pending == InState(s, "pending")
           waits == {s.messages[id].nextDue : id \in pending}
<1>1. Due(s, now) # <<>> <=> \E id \in pending : s.messages[id].nextDue <= now
  <2>1. /\ Due(s, now) \in Seq(DOMAIN s.messages)
        /\ ToSet(Due(s, now)) = {id \in DOMAIN s.messages : IsDue(s, id, now)}
    BY DueProperties
  <2>2. Due(s, now) # <<>> <=> ToSet(Due(s, now)) # {}
    BY <2>1 DEF ToSet
  <2> QED
    BY <2>1, <2>2 DEF IsDue, InState
<1>2. /\ Cardinality(pending) \in Nat
      /\ Cardinality(pending) = 0 <=> pending = {}
  <2>1. IsFiniteSet(pending)
    BY MessagesFinite, FS_Subset DEF InState
  <2> QED
    BY <2>1, FS_EmptySet, FS_CardinalityType
<1>3. waits \in SUBSET Nat
  BY DEF StoreType, Message, InState
<1>4. order \in Seq(DOMAIN s.messages) /\ {order[i] : i \in 1..Len(order)} = DOMAIN s.messages
  <2> DEFINE ids == DOMAIN s.messages
             n == Cardinality(ids)
  <2>1. IsFiniteSet(ids) /\ n \in Nat
    BY MessagesFinite, FS_CardinalityType
  <2>2. order \in [1..n -> ids] /\ \A i, j \in 1..n : i # j => order[i] # order[j]
    BY DEF SetToSeqs
  <2>3. IsFiniteSet(1..n) /\ Cardinality(1..n) = n
    <3> HIDE DEF n
    <3>1. IsFiniteSet(1..n) /\ Cardinality(1..n) = IF 1 > n THEN 0 ELSE n - 1 + 1
      BY <2>1, FS_Interval
    <3> QED
      BY <2>1, <3>1
  <2>4. order \in Injection(1..n, ids)
    <3> HIDE DEF n, ids
    <3> QED
      BY <2>2 DEF Injection, IsInjective
  <2>5. order \in Surjection(1..n, ids)
    BY <2>1, <2>3, <2>4, FS_Injection
  <2> HIDE DEF n, ids
  <2>6. order \in Seq(ids) /\ Len(order) = n
    BY <2>1, <2>2
  <2>7. {order[i] : i \in 1..n} = ids
    BY <2>2, <2>5 DEF Surjection
  <2> QED
    BY <2>6, <2>7 DEF ids
<1>5. /\ Counts(s, order).pending = Cardinality(pending)
      /\ IsLeast(Counts(s, order).nextDue, waits)
  <2>1. {order[i] : i \in 1..Len(order)} \cap pending = pending
    BY <1>4 DEF InState
  <2>2. Waits(s, order, Len(order)) = waits
    BY <2>1 DEF Waits
  <2> QED
    BY <1>4, <2>2, EarliestIsLeast DEF Counts
<1> HIDE DEF pending
<1>6. CASE pending = {}
  BY <1>1, <1>2, <1>5, <1>6
<1>7. CASE pending # {}
  <2> DEFINE least == Counts(s, order).nextDue
  <2>1. Counts(s, order).pending > 0
    BY <1>2, <1>5, <1>7
  <2>2. least \in waits /\ \A d \in waits : d \in Nat /\ least <= d
    BY <1>3, <1>5, <1>7 DEF IsLeast
  <2> HIDE DEF least
  <2>3. PICK first \in pending : s.messages[first].nextDue = least
    BY <2>2
  <2>4. \A id \in pending : /\ s.messages[id].nextDue \in Nat
                            /\ least <= s.messages[id].nextDue
    BY <2>2
  <2> HIDE DEF waits
  <2> QED
    BY <1>1, <1>7, <2>1, <2>3, <2>4 DEF least
<1> QED
  BY <1>6, <1>7
-----------------------------------------------------------------------------
(***************************************************************************)
(* What apply makes of a store: a store, with these messages.              *)
(***************************************************************************)
LEMMA ConfigApplied ==
    ASSUME NEW schedule \in Schedule
    PROVE  LET t == Apply(NewStore, ConfigRec(schedule))
           IN  StoreType(t) /\ t.messages = <<>> /\ t.schedule = schedule
<1> DEFINE t == Apply(NewStore, ConfigRec(schedule))
<1>1. t = [NewStore EXCEPT !.schedule = schedule]
  BY ScheduleRoundTrip DEF Apply, ConfigRec, ApplyConfig
<1> HIDE DEF t
<1>2. /\ DOMAIN t = {"schedule", "endpoints", "epOrder", "messages", "msgOrder"}
      /\ t.schedule = schedule /\ t.messages = <<>> /\ t.msgOrder = <<>>
  BY <1>1 DEF NewStore
<1>3. StoreType(t)
  BY <1>2 DEF StoreType, ToSet, IsInjective
<1> QED
  BY <1>2, <1>3 DEF t

LEMMA EndpointAddApplied ==
    ASSUME NEW s, StoreType(s), NEW name, NEW secret
    PROVE  LET t == Apply(s, EndpointAddRec(name, secret))
           IN  StoreType(t) /\ t.messages = s.messages /\ t.schedule = s.schedule
<1>1. Apply(s, EndpointAddRec(name, secret)) = ApplyEndpointAdd(s, EndpointAddRec(name, secret))
  BY DEF Apply, EndpointAddRec
<1> QED
  BY <1>1 DEF ApplyEndpointAdd, StoreType

LEMMA EndpointRotateApplied ==
    ASSUME NEW s, StoreType(s), NEW name, NEW secret
    PROVE  LET t == Apply(s, EndpointRotateRec(name, secret))
           IN  StoreType(t) /\ t.messages = s.messages /\ t.schedule = s.schedule
<1>1. Apply(s, EndpointRotateRec(name, secret))
          = ApplyEndpointRotate(s, EndpointRotateRec(name, secret))
  BY DEF Apply, EndpointRotateRec
<1> QED
  BY <1>1 DEF ApplyEndpointRotate, StoreType

LEMMA EndpointRemoveApplied ==
    ASSUME NEW s, StoreType(s), NEW name
    PROVE  LET t == Apply(s, EndpointRemoveRec(name))
           IN  /\ StoreType(t) /\ t.schedule = s.schedule
               /\ DOMAIN t.messages = DOMAIN s.messages
               /\ \A id \in DOMAIN s.messages :
                     t.messages[id] = IF id \in DeadLettered(s, name)
                                      THEN Orphaned(s.messages[id])
                                      ELSE s.messages[id]
<1> DEFINE t == Apply(s, EndpointRemoveRec(name))
<1>1. t = ApplyEndpointRemove(s, EndpointRemoveRec(name))
  BY DEF Apply, EndpointRemoveRec
<1> HIDE DEF t
<1>2. /\ DOMAIN t = DOMAIN s /\ t.schedule = s.schedule /\ t.msgOrder = s.msgOrder
      /\ DOMAIN t.messages = DOMAIN s.messages
      /\ \A id \in DOMAIN s.messages :
            t.messages[id] = IF id \in DeadLettered(s, name)
                             THEN Orphaned(s.messages[id])
                             ELSE s.messages[id]
  BY <1>1 DEF ApplyEndpointRemove, EndpointRemoveRec, StoreType
<1>3. \A id \in DOMAIN s.messages : t.messages[id] \in Message
  BY <1>2, OrphanedType DEF StoreType
<1>4. StoreType(t)
  BY <1>2, <1>3 DEF StoreType
<1> QED
  BY <1>2, <1>4 DEF t

LEMMA EnqueueApplied ==
    ASSUME NEW s, StoreType(s), NEW id \in Ids, id \notin DOMAIN s.messages,
           NEW name \in Names, NEW at \in Nat
    PROVE  LET t == Apply(s, EnqueueRec(id, name, at))
           IN  /\ StoreType(t) /\ t.schedule = s.schedule
               /\ t.messages = Put(s.messages, id, NewMessage(name, at))
<1> DEFINE t == Apply(s, EnqueueRec(id, name, at))
<1>1. t = ApplyEnqueue(s, EnqueueRec(id, name, at))
  BY DEF Apply, EnqueueRec
<1>2. /\ DOMAIN t = DOMAIN s /\ t.schedule = s.schedule
      /\ t.messages = Put(s.messages, id, NewMessage(name, at))
      /\ t.msgOrder = Append(s.msgOrder, id)
  BY <1>1 DEF ApplyEnqueue, EnqueueRec, StoreType
<1> HIDE DEF t
<1>3. /\ DOMAIN t.messages = DOMAIN s.messages \cup {id}
      /\ \A i \in DOMAIN t.messages : t.messages[i] \in Message
  BY <1>2, NewMessageType DEF Put, StoreType
<1>4. /\ t.msgOrder \in Seq(Ids) /\ IsInjective(t.msgOrder)
      /\ ToSet(t.msgOrder) = DOMAIN s.messages \cup {id}
  <2>1. /\ s.msgOrder \in Seq(Ids) /\ IsInjective(s.msgOrder)
        /\ ToSet(s.msgOrder) = DOMAIN s.messages
    BY DEF StoreType
  <2>2. ListsAlso(Append(s.msgOrder, id), s.msgOrder, id)
    BY <2>1, ListedAppend
  <2> QED
    BY <1>2, <2>1, <2>2 DEF ListsAlso
<1>5. StoreType(t)
  BY <1>2, <1>3, <1>4 DEF StoreType
<1> QED
  BY <1>2, <1>5 DEF t

LEMMA AttemptApplied ==
    ASSUME NEW s, StoreType(s), NEW id \in DOMAIN s.messages, NEW verdict \in Verdicts,
           NEW outcome \in Outcomes, NEW nextDue \in Nat
    PROVE  LET r == AttemptRec(id, verdict, outcome, nextDue)
               t == Apply(s, r)
           IN  /\ StoreType(t) /\ t.schedule = s.schedule
               /\ DOMAIN t.messages = DOMAIN s.messages
               /\ \A i \in DOMAIN s.messages \ {id} : t.messages[i] = s.messages[i]
               /\ t.messages[id] = Attempted(s.messages[id], r)
<1> DEFINE r == AttemptRec(id, verdict, outcome, nextDue)
           t == Apply(s, r)
<1>1. /\ r.type = "attempt" /\ r.id = id
      /\ r.verdict = verdict /\ r.outcome = outcome /\ r.nextDue = nextDue
  BY DEF AttemptRec
<1> HIDE DEF r
<1>2. t = ApplyAttempt(s, r)
  BY <1>1 DEF Apply
<1>3. /\ DOMAIN t = DOMAIN s /\ t.schedule = s.schedule /\ t.msgOrder = s.msgOrder
      /\ DOMAIN t.messages = DOMAIN s.messages
      /\ \A i \in DOMAIN s.messages \ {id} : t.messages[i] = s.messages[i]
      /\ t.messages[id] = Attempted(s.messages[id], r)
  BY <1>1, <1>2 DEF ApplyAttempt, StoreType
<1> HIDE DEF t
<1>4. Attempted(s.messages[id], r) \in Message
  BY <1>1, AttemptedType DEF StoreType
<1>5. StoreType(t)
  BY <1>3, <1>4 DEF StoreType
<1> QED
  BY <1>3, <1>5 DEF t, r

LEMMA RequeueApplied ==
    ASSUME NEW s, StoreType(s), NEW id \in DOMAIN s.messages, NEW at \in Nat
    PROVE  LET t == Apply(s, RequeueRec(id, at))
           IN  /\ StoreType(t) /\ t.schedule = s.schedule
               /\ DOMAIN t.messages = DOMAIN s.messages
               /\ \A i \in DOMAIN s.messages \ {id} : t.messages[i] = s.messages[i]
               /\ t.messages[id] = Requeued(s.messages[id], at)
<1> DEFINE t == Apply(s, RequeueRec(id, at))
<1>1. t = ApplyRequeue(s, RequeueRec(id, at))
  BY DEF Apply, RequeueRec
<1>2. /\ DOMAIN t = DOMAIN s /\ t.schedule = s.schedule /\ t.msgOrder = s.msgOrder
      /\ DOMAIN t.messages = DOMAIN s.messages
      /\ \A i \in DOMAIN s.messages \ {id} : t.messages[i] = s.messages[i]
      /\ t.messages[id] = Requeued(s.messages[id], at)
  BY <1>1 DEF ApplyRequeue, RequeueRec, StoreType
<1> HIDE DEF t
<1>3. Requeued(s.messages[id], at) \in Message
  BY RequeuedType DEF StoreType
<1>4. StoreType(t)
  BY <1>2, <1>3 DEF StoreType
<1> QED
  BY <1>2, <1>4 DEF t

\* What the engine decides is what the log takes.
LEMMA OutcomeType ==
    ASSUME NEW s, StoreType(s), NEW id \in DOMAIN s.messages, NEW verdict \in Verdicts,
           NEW end \in Nat
    PROVE  /\ Outcome(s, id, verdict) \in Outcomes
           /\ RetryAt(s, id, verdict, end) \in Nat
<1>1. s.messages[id].failStreak \in Nat /\ s.schedule \in Seq(Nat)
  BY DEF StoreType, Message, Schedule
<1>2. ASSUME HasRetry(s.schedule, s.messages[id].failStreak + 1)
      PROVE  s.schedule[s.messages[id].failStreak + 1] \in Nat
  BY <1>1, <1>2 DEF HasRetry
<1>3. NextDue(s.schedule, s.messages[id].failStreak + 1, end) \in Nat
  BY <1>2 DEF NextDue, NoTime
<1>4. RetryAt(s, id, verdict, end) \in Nat
  BY <1>3 DEF RetryAt, NoTime
<1> QED
  BY <1>4 DEF Outcome, Outcomes
-----------------------------------------------------------------------------
(***************************************************************************)
(* Replay, one record at a time: f[k] is the store after the first k of    *)
(* the records, for k up to n.                                             *)
(***************************************************************************)
Stores(f, records, n) ==
    f = [k \in 0..n |-> IF k = 0 THEN NewStore ELSE Apply(f[k - 1], records[k])]

LEMMA StoresExist ==
    ASSUME NEW records, NEW n \in Nat
    PROVE  \E f : Stores(f, records, n)
<1> DEFINE Bad == {k \in Nat : ~\E f : Stores(f, records, k)}
<1> SUFFICES ASSUME Bad # {} PROVE FALSE
  OBVIOUS
<1>1. PICK k \in Bad : \A m \in Bad : k <= m
  BY LeastElement
<1>2. k \in Nat /\ ~\E f : Stores(f, records, k)
  BY <1>1
<1>3. CASE k = 0
  <2> DEFINE g == [j \in 0..0 |-> NewStore]
  <2>1. g = [j \in 0..0 |-> IF j = 0 THEN NewStore ELSE Apply(g[j - 1], records[j])]
    OBVIOUS
  <2> QED
    BY <1>2, <1>3, <2>1 DEF Stores
<1>4. CASE k # 0
  <2>1. k - 1 \in Nat /\ k - 1 \notin Bad
    BY <1>1, <1>2, <1>4
  <2>2. PICK f : Stores(f, records, k - 1)
    BY <2>1
  <2> DEFINE g == [j \in 0..k |-> IF j = k THEN Apply(f[k - 1], records[k]) ELSE f[j]]
  <2>3. \A j \in 0..k - 1 :
            f[j] = IF j = 0 THEN NewStore ELSE Apply(f[j - 1], records[j])
    BY <2>2 DEF Stores
  <2>4. ASSUME NEW j \in 0..k
        PROVE  g[j] = IF j = 0 THEN NewStore ELSE Apply(g[j - 1], records[j])
    <3>1. CASE j = k
      <4>1. k - 1 \in 0..k /\ k - 1 # k
        BY <1>2, <1>4
      <4>2. g[k - 1] = f[k - 1] /\ g[k] = Apply(f[k - 1], records[k])
        BY <1>2, <4>1
      <4> HIDE DEF g
      <4> QED
        BY <1>4, <3>1, <4>2
    <3>2. CASE j = 0
      BY <1>2, <1>4, <2>3, <3>2
    <3>3. CASE j # 0 /\ j # k
      <4>1. j \in 0..k - 1 /\ j - 1 \in 0..k /\ j - 1 # k /\ j # k
        BY <1>2, <2>4, <3>3
      <4>2. g[j] = f[j] /\ g[j - 1] = f[j - 1]
        BY <4>1
      <4>3. f[j] = Apply(f[j - 1], records[j])
        BY <2>3, <3>3, <4>1
      <4> HIDE DEF g
      <4> QED
        BY <3>3, <4>2, <4>3
    <3> QED
      BY <3>1, <3>2, <3>3
  <2>5. g = [j \in 0..k |-> g[j]]
    OBVIOUS
  <2> HIDE DEF g
  <2>6. Stores(g, records, k)
    BY <2>4, <2>5 DEF Stores
  <2> QED
    BY <1>2, <2>6
<1> QED
  BY <1>3, <1>4

\* Where two logs agree, so do the stores.
LEMMA StoresAgree ==
    ASSUME NEW m \in Nat, NEW n \in Nat, m <= n,
           NEW f, NEW g, NEW list, NEW longer,
           \A i \in 1..m : list[i] = longer[i],
           Stores(f, list, m), Stores(g, longer, n)
    PROVE  \A k \in 0..m : f[k] = g[k]
<1> DEFINE Bad == {k \in 0..m : f[k] # g[k]}
<1> SUFFICES ASSUME Bad # {} PROVE FALSE
  OBVIOUS
<1>0. Bad \in SUBSET Nat
  OBVIOUS
<1>1. PICK k \in Bad : \A j \in Bad : k <= j
  BY <1>0, LeastElement
<1>2. k \in 0..m /\ k \in 0..n /\ f[k] # g[k]
  BY <1>1
<1>3. /\ f[k] = IF k = 0 THEN NewStore ELSE Apply(f[k - 1], list[k])
      /\ g[k] = IF k = 0 THEN NewStore ELSE Apply(g[k - 1], longer[k])
  BY <1>2 DEF Stores
<1>4. k # 0
  BY <1>2, <1>3
<1>5. k - 1 \in 0..m /\ k - 1 \notin Bad /\ k \in 1..m
  BY <1>1, <1>2, <1>4
<1>6. f[k - 1] = g[k - 1] /\ list[k] = longer[k]
  BY <1>5
<1> QED
  BY <1>2, <1>3, <1>4, <1>6

LEMMA ReplayStores ==
    ASSUME NEW records, Len(records) \in Nat
    PROVE  \E f : Stores(f, records, Len(records)) /\ Replay(records) = f[Len(records)]
<1> DEFINE after == CHOOSE f : f = [k \in 0..Len(records) |->
                                       IF k = 0 THEN NewStore ELSE Apply(f[k - 1], records[k])]
<1>1. \E f : f = [k \in 0..Len(records) |->
                    IF k = 0 THEN NewStore ELSE Apply(f[k - 1], records[k])]
  BY StoresExist DEF Stores
<1>2. Stores(after, records, Len(records))
  BY <1>1 DEF Stores
<1>3. Replay(records) = after[Len(records)]
  BY DEF Replay
<1> QED
  BY <1>2, <1>3

LEMMA ReplayNone == Replay(<<>>) = NewStore
<1>1. PICK f : Stores(f, <<>>, 0) /\ Replay(<<>>) = f[0]
  BY ReplayStores
<1> QED
  BY <1>1 DEF Stores

\* Replay takes one record after the other.
LEMMA ReplayAppend ==
    ASSUME NEW X, NEW records \in Seq(X), NEW r
    PROVE  Replay(Append(records, r)) = Apply(Replay(records), r)
<1> DEFINE longer == Append(records, r)
           n == Len(records)
<1>1. /\ n \in Nat /\ Len(longer) = n + 1 /\ longer[n + 1] = r
      /\ \A i \in 1..n : records[i] = longer[i]
  OBVIOUS
<1> HIDE DEF longer
<1>2. PICK f : Stores(f, records, n) /\ Replay(records) = f[n]
  BY <1>1, ReplayStores
<1>3. PICK g : Stores(g, longer, n + 1) /\ Replay(longer) = g[n + 1]
  BY <1>1, ReplayStores
<1> HIDE DEF n
<1>4. n <= n + 1 /\ n + 1 \in Nat /\ n \in 0..n
  BY <1>1
<1>5. f[n] = g[n]
  BY <1>1, <1>2, <1>3, <1>4, StoresAgree
<1>6. g[n + 1] = Apply(g[n], longer[n + 1])
  <2>1. n + 1 \in 0..n + 1 /\ n + 1 # 0 /\ (n + 1) - 1 = n
    BY <1>1
  <2>2. g[n + 1] = IF n + 1 = 0 THEN NewStore ELSE Apply(g[(n + 1) - 1], longer[n + 1])
    BY <1>3, <2>1 DEF Stores
  <2> QED
    BY <2>1, <2>2
<1> QED
  BY <1>1, <1>2, <1>3, <1>5, <1>6 DEF longer

LEMMA ReplayableAppend ==
    ASSUME NEW X, NEW records \in Seq(X), NEW r,
           Replayable(records), Applies(Replay(records), r)
    PROVE  Replayable(Append(records, r))
<1> DEFINE longer == Append(records, r)
           n == Len(records)
<1>1. n \in Nat /\ Len(longer) = n + 1
  OBVIOUS
<1>2. ASSUME NEW i \in 1..n + 1
      PROVE  Applies(Replay(SubSeq(longer, 1, i - 1)), longer[i])
  <2>1. CASE i = n + 1
    <3>1. SubSeq(longer, 1, n) = records /\ longer[n + 1] = r
      OBVIOUS
    <3>2. i - 1 = n
      BY <1>1, <2>1
    <3> HIDE DEF longer, n
    <3> QED
      BY <2>1, <3>1, <3>2
  <2>2. CASE i # n + 1
    <3>1. i \in 1..n /\ i - 1 \in 0..n
      BY <1>1, <2>2
    <3>2. SubSeq(longer, 1, i - 1) = SubSeq(records, 1, i - 1) /\ longer[i] = records[i]
      BY <3>1
    <3> HIDE DEF longer
    <3> QED
      BY <3>1, <3>2 DEF Replayable
  <2> QED
    BY <2>1, <2>2
<1> HIDE DEF longer
<1>3. Replayable(longer)
  BY <1>1, <1>2 DEF Replayable
<1> QED
  BY <1>3 DEF longer

LEMMA ReplayOne ==
    ASSUME NEW r, Applies(NewStore, r)
    PROVE  Replayable(<<r>>) /\ Replay(<<r>>) = Apply(NewStore, r)
<1>1. <<>> \in Seq({r}) /\ Append(<<>>, r) = <<r>>
  OBVIOUS
<1>2. Replayable(<<>>)
  BY DEF Replayable
<1>3. Replayable(Append(<<>>, r)) /\ Replay(Append(<<>>, r)) = Apply(NewStore, r)
  BY <1>1, <1>2, ReplayNone, ReplayAppend, ReplayableAppend
<1> QED
  BY <1>1, <1>3
-----------------------------------------------------------------------------
(***************************************************************************)
(* A snapshot holds the whole store.                                       *)
(***************************************************************************)
LEMMA LastOfTheOnly ==
    ASSUME NEW names, IsInjective(names), NEW i \in DOMAIN names, DOMAIN names = 1..Len(names),
           NEW list
    PROVE  LastOf(list, {j \in 1..Len(names) : names[j] = names[i]}) = list[i]
<1>1. {j \in 1..Len(names) : names[j] = names[i]} = {i}
  BY DEF IsInjective
<1>2. (CHOOSE k \in {i} : \A j \in {i} : j <= k) = i
  <2>1. i \in Int
    OBVIOUS
  <2> QED
    BY <2>1
<1> QED
  BY <1>1, <1>2 DEF LastOf

(***************************************************************************)
(* The snapshot that Compact writes, replayed from nothing, gives back the *)
(* store it was taken of: schedule, secrets, histories and both orders.    *)
(***************************************************************************)
THEOREM SnapshotApplied ==
    ASSUME NEW s, IsStore(s)
    PROVE  Applies(NewStore, SnapshotRec(s)) /\ Apply(NewStore, SnapshotRec(s)) = s
<1> DEFINE r == SnapshotRec(s)
           names == [i \in 1..Len(r.endpoints) |-> r.endpoints[i].name]
           ids == [i \in 1..Len(r.messages) |-> r.messages[i].id]
<1>1. /\ r.type = "snapshot" /\ r.schedule = ScheduleText(s.schedule)
      /\ r.endpoints = EndpointList(s) /\ r.messages = MessageList(s)
  BY DEF SnapshotRec
<1> HIDE DEF r
<1>2. /\ s.schedule \in Schedule
      /\ s.epOrder \in Seq(Names) /\ s.msgOrder \in Seq(Ids)
      /\ ToSet(s.epOrder) = DOMAIN s.endpoints /\ IsInjective(s.epOrder)
      /\ ToSet(s.msgOrder) = DOMAIN s.messages /\ IsInjective(s.msgOrder)
      /\ s.endpoints = [n \in DOMAIN s.endpoints |-> s.endpoints[n]]
      /\ s.messages = [id \in DOMAIN s.messages |-> s.messages[id]]
  BY DEF IsStore, IsMap
<1>3. Applies(NewStore, r)
  BY <1>1, <1>2, ScheduleRoundTrip DEF Applies
<1>4. /\ Len(r.endpoints) = Len(s.epOrder) /\ Len(s.epOrder) \in Nat
      /\ DOMAIN s.epOrder = 1..Len(s.epOrder)
      /\ \A i \in 1..Len(s.epOrder) :
            /\ r.endpoints[i].name = s.epOrder[i]
            /\ r.endpoints[i].secrets = s.endpoints[s.epOrder[i]]
  BY <1>1, <1>2 DEF EndpointList
<1>5. /\ Len(r.messages) = Len(s.msgOrder) /\ Len(s.msgOrder) \in Nat
      /\ DOMAIN s.msgOrder = 1..Len(s.msgOrder)
      /\ \A i \in 1..Len(s.msgOrder) :
            /\ r.messages[i].id = s.msgOrder[i]
            /\ r.messages[i].message = s.messages[s.msgOrder[i]]
  BY <1>1, <1>2 DEF MessageList
<1>6. names = s.epOrder /\ ids = s.msgOrder
  <2>1. /\ s.epOrder = [i \in 1..Len(s.epOrder) |-> s.epOrder[i]]
        /\ s.msgOrder = [i \in 1..Len(s.msgOrder) |-> s.msgOrder[i]]
    BY <1>2
  <2>2. names = [i \in 1..Len(s.epOrder) |-> s.epOrder[i]]
    BY <1>4
  <2>3. ids = [i \in 1..Len(s.msgOrder) |-> s.msgOrder[i]]
    BY <1>5
  <2> QED
    BY <2>1, <2>2, <2>3
<1>7. \A n \in DOMAIN s.endpoints :
          LastOf(r.endpoints, {i \in 1..Len(names) : names[i] = n}).secrets = s.endpoints[n]
  <2> SUFFICES ASSUME NEW n \in DOMAIN s.endpoints
               PROVE  LastOf(r.endpoints, {i \in 1..Len(s.epOrder) : s.epOrder[i] = n}).secrets
                          = s.endpoints[n]
    BY <1>6
  <2>1. PICK i \in DOMAIN s.epOrder : s.epOrder[i] = n
    BY <1>2 DEF ToSet
  <2>2. LastOf(r.endpoints, {j \in 1..Len(s.epOrder) : s.epOrder[j] = s.epOrder[i]}) = r.endpoints[i]
    BY <1>2, <1>4, LastOfTheOnly
  <2> QED
    BY <1>4, <2>1, <2>2
<1>8. \A id \in DOMAIN s.messages :
          LastOf(r.messages, {i \in 1..Len(ids) : ids[i] = id}).message = s.messages[id]
  <2> SUFFICES ASSUME NEW id \in DOMAIN s.messages
               PROVE  LastOf(r.messages, {i \in 1..Len(s.msgOrder) : s.msgOrder[i] = id}).message
                          = s.messages[id]
    BY <1>6
  <2>1. PICK i \in DOMAIN s.msgOrder : s.msgOrder[i] = id
    BY <1>2 DEF ToSet
  <2>2. LastOf(r.messages, {j \in 1..Len(s.msgOrder) : s.msgOrder[j] = s.msgOrder[i]}) = r.messages[i]
    BY <1>2, <1>5, LastOfTheOnly
  <2> QED
    BY <1>5, <2>1, <2>2
<1> DEFINE endpoints == [n \in ToSet(names) |->
                            LastOf(r.endpoints, {i \in 1..Len(names) : names[i] = n}).secrets]
           messages == [id \in ToSet(ids) |->
                            LastOf(r.messages, {i \in 1..Len(ids) : ids[i] = id}).message]
<1>9. endpoints = s.endpoints
  BY <1>2, <1>6, <1>7
<1>10. messages = s.messages
  BY <1>2, <1>6, <1>8
<1>11. Apply(NewStore, r) = ApplySnapshot(NewStore, r)
  BY <1>1 DEF Apply
<1>12. ApplySnapshot(NewStore, r)
           = [schedule |-> ParseSchedule(r.schedule), endpoints |-> endpoints, epOrder |-> names,
              messages |-> messages, msgOrder |-> ids]
  BY DEF ApplySnapshot
<1>13. ParseSchedule(r.schedule) = s.schedule
  BY <1>1, <1>2, ScheduleRoundTrip
<1> HIDE DEF endpoints, messages, names, ids
<1>14. Apply(NewStore, r) = s
  BY <1>6, <1>9, <1>10, <1>11, <1>12, <1>13 DEF IsStore
<1> QED
  BY <1>3, <1>14 DEF r
-----------------------------------------------------------------------------
(***************************************************************************)
(* apply leaves a store a store: the fields keep their types, and the      *)
(* orders list what is there.                                              *)
(***************************************************************************)
LEMMA StoreHasType ==
    ASSUME NEW s, IsStore(s)
    PROVE  StoreType(s)
<1>1. DOMAIN s = {"schedule", "endpoints", "epOrder", "messages", "msgOrder"}
  BY DEF IsStore
<1> QED
  BY <1>1 DEF IsStore, IsMap, StoreType

LEMMA NewStoreIsStore == IsStore(NewStore)
<1>1. Default \in Schedule
  BY DEF Default, Schedule, MaxEntries
<1>2. IsMap(<<>>, Names, Seq(Secrets)) /\ IsMap(<<>>, Ids, Message)
  BY DEF IsMap
<1>3. ToSet(<<>>) = DOMAIN <<>> /\ IsInjective(<<>>)
  BY DEF ToSet, IsInjective
<1> QED
  BY <1>1, <1>2, <1>3 DEF NewStore, IsStore

LEMMA ConfigStored ==
    ASSUME NEW s, IsStore(s), NEW schedule \in Schedule
    PROVE  /\ Applies(s, ConfigRec(schedule))
           /\ IsStore(Apply(s, ConfigRec(schedule)))
<1>1. Applies(s, ConfigRec(schedule))
  BY ScheduleRoundTrip DEF Applies, ConfigRec
<1>2. Apply(s, ConfigRec(schedule)) = [s EXCEPT !.schedule = schedule]
  BY ScheduleRoundTrip DEF Apply, ConfigRec, ApplyConfig
<1> QED
  BY <1>1, <1>2 DEF IsStore

LEMMA EndpointAddStored ==
    ASSUME NEW s, IsStore(s), NEW name \in Names \ DOMAIN s.endpoints, NEW secret \in Secrets
    PROVE  /\ Applies(s, EndpointAddRec(name, secret))
           /\ IsStore(Apply(s, EndpointAddRec(name, secret)))
<1> DEFINE endpoints == Put(s.endpoints, name, <<secret>>)
           epOrder == Append(s.epOrder, name)
           t == Apply(s, EndpointAddRec(name, secret))
<1>1. t = [s EXCEPT !.endpoints = endpoints, !.epOrder = epOrder]
  BY DEF Apply, EndpointAddRec, ApplyEndpointAdd
<1>2. IsMap(endpoints, Names, Seq(Secrets)) /\ DOMAIN endpoints = DOMAIN s.endpoints \cup {name}
  BY DEF Put, IsMap, IsStore
<1>3. epOrder \in Seq(Names) /\ ToSet(epOrder) = DOMAIN s.endpoints \cup {name} /\ IsInjective(epOrder)
  BY ListedAppend DEF ListsAlso, IsStore
<1> HIDE DEF endpoints, epOrder, t
<1>4. IsStore(t)
  BY <1>1, <1>2, <1>3 DEF IsStore
<1> QED
  BY <1>4 DEF t, Applies, EndpointAddRec

LEMMA EndpointRotateStored ==
    ASSUME NEW s, IsStore(s), NEW name \in DOMAIN s.endpoints, NEW secret \in Secrets
    PROVE  /\ Applies(s, EndpointRotateRec(name, secret))
           /\ IsStore(Apply(s, EndpointRotateRec(name, secret)))
<1> DEFINE secrets == <<secret>> \o s.endpoints[name]
           kept == IF Len(secrets) > MaxSecrets THEN SubSeq(secrets, 1, MaxSecrets) ELSE secrets
           endpoints == [s.endpoints EXCEPT ![name] = kept]
           t == Apply(s, EndpointRotateRec(name, secret))
<1>1. t = [s EXCEPT !.endpoints = endpoints]
  BY DEF Apply, EndpointRotateRec, ApplyEndpointRotate
<1>2. kept \in Seq(Secrets)
  <2>1. s.endpoints[name] \in Seq(Secrets)
    BY DEF IsStore, IsMap
  <2>2. secrets \in Seq(Secrets) /\ Len(secrets) \in Nat
    BY <2>1
  <2> HIDE DEF secrets
  <2>3. Len(secrets) > 2 => SubSeq(secrets, 1, 2) \in Seq(Secrets)
    BY <2>2
  <2> QED
    BY <2>2, <2>3 DEF MaxSecrets
<1> HIDE DEF kept
<1>3. IsMap(endpoints, Names, Seq(Secrets)) /\ DOMAIN endpoints = DOMAIN s.endpoints
  BY <1>2 DEF IsMap, IsStore
<1> HIDE DEF endpoints, t
<1>4. IsStore(t)
  BY <1>1, <1>3 DEF IsStore
<1> QED
  BY <1>4 DEF t, Applies, EndpointRotateRec, Has

LEMMA EndpointRemoveStored ==
    ASSUME NEW s, IsStore(s), NEW name
    PROVE  /\ Applies(s, EndpointRemoveRec(name))
           /\ IsStore(Apply(s, EndpointRemoveRec(name)))
<1> DEFINE endpoints == [n \in DOMAIN s.endpoints \ {name} |-> s.endpoints[n]]
           epOrder == Without(s.epOrder, name)
           messages == [id \in DOMAIN s.messages |-> IF id \in DeadLettered(s, name)
                                                     THEN Orphaned(s.messages[id])
                                                     ELSE s.messages[id]]
           t == Apply(s, EndpointRemoveRec(name))
<1>1. t = [s EXCEPT !.endpoints = endpoints, !.epOrder = epOrder, !.messages = messages]
  BY DEF Apply, EndpointRemoveRec, ApplyEndpointRemove
<1>2. IsMap(endpoints, Names, Seq(Secrets)) /\ DOMAIN endpoints = DOMAIN s.endpoints \ {name}
  BY DEF IsMap, IsStore
<1>3. epOrder \in Seq(Names) /\ ToSet(epOrder) = DOMAIN s.endpoints \ {name} /\ IsInjective(epOrder)
  BY WithoutProperties DEF IsStore
<1>4. IsMap(messages, Ids, Message) /\ DOMAIN messages = DOMAIN s.messages
  BY OrphanedType DEF IsMap, IsStore
<1> HIDE DEF endpoints, epOrder, messages, t
<1>5. IsStore(t)
  BY <1>1, <1>2, <1>3, <1>4 DEF IsStore
<1> QED
  BY <1>5 DEF t, Applies, EndpointRemoveRec

LEMMA EnqueueStored ==
    ASSUME NEW s, IsStore(s), NEW id \in Ids \ DOMAIN s.messages, NEW name \in Names, NEW at \in Nat
    PROVE  /\ Applies(s, EnqueueRec(id, name, at))
           /\ IsStore(Apply(s, EnqueueRec(id, name, at)))
<1> DEFINE messages == Put(s.messages, id, NewMessage(name, at))
           msgOrder == Append(s.msgOrder, id)
           t == Apply(s, EnqueueRec(id, name, at))
<1>1. t = [s EXCEPT !.messages = messages, !.msgOrder = msgOrder]
  BY DEF Apply, EnqueueRec, ApplyEnqueue
<1>2. IsMap(messages, Ids, Message) /\ DOMAIN messages = DOMAIN s.messages \cup {id}
  BY NewMessageType DEF Put, IsMap, IsStore
<1>3. msgOrder \in Seq(Ids) /\ ToSet(msgOrder) = DOMAIN s.messages \cup {id} /\ IsInjective(msgOrder)
  BY ListedAppend DEF ListsAlso, IsStore
<1> HIDE DEF messages, msgOrder, t
<1>4. IsStore(t)
  BY <1>1, <1>2, <1>3 DEF IsStore
<1> QED
  BY <1>4 DEF t, Applies, EnqueueRec

\* A message changes, and nothing else.
LEMMA MessageStored ==
    ASSUME NEW s, IsStore(s), NEW id \in DOMAIN s.messages, NEW m \in Message
    PROVE  IsStore([s EXCEPT !.messages = [s.messages EXCEPT ![id] = m]])
<1> DEFINE messages == [s.messages EXCEPT ![id] = m]
<1>1. IsMap(messages, Ids, Message) /\ DOMAIN messages = DOMAIN s.messages
  BY DEF IsMap, IsStore
<1> HIDE DEF messages
<1>2. IsStore([s EXCEPT !.messages = messages])
  BY <1>1 DEF IsStore
<1> QED
  BY <1>2 DEF messages

LEMMA AttemptStored ==
    ASSUME NEW s, IsStore(s), NEW id \in DOMAIN s.messages, NEW verdict \in Verdicts,
           NEW outcome \in Outcomes, NEW nextDue \in Nat
    PROVE  /\ Applies(s, AttemptRec(id, verdict, outcome, nextDue))
           /\ IsStore(Apply(s, AttemptRec(id, verdict, outcome, nextDue)))
<1> DEFINE r == AttemptRec(id, verdict, outcome, nextDue)
<1>1. /\ r.type = "attempt" /\ r.id = id
      /\ r.verdict = verdict /\ r.outcome = outcome /\ r.nextDue = nextDue
  BY DEF AttemptRec
<1> HIDE DEF r
<1>2. Apply(s, r) = [s EXCEPT !.messages = [s.messages EXCEPT ![id] = Attempted(s.messages[id], r)]]
  BY <1>1 DEF Apply, ApplyAttempt
<1>3. Attempted(s.messages[id], r) \in Message
  BY <1>1, AttemptedType DEF IsStore, IsMap
<1>4. Applies(s, r)
  BY <1>1 DEF Applies, Has
<1> QED
  BY <1>2, <1>3, <1>4, MessageStored DEF r

LEMMA RequeueStored ==
    ASSUME NEW s, IsStore(s), NEW id \in DOMAIN s.messages, NEW at \in Nat
    PROVE  /\ Applies(s, RequeueRec(id, at))
           /\ IsStore(Apply(s, RequeueRec(id, at)))
<1>1. Apply(s, RequeueRec(id, at))
          = [s EXCEPT !.messages = [s.messages EXCEPT ![id] = Requeued(s.messages[id], at)]]
  BY DEF Apply, ApplyRequeue, RequeueRec
<1>2. Requeued(s.messages[id], at) \in Message
  BY RequeuedType DEF IsStore, IsMap
<1>3. Applies(s, RequeueRec(id, at))
  BY DEF Applies, Has, RequeueRec
<1> QED
  BY <1>1, <1>2, <1>3, MessageStored
=============================================================================
