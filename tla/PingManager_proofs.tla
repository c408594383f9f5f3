------------------------- MODULE PingManager_proofs -------------------------
(***************************************************************************)
(* For any targets, calls, number of sequence numbers, timeout and bounds: *)
(* each ping of a session is pending or has been reported, under its own   *)
(* number; none waits longer than the timeout and one sleep of the worker; *)
(* and a session nobody stopped ends after its last report.                *)
(***************************************************************************)
EXTENDS PingManager, FiniteSetTheorems, SequenceTheorems, WellFoundedInduction, TLAPS

-----------------------------------------------------------------------------
(* The inductive invariant *)

Entry ==
    [owner : Handle, count : Nat \cup {NoCount}, interval : Nat, sent : Number, last : Nat,
     pending : Seq(PendingPing)]

(* An entry is that of its call, and sent no more than the bound.           *)
FitsCall(entry) ==
    /\ entry.count = Calls[entry.owner].count
    /\ entry.interval = Calls[entry.owner].interval
    /\ entry.last <= entry.interval + 1
    /\ entry.sent <= MaxSent

(* Pings wait in the order in which they were sent.                         *)
InOrder(entry) ==
    \A i, j \in 1 .. Len(entry.pending) : i < j =>
        /\ entry.pending[i].number < entry.pending[j].number
        /\ entry.pending[i].age >= entry.pending[j].age

(* They carry the low bits of their number, and were sent at least an       *)
(* interval apart.                                                          *)
Spaced(entry) ==
    \A i \in 1 .. Len(entry.pending) :
        LET ping == entry.pending[i] IN
        /\ ping.number < entry.sent
        /\ ping.sequence = ping.number % SequenceSize
        /\ ping.age >= entry.last + (entry.sent - 1 - ping.number) * (entry.interval + 1)

(* No more than half a ring of numbers has been sent since any of them.     *)
InWindow(entry) ==
    \A i \in 1 .. Len(entry.pending) :
        2 * (entry.sent - entry.pending[i].number) <= SequenceSize

EntryInv(entry) ==
    entry \in Entry /\ FitsCall(entry) /\ InOrder(entry) /\ Spaced(entry) /\ InWindow(entry)

(* PingsAreAccounted of one entry and what its PingSession was sent.        *)
Accounted(entry, reports) ==
    /\ 0 .. entry.sent - 1 \subseteq {report[1] : report \in reports} \cup Unanswered(entry)
    /\ Unanswered(entry) \subseteq 0 .. entry.sent - 1
    /\ \A report \in reports :
          report[2] # "unreachable" => report[1] \in (0 .. entry.sent - 1) \ Unanswered(entry)

SessionsFit ==
    /\ DOMAIN sessions \subseteq Key
    /\ \A key \in DOMAIN sessions :
        /\ EntryInv(sessions[key])
        /\ sessions[key].owner \in 1 .. Len(handles)
        /\ handles[sessions[key].owner].key = key
        /\ Accounted(sessions[key], results[sessions[key].owner])

(* While the worker sleeps, what is left of its sleep and the age of a ping *)
(* add up to no more than they did when it began.                           *)
AgesFit ==
    \A key \in DOMAIN sessions : \A i \in 1 .. Len(sessions[key].pending) :
        LET age == sessions[key].pending[i].age IN
        /\ age <= Timeout + LongestSleep + 1
        /\ worker = "parked" => age + deadline <= Timeout + LongestSleep

TablesShape ==
    /\ handles \in Seq([key : Key, stopped : BOOLEAN])
    /\ Len(handles) <= Len(Calls)
    /\ stops \subseteq Key
    /\ results \in [Handle -> SUBSET (Number \X Status)]
    /\ worker \in {"control", "recv", "parked"}
    /\ deadline \in Int /\ deadline >= -1 /\ deadline <= LongestSleep
    /\ errors \in 0 .. MaxErrors

(* Nothing is reported of a ping that nobody has asked for.                 *)
FreshResults == \A h \in Handle : h > Len(handles) => results[h] = {}

StopsAreAsked ==
    \A key \in stops : \E h \in 1 .. Len(handles) : handles[h].key = key /\ handles[h].stopped

IInv ==
    /\ TablesShape /\ SessionsFit /\ AgesFit /\ FreshResults /\ StopsAreAsked
    /\ EndedSessionsAreComplete

-----------------------------------------------------------------------------
(* Numbers *)

LEMMA LeastOfNaturals ==
    ASSUME NEW T, T \subseteq Nat, T # {}
    PROVE  Min(T) \in T /\ \A y \in T : Min(T) <= y
<1>1. PICK x \in T : \A y \in T : ~(<<y, x>> \in OpToRel(<, Nat))
    BY WFMin, NatLessThanWellFounded
<1>2. \A y \in T : ~(y < x)
    BY <1>1 DEF OpToRel
<1>3. \A y \in T : x <= y
    BY <1>2
<1> QED
    BY <1>3 DEF Min

LEMMA LesserOfTwo ==
    ASSUME NEW a \in Int, NEW b \in Int
    PROVE  Min({a, b}) = IF a <= b THEN a ELSE b
<1>1. (IF a <= b THEN a ELSE b) \in {a, b}
    OBVIOUS
<1>2. \A y \in {a, b} : (IF a <= b THEN a ELSE b) <= y
    OBVIOUS
<1> QED
    BY <1>1, <1>2 DEF Min

(* A finite set of numbers has a greatest: one with the fewest elements     *)
(* among those that have none would have none either without an element.    *)
LEMMA GreatestOfNaturals ==
    ASSUME NEW T, T \subseteq Nat, T # {}, IsFiniteSet(T)
    PROVE  Max(T) \in T /\ \A y \in T : y <= Max(T)
<1> DEFINE HasGreatest(U) == \E x \in U : \A y \in U : y <= x
           Bad(n) == \E U \in SUBSET Nat :
                        U # {} /\ IsFiniteSet(U) /\ Cardinality(U) = n /\ ~HasGreatest(U)
           Sizes == {n \in Nat : Bad(n)}
<1>1. Sizes = {}
    <2> SUFFICES ASSUME Sizes # {} PROVE FALSE
        OBVIOUS
    <2>1. PICK n \in Sizes : \A m \in Sizes : n <= m
        <3>1. Sizes \subseteq Nat
            OBVIOUS
        <3> HIDE DEF Sizes
        <3> QED
            BY <3>1, LeastOfNaturals
    <2>2. PICK U \in SUBSET Nat :
            U # {} /\ IsFiniteSet(U) /\ Cardinality(U) = n /\ ~HasGreatest(U)
        BY <2>1
    <2>3. PICK x : x \in U
        BY <2>2
    <2> DEFINE V == U \ {x}
    <2>4. IsFiniteSet(V) /\ Cardinality(V) = n - 1 /\ n \in Nat
        BY <2>1, <2>2, <2>3, FS_RemoveElement
    <2>5. CASE V = {}
        <3>1. \A y \in U : y <= x
            BY <2>2, <2>3, <2>5
        <3> QED
            BY <2>2, <2>3, <3>1
    <2>6. CASE V # {}
        <3>1. n - 1 \in Nat
            BY <2>4, FS_CardinalityType
        <3>2. V \in SUBSET Nat
            BY <2>2
        <3>3. ~Bad(n - 1)
            BY <2>1, <2>4, <3>1
        <3>4. HasGreatest(V)
            BY <2>4, <2>6, <3>2, <3>3
        <3>5. PICK v \in V : \A y \in V : y <= v
            BY <3>4
        <3>6. CASE v <= x
            <4>1. \A y \in U : y <= x
                BY <2>2, <2>3, <3>2, <3>5, <3>6
            <4> QED
                BY <2>2, <2>3, <4>1
        <3>7. CASE ~(v <= x)
            <4>1. \A y \in U : y <= v
                BY <2>2, <2>3, <3>2, <3>5, <3>7
            <4> QED
                BY <2>2, <3>5, <4>1
        <3> QED
            BY <3>6, <3>7
    <2> QED
        BY <2>5, <2>6
<1>2. Cardinality(T) \in Nat
    BY FS_CardinalityType
<1>3. HasGreatest(T)
    BY <1>1, <1>2
<1> QED
    BY <1>3 DEF Max

LEMMA ConstantsFit ==
    /\ {Timeout, DefaultPark, MaxSent, MaxErrors} \subseteq Nat
    /\ {SequenceSize, CounterSize} \subseteq Nat \ {0}
    /\ MaxSent < CounterSize
    /\ Len(Calls) \in Nat /\ Handle = 1 .. Len(Calls) /\ IsFiniteSet(Handle)
    /\ \A h \in Handle : /\ Calls[h] \in [target : Target, count : Nat \cup {NoCount}, interval : Nat]
                         /\ Calls[h].interval \in Nat /\ Calls[h].count \in Nat \cup {NoCount}
                         /\ Calls[h].target \in Target
    /\ NoCount \notin Nat
<1>1. Calls \in Seq([target : Target, count : Nat \cup {NoCount}, interval : Nat])
    BY PingAssumption
<1>2. Len(Calls) \in Nat /\ Handle = 1 .. Len(Calls)
    BY <1>1, LenProperties DEF Handle
<1>3. \A h \in Handle : Calls[h] \in [target : Target, count : Nat \cup {NoCount}, interval : Nat]
    BY <1>1, <1>2, ElementOfSeq
<1>4. IsFiniteSet(Handle)
    BY <1>2, FS_Interval
<1> QED
    BY <1>2, <1>3, <1>4, PingAssumption

LEMMA SleepsFit ==
    /\ LongestSleep \in Nat /\ Timeout <= LongestSleep /\ DefaultPark <= LongestSleep
    /\ \A h \in Handle : Calls[h].interval <= LongestSleep
<1> DEFINE intervals == {Calls[h].interval : h \in Handle}
           T == {Timeout, DefaultPark} \cup intervals
<1>1. T \subseteq Nat /\ T # {}
    BY ConstantsFit
<1>2. IsFiniteSet(intervals)
    <2> DEFINE f == [h \in Handle |-> Calls[h].interval]
    <2>1. f \in Surjection(Handle, intervals)
        BY DEF Surjection
    <2> HIDE DEF f, intervals
    <2> QED
        BY <2>1, ConstantsFit, FS_Surjection
<1>3. IsFiniteSet({Timeout, DefaultPark})
    <2>1. IsFiniteSet({}) /\ {Timeout, DefaultPark} = ({} \cup {Timeout}) \cup {DefaultPark}
        BY FS_EmptySet
    <2> QED
        BY <2>1, FS_AddElement
<1>4. IsFiniteSet(T)
    BY <1>2, <1>3, FS_Union
<1>5. LongestSleep = Max(T)
    BY DEF LongestSleep
<1> HIDE DEF T
<1>6. Max(T) \in T /\ \A y \in T : y <= Max(T)
    BY <1>1, <1>4, GreatestOfNaturals
<1> QED
    BY <1>1, <1>5, <1>6 DEF T

(* What is a multiple of n and less than n more has the less for remainder. *)
LEMMA Remainder ==
    ASSUME NEW n \in Nat \ {0}, NEW k \in Int, NEW r \in 0 .. n - 1
    PROVE  (k * n + r) % n = r
<1> DEFINE x == k * n + r
           q == x \div n
           m == x % n
<1>1. x \in Int
    OBVIOUS
<1>2. x = n * q + m /\ m \in 0 .. n - 1 /\ q \in Int
    BY <1>1
<1> HIDE DEF q, m
<1>3. (k - q) * n = m - r
    BY <1>2
<1>4. CASE k - q >= 1
    <2>1. (k - q) * n >= n
        BY <1>2, <1>4
    <2> QED
        BY <1>2, <1>3, <2>1
<1>5. CASE k - q <= -1
    <2>1. (k - q) * n <= -n
        BY <1>2, <1>5
    <2> QED
        BY <1>2, <1>3, <2>1
<1>6. CASE k - q = 0
    BY <1>2, <1>3, <1>6 DEF m
<1> QED
    BY <1>2, <1>4, <1>5, <1>6

(* A number at most half a ring behind the count of pings sent is found     *)
(* again from its low bits (ping.rs:359).                                   *)
LEMMA UnwrapInverse ==
    ASSUME NEW n \in Nat, NEW sent \in Nat, n <= sent, sent < CounterSize,
           2 * (sent - n) <= SequenceSize
    PROVE  UnwrapSequence(n % SequenceSize, sent) = n
<1> DEFINE S == SequenceSize
           r == n % S
           q == n \div S
           d == sent - n
           diff == (r - sent) % S
<1>1. S \in Nat \ {0} /\ CounterSize \in Nat \ {0}
    BY ConstantsFit
<1>2. n = q * S + r /\ q \in Nat /\ r \in 0 .. S - 1 /\ d \in Nat /\ 2 * d <= S
    BY <1>1
<1>3. \A m \in 0 .. CounterSize - 1 : m % CounterSize = m
    <2> TAKE m \in 0 .. CounterSize - 1
    <2>1. (0 * CounterSize + m) % CounterSize = m
        BY <1>1, Remainder
    <2> QED
        BY <1>1, <2>1
<1>4. UnwrapSequence(r, sent) = IF 2 * diff < S THEN (sent + diff) % CounterSize
                                                ELSE (sent - (S - diff)) % CounterSize
    BY DEF UnwrapSequence
<1> HIDE DEF r, q, S
<1>5. CASE d = 0
    <2>1. r - sent = (-q) * S + 0
        BY <1>1, <1>2, <1>5
    <2>2. diff = 0
        <3>1. 0 \in 0 .. S - 1 /\ -q \in Int
            BY <1>1, <1>2
        <3>2. ((-q) * S + 0) % S = 0
            BY <1>1, <3>1, Remainder
        <3> QED
            BY <2>1, <3>2
    <2> HIDE DEF diff
    <2>3. (sent + diff) % CounterSize = n
        BY <1>1, <1>3, <1>5, <2>2
    <2> QED
        BY <1>1, <1>4, <2>2, <2>3 DEF S, r
<1>6. CASE d # 0
    <2>1. r - sent = (-q - 1) * S + (S - d)
        BY <1>1, <1>2
    <2>2. diff = S - d
        <3>1. S - d \in 0 .. S - 1 /\ -q - 1 \in Int
            BY <1>1, <1>2, <1>6
        <3>2. ((-q - 1) * S + (S - d)) % S = S - d
            BY <1>1, <3>1, Remainder
        <3> QED
            BY <2>1, <3>2
    <2> HIDE DEF diff
    <2>3. ~(2 * diff < S) /\ sent - (S - diff) = n
        BY <1>1, <1>2, <2>2
    <2>4. n % CounterSize = n
        BY <1>1, <1>3
    <2> QED
        BY <1>4, <2>3, <2>4 DEF S, r
<1> QED
    BY <1>5, <1>6

-----------------------------------------------------------------------------
(* What is done to an entry *)

(* Whatever the sequence number, it is unwrapped to some usize.             *)
LEMMA UnwrapsToANumber ==
    ASSUME NEW sequence \in Int, NEW sent \in Nat
    PROVE  UnwrapSequence(sequence, sent) \in Number
<1> DEFINE diff == (sequence - sent) % SequenceSize
<1>1. SequenceSize \in Nat \ {0} /\ CounterSize \in Nat \ {0}
    BY ConstantsFit
<1>2. diff \in Int
    BY <1>1
<1> HIDE DEF diff
<1>3. /\ (sent + diff) % CounterSize \in 0 .. CounterSize - 1
      /\ (sent - (SequenceSize - diff)) % CounterSize \in 0 .. CounterSize - 1
    BY <1>1, <1>2
<1> QED
    BY <1>3 DEF UnwrapSequence, Number, diff

(* The pings of an entry, and what an entry with the same pings shares.     *)
LEMMA PingsOf ==
    ASSUME NEW entry, EntryInv(entry)
    PROVE  /\ entry.owner \in Handle /\ entry.count \in Nat \cup {NoCount}
           /\ entry.interval \in Nat /\ entry.sent \in Nat /\ entry.last \in Nat
           /\ entry.sent \in Number /\ entry.sent < CounterSize
           /\ entry.pending \in Seq(PendingPing) /\ Len(entry.pending) \in Nat
           /\ DOMAIN entry.pending = 1 .. Len(entry.pending)
           /\ \A i \in 1 .. Len(entry.pending) :
                /\ entry.pending[i] \in PendingPing
                /\ entry.pending[i].number \in Nat /\ entry.pending[i].age \in Nat
                /\ entry.pending[i].number \in Number
<1>1. entry \in Entry
    BY DEF EntryInv
<1>2. /\ entry.owner \in Handle /\ entry.count \in Nat \cup {NoCount}
      /\ entry.interval \in Nat /\ entry.sent \in Number /\ entry.last \in Nat
      /\ entry.pending \in Seq(PendingPing)
    BY <1>1 DEF Entry
<1>3. Number \subseteq Nat /\ \A n \in Number : n < CounterSize
    BY ConstantsFit DEF Number
<1>4. Len(entry.pending) \in Nat /\ DOMAIN entry.pending = 1 .. Len(entry.pending)
    BY <1>2, LenProperties
<1>5. ASSUME NEW i \in 1 .. Len(entry.pending)
      PROVE  entry.pending[i] \in PendingPing
    BY <1>2, ElementOfSeq
<1>6. \A ping \in PendingPing : ping.number \in Number /\ ping.age \in Nat
    BY DEF PendingPing
<1> QED
    BY <1>2, <1>3, <1>4, <1>5, <1>6

WithPending(entry, pings) == [entry EXCEPT !.pending = pings]

PingsFrom(new, entry) ==
    \A i \in 1 .. Len(new.pending) :
        \E j \in 1 .. Len(entry.pending) : new.pending[i] = entry.pending[j]

(* Some of the pings of an entry, in their order, are as good as all.       *)
LEMMA FewerPings ==
    ASSUME NEW entry, EntryInv(entry), NEW some \in Seq(PendingPing),
           NEW f \in [1 .. Len(some) -> 1 .. Len(entry.pending)],
           \A i, j \in 1 .. Len(some) : i < j => f[i] < f[j],
           \A i \in 1 .. Len(some) : some[i] = entry.pending[f[i]],
           NEW new, new = WithPending(entry, some)
    PROVE  EntryInv(new)
<1>1. entry \in Entry /\ FitsCall(entry) /\ InOrder(entry) /\ Spaced(entry) /\ InWindow(entry)
    BY DEF EntryInv
<1>2. /\ new \in Entry /\ new.pending = some
      /\ new.owner = entry.owner /\ new.count = entry.count /\ new.interval = entry.interval
      /\ new.sent = entry.sent /\ new.last = entry.last
    BY <1>1 DEF Entry, WithPending
<1>3. FitsCall(new)
    BY <1>1, <1>2 DEF FitsCall
<1>4. InOrder(new)
    BY <1>1, <1>2 DEF InOrder
<1>5. Spaced(new)
    BY <1>1, <1>2 DEF Spaced
<1>6. InWindow(new)
    BY <1>1, <1>2 DEF InWindow
<1> QED
    BY <1>2, <1>3, <1>4, <1>5, <1>6 DEF EntryInv

(* Taking an element out of a sequence: what stays keeps its order.        *)
LEMMA RemoveAtProperties ==
    ASSUME NEW S, NEW s \in Seq(S), NEW k \in 1 .. Len(s)
    PROVE  /\ RemoveAt(s, k) \in Seq(S)
           /\ Len(RemoveAt(s, k)) = Len(s) - 1
           /\ \A i \in 1 .. Len(s) - 1 :
                 RemoveAt(s, k)[i] = s[IF i < k THEN i ELSE i + 1]
<1> DEFINE before == SubSeq(s, 1, k - 1)
           after == SubSeq(s, k + 1, Len(s))
<1>0. Len(s) \in Nat /\ k \in Nat /\ 1 <= k /\ k <= Len(s)
    BY LenProperties
<1>1. /\ before \in Seq(S)
      /\ Len(before) = k - 1
      /\ \A i \in 1 .. k - 1 : before[i] = s[i]
    BY <1>0, SubSeqProperties
<1>2. /\ after \in Seq(S)
      /\ Len(after) = Len(s) - k
      /\ \A i \in 1 .. Len(s) - k : after[i] = s[k + i]
    BY <1>0, SubSeqProperties
<1>3. RemoveAt(s, k) = before \o after
    BY DEF RemoveAt
<1> HIDE DEF before, after
<1>4. /\ before \o after \in Seq(S)
      /\ Len(before \o after) = Len(before) + Len(after)
      /\ \A i \in 1 .. Len(before) + Len(after) :
            (before \o after)[i] = IF i <= Len(before) THEN before[i]
                                                      ELSE after[i - Len(before)]
    BY <1>1, <1>2, ConcatProperties
<1>5. Len(before) + Len(after) = Len(s) - 1
    BY <1>0, <1>1, <1>2
<1>6. ASSUME NEW i \in 1 .. Len(s) - 1
      PROVE  (before \o after)[i] = s[IF i < k THEN i ELSE i + 1]
    <2>1. CASE i < k
        <3>1. (before \o after)[i] = before[i]
            BY <1>0, <1>1, <1>4, <1>5, <2>1
        <3> QED
            BY <1>0, <1>1, <2>1, <3>1
    <2>2. CASE ~(i < k)
        <3>1. (before \o after)[i] = after[i - (k - 1)]
            BY <1>0, <1>1, <1>4, <1>5, <2>2
        <3>2. i - (k - 1) \in 1 .. Len(s) - k /\ k + (i - (k - 1)) = i + 1
            BY <1>0, <2>2
        <3>3. after[i - (k - 1)] = s[k + (i - (k - 1))]
            BY <1>2, <3>2
        <3> QED
            BY <2>2, <3>1, <3>2, <3>3
    <2> QED
        BY <2>1, <2>2
<1> QED
    BY <1>3, <1>4, <1>5, <1>6

(* One ping taken out.                                                      *)
LEMMA WithoutPing ==
    ASSUME NEW entry, EntryInv(entry), NEW i \in 1 .. Len(entry.pending), NEW t,
           t = RemoveAt(entry.pending, i), NEW new, new = WithPending(entry, t)
    PROVE  /\ EntryInv(new)
           /\ new.sent = entry.sent /\ new.owner = entry.owner
           /\ Unanswered(new) = Unanswered(entry) \ {entry.pending[i].number}
           /\ PingsFrom(new, entry)
<1> DEFINE s == entry.pending
           f == [j \in 1 .. Len(t) |-> IF j < i THEN j ELSE j + 1]
<1>1. s \in Seq(PendingPing) /\ Len(s) \in Nat /\ i \in 1 .. Len(s)
      /\ \A k \in 1 .. Len(s) : s[k].number \in Nat
    BY PingsOf
<1>2. /\ t \in Seq(PendingPing) /\ Len(t) = Len(s) - 1
      /\ \A j \in 1 .. Len(s) - 1 : t[j] = s[IF j < i THEN j ELSE j + 1]
    <2>1. t = RemoveAt(s, i)
        OBVIOUS
    <2> HIDE DEF s
    <2> QED
        BY <1>1, <2>1, RemoveAtProperties
<1>3. new = WithPending(entry, t) /\ entry \in Entry
    BY DEF EntryInv
<1>4. new.pending = t /\ new.sent = entry.sent /\ new.owner = entry.owner
    BY <1>3 DEF Entry, WithPending
<1>5. f \in [1 .. Len(t) -> 1 .. Len(s)] /\ \A j \in 1 .. Len(t) : t[j] = s[f[j]]
    BY <1>1, <1>2
<1>6. \A j, k \in 1 .. Len(t) : j < k => f[j] < f[k]
    BY <1>1, <1>2
<1>7. EntryInv(new)
    <2> HIDE DEF f
    <2> QED
        BY <1>2, <1>3, <1>5, <1>6, FewerPings
<1>8. Unanswered(new) = {t[j].number : j \in 1 .. Len(t)}
    BY <1>2, <1>4, LenProperties DEF Unanswered
<1>9. Unanswered(entry) = {s[j].number : j \in 1 .. Len(s)}
    BY PingsOf DEF Unanswered
<1>10. \A j \in 1 .. Len(s) : s[j].number = s[i].number => j = i
    <2>1. \A j, k \in 1 .. Len(s) : j < k => s[j].number < s[k].number
        BY DEF EntryInv, InOrder
    <2> QED
        BY <1>1, <2>1
<1>11. ASSUME NEW j \in 1 .. Len(s), j # i
       PROVE  \E k \in 1 .. Len(t) : t[k] = s[j]
    <2>1. CASE j < i
        <3>1. j \in 1 .. Len(t) /\ t[j] = s[j]
            BY <1>1, <1>2, <2>1
        <3> QED
            BY <3>1
    <2>2. CASE j > i
        <3>1. j - 1 \in 1 .. Len(t) /\ t[j - 1] = s[j]
            BY <1>1, <1>2, <2>2
        <3> QED
            BY <3>1
    <2> QED
        BY <1>1, <1>11, <2>1, <2>2
<1>12. \A j \in 1 .. Len(t) : f[j] # i /\ f[j] \in 1 .. Len(s)
    BY <1>1, <1>2
<1> HIDE DEF f, s
<1>13. {t[j].number : j \in 1 .. Len(t)} = {s[j].number : j \in 1 .. Len(s)} \ {s[i].number}
    <2>1. ASSUME NEW j \in 1 .. Len(t)
          PROVE  t[j].number \in {s[k].number : k \in 1 .. Len(s)} \ {s[i].number}
        <3>1. t[j] = s[f[j]] /\ f[j] # i /\ f[j] \in 1 .. Len(s)
            BY <1>5, <1>12
        <3>2. s[f[j]].number # s[i].number
            BY <1>10, <3>1
        <3> QED
            BY <3>1, <3>2
    <2>2. ASSUME NEW j \in 1 .. Len(s), s[j].number # s[i].number
          PROVE  s[j].number \in {t[k].number : k \in 1 .. Len(t)}
        <3>1. j # i
            BY <2>2
        <3>2. PICK k \in 1 .. Len(t) : t[k] = s[j]
            BY <1>11, <3>1
        <3> QED
            BY <3>2
    <2> QED
        BY <2>1, <2>2
<1>14. \A j \in 1 .. Len(t) : \E k \in 1 .. Len(s) : t[j] = s[k]
    BY <1>5
<1>15. Unanswered(new) = Unanswered(entry) \ {s[i].number}
    BY <1>8, <1>9, <1>13, Zenon
<1>16. PingsFrom(new, entry)
    BY <1>4, <1>14 DEF PingsFrom, s
<1> QED
    BY <1>4, <1>7, <1>15, <1>16 DEF s

(* A pending ping is reported under its own number.                         *)
LEMMA ReportedAsSent ==
    ASSUME NEW entry, EntryInv(entry), NEW i \in 1 .. Len(entry.pending)
    PROVE  UnwrapSequence(entry.pending[i].sequence, entry.sent) = entry.pending[i].number
<1>1. /\ entry.sent \in Nat /\ entry.sent < CounterSize /\ entry.pending[i].number \in Nat
    BY PingsOf
<1>2. /\ entry.pending[i].number < entry.sent
      /\ entry.pending[i].sequence = entry.pending[i].number % SequenceSize
    BY DEF EntryInv, Spaced
<1>3. 2 * (entry.sent - entry.pending[i].number) <= SequenceSize
    BY DEF EntryInv, InWindow
<1>4. entry.pending[i].number <= entry.sent
    BY <1>1, <1>2
<1>5. UnwrapSequence(entry.pending[i].number % SequenceSize, entry.sent) = entry.pending[i].number
    BY <1>1, <1>3, <1>4, UnwrapInverse
<1> QED
    BY <1>2, <1>5

(* The pings up to TimedOut have timed out and the others have not.         *)
LEMMA TimedOutIsAPlace ==
    ASSUME NEW entry, EntryInv(entry)
    PROVE  /\ TimedOut(entry) \in 0 .. Len(entry.pending)
           /\ \A i \in TimedOut(entry) + 1 .. Len(entry.pending) : entry.pending[i].age <= Timeout
<1> DEFINE s == entry.pending
           fresh == {i \in 1 .. Len(s) : s[i].age <= Timeout}
<1>1. Len(s) \in Nat /\ DOMAIN s = 1 .. Len(s) /\ \A i \in 1 .. Len(s) : s[i].age \in Nat
    BY PingsOf
<1>2. TimedOut(entry) = IF fresh = {} THEN Len(s) ELSE Min(fresh) - 1
    BY <1>1 DEF TimedOut
<1>3. CASE fresh = {}
    BY <1>1, <1>2, <1>3
<1>4. CASE fresh # {}
    <2>1. fresh \subseteq Nat
        BY <1>1
    <2> HIDE DEF fresh
    <2>2. Min(fresh) \in fresh
        BY <1>4, <2>1, LeastOfNaturals
    <2> DEFINE k == Min(fresh)
    <2>3. k \in 1 .. Len(s) /\ s[k].age <= Timeout
        BY <2>2 DEF fresh
    <2>4. \A i, j \in 1 .. Len(s) : i < j => s[i].age >= s[j].age
        BY DEF EntryInv, InOrder
    <2>5. TimedOut(entry) = k - 1
        BY <1>2, <1>4
    <2> HIDE DEF k, s
    <2>6. k - 1 \in 0 .. Len(s)
        BY <1>1, <2>3
    <2>7. ASSUME NEW i \in k .. Len(s) PROVE s[i].age <= Timeout
        <3>1. i \in 1 .. Len(s) /\ (i = k \/ k < i)
            BY <1>1, <2>3
        <3>2. Timeout \in Nat
            BY ConstantsFit
        <3> QED
            BY <1>1, <2>3, <2>4, <3>1, <3>2
    <2>8. k - 1 + 1 = k
        BY <2>3
    <2> QED
        BY <2>5, <2>6, <2>7, <2>8 DEF s
<1> QED
    BY <1>3, <1>4

(* The timed out pings leave, each with a report that it is settled.        *)
LEMMA TimeoutsLeave ==
    ASSUME NEW entry, EntryInv(entry), NEW new, new = AfterTimeouts(entry)
    PROVE  /\ EntryInv(new)
           /\ new.owner = entry.owner /\ new.count = entry.count /\ new.interval = entry.interval
           /\ new.sent = entry.sent /\ new.last = entry.last
           /\ \A i \in 1 .. Len(new.pending) : new.pending[i].age <= Timeout
           /\ TimeoutReports(entry) \subseteq Number \X {"settled"}
           /\ Unanswered(entry) = Unanswered(new) \cup {report[1] : report \in TimeoutReports(entry)}
           /\ \A report \in TimeoutReports(entry) : report[1] \notin Unanswered(new)
<1> DEFINE s == entry.pending
           k == TimedOut(entry)
           t == SubSeq(s, k + 1, Len(s))
           f == [i \in 1 .. Len(t) |-> k + i]
<1>1. s \in Seq(PendingPing) /\ Len(s) \in Nat /\ \A i \in 1 .. Len(s) : s[i].number \in Number
    BY PingsOf
<1>2. k \in 0 .. Len(s) /\ \A i \in k + 1 .. Len(s) : s[i].age <= Timeout
    BY TimedOutIsAPlace
<1>3. new = WithPending(entry, t) /\ entry \in Entry
    BY DEF AfterTimeouts, EntryInv, WithPending
<1>4. /\ new.pending = t
      /\ new.owner = entry.owner /\ new.count = entry.count /\ new.interval = entry.interval
      /\ new.sent = entry.sent /\ new.last = entry.last
    BY <1>3 DEF Entry, WithPending
<1>5. /\ t \in Seq(PendingPing) /\ Len(t) = Len(s) - k
      /\ \A i \in 1 .. Len(s) - k : t[i] = s[k + i]
    <2> HIDE DEF s, k
    <2> QED
        BY <1>1, <1>2, SubSeqProperties
<1>6. TimeoutReports(entry) = {<<s[i].number, "settled">> : i \in 1 .. k}
    <2>1. \A i \in 1 .. k : UnwrapSequence(s[i].sequence, entry.sent) = s[i].number
        BY <1>1, <1>2, ReportedAsSent
    <2>2. TimeoutReports(entry) = {<<UnwrapSequence(s[i].sequence, entry.sent), "settled">> : i \in 1 .. k}
        BY DEF TimeoutReports
    <2> HIDE DEF s, k
    <2> QED
        BY <2>1, <2>2
<1> HIDE DEF t, k
<1>7. f \in [1 .. Len(t) -> 1 .. Len(s)] /\ \A i \in 1 .. Len(t) : t[i] = s[f[i]]
    BY <1>1, <1>2, <1>5
<1>8. \A i, j \in 1 .. Len(t) : i < j => f[i] < f[j]
    BY <1>2, <1>5
<1>9. EntryInv(new)
    <2> HIDE DEF f
    <2> QED
        BY <1>3, <1>5, <1>7, <1>8, FewerPings
<1>10. Unanswered(new) = {t[i].number : i \in 1 .. Len(t)}
    BY <1>4, <1>5, LenProperties DEF Unanswered
<1>11. Unanswered(entry) = {s[i].number : i \in 1 .. Len(s)}
    BY PingsOf DEF Unanswered
<1>12. \A i, j \in 1 .. Len(s) : i < j => s[i].number < s[j].number
    BY DEF EntryInv, InOrder
<1> HIDE DEF f, s
<1>13. ASSUME NEW i \in 1 .. Len(t)
       PROVE  /\ t[i].age <= Timeout
              /\ t[i].number \in {s[j].number : j \in 1 .. Len(s)}
              /\ \A j \in 1 .. k : t[i].number # s[j].number
    <2>1. k + i \in k + 1 .. Len(s) /\ k + i \in 1 .. Len(s) /\ t[i] = s[k + i]
        BY <1>1, <1>2, <1>5
    <2>2. ASSUME NEW j \in 1 .. k PROVE s[k + i].number # s[j].number
        <3>1. j \in 1 .. Len(s) /\ j < k + i
            BY <1>1, <1>2, <2>1
        <3>2. s[j].number < s[k + i].number /\ s[j].number \in Nat /\ s[k + i].number \in Nat
            BY <1>1, <1>12, <2>1, <3>1 DEF Number
        <3> QED
            BY <3>2
    <2> QED
        BY <1>2, <2>1, <2>2
<1>14. ASSUME NEW i \in 1 .. Len(s), ~(i \in 1 .. k)
       PROVE  \E j \in 1 .. Len(t) : t[j] = s[i]
    <2>1. i - k \in 1 .. Len(t) /\ t[i - k] = s[i]
        BY <1>1, <1>2, <1>5, <1>14
    <2> QED
        BY <2>1
<1>15. {report[1] : report \in TimeoutReports(entry)} = {s[i].number : i \in 1 .. k}
    <2> DEFINE reports == {<<s[i].number, "settled">> : i \in 1 .. k}
    <2>1. \A i \in 1 .. k : <<s[i].number, "settled">> \in reports
        OBVIOUS
    <2>2. \A report \in reports : \E i \in 1 .. k : report = <<s[i].number, "settled">>
        OBVIOUS
    <2>3. \A i \in 1 .. k : <<s[i].number, "settled">>[1] = s[i].number
        OBVIOUS
    <2> HIDE DEF reports
    <2>4. ASSUME NEW report \in reports
          PROVE  report[1] \in {s[i].number : i \in 1 .. k}
        <3>1. PICK i \in 1 .. k : report = <<s[i].number, "settled">>
            BY <2>2
        <3>2. report[1] = s[i].number
            BY <3>1
        <3> QED
            BY <3>2
    <2>5. ASSUME NEW i \in 1 .. k
          PROVE  s[i].number \in {report[1] : report \in reports}
        <3>1. \E report \in reports : report[1] = s[i].number
            BY <2>1, <2>3
        <3> QED
            BY <3>1
    <2>6. {report[1] : report \in reports} = {s[i].number : i \in 1 .. k}
        BY <2>4, <2>5
    <2> QED
        BY <1>6, <2>6 DEF reports
<1>16. {s[i].number : i \in 1 .. Len(s)}
        = {t[i].number : i \in 1 .. Len(t)} \cup {s[i].number : i \in 1 .. k}
    <2>1. \A i \in 1 .. k : i \in 1 .. Len(s)
        BY <1>1, <1>2
    <2>2. \A i \in 1 .. Len(t) : t[i].number \in {s[j].number : j \in 1 .. Len(s)}
        BY <1>13
    <2>3. ASSUME NEW i \in 1 .. Len(s)
          PROVE  s[i].number \in {t[j].number : j \in 1 .. Len(t)} \cup {s[j].number : j \in 1 .. k}
        <3>1. CASE i \in 1 .. k
            BY <3>1
        <3>2. CASE ~(i \in 1 .. k)
            <4>1. PICK j \in 1 .. Len(t) : t[j] = s[i]
                BY <1>14, <3>2
            <4> QED
                BY <4>1
        <3> QED
            BY <3>1, <3>2
    <2> QED
        BY <2>1, <2>2, <2>3
<1>17. \A report \in TimeoutReports(entry) : report[1] \notin Unanswered(new)
    BY <1>6, <1>10, <1>13
<1>18. TimeoutReports(entry) \subseteq Number \X {"settled"}
    BY <1>1, <1>2, <1>6
<1>19. \A i \in 1 .. Len(new.pending) : new.pending[i].age <= Timeout
    BY <1>4, <1>13
<1>20. Unanswered(entry) = Unanswered(new) \cup {report[1] : report \in TimeoutReports(entry)}
    BY <1>10, <1>11, <1>15, <1>16
<1> QED
    BY <1>4, <1>9, <1>17, <1>18, <1>19, <1>20

LEMMA QuotientBound ==
    ASSUME NEW n \in Nat, NEW d \in Nat \ {0}, NEW t \in Nat, n * d <= t
    PROVE  n <= t \div d
<1> DEFINE q == t \div d
           r == t % d
<1>1. t = d * q + r /\ q \in Nat /\ r \in 0 .. d - 1
    OBVIOUS
<1> HIDE DEF q, r
<1>2. SUFFICES n <= q
    BY DEF q
<1>3. CASE n >= q + 1
    <2>1. n * d >= (q + 1) * d
        BY <1>1, <1>3
    <2>2. (q + 1) * d = d * q + d
        BY <1>1
    <2> QED
        BY <1>1, <2>1, <2>2
<1> QED
    BY <1>1, <1>3

(* A request joins the pending ones: those that are left are younger than   *)
(* the timeout, so there is room for it in half a ring of numbers.          *)
LEMMA RequestJoins ==
    ASSUME NEW entry, EntryInv(entry), entry.last > entry.interval, entry.sent < MaxSent,
           \A i \in 1 .. Len(entry.pending) : entry.pending[i].age <= Timeout,
           NEW new, new = AfterSend(entry)
    PROVE  /\ EntryInv(new)
           /\ new.owner = entry.owner /\ new.count = entry.count
           /\ new.sent = entry.sent + 1
           /\ \A i \in 1 .. Len(new.pending) : new.pending[i].age <= Timeout
           /\ Unanswered(new) = Unanswered(entry) \cup {entry.sent}
<1> DEFINE s == entry.pending
           ping == [sequence |-> entry.sent % SequenceSize, age |-> 0, number |-> entry.sent]
           t == Append(s, ping)
           d == entry.interval + 1
<1>1. /\ s \in Seq(PendingPing) /\ Len(s) \in Nat
      /\ \A i \in 1 .. Len(s) : s[i].number \in Nat /\ s[i].age \in Nat
      /\ entry.sent \in Number /\ entry.sent \in Nat /\ entry.sent < CounterSize
      /\ entry.interval \in Nat /\ entry.last \in Nat /\ entry.owner \in Handle
    BY PingsOf
<1>2. /\ SequenceSize \in Nat \ {0} /\ CounterSize \in Nat \ {0} /\ MaxSent \in Nat
      /\ MaxSent < CounterSize /\ Timeout \in Nat
    BY ConstantsFit
<1>3. (entry.sent + 1) % CounterSize = entry.sent + 1
    <2> DEFINE m == entry.sent + 1
    <2>1. m \in 0 .. CounterSize - 1
        BY <1>1, <1>2
    <2> HIDE DEF m
    <2>2. (0 * CounterSize + m) % CounterSize = m
        <3>1. CounterSize \in Nat \ {0} /\ 0 \in Int
            BY <1>2
        <3> QED
            BY <2>1, <3>1, Remainder
    <2>3. 0 * CounterSize + m = m
        BY <1>2, <2>1
    <2>4. m % CounterSize = m
        BY <2>2, <2>3
    <2> QED
        BY <2>4 DEF m
<1>4. ping \in PendingPing /\ ping.number = entry.sent /\ ping.age = 0
      /\ ping.sequence = entry.sent % SequenceSize
    <2>1. entry.sent % SequenceSize \in 0 .. SequenceSize - 1
        BY <1>1, <1>2
    <2>2. 0 \in 0 .. MaxAge
        BY <1>2, SleepsFit DEF MaxAge
    <2> QED
        BY <1>1, <2>1, <2>2 DEF PendingPing
<1>5. new = [entry EXCEPT !.pending = t, !.last = 0, !.sent = entry.sent + 1]
      /\ entry \in Entry
    BY <1>3 DEF AfterSend, SequenceOf, EntryInv
<1> HIDE DEF ping
<1>6. /\ t \in Seq(PendingPing) /\ Len(t) = Len(s) + 1
      /\ \A i \in 1 .. Len(s) : t[i] = s[i]
      /\ t[Len(s) + 1] = ping
    <2> HIDE DEF s
    <2> QED
        BY <1>1, <1>4, AppendProperties
<1> HIDE DEF t
<1>7. entry.sent + 1 \in Number
    BY <1>1, <1>2 DEF Number
<1>8. /\ new \in Entry /\ new.pending = t /\ new.owner = entry.owner /\ new.count = entry.count
      /\ new.interval = entry.interval /\ new.sent = entry.sent + 1 /\ new.last = 0
    <2> DEFINE m == entry.sent + 1
    <2>1. m \in Number
        BY <1>7
    <2> HIDE DEF m
    <2>2. new = [entry EXCEPT !.pending = t, !.last = 0, !.sent = m] /\ entry \in Entry
        BY <1>5 DEF m
    <2>3. new = [owner |-> entry.owner, count |-> entry.count, interval |-> entry.interval,
                 sent |-> m, last |-> 0, pending |-> t]
        BY <2>2 DEF Entry
    <2>4. entry.owner \in Handle /\ entry.count \in Nat \cup {NoCount} /\ entry.interval \in Nat
        BY <2>2 DEF Entry
    <2>5. new \in Entry
        BY <1>6, <2>1, <2>3, <2>4 DEF Entry
    <2> QED
        BY <2>3, <2>5 DEF m
<1>9. FitsCall(new)
    <2>1. FitsCall(entry)
        BY DEF EntryInv
    <2> QED
        BY <1>1, <1>2, <1>8, <2>1 DEF FitsCall
<1>10. ASSUME NEW i \in 1 .. Len(s)
       PROVE  /\ s[i].number < entry.sent
              /\ s[i].sequence = s[i].number % SequenceSize
              /\ (entry.sent - s[i].number) * d <= s[i].age
              /\ s[i].age <= Timeout
              /\ 2 * (entry.sent + 1 - s[i].number) <= SequenceSize
    <2> DEFINE n == s[i].number
    <2>1. /\ n < entry.sent /\ s[i].sequence = n % SequenceSize
          /\ s[i].age >= entry.last + (entry.sent - 1 - n) * d
        BY DEF EntryInv, Spaced
    <2>2. n \in Nat /\ s[i].age \in Nat /\ s[i].age <= Timeout /\ d \in Nat \ {0}
        BY <1>1
    <2> HIDE DEF n
    <2>3. entry.last >= d
        BY <1>1
    <2>4. (entry.sent - n) * d = d + (entry.sent - 1 - n) * d
        BY <1>1, <2>2
    <2>5. (entry.sent - 1 - n) * d \in Int /\ (entry.sent - n) * d \in Int
        BY <1>1, <2>2
    <2>6. (entry.sent - n) * d <= s[i].age
        <3> DEFINE x == (entry.sent - 1 - n) * d
                   y == (entry.sent - n) * d
        <3>1. x \in Int /\ y \in Int /\ y = d + x /\ s[i].age >= entry.last + x
            BY <2>1, <2>4, <2>5
        <3> HIDE DEF x, y, d
        <3>2. y <= s[i].age
            BY <1>1, <2>2, <2>3, <3>1
        <3> QED
            BY <3>2 DEF y, d
    <2>7. (entry.sent - n) * d <= Timeout
        BY <1>2, <2>2, <2>5, <2>6
    <2>8. entry.sent - n <= Timeout \div d
        <3>1. entry.sent - n \in Nat
            BY <1>1, <2>1, <2>2
        <3> HIDE DEF d
        <3> QED
            BY <1>2, <2>2, <2>7, <3>1, QuotientBound
    <2>9. 2 * (1 + Timeout \div d) <= SequenceSize
        <3>1. FitsCall(entry)
            BY DEF EntryInv
        <3> QED
            BY <1>1, <3>1, WindowAssumption DEF FitsCall, Handle
    <2>10. Timeout \div d \in Int
        BY <1>2, <2>2
    <2>11. 2 * (entry.sent + 1 - n) <= SequenceSize
        <3> DEFINE q == Timeout \div d
        <3>1. q \in Int /\ entry.sent - n <= q /\ 2 * (1 + q) <= SequenceSize
            BY <2>8, <2>9, <2>10
        <3> HIDE DEF q, d
        <3> QED
            BY <1>1, <1>2, <2>2, <3>1
    <2> QED
        BY <2>1, <2>2, <2>6, <2>11 DEF n
<1>11. 2 <= SequenceSize
    <2>1. 2 * (1 + Timeout \div (Calls[entry.owner].interval + 1)) <= SequenceSize
        BY <1>1, WindowAssumption DEF Handle
    <2> DEFINE e == Calls[entry.owner].interval + 1
    <2>2. e \in Nat \ {0}
        <3>1. entry.owner \in Handle
            BY <1>1
        <3>2. Calls[entry.owner].interval \in Nat
            BY <3>1, ConstantsFit
        <3> QED
            BY <3>2
    <2> HIDE DEF e
    <2>3. Timeout \div e \in Nat
        BY <1>2, <2>2
    <2>4. 2 * (1 + Timeout \div e) <= SequenceSize
        BY <2>1 DEF e
    <2> QED
        BY <1>2, <2>3, <2>4
<1>12. InOrder(new)
    <2>1. ASSUME NEW i \in 1 .. Len(t), NEW j \in 1 .. Len(t), i < j
          PROVE  t[i].number < t[j].number /\ t[i].age >= t[j].age
        <3>1. i \in 1 .. Len(s) /\ t[i] = s[i]
            BY <1>1, <1>6, <2>1
        <3>2. CASE j = Len(s) + 1
            <4>1. t[j].number = entry.sent /\ t[j].age = 0
                BY <1>4, <1>6, <3>2
            <4> QED
                BY <1>1, <1>10, <3>1, <4>1
        <3>3. CASE j # Len(s) + 1
            <4>1. j \in 1 .. Len(s) /\ t[j] = s[j]
                BY <1>1, <1>6, <3>3
            <4> QED
                BY <2>1, <3>1, <4>1 DEF EntryInv, InOrder
        <3> QED
            BY <3>2, <3>3
    <2> QED
        BY <1>8, <2>1 DEF InOrder
<1>13. ASSUME NEW i \in 1 .. Len(t)
       PROVE  /\ t[i].number \in Nat
              /\ t[i].number < entry.sent + 1
              /\ t[i].sequence = t[i].number % SequenceSize
              /\ t[i].age >= 0 + (entry.sent + 1 - 1 - t[i].number) * d
              /\ t[i].age <= Timeout
              /\ 2 * (entry.sent + 1 - t[i].number) <= SequenceSize
    <2>1. CASE i = Len(s) + 1
        <3>1. t[i].number = entry.sent /\ t[i].age = 0 /\ t[i].sequence = entry.sent % SequenceSize
            BY <1>4, <1>6, <2>1
        <3>2. d \in Nat /\ entry.sent + 1 - 1 - entry.sent = 0 /\ 0 * d = 0
            BY <1>1
        <3>3. t[i].age >= 0 + (entry.sent + 1 - 1 - t[i].number) * d
            BY <3>1, <3>2
        <3> QED
            BY <1>1, <1>2, <1>11, <3>1, <3>3
    <2>2. CASE i # Len(s) + 1
        <3>1. i \in 1 .. Len(s) /\ t[i] = s[i]
            BY <1>1, <1>6, <2>2
        <3>2. entry.sent + 1 - 1 - s[i].number = entry.sent - s[i].number
            BY <1>1, <3>1
        <3>3. (entry.sent - s[i].number) * d \in Int
            BY <1>1, <3>1
        <3>4. s[i].age >= 0 + (entry.sent + 1 - 1 - s[i].number) * d
            <4> DEFINE y == (entry.sent - s[i].number) * d
            <4>1. y \in Int /\ y <= s[i].age /\ s[i].age \in Nat
                BY <1>1, <1>10, <3>1, <3>3
            <4> HIDE DEF y
            <4>2. s[i].age >= 0 + y
                BY <4>1
            <4> QED
                BY <3>2, <4>2 DEF y
        <3>5. s[i].number < entry.sent + 1
            BY <1>1, <1>10, <3>1
        <3> QED
            BY <1>1, <1>10, <3>1, <3>4, <3>5
    <2> QED
        BY <2>1, <2>2
<1>14. Spaced(new)
    <2>1. ASSUME NEW i \in 1 .. Len(new.pending)
          PROVE  LET p == new.pending[i] IN
                 /\ p.number < new.sent
                 /\ p.sequence = p.number % SequenceSize
                 /\ p.age >= new.last + (new.sent - 1 - p.number) * (new.interval + 1)
        <3>1. i \in 1 .. Len(t) /\ new.pending[i] = t[i]
            BY <1>8
        <3>2. new.sent = entry.sent + 1 /\ new.last = 0 /\ new.interval + 1 = d
            BY <1>8
        <3> HIDE DEF d, s
        <3>3. t[i].age >= 0 + (entry.sent + 1 - 1 - t[i].number) * d
            BY <1>13, <3>1
        <3>4. t[i].age >= new.last + (new.sent - 1 - t[i].number) * (new.interval + 1)
            <4> DEFINE n == t[i].number
            <4>0. new.sent = entry.sent + 1
                BY <3>2, Zenon
            <4>a. n \in Nat /\ entry.sent \in Nat
                BY <1>1, <1>13, <3>1
            <4> HIDE DEF n
            <4>1. entry.sent + 1 - 1 - n = new.sent - 1 - n
                BY <4>0, <4>a
            <4>2. (entry.sent + 1 - 1 - n) * d = (new.sent - 1 - n) * (new.interval + 1)
                BY <3>2, <4>1, Zenon
            <4>3. t[i].age >= new.last + (entry.sent + 1 - 1 - n) * d
                BY <3>2, <3>3, Zenon DEF n
            <4> QED
                BY <4>2, <4>3, Zenon DEF n
        <3>5. t[i].number < new.sent /\ t[i].sequence = t[i].number % SequenceSize
            BY <1>13, <3>1, <3>2, Zenon
        <3> QED
            BY <3>1, <3>4, <3>5, Zenon
    <2> QED
        BY <2>1, Zenon DEF Spaced
<1>15. InWindow(new)
    <2>1. ASSUME NEW i \in 1 .. Len(new.pending)
          PROVE  2 * (new.sent - new.pending[i].number) <= SequenceSize
        <3>1. i \in 1 .. Len(t) /\ new.pending[i] = t[i] /\ new.sent = entry.sent + 1
            BY <1>8
        <3>2. 2 * (entry.sent + 1 - t[i].number) <= SequenceSize
            BY <1>13, <3>1
        <3> QED
            <4> DEFINE n == t[i].number
            <4>0. new.sent = entry.sent + 1 /\ new.pending[i] = t[i]
                BY <3>1, Zenon
            <4>1. 2 * (entry.sent + 1 - n) <= SequenceSize
                BY <3>2, Zenon
            <4>a. n \in Nat /\ entry.sent \in Nat
                BY <1>1, <1>13, <3>1
            <4> HIDE DEF n
            <4>2. new.sent - n = entry.sent + 1 - n
                BY <4>0, <4>a
            <4>3. 2 * (new.sent - n) <= SequenceSize
                BY <4>1, <4>2, Zenon
            <4>4. n = new.pending[i].number
                BY <4>0, Zenon DEF n
            <4> QED
                BY <4>3, <4>4, Zenon
    <2> QED
        BY <2>1, Zenon DEF InWindow
<1>16. Unanswered(new) = {t[i].number : i \in 1 .. Len(t)}
    BY <1>6, <1>8, LenProperties DEF Unanswered
<1>17. Unanswered(entry) = {s[i].number : i \in 1 .. Len(s)}
    BY PingsOf DEF Unanswered
<1>18. {t[i].number : i \in 1 .. Len(t)} = {s[i].number : i \in 1 .. Len(s)} \cup {entry.sent}
    <2>1. \A i \in 1 .. Len(t) : i \in 1 .. Len(s) \/ i = Len(s) + 1
        BY <1>1, <1>6
    <2>2. \A i \in 1 .. Len(s) : i \in 1 .. Len(t)
        BY <1>1, <1>6
    <2>3. Len(s) + 1 \in 1 .. Len(t) /\ t[Len(s) + 1].number = entry.sent
        BY <1>1, <1>4, <1>6
    <2>4. \A i \in 1 .. Len(s) : t[i].number = s[i].number
        BY <1>6
    <2> HIDE DEF s
    <2> QED
        BY <2>1, <2>2, <2>3, <2>4
<1> QED
    BY <1>8, <1>9, <1>12, <1>13, <1>14, <1>15, <1>16, <1>17, <1>18 DEF EntryInv

(* Time passes: every ping is a tick older, and the session waits a tick    *)
(* more of its interval.                                                    *)
LEMMA AgesGrow ==
    ASSUME NEW entry, EntryInv(entry),
           \A i \in 1 .. Len(entry.pending) : entry.pending[i].age < MaxAge,
           NEW new, new = Older(entry)
    PROVE  /\ EntryInv(new) /\ new.owner = entry.owner /\ new.sent = entry.sent
           /\ Unanswered(new) = Unanswered(entry)
           /\ Len(new.pending) = Len(entry.pending)
           /\ \A i \in 1 .. Len(new.pending) : new.pending[i].age = entry.pending[i].age + 1
<1> DEFINE s == entry.pending
           t == [i \in 1 .. Len(s) |-> [s[i] EXCEPT !.age = s[i].age + 1]]
           last == Min({entry.last + 1, entry.interval + 1})
<1>1. /\ s \in Seq(PendingPing) /\ Len(s) \in Nat /\ DOMAIN s = 1 .. Len(s)
      /\ \A i \in 1 .. Len(s) : s[i] \in PendingPing /\ s[i].number \in Nat /\ s[i].age \in Nat
      /\ entry.sent \in Nat /\ entry.interval \in Nat /\ entry.last \in Nat
    BY PingsOf
<1>2. MaxAge \in Nat
    BY ConstantsFit, SleepsFit DEF MaxAge
<1>3. last \in Nat /\ last <= entry.interval + 1 /\ last <= entry.last + 1
    <2>1. last = IF entry.last + 1 <= entry.interval + 1 THEN entry.last + 1 ELSE entry.interval + 1
        <3> DEFINE a == entry.last + 1
                   b == entry.interval + 1
        <3>1. a \in Int /\ b \in Int
            BY <1>1
        <3> HIDE DEF a, b
        <3>2. Min({a, b}) = IF a <= b THEN a ELSE b
            BY <3>1, LesserOfTwo
        <3> QED
            BY <3>2 DEF a, b
    <2> QED
        BY <1>1, <2>1
<1>4. ASSUME NEW i \in 1 .. Len(s)
      PROVE  Min({s[i].age + 1, MaxAge}) = s[i].age + 1
    <2> DEFINE a == s[i].age + 1
    <2>1. a \in Int /\ MaxAge \in Int /\ a <= MaxAge
        BY <1>1, <1>2
    <2> HIDE DEF a
    <2>2. Min({a, MaxAge}) = a
        BY <2>1, LesserOfTwo
    <2> QED
        BY <2>2 DEF a
<1>5. [i \in DOMAIN s |-> [s[i] EXCEPT !.age = Min({s[i].age + 1, MaxAge})]] = t
    BY <1>1, <1>4
<1>6. new = [entry EXCEPT !.last = last, !.pending = t] /\ entry \in Entry
    <2>1. new = [entry EXCEPT !.last = last,
                    !.pending = [i \in DOMAIN s |-> [s[i] EXCEPT !.age = Min({s[i].age + 1, MaxAge})]]]
        BY DEF Older
    <2> QED
        BY <1>5, <2>1 DEF EntryInv
<1>7. ASSUME NEW i \in 1 .. Len(s)
      PROVE  /\ t[i] \in PendingPing /\ t[i].number = s[i].number
             /\ t[i].sequence = s[i].sequence /\ t[i].age = s[i].age + 1
    <2>1. s[i].age + 1 \in 0 .. MaxAge
        BY <1>1, <1>2
    <2>2. t[i] = [s[i] EXCEPT !.age = s[i].age + 1] /\ s[i] \in PendingPing
        BY <1>1
    <2> HIDE DEF t, s
    <2> QED
        BY <2>1, <2>2 DEF PendingPing
<1> HIDE DEF last
<1>8. t \in Seq(PendingPing) /\ Len(t) = Len(s)
    <2>1. t \in [1 .. Len(s) -> PendingPing]
        BY <1>7
    <2> HIDE DEF t
    <2> QED
        BY <1>1, <2>1, IsASeq, LenProperties
<1> HIDE DEF t
<1>9. /\ new \in Entry /\ new.pending = t /\ new.owner = entry.owner /\ new.count = entry.count
      /\ new.interval = entry.interval /\ new.sent = entry.sent /\ new.last = last
    <2>1. new = [owner |-> entry.owner, count |-> entry.count, interval |-> entry.interval,
                 sent |-> entry.sent, last |-> last, pending |-> t]
        BY <1>6 DEF Entry
    <2>2. entry.owner \in Handle /\ entry.count \in Nat \cup {NoCount} /\ entry.interval \in Nat
          /\ entry.sent \in Number
        BY <1>6 DEF Entry
    <2>3. new \in Entry
        BY <1>3, <1>8, <2>1, <2>2 DEF Entry
    <2> QED
        BY <2>1, <2>3
<1>10. FitsCall(entry) /\ InOrder(entry) /\ Spaced(entry) /\ InWindow(entry)
    BY DEF EntryInv
<1>11. FitsCall(new)
    BY <1>3, <1>9, <1>10 DEF FitsCall
<1>12. InOrder(new)
    <2>1. \A i, j \in 1 .. Len(s) : i < j => s[i].number < s[j].number /\ s[i].age >= s[j].age
        BY <1>10 DEF InOrder
    <2>2. ASSUME NEW i \in 1 .. Len(t), NEW j \in 1 .. Len(t), i < j
          PROVE  t[i].number < t[j].number /\ t[i].age >= t[j].age
        <3>1. i \in 1 .. Len(s) /\ j \in 1 .. Len(s)
            BY <1>8
        <3>2. s[i].number < s[j].number /\ s[i].age >= s[j].age /\ s[i].age \in Nat /\ s[j].age \in Nat
            BY <1>1, <2>1, <2>2, <3>1
        <3>3. /\ t[i].number = s[i].number /\ t[i].age = s[i].age + 1
              /\ t[j].number = s[j].number /\ t[j].age = s[j].age + 1
            BY <1>7, <3>1
        <3> HIDE DEF s
        <3> QED
            BY <3>2, <3>3
    <2> QED
        BY <1>9, <2>2, Zenon DEF InOrder
<1>13. Spaced(new)
    <2>1. ASSUME NEW i \in 1 .. Len(new.pending)
          PROVE  LET p == new.pending[i] IN
                 /\ p.number < new.sent
                 /\ p.sequence = p.number % SequenceSize
                 /\ p.age >= new.last + (new.sent - 1 - p.number) * (new.interval + 1)
        <3>1. i \in 1 .. Len(s) /\ new.pending[i] = t[i]
            BY <1>8, <1>9
        <3>2. /\ s[i].number < entry.sent
              /\ s[i].sequence = s[i].number % SequenceSize
              /\ s[i].age >= entry.last + (entry.sent - 1 - s[i].number) * (entry.interval + 1)
            BY <1>10, <3>1 DEF Spaced
        <3> DEFINE x == (entry.sent - 1 - s[i].number) * (entry.interval + 1)
        <3>3. x \in Int
            <4> DEFINE n == s[i].number
                       a == entry.sent
                       b == entry.interval
            <4>1. a \in Int /\ n \in Int /\ b \in Int
                BY <1>1, <3>1
            <4> HIDE DEF n, a, b
            <4>2. (a - 1 - n) * (b + 1) \in Int
                BY <4>1
            <4> QED
                BY <4>2 DEF n, a, b, x
        <3> HIDE DEF x
        <3>4. s[i].age >= entry.last + x
            BY <3>2 DEF x
        <3>5. t[i].age = s[i].age + 1 /\ s[i].age \in Nat
            BY <1>1, <1>7, <3>1
        <3>6. t[i].age >= last + x
            BY <1>1, <1>3, <3>3, <3>4, <3>5
        <3>7. x = (new.sent - 1 - t[i].number) * (new.interval + 1)
            <4>1. new.sent = entry.sent /\ new.interval = entry.interval /\ t[i].number = s[i].number
                BY <1>7, <1>9, <3>1
            <4> QED
                BY <4>1 DEF x
        <3>8. t[i].age >= new.last + (new.sent - 1 - t[i].number) * (new.interval + 1)
            BY <1>9, <3>6, <3>7, Zenon
        <3>9. t[i].number < new.sent /\ t[i].sequence = t[i].number % SequenceSize
            BY <1>7, <1>9, <3>1, <3>2
        <3> QED
            BY <3>1, <3>8, <3>9, Zenon
    <2> QED
        BY <2>1, Zenon DEF Spaced
<1>14. InWindow(new)
    BY <1>7, <1>8, <1>9, <1>10 DEF InWindow
<1>15. Unanswered(new) = Unanswered(entry)
    <2>1. Unanswered(new) = {t[i].number : i \in 1 .. Len(t)}
        BY <1>8, <1>9, LenProperties DEF Unanswered
    <2>2. Unanswered(entry) = {s[i].number : i \in 1 .. Len(s)}
        BY <1>1 DEF Unanswered
    <2>3. \A i \in 1 .. Len(s) : t[i].number = s[i].number
        BY <1>7
    <2> HIDE DEF s
    <2>4. {t[i].number : i \in 1 .. Len(s)} = {s[i].number : i \in 1 .. Len(s)}
        BY <2>3
    <2> QED
        BY <1>8, <2>1, <2>2, <2>4
<1>16. EntryInv(new)
    BY <1>9, <1>11, <1>12, <1>13, <1>14 DEF EntryInv
<1> QED
    BY <1>7, <1>8, <1>9, <1>15, <1>16

-----------------------------------------------------------------------------
(* The books of a session *)

LEMMA SettledAreAccounted ==
    ASSUME NEW entry, NEW new, NEW reports, NEW more, Accounted(entry, reports),
           new.sent = entry.sent,
           Unanswered(entry) = Unanswered(new) \cup {report[1] : report \in more},
           \A report \in more : report[1] \notin Unanswered(new)
    PROVE  Accounted(new, reports \cup more)
<1> DEFINE told == {report[1] : report \in reports}
           newly == {report[1] : report \in more}
           all == {report[1] : report \in reports \cup more}
           sent == 0 .. entry.sent - 1
<1>1. all = told \cup newly /\ \A report \in more : report[1] \in newly
    OBVIOUS
<1>2. sent \subseteq told \cup Unanswered(entry) /\ Unanswered(entry) \subseteq sent
    BY DEF Accounted
<1>3. \A report \in reports :
        report[2] # "unreachable" => report[1] \in sent \ Unanswered(entry)
    BY DEF Accounted
<1>4. Unanswered(entry) = Unanswered(new) \cup newly
    OBVIOUS
<1>5. 0 .. new.sent - 1 = sent
    OBVIOUS
<1> HIDE DEF told, newly, all, sent
<1>6. sent \subseteq all \cup Unanswered(new) /\ Unanswered(new) \subseteq sent
    BY <1>1, <1>2, <1>4
<1>7. ASSUME NEW report \in reports \cup more, report[2] # "unreachable"
      PROVE  report[1] \in sent \ Unanswered(new)
    <2>1. CASE report \in reports
        BY <1>3, <1>4, <1>7, <2>1
    <2>2. CASE report \in more
        BY <1>1, <1>2, <1>4, <2>2
    <2> QED
        BY <1>7, <2>1, <2>2
<1> QED
    BY <1>5, <1>6, <1>7 DEF Accounted, all

LEMMA RequestIsAccounted ==
    ASSUME NEW entry, NEW new, NEW reports, Accounted(entry, reports), entry.sent \in Nat,
           new.sent = entry.sent + 1, Unanswered(new) = Unanswered(entry) \cup {entry.sent}
    PROVE  Accounted(new, reports)
<1> DEFINE told == {report[1] : report \in reports}
<1>1. /\ 0 .. entry.sent - 1 \subseteq told \cup Unanswered(entry)
      /\ Unanswered(entry) \subseteq 0 .. entry.sent - 1
    BY DEF Accounted
<1> HIDE DEF told
<1>2. 0 .. new.sent - 1 = (0 .. entry.sent - 1) \cup {entry.sent}
    OBVIOUS
<1>3. /\ 0 .. new.sent - 1 \subseteq told \cup Unanswered(new)
      /\ Unanswered(new) \subseteq 0 .. new.sent - 1
    BY <1>1, <1>2
<1>4. ASSUME NEW report \in reports, report[2] # "unreachable"
      PROVE  report[1] \in (0 .. new.sent - 1) \ Unanswered(new)
    <2>1. report[1] \in (0 .. entry.sent - 1) \ Unanswered(entry)
        BY <1>4 DEF Accounted
    <2>2. report[1] # entry.sent
        BY <2>1
    <2> QED
        BY <1>2, <2>1, <2>2
<1> QED
    BY <1>3, <1>4 DEF Accounted, told

(* An error takes no ping off the books, whatever its number.               *)
LEMMA ErrorsAreAccounted ==
    ASSUME NEW entry, NEW reports, NEW n, Accounted(entry, reports)
    PROVE  Accounted(entry, reports \cup {<<n, "unreachable">>})
<1> DEFINE told == {report[1] : report \in reports}
           all == {report[1] : report \in reports \cup {<<n, "unreachable">>}}
<1>1. told \subseteq all
    OBVIOUS
<1>2. 0 .. entry.sent - 1 \subseteq told \cup Unanswered(entry)
      /\ Unanswered(entry) \subseteq 0 .. entry.sent - 1
    BY DEF Accounted
<1> HIDE DEF told, all
<1>3. 0 .. entry.sent - 1 \subseteq all \cup Unanswered(entry)
    BY <1>1, <1>2
<1>4. ASSUME NEW report \in reports \cup {<<n, "unreachable">>}, report[2] # "unreachable"
      PROVE  report[1] \in (0 .. entry.sent - 1) \ Unanswered(entry)
    <2>1. report \in reports
        BY <1>4
    <2> QED
        BY <1>4, <2>1 DEF Accounted
<1> QED
    BY <1>2, <1>3, <1>4 DEF Accounted, all

-----------------------------------------------------------------------------
(* Steps of the worker that change the table of sessions *)

LEMMA CollectedIsKept ==
    ASSUME NEW table
    PROVE  /\ DOMAIN Collected(table) = {key \in DOMAIN table : ~Finished(table[key])}
           /\ \A key \in DOMAIN Collected(table) : Collected(table)[key] = table[key]
BY DEF Collected, RestrictValues, Restrict

(* The keys of two sessions differ, and so do their PingSessions.           *)
LEMMA OwnersDiffer ==
    ASSUME SessionsFit, NEW key \in DOMAIN sessions, NEW other \in DOMAIN sessions,
           sessions[key].owner = sessions[other].owner
    PROVE  key = other
BY DEF SessionsFit

(* The sessions go on as they were, but for those that are finished or were *)
(* asked to stop.                                                           *)
LEMMA SessionsGoOn ==
    ASSUME IInv, NEW removed, removed \subseteq stops, NEW table,
           DOMAIN table = DOMAIN sessions \ removed,
           \A key \in DOMAIN table :
                /\ EntryInv(table[key]) /\ table[key].owner = sessions[key].owner
                /\ Accounted(table[key], results'[table[key].owner]),
           \A h \in Handle : results[h] \subseteq results'[h],
           handles' = handles,
           DOMAIN sessions' \subseteq DOMAIN table,
           \A key \in DOMAIN sessions' : sessions'[key] = table[key],
           \A key \in DOMAIN table \ DOMAIN sessions' : Finished(table[key])
    PROVE  SessionsFit' /\ EndedSessionsAreComplete'
<1>1. SessionsFit /\ StopsAreAsked /\ EndedSessionsAreComplete
      /\ Len(handles) \in Nat /\ Len(handles) <= Len(Calls) /\ DOMAIN handles = 1 .. Len(handles)
    BY LenProperties DEF IInv, TablesShape
<1>2. ASSUME NEW key \in DOMAIN sessions'
      PROVE  /\ EntryInv(sessions'[key]) /\ sessions'[key].owner \in 1 .. Len(handles')
             /\ handles'[sessions'[key].owner].key = key
             /\ Accounted(sessions'[key], results'[sessions'[key].owner])
    <2>1. key \in DOMAIN table /\ key \in DOMAIN sessions /\ sessions'[key] = table[key]
        BY <1>2
    <2>2. sessions[key].owner \in 1 .. Len(handles) /\ handles[sessions[key].owner].key = key
        BY <1>1, <2>1 DEF SessionsFit
    <2> QED
        BY <2>1, <2>2
<1>3. DOMAIN sessions' \subseteq Key
    BY <1>1 DEF SessionsFit
<1>4. SessionsFit'
    BY <1>2, <1>3 DEF SessionsFit
<1>5. ASSUME NEW h \in DOMAIN handles',
             ~handles'[h].stopped, OnlyOwner(h)', ~Alive(h)'
      PROVE  Calls[h].count # NoCount /\ 0 .. Calls[h].count - 1 \subseteq Decided(h)'
    <2>1. h \in 1 .. Len(handles) /\ ~handles[h].stopped /\ h \in Handle
        BY <1>1, <1>5, ConstantsFit
    <2>2. OnlyOwner(h)
        BY <1>5 DEF OnlyOwner
    <2>3. Decided(h) \subseteq Decided(h)'
        <3>1. results[h] \subseteq results'[h]
            BY <2>1
        <3> QED
            BY <3>1 DEF Decided
    <2>4. CASE ~Alive(h)
        <3>1. Calls[h].count # NoCount /\ 0 .. Calls[h].count - 1 \subseteq Decided(h)
            BY <1>1, <2>1, <2>2, <2>4 DEF EndedSessionsAreComplete
        <3> QED
            BY <2>3, <3>1
    <2>5. CASE Alive(h)
        <3>1. PICK key \in DOMAIN sessions : sessions[key].owner = h
            BY <2>5 DEF Alive
        <3>2. key \notin removed
            <4>1. handles[h].key = key
                BY <1>1, <3>1 DEF SessionsFit
            <4>2. ASSUME key \in removed PROVE FALSE
                <5>1. PICK g \in 1 .. Len(handles) : handles[g].key = key /\ handles[g].stopped
                    BY <1>1, <4>2 DEF StopsAreAsked
                <5>2. g = h
                    BY <1>1, <2>2, <4>1, <5>1 DEF OnlyOwner
                <5> QED
                    BY <2>1, <5>1, <5>2
            <4> QED
                BY <4>2
        <3>3. key \in DOMAIN table /\ table[key].owner = h
            BY <3>1, <3>2
        <3>4. key \notin DOMAIN sessions'
            <4>1. ASSUME key \in DOMAIN sessions' PROVE FALSE
                <5>1. sessions'[key].owner = h
                    BY <3>3, <4>1
                <5> QED
                    BY <1>5, <4>1, <5>1 DEF Alive
            <4> QED
                BY <4>1
        <3>5. Finished(table[key]) /\ EntryInv(table[key]) /\ Accounted(table[key], results'[h])
            BY <3>3, <3>4
        <3> DEFINE entry == table[key]
        <3>6. entry.count = Calls[h].count
            BY <3>3, <3>5 DEF EntryInv, FitsCall
        <3>7. entry.count # NoCount /\ entry.sent >= entry.count /\ entry.pending = <<>>
            BY <3>5 DEF Finished
        <3>8. Unanswered(entry) = {}
            BY <3>7 DEF Unanswered
        <3>9. 0 .. entry.sent - 1 \subseteq Decided(h)'
            BY <3>5, <3>8 DEF Accounted, Decided
        <3>10. Calls[h].count \in Nat /\ entry.sent \in Nat
            BY <2>1, <3>5, <3>6, <3>7, ConstantsFit, PingsOf
        <3>11. 0 .. Calls[h].count - 1 \subseteq 0 .. entry.sent - 1
            <4> HIDE DEF entry
            <4> QED
                BY <3>6, <3>7, <3>10
        <3> QED
            BY <3>6, <3>7, <3>9, <3>11
    <2> QED
        BY <2>4, <2>5
<1>6. EndedSessionsAreComplete'
    BY <1>5 DEF EndedSessionsAreComplete
<1> QED
    BY <1>4, <1>6

(* What the worker says of one ping it takes out of a session's list.       *)
LEMMA PingIsSettled ==
    ASSUME NEW entry, EntryInv(entry), NEW sequence, Places(entry.pending, sequence) # {},
           NEW t, t = RemoveAt(entry.pending, Min(Places(entry.pending, sequence))),
           NEW new, new = WithPending(entry, t),
           NEW reports, Accounted(entry, reports),
           NEW n, n = UnwrapSequence(sequence, entry.sent), NEW report, report[1] = n
    PROVE  /\ EntryInv(new) /\ new.owner = entry.owner /\ n \in Number
           /\ Accounted(new, reports \cup {report})
           /\ PingsFrom(new, entry)
<1> DEFINE places == Places(entry.pending, sequence)
<1>1. places = {i \in 1 .. Len(entry.pending) : entry.pending[i].sequence = sequence}
    BY PingsOf DEF Places
<1>2. PICK i : i = Min(places)
    OBVIOUS
<1>3. i \in 1 .. Len(entry.pending) /\ entry.pending[i].sequence = sequence
    <2>1. places \subseteq Nat /\ places # {}
        BY <1>1
    <2> HIDE DEF places
    <2>2. i \in places
        BY <1>2, <2>1, LeastOfNaturals
    <2> QED
        BY <1>1, <2>2
<1>4. t = RemoveAt(entry.pending, i)
    BY <1>2
<1>5. /\ EntryInv(new) /\ new.sent = entry.sent /\ new.owner = entry.owner
      /\ Unanswered(new) = Unanswered(entry) \ {entry.pending[i].number}
      /\ PingsFrom(new, entry)
    <2>1. i \in 1 .. Len(entry.pending)
        BY <1>3
    <2> QED
        BY <1>4, <2>1, WithoutPing
<1>6. n = entry.pending[i].number
    BY <1>3, ReportedAsSent
<1>7. n \in Unanswered(entry) /\ n \in Number
    BY <1>3, <1>6, PingsOf DEF Unanswered
<1> DEFINE more == {report}
<1>8. {r[1] : r \in more} = {n} /\ \A r \in more : r[1] = n
    OBVIOUS
<1> HIDE DEF more
<1>9. /\ Unanswered(entry) = Unanswered(new) \cup {r[1] : r \in more}
      /\ \A r \in more : r[1] \notin Unanswered(new)
    BY <1>5, <1>6, <1>7, <1>8
<1>10. Accounted(new, reports \cup more)
    BY <1>5, <1>9, SettledAreAccounted
<1> QED
    BY <1>5, <1>7, <1>10 DEF more

(* A report is added to what one PingSession was sent.                      *)
LEMMA ReportIsAdded ==
    ASSUME IInv, NEW h \in Handle, h <= Len(handles), NEW n \in Number, NEW status \in Status,
           Report(h, <<n, status>>), handles' = handles
    PROVE  /\ results' \in [Handle -> SUBSET (Number \X Status)]
           /\ results'[h] = results[h] \cup {<<n, status>>}
           /\ \A g \in Handle : g # h => results'[g] = results[g]
           /\ \A g \in Handle : results[g] \subseteq results'[g]
           /\ FreshResults'
<1>1. results \in [Handle -> SUBSET (Number \X Status)] /\ FreshResults
    BY DEF IInv, TablesShape
<1>2. results' = [results EXCEPT ![h] = @ \cup {<<n, status>>}]
    BY DEF Report
<1>3. /\ results' \in [Handle -> SUBSET (Number \X Status)]
      /\ results'[h] = results[h] \cup {<<n, status>>}
      /\ \A g \in Handle : g # h => results'[g] = results[g]
    BY <1>1, <1>2
<1>4. \A g \in Handle : g > Len(handles) => g # h
    <2>1. Len(handles) \in Nat /\ Handle \subseteq Int
        BY LenProperties, ConstantsFit DEF IInv, TablesShape
    <2> QED
        BY <2>1
<1>5. FreshResults'
    BY <1>1, <1>3, <1>4 DEF FreshResults
<1> QED
    BY <1>3, <1>5

LEMMA EchoReplyKeeps ==
    ASSUME IInv, NEW key \in Key, NEW sequence, OnEchoReply(key, sequence)
    PROVE  IInv'
<1>1. /\ worker = "recv" /\ handles' = handles /\ stops' = stops /\ worker' = worker
      /\ deadline' = deadline /\ errors' = errors
    BY DEF OnEchoReply
<1>2. TablesShape /\ SessionsFit /\ AgesFit /\ FreshResults /\ StopsAreAsked
    BY DEF IInv
<1>3. StopsAreAsked'
    BY <1>1, <1>2 DEF StopsAreAsked
<1>4. CASE key \in DOMAIN sessions /\ Places(sessions[key].pending, sequence) # {}
    <2> DEFINE entry == sessions[key]
               n == UnwrapSequence(sequence, entry.sent)
               rest == RemoveAt(entry.pending, Min(Places(entry.pending, sequence)))
               new == [entry EXCEPT !.pending = rest]
               table == [sessions EXCEPT ![key] = new]
    <2>1. sessions' = Collected(table) /\ Report(entry.owner, <<n, "settled">>)
        BY <1>4 DEF OnEchoReply
    <2>2. /\ EntryInv(entry) /\ Accounted(entry, results[entry.owner])
          /\ entry.owner \in 1 .. Len(handles) /\ entry.owner \in Handle
        BY <1>2, <1>4, PingsOf DEF SessionsFit
    <2>3. /\ EntryInv(new) /\ new.owner = entry.owner /\ n \in Number
          /\ Accounted(new, results[entry.owner] \cup {<<n, "settled">>})
          /\ PingsFrom(new, entry)
        <3>1. Places(entry.pending, sequence) # {}
            BY <1>4
        <3>2. EntryInv(entry) /\ Accounted(entry, results[entry.owner])
            BY <2>2
        <3>3. rest = RemoveAt(entry.pending, Min(Places(entry.pending, sequence)))
            OBVIOUS
        <3>4. new = WithPending(entry, rest)
            BY DEF WithPending
        <3>5. n = UnwrapSequence(sequence, entry.sent)
            OBVIOUS
        <3> DEFINE report == <<n, "settled">>
        <3>6. report[1] = n
            OBVIOUS
        <3> HIDE DEF entry, rest, new, n, report
        <3>7. /\ EntryInv(new) /\ new.owner = entry.owner /\ n \in Number
              /\ Accounted(new, results[entry.owner] \cup {report})
              /\ PingsFrom(new, entry)
            BY <3>1, <3>2, <3>3, <3>4, <3>5, <3>6, PingIsSettled
        <3> QED
            BY <3>7 DEF report
    <2>4. DOMAIN table = DOMAIN sessions /\ table[key] = new
          /\ \A other \in DOMAIN sessions : other # key => table[other] = sessions[other]
        BY <1>4
    <2> HIDE DEF new, table, n
    <2>5. /\ results' \in [Handle -> SUBSET (Number \X Status)]
          /\ results'[entry.owner] = results[entry.owner] \cup {<<n, "settled">>}
          /\ \A g \in Handle : g # entry.owner => results'[g] = results[g]
          /\ \A g \in Handle : results[g] \subseteq results'[g]
          /\ FreshResults'
        <3>1. "settled" \in Status /\ entry.owner <= Len(handles)
            BY <2>2 DEF Status
        <3> HIDE DEF entry
        <3> QED
            BY <1>1, <2>1, <2>2, <2>3, <3>1, ReportIsAdded
    <2>6. ASSUME NEW other \in DOMAIN table
          PROVE  /\ EntryInv(table[other]) /\ table[other].owner = sessions[other].owner
                 /\ Accounted(table[other], results'[table[other].owner])
                 /\ PingsFrom(table[other], sessions[other])
        <3>1. CASE other = key
            BY <2>3, <2>4, <2>5, <3>1
        <3>2. CASE other # key
            <4>1. table[other] = sessions[other] /\ other \in DOMAIN sessions
                BY <2>4, <3>2
            <4>2. EntryInv(sessions[other]) /\ Accounted(sessions[other], results[sessions[other].owner])
                BY <1>2, <4>1 DEF SessionsFit
            <4>3. sessions[other].owner # entry.owner /\ sessions[other].owner \in Handle
                BY <1>2, <1>4, <3>2, <4>1, <4>2, OwnersDiffer, PingsOf
            <4>4. results'[sessions[other].owner] = results[sessions[other].owner]
                BY <2>5, <4>3
            <4>5. PingsFrom(sessions[other], sessions[other])
                BY DEF PingsFrom
            <4> QED
                BY <4>1, <4>2, <4>4, <4>5
        <3> QED
            BY <3>1, <3>2
    <2>7. DOMAIN sessions' = {k \in DOMAIN table : ~Finished(table[k])}
          /\ \A k \in DOMAIN sessions' : sessions'[k] = table[k]
        BY <2>1, CollectedIsKept
    <2>8. SessionsFit' /\ EndedSessionsAreComplete'
        <3>1. {} \subseteq stops /\ DOMAIN table = DOMAIN sessions \ {}
            BY <2>4
        <3>2. DOMAIN sessions' \subseteq DOMAIN table
              /\ \A k \in DOMAIN table \ DOMAIN sessions' : Finished(table[k])
            BY <2>7
        <3>3. \A k \in DOMAIN table :
                /\ EntryInv(table[k]) /\ table[k].owner = sessions[k].owner
                /\ Accounted(table[k], results'[table[k].owner])
            BY <2>6
        <3>4. \A k \in DOMAIN sessions' : sessions'[k] = table[k]
            BY <2>7
        <3>5. \A g \in Handle : results[g] \subseteq results'[g]
            BY <2>5
        <3>6. handles' = handles
            BY <1>1
        <3> HIDE DEF entry
        <3> QED
            BY <3>1, <3>2, <3>3, <3>4, <3>5, <3>6, SessionsGoOn
    <2>9. AgesFit'
        <3>1. ASSUME NEW k \in DOMAIN sessions', NEW i \in 1 .. Len(sessions'[k].pending)
              PROVE  sessions'[k].pending[i].age <= Timeout + LongestSleep + 1
            <4>1. k \in DOMAIN table /\ k \in DOMAIN sessions /\ sessions'[k] = table[k]
                BY <2>4, <2>7
            <4>2. PICK j \in 1 .. Len(sessions[k].pending) :
                        sessions'[k].pending[i] = sessions[k].pending[j]
                BY <2>6, <3>1, <4>1 DEF PingsFrom
            <4> QED
                BY <1>2, <4>1, <4>2 DEF AgesFit
        <3> QED
            BY <1>1, <3>1 DEF AgesFit
    <2>10. TablesShape'
        BY <1>1, <1>2, <2>5 DEF TablesShape
    <2> QED
        BY <1>3, <2>5, <2>8, <2>9, <2>10 DEF IInv
<1>5. CASE ~(key \in DOMAIN sessions /\ Places(sessions[key].pending, sequence) # {})
    <2>1. sessions' = Collected(sessions) /\ results' = results
        BY <1>5 DEF OnEchoReply
    <2>2. DOMAIN sessions' = {k \in DOMAIN sessions : ~Finished(sessions[k])}
          /\ \A k \in DOMAIN sessions' : sessions'[k] = sessions[k]
        BY <2>1, CollectedIsKept
    <2>3. SessionsFit' /\ EndedSessionsAreComplete'
        <3>1. {} \subseteq stops /\ DOMAIN sessions = DOMAIN sessions \ {}
            OBVIOUS
        <3>2. DOMAIN sessions' \subseteq DOMAIN sessions
              /\ \A k \in DOMAIN sessions \ DOMAIN sessions' : Finished(sessions[k])
            BY <2>2
        <3>3. \A k \in DOMAIN sessions :
                /\ EntryInv(sessions[k]) /\ sessions[k].owner = sessions[k].owner
                /\ Accounted(sessions[k], results'[sessions[k].owner])
            BY <1>2, <2>1 DEF SessionsFit
        <3>4. \A h \in Handle : results[h] \subseteq results'[h]
            BY <2>1
        <3> QED
            BY <1>1, <2>2, <3>1, <3>2, <3>3, <3>4, SessionsGoOn
    <2>4. AgesFit'
        BY <1>1, <1>2, <2>2 DEF AgesFit
    <2>5. TablesShape' /\ FreshResults'
        BY <1>1, <1>2, <2>1 DEF TablesShape, FreshResults
    <2> QED
        BY <1>3, <2>3, <2>4, <2>5 DEF IInv
<1> QED
    BY <1>4, <1>5

LEMMA AsyncErrorKeeps ==
    ASSUME IInv, NEW key \in Key, NEW sequence \in Int, OnAsyncSendError(key, sequence)
    PROVE  IInv'
<1> DEFINE entry == sessions[key]
           places == Places(entry.pending, sequence)
           n == UnwrapSequence(sequence, entry.sent)
           rest == RemoveAt(entry.pending, Min(Places(entry.pending, sequence)))
           new == IF places = {} THEN entry ELSE WithPending(entry, rest)
           table == [sessions EXCEPT ![key] = new]
           report == <<n, "unreachable">>
<1>1. /\ worker = "recv" /\ handles' = handles /\ stops' = stops /\ worker' = worker
      /\ deadline' = deadline /\ errors' = errors + 1 /\ errors < MaxErrors
      /\ key \in DOMAIN sessions
    BY DEF OnAsyncSendError
<1>2. TablesShape /\ SessionsFit /\ AgesFit /\ FreshResults /\ StopsAreAsked
    BY DEF IInv
<1>3. StopsAreAsked'
    BY <1>1, <1>2 DEF StopsAreAsked
<1>4. /\ EntryInv(entry) /\ Accounted(entry, results[entry.owner])
      /\ entry.owner \in 1 .. Len(handles) /\ entry.owner \in Handle /\ entry.sent \in Nat
      /\ entry.sent < CounterSize /\ entry.sent \in Number
    BY <1>1, <1>2, PingsOf DEF SessionsFit
<1>5. Report(entry.owner, <<n, "unreachable">>)
    BY DEF OnAsyncSendError
<1>6. n \in Number
    <2>1. sequence \in Int
        OBVIOUS
    <2> HIDE DEF entry
    <2> QED
        BY <1>4, <2>1, UnwrapsToANumber
<1>7. DOMAIN sessions' = DOMAIN table /\ \A k \in DOMAIN table : sessions'[k] = table[k]
    <2>1. CASE places = {}
        BY <2>1 DEF OnAsyncSendError
    <2>2. CASE places # {}
        BY <2>2 DEF OnAsyncSendError, WithPending
    <2> QED
        BY <2>1, <2>2
<1>8. report[1] = n
    OBVIOUS
<1>9. /\ EntryInv(new) /\ new.owner = entry.owner
      /\ Accounted(new, results[entry.owner] \cup {report}) /\ PingsFrom(new, entry)
    <2>1. CASE places = {}
        <3>1. new = entry
            BY <2>1
        <3>2. PingsFrom(entry, entry)
            BY DEF PingsFrom
        <3>3. Accounted(entry, results[entry.owner] \cup {<<n, "unreachable">>})
            <4>1. Accounted(entry, results[entry.owner])
                BY <1>4
            <4> HIDE DEF entry, n
            <4> QED
                BY <4>1, ErrorsAreAccounted
        <3> HIDE DEF new, entry, n
        <3> QED
            BY <1>4, <3>1, <3>2, <3>3 DEF report
    <2>2. CASE places # {}
        <3>1. Places(entry.pending, sequence) # {}
            BY <2>2
        <3>2. EntryInv(entry) /\ Accounted(entry, results[entry.owner])
            BY <1>4
        <3>3. rest = RemoveAt(entry.pending, Min(Places(entry.pending, sequence)))
            OBVIOUS
        <3>4. new = WithPending(entry, rest)
            BY <2>2
        <3>5. n = UnwrapSequence(sequence, entry.sent)
            OBVIOUS
        <3> HIDE DEF entry, rest, new, n, report
        <3> QED
            BY <1>8, <3>1, <3>2, <3>3, <3>4, <3>5, PingIsSettled
    <2> QED
        BY <2>1, <2>2
<1>10. DOMAIN table = DOMAIN sessions /\ table[key] = new
       /\ \A other \in DOMAIN sessions : other # key => table[other] = sessions[other]
    BY <1>1
<1> HIDE DEF new, table, n, rest, places
<1>11. /\ results' \in [Handle -> SUBSET (Number \X Status)]
       /\ results'[entry.owner] = results[entry.owner] \cup {report}
       /\ \A g \in Handle : g # entry.owner => results'[g] = results[g]
       /\ \A g \in Handle : results[g] \subseteq results'[g]
       /\ FreshResults'
    <2>1. "unreachable" \in Status /\ entry.owner <= Len(handles)
        BY <1>4 DEF Status
    <2>2. /\ results' \in [Handle -> SUBSET (Number \X Status)]
          /\ results'[entry.owner] = results[entry.owner] \cup {<<n, "unreachable">>}
          /\ \A g \in Handle : g # entry.owner => results'[g] = results[g]
          /\ \A g \in Handle : results[g] \subseteq results'[g]
          /\ FreshResults'
        <3> HIDE DEF entry
        <3> QED
            BY <1>1, <1>4, <1>5, <1>6, <2>1, ReportIsAdded
    <2> QED
        BY <2>2 DEF report
<1> HIDE DEF report
<1>12. ASSUME NEW other \in DOMAIN table
       PROVE  /\ EntryInv(table[other]) /\ table[other].owner = sessions[other].owner
              /\ Accounted(table[other], results'[table[other].owner])
              /\ PingsFrom(table[other], sessions[other])
    <2>1. CASE other = key
        BY <1>9, <1>10, <1>11, <2>1
    <2>2. CASE other # key
        <3>1. table[other] = sessions[other] /\ other \in DOMAIN sessions
            BY <1>10, <2>2
        <3>2. EntryInv(sessions[other]) /\ Accounted(sessions[other], results[sessions[other].owner])
            BY <1>2, <3>1 DEF SessionsFit
        <3>3. sessions[other].owner # entry.owner /\ sessions[other].owner \in Handle
            BY <1>1, <1>2, <2>2, <3>1, <3>2, OwnersDiffer, PingsOf
        <3>4. results'[sessions[other].owner] = results[sessions[other].owner]
            BY <1>11, <3>3
        <3>5. PingsFrom(sessions[other], sessions[other])
            BY DEF PingsFrom
        <3> QED
            BY <3>1, <3>2, <3>4, <3>5
    <2> QED
        BY <2>1, <2>2
<1>13. SessionsFit' /\ EndedSessionsAreComplete'
    <2>1. {} \subseteq stops /\ DOMAIN table = DOMAIN sessions \ {}
        BY <1>10
    <2>2. DOMAIN sessions' \subseteq DOMAIN table
          /\ \A k \in DOMAIN table \ DOMAIN sessions' : Finished(table[k])
        BY <1>7
    <2>3. \A k \in DOMAIN table :
            /\ EntryInv(table[k]) /\ table[k].owner = sessions[k].owner
            /\ Accounted(table[k], results'[table[k].owner])
        BY <1>12
    <2>4. \A k \in DOMAIN sessions' : sessions'[k] = table[k]
        BY <1>7
    <2>5. \A g \in Handle : results[g] \subseteq results'[g]
        BY <1>11
    <2>6. handles' = handles
        BY <1>1
    <2> HIDE DEF entry
    <2> QED
        BY <2>1, <2>2, <2>3, <2>4, <2>5, <2>6, SessionsGoOn
<1>14. AgesFit'
    <2>1. ASSUME NEW k \in DOMAIN sessions', NEW i \in 1 .. Len(sessions'[k].pending)
          PROVE  sessions'[k].pending[i].age <= Timeout + LongestSleep + 1
        <3>1. k \in DOMAIN table /\ k \in DOMAIN sessions /\ sessions'[k] = table[k]
            BY <1>7, <1>10
        <3>2. PICK j \in 1 .. Len(sessions[k].pending) :
                    sessions'[k].pending[i] = sessions[k].pending[j]
            BY <1>12, <2>1, <3>1 DEF PingsFrom
        <3> QED
            BY <1>2, <3>1, <3>2 DEF AgesFit
    <2> QED
        BY <1>1, <2>1 DEF AgesFit
<1>15. TablesShape'
    <2>1. errors' \in 0 .. MaxErrors
        BY <1>1, <1>2, ConstantsFit DEF TablesShape
    <2> QED
        BY <1>1, <1>2, <1>11, <2>1 DEF TablesShape
<1> QED
    BY <1>3, <1>11, <1>13, <1>14, <1>15 DEF IInv

(* What a session asks for is no longer than the longest sleep.             *)
LEMMA DeadlinesFit ==
    ASSUME NEW entry, EntryInv(entry), NEW key, NEW failed
    PROVE  SessionDeadline(entry, key \in failed) \subseteq 0 .. LongestSleep
<1>1. /\ LongestSleep \in Nat /\ Timeout \in Nat /\ Timeout <= LongestSleep
    BY SleepsFit, ConstantsFit
<1>2. entry.interval \in Nat /\ entry.last \in Nat /\ entry.interval <= LongestSleep
    <2>1. entry.owner \in Handle /\ entry.interval \in Nat /\ entry.last \in Nat
        BY PingsOf
    <2>2. entry.interval = Calls[entry.owner].interval
        BY DEF EntryInv, FitsCall
    <2> QED
        BY <2>1, <2>2, SleepsFit
<1>3. CASE ~HasMoreToSend(entry)
    BY <1>3 DEF SessionDeadline, IsDue
<1>4. CASE HasMoreToSend(entry) /\ IsDue(entry)
    <2>1. SessionDeadline(entry, key \in failed) \subseteq {0, Timeout}
        <3>1. CASE key \in failed
            BY <1>4, <3>1 DEF SessionDeadline
        <3>2. CASE key \notin failed
            BY <1>4, <3>2 DEF SessionDeadline
        <3> QED
            BY <3>1, <3>2
    <2> QED
        BY <1>1, <2>1
<1>5. CASE HasMoreToSend(entry) /\ ~IsDue(entry)
    <2>1. SessionDeadline(entry, key \in failed) = {entry.interval - entry.last}
        BY <1>5 DEF SessionDeadline
    <2>2. ~(entry.last > entry.interval)
        BY <1>5 DEF IsDue
    <2>3. entry.interval - entry.last \in 0 .. LongestSleep
        BY <1>1, <1>2, <2>2
    <2> QED
        BY <2>1, <2>3
<1> QED
    BY <1>3, <1>4, <1>5

LEMMA NextDeadlineFits ==
    ASSUME NEW deadlines, deadlines \subseteq 0 .. LongestSleep
    PROVE  NextDeadline(deadlines) \in 0 .. LongestSleep
<1>1. LongestSleep \in Nat /\ DefaultPark \in Nat /\ DefaultPark <= LongestSleep
    BY SleepsFit, ConstantsFit
<1>2. CASE deadlines = {}
    BY <1>1, <1>2 DEF NextDeadline
<1>3. CASE deadlines # {}
    <2>1. deadlines \subseteq Nat
        BY <1>1
    <2>2. Min(deadlines) \in deadlines
        BY <1>3, <2>1, LeastOfNaturals
    <2> QED
        BY <1>3, <2>2 DEF NextDeadline
<1> QED
    BY <1>2, <1>3

(* A session after perform_timers: the pings that timed out are reported,   *)
(* and a request may have gone out.                                         *)
LEMMA TimersKeepEntry ==
    ASSUME NEW entry, EntryInv(entry), NEW reports, Accounted(entry, reports),
           NEW new,
           \/ new = AfterTimeouts(entry)
           \/ /\ IsDue(entry) /\ ~(entry.sent >= MaxSent)
              /\ new = AfterSend(AfterTimeouts(entry))
    PROVE  /\ EntryInv(new) /\ new.owner = entry.owner
           /\ Accounted(new, reports \cup TimeoutReports(entry))
           /\ \A i \in 1 .. Len(new.pending) : new.pending[i].age <= Timeout
           /\ TimeoutReports(entry) \subseteq Number \X {"settled"}
<1>1. PICK mid : mid = AfterTimeouts(entry)
    OBVIOUS
<1>2. /\ EntryInv(mid)
      /\ mid.owner = entry.owner /\ mid.count = entry.count /\ mid.interval = entry.interval
      /\ mid.sent = entry.sent /\ mid.last = entry.last
      /\ \A i \in 1 .. Len(mid.pending) : mid.pending[i].age <= Timeout
      /\ TimeoutReports(entry) \subseteq Number \X {"settled"}
      /\ Unanswered(entry) = Unanswered(mid) \cup {report[1] : report \in TimeoutReports(entry)}
      /\ \A report \in TimeoutReports(entry) : report[1] \notin Unanswered(mid)
    BY <1>1, TimeoutsLeave
<1>3. Accounted(mid, reports \cup TimeoutReports(entry))
    BY <1>2, SettledAreAccounted
<1>4. CASE new = AfterTimeouts(entry)
    <2>1. new = mid
        BY <1>1, <1>4
    <2> QED
        BY <1>2, <1>3, <2>1
<1>5. CASE IsDue(entry) /\ ~(entry.sent >= MaxSent) /\ new = AfterSend(AfterTimeouts(entry))
    <2>1. new = AfterSend(mid)
        BY <1>1, <1>5
    <2>2. /\ EntryInv(mid) /\ mid.last > mid.interval /\ mid.sent < MaxSent
          /\ \A i \in 1 .. Len(mid.pending) : mid.pending[i].age <= Timeout
        <3>1. mid.last > mid.interval
            BY <1>2, <1>5 DEF IsDue
        <3>2. mid.sent < MaxSent
            <4>1. entry.sent \in Nat /\ MaxSent \in Nat /\ ~(entry.sent >= MaxSent)
                BY <1>5, PingsOf, ConstantsFit
            <4> QED
                BY <1>2, <4>1
        <3> QED
            BY <1>2, <3>1, <3>2
    <2>3. /\ EntryInv(new) /\ new.owner = mid.owner /\ new.sent = mid.sent + 1
          /\ \A i \in 1 .. Len(new.pending) : new.pending[i].age <= Timeout
          /\ Unanswered(new) = Unanswered(mid) \cup {mid.sent}
        BY <2>1, <2>2, RequestJoins
    <2>4. mid.sent \in Nat
        BY <2>2, PingsOf
    <2>5. Accounted(new, reports \cup TimeoutReports(entry))
        BY <1>3, <2>3, <2>4, RequestIsAccounted
    <2> QED
        BY <1>2, <2>3, <2>5
<1> QED
    BY <1>4, <1>5

LEMMA TimersKeep ==
    ASSUME IInv, PerformTimers
    PROVE  IInv'
<1>1. /\ worker = "recv" /\ handles' = handles /\ stops' = {} /\ worker' = "parked"
      /\ errors' = errors
    BY DEF PerformTimers
<1>2. TablesShape /\ SessionsFit /\ AgesFit /\ FreshResults /\ StopsAreAsked
    BY DEF IInv
<1> DEFINE kept == Restrict(sessions, DOMAIN sessions \ stops)
           due == {key \in DOMAIN kept : IsDue(kept[key])}
<1>3. DOMAIN kept = DOMAIN sessions \ stops /\ \A key \in DOMAIN kept : kept[key] = sessions[key]
    BY DEF Restrict
<1> DEFINE told(h) == UNION {TimeoutReports(kept[key]) : key \in
                            {k \in DOMAIN kept : kept[k].owner = h}}
           after(failed) == [key \in DOMAIN kept |->
                        IF key \in due \ failed THEN AfterSend(AfterTimeouts(kept[key]))
                        ELSE AfterTimeouts(kept[key])]
<1>4. PICK failed \in SUBSET due :
        /\ \A key \in due : kept[key].sent >= MaxSent => key \in failed
        /\ sessions' = Collected(after(failed))
        /\ results' = [h \in Handle |-> results[h] \cup told(h)]
        /\ deadline' = NextDeadline(UNION {SessionDeadline(kept[key], key \in failed) :
                                            key \in DOMAIN kept})
    BY DEF PerformTimers
<1> HIDE DEF kept
<1> DEFINE table == after(failed)
<1>5. DOMAIN table = DOMAIN kept
      /\ \A key \in DOMAIN kept :
            table[key] = IF key \in due \ failed THEN AfterSend(AfterTimeouts(kept[key]))
                                                 ELSE AfterTimeouts(kept[key])
    OBVIOUS
<1>6. sessions' = Collected(table)
    BY <1>4
<1> HIDE DEF table, after
<1>7. ASSUME NEW key \in DOMAIN kept
      PROVE  /\ key \in DOMAIN sessions /\ key \notin stops
             /\ EntryInv(kept[key]) /\ kept[key] = sessions[key] /\ kept[key].owner \in Handle
             /\ kept[key].owner \in 1 .. Len(handles)
             /\ Accounted(kept[key], results[kept[key].owner])
    BY <1>2, <1>3, PingsOf DEF SessionsFit
<1>8. ASSUME NEW key \in DOMAIN kept
      PROVE  told(kept[key].owner) = TimeoutReports(kept[key])
    <2>1. {k \in DOMAIN kept : kept[k].owner = kept[key].owner} = {key}
        <3>1. ASSUME NEW k \in DOMAIN kept, kept[k].owner = kept[key].owner
              PROVE  k = key
            BY <1>2, <1>7, <3>1, OwnersDiffer
        <3> QED
            BY <3>1
    <2> QED
        BY <2>1
<1>9. ASSUME NEW key \in DOMAIN kept
      PROVE  /\ EntryInv(table[key]) /\ table[key].owner = kept[key].owner
             /\ Accounted(table[key], results[kept[key].owner] \cup TimeoutReports(kept[key]))
             /\ \A i \in 1 .. Len(table[key].pending) : table[key].pending[i].age <= Timeout
             /\ TimeoutReports(kept[key]) \subseteq Number \X {"settled"}
    <2>1. PICK new : new = table[key]
        OBVIOUS
    <2>2. PICK entry : entry = kept[key]
        OBVIOUS
    <2>3. EntryInv(entry) /\ Accounted(entry, results[entry.owner])
        BY <1>7, <2>2
    <2>4. \/ new = AfterTimeouts(entry)
          \/ /\ IsDue(entry) /\ ~(entry.sent >= MaxSent)
             /\ new = AfterSend(AfterTimeouts(entry))
        <3>1. CASE key \in due \ failed
            BY <1>4, <1>5, <2>1, <2>2, <3>1
        <3>2. CASE key \notin due \ failed
            BY <1>5, <2>1, <2>2, <3>2
        <3> QED
            BY <3>1, <3>2
    <2>5. /\ EntryInv(new) /\ new.owner = entry.owner
          /\ Accounted(new, results[entry.owner] \cup TimeoutReports(entry))
          /\ \A i \in 1 .. Len(new.pending) : new.pending[i].age <= Timeout
          /\ TimeoutReports(entry) \subseteq Number \X {"settled"}
        BY <2>3, <2>4, TimersKeepEntry
    <2> QED
        BY <2>1, <2>2, <2>5
<1>10. ASSUME NEW h \in Handle
       PROVE  /\ told(h) \subseteq Number \X Status
              /\ (h > Len(handles) => told(h) = {})
              /\ results'[h] = results[h] \cup told(h)
    <2>1. told(h) \subseteq Number \X Status
        <3>1. \A key \in DOMAIN kept : TimeoutReports(kept[key]) \subseteq Number \X Status
            BY <1>9 DEF Status
        <3> QED
            BY <3>1
    <2>2. ASSUME h > Len(handles) PROVE told(h) = {}
        <3>1. \A key \in DOMAIN kept : kept[key].owner # h
            <4>1. h \in Int /\ Len(handles) \in Nat
                BY <1>2, ConstantsFit, LenProperties DEF TablesShape
            <4> QED
                BY <1>7, <2>2, <4>1
        <3> QED
            BY <3>1
    <2> HIDE DEF told
    <2> QED
        BY <1>4, <2>1, <2>2
<1>11. results' \in [Handle -> SUBSET (Number \X Status)] /\ FreshResults'
    <2> HIDE DEF told
    <2>1. results' = [h \in Handle |-> results[h] \cup told(h)]
        BY <1>4
    <2>2. \A h \in Handle : results[h] \cup told(h) \subseteq Number \X Status
        BY <1>2, <1>10 DEF TablesShape
    <2>3. FreshResults'
        BY <1>1, <1>2, <1>10 DEF FreshResults
    <2> QED
        BY <2>1, <2>2, <2>3
<1>12. DOMAIN sessions' = {k \in DOMAIN table : ~Finished(table[k])}
       /\ \A k \in DOMAIN sessions' : sessions'[k] = table[k]
    BY <1>6, CollectedIsKept
<1>13. SessionsFit' /\ EndedSessionsAreComplete'
    <2>1. stops \subseteq stops /\ DOMAIN table = DOMAIN sessions \ stops
        BY <1>3, <1>5
    <2>2. DOMAIN sessions' \subseteq DOMAIN table
          /\ \A k \in DOMAIN table \ DOMAIN sessions' : Finished(table[k])
        BY <1>12
    <2>3. ASSUME NEW k \in DOMAIN table
          PROVE  /\ EntryInv(table[k]) /\ table[k].owner = sessions[k].owner
                 /\ Accounted(table[k], results'[table[k].owner])
        <3>1. k \in DOMAIN kept
            BY <1>5
        <3>2. results'[kept[k].owner] = results[kept[k].owner] \cup TimeoutReports(kept[k])
            <4> HIDE DEF told
            <4> QED
                BY <1>7, <1>8, <1>10, <3>1
        <3> QED
            BY <1>7, <1>9, <3>1, <3>2
    <2>4. \A k \in DOMAIN sessions' : sessions'[k] = table[k]
        BY <1>12
    <2>5. \A g \in Handle : results[g] \subseteq results'[g]
        <3> HIDE DEF told
        <3> QED
            BY <1>10
    <2>6. handles' = handles
        BY <1>1
    <2> QED
        BY <2>1, <2>2, <2>3, <2>4, <2>5, <2>6, SessionsGoOn
<1>14. deadline' \in 0 .. LongestSleep
    <2> DEFINE deadlines == UNION {SessionDeadline(kept[key], key \in failed) : key \in DOMAIN kept}
    <2>1. ASSUME NEW key \in DOMAIN kept
          PROVE  SessionDeadline(kept[key], key \in failed) \subseteq 0 .. LongestSleep
        <3>1. EntryInv(kept[key])
            BY <1>7
        <3> QED
            BY <3>1, DeadlinesFit
    <2>2. deadlines \subseteq 0 .. LongestSleep
        BY <2>1
    <2>3. deadline' = NextDeadline(deadlines)
        BY <1>4
    <2> HIDE DEF deadlines
    <2> QED
        BY <2>2, <2>3, NextDeadlineFits
<1>15. AgesFit'
    <2>1. ASSUME NEW k \in DOMAIN sessions', NEW i \in 1 .. Len(sessions'[k].pending)
          PROVE  /\ sessions'[k].pending[i].age <= Timeout + LongestSleep + 1
                 /\ sessions'[k].pending[i].age + deadline' <= Timeout + LongestSleep
        <3>1. k \in DOMAIN kept /\ sessions'[k] = table[k]
            BY <1>5, <1>12
        <3>2. table[k].pending[i].age <= Timeout /\ table[k].pending[i].age \in Nat
            <4>1. EntryInv(table[k]) /\ i \in 1 .. Len(table[k].pending)
                BY <1>9, <2>1, <3>1
            <4>2. table[k].pending[i].age \in Nat
                BY <4>1, PingsOf
            <4> QED
                BY <1>9, <3>1, <4>1, <4>2
        <3>3. Timeout \in Nat /\ LongestSleep \in Nat
            BY ConstantsFit, SleepsFit
        <3> QED
            BY <1>14, <3>1, <3>2, <3>3
    <2> QED
        BY <2>1 DEF AgesFit
<1>16. TablesShape'
    <2>1. deadline' \in Int /\ deadline' >= -1 /\ deadline' <= LongestSleep
        BY <1>14, SleepsFit
    <2> QED
        BY <1>1, <1>2, <1>11, <2>1 DEF TablesShape
<1>17. StopsAreAsked'
    BY <1>1 DEF StopsAreAsked
<1> QED
    BY <1>11, <1>13, <1>15, <1>16, <1>17 DEF IInv

-----------------------------------------------------------------------------
(* The other steps *)

LEMMA PingKeeps ==
    ASSUME IInv, Len(handles) < Len(Calls), Ping(Calls[Len(handles) + 1])
    PROVE  IInv'
<1> DEFINE h == Len(handles) + 1
           call == Calls[h]
<1>1. TablesShape /\ SessionsFit /\ AgesFit /\ FreshResults /\ StopsAreAsked
      /\ EndedSessionsAreComplete
    BY DEF IInv
<1>2. PICK identifier \in Identifier :
        LET key == <<call.target, identifier>> IN
        /\ key \notin DOMAIN sessions
        /\ sessions' = [k \in DOMAIN sessions \cup {key} |->
                            IF k = key THEN NewSession(call) ELSE sessions[k]]
        /\ handles' = Append(handles, [key |-> key, stopped |-> FALSE])
    BY DEF Ping
<1> DEFINE key == <<call.target, identifier>>
           new == NewSession(call)
           handle == [key |-> key, stopped |-> FALSE]
<1>3. /\ stops' = stops /\ results' = results /\ worker' = worker /\ deadline' = deadline
      /\ errors' = errors /\ worker = "control"
    BY DEF Ping
<1>4. h \in Handle /\ h \in Nat /\ Len(handles) \in Nat /\ DOMAIN handles = 1 .. Len(handles)
    BY <1>1, ConstantsFit, LenProperties DEF TablesShape
<1>5. call.interval \in Nat /\ call.count \in Nat \cup {NoCount} /\ call.target \in Target
    BY <1>4, ConstantsFit
<1>6. key \in Key /\ handle \in [key : Key, stopped : BOOLEAN]
    BY <1>2, <1>5 DEF Key
<1>7. /\ handles' \in Seq([key : Key, stopped : BOOLEAN]) /\ Len(handles') = h
      /\ \A g \in 1 .. Len(handles) : handles'[g] = handles[g]
      /\ handles'[h] = handle
    <2>1. handles' = Append(handles, handle) /\ handles \in Seq([key : Key, stopped : BOOLEAN])
        BY <1>1, <1>2 DEF TablesShape
    <2> HIDE DEF handle
    <2> QED
        BY <1>6, <2>1, AppendProperties
<1>8. DOMAIN handles' = 1 .. h
    BY <1>7, LenProperties
<1>9. /\ DOMAIN sessions' = DOMAIN sessions \cup {key} /\ sessions'[key] = new
      /\ \A k \in DOMAIN sessions : sessions'[k] = sessions[k]
    BY <1>2
<1>10. /\ new.owner = h /\ new.count = call.count /\ new.interval = call.interval
       /\ new.sent = 0 /\ new.last = call.interval + 1 /\ new.pending = <<>>
    BY DEF NewSession
<1>11. EntryInv(new)
    <2>1. 0 \in Number /\ MaxSent \in Nat
        BY ConstantsFit DEF Number
    <2>2. <<>> \in Seq(PendingPing) /\ Len(<<>>) = 0
        BY EmptySeq
    <2>3. new \in Entry
        BY <1>4, <1>5, <2>1, <2>2 DEF NewSession, Entry
    <2>4. FitsCall(new)
        BY <1>5, <1>10, <2>1 DEF FitsCall
    <2>5. \A i \in 1 .. Len(new.pending) : FALSE
        BY <1>10, <2>2
    <2> HIDE DEF new
    <2>6. InOrder(new) /\ Spaced(new) /\ InWindow(new)
        BY <2>5 DEF InOrder, Spaced, InWindow
    <2> QED
        BY <2>3, <2>4, <2>6 DEF EntryInv
<1> HIDE DEF new, handle, key
<1>12. Accounted(new, results'[h])
    <2>1. results'[h] = {}
        BY <1>1, <1>3, <1>4 DEF FreshResults
    <2>2. Unanswered(new) = {}
        BY <1>10 DEF Unanswered
    <2>3. 0 .. new.sent - 1 = {}
        BY <1>10
    <2> QED
        BY <2>1, <2>2, <2>3 DEF Accounted
<1>13. ASSUME NEW k \in DOMAIN sessions'
       PROVE  /\ EntryInv(sessions'[k]) /\ sessions'[k].owner \in 1 .. Len(handles')
              /\ handles'[sessions'[k].owner].key = k
              /\ Accounted(sessions'[k], results'[sessions'[k].owner])
    <2>1. CASE k = key
        <3>1. handles'[h].key = key
            BY <1>7 DEF handle
        <3> QED
            BY <1>4, <1>7, <1>9, <1>10, <1>11, <1>12, <2>1, <3>1
    <2>2. CASE k # key
        <3>1. k \in DOMAIN sessions /\ sessions'[k] = sessions[k]
            BY <1>9, <2>2
        <3>2. /\ EntryInv(sessions[k]) /\ sessions[k].owner \in 1 .. Len(handles)
              /\ handles[sessions[k].owner].key = k
              /\ Accounted(sessions[k], results[sessions[k].owner])
            BY <1>1, <3>1 DEF SessionsFit
        <3>3. sessions[k].owner \in 1 .. Len(handles')
            BY <1>4, <1>7, <3>2
        <3> QED
            BY <1>3, <1>7, <3>1, <3>2, <3>3
    <2> QED
        BY <2>1, <2>2
<1>14. SessionsFit'
    <2>1. DOMAIN sessions' \subseteq Key
        BY <1>1, <1>6, <1>9 DEF SessionsFit
    <2> QED
        BY <1>13, <2>1 DEF SessionsFit
<1>15. AgesFit'
    <2>1. ASSUME NEW k \in DOMAIN sessions', NEW i \in 1 .. Len(sessions'[k].pending)
          PROVE  sessions'[k].pending[i].age <= Timeout + LongestSleep + 1
        <3>1. k # key
            <4>1. Len(<<>>) = 0
                BY EmptySeq
            <4> QED
                BY <1>9, <1>10, <2>1, <4>1
        <3>2. k \in DOMAIN sessions /\ sessions'[k] = sessions[k]
            BY <1>9, <3>1
        <3> QED
            BY <1>1, <2>1, <3>2 DEF AgesFit
    <2> QED
        BY <1>3, <2>1 DEF AgesFit
<1>16. TablesShape'
    <2>1. Len(handles') <= Len(Calls)
        BY <1>4, <1>7, ConstantsFit
    <2> QED
        BY <1>1, <1>3, <1>7, <2>1 DEF TablesShape
<1>17. FreshResults'
    <2>1. \A g \in Handle : g > h => g > Len(handles)
        BY <1>4, ConstantsFit
    <2> QED
        BY <1>1, <1>3, <1>7, <2>1 DEF FreshResults
<1>18. StopsAreAsked'
    <2>1. ASSUME NEW k \in stops
          PROVE  \E g \in 1 .. Len(handles') : handles'[g].key = k /\ handles'[g].stopped
        <3>1. PICK g \in 1 .. Len(handles) : handles[g].key = k /\ handles[g].stopped
            BY <1>1 DEF StopsAreAsked
        <3>2. g \in 1 .. Len(handles') /\ handles'[g] = handles[g]
            BY <1>4, <1>7
        <3> QED
            BY <3>1, <3>2
    <2> QED
        BY <1>3, <2>1 DEF StopsAreAsked
<1>19. ASSUME NEW g \in DOMAIN handles', ~handles'[g].stopped, OnlyOwner(g)', ~Alive(g)'
       PROVE  Calls[g].count # NoCount /\ 0 .. Calls[g].count - 1 \subseteq Decided(g)'
    <2>1. g # h
        BY <1>9, <1>10, <1>19 DEF Alive
    <2>2. g \in DOMAIN handles /\ handles'[g] = handles[g]
        BY <1>4, <1>7, <1>8, <2>1
    <2>3. ~Alive(g)
        <3>1. ASSUME NEW k \in DOMAIN sessions, sessions[k].owner = g PROVE FALSE
            <4>1. k \in DOMAIN sessions' /\ sessions'[k].owner = g
                BY <1>9, <3>1
            <4> QED
                BY <1>19, <4>1 DEF Alive
        <3> QED
            BY <3>1 DEF Alive
    <2>4. OnlyOwner(g)
        <3>1. ASSUME NEW f \in DOMAIN handles, handles[f].key = handles[g].key PROVE f = g
            <4>1. f \in DOMAIN handles' /\ handles'[f] = handles[f]
                BY <1>4, <1>7, <1>8
            <4> QED
                BY <1>19, <2>2, <3>1, <4>1 DEF OnlyOwner
        <3> QED
            BY <3>1 DEF OnlyOwner
    <2>5. Calls[g].count # NoCount /\ 0 .. Calls[g].count - 1 \subseteq Decided(g)
        BY <1>1, <1>19, <2>2, <2>3, <2>4 DEF EndedSessionsAreComplete
    <2>6. Decided(g)' = Decided(g)
        BY <1>3 DEF Decided
    <2> QED
        BY <2>5, <2>6
<1>20. EndedSessionsAreComplete'
    BY <1>19 DEF EndedSessionsAreComplete
<1> QED
    BY <1>14, <1>15, <1>16, <1>17, <1>18, <1>20 DEF IInv

LEMMA StopKeeps ==
    ASSUME IInv, NEW h \in DOMAIN handles, Stop(h)
    PROVE  IInv'
<1>1. TablesShape /\ SessionsFit /\ AgesFit /\ FreshResults /\ StopsAreAsked
      /\ EndedSessionsAreComplete
    BY DEF IInv
<1>2. /\ sessions' = sessions /\ results' = results /\ worker' = worker /\ deadline' = deadline
      /\ errors' = errors /\ stops' = stops \cup {handles[h].key}
      /\ handles' = [handles EXCEPT ![h].stopped = TRUE]
    BY DEF Stop
<1>3. /\ handles \in Seq([key : Key, stopped : BOOLEAN]) /\ Len(handles) \in Nat
      /\ DOMAIN handles = 1 .. Len(handles)
    BY <1>1, LenProperties DEF TablesShape
<1>4. \A g \in 1 .. Len(handles) : handles[g] \in [key : Key, stopped : BOOLEAN]
    BY <1>3, ElementOfSeq
<1>5. DOMAIN handles' = 1 .. Len(handles)
      /\ \A g \in 1 .. Len(handles) :
            /\ handles'[g] \in [key : Key, stopped : BOOLEAN] /\ handles'[g].key = handles[g].key
            /\ (g # h => handles'[g] = handles[g])
    BY <1>2, <1>3, <1>4
<1>6. handles'[h].stopped /\ handles'[h].key = handles[h].key
    BY <1>2, <1>3, <1>4
<1>7. handles' \in Seq([key : Key, stopped : BOOLEAN]) /\ Len(handles') = Len(handles)
    <2>1. handles' \in [1 .. Len(handles) -> [key : Key, stopped : BOOLEAN]]
        BY <1>2, <1>3, <1>5
    <2> QED
        BY <1>3, <2>1, IsASeq, LenProperties
<1>8. TablesShape'
    <2>1. handles[h].key \in Key
        BY <1>3, <1>4
    <2>2. stops' \subseteq Key /\ Len(handles') <= Len(Calls)
        BY <1>1, <1>2, <1>7, <2>1 DEF TablesShape
    <2> QED
        BY <1>1, <1>2, <1>7, <2>2 DEF TablesShape
<1>9. SessionsFit'
    <2>1. ASSUME NEW k \in DOMAIN sessions
          PROVE  /\ EntryInv(sessions[k]) /\ sessions[k].owner \in 1 .. Len(handles')
                 /\ handles'[sessions[k].owner].key = k
                 /\ Accounted(sessions[k], results[sessions[k].owner])
        <3>1. /\ EntryInv(sessions[k]) /\ sessions[k].owner \in 1 .. Len(handles)
              /\ handles[sessions[k].owner].key = k
              /\ Accounted(sessions[k], results[sessions[k].owner])
            BY <1>1 DEF SessionsFit
        <3> QED
            BY <1>5, <1>7, <3>1
    <2>2. DOMAIN sessions \subseteq Key
        BY <1>1 DEF SessionsFit
    <2> QED
        BY <1>2, <2>1, <2>2 DEF SessionsFit
<1>10. AgesFit' /\ FreshResults'
    BY <1>1, <1>2, <1>7 DEF AgesFit, FreshResults
<1>11. StopsAreAsked'
    <2>1. ASSUME NEW k \in stops'
          PROVE  \E g \in 1 .. Len(handles') : handles'[g].key = k /\ handles'[g].stopped
        <3>1. CASE k = handles[h].key
            BY <1>3, <1>6, <1>7, <3>1
        <3>2. CASE k \in stops
            <4>1. PICK g \in 1 .. Len(handles) : handles[g].key = k /\ handles[g].stopped
                BY <1>1, <3>2 DEF StopsAreAsked
            <4>2. handles'[g].key = k /\ handles'[g].stopped
                <5>1. CASE g = h
                    BY <1>6, <4>1, <5>1
                <5>2. CASE g # h
                    BY <1>5, <4>1, <5>2
                <5> QED
                    BY <5>1, <5>2
            <4> QED
                BY <1>7, <4>2
        <3> QED
            BY <1>2, <3>1, <3>2
    <2> QED
        BY <2>1 DEF StopsAreAsked
<1>12. EndedSessionsAreComplete'
    <2>1. ASSUME NEW g \in DOMAIN handles', ~handles'[g].stopped, OnlyOwner(g)', ~Alive(g)'
          PROVE  Calls[g].count # NoCount /\ 0 .. Calls[g].count - 1 \subseteq Decided(g)'
        <3>1. g \in DOMAIN handles /\ g # h
            BY <1>3, <1>5, <1>6, <2>1
        <3>2. ~handles[g].stopped
            BY <1>3, <1>5, <2>1, <3>1
        <3>3. OnlyOwner(g)
            <4>1. ASSUME NEW f \in DOMAIN handles, handles[f].key = handles[g].key PROVE f = g
                <5>1. f \in DOMAIN handles' /\ handles'[f].key = handles'[g].key
                    BY <1>3, <1>5, <3>1, <4>1
                <5> QED
                    BY <2>1, <5>1 DEF OnlyOwner
            <4> QED
                BY <4>1 DEF OnlyOwner
        <3>4. ~Alive(g)
            BY <1>2, <2>1 DEF Alive
        <3>5. Calls[g].count # NoCount /\ 0 .. Calls[g].count - 1 \subseteq Decided(g)
            BY <1>1, <3>1, <3>2, <3>3, <3>4 DEF EndedSessionsAreComplete
        <3>6. Decided(g)' = Decided(g)
            BY <1>2 DEF Decided
        <3> QED
            BY <3>5, <3>6
    <2> QED
        BY <2>1 DEF EndedSessionsAreComplete
<1> QED
    BY <1>8, <1>9, <1>10, <1>11, <1>12 DEF IInv

(* What does not touch the sessions, what was asked, or the reports.        *)
LEMMA WorkerMoves ==
    ASSUME IInv, UNCHANGED <<sessions, handles, stops, results, errors>>,
           worker' \in {"control", "recv", "parked"},
           deadline' \in Int /\ deadline' >= -1 /\ deadline' <= LongestSleep,
           worker' = "parked" => worker = "parked" /\ deadline' = deadline
    PROVE  IInv'
<1>1. TablesShape /\ SessionsFit /\ AgesFit /\ FreshResults /\ StopsAreAsked
      /\ EndedSessionsAreComplete
    BY DEF IInv
<1>2. /\ sessions' = sessions /\ handles' = handles /\ stops' = stops /\ results' = results
      /\ errors' = errors
    OBVIOUS
<1>3. TablesShape'
    BY <1>1, <1>2 DEF TablesShape
<1>4. SessionsFit'
    BY <1>1, <1>2, Zenon DEF SessionsFit
<1>5. AgesFit'
    BY <1>1, <1>2 DEF AgesFit
<1>6. FreshResults' /\ StopsAreAsked'
    BY <1>1, <1>2 DEF FreshResults, StopsAreAsked
<1>7. EndedSessionsAreComplete'
    BY <1>1, <1>2, Zenon DEF EndedSessionsAreComplete, OnlyOwner, Alive, Decided
<1> QED
    BY <1>3, <1>4, <1>5, <1>6, <1>7 DEF IInv

LEMMA TickKeeps ==
    ASSUME IInv, Tick
    PROVE  IInv'
<1>1. TablesShape /\ SessionsFit /\ AgesFit /\ FreshResults /\ StopsAreAsked
      /\ EndedSessionsAreComplete
    BY DEF IInv
<1>2. /\ handles' = handles /\ stops' = stops /\ results' = results /\ worker' = worker
      /\ errors' = errors /\ worker = "parked" /\ deadline >= 0 /\ deadline' = deadline - 1
      /\ sessions' = [key \in DOMAIN sessions |-> Older(sessions[key])]
    BY DEF Tick
<1>3. /\ Timeout \in Nat /\ LongestSleep \in Nat /\ deadline \in Int /\ deadline <= LongestSleep
    BY <1>1, ConstantsFit, SleepsFit DEF TablesShape
<1>4. ASSUME NEW key \in DOMAIN sessions
      PROVE  \A i \in 1 .. Len(sessions[key].pending) :
                /\ sessions[key].pending[i].age \in Nat
                /\ sessions[key].pending[i].age + deadline <= Timeout + LongestSleep
                /\ sessions[key].pending[i].age < MaxAge
    <2>1. EntryInv(sessions[key])
        BY <1>1 DEF SessionsFit
    <2>2. ASSUME NEW i \in 1 .. Len(sessions[key].pending)
          PROVE  /\ sessions[key].pending[i].age \in Nat
                 /\ sessions[key].pending[i].age + deadline <= Timeout + LongestSleep
        BY <1>1, <1>2, <2>1, PingsOf DEF AgesFit
    <2> QED
        BY <1>2, <1>3, <2>2 DEF MaxAge
<1>5. ASSUME NEW key \in DOMAIN sessions
      PROVE  /\ EntryInv(sessions'[key]) /\ sessions'[key].owner = sessions[key].owner
             /\ sessions'[key].sent = sessions[key].sent
             /\ Unanswered(sessions'[key]) = Unanswered(sessions[key])
             /\ Len(sessions'[key].pending) = Len(sessions[key].pending)
             /\ \A i \in 1 .. Len(sessions'[key].pending) :
                    sessions'[key].pending[i].age = sessions[key].pending[i].age + 1
    <2>1. PICK entry : entry = sessions[key]
        OBVIOUS
    <2>2. PICK new : new = Older(entry)
        OBVIOUS
    <2>3. EntryInv(entry) /\ \A i \in 1 .. Len(entry.pending) : entry.pending[i].age < MaxAge
        BY <1>1, <1>4, <2>1 DEF SessionsFit
    <2>4. /\ EntryInv(new) /\ new.owner = entry.owner /\ new.sent = entry.sent
          /\ Unanswered(new) = Unanswered(entry)
          /\ Len(new.pending) = Len(entry.pending)
          /\ \A i \in 1 .. Len(new.pending) : new.pending[i].age = entry.pending[i].age + 1
        BY <2>2, <2>3, AgesGrow
    <2>5. sessions'[key] = new
        BY <1>2, <2>1, <2>2
    <2> QED
        BY <2>1, <2>4, <2>5
<1>6. DOMAIN sessions' = DOMAIN sessions
    BY <1>2
<1>7. SessionsFit'
    <2>1. ASSUME NEW key \in DOMAIN sessions
          PROVE  /\ EntryInv(sessions'[key]) /\ sessions'[key].owner \in 1 .. Len(handles)
                 /\ handles[sessions'[key].owner].key = key
                 /\ Accounted(sessions'[key], results[sessions'[key].owner])
        <3>1. /\ sessions[key].owner \in 1 .. Len(handles)
              /\ handles[sessions[key].owner].key = key
              /\ Accounted(sessions[key], results[sessions[key].owner])
            BY <1>1 DEF SessionsFit
        <3>2. Accounted(sessions'[key], results[sessions[key].owner])
            BY <1>5, <3>1 DEF Accounted
        <3> QED
            BY <1>5, <3>1, <3>2
    <2>2. DOMAIN sessions' \subseteq Key
        BY <1>1, <1>6 DEF SessionsFit
    <2> QED
        BY <1>2, <1>6, <2>1, <2>2 DEF SessionsFit
<1>8. AgesFit'
    <2>1. ASSUME NEW key \in DOMAIN sessions, NEW i \in 1 .. Len(sessions'[key].pending)
          PROVE  /\ sessions'[key].pending[i].age <= Timeout + LongestSleep + 1
                 /\ sessions'[key].pending[i].age + (deadline - 1) <= Timeout + LongestSleep
        <3>1. i \in 1 .. Len(sessions[key].pending)
            BY <1>5
        <3>2. /\ sessions[key].pending[i].age \in Nat
              /\ sessions[key].pending[i].age + deadline <= Timeout + LongestSleep
              /\ sessions'[key].pending[i].age = sessions[key].pending[i].age + 1
            BY <1>4, <1>5, <2>1, <3>1
        <3> QED
            BY <1>2, <1>3, <3>2
    <2> QED
        BY <1>2, <1>6, <2>1 DEF AgesFit
<1>9. TablesShape' /\ FreshResults' /\ StopsAreAsked'
    <2>1. deadline' \in Int /\ deadline' >= -1 /\ deadline' <= LongestSleep
        BY <1>2, <1>3
    <2> QED
        BY <1>1, <1>2, <2>1 DEF TablesShape, FreshResults, StopsAreAsked
<1>10. EndedSessionsAreComplete'
    <2>1. \A h : Alive(h)' <=> Alive(h)
        <3>1. \A h : (\E key \in DOMAIN sessions' : sessions'[key].owner = h)
                        <=> \E key \in DOMAIN sessions : sessions[key].owner = h
            BY <1>5, <1>6
        <3> QED
            BY <3>1 DEF Alive
    <2>2. \A h : Decided(h)' = Decided(h) /\ (OnlyOwner(h)' <=> OnlyOwner(h))
        BY <1>2 DEF Decided, OnlyOwner
    <2> QED
        BY <1>1, <1>2, <2>1, <2>2, Zenon DEF EndedSessionsAreComplete
<1> QED
    BY <1>7, <1>8, <1>9, <1>10 DEF IInv

-----------------------------------------------------------------------------
(* The theorems *)

LEMMA InitInvariant == Init => IInv
<1> SUFFICES ASSUME Init PROVE IInv
    OBVIOUS
<1>1. /\ sessions = <<>> /\ handles = <<>> /\ stops = {} /\ results = [h \in Handle |-> {}]
      /\ worker = "control" /\ deadline = 0 /\ errors = 0
    BY DEF Init
<1>2. DOMAIN sessions = {} /\ DOMAIN handles = {}
    BY <1>1
<1>3. handles \in Seq([key : Key, stopped : BOOLEAN]) /\ Len(handles) = 0
    BY <1>1, EmptySeq
<1>4. TablesShape
    BY <1>1, <1>3, ConstantsFit, SleepsFit DEF TablesShape
<1>5. SessionsFit /\ AgesFit
    BY <1>2 DEF SessionsFit, AgesFit
<1>6. FreshResults /\ StopsAreAsked /\ EndedSessionsAreComplete
    BY <1>1, <1>2 DEF FreshResults, StopsAreAsked, EndedSessionsAreComplete
<1> QED
    BY <1>4, <1>5, <1>6 DEF IInv

LEMMA NextInvariant == IInv /\ [Next]_vars => IInv'
<1> SUFFICES ASSUME IInv, [Next]_vars PROVE IInv'
    OBVIOUS
<1>0. deadline \in Int /\ deadline >= -1 /\ deadline <= LongestSleep /\ 0 <= LongestSleep
      /\ worker \in {"control", "recv", "parked"}
    BY SleepsFit DEF IInv, TablesShape
<1>1. CASE Len(handles) < Len(Calls) /\ Ping(Calls[Len(handles) + 1])
    BY <1>1, PingKeeps
<1>2. CASE \E h \in DOMAIN handles : Stop(h)
    BY <1>2, StopKeeps
<1>3. CASE EndControl
    BY <1>0, <1>3, WorkerMoves DEF EndControl
<1>4. CASE \E key \in Key, sequence \in 0 .. SequenceSize - 1 : OnEchoReply(key, sequence)
    BY <1>4, EchoReplyKeeps
<1>5. CASE \E key \in Key, sequence \in 0 .. SequenceSize - 1 : OnAsyncSendError(key, sequence)
    BY <1>5, AsyncErrorKeeps
<1>6. CASE PerformTimers
    BY <1>6, TimersKeep
<1>7. CASE Wake
    BY <1>0, <1>7, WorkerMoves DEF Wake
<1>8. CASE Tick
    BY <1>8, TickKeeps
<1>9. CASE UNCHANGED vars
    BY <1>0, <1>9, WorkerMoves DEF vars
<1> QED
    BY <1>1, <1>2, <1>3, <1>4, <1>5, <1>6, <1>7, <1>8, <1>9 DEF Next

(* The sessions, the handles, the reports and the ages of the pings always  *)
(* fit one another.                                                         *)
THEOREM Invariance == SafeSpec => []IInv
BY InitInvariant, NextInvariant, PTL DEF SafeSpec

LEMMA InvariantGivesType == IInv => TypeOK
<1> SUFFICES ASSUME IInv PROVE TypeOK
    OBVIOUS
<1>1. TablesShape /\ SessionsFit
    BY DEF IInv
<1>2. DOMAIN handles = 1 .. Len(handles)
    BY <1>1, LenProperties DEF TablesShape
<1>3. ASSUME NEW key \in DOMAIN sessions
      PROVE  LET entry == sessions[key] IN
             /\ entry.owner \in DOMAIN handles /\ handles[entry.owner].key = key
             /\ entry.sent \in Number
             /\ entry.last \in 0 .. entry.interval + 1
             /\ entry.pending \in Seq(PendingPing)
    <2>1. EntryInv(sessions[key]) /\ sessions[key].owner \in DOMAIN handles
          /\ handles[sessions[key].owner].key = key
        BY <1>1, <1>2 DEF SessionsFit
    <2>2. sessions[key].last <= sessions[key].interval + 1
        BY <2>1 DEF EntryInv, FitsCall
    <2>3. /\ sessions[key].sent \in Number /\ sessions[key].pending \in Seq(PendingPing)
          /\ sessions[key].last \in Nat /\ sessions[key].interval \in Nat
        BY <2>1, PingsOf
    <2>4. sessions[key].last \in 0 .. sessions[key].interval + 1
        BY <2>2, <2>3
    <2> QED
        BY <2>1, <2>3, <2>4
<1>4. DOMAIN sessions \subseteq Key
    BY <1>1 DEF SessionsFit
<1> QED
    BY <1>1, <1>3, <1>4 DEF TypeOK, TablesShape

(* The variables have their types: a sequence number always has 16 bits, a  *)
(* count of pings never reaches the limit of a usize (ping.rs, the entries  *)
(* of PingManager::sessions).                                               *)
THEOREM TypeCorrect == SafeSpec => []TypeOK
BY Invariance, InvariantGivesType, PTL

LEMMA InvariantAccounts == IInv => PingsAreAccounted
<1> SUFFICES ASSUME IInv, NEW key \in DOMAIN sessions
             PROVE  LET entry == sessions[key]
                        sent == 0 .. entry.sent - 1 IN
                    /\ sent \subseteq Decided(entry.owner) \cup Unanswered(entry)
                    /\ Unanswered(entry) \subseteq sent
                    /\ \A report \in results[entry.owner] :
                         report[2] # "unreachable" => report[1] \in sent \ Unanswered(entry)
    BY DEF PingsAreAccounted
<1>1. Accounted(sessions[key], results[sessions[key].owner])
    BY DEF IInv, SessionsFit
<1> QED
    BY <1>1 DEF Accounted, Decided

(* Each ping sent is pending or was reported, under its own number although *)
(* only 16 bits of it travel, and none is answered or timed out that was    *)
(* never sent or still is pending; of errors alone nothing of the kind is   *)
(* claimed (perform_timers, on_echo_reply, on_async_send_error,             *)
(* unwrap_sequence).                                                        *)
THEOREM NoPingIsLost == SafeSpec => []PingsAreAccounted
BY Invariance, InvariantAccounts, PTL

LEMMA InvariantBounds == IInv => OverdueIsBounded
<1> SUFFICES ASSUME IInv, NEW key \in DOMAIN sessions,
                    NEW i \in DOMAIN sessions[key].pending
             PROVE  sessions[key].pending[i].age < MaxAge
    BY DEF OverdueIsBounded
<1>1. EntryInv(sessions[key]) /\ AgesFit
    BY DEF IInv, SessionsFit
<1>2. i \in 1 .. Len(sessions[key].pending) /\ sessions[key].pending[i].age \in Nat
    BY <1>1, PingsOf
<1>3. sessions[key].pending[i].age <= Timeout + LongestSleep + 1
    BY <1>1, <1>2 DEF AgesFit
<1>4. Timeout \in Nat /\ LongestSleep \in Nat
    BY ConstantsFit, SleepsFit
<1> QED
    BY <1>2, <1>3, <1>4 DEF MaxAge

(* No ping waits longer than the timeout and one sleep of the worker        *)
(* (process_timers_session and the deadlines it returns).                   *)
THEOREM NonePendsForever == SafeSpec => []OverdueIsBounded
BY Invariance, InvariantBounds, PTL

(* A session that nobody stopped ends only after its last report            *)
(* (garbage_collect, and the Stop messages by key).                         *)
THEOREM EndsAfterTheLast == SafeSpec => []EndedSessionsAreComplete
<1>1. IInv => EndedSessionsAreComplete
    BY DEF IInv
<1> QED
    BY <1>1, Invariance, PTL
=============================================================================
