------------------------- MODULE ArpResolver_proofs -------------------------
(***************************************************************************)
(* For any addresses, calls, lifetimes and limits: the four phases of the  *)
(* worker that share the ARP table agree on it, no packet loses its place, *)
(* and an address is granted or refused for what was heard of it.          *)
(***************************************************************************)
EXTENDS ArpResolver, SequenceTheorems, FiniteSetTheorems, TLAPS

-----------------------------------------------------------------------------
(* The inductive invariant *)

(* ARP was heard from whoever is resolved, and not, since the last request, *)
(* from whoever is asked about or has timed out.                           *)
HeardIsResolved ==
    \A ip \in Ip :
        /\ IsResolved(entry[ip]) => heard[ip]
        /\ IsPending(entry[ip]) \/ IsTimedOut(entry[ip]) => ~heard[ip]

(* A call that waits is in the list, once.                                 *)
CallsAreInLine ==
    /\ \A i, j \in 1 .. Len(adding) : adding[i].call = adding[j].call => i = j
    /\ \A a \in Add :
          reply[a] = "waiting" <=> \E i \in 1 .. Len(adding) : adding[i].call = a

IndexAtRest == phase # "probe" => index = 0

(* A packet waits for one next hop only.                                   *)
BuffersAreApart ==
    \A x, y \in Ip : x # y => ToSet(buffer[x]) \cap ToSet(buffer[y]) = {}

Called == {a \in Add : reply[a] # "none"}

IInv ==
    /\ TypeOK
    /\ IndexAtRest
    /\ WaitersHaveAReason
    /\ PacketsKeepTheirPlace
    /\ BuffersAreApart
    /\ IsFiniteSet(Called)
    /\ AskersAgree
    /\ CallsAreInLine
    /\ HeardIsResolved

USE DEF vars, tableVars, packetVars, addressVars

-----------------------------------------------------------------------------
(* One entry of the table *)

Kinds == {"pending", "resolved", "timeout"}

LEMMA TableBounds ==
    /\ MaxRetry \in Nat /\ MaxRetry > 0
    /\ Lifetime \in Nat /\ StaleLifetime \in Nat /\ 0 < StaleLifetime
BY ArpTableAssumption DEF ArpTableAssumption

(* An entry is vacant, or of one of three kinds.                           *)
LEMMA EntryIsOfAKind ==
    ASSUME NEW e \in Entry
    PROVE  /\ e = Vacant \/ e.state \in Kinds
           /\ e # Vacant => e.age \in 0 .. StaleLifetime
           /\ IsPending(e) => e.retry \in Nat
           /\ Vacant.state \notin Kinds
BY DEF Entry, Vacant, Kinds, IsPending

LEMMA EntriesMade ==
    /\ Vacant \in Entry /\ Resolved \in Entry /\ TimedOut \in Entry
    /\ IsResolved(Resolved) /\ IsTimedOut(TimedOut)
    /\ \A n \in Nat : Pending(n) \in Entry /\ IsPending(Pending(n)) /\ Pending(n).retry = n
BY TableBounds
   DEF Entry, Vacant, Resolved, TimedOut, Pending, IsResolved, IsTimedOut, IsPending

(* A request goes out for what is unknown or asked about, and is counted.  *)
LEMMA SendRequestProperties ==
    ASSUME NEW e \in Entry
    PROVE  /\ CanSendRequest(e) <=> ~IsResolved(e) /\ ~IsTimedOut(e)
           /\ AfterSendRequest(e) \in Entry
           /\ CanSendRequest(e) => IsPending(AfterSendRequest(e))
           /\ e = Vacant => AfterSendRequest(e).retry = 0
           /\ IsPending(e) => AfterSendRequest(e).retry = e.retry + 1
           /\ ~CanSendRequest(e) => AfterSendRequest(e) = e
<1>1. CanSendRequest(e) <=> ~IsResolved(e) /\ ~IsTimedOut(e)
    BY EntryIsOfAKind
       DEF CanSendRequest, Kinds, IsResolved, IsTimedOut, IsPending, Vacant
<1>2. CASE IsPending(e)
    <2>1. AfterSendRequest(e) = Pending(e.retry + 1) /\ e.retry + 1 \in Nat /\ e # Vacant
        BY <1>2, EntryIsOfAKind DEF AfterSendRequest, IsPending, Vacant
    <2> QED
        BY <1>1, <1>2, <2>1, EntriesMade DEF CanSendRequest
<1>3. CASE e = Vacant
    <2>1. AfterSendRequest(e) = Pending(0) /\ ~IsPending(e)
        BY <1>3 DEF AfterSendRequest, IsPending, Vacant
    <2> QED
        BY <1>1, <1>3, <2>1, EntriesMade DEF CanSendRequest
<1>4. CASE ~IsPending(e) /\ e # Vacant
    BY <1>1, <1>4 DEF AfterSendRequest, CanSendRequest
<1> QED
    BY <1>2, <1>3, <1>4

(* What request says of an entry, and what it makes of it.                 *)
LEMMA RequestProperties ==
    ASSUME NEW e \in Entry
    PROVE  /\ AfterRequest(e) \in Entry
           /\ RequestState(e) = "PendingWait" => IsPending(e) /\ AfterRequest(e) = e
           /\ RequestState(e) = "PendingRetry" =>
                 \/ e = Vacant /\ AfterRequest(e) = Pending(0)
                 \/ IsPending(e) /\ e.retry < MaxRetry /\ AfterRequest(e) = e
           /\ RequestState(e) = "Timeout" =>
                 (IsPending(e) \/ IsTimedOut(e)) /\ IsTimedOut(AfterRequest(e))
           /\ RequestState(e) \in {"Resolved", "ResolvedStale"} =>
                 IsResolved(e) /\ AfterRequest(e) = e
           /\ RequestState(e) = "Restart" =>
                 (IsResolved(e) \/ IsTimedOut(e)) /\ AfterRequest(e) = Vacant
<1>1. CASE e = Vacant
    <2>1. ~IsPending(e) /\ ~IsTimedOut(e) /\ ~IsResolved(e) /\ ~Expired(e)
        BY <1>1 DEF IsPending, IsTimedOut, IsResolved, Vacant, Expired
    <2>2. RequestState(e) = "PendingRetry"
        BY <1>1, <2>1 DEF RequestState
    <2>3. AfterRequest(e) = Pending(0)
        BY <1>1, <2>1, <2>2 DEF AfterRequest
    <2> QED
        BY <1>1, <2>2, <2>3, EntriesMade
<1>2. CASE IsPending(e)
    <2>1. e # Vacant /\ ~IsTimedOut(e) /\ ~IsResolved(e) /\ e.retry \in Nat
        BY <1>2, EntryIsOfAKind DEF IsPending, IsTimedOut, IsResolved, Vacant
    <2>2. CASE ~Expired(e)
        BY <1>2, <2>1, <2>2 DEF RequestState, AfterRequest
    <2>3. CASE Expired(e) /\ ~RetriesSpent(e)
        <3>1. e.retry < MaxRetry
            BY <2>1, <2>3, TableBounds DEF RetriesSpent
        <3> QED
            BY <1>2, <2>1, <2>3, <3>1 DEF RequestState, AfterRequest
    <2>4. CASE Expired(e) /\ RetriesSpent(e)
        BY <1>2, <2>1, <2>4, EntriesMade DEF RequestState, AfterRequest
    <2> QED
        BY <2>2, <2>3, <2>4
<1>3. CASE IsTimedOut(e)
    <2>1. e # Vacant /\ ~IsPending(e) /\ ~IsResolved(e) /\ ~Expired(e)
        BY <1>3 DEF IsPending, IsTimedOut, IsResolved, Vacant, Expired
    <2> QED
        BY <1>3, <2>1, EntriesMade DEF RequestState, AfterRequest
<1>4. CASE IsResolved(e)
    <2>1. e # Vacant /\ ~IsPending(e) /\ ~IsTimedOut(e) /\ ~Expired(e)
        BY <1>4 DEF IsPending, IsTimedOut, IsResolved, Vacant, Expired
    <2> QED
        BY <1>4, <2>1, EntriesMade DEF RequestState, AfterRequest
<1> QED
    BY <1>1, <1>2, <1>3, <1>4, EntryIsOfAKind DEF Kinds, IsPending, IsTimedOut, IsResolved

(* An entry that only gets older stays of its kind, with its count.        *)
Alike(e, f) == f.state = e.state /\ (IsPending(e) => f.retry = e.retry)

LEMMA OlderProperties ==
    ASSUME NEW e \in Entry
    PROVE  Older(e) \in Entry /\ Alike(e, Older(e))
<1>1. CASE e = Vacant \/ e.age = StaleLifetime
    BY <1>1 DEF Older, Alike
<1>2. CASE e # Vacant /\ e.age # StaleLifetime
    <2>1. e.age + 1 \in 0 .. StaleLifetime
        BY <1>2, EntryIsOfAKind, TableBounds
    <2>2. Older(e) = [e EXCEPT !.age = e.age + 1]
        BY <1>2 DEF Older
    <2> QED
        BY <1>2, <2>1, <2>2 DEF Entry, Alike, IsPending, Vacant
<1> QED
    BY <1>1, <1>2

-----------------------------------------------------------------------------
(* Parts of sequences *)

LEMMA PickedProperties ==
    ASSUME NEW S, NEW s \in Seq(S), NEW places \in SUBSET (1 .. Len(s)),
           NEW at \in Ascending(places)
    PROVE  /\ Picked(s, at) \in Seq(S) /\ Len(Picked(s, at)) \in Nat
           /\ \A k \in 1 .. Len(Picked(s, at)) :
                 at[k] \in places /\ Picked(s, at)[k] = s[at[k]]
           /\ \A j, k \in 1 .. Len(Picked(s, at)) : j < k => at[j] < at[k]
           /\ \A place \in places : \E k \in 1 .. Len(Picked(s, at)) : at[k] = place
<1>1. Len(s) \in Nat
    BY LenProperties
<1>2. IsFiniteSet(places)
    <2>1. IsFiniteSet(1 .. Len(s))
        BY <1>1, FS_Interval
    <2> QED
        BY <2>1, FS_Subset
<1> DEFINE n == Cardinality(places)
<1>3. n \in Nat
    BY <1>2, FS_CardinalityType
<1>4. /\ at \in [1 .. n -> places]
      /\ \A place \in places : \E k \in 1 .. n : at[k] = place
      /\ \A j, k \in 1 .. n : j < k => at[j] < at[k]
    BY DEF Ascending
<1> HIDE DEF n
<1>5. \A k \in 1 .. n : s[at[k]] \in S
    <2> SUFFICES ASSUME NEW k \in 1 .. n PROVE s[at[k]] \in S
        OBVIOUS
    <2>1. at[k] \in 1 .. Len(s)
        BY <1>4
    <2> QED
        BY <2>1, ElementOfSeq
<1>6. Picked(s, at) = [k \in 1 .. n |-> s[at[k]]]
    BY <1>4 DEF Picked
<1>7. Picked(s, at) \in [1 .. n -> S]
    BY <1>5, <1>6
<1>8. Picked(s, at) \in Seq(S) /\ Len(Picked(s, at)) = n
    <2>1. Picked(s, at) \in Seq(S)
        BY <1>3, <1>7, SeqDef
    <2>2. DOMAIN Picked(s, at) = 1 .. n /\ DOMAIN Picked(s, at) = 1 .. Len(Picked(s, at))
        BY <1>7, <2>1, LenProperties
    <2>3. Len(Picked(s, at)) \in Nat
        BY <2>1, LenProperties
    <2> QED
        BY <1>3, <2>1, <2>2, <2>3
<1> QED
    BY <1>3, <1>4, <1>6, <1>8

LEMMA RemoveAtProperties ==
    ASSUME NEW S, NEW s \in Seq(S), NEW i \in 1 .. Len(s)
    PROVE  /\ RemoveAt(s, i) \in Seq(S) /\ Len(RemoveAt(s, i)) = Len(s) - 1
           /\ \A k \in 1 .. Len(s) - 1 : RemoveAt(s, i)[k] = IF k < i THEN s[k] ELSE s[k + 1]
<1>1. Len(s) \in Nat /\ i \in Nat /\ \A k \in 1 .. Len(s) : s[k] \in S
    BY LenProperties, ElementOfSeq
<1> DEFINE front == SubSeq(s, 1, i - 1)
           back == SubSeq(s, i + 1, Len(s))
<1>2. /\ front \in Seq(S) /\ Len(front) = i - 1
      /\ \A k \in 1 .. i - 1 : front[k] = s[k]
    <2>1. \A k \in 1 .. i - 1 : s[k] \in S
        BY <1>1
    <2>2. Len(front) = (IF 1 <= i - 1 THEN (i - 1) - 1 + 1 ELSE 0) /\ front \in Seq(S)
          /\ \A k \in 1 .. (i - 1) - 1 + 1 : front[k] = s[1 + k - 1]
        BY <1>1, <2>1, SubSeqProperties
    <2> HIDE DEF front
    <2> QED
        BY <1>1, <2>2
<1>3. /\ back \in Seq(S) /\ Len(back) = Len(s) - i
      /\ \A k \in 1 .. Len(s) - i : back[k] = s[i + k]
    <2>1. \A k \in i + 1 .. Len(s) : s[k] \in S
        BY <1>1
    <2>2. Len(back) = (IF i + 1 <= Len(s) THEN Len(s) - (i + 1) + 1 ELSE 0) /\ back \in Seq(S)
          /\ \A k \in 1 .. Len(s) - (i + 1) + 1 : back[k] = s[(i + 1) + k - 1]
        BY <1>1, <2>1, SubSeqProperties
    <2> HIDE DEF back
    <2>3. Len(back) = Len(s) - i /\ Len(s) - (i + 1) + 1 = Len(s) - i
        BY <1>1, <2>2
    <2>4. ASSUME NEW k \in 1 .. Len(s) - i
          PROVE  back[k] = s[i + k]
        <3>1. back[k] = s[(i + 1) + k - 1]
            BY <2>2, <2>3
        <3>2. (i + 1) + k - 1 = i + k
            BY <1>1
        <3> QED
            BY <3>1, <3>2
    <2> QED
        BY <2>2, <2>3, <2>4
<1>4. RemoveAt(s, i) = front \o back
    BY DEF RemoveAt
<1> HIDE DEF front, back
<1>5. /\ front \o back \in Seq(S) /\ Len(front \o back) = Len(front) + Len(back)
      /\ \A k \in 1 .. Len(front) + Len(back) :
            (front \o back)[k] = IF k <= Len(front) THEN front[k] ELSE back[k - Len(front)]
    BY <1>2, <1>3, ConcatProperties
<1>6. ASSUME NEW k \in 1 .. Len(s) - 1
      PROVE  RemoveAt(s, i)[k] = IF k < i THEN s[k] ELSE s[k + 1]
    <2>1. k \in 1 .. Len(front) + Len(back) /\ (k < i <=> k <= Len(front)) /\ Len(front) = i - 1
        BY <1>1, <1>2, <1>3
    <2>2. CASE k < i
        BY <1>1, <1>2, <1>4, <1>5, <2>1, <2>2
    <2>3. CASE ~(k < i)
        <3>1. k - Len(front) \in 1 .. Len(s) - i /\ i + (k - Len(front)) = k + 1
            BY <1>1, <2>1, <2>3
        <3> QED
            BY <1>3, <1>4, <1>5, <2>1, <2>3, <3>1
    <2> QED
        BY <2>2, <2>3
<1> QED
    BY <1>1, <1>2, <1>3, <1>4, <1>5, <1>6

-----------------------------------------------------------------------------
(* The shapes of the state, by the parts of the worker they belong to *)

LoopShapes ==
    /\ phase \in {"control", "probe", "recv", "timers", "ping"}
    /\ todo \subseteq Ip
    /\ arps \in 0 .. MaxArps
    /\ asked \subseteq Ip

TableShapes == entry \in [Ip -> Entry] /\ heard \in [Ip -> BOOLEAN]

CallShapes ==
    /\ index \in Nat
    /\ index <= Len(adding)
    /\ adding \in Seq([addr : Ip, call : Add])
    /\ reply \in [Add -> {"none", "waiting"} \cup Verdict]
    /\ ours \in [Ip -> Nat]

PacketShapes ==
    /\ buffer \in [Ip -> Seq(Packet)]
    /\ \A ip \in Ip : Len(buffer[ip]) <= MaxBuffer
    /\ sentTo \in [Ip -> Seq(Packet)]
    /\ failed \subseteq Packet
    /\ packets \in 0 .. MaxPackets

LEMMA TypeIsItsParts ==
    /\ TypeOK <=> LoopShapes /\ TableShapes /\ CallShapes /\ PacketShapes
    /\ TypeOK' <=> LoopShapes' /\ TableShapes' /\ CallShapes' /\ PacketShapes'
BY DEF TypeOK, LoopShapes, TableShapes, CallShapes, PacketShapes

LEMMA Bounds == MaxBuffer \in Nat /\ MaxPackets \in Nat /\ MaxArps \in Nat
BY ResolverAssumption DEF ResolverAssumption

LEMMA CandidateIsInLine ==
    ASSUME TypeOK, index > 0
    PROVE  index \in 1 .. Len(adding) /\ Candidate \in Ip /\ Caller \in Add
<1>1. adding \in Seq([addr : Ip, call : Add]) /\ index \in 1 .. Len(adding)
    <2>1. adding \in Seq([addr : Ip, call : Add]) /\ index \in Nat /\ index <= Len(adding)
        BY DEF TypeOK
    <2>2. Len(adding) \in Nat
        BY <2>1, LenProperties
    <2> QED
        BY <2>1, <2>2
<1>2. adding[index] \in [addr : Ip, call : Add]
    BY <1>1, ElementOfSeq
<1> QED
    BY <1>1, <1>2 DEF Candidate, Caller

-----------------------------------------------------------------------------
(* What a step does to the entry of an address *)

Keeps(ip) == Alike(entry[ip], entry'[ip]) /\ heard'[ip] = heard[ip]

(* It is asked about (again): within the retries, or for another call.     *)
IsAsked(ip) ==
    /\ IsPending(entry'[ip]) /\ ~heard'[ip]
    /\ \/ entry'[ip].retry <= MaxRetry
       \/ /\ IsPending(entry[ip]) /\ entry'[ip].retry = entry[ip].retry + 1
          /\ \E a \in Add, other \in Ip : AddAddress(a, other)

TimesOut(ip) ==
    /\ IsPending(entry[ip]) /\ IsTimedOut(entry'[ip]) /\ heard'[ip] = heard[ip]
    /\ phase = "timers" => ip \notin todo'

(* ARP is heard from it; what waits for it goes, unless it is unknown.     *)
IsHeard(ip) ==
    /\ phase = "recv" /\ heard'[ip]
    /\ \/ IsResolved(entry'[ip]) /\ buffer'[ip] = <<>>
       \/ entry[ip] = Vacant /\ entry'[ip] = Vacant

EntryChange == \A ip \in Ip : Keeps(ip) \/ IsAsked(ip) \/ TimesOut(ip) \/ IsHeard(ip)

LEMMA SendRequestStep ==
    ASSUME TableShapes, NEW ip \in Ip, NEW e \in Entry, NEW room, SendArpRequest(ip, e, room)
    PROVE  /\ TableShapes'
           /\ \A other \in Ip \ {ip} : Keeps(other)
           /\ entry'[ip] = AfterSendRequest(e)
           /\ CanSendRequest(e) => IsPending(entry'[ip]) /\ ~heard'[ip]
           /\ ~CanSendRequest(e) => entry'[ip] = e /\ heard'[ip] = heard[ip]
           /\ asked' \subseteq Ip
<1>1. /\ entry' = [entry EXCEPT ![ip] = AfterSendRequest(e)]
      /\ heard' = [heard EXCEPT ![ip] = heard[ip] /\ ~CanSendRequest(e)]
      /\ asked' \subseteq Ip
    BY DEF SendArpRequest, TableShapes
<1>2. AfterSendRequest(e) \in Entry
    BY SendRequestProperties
<1>3. entry' \in [Ip -> Entry] /\ entry'[ip] = AfterSendRequest(e)
      /\ \A other \in Ip \ {ip} : entry'[other] = entry[other]
    BY <1>1, <1>2 DEF TableShapes
<1>4. heard' \in [Ip -> BOOLEAN] /\ (heard'[ip] <=> heard[ip] /\ ~CanSendRequest(e))
      /\ \A other \in Ip \ {ip} : heard'[other] = heard[other]
    BY <1>1 DEF TableShapes
<1>5. CanSendRequest(e) => IsPending(entry'[ip]) /\ ~heard'[ip]
    BY <1>3, <1>4, SendRequestProperties
<1>6. ~CanSendRequest(e) => entry'[ip] = e /\ heard'[ip] = heard[ip]
    BY <1>3, <1>4, SendRequestProperties DEF TableShapes
<1> QED
    BY <1>1, <1>3, <1>4, <1>5, <1>6 DEF TableShapes, Keeps, Alike

(* A request after what request said of the entry.                         *)
LEMMA AskStep ==
    ASSUME TableShapes, NEW ip \in Ip, NEW room,
           RequestState(entry[ip]) \in {"PendingRetry", "ResolvedStale", "Restart"},
           SendArpRequest(ip, AfterRequest(entry[ip]), room)
    PROVE  /\ TableShapes' /\ asked' \subseteq Ip
           /\ \A other \in Ip : Keeps(other) \/ IsAsked(other)
           /\ RequestState(entry[ip]) # "ResolvedStale" => IsPending(entry'[ip])
<1>1. PICK e \in Entry : e = AfterRequest(entry[ip])
    BY RequestProperties DEF TableShapes
<1>2. entry[ip] \in Entry
    BY DEF TableShapes
<1>3. /\ TableShapes' /\ asked' \subseteq Ip
      /\ \A other \in Ip \ {ip} : Keeps(other)
      /\ entry'[ip] = AfterSendRequest(e)
      /\ CanSendRequest(e) => IsPending(entry'[ip]) /\ ~heard'[ip]
      /\ ~CanSendRequest(e) => entry'[ip] = e /\ heard'[ip] = heard[ip]
    BY <1>1, SendRequestStep
<1>4. CASE RequestState(entry[ip]) = "ResolvedStale"
    <2>1. IsResolved(e) /\ e = entry[ip]
        BY <1>1, <1>2, <1>4, RequestProperties
    <2> QED
        BY <1>3, <1>4, <2>1, SendRequestProperties DEF Keeps, Alike
<1>5. CASE RequestState(entry[ip]) = "Restart"
    <2>1. e = Vacant
        BY <1>1, <1>2, <1>5, RequestProperties
    <2> QED
        BY <1>3, <2>1, SendRequestProperties, TableBounds DEF IsAsked, CanSendRequest
<1>6. CASE RequestState(entry[ip]) = "PendingRetry"
    <2>1. IsPending(e) /\ e.retry \in Nat /\ e.retry < MaxRetry
        BY <1>1, <1>2, <1>6, RequestProperties, EntryIsOfAKind, EntriesMade, TableBounds
    <2>2. e.retry + 1 <= MaxRetry
        BY <2>1, TableBounds
    <2> QED
        BY <1>3, <2>1, <2>2, SendRequestProperties DEF IsAsked, CanSendRequest
<1> QED
    BY <1>4, <1>5, <1>6

(* What a resolution ends with, in three of the phases.                    *)
LEMMA TimeoutStep ==
    ASSUME TableShapes, NEW ip \in Ip, RequestState(entry[ip]) = "Timeout",
           entry' = [entry EXCEPT ![ip] = AfterRequest(@)], heard' = heard,
           phase = "timers" => ip \notin todo'
    PROVE  /\ TableShapes' /\ IsTimedOut(entry'[ip])
           /\ \A other \in Ip : Keeps(other) \/ TimesOut(other)
<1>1. PICK e \in Entry : e = AfterRequest(entry[ip])
    BY RequestProperties DEF TableShapes
<1>2. IsTimedOut(e) /\ (IsPending(entry[ip]) \/ IsTimedOut(entry[ip]))
    BY <1>1, RequestProperties DEF TableShapes
<1>3. entry' = [entry EXCEPT ![ip] = e]
    BY <1>1
<1>4. entry' \in [Ip -> Entry] /\ entry'[ip] = e
      /\ \A other \in Ip \ {ip} : entry'[other] = entry[other]
    BY <1>3 DEF TableShapes
<1>5. Keeps(ip) \/ TimesOut(ip)
    BY <1>2, <1>4 DEF Keeps, TimesOut, Alike, IsTimedOut, IsPending
<1> QED
    BY <1>2, <1>4, <1>5 DEF TableShapes, Keeps, Alike

LEMMA TableStep ==
    ASSUME TypeOK, Next
    PROVE  TableShapes' /\ EntryChange
<1>t. TableShapes
    BY TypeIsItsParts
<1>1. ASSUME NEW a \in Add, NEW ip \in Ip, AddAddress(a, ip)
      PROVE  TableShapes' /\ EntryChange
    <2>1. PICK room \in BOOLEAN : SendArpRequest(ip, entry[ip], room)
        BY <1>1 DEF AddAddress
    <2>2. entry[ip] \in Entry
        BY <1>t DEF TableShapes
    <2>3. /\ TableShapes' /\ \A other \in Ip \ {ip} : Keeps(other)
          /\ entry'[ip] = AfterSendRequest(entry[ip])
          /\ CanSendRequest(entry[ip]) => IsPending(entry'[ip]) /\ ~heard'[ip]
          /\ ~CanSendRequest(entry[ip]) => entry'[ip] = entry[ip] /\ heard'[ip] = heard[ip]
        BY <1>t, <2>1, <2>2, SendRequestStep
    <2>4. CASE ~CanSendRequest(entry[ip])
        BY <2>3, <2>4 DEF EntryChange, Keeps, Alike
    <2>5. CASE entry[ip] = Vacant
        BY <2>2, <2>3, <2>5, SendRequestProperties, TableBounds
           DEF EntryChange, IsAsked, CanSendRequest
    <2>6. CASE IsPending(entry[ip])
        BY <1>1, <2>2, <2>3, <2>6, SendRequestProperties DEF EntryChange, IsAsked, CanSendRequest
    <2> QED
        BY <2>4, <2>5, <2>6 DEF CanSendRequest
<1>2. CASE UNCHANGED tableVars
    BY <1>t, <1>2 DEF EntryChange, TableShapes, Keeps, Alike
<1>3. CASE ProbeAgain
    <2>1. Candidate \in Ip
        BY <1>3, CandidateIsInLine DEF ProbeAgain
    <2>2. PICK room \in BOOLEAN : SendArpRequest(Candidate, AfterRequest(entry[Candidate]), room)
        BY <1>3 DEF ProbeAgain
    <2>3. RequestState(entry[Candidate]) \in {"PendingRetry", "ResolvedStale", "Restart"}
        BY <1>3 DEF ProbeAgain
    <2> QED
        BY <1>t, <2>1, <2>2, <2>3, AskStep DEF EntryChange
<1>4. CASE ProbeTimeout
    <2>1. Candidate \in Ip
        BY <1>4, CandidateIsInLine DEF ProbeTimeout
    <2>2. /\ RequestState(entry[Candidate]) = "Timeout" /\ heard' = heard /\ phase # "timers"
          /\ entry' = [entry EXCEPT ![Candidate] = AfterRequest(@)]
        BY <1>4 DEF ProbeTimeout
    <2> QED
        BY <1>t, <2>1, <2>2, TimeoutStep DEF EntryChange
<1>5. ASSUME NEW source \in Ip, NEW target \in Ip, RecvArp(source, target)
      PROVE  TableShapes' /\ EntryChange
    <2>1. /\ phase = "recv" /\ heard' = [heard EXCEPT ![source] = TRUE]
          /\ \/ entry' = [entry EXCEPT ![source] = Resolved]
                /\ buffer' = [buffer EXCEPT ![source] = <<>>]
             \/ entry' = entry /\ entry[source] = Vacant
        BY <1>5 DEF RecvArp, Learns
    <2>2. buffer \in [Ip -> Seq(Packet)]
        BY DEF TypeOK
    <2>3. heard' \in [Ip -> BOOLEAN] /\ heard'[source]
          /\ \A other \in Ip \ {source} : heard'[other] = heard[other]
        BY <1>t, <2>1 DEF TableShapes
    <2>4. entry' \in [Ip -> Entry] /\ IsHeard(source)
          /\ \A other \in Ip \ {source} : entry'[other] = entry[other]
        BY <1>t, <2>1, <2>2, <2>3, EntriesMade DEF TableShapes, IsHeard
    <2> QED
        BY <2>3, <2>4 DEF TableShapes, EntryChange, Keeps, Alike
<1>6. ASSUME NEW hop \in Ip, SendUnresolved(hop)
      PROVE  TableShapes' /\ EntryChange
    <2>1. CASE RequestState(entry[hop]) = "PendingWait"
        <3>1. entry' = [entry EXCEPT ![hop] = AfterRequest(entry[hop])] /\ heard' = heard
            BY <1>6, <2>1 DEF SendUnresolved
        <3>2. AfterRequest(entry[hop]) = entry[hop]
            BY <1>t, <2>1, RequestProperties DEF TableShapes
        <3> QED
            BY <1>t, <3>1, <3>2 DEF TableShapes, EntryChange, Keeps, Alike
    <2>2. CASE RequestState(entry[hop]) # "PendingWait"
        <3>1. RequestState(entry[hop]) \in {"PendingRetry", "ResolvedStale", "Restart"}
              /\ \E room \in BOOLEAN : SendArpRequest(hop, AfterRequest(entry[hop]), room)
            BY <1>6, <2>2 DEF SendUnresolved
        <3> QED
            BY <1>t, <3>1, AskStep DEF EntryChange
    <2> QED
        BY <2>1, <2>2
<1>7. ASSUME NEW hop \in Ip, SendResolved(hop)
      PROVE  TableShapes' /\ EntryChange
    <2>1. \/ UNCHANGED tableVars
          \/ /\ RequestState(entry[hop]) = "ResolvedStale"
             /\ \E room \in BOOLEAN : SendArpRequest(hop, AfterRequest(entry[hop]), room)
        BY <1>7 DEF SendResolved
    <2> QED
        BY <1>t, <1>2, <2>1, AskStep DEF EntryChange
<1>8. ASSUME NEW hop \in Ip, SendTimeout(hop)
      PROVE  TableShapes' /\ EntryChange
    <2>1. /\ RequestState(entry[hop]) = "Timeout" /\ heard' = heard /\ phase # "timers"
          /\ entry' = [entry EXCEPT ![hop] = AfterRequest(@)]
        BY <1>8 DEF SendTimeout, MaySend
    <2> QED
        BY <1>t, <2>1, TimeoutStep DEF EntryChange
<1>9. ASSUME NEW ip \in Ip, TimerRetry(ip)
      PROVE  TableShapes' /\ EntryChange
    <2>1. RequestState(entry[ip]) \in {"PendingRetry", "ResolvedStale", "Restart"}
          /\ \E room \in BOOLEAN : SendArpRequest(ip, AfterRequest(entry[ip]), room)
        BY <1>9 DEF TimerRetry
    <2> QED
        BY <1>t, <2>1, AskStep DEF EntryChange
<1>10. ASSUME NEW ip \in Ip, TimerTimeout(ip)
       PROVE  TableShapes' /\ EntryChange
    <2>1. /\ RequestState(entry[ip]) = "Timeout" /\ heard' = heard /\ ip \notin todo'
          /\ entry' = [entry EXCEPT ![ip] = AfterRequest(@)]
        BY <1>10 DEF TimerTimeout
    <2> QED
        BY <1>t, <2>1, TimeoutStep DEF EntryChange
<1>11. ASSUME NEW aged \in SUBSET Ip, Park(aged)
       PROVE  TableShapes' /\ EntryChange
    <2>1. entry' = [ip \in Ip |-> IF ip \in aged THEN Older(entry[ip]) ELSE entry[ip]]
          /\ heard' = heard
        BY <1>11 DEF Park
    <2>2. ASSUME NEW ip \in Ip
          PROVE  entry'[ip] \in Entry /\ Alike(entry[ip], entry'[ip])
        BY <1>t, <2>1, OlderProperties DEF TableShapes, Alike
    <2> QED
        BY <1>t, <2>1, <2>2 DEF TableShapes, EntryChange, Keeps
<1>12. CASE \/ \E ip \in Ip : RemoveAddress(ip) \/ TimerWait(ip)
            \/ EndControl \/ ProbeWait \/ ProbeResolved \/ EndProbe \/ BeginTimers \/ EndTimers
    BY <1>2, <1>12
       DEF RemoveAddress, TimerWait, EndControl, ProbeWait, ProbeResolved, EndProbe,
           BeginTimers, EndTimers
<1> QED
    BY <1>1, <1>3, <1>4, <1>5, <1>6, <1>7, <1>8, <1>9, <1>10, <1>11, <1>12
       DEF Next, Control, LoopStep, Probe, SendIpv4, Timers

-----------------------------------------------------------------------------
(* The table and what the worker keeps beside it *)

LEMMA KindsAreExclusive ==
    \A e, f : Alike(e, f) =>
        /\ (IsPending(f) <=> IsPending(e)) /\ (IsResolved(f) <=> IsResolved(e))
        /\ (IsTimedOut(f) <=> IsTimedOut(e))
BY DEF Alike, IsPending, IsResolved, IsTimedOut

LEMMA HeardStep ==
    ASSUME IInv, Next
    PROVE  HeardIsResolved'
<1>1. EntryChange /\ HeardIsResolved
    BY TableStep DEF IInv
<1> SUFFICES ASSUME NEW ip \in Ip
             PROVE  /\ IsResolved(entry'[ip]) => heard'[ip]
                    /\ IsPending(entry'[ip]) \/ IsTimedOut(entry'[ip]) => ~heard'[ip]
    BY DEF HeardIsResolved
<1>2. /\ IsResolved(entry[ip]) => heard[ip]
      /\ IsPending(entry[ip]) \/ IsTimedOut(entry[ip]) => ~heard[ip]
    BY <1>1 DEF HeardIsResolved
<1>3. CASE Keeps(ip)
    BY <1>2, <1>3, KindsAreExclusive DEF Keeps
<1>4. CASE IsAsked(ip)
    BY <1>4 DEF IsAsked, IsPending, IsResolved
<1>5. CASE TimesOut(ip)
    BY <1>2, <1>5 DEF TimesOut, IsTimedOut, IsResolved
<1>6. CASE IsHeard(ip)
    BY <1>6 DEF IsHeard, IsTimedOut, IsResolved, IsPending, Vacant
<1> QED
    BY <1>1, <1>3, <1>4, <1>5, <1>6 DEF EntryChange

(* Packets begin to wait only for an address that is asked about.          *)
LEMMA WaitingBegins ==
    ASSUME TypeOK, Next, NEW ip \in Ip, buffer'[ip] # <<>>, buffer[ip] = <<>>
    PROVE  IsPending(entry'[ip])
<1>t. buffer \in [Ip -> Seq(Packet)] /\ TableShapes
    BY TypeIsItsParts DEF TypeOK
<1>1. buffer' # buffer
    OBVIOUS
<1>2. ASSUME NEW hop \in Ip, SendUnresolved(hop)
      PROVE  IsPending(entry'[ip])
    <2>1. hop = ip
        BY <1>t, <1>1, <1>2 DEF SendUnresolved
    <2>2. entry[hop] \in Entry
        BY <1>t DEF TableShapes
    <2>3. CASE RequestState(entry[hop]) = "PendingWait"
        <3>1. entry' = [entry EXCEPT ![hop] = AfterRequest(entry[hop])]
            BY <1>2, <2>3 DEF SendUnresolved
        <3>2. AfterRequest(entry[hop]) = entry[hop] /\ IsPending(entry[hop])
            BY <2>2, <2>3, RequestProperties
        <3> QED
            BY <1>t, <2>1, <3>1, <3>2 DEF TableShapes
    <2>4. CASE RequestState(entry[hop]) # "PendingWait"
        <3>1. RequestState(entry[hop]) \in {"PendingRetry", "Restart"}
              /\ \E room \in BOOLEAN : SendArpRequest(hop, AfterRequest(entry[hop]), room)
            BY <1>2, <2>4 DEF SendUnresolved
        <3>2. RequestState(entry[hop]) \in {"PendingRetry", "ResolvedStale", "Restart"}
              /\ RequestState(entry[hop]) # "ResolvedStale"
            BY <3>1
        <3>3. PICK room \in BOOLEAN : SendArpRequest(hop, AfterRequest(entry[hop]), room)
            BY <3>1
        <3>4. TableShapes
            BY <1>t
        <3>5. IsPending(entry'[hop])
            BY <3>2, <3>3, <3>4, AskStep
        <3> QED
            BY <2>1, <3>5
    <2> QED
        BY <2>3, <2>4
<1>3. ASSUME \/ \E source, target \in Ip : RecvArp(source, target)
             \/ \E hop \in Ip : TimerTimeout(hop)
      PROVE  FALSE
    BY <1>t, <1>3 DEF RecvArp, TimerTimeout
<1>4. ASSUME NEW hop \in Ip, \/ RemoveAddress(hop) \/ SendResolved(hop) \/ SendTimeout(hop)
                             \/ TimerWait(hop) \/ TimerRetry(hop)
      PROVE  FALSE
    BY <1>1, <1>4 DEF RemoveAddress, SendResolved, SendTimeout, TimerWait, TimerRetry
<1>5. ASSUME \/ \E a \in Add, hop \in Ip : AddAddress(a, hop)
             \/ \E aged \in SUBSET Ip : Park(aged)
      PROVE  FALSE
    BY <1>1, <1>5 DEF AddAddress, Park
<1>6. ASSUME \/ EndControl \/ ProbeWait \/ ProbeAgain \/ ProbeTimeout \/ ProbeResolved
             \/ EndProbe \/ BeginTimers \/ EndTimers
      PROVE  FALSE
    BY <1>1, <1>6
       DEF EndControl, ProbeWait, ProbeAgain, ProbeTimeout, ProbeResolved, EndProbe,
           BeginTimers, EndTimers
<1> QED
    BY <1>2, <1>3, <1>4, <1>5, <1>6 DEF Next, Control, LoopStep, Probe, SendIpv4, Timers

LEMMA WaitersStep ==
    ASSUME IInv, Next
    PROVE  WaitersHaveAReason'
<1>1. EntryChange /\ WaitersHaveAReason /\ TypeOK
    BY TableStep DEF IInv
<1> SUFFICES ASSUME NEW ip \in Ip, buffer'[ip] # <<>>
             PROVE  IsPending(entry'[ip]) \/ IsTimedOut(entry'[ip])
    BY DEF WaitersHaveAReason
<1>2. CASE buffer[ip] = <<>>
    BY <1>1, <1>2, WaitingBegins
<1>3. CASE buffer[ip] # <<>>
    <2>1. IsPending(entry[ip]) \/ IsTimedOut(entry[ip])
        BY <1>1, <1>3 DEF WaitersHaveAReason
    <2>2. ~IsHeard(ip)
        BY <2>1 DEF IsHeard, IsPending, IsTimedOut, Vacant
    <2> QED
        BY <1>1, <2>1, <2>2, KindsAreExclusive DEF EntryChange, Keeps, IsAsked, TimesOut
<1> QED
    BY <1>2, <1>3

LEMMA TimersStep ==
    ASSUME IInv, Next
    PROVE  TimersSeeOnlyPending'
<1>1. EntryChange /\ TimersSeeOnlyPending /\ TypeOK
    BY TableStep DEF IInv, AskersAgree
<1>2. \/ phase' # "timers"
      \/ phase = "timers" /\ todo' \subseteq todo
      \/ todo' = {ip \in Ip : IsPending(entry[ip])} /\ entry' = entry
    <2>1. ASSUME NEW ip \in Ip, TimerWait(ip) \/ TimerRetry(ip) \/ TimerTimeout(ip)
          PROVE  phase = "timers" /\ todo' \subseteq todo
        BY <2>1 DEF TimerWait, TimerRetry, TimerTimeout
    <2>2. CASE BeginTimers
        BY <2>2 DEF BeginTimers
    <2>3. ASSUME NEW ip \in Ip, \/ RemoveAddress(ip) \/ SendResolved(ip) \/ SendTimeout(ip)
                                \/ SendUnresolved(ip)
          PROVE  phase' # "timers"
        BY <2>3 DEF RemoveAddress, SendResolved, SendTimeout, SendUnresolved, MaySend
    <2>4. CASE \/ \E a \in Add, ip \in Ip : AddAddress(a, ip)
               \/ \E source, target \in Ip : RecvArp(source, target)
               \/ \E aged \in SUBSET Ip : Park(aged)
        BY <2>4 DEF AddAddress, RecvArp, Park
    <2>5. CASE EndControl \/ ProbeWait \/ ProbeAgain \/ ProbeTimeout \/ ProbeResolved
               \/ EndProbe \/ EndTimers
        BY <2>5
           DEF EndControl, ProbeWait, ProbeAgain, ProbeTimeout, ProbeResolved, EndProbe, EndTimers
    <2> QED
        BY <2>1, <2>2, <2>3, <2>4, <2>5 DEF Next, Control, LoopStep, Probe, SendIpv4, Timers
<1>3. ASSUME phase = "timers", phase' = "timers", todo' \subseteq todo
      PROVE  TimersSeeOnlyPending'
    <2> SUFFICES ASSUME NEW ip \in todo' PROVE IsPending(entry'[ip])
        BY DEF TimersSeeOnlyPending
    <2>1. ip \in Ip /\ IsPending(entry[ip])
        BY <1>1, <1>3 DEF TimersSeeOnlyPending, TypeOK
    <2>2. ~TimesOut(ip) /\ ~IsHeard(ip)
        BY <1>3 DEF TimesOut, IsHeard
    <2> QED
        BY <1>1, <2>1, <2>2, KindsAreExclusive DEF EntryChange, Keeps, IsAsked
<1>4. ASSUME todo' = {ip \in Ip : IsPending(entry[ip])}, entry' = entry
      PROVE  TimersSeeOnlyPending'
    BY <1>4 DEF TimersSeeOnlyPending
<1> QED
    BY <1>2, <1>3, <1>4 DEF TimersSeeOnlyPending

-----------------------------------------------------------------------------
(* The calls and their list *)

(* Which of the calls a step answers or takes.                             *)
Settles(verdict) ==
    /\ index > 0 /\ index' = index - 1 /\ Answer(verdict)

LEMMA CallsInBrief ==
    ASSUME Next
    PROVE  \/ /\ phase' = "probe" /\ UNCHANGED <<adding, reply>>
              /\ \/ index > 0 /\ index' = index - 1
                 \/ index' = Len(adding)
           \/ phase' = "probe" /\ \E verdict \in Verdict : Settles(verdict)
           \/ /\ phase' # "probe" /\ UNCHANGED index /\ (phase # "probe" \/ index = 0)
              /\ \/ UNCHANGED <<adding, reply>>
                 \/ \E a \in Add, ip \in Ip : AddAddress(a, ip)
                 \/ \E ip \in Ip : RemoveAddress(ip)
<1>1. CASE EndControl \/ ProbeWait \/ ProbeAgain \/ ProbeTimeout \/ ProbeResolved
    BY <1>1
       DEF EndControl, ProbeWait, ProbeAgain, ProbeTimeout, ProbeResolved, Settles, Verdict
<1>2. ASSUME NEW ip \in Ip, \/ SendResolved(ip) \/ SendTimeout(ip) \/ SendUnresolved(ip)
                            \/ TimerWait(ip) \/ TimerRetry(ip) \/ TimerTimeout(ip)
      PROVE  UNCHANGED <<phase, index, adding, reply>> /\ phase # "probe"
    BY <1>2
       DEF SendResolved, SendTimeout, SendUnresolved, MaySend, TimerWait, TimerRetry,
           TimerTimeout
<1>3. CASE \/ \E source, target \in Ip : RecvArp(source, target)
           \/ \E aged \in SUBSET Ip : Park(aged)
           \/ EndProbe \/ BeginTimers \/ EndTimers
    BY <1>3 DEF RecvArp, Park, EndProbe, BeginTimers, EndTimers
<1>4. CASE \/ \E a \in Add, ip \in Ip : AddAddress(a, ip)
           \/ \E ip \in Ip : RemoveAddress(ip)
    BY <1>4 DEF AddAddress, RemoveAddress
<1> QED
    BY <1>1, <1>2, <1>3, <1>4 DEF Next, Control, LoopStep, Probe, SendIpv4, Timers

Line == Seq([addr : Ip, call : Add])

(* An answer takes its call out of the list, and only that one.            *)
LEMMA SettlesProperties ==
    ASSUME TypeOK, CallsAreInLine, NEW verdict \in Verdict, Settles(verdict)
    PROVE  /\ adding' \in Line /\ index' <= Len(adding') /\ index' \in Nat
           /\ Caller \in Add /\ reply[Caller] = "waiting"
           /\ reply' = [reply EXCEPT ![Caller] = verdict]
           /\ CallsAreInLine'
<1>1. /\ adding \in Line /\ Len(adding) \in Nat /\ index \in 1 .. Len(adding)
      /\ Caller = adding[index].call /\ Caller \in Add
    BY CandidateIsInLine, LenProperties DEF TypeOK, Settles, Line, Caller
<1>2. adding' = RemoveAt(adding, index) /\ reply' = [reply EXCEPT ![Caller] = verdict]
      /\ index' = index - 1
    BY DEF Settles, Answer
<1>3. /\ adding' \in Line /\ Len(adding') = Len(adding) - 1
      /\ \A k \in 1 .. Len(adding) - 1 :
            adding'[k] = IF k < index THEN adding[k] ELSE adding[k + 1]
    BY <1>1, <1>2, RemoveAtProperties DEF Line
<1>4. reply \in [Add -> {"none", "waiting"} \cup Verdict]
    BY DEF TypeOK
<1>5. reply[Caller] = "waiting"
    BY <1>1 DEF CallsAreInLine
<1>6. \A a \in Add : reply'[a] = "waiting" <=> reply[a] = "waiting" /\ a # Caller
    BY <1>2, <1>4, <1>5 DEF Verdict
<1> DEFINE Was(k) == IF k < index THEN k ELSE k + 1
<1>7. \A k \in 1 .. Len(adding') :
          /\ Was(k) \in 1 .. Len(adding) /\ Was(k) # index
          /\ adding'[k] = adding[Was(k)]
    BY <1>1, <1>3
<1>8. \A j, k \in 1 .. Len(adding') : Was(j) = Was(k) => j = k
    BY <1>1, <1>3
<1>9. ASSUME NEW i \in 1 .. Len(adding), i # index
      PROVE  \E k \in 1 .. Len(adding') : adding'[k] = adding[i]
    <2>1. CASE i < index
        BY <1>1, <1>3, <2>1
    <2>2. CASE i > index
        <3>1. i - 1 \in 1 .. Len(adding) - 1 /\ ~(i - 1 < index) /\ (i - 1) + 1 = i
            BY <1>1, <2>2
        <3> QED
            BY <1>3, <3>1
    <2> QED
        BY <1>1, <1>9, <2>1, <2>2
<1> HIDE DEF Was
<1>10. \A j, k \in 1 .. Len(adding') : adding'[j].call = adding'[k].call => j = k
    BY <1>7, <1>8 DEF CallsAreInLine
<1>11. ASSUME NEW a \in Add
       PROVE  reply'[a] = "waiting" <=> \E k \in 1 .. Len(adding') : adding'[k].call = a
    <2>1. ASSUME reply'[a] = "waiting"
          PROVE  \E k \in 1 .. Len(adding') : adding'[k].call = a
        <3>1. PICK i \in 1 .. Len(adding) : adding[i].call = a
            BY <1>6, <2>1 DEF CallsAreInLine
        <3>2. i # index
            BY <1>1, <1>6, <2>1, <3>1
        <3> QED
            BY <1>9, <3>1, <3>2
    <2>2. ASSUME NEW k \in 1 .. Len(adding'), adding'[k].call = a
          PROVE  reply'[a] = "waiting"
        <3>1. Was(k) \in 1 .. Len(adding) /\ Was(k) # index /\ adding[Was(k)].call = a
            BY <1>7, <2>2
        <3>2. reply[a] = "waiting"
            BY <3>1 DEF CallsAreInLine
        <3>3. a # Caller
            BY <1>1, <3>1 DEF CallsAreInLine
        <3> QED
            BY <1>6, <3>2, <3>3
    <2> QED
        BY <2>1, <2>2
<1>12. index' \in Nat /\ index' <= Len(adding')
    BY <1>1, <1>2, <1>3
<1> QED
    BY <1>1, <1>2, <1>3, <1>5, <1>10, <1>11, <1>12 DEF CallsAreInLine

(* A removed address takes its calls out of the list, the others stay.     *)
LEMMA RemoveProperties ==
    ASSUME TypeOK, CallsAreInLine, NEW ip \in Ip, RemoveAddress(ip)
    PROVE  /\ adding' \in Line /\ phase = "control" /\ UNCHANGED index
           /\ reply' \in [Add -> {"none", "waiting"} \cup Verdict]
           /\ \A a \in Add : reply'[a] \in {reply[a], "removed"}
                             /\ (reply'[a] = "none" <=> reply[a] = "none")
           /\ CallsAreInLine'
<1> DEFINE kept == {i \in 1 .. Len(adding) : adding[i].addr # ip}
           dropped == {adding[i].call : i \in 1 .. Len(adding) \ kept}
<1>1. /\ \E at \in Ascending(kept) : adding' = Picked(adding, at)
      /\ reply' = [a \in Add |-> IF a \in dropped THEN "removed" ELSE reply[a]]
      /\ phase = "control" /\ UNCHANGED index
    BY DEF RemoveAddress
<1>2. PICK at \in Ascending(kept) : adding' = Picked(adding, at)
    BY <1>1
<1>3. adding \in Line /\ kept \in SUBSET (1 .. Len(adding))
      /\ reply \in [Add -> {"none", "waiting"} \cup Verdict]
    BY DEF TypeOK, Line
<1>4. \A i \in 1 .. Len(adding) : adding[i].call \in Add
    <2> SUFFICES ASSUME NEW i \in 1 .. Len(adding) PROVE adding[i].call \in Add
        OBVIOUS
    <2>1. adding[i] \in [addr : Ip, call : Add]
        BY <1>3, ElementOfSeq DEF Line
    <2> QED
        BY <2>1
<1>5. \A i \in 1 .. Len(adding) \ kept : adding[i].call \in dropped
    OBVIOUS
<1>6. \A a \in dropped : \E i \in 1 .. Len(adding) \ kept : adding[i].call = a
    OBVIOUS
<1> HIDE DEF kept, dropped
<1>7. /\ adding' \in Line /\ Len(adding') \in Nat
      /\ \A k \in 1 .. Len(adding') : at[k] \in kept /\ adding'[k] = adding[at[k]]
      /\ \A j, k \in 1 .. Len(adding') : j < k => at[j] < at[k]
      /\ \A i \in kept : \E k \in 1 .. Len(adding') : at[k] = i
    BY <1>2, <1>3, PickedProperties DEF Line
<1>a. \A k \in 1 .. Len(adding') : at[k] \in 1 .. Len(adding) /\ at[k] \in Nat
    <2> SUFFICES ASSUME NEW k \in 1 .. Len(adding') PROVE at[k] \in 1 .. Len(adding) /\ at[k] \in Nat
        OBVIOUS
    <2>1. at[k] \in 1 .. Len(adding)
        BY <1>3, <1>7
    <2> QED
        BY <2>1
<1>8. \A a \in dropped : reply[a] = "waiting"
    BY <1>4, <1>6 DEF CallsAreInLine
<1>9. /\ reply' \in [Add -> {"none", "waiting"} \cup Verdict]
      /\ \A a \in Add : reply'[a] \in {reply[a], "removed"}
                        /\ (reply'[a] = "none" <=> reply[a] = "none")
    BY <1>1, <1>3, <1>8 DEF Verdict
<1>10. \A a \in Add : reply'[a] = "waiting" <=> reply[a] = "waiting" /\ a \notin dropped
    BY <1>1
<1>11. \A j, k \in 1 .. Len(adding') : at[j] = at[k] => j = k
    <2> SUFFICES ASSUME NEW j \in 1 .. Len(adding'), NEW k \in 1 .. Len(adding'), at[j] = at[k]
                 PROVE  j = k
        OBVIOUS
    <2>1. at[j] \in Nat /\ at[k] \in Nat
        BY <1>a
    <2>2. ~(j < k) /\ ~(k < j)
        BY <1>7, <2>1
    <2> QED
        BY <1>7, <2>2
<1>12. \A j, k \in 1 .. Len(adding') : adding'[j].call = adding'[k].call => j = k
    <2> SUFFICES ASSUME NEW j \in 1 .. Len(adding'), NEW k \in 1 .. Len(adding'),
                        adding'[j].call = adding'[k].call
                 PROVE  j = k
        OBVIOUS
    <2>1. adding[at[j]].call = adding[at[k]].call
        BY <1>7
    <2>2. at[j] = at[k]
        BY <1>a, <2>1 DEF CallsAreInLine
    <2> QED
        BY <1>11, <2>2
<1>13. ASSUME NEW a \in Add
       PROVE  reply'[a] = "waiting" <=> \E k \in 1 .. Len(adding') : adding'[k].call = a
    <2>1. ASSUME reply'[a] = "waiting"
          PROVE  \E k \in 1 .. Len(adding') : adding'[k].call = a
        <3>1. PICK i \in 1 .. Len(adding) : adding[i].call = a
            BY <1>10, <2>1 DEF CallsAreInLine
        <3>2. i \in kept
            BY <1>5, <1>10, <2>1, <3>1
        <3> QED
            BY <1>7, <3>1, <3>2
    <2>2. ASSUME NEW k \in 1 .. Len(adding'), adding'[k].call = a
          PROVE  reply'[a] = "waiting"
        <3>1. at[k] \in kept /\ at[k] \in 1 .. Len(adding) /\ adding[at[k]].call = a
            BY <1>3, <1>7, <2>2
        <3>2. reply[a] = "waiting"
            BY <3>1 DEF CallsAreInLine
        <3>3. a \notin dropped
            BY <1>6, <3>1 DEF CallsAreInLine
        <3> QED
            BY <1>10, <3>2, <3>3
    <2> QED
        BY <2>1, <2>2
<1> QED
    BY <1>1, <1>7, <1>9, <1>12, <1>13 DEF CallsAreInLine

(* A call goes to the end of the list, or is refused at once.              *)
LEMMA AddProperties ==
    ASSUME TypeOK, CallsAreInLine, NEW a \in Add, NEW ip \in Ip, AddAddress(a, ip)
    PROVE  /\ adding' \in Line /\ Len(adding) <= Len(adding') /\ UNCHANGED index
           /\ reply[a] = "none" /\ reply'[a] \in {"waiting", "check_failed"}
           /\ reply' = [reply EXCEPT ![a] = reply'[a]]
           /\ CallsAreInLine'
<1>1. /\ reply[a] = "none" /\ UNCHANGED index
      /\ \/ reply' = [reply EXCEPT ![a] = "check_failed"] /\ adding' = adding
         \/ /\ reply' = [reply EXCEPT ![a] = "waiting"]
            /\ adding' = Append(adding, [addr |-> ip, call |-> a])
    BY DEF AddAddress
<1>2. adding \in Line /\ Len(adding) \in Nat
      /\ reply \in [Add -> {"none", "waiting"} \cup Verdict]
    BY LenProperties DEF TypeOK, Line
<1>3. CASE reply' = [reply EXCEPT ![a] = "check_failed"] /\ adding' = adding
    BY <1>1, <1>2, <1>3 DEF CallsAreInLine
<1>4. CASE /\ reply' = [reply EXCEPT ![a] = "waiting"]
           /\ adding' = Append(adding, [addr |-> ip, call |-> a])
    <2>1. PICK w \in [addr : Ip, call : Add] : w = [addr |-> ip, call |-> a]
        OBVIOUS
    <2>2. /\ adding' \in Line /\ Len(adding') = Len(adding) + 1
          /\ \A i \in 1 .. Len(adding) : adding'[i] = adding[i]
          /\ adding'[Len(adding) + 1] = w /\ w.call = a
        BY <1>2, <1>4, <2>1, AppendProperties DEF Line
    <2>3. \A i \in 1 .. Len(adding') :
             \/ i \in 1 .. Len(adding) /\ adding'[i] = adding[i]
             \/ i = Len(adding) + 1 /\ adding'[i].call = a
        BY <1>2, <2>2
    <2>4. \A i \in 1 .. Len(adding) : adding[i].call # a
        BY <1>1 DEF CallsAreInLine
    <2>5. \A i, j \in 1 .. Len(adding') : adding'[i].call = adding'[j].call => i = j
        BY <2>3, <2>4 DEF CallsAreInLine
    <2>6. Len(adding) + 1 \in 1 .. Len(adding') /\ \A i \in 1 .. Len(adding) : i \in 1 .. Len(adding')
        BY <1>2, <2>2
    <2>7. \A b \in Add : reply'[b] = IF b = a THEN "waiting" ELSE reply[b]
        BY <1>2, <1>4
    <2>8. ASSUME NEW b \in Add
          PROVE  reply'[b] = "waiting" <=> \E i \in 1 .. Len(adding') : adding'[i].call = b
        <3>1. CASE b = a
            BY <2>2, <2>6, <2>7, <3>1
        <3>2. CASE b # a
            <4>1. reply'[b] = "waiting" <=> \E i \in 1 .. Len(adding) : adding[i].call = b
                BY <2>7, <3>2 DEF CallsAreInLine
            <4> QED
                BY <2>2, <2>3, <2>6, <3>2, <4>1
        <3> QED
            BY <3>1, <3>2
    <2> QED
        BY <1>1, <1>2, <1>4, <2>2, <2>5, <2>7, <2>8 DEF CallsAreInLine
<1> QED
    BY <1>1, <1>3, <1>4

LEMMA CallsStep ==
    ASSUME IInv, Next
    PROVE  CallShapes' /\ CallsAreInLine' /\ IndexAtRest'
<1>t. /\ TypeOK /\ CallsAreInLine /\ IndexAtRest /\ adding \in Line /\ Len(adding) \in Nat
      /\ index \in Nat /\ index <= Len(adding) /\ ours \in [Ip -> Nat]
      /\ reply \in [Add -> {"none", "waiting"} \cup Verdict]
    BY LenProperties DEF IInv, TypeOK, Line
<1>1. ours' \in [Ip -> Nat]
    <2>1. CASE UNCHANGED ours
        BY <1>t, <2>1
    <2>2. CASE ProbeTimeout
        <3>1. PICK ip \in Ip : ip = Candidate
            BY <1>t, <2>2, CandidateIsInLine DEF ProbeTimeout
        <3>2. ours' = [ours EXCEPT ![ip] = @ + 1]
            BY <2>2, <3>1 DEF ProbeTimeout
        <3> QED
            BY <1>t, <3>2
    <2>3. ASSUME NEW ip \in Ip, RemoveAddress(ip)
          PROVE  ours' \in [Ip -> Nat]
        BY <1>t, <2>3 DEF RemoveAddress
    <2>4. ASSUME NEW ip \in Ip, \/ SendResolved(ip) \/ SendTimeout(ip) \/ SendUnresolved(ip)
                                \/ TimerWait(ip) \/ TimerRetry(ip) \/ TimerTimeout(ip)
          PROVE  UNCHANGED ours
        BY <2>4
           DEF SendResolved, SendTimeout, SendUnresolved, TimerWait, TimerRetry, TimerTimeout
    <2>5. CASE \/ \E source, target \in Ip : RecvArp(source, target)
               \/ \E aged \in SUBSET Ip : Park(aged)
               \/ \E a \in Add, ip \in Ip : AddAddress(a, ip)
               \/ EndControl \/ ProbeWait \/ ProbeAgain \/ ProbeResolved \/ EndProbe
               \/ BeginTimers \/ EndTimers
        BY <2>1, <2>5
           DEF RecvArp, Park, AddAddress, EndControl, ProbeWait, ProbeAgain, ProbeResolved,
               EndProbe, BeginTimers, EndTimers
    <2> QED
        BY <2>1, <2>2, <2>3, <2>4, <2>5 DEF Next, Control, LoopStep, Probe, SendIpv4, Timers
<1>2. ASSUME phase' = "probe", UNCHANGED <<adding, reply>>,
             \/ index > 0 /\ index' = index - 1
             \/ index' = Len(adding)
      PROVE  CallShapes' /\ CallsAreInLine' /\ IndexAtRest'
    BY <1>t, <1>1, <1>2 DEF CallShapes, CallsAreInLine, IndexAtRest, Line
<1>3. ASSUME phase' = "probe", NEW verdict \in Verdict, Settles(verdict)
      PROVE  CallShapes' /\ CallsAreInLine' /\ IndexAtRest'
    <2>1. /\ adding' \in Line /\ index' <= Len(adding') /\ index' \in Nat
          /\ reply' = [reply EXCEPT ![Caller] = verdict]
          /\ CallsAreInLine'
        BY <1>t, <1>3, SettlesProperties
    <2> QED
        BY <1>t, <1>1, <1>3, <2>1 DEF CallShapes, IndexAtRest, Line
<1>4. ASSUME phase' # "probe", UNCHANGED index, phase # "probe" \/ index = 0,
             adding' \in Line, reply' \in [Add -> {"none", "waiting"} \cup Verdict]
      PROVE  CallShapes' /\ IndexAtRest'
    <2>1. index' = 0 /\ Len(adding') \in Nat
        BY <1>t, <1>4, LenProperties DEF IndexAtRest, Line
    <2> QED
        BY <1>1, <1>4, <2>1 DEF CallShapes, IndexAtRest, Line
<1>5. ASSUME phase' # "probe", UNCHANGED index, phase # "probe" \/ index = 0,
             \/ UNCHANGED <<adding, reply>>
             \/ \E a \in Add, ip \in Ip : AddAddress(a, ip)
             \/ \E ip \in Ip : RemoveAddress(ip)
      PROVE  CallShapes' /\ CallsAreInLine' /\ IndexAtRest'
    <2>1. CASE UNCHANGED <<adding, reply>>
        BY <1>t, <1>4, <1>5, <2>1 DEF CallsAreInLine
    <2>2. ASSUME NEW a \in Add, NEW ip \in Ip, AddAddress(a, ip)
          PROVE  CallShapes' /\ CallsAreInLine' /\ IndexAtRest'
        <3>1. adding' \in Line /\ reply' = [reply EXCEPT ![a] = reply'[a]] /\ CallsAreInLine'
              /\ reply'[a] \in {"waiting", "check_failed"}
            BY <1>t, <2>2, AddProperties
        <3>2. reply' \in [Add -> {"none", "waiting"} \cup Verdict]
            BY <1>t, <3>1 DEF Verdict
        <3> QED
            BY <1>4, <1>5, <3>1, <3>2
    <2>3. ASSUME NEW ip \in Ip, RemoveAddress(ip)
          PROVE  CallShapes' /\ CallsAreInLine' /\ IndexAtRest'
        BY <1>t, <1>4, <1>5, <2>3, RemoveProperties
    <2> QED
        BY <1>5, <2>1, <2>2, <2>3
<1> QED
    BY <1>2, <1>3, <1>5, CallsInBrief

(* Only a further call makes one more of them; none is forgotten.          *)
LEMMA CalledStep ==
    ASSUME IInv, Next
    PROVE  /\ IsFiniteSet(Called') /\ Cardinality(Called) <= Cardinality(Called')
           /\ Cardinality(Called) \in Nat /\ Cardinality(Called') \in Nat
           /\ (\E a \in Add, ip \in Ip : AddAddress(a, ip)) =>
                 Cardinality(Called') = Cardinality(Called) + 1
<1>t. /\ TypeOK /\ CallsAreInLine /\ IsFiniteSet(Called) /\ Cardinality(Called) \in Nat
      /\ reply \in [Add -> {"none", "waiting"} \cup Verdict]
    BY FS_CardinalityType DEF IInv, TypeOK
<1>1. ASSUME NEW a \in Add, NEW ip \in Ip, AddAddress(a, ip)
      PROVE  a \notin Called /\ Called' = Called \cup {a}
    <2>1. /\ reply[a] = "none" /\ reply'[a] \in {"waiting", "check_failed"}
          /\ reply' = [reply EXCEPT ![a] = reply'[a]]
        BY <1>t, <1>1, AddProperties
    <2>2. \A b \in Add : reply'[b] # "none" <=> reply[b] # "none" \/ b = a
        BY <1>t, <2>1
    <2> QED
        BY <2>1, <2>2 DEF Called
<1>2. ASSUME ~ \E a \in Add, ip \in Ip : AddAddress(a, ip)
      PROVE  Called' = Called
    <2>1. ASSUME NEW ip \in Ip, RemoveAddress(ip)
          PROVE  Called' = Called
        <3>1. \A a \in Add : reply'[a] = "none" <=> reply[a] = "none"
            BY <1>t, <2>1, RemoveProperties
        <3> QED
            BY <3>1 DEF Called
    <2>2. ASSUME NEW verdict \in Verdict, Settles(verdict)
          PROVE  Called' = Called
        <3>1. Caller \in Add /\ reply[Caller] = "waiting"
              /\ reply' = [reply EXCEPT ![Caller] = verdict]
            BY <1>t, <2>2, SettlesProperties
        <3>2. \A a \in Add : reply'[a] = "none" <=> reply[a] = "none"
            BY <1>t, <3>1 DEF Verdict
        <3> QED
            BY <3>2 DEF Called
    <2> QED
        BY <1>2, <2>1, <2>2, CallsInBrief DEF Called
<1>3. CASE \E a \in Add, ip \in Ip : AddAddress(a, ip)
    <2>1. PICK a \in Add : a \notin Called /\ Called' = Called \cup {a}
        BY <1>1, <1>3
    <2>2. IsFiniteSet(Called') /\ Cardinality(Called') = Cardinality(Called) + 1
        BY <1>t, <2>1, FS_AddElement
    <2> QED
        BY <1>t, <2>2
<1>4. CASE ~ \E a \in Add, ip \in Ip : AddAddress(a, ip)
    BY <1>t, <1>2, <1>4
<1> QED
    BY <1>3, <1>4

LEMMA RetriesStep ==
    ASSUME IInv, Next
    PROVE  RetriesAreBounded'
<1>t. EntryChange /\ RetriesAreBounded /\ TableShapes /\ TableShapes'
    BY TableStep, TypeIsItsParts DEF IInv, AskersAgree
<1>c. /\ Cardinality(Called) \in Nat /\ Cardinality(Called') \in Nat
      /\ Cardinality(Called) <= Cardinality(Called')
      /\ (\E a \in Add, ip \in Ip : AddAddress(a, ip)) =>
            Cardinality(Called') = Cardinality(Called) + 1
    BY CalledStep
<1> SUFFICES ASSUME NEW ip \in Ip, IsPending(entry'[ip])
             PROVE  entry'[ip].retry <= MaxRetry + Cardinality(Called')
    BY DEF RetriesAreBounded, Called
<1>1. entry[ip] \in Entry /\ entry'[ip] \in Entry /\ entry'[ip].retry \in Nat
    BY <1>t, EntryIsOfAKind DEF TableShapes
<1>2. IsPending(entry[ip]) =>
         entry[ip].retry \in Nat /\ entry[ip].retry <= MaxRetry + Cardinality(Called)
    BY <1>t, <1>1, EntryIsOfAKind DEF RetriesAreBounded, Called
<1>3. CASE Keeps(ip)
    <2>1. IsPending(entry[ip]) /\ entry'[ip].retry = entry[ip].retry
        BY <1>3, KindsAreExclusive DEF Keeps, Alike
    <2> QED
        BY <1>c, <1>1, <1>2, <2>1, TableBounds
<1>4. CASE IsAsked(ip)
    <2>1. CASE entry'[ip].retry <= MaxRetry
        BY <1>c, <1>1, <2>1, TableBounds
    <2>2. CASE ~(entry'[ip].retry <= MaxRetry)
        <3>1. /\ IsPending(entry[ip]) /\ entry'[ip].retry = entry[ip].retry + 1
              /\ \E a \in Add, other \in Ip : AddAddress(a, other)
            BY <1>4, <2>2 DEF IsAsked
        <3>2. Cardinality(Called') = Cardinality(Called) + 1
            BY <1>c, <3>1
        <3> QED
            BY <1>c, <1>1, <1>2, <3>1, <3>2, TableBounds
    <2> QED
        BY <2>1, <2>2
<1>5. ~TimesOut(ip) /\ ~IsHeard(ip)
    BY DEF TimesOut, IsHeard, IsPending, IsTimedOut, IsResolved, Vacant
<1> QED
    BY <1>t, <1>3, <1>4, <1>5 DEF EntryChange

-----------------------------------------------------------------------------
(* Lines of packets *)

Increasing(s) == \A i, j \in 1 .. Len(s) : i < j => s[i] < s[j]

LEMMA PacketIsNat == \A p \in Packet : p \in Nat
BY Bounds DEF Packet

LEMMA InSequence ==
    ASSUME NEW s \in Seq(Packet)
    PROVE  /\ Len(s) \in Nat /\ ToSet(s) \subseteq Packet
           /\ \A i \in 1 .. Len(s) : s[i] \in ToSet(s)
           /\ \A p \in ToSet(s) : \E i \in 1 .. Len(s) : s[i] = p
           /\ s = <<>> => ToSet(s) = {}
<1>1. Len(s) \in Nat /\ DOMAIN s = 1 .. Len(s)
    BY LenProperties
<1>2. \A i \in 1 .. Len(s) : s[i] \in Packet
    BY ElementOfSeq
<1>3. s = <<>> => Len(s) = 0
    BY EmptySeq
<1> QED
    BY <1>1, <1>2, <1>3 DEF ToSet

LEMMA AppendToLine ==
    ASSUME NEW s \in Seq(Packet), NEW p \in Packet
    PROVE  /\ Append(s, p) \in Seq(Packet) /\ Len(Append(s, p)) = Len(s) + 1
           /\ ToSet(Append(s, p)) = ToSet(s) \cup {p}
           /\ Increasing(s) /\ (\A q \in ToSet(s) : q < p) => Increasing(Append(s, p))
<1>1. /\ Append(s, p) \in Seq(Packet) /\ Len(Append(s, p)) = Len(s) + 1
      /\ \A i \in 1 .. Len(s) : Append(s, p)[i] = s[i]
      /\ Append(s, p)[Len(s) + 1] = p
    BY AppendProperties
<1> DEFINE t == Append(s, p)
<1> HIDE DEF t
<1>2. /\ t \in Seq(Packet) /\ Len(t) = Len(s) + 1 /\ Len(s) \in Nat
      /\ \A i \in 1 .. Len(s) : t[i] = s[i]
      /\ t[Len(s) + 1] = p
    BY <1>1, LenProperties DEF t
<1>3. \A i \in 1 .. Len(t) : i \in 1 .. Len(s) \/ i = Len(t)
    BY <1>2
<1>4. \A i \in 1 .. Len(s) : i \in 1 .. Len(t)
    BY <1>2
<1>5. Len(t) \in 1 .. Len(t) /\ t[Len(t)] = p
    BY <1>2
<1>6. ToSet(t) = ToSet(s) \cup {p}
    BY <1>2, <1>3, <1>4, <1>5, InSequence
<1>7. ASSUME Increasing(s), \A q \in ToSet(s) : q < p
      PROVE  Increasing(t)
    <2> SUFFICES ASSUME NEW i \in 1 .. Len(t), NEW j \in 1 .. Len(t), i < j
                 PROVE  t[i] < t[j]
        BY DEF Increasing
    <2>1. i \in 1 .. Len(s)
        BY <1>2
    <2>2. CASE j \in 1 .. Len(s)
        BY <1>2, <1>7, <2>1, <2>2 DEF Increasing
    <2>3. CASE j = Len(t)
        BY <1>2, <1>5, <1>7, <2>1, <2>3, InSequence
    <2> QED
        BY <1>3, <2>2, <2>3
<1> QED
    BY <1>2, <1>6, <1>7 DEF t

LEMMA LineOfTwo ==
    ASSUME NEW s \in Seq(Packet), NEW t \in Seq(Packet)
    PROVE  /\ s \o t \in Seq(Packet)
           /\ ToSet(s \o t) = ToSet(s) \cup ToSet(t)
           /\ Increasing(s \o t) <=>
                 /\ Increasing(s) /\ Increasing(t)
                 /\ \A p \in ToSet(s), q \in ToSet(t) : p < q
<1> DEFINE u == s \o t
<1>1. /\ u \in Seq(Packet) /\ Len(u) = Len(s) + Len(t) /\ Len(s) \in Nat /\ Len(t) \in Nat
      /\ \A i \in 1 .. Len(s) + Len(t) : u[i] = IF i <= Len(s) THEN s[i] ELSE t[i - Len(s)]
    BY ConcatProperties, LenProperties
<1> HIDE DEF u
<1>2. \A i \in 1 .. Len(s) : i \in 1 .. Len(u) /\ u[i] = s[i]
    BY <1>1
<1>3. \A i \in 1 .. Len(t) : i + Len(s) \in 1 .. Len(u) /\ u[i + Len(s)] = t[i]
    <2> SUFFICES ASSUME NEW i \in 1 .. Len(t)
                 PROVE  i + Len(s) \in 1 .. Len(u) /\ u[i + Len(s)] = t[i]
        OBVIOUS
    <2>1. i + Len(s) \in 1 .. Len(s) + Len(t) /\ ~(i + Len(s) <= Len(s))
          /\ (i + Len(s)) - Len(s) = i
        BY <1>1
    <2> QED
        BY <1>1, <2>1
<1>4. ASSUME NEW i \in 1 .. Len(u)
      PROVE  \/ i \in 1 .. Len(s) /\ u[i] = s[i]
             \/ i - Len(s) \in 1 .. Len(t) /\ u[i] = t[i - Len(s)] /\ i > Len(s)
    BY <1>1
<1>5. ToSet(u) = ToSet(s) \cup ToSet(t)
    <2>1. ASSUME NEW p \in ToSet(u) PROVE p \in ToSet(s) \cup ToSet(t)
        BY <1>1, <1>4, InSequence
    <2>2. ASSUME NEW p \in ToSet(s) PROVE p \in ToSet(u)
        <3>1. PICK i \in 1 .. Len(s) : s[i] = p
            BY InSequence
        <3>2. i \in 1 .. Len(u) /\ u[i] = p
            BY <1>2, <3>1
        <3> QED
            BY <1>1, <3>2, InSequence
    <2>3. ASSUME NEW p \in ToSet(t) PROVE p \in ToSet(u)
        <3>1. PICK i \in 1 .. Len(t) : t[i] = p
            BY InSequence
        <3>2. i + Len(s) \in 1 .. Len(u) /\ u[i + Len(s)] = p
            BY <1>3, <3>1
        <3> QED
            BY <1>1, <3>2, InSequence
    <2> QED
        BY <2>1, <2>2, <2>3
<1>6. ASSUME Increasing(u)
      PROVE  Increasing(s) /\ Increasing(t) /\ \A p \in ToSet(s), q \in ToSet(t) : p < q
    <2>1. Increasing(s)
        BY <1>2, <1>6 DEF Increasing
    <2>2. ASSUME NEW i \in 1 .. Len(t), NEW j \in 1 .. Len(t), i < j
          PROVE  t[i] < t[j]
        <3>1. i + Len(s) < j + Len(s)
            BY <1>1, <2>2
        <3> QED
            BY <1>3, <1>6, <3>1 DEF Increasing
    <2>3. ASSUME NEW p \in ToSet(s), NEW q \in ToSet(t)
          PROVE  p < q
        <3>1. PICK i \in 1 .. Len(s) : s[i] = p
            BY InSequence
        <3>2. PICK j \in 1 .. Len(t) : t[j] = q
            BY InSequence
        <3>3. i < j + Len(s)
            BY <1>1
        <3> QED
            BY <1>2, <1>3, <1>6, <3>1, <3>2, <3>3 DEF Increasing
    <2> QED
        BY <2>1, <2>2, <2>3 DEF Increasing
<1>7. ASSUME Increasing(s), Increasing(t), \A p \in ToSet(s), q \in ToSet(t) : p < q
      PROVE  Increasing(u)
    <2> SUFFICES ASSUME NEW i \in 1 .. Len(u), NEW j \in 1 .. Len(u), i < j
                 PROVE  u[i] < u[j]
        BY DEF Increasing
    <2>1. CASE j \in 1 .. Len(s) /\ u[j] = s[j]
        <3>1. i \in 1 .. Len(s)
            BY <1>1, <2>1
        <3> QED
            BY <1>2, <1>7, <2>1, <3>1 DEF Increasing
    <2>2. CASE j - Len(s) \in 1 .. Len(t) /\ u[j] = t[j - Len(s)]
        <3>1. CASE i \in 1 .. Len(s) /\ u[i] = s[i]
            BY <1>7, <2>2, <3>1, InSequence
        <3>2. CASE i - Len(s) \in 1 .. Len(t) /\ u[i] = t[i - Len(s)]
            <4>1. i - Len(s) < j - Len(s)
                BY <1>1
            <4> QED
                BY <1>7, <2>2, <3>2, <4>1 DEF Increasing
        <3> QED
            BY <1>4, <3>1, <3>2
    <2> QED
        BY <1>4, <2>1, <2>2
<1> QED
    BY <1>1, <1>5, <1>6, <1>7 DEF u

(* What found room goes out in the order in which it waited.               *)
LEMMA PickedFromLine ==
    ASSUME NEW s \in Seq(Packet), NEW places \in SUBSET (1 .. Len(s)), NEW at \in Ascending(places)
    PROVE  /\ Picked(s, at) \in Seq(Packet)
           /\ ToSet(Picked(s, at)) = {s[i] : i \in places}
           /\ Increasing(s) => Increasing(Picked(s, at))
<1> DEFINE t == Picked(s, at)
<1>1. /\ t \in Seq(Packet) /\ Len(t) \in Nat
      /\ \A k \in 1 .. Len(t) : at[k] \in places /\ t[k] = s[at[k]]
      /\ \A j, k \in 1 .. Len(t) : j < k => at[j] < at[k]
      /\ \A place \in places : \E k \in 1 .. Len(t) : at[k] = place
    BY PickedProperties
<1> HIDE DEF t
<1>2. ToSet(t) = {s[i] : i \in places}
    <2>1. ASSUME NEW p \in ToSet(t) PROVE p \in {s[i] : i \in places}
        <3>1. PICK k \in 1 .. Len(t) : t[k] = p
            BY <1>1, InSequence
        <3> QED
            BY <1>1, <3>1
    <2>2. ASSUME NEW i \in places PROVE s[i] \in ToSet(t)
        <3>1. PICK k \in 1 .. Len(t) : at[k] = i
            BY <1>1
        <3>2. t[k] = s[i]
            BY <1>1, <3>1
        <3> QED
            BY <1>1, <3>2, InSequence
    <2> QED
        BY <2>1, <2>2
<1>3. ASSUME Increasing(s)
      PROVE  Increasing(t)
    <2> SUFFICES ASSUME NEW i \in 1 .. Len(t), NEW j \in 1 .. Len(t), i < j
                 PROVE  t[i] < t[j]
        BY DEF Increasing
    <2>1. at[i] \in 1 .. Len(s) /\ at[j] \in 1 .. Len(s) /\ at[i] < at[j]
        BY <1>1
    <2> QED
        BY <1>1, <1>3, <2>1 DEF Increasing
<1> QED
    BY <1>1, <1>2, <1>3 DEF t

-----------------------------------------------------------------------------
(* Where the packets are *)

Placed ==
    /\ \A p : p \in 1 .. packets <=>
          p \in failed \/ \E ip \in Ip : p \in ToSet(sentTo[ip]) \/ p \in ToSet(buffer[ip])
    /\ \A p : \A x, y \in Ip : p \in ToSet(sentTo[x]) => p \notin ToSet(buffer[y])
    /\ \A p \in failed : \A x \in Ip : p \notin ToSet(sentTo[x]) /\ p \notin ToSet(buffer[x])
    /\ \A p : \A x, y \in Ip : p \in ToSet(buffer[x]) /\ p \in ToSet(buffer[y]) => x = y

Ordered ==
    \A ip \in Ip :
        /\ Increasing(sentTo[ip]) /\ Increasing(buffer[ip])
        /\ \A p \in ToSet(sentTo[ip]), q \in ToSet(buffer[ip]) : p < q

LEMMA PlacedPointwise == Placed <=> EveryPacketIsSomewhere /\ BuffersAreApart
<1>1. ASSUME Placed PROVE EveryPacketIsSomewhere /\ BuffersAreApart
    BY <1>1 DEF Placed, EveryPacketIsSomewhere, BuffersAreApart
<1>2. ASSUME EveryPacketIsSomewhere, BuffersAreApart PROVE Placed
    BY <1>2 DEF Placed, EveryPacketIsSomewhere, BuffersAreApart
<1> QED
    BY <1>1, <1>2

LEMMA OrderedPointwise == PacketShapes => (Ordered <=> InOrder)
<1> SUFFICES ASSUME PacketShapes PROVE Ordered <=> InOrder
    OBVIOUS
<1>1. ASSUME NEW ip \in Ip
      PROVE  /\ Increasing(sentTo[ip] \o buffer[ip]) <=>
                   /\ Increasing(sentTo[ip]) /\ Increasing(buffer[ip])
                   /\ \A p \in ToSet(sentTo[ip]), q \in ToSet(buffer[ip]) : p < q
             /\ sentTo[ip] \o buffer[ip] \in Seq(Packet)
    <2>1. sentTo[ip] \in Seq(Packet) /\ buffer[ip] \in Seq(Packet)
        BY DEF PacketShapes
    <2> QED
        BY <2>1, LineOfTwo
<1>2. InOrder <=> \A ip \in Ip : Increasing(sentTo[ip] \o buffer[ip])
    BY DEF InOrder, Increasing
<1> QED
    BY <1>1, <1>2 DEF Ordered

LEMMA PlacedNext == (Placed <=> EveryPacketIsSomewhere /\ BuffersAreApart)'
BY PlacedPointwise, PTL

LEMMA OrderedNext == (PacketShapes => (Ordered <=> InOrder))'
BY OrderedPointwise, PTL

(* What happens to the packets: one is handed over, and reported, made to  *)
(* wait or sent at once; or those that wait for a hop go out or are         *)
(* reported, all of them.                                                  *)
HandOver(hop) ==
    /\ packets < MaxPackets /\ packets' = NewPacket
    /\ \/ failed' = failed \cup {NewPacket} /\ UNCHANGED <<buffer, sentTo>>
       \/ /\ Len(buffer[hop]) < MaxBuffer
          /\ buffer' = [buffer EXCEPT ![hop] = Append(@, NewPacket)]
          /\ UNCHANGED <<sentTo, failed>>
       \/ /\ buffer[hop] = <<>>
          /\ sentTo' = [sentTo EXCEPT ![hop] = Append(@, NewPacket)]
          /\ UNCHANGED <<buffer, failed>>

(* They leave the buffer, those in out for the network and in their order. *)
LeaveAll(hop, out) ==
    /\ Increasing(out)
    /\ ToSet(out) \subseteq ToSet(buffer[hop])
    /\ sentTo' = [sentTo EXCEPT ![hop] = @ \o out]
    /\ failed' = failed \cup (ToSet(buffer[hop]) \ ToSet(out))
    /\ buffer' = [buffer EXCEPT ![hop] = <<>>]
    /\ UNCHANGED packets

LEMMA NewPacketIsNew ==
    ASSUME TypeOK, Placed, packets < MaxPackets
    PROVE  /\ NewPacket \in Packet /\ NewPacket \notin failed
           /\ \A p : p \in 1 .. NewPacket <=> p \in 1 .. packets \/ p = NewPacket
           /\ \A ip \in Ip : \A p : p \in ToSet(sentTo[ip]) \/ p \in ToSet(buffer[ip]) =>
                 p < NewPacket /\ p # NewPacket
<1>1. packets \in Nat /\ MaxPackets \in Nat
    BY Bounds DEF TypeOK
<1>2. \A p \in 1 .. packets : p < NewPacket /\ p # NewPacket
    BY <1>1 DEF NewPacket
<1> QED
    BY <1>1, <1>2 DEF NewPacket, Placed, Packet

LEMMA HandOverStep ==
    ASSUME TypeOK, Placed, Ordered, NEW hop \in Ip, HandOver(hop)
    PROVE  PacketShapes' /\ Placed' /\ Ordered'
<1>t. PacketShapes
    BY TypeIsItsParts
<1>1. packets < MaxPackets /\ packets' = NewPacket
    BY DEF HandOver
<1>2. /\ NewPacket \in Packet /\ NewPacket \notin failed
      /\ \A p : p \in 1 .. NewPacket <=> p \in 1 .. packets \/ p = NewPacket
      /\ \A ip \in Ip : \A p : p \in ToSet(sentTo[ip]) \/ p \in ToSet(buffer[ip]) =>
            p < NewPacket /\ p # NewPacket
    BY <1>1, NewPacketIsNew
<1>3. packets' \in 0 .. MaxPackets
    BY <1>1, <1>2, Bounds DEF Packet
<1> DEFINE new == NewPacket
<1>4. packets' = new /\ new \in Packet
    BY <1>1, <1>2
<1> HIDE DEF new
<1>5. CASE failed' = failed \cup {NewPacket} /\ UNCHANGED <<buffer, sentTo>>
    <2>1. PacketShapes'
        BY <1>t, <1>2, <1>3, <1>5 DEF PacketShapes
    <2>2. Placed'
        BY <1>1, <1>2, <1>5 DEF Placed
    <2>3. Ordered'
        BY <1>5 DEF Ordered
    <2> QED
        BY <2>1, <2>2, <2>3
<1>6. CASE /\ Len(buffer[hop]) < MaxBuffer
           /\ buffer' = [buffer EXCEPT ![hop] = Append(@, NewPacket)]
           /\ UNCHANGED <<sentTo, failed>>
    <2>1. buffer[hop] \in Seq(Packet) /\ Len(buffer[hop]) \in Nat
        BY <1>t, LenProperties DEF PacketShapes
    <2>2. PICK line \in Seq(Packet) : line = Append(buffer[hop], NewPacket)
        BY <1>2, <2>1, AppendToLine
    <2>3. /\ Len(line) = Len(buffer[hop]) + 1
          /\ ToSet(line) = ToSet(buffer[hop]) \cup {NewPacket}
          /\ Increasing(buffer[hop]) => Increasing(line)
        BY <1>2, <2>1, <2>2, AppendToLine
    <2>4. buffer' \in [Ip -> Seq(Packet)] /\ buffer'[hop] = line
          /\ \A ip \in Ip \ {hop} : buffer'[ip] = buffer[ip]
        BY <1>t, <1>6, <2>2 DEF PacketShapes
    <2>5. Len(line) <= MaxBuffer
        BY <1>6, <2>1, <2>3, Bounds
    <2>6. PacketShapes'
        BY <1>t, <1>3, <1>6, <2>4, <2>5 DEF PacketShapes
    <2>7. Placed'
        <3>1. ASSUME NEW ip \in Ip, NEW p
              PROVE  p \in ToSet(buffer'[ip]) <=>
                        p \in ToSet(buffer[ip]) \/ (ip = hop /\ p = NewPacket)
            <4>1. CASE ip = hop
                BY <2>3, <2>4, <4>1
            <4>2. CASE ip # hop
                BY <2>4, <4>2
            <4> QED
                BY <4>1, <4>2
        <3>2. UNCHANGED <<sentTo, failed>>
            BY <1>6
        <3>3. \A p : p \in 1 .. packets' <=> p \in 1 .. packets \/ p = NewPacket
            BY <1>1, <1>2
        <3>4. \A p : p \in 1 .. packets' <=>
                 p \in failed'
                 \/ \E ip \in Ip : p \in ToSet(sentTo'[ip]) \/ p \in ToSet(buffer'[ip])
            BY <3>1, <3>2, <3>3 DEF Placed
        <3>5. \A p : \A x, y \in Ip : p \in ToSet(sentTo'[x]) => p \notin ToSet(buffer'[y])
            BY <1>2, <3>1, <3>2 DEF Placed
        <3>6. \A p \in failed' : \A x \in Ip :
                 p \notin ToSet(sentTo'[x]) /\ p \notin ToSet(buffer'[x])
            BY <1>2, <3>1, <3>2 DEF Placed
        <3>7. \A p : \A x, y \in Ip : p \in ToSet(buffer'[x]) /\ p \in ToSet(buffer'[y]) => x = y
            BY <1>2, <3>1, <3>2 DEF Placed
        <3> QED
            BY <3>4, <3>5, <3>6, <3>7 DEF Placed
    <2>8. Ordered'
        BY <1>2, <1>6, <2>3, <2>4 DEF Ordered
    <2> QED
        BY <2>6, <2>7, <2>8
<1>7. CASE /\ buffer[hop] = <<>>
           /\ sentTo' = [sentTo EXCEPT ![hop] = Append(@, NewPacket)]
           /\ UNCHANGED <<buffer, failed>>
    <2>1. sentTo[hop] \in Seq(Packet) /\ buffer[hop] \in Seq(Packet) /\ ToSet(buffer[hop]) = {}
        BY <1>t, <1>7, InSequence DEF PacketShapes
    <2>2. PICK line \in Seq(Packet) : line = Append(sentTo[hop], NewPacket)
        BY <1>2, <2>1, AppendToLine
    <2>3. /\ ToSet(line) = ToSet(sentTo[hop]) \cup {NewPacket}
          /\ Increasing(sentTo[hop]) => Increasing(line)
        BY <1>2, <2>1, <2>2, AppendToLine
    <2>4. sentTo' \in [Ip -> Seq(Packet)] /\ sentTo'[hop] = line
          /\ \A ip \in Ip \ {hop} : sentTo'[ip] = sentTo[ip]
        BY <1>t, <1>7, <2>2 DEF PacketShapes
    <2>6. PacketShapes'
        BY <1>t, <1>3, <1>7, <2>4 DEF PacketShapes
    <2>7. Placed'
        <3>1. ASSUME NEW ip \in Ip, NEW p
              PROVE  p \in ToSet(sentTo'[ip]) <=>
                        p \in ToSet(sentTo[ip]) \/ (ip = hop /\ p = NewPacket)
            <4>1. CASE ip = hop
                BY <2>3, <2>4, <4>1
            <4>2. CASE ip # hop
                BY <2>4, <4>2
            <4> QED
                BY <4>1, <4>2
        <3>2. UNCHANGED <<buffer, failed>>
            BY <1>7
        <3>3. \A p : p \in 1 .. packets' <=> p \in 1 .. packets \/ p = NewPacket
            BY <1>1, <1>2
        <3>4. \A p : p \in 1 .. packets' <=>
                 p \in failed'
                 \/ \E ip \in Ip : p \in ToSet(sentTo'[ip]) \/ p \in ToSet(buffer'[ip])
            BY <3>1, <3>2, <3>3 DEF Placed
        <3>5. \A p : \A x, y \in Ip : p \in ToSet(sentTo'[x]) => p \notin ToSet(buffer'[y])
            BY <1>2, <3>1, <3>2 DEF Placed
        <3>6. \A p \in failed' : \A x \in Ip :
                 p \notin ToSet(sentTo'[x]) /\ p \notin ToSet(buffer'[x])
            BY <1>2, <3>1, <3>2 DEF Placed
        <3>7. \A p : \A x, y \in Ip : p \in ToSet(buffer'[x]) /\ p \in ToSet(buffer'[y]) => x = y
            BY <1>2, <3>1, <3>2 DEF Placed
        <3> QED
            BY <3>4, <3>5, <3>6, <3>7 DEF Placed
    <2>8. Ordered'
        BY <1>2, <1>7, <2>1, <2>3, <2>4 DEF Ordered
    <2> QED
        BY <2>6, <2>7, <2>8
<1> QED
    BY <1>5, <1>6, <1>7 DEF HandOver

LEMMA LeaveAllStep ==
    ASSUME TypeOK, Placed, Ordered, NEW hop \in Ip, NEW out \in Seq(Packet), LeaveAll(hop, out)
    PROVE  PacketShapes' /\ Placed' /\ Ordered'
<1>t. PacketShapes
    BY TypeIsItsParts
<1>1. /\ Increasing(out) /\ ToSet(out) \subseteq ToSet(buffer[hop])
      /\ sentTo' = [sentTo EXCEPT ![hop] = @ \o out]
      /\ failed' = failed \cup (ToSet(buffer[hop]) \ ToSet(out))
      /\ buffer' = [buffer EXCEPT ![hop] = <<>>]
      /\ UNCHANGED packets
    BY DEF LeaveAll
<1>2. sentTo[hop] \in Seq(Packet) /\ buffer[hop] \in Seq(Packet) /\ <<>> \in Seq(Packet)
      /\ Len(<<>>) = 0 /\ ToSet(<<>>) = {} /\ Increasing(<<>>)
    BY <1>t, EmptySeq, InSequence DEF PacketShapes, Increasing
<1>3. PICK line \in Seq(Packet) : line = sentTo[hop] \o out
    BY <1>2, LineOfTwo
<1>4. /\ ToSet(line) = ToSet(sentTo[hop]) \cup ToSet(out)
      /\ Increasing(line) <=> /\ Increasing(sentTo[hop]) /\ Increasing(out)
                              /\ \A p \in ToSet(sentTo[hop]), q \in ToSet(out) : p < q
    BY <1>2, <1>3, LineOfTwo
<1>5. sentTo' \in [Ip -> Seq(Packet)] /\ sentTo'[hop] = line
      /\ \A ip \in Ip \ {hop} : sentTo'[ip] = sentTo[ip]
    BY <1>t, <1>1, <1>3 DEF PacketShapes
<1>6. buffer' \in [Ip -> Seq(Packet)] /\ buffer'[hop] = <<>>
      /\ \A ip \in Ip \ {hop} : buffer'[ip] = buffer[ip]
    BY <1>t, <1>1, <1>2 DEF PacketShapes
<1>7. ToSet(buffer[hop]) \subseteq Packet
    BY <1>2, InSequence
<1>8. PacketShapes'
    BY <1>t, <1>1, <1>2, <1>5, <1>6, <1>7, Bounds DEF PacketShapes
<1>9. Placed'
    <2>1. ASSUME NEW ip \in Ip, NEW p
          PROVE  p \in ToSet(sentTo'[ip]) <=>
                    p \in ToSet(sentTo[ip]) \/ (ip = hop /\ p \in ToSet(out))
        <3>1. CASE ip = hop
            BY <1>4, <1>5, <3>1
        <3>2. CASE ip # hop
            BY <1>5, <3>2
        <3> QED
            BY <3>1, <3>2
    <2>2. \A ip \in Ip : \A p : p \in ToSet(buffer'[ip]) <=> ip # hop /\ p \in ToSet(buffer[ip])
        BY <1>2, <1>6
    <2>3. \A p : p \in failed' <=>
             p \in failed \/ (p \in ToSet(buffer[hop]) /\ p \notin ToSet(out))
        BY <1>1
    <2>4. \A p \in ToSet(out) : p \in ToSet(buffer[hop])
        BY <1>1
    <2>5. \A p : p \in 1 .. packets' <=>
             p \in failed'
             \/ \E ip \in Ip : p \in ToSet(sentTo'[ip]) \/ p \in ToSet(buffer'[ip])
        BY <1>1, <2>1, <2>2, <2>3, <2>4 DEF Placed
    <2>6. \A p : \A x, y \in Ip : p \in ToSet(sentTo'[x]) => p \notin ToSet(buffer'[y])
        BY <2>1, <2>2, <2>4 DEF Placed
    <2>7. \A p \in failed' : \A x \in Ip :
             p \notin ToSet(sentTo'[x]) /\ p \notin ToSet(buffer'[x])
        BY <2>1, <2>2, <2>3, <2>4 DEF Placed
    <2>8. \A p : \A x, y \in Ip : p \in ToSet(buffer'[x]) /\ p \in ToSet(buffer'[y]) => x = y
        BY <2>2 DEF Placed
    <2> QED
        BY <2>5, <2>6, <2>7, <2>8 DEF Placed
<1>10. Ordered'
    BY <1>1, <1>2, <1>4, <1>5, <1>6 DEF Ordered
<1> QED
    BY <1>8, <1>9, <1>10

LEMMA PacketsInBrief ==
    ASSUME IInv, Next
    PROVE  \/ UNCHANGED packetVars
           \/ \E hop \in Ip : HandOver(hop)
           \/ \E hop \in Ip, out \in Seq(Packet) : LeaveAll(hop, out)
<1>t. TypeOK /\ PacketShapes /\ TableShapes /\ WaitersHaveAReason /\ Ordered
    BY TypeIsItsParts, OrderedPointwise DEF IInv, PacketsKeepTheirPlace
<1>1. ASSUME NEW hop \in Ip, SendUnresolved(hop)
      PROVE  HandOver(hop)
    BY <1>1 DEF SendUnresolved, HandOver, MaySend, NewPacket, BufferHasRoom, Enqueue
<1>2. ASSUME NEW hop \in Ip, SendResolved(hop)
      PROVE  HandOver(hop)
    <2>1. entry[hop] \in Entry /\ RequestState(entry[hop]) \in {"Resolved", "ResolvedStale"}
        BY <1>t, <1>2 DEF TableShapes, SendResolved
    <2>2. IsResolved(entry[hop])
        BY <2>1, RequestProperties
    <2>3. buffer[hop] = <<>>
        BY <1>t, <2>2 DEF WaitersHaveAReason, IsPending, IsTimedOut, IsResolved
    <2> QED
        BY <1>2, <2>3 DEF SendResolved, HandOver, MaySend, NewPacket
<1>3. ASSUME NEW hop \in Ip, SendTimeout(hop)
      PROVE  HandOver(hop)
    BY <1>3 DEF SendTimeout, HandOver, MaySend, NewPacket
<1>4. ASSUME NEW hop \in Ip, TimerTimeout(hop)
      PROVE  LeaveAll(hop, <<>>) /\ <<>> \in Seq(Packet)
    <2>1. /\ failed' = failed \cup ToSet(buffer[hop]) /\ UNCHANGED <<sentTo, packets>>
          /\ buffer' = [buffer EXCEPT ![hop] = <<>>]
        BY <1>4 DEF TimerTimeout
    <2>2. /\ <<>> \in Seq(Packet) /\ Len(<<>>) = 0 /\ ToSet(<<>>) = {} /\ Increasing(<<>>)
        BY EmptySeq, InSequence DEF Increasing
    <2>3. sentTo[hop] \in Seq(Packet) /\ sentTo \in [Ip -> Seq(Packet)]
        BY <1>t DEF PacketShapes
    <2>4. sentTo[hop] \o <<>> = sentTo[hop]
        BY <2>3, ConcatEmptySeq
    <2>5. sentTo' = [sentTo EXCEPT ![hop] = sentTo[hop] \o <<>>]
        BY <2>1, <2>3, <2>4
    <2> QED
        BY <2>1, <2>2, <2>5 DEF LeaveAll
<1>5. ASSUME NEW source \in Ip, NEW target \in Ip, RecvArp(source, target)
      PROVE  \/ UNCHANGED packetVars
             \/ \E out \in Seq(Packet) : LeaveAll(source, out)
    <2>1. CASE ~Learns(source, target)
        BY <1>5, <2>1 DEF RecvArp
    <2>2. CASE Learns(source, target)
        <3> DEFINE line == buffer[source]
        <3>0. PICK room \in SUBSET (1 .. Len(line)) :
                 /\ \E at \in Ascending(room) :
                       sentTo' = [sentTo EXCEPT ![source] = @ \o Picked(line, at)]
                 /\ failed' = failed \cup {line[i] : i \in 1 .. Len(line) \ room}
            BY <1>5, <2>2 DEF RecvArp
        <3>1. PICK at \in Ascending(room) :
                 sentTo' = [sentTo EXCEPT ![source] = @ \o Picked(line, at)]
            BY <3>0
        <3>a. buffer' = [buffer EXCEPT ![source] = <<>>] /\ UNCHANGED packets
            BY <1>5, <2>2 DEF RecvArp
        <3>2. line \in Seq(Packet) /\ Increasing(line)
            BY <1>t DEF PacketShapes, Ordered
        <3>3. /\ Picked(line, at) \in Seq(Packet) /\ Increasing(Picked(line, at))
              /\ ToSet(Picked(line, at)) = {line[i] : i \in room}
            BY <3>2, PickedFromLine
        <3>4. {line[i] : i \in 1 .. Len(line) \ room} = ToSet(line) \ {line[i] : i \in room}
            <4>1. /\ Len(line) \in Nat /\ \A i \in 1 .. Len(line) : line[i] \in Packet
                  /\ \A i \in 1 .. Len(line) : line[i] \in ToSet(line)
                  /\ \A p \in ToSet(line) : \E i \in 1 .. Len(line) : line[i] = p
                BY <3>2, InSequence
            <4>2. \A i, j \in 1 .. Len(line) : line[i] = line[j] => i = j
                <5> SUFFICES ASSUME NEW i \in 1 .. Len(line), NEW j \in 1 .. Len(line),
                                    line[i] = line[j]
                             PROVE  i = j
                    OBVIOUS
                <5>1. line[i] \in Nat /\ line[j] \in Nat
                    BY <4>1, PacketIsNat
                <5>2. ~(i < j) /\ ~(j < i)
                    BY <3>2, <5>1 DEF Increasing
                <5> QED
                    BY <5>2
            <4> HIDE DEF line
            <4> QED
                BY <4>1, <4>2
        <3>5. ToSet(Picked(line, at)) \subseteq ToSet(line)
            <4>1. \A i \in 1 .. Len(line) : line[i] \in ToSet(line)
                BY <3>2, InSequence
            <4> HIDE DEF line
            <4> QED
                BY <3>3, <4>1
        <3> QED
            BY <3>0, <3>1, <3>a, <3>3, <3>4, <3>5 DEF LeaveAll
    <2> QED
        BY <2>1, <2>2
<1>6. ASSUME \/ \E ip \in Ip : RemoveAddress(ip) \/ TimerWait(ip) \/ TimerRetry(ip)
             \/ \E a \in Add, ip \in Ip : AddAddress(a, ip)
             \/ \E aged \in SUBSET Ip : Park(aged)
             \/ EndControl \/ ProbeWait \/ ProbeAgain \/ ProbeTimeout \/ ProbeResolved
             \/ EndProbe \/ BeginTimers \/ EndTimers
      PROVE  UNCHANGED packetVars
    BY <1>6
       DEF RemoveAddress, TimerWait, TimerRetry, AddAddress, Park, EndControl, ProbeWait,
           ProbeAgain, ProbeTimeout, ProbeResolved, EndProbe, BeginTimers, EndTimers
<1> QED
    BY <1>1, <1>2, <1>3, <1>4, <1>5, <1>6 DEF Next, Control, LoopStep, Probe, SendIpv4, Timers

LEMMA PacketsStep ==
    ASSUME IInv, Next
    PROVE  PacketShapes' /\ PacketsKeepTheirPlace' /\ BuffersAreApart'
<1>t. TypeOK /\ PacketShapes /\ Placed /\ Ordered
    BY TypeIsItsParts, PlacedPointwise, OrderedPointwise DEF IInv, PacketsKeepTheirPlace
<1>1. PacketShapes' /\ Placed' /\ Ordered'
    <2>1. CASE UNCHANGED packetVars
        BY <1>t, <2>1 DEF PacketShapes, Placed, Ordered
    <2> QED
        BY <1>t, <2>1, PacketsInBrief, HandOverStep, LeaveAllStep
<1> QED
    BY <1>1, PlacedNext, OrderedNext DEF PacketsKeepTheirPlace

-----------------------------------------------------------------------------
(* The loop *)

LEMMA LoopStepShapes ==
    ASSUME TypeOK, Next
    PROVE  LoopShapes'
<1>t. LoopShapes /\ TableShapes
    BY TypeIsItsParts
<1>a. \A ip \in Ip : \A e, room : SendArpRequest(ip, e, room) => asked' \subseteq Ip
    BY DEF SendArpRequest
<1>1. ASSUME NEW a \in Add, NEW ip \in Ip, AddAddress(a, ip)
      PROVE  LoopShapes'
    BY <1>t, <1>a, <1>1 DEF AddAddress, LoopShapes
<1>2. CASE ProbeAgain
    <2>1. Candidate \in Ip
        BY <1>2, CandidateIsInLine DEF ProbeAgain
    <2>2. asked' \subseteq Ip /\ UNCHANGED <<phase, todo, arps>>
        BY <1>a, <1>2, <2>1 DEF ProbeAgain
    <2> QED
        BY <1>t, <2>2 DEF LoopShapes
<1>3. ASSUME NEW source \in Ip, NEW target \in Ip, RecvArp(source, target)
      PROVE  LoopShapes'
    <2>1. UNCHANGED <<phase, todo>> /\ asked' = {} /\ arps < MaxArps /\ arps' = arps + 1
        BY <1>3 DEF RecvArp
    <2> QED
        BY <1>t, <2>1, Bounds DEF LoopShapes
<1>4. ASSUME NEW hop \in Ip, SendUnresolved(hop) \/ SendResolved(hop) \/ SendTimeout(hop)
      PROVE  LoopShapes'
    <2>1. asked' \subseteq Ip /\ UNCHANGED <<phase, todo, arps>>
        BY <1>a, <1>4 DEF SendUnresolved, SendResolved, SendTimeout
    <2> QED
        BY <1>t, <2>1 DEF LoopShapes
<1>5. ASSUME NEW ip \in Ip, TimerWait(ip) \/ TimerRetry(ip) \/ TimerTimeout(ip)
      PROVE  LoopShapes'
    <2>1. asked' \subseteq Ip /\ todo' = todo \ {ip} /\ UNCHANGED <<phase, arps>>
        BY <1>a, <1>5 DEF TimerWait, TimerRetry, TimerTimeout
    <2> QED
        BY <1>t, <2>1 DEF LoopShapes
<1>6. CASE \/ \E aged \in SUBSET Ip : Park(aged)
           \/ \E ip \in Ip : RemoveAddress(ip)
           \/ EndControl \/ ProbeWait \/ ProbeTimeout \/ ProbeResolved \/ EndProbe
           \/ BeginTimers \/ EndTimers
    BY <1>t, <1>6
       DEF Park, RemoveAddress, EndControl, ProbeWait, ProbeTimeout, ProbeResolved, EndProbe,
           BeginTimers, EndTimers, LoopShapes
<1> QED
    BY <1>1, <1>2, <1>3, <1>4, <1>5, <1>6 DEF Next, Control, LoopStep, Probe, SendIpv4, Timers

-----------------------------------------------------------------------------
(* The theorems *)

LEMMA InitInvariant == Init => IInv
<1> SUFFICES ASSUME Init PROVE IInv
    OBVIOUS
<1>1. LoopShapes
    BY Bounds DEF Init, LoopShapes
<1>2. TableShapes /\ \A ip \in Ip : entry[ip] = Vacant
    BY EntriesMade DEF Init, TableShapes
<1>3. \A S : <<>> \in Seq(S) /\ Len(<<>>) = 0
    BY EmptySeq
<1>4. CallShapes /\ CallsAreInLine /\ IndexAtRest
    BY <1>3 DEF Init, CallShapes, CallsAreInLine, IndexAtRest
<1>5. /\ PacketShapes
      /\ \A ip \in Ip : /\ ToSet(sentTo[ip]) = {} /\ ToSet(buffer[ip]) = {}
                        /\ Increasing(sentTo[ip]) /\ Increasing(buffer[ip])
    <2>1. ToSet(<<>>) = {} /\ Increasing(<<>>)
        BY <1>3, InSequence DEF Increasing
    <2>2. \A ip \in Ip : sentTo[ip] = <<>> /\ buffer[ip] = <<>>
        BY DEF Init
    <2> QED
        BY <1>3, <2>1, <2>2, Bounds DEF Init, PacketShapes
<1>6. Placed /\ Ordered
    BY <1>5 DEF Init, Placed, Ordered
<1>7. PacketsKeepTheirPlace /\ BuffersAreApart
    BY <1>5, <1>6, PlacedPointwise, OrderedPointwise DEF PacketsKeepTheirPlace
<1>8. Called = {} /\ IsFiniteSet(Called)
    BY FS_EmptySet DEF Init, Called
<1>9. ~IsPending(Vacant) /\ ~IsResolved(Vacant) /\ ~IsTimedOut(Vacant)
    BY DEF IsPending, IsResolved, IsTimedOut, Vacant
<1>10. AskersAgree
    BY <1>2, <1>9 DEF Init, AskersAgree, RetriesAreBounded, TimersSeeOnlyPending
<1>11. HeardIsResolved
    BY <1>2, <1>9 DEF HeardIsResolved
<1>12. WaitersHaveAReason
    BY DEF Init, WaitersHaveAReason
<1> QED
    BY <1>1, <1>2, <1>4, <1>5, <1>7, <1>8, <1>10, <1>11, <1>12, TypeIsItsParts DEF IInv

LEMMA NextInvariant == IInv /\ [Next]_vars => IInv'
<1>1. ASSUME IInv, Next PROVE IInv'
    <2>1. TypeOK'
        BY <1>1, LoopStepShapes, TableStep, CallsStep, PacketsStep, TypeIsItsParts DEF IInv
    <2>2. AskersAgree'
        BY <1>1, RetriesStep, TimersStep DEF AskersAgree
    <2> QED
        BY <1>1, <2>1, <2>2, CallsStep, CalledStep, WaitersStep, PacketsStep, HeardStep DEF IInv
<1>2. ASSUME IInv, UNCHANGED vars PROVE IInv'
    <2>1. /\ phase' = phase /\ index' = index /\ todo' = todo /\ asked' = asked
          /\ entry' = entry /\ heard' = heard /\ arps' = arps /\ ours' = ours
          /\ adding' = adding /\ reply' = reply /\ packets' = packets
          /\ buffer' = buffer /\ sentTo' = sentTo /\ failed' = failed
        BY <1>2 DEF vars, tableVars, packetVars, addressVars
    <2>2. TypeOK'
        BY <1>2 DEF IInv, TypeOK
    <2>3. IndexAtRest' /\ WaitersHaveAReason' /\ AskersAgree'
        BY <1>2, <2>1
           DEF IInv, IndexAtRest, WaitersHaveAReason, AskersAgree, RetriesAreBounded,
               TimersSeeOnlyPending
    <2>4. HeardIsResolved'
        BY <1>2, <2>1, Zenon DEF IInv, HeardIsResolved
    <2>5. EveryPacketIsSomewhere'
        <3>1. /\ UNION {ToSet(sentTo[ip]) : ip \in Ip}' = UNION {ToSet(sentTo[ip]) : ip \in Ip}
              /\ UNION {ToSet(buffer[ip]) : ip \in Ip}' = UNION {ToSet(buffer[ip]) : ip \in Ip}
            BY <2>1 DEF ToSet
        <3> QED
            BY <1>2, <2>1, <3>1 DEF IInv, PacketsKeepTheirPlace, EveryPacketIsSomewhere
    <2>6. BuffersAreApart'
        BY <1>2, <2>1, Zenon DEF IInv, BuffersAreApart
    <2>8. InOrder'
        BY <1>2, <2>1 DEF IInv, PacketsKeepTheirPlace, InOrder
    <2>7. CallsAreInLine' /\ IsFiniteSet(Called)'
        BY <1>2, <2>1 DEF IInv, CallsAreInLine, Called
    <2> QED
        BY <2>2, <2>3, <2>4, <2>5, <2>6, <2>7, <2>8 DEF IInv, PacketsKeepTheirPlace
<1> QED
    BY <1>1, <1>2

(* The invariant holds in every state of the worker.                       *)
THEOREM Invariance == SafeSpec => []IInv
BY InitInvariant, NextInvariant, PTL DEF SafeSpec

(* Every part keeps its shape, and no send buffer grows beyond its limit.  *)
THEOREM TypeCorrect == SafeSpec => []TypeOK
<1>1. IInv => TypeOK
    BY DEF IInv
<1> QED
    BY <1>1, Invariance, PTL

(* Packets wait only for an address that is asked about or did not answer: *)
(* none stays behind a resolved one.                                       *)
THEOREM Reasons == SafeSpec => []WaitersHaveAReason
<1>1. IInv => WaitersHaveAReason
    BY DEF IInv
<1> QED
    BY <1>1, Invariance, PTL

(* Every packet is sent, waiting or reported, only one of these, and those *)
(* for a hop go out in the order they were handed over.                    *)
THEOREM Places == SafeSpec => []PacketsKeepTheirPlace
<1>1. IInv => PacketsKeepTheirPlace
    BY DEF IInv
<1> QED
    BY <1>1, Invariance, PTL

(* The phases that ask for an address do not exceed the retries together,  *)
(* and the timers only ever look at pending entries.                       *)
THEOREM Askers == SafeSpec => []AskersAgree
<1>1. IInv => AskersAgree
    BY DEF IInv
<1> QED
    BY <1>1, Invariance, PTL

(* The calls that wait are the ones in the list, each once.                *)
THEOREM Registered == SafeSpec => []WaitersAreRegistered
<1>1. ASSUME IInv PROVE WaitersAreRegistered
    <2> SUFFICES ASSUME NEW a \in Add
                 PROVE  (reply[a] = "waiting")
                           = (Cardinality({i \in 1 .. Len(adding) : adding[i].call = a}) = 1)
        BY DEF WaitersAreRegistered
    <2> DEFINE S == {i \in 1 .. Len(adding) : adding[i].call = a}
    <2>1. CallsAreInLine
        BY <1>1 DEF IInv
    <2>2. CASE reply[a] = "waiting"
        <3>1. PICK i \in 1 .. Len(adding) : adding[i].call = a
            BY <2>1, <2>2 DEF CallsAreInLine
        <3>2. S = {i}
            BY <2>1, <3>1 DEF CallsAreInLine
        <3>3. Cardinality(S) = 1
            BY <3>2, FS_Singleton
        <3> QED
            BY <2>2, <3>3
    <2>3. CASE reply[a] # "waiting"
        <3>1. S = {}
            BY <2>1, <2>3 DEF CallsAreInLine
        <3>2. Cardinality(S) = 0
            BY <3>1, FS_EmptySet
        <3> QED
            BY <2>3, <3>2
    <2> QED
        BY <2>2, <2>3
<1> QED
    BY <1>1, Invariance, PTL

(* What one step may tell the call that waits at place i.                  *)
LEMMA VerdictStep ==
    ASSUME IInv, Next, NEW i \in 1 .. Len(adding), reply[adding[i].call] = "waiting"
    PROVE  /\ reply'[adding[i].call] = "ok" => ~heard[adding[i].addr]
           /\ reply'[adding[i].call] = "in_use" => heard[adding[i].addr]
<1>t. TypeOK /\ CallsAreInLine /\ HeardIsResolved /\ TableShapes
      /\ reply \in [Add -> {"none", "waiting"} \cup Verdict]
    BY TypeIsItsParts DEF IInv, TypeOK
<1> DEFINE w == adding[i]
<1>w. w.call \in Add
    <2>1. w \in [addr : Ip, call : Add]
        BY ElementOfSeq DEF IInv, TypeOK
    <2> QED
        BY <2>1
<1>1. ASSUME NEW verdict \in Verdict, Settles(verdict)
      PROVE  \/ reply'[w.call] = "waiting"
             \/ reply'[w.call] = verdict /\ w.addr = Candidate
    <2>1. Caller \in Add /\ reply' = [reply EXCEPT ![Caller] = verdict]
          /\ index \in 1 .. Len(adding)
        BY <1>t, <1>1, SettlesProperties, CandidateIsInLine DEF Settles
    <2>2. CASE w.call = Caller
        <3>1. i = index
            BY <1>t, <2>1, <2>2 DEF CallsAreInLine, Caller
        <3> QED
            BY <1>t, <2>1, <2>2, <3>1 DEF Candidate
    <2>3. CASE w.call # Caller
        BY <1>t, <1>w, <2>1, <2>3
    <2> QED
        BY <2>2, <2>3
<1>2. CASE ProbeTimeout
    <2>1. Settles("ok") /\ index > 0 /\ RequestState(entry[Candidate]) = "Timeout"
        BY <1>2 DEF ProbeTimeout, Settles
    <2>2. Candidate \in Ip /\ "ok" \in Verdict
        BY <1>t, <2>1, CandidateIsInLine DEF Verdict
    <2>3. ~heard[Candidate]
        BY <1>t, <2>1, <2>2, RequestProperties DEF HeardIsResolved, TableShapes
    <2> QED
        BY <1>1, <2>1, <2>2, <2>3
<1>3. CASE ProbeResolved
    <2>1. Settles("in_use") /\ index > 0 /\ RequestState(entry[Candidate]) = "Resolved"
        BY <1>3 DEF ProbeResolved, Settles
    <2>2. Candidate \in Ip /\ "in_use" \in Verdict
        BY <1>t, <2>1, CandidateIsInLine DEF Verdict
    <2>3. heard[Candidate]
        BY <1>t, <2>1, <2>2, RequestProperties DEF HeardIsResolved, TableShapes
    <2> QED
        BY <1>1, <2>1, <2>2, <2>3
<1>4. CASE ProbeAgain
    <2>1. UNCHANGED reply \/ Settles("check_failed")
        BY <1>4 DEF ProbeAgain, Settles
    <2> QED
        BY <1>1, <2>1 DEF Verdict
<1>5. ASSUME NEW ip \in Ip, RemoveAddress(ip)
      PROVE  reply'[w.call] \in {"waiting", "removed"}
    BY <1>t, <1>w, <1>5, RemoveProperties
<1>6. ASSUME NEW a \in Add, NEW ip \in Ip, AddAddress(a, ip)
      PROVE  reply'[w.call] = "waiting"
    <2>1. reply[a] = "none" /\ reply' = [reply EXCEPT ![a] = reply'[a]]
        BY <1>t, <1>6, AddProperties
    <2> QED
        BY <1>t, <1>w, <2>1
<1>7. ASSUME NEW ip \in Ip, \/ SendResolved(ip) \/ SendTimeout(ip) \/ SendUnresolved(ip)
                            \/ TimerWait(ip) \/ TimerRetry(ip) \/ TimerTimeout(ip)
      PROVE  UNCHANGED reply
    BY <1>7
       DEF SendResolved, SendTimeout, SendUnresolved, TimerWait, TimerRetry, TimerTimeout
<1>8. CASE \/ \E source, target \in Ip : RecvArp(source, target)
           \/ \E aged \in SUBSET Ip : Park(aged)
           \/ EndControl \/ ProbeWait \/ EndProbe \/ BeginTimers \/ EndTimers
    BY <1>8 DEF RecvArp, Park, EndControl, ProbeWait, EndProbe, BeginTimers, EndTimers
<1> HIDE DEF w
<1>9. CASE reply'[w.call] \in {"waiting", "removed"} \/ UNCHANGED reply
    BY <1>9 DEF w
<1> QED
    BY <1>2, <1>3, <1>4, <1>5, <1>6, <1>7, <1>8, <1>9
       DEF Next, Control, LoopStep, Probe, SendIpv4, Timers

(* An address is granted only when its last request met with silence, and   *)
(* refused as in use only when ARP was heard from it since.                *)
THEOREM VerdictsAreSound == SafeSpec => AddVerdictIsSound
<1>1. ASSUME IInv, [Next]_vars
      PROVE  [\A i \in 1 .. Len(adding) :
                 LET w == adding[i]
                 IN  reply[w.call] = "waiting" =>
                       /\ reply'[w.call] = "ok" => ~heard[w.addr]
                       /\ reply'[w.call] = "in_use" => heard[w.addr]]_vars
    <2>1. CASE Next
        BY <1>1, <2>1, VerdictStep
    <2>2. CASE UNCHANGED vars
        BY <2>2
    <2> QED
        BY <1>1, <2>1, <2>2
<1> QED
    BY <1>1, Invariance, PTL DEF SafeSpec, AddVerdictIsSound
=============================================================================
