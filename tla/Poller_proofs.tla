--------------------------- MODULE Poller_proofs ---------------------------
(***************************************************************************)
(* For any sockets, word size, ring sizes and number of tokens: a slot of  *)
(* the poller is never given away while its token or one of its handles    *)
(* exists, so a WakeHandle sets no other token's bit (SlotsStayOwn); and a *)
(* thread parks only when nothing is owed to it or is about to wake it     *)
(* (NothingIsSleptOn).                                                     *)
(***************************************************************************)
EXTENDS Poller, FiniteSetTheorems, SequenceTheorems, WellFoundedInduction, TLAPS

-----------------------------------------------------------------------------
(* The inductive invariant *)

TokensShape ==
    /\ tokens \in Seq([slot : Slot, socket : Socket]) /\ Len(tokens) <= MaxTokens
    /\ alive \subseteq 1 .. Len(tokens)
    /\ targets \in [Slot -> 0 .. Len(tokens)]
    /\ words \in Nat

RingsShape ==
    /\ ring \in [Socket -> Seq(Message)]
    /\ DOMAIN readHandle = Socket /\ DOMAIN writeHandle = Socket
    /\ on \in Socket

(* While a token is registered the thread still holds it, and has a handle  *)
(* to push.                                                                 *)
RegistersTheNewest ==
    user = "register" =>
        /\ Len(tokens) \in alive
        /\ todo \in Seq(Kind) /\ todo # <<>>

(* The slots ever used are the first ones, no more than there were tokens,  *)
(* and lie within the words.                                                *)
SlotsFillUp ==
    \E used \in 0 .. Len(tokens) :
        /\ \A n \in Slot : targets[n] # 0 <=> n < used
        /\ used <= words * WordBits

SlotInv == TokensShape /\ RingsShape /\ RegistersTheNewest /\ SlotsFillUp /\ SlotsAreOwn

-----------------------------------------------------------------------------
(* The free slot *)

(* A set of naturals has a least element, so the search finds a first slot. *)
LEMMA LeastSlot ==
    ASSUME NEW T, T \subseteq Nat, T # {}
    PROVE  \E x \in T : \A y \in T : x <= y
<1>1. PICK x \in T : \A y \in T : ~(<<y, x>> \in OpToRel(<, Nat))
    BY WFMin, NatLessThanWellFounded
<1>2. \A y \in T : ~(y < x)
    BY <1>1 DEF OpToRel
<1> QED
    BY <1>2

(* get_free_token finds the first slot that nobody occupies, up to the end  *)
(* of the words.                                                            *)
LEMMA FreeSlotIsFirst ==
    ASSUME words * WordBits \in Nat
    PROVE  /\ FreeSlot \in 0 .. words * WordBits
           /\ FreeSlot = words * WordBits \/ ~Occupied(FreeSlot)
           /\ \A k \in 0 .. FreeSlot - 1 : Occupied(k)
<1> DEFINE end == words * WordBits
           Good(n) == /\ n = end \/ ~Occupied(n)
                      /\ \A k \in 0 .. n - 1 : Occupied(k)
           Free == {n \in 0 .. end : n = end \/ ~Occupied(n)}
<1>1. end \in Free /\ Free \subseteq Nat
    OBVIOUS
<1>2. PICK least \in Free : \A n \in Free : least <= n
    BY <1>1, LeastSlot
<1>3. ASSUME NEW k \in 0 .. least - 1
      PROVE  Occupied(k)
    <2>1. k \in 0 .. end /\ k # end /\ ~(least <= k)
        BY <1>1, <1>2
    <2> QED
        BY <1>2, <2>1
<1>4. least \in 0 .. end /\ Good(least)
    BY <1>2, <1>3
<1>5. FreeSlot = CHOOSE n \in 0 .. end : Good(n)
    BY DEF FreeSlot
<1> HIDE DEF Good
<1>6. FreeSlot \in 0 .. end /\ Good(FreeSlot)
    BY <1>4, <1>5
<1> QED
    BY <1>6 DEF Good

(* More words, more bits.                                                   *)
LEMMA MultiplesGrow ==
    ASSUME NEW w \in Nat, NEW m \in Nat, NEW n \in Nat, m <= n
    PROVE  m * w <= n * w /\ n * w \in Nat
    OBVIOUS

(* The last place before a multiple of a word's size is in the word before. *)
LEMMA WordOfSlot ==
    ASSUME NEW w \in Nat \ {0}, NEW m \in Nat, NEW n \in 0 .. m * w
    PROVE  n < (IF n \div w >= m THEN n \div w + 1 ELSE m) * w
<1> DEFINE q == n \div w
<1>1. n \in Nat /\ q \in Nat /\ n < (q + 1) * w
    OBVIOUS
<1>2. CASE q >= m
    BY <1>1, <1>2
<1>3. CASE ~(q >= m)
    <2>1. q + 1 <= m
        BY <1>1, <1>3
    <2>2. (q + 1) * w <= m * w
        BY <1>1, <2>1
    <2> QED
        BY <1>1, <1>3, <2>2
<1> QED
    BY <1>2, <1>3

-----------------------------------------------------------------------------
(* Steps *)

(* What most steps are to this invariant: they give no token away, and      *)
(* nothing comes to hold a token that nothing held.                         *)
KeepsTokens ==
    /\ UNCHANGED <<tokens, targets, words>>
    /\ alive' \subseteq alive
    /\ \A t \in 1 .. Len(tokens) : InUse(t)' => InUse(t)

(* Such a step keeps the invariant.                                         *)
LEMMA KeptTokensKeepSlots ==
    ASSUME SlotInv, KeepsTokens, RingsShape', RegistersTheNewest'
    PROVE  SlotInv'
<1>1. TokensShape'
    BY DEF SlotInv, KeepsTokens, TokensShape
<1>2. SlotsFillUp'
    BY DEF SlotInv, KeepsTokens, SlotsFillUp
<1>3. SlotsAreOwn'
    BY DEF SlotInv, KeepsTokens, SlotsAreOwn
<1> QED
    BY <1>1, <1>2, <1>3 DEF SlotInv

(* A new token takes a slot that no other token in use has.                 *)
LEMMA RegisterKeepsSlots ==
    ASSUME SlotInv, NEW s \in Socket, Register(s)
    PROVE  SlotInv'
<1> DEFINE end == words * WordBits
           newEnd == words' * WordBits
           f == FreeSlot
           new == Len(tokens) + 1
<1> USE DEF SlotInv
<1>1. PICK used \in 0 .. Len(tokens) :
          /\ \A n \in Slot : targets[n] # 0 <=> n < used
          /\ used <= end
    BY DEF SlotsFillUp
<1>2. /\ WordBits \in Nat \ {0} /\ MaxTokens \in Nat /\ words \in Nat /\ end \in Nat
      /\ Len(tokens) \in Nat /\ Len(tokens) < MaxTokens
    BY PollerAssumption DEF TokensShape, Register
<1>3. /\ f \in 0 .. end
      /\ f = end \/ ~Occupied(f)
      /\ \A k \in 0 .. f - 1 : Occupied(k)
    BY <1>2, FreeSlotIsFirst
<1>4. /\ tokens' = Append(tokens, [slot |-> f, socket |-> s])
      /\ alive' = alive \cup {new}
      /\ targets' = [targets EXCEPT ![f] = new]
      /\ words' = IF f \div WordBits >= words THEN f \div WordBits + 1 ELSE words
      /\ todo' \in Calls /\ on' = s
      /\ UNCHANGED <<ring, readHandle, writeHandle>>
    BY DEF Register, GetFreeToken, socketVars, handles
<1> HIDE DEF f, end, newEnd
<1>5. used \in Nat /\ used <= end
    BY <1>1, <1>2
<1>6. f <= used
    <2>1. CASE used = end
        BY <1>1, <1>2, <1>3, <2>1
    <2>2. CASE used < end
        <3>1. used \in Slot /\ ~Occupied(used)
            BY <1>1, <1>2 DEF Slot, Occupied
        <3> QED
            BY <1>1, <1>2, <1>3, <3>1
    <2> QED
        BY <1>1, <1>2, <2>1, <2>2
<1>7. f \in Slot /\ ~Occupied(f)
    <2>1. f \in Slot
        BY <1>1, <1>2, <1>3, <1>6 DEF Slot
    <2>2. CASE f = end
        <3>1. ~(f < used)
            BY <1>1, <1>2, <1>3, <2>2
        <3> QED
            BY <1>1, <2>1, <3>1 DEF Occupied
    <2> QED
        BY <1>3, <2>1, <2>2
<1>8. f < newEnd /\ end <= newEnd /\ newEnd \in Nat /\ words' \in Nat
    <2>1. f < newEnd
        BY <1>2, <1>3, <1>4, WordOfSlot DEF end, newEnd
    <2>2. words' \in Nat /\ words <= words'
        BY <1>2, <1>3, <1>4
    <2>3. end <= newEnd /\ newEnd \in Nat
        BY <1>2, <2>2, MultiplesGrow DEF end, newEnd
    <2> QED
        BY <2>1, <2>2, <2>3
<1>9. /\ tokens' \in Seq([slot : Slot, socket : Socket])
      /\ Len(tokens') = new
      /\ tokens'[new] = [slot |-> f, socket |-> s]
      /\ \A t \in 1 .. Len(tokens) : tokens'[t] = tokens[t]
    BY <1>4, <1>7 DEF TokensShape
<1>10. TokensShape'
    <2>1. Len(tokens') <= MaxTokens /\ alive' \subseteq 1 .. Len(tokens')
        <3>1. 1 .. Len(tokens) \subseteq 1 .. Len(tokens') /\ new \in 1 .. Len(tokens')
            BY <1>2, <1>9
        <3>2. Len(tokens') <= MaxTokens
            BY <1>2, <1>9
        <3> QED
            BY <1>4, <3>1, <3>2 DEF TokensShape
    <2>2. targets' \in [Slot -> 0 .. Len(tokens')]
        <3>1. 0 .. Len(tokens) \subseteq 0 .. Len(tokens') /\ new \in 0 .. Len(tokens')
            BY <1>2, <1>9
        <3> QED
            BY <1>4, <1>7, <3>1 DEF TokensShape
    <2> QED
        BY <1>8, <1>9, <2>1, <2>2 DEF TokensShape
<1>11. RingsShape'
    BY <1>4 DEF RingsShape
<1>12. RegistersTheNewest'
    <2>1. ASSUME NEW c \in Calls
          PROVE  c \in Seq(Kind) /\ c # <<>>
        <3>1. \/ c = <<"read", "write">>
              \/ c = <<"read">>
              \/ c = <<"write">>
            BY PollerAssumption
        <3>2. "read" \in Kind /\ "write" \in Kind
            BY DEF Kind
        <3>3. CASE c = <<"read", "write">>
            BY <3>2, <3>3
        <3>4. CASE c = <<"read">>
            BY <3>2, <3>4
        <3>5. CASE c = <<"write">>
            BY <3>2, <3>5
        <3> QED
            BY <3>1, <3>3, <3>4, <3>5
    <2> QED
        BY <1>4, <1>9, <2>1 DEF RegistersTheNewest
<1>13. SlotsFillUp'
    <2>1. \A n \in Slot : targets'[n] = IF n = f THEN new ELSE targets[n]
        BY <1>4 DEF TokensShape
    <2>2. CASE f = used
        <3>1. used + 1 \in 0 .. Len(tokens') /\ used + 1 <= newEnd
            BY <1>2, <1>5, <1>8, <1>9, <2>2
        <3>2. \A n \in Slot : targets'[n] # 0 <=> n < used + 1
            BY <1>1, <1>2, <2>1, <2>2 DEF Slot
        <3> QED
            BY <3>1, <3>2 DEF SlotsFillUp, newEnd
    <2>3. CASE f < used
        <3>1. used \in 0 .. Len(tokens')
            BY <1>2, <1>9
        <3>3. used <= newEnd
            BY <1>2, <1>5, <1>8
        <3>2. \A n \in Slot : targets'[n] # 0 <=> n < used
            BY <1>1, <1>2, <2>1, <2>3 DEF Slot
        <3> QED
            BY <3>1, <3>2, <3>3 DEF SlotsFillUp, newEnd
    <2> QED
        BY <1>1, <1>2, <1>3, <1>6, <2>2, <2>3
<1>14. SlotsAreOwn'
    <2> SUFFICES ASSUME NEW t \in 1 .. Len(tokens'), InUse(t)'
                 PROVE  targets'[tokens'[t].slot] = t
        BY DEF SlotsAreOwn
    <2>1. CASE t = new
        BY <1>4, <1>7, <1>9, <2>1 DEF TokensShape
    <2>2. CASE t # new
        <3>1. t \in 1 .. Len(tokens) /\ InUse(t)
            BY <1>2, <1>4, <1>9, <2>2 DEF InUse, HandlesOf
        <3>2. targets[tokens[t].slot] = t
            BY <3>1 DEF SlotsAreOwn
        <3>3. tokens[t] \in [slot : Slot, socket : Socket]
            BY <3>1, ElementOfSeq DEF TokensShape
        <3>4. tokens[t].slot \in Slot
            BY <3>3
        <3>5. tokens[t].slot # f
            BY <1>7, <3>1, <3>2 DEF Occupied
        <3> QED
            BY <1>4, <1>9, <3>1, <3>2, <3>4, <3>5 DEF TokensShape
    <2> QED
        BY <2>1, <2>2
<1> QED
    BY <1>10, <1>11, <1>12, <1>13, <1>14

(* Pushing the handle of the token that is being registered: the thread     *)
(* holds that token.                                                        *)
LEMMA PushHandleKeepsSlots ==
    ASSUME SlotInv, PushHandle
    PROVE  SlotInv'
<1> USE DEF SlotInv
<1>1. /\ Len(tokens) \in alive
      /\ todo \in Seq(Kind) /\ todo # <<>>
      /\ ring[on] \in Seq(Message) /\ on \in Socket
    BY DEF PushHandle, RegistersTheNewest, RingsShape
<1>2. Update(Head(todo), Len(tokens)) \in Message
    <2>1. Len(tokens) \in Token
        BY <1>1, PollerAssumption DEF TokensShape, Token
    <2> QED
        BY <1>1, <2>1 DEF Message, Update, Handle
<1>3. ring' = [ring EXCEPT ![on] = Append(ring[on], Update(Head(todo), Len(tokens)))]
    BY DEF PushHandle
<1>4. RingsShape'
    BY <1>1, <1>2, <1>3 DEF RingsShape, PushHandle, handles
<1>5. RegistersTheNewest'
    <2>1. CASE Len(todo) = 1
        <3>1. user' = "idle"
            BY <2>1 DEF PushHandle
        <3> QED
            BY <3>1 DEF RegistersTheNewest
    <2>2. CASE Len(todo) # 1
        <3>1. Tail(todo) \in Seq(Kind) /\ Tail(todo) # <<>>
            <4>1. Tail(todo) \in Seq(Kind) /\ Len(Tail(todo)) = Len(todo) - 1
                BY <1>1
            <4>2. Len(todo) - 1 # 0
                BY <1>1, <2>2
            <4> QED
                BY <4>1, <4>2, EmptySeq
        <3>2. todo' = Tail(todo) /\ UNCHANGED <<tokens, alive>>
            BY DEF PushHandle, pollerVars
        <3> QED
            BY <1>1, <3>1, <3>2 DEF RegistersTheNewest
    <2> QED
        BY <2>1, <2>2
<1>6. KeepsTokens
    <2>1. UNCHANGED <<tokens, targets, words, alive, readHandle, writeHandle>>
        BY DEF PushHandle, pollerVars, handles
    <2>2. ASSUME NEW t \in 1 .. Len(tokens), NEW s \in Socket, t \in HandlesOf(s)'
          PROVE  InUse(t)
        <3>1. CASE s # on
            BY <1>1, <1>3, <2>1, <2>2, <3>1 DEF HandlesOf, InUse, RingsShape
        <3>2. CASE s = on
            <4>1. t \in HandlesOf(on) \/ t = Len(tokens)
                <5> DEFINE m == Update(Head(todo), Len(tokens))
                <5>1. ring'[on] = Append(ring[on], m) /\ m.handle = Len(tokens)
                    BY <1>1, <1>3 DEF RingsShape, SlotInv, Update
                <5> HIDE DEF m
                <5>2. /\ Len(ring'[on]) = Len(ring[on]) + 1
                      /\ ring'[on][Len(ring[on]) + 1] = m
                      /\ \A n \in 1 .. Len(ring[on]) : ring'[on][n] = ring[on][n]
                      /\ Len(ring[on]) \in Nat
                    BY <1>1, <5>1
                <5>3. CASE t = readHandle[on] \/ t = writeHandle[on]
                    BY <5>3 DEF HandlesOf
                <5>4. CASE \E n \in 1 .. Len(ring[on]) + 1 : t = ring'[on][n].handle
                    <6>1. PICK n \in 1 .. Len(ring[on]) + 1 : t = ring'[on][n].handle
                        BY <5>4
                    <6>2. CASE n = Len(ring[on]) + 1
                        BY <5>1, <5>2, <6>1, <6>2
                    <6>3. CASE n \in 1 .. Len(ring[on])
                        BY <5>2, <6>1, <6>3 DEF HandlesOf
                    <6> QED
                        BY <5>2, <6>2, <6>3
                <5> QED
                    BY <2>1, <2>2, <3>2, <5>2, <5>3, <5>4 DEF HandlesOf
            <4> QED
                BY <1>1, <4>1 DEF InUse
        <3> QED
            BY <3>1, <3>2
    <2> QED
        BY <2>1, <2>2 DEF KeepsTokens, InUse
<1> QED
    BY <1>4, <1>5, <1>6, KeptTokensKeepSlots

(* The thread's own handle, or none, put into a ring.                       *)
LEMMA AppendKeepsTokens ==
    ASSUME SlotInv, NEW s \in Socket, NEW m \in Message, m.handle \in {Nobody, Thread},
           ring' = [ring EXCEPT ![s] = Append(ring[s], m)],
           UNCHANGED <<tokens, alive, targets, words, readHandle, writeHandle>>,
           on' \in Socket
    PROVE  /\ KeepsTokens /\ RingsShape'
           /\ \A r \in Socket : \A h \in HandlesOf(r)' : h \in HandlesOf(r) \cup {Nobody, Thread}
<1> USE DEF SlotInv
<1>1. RingsShape'
    BY DEF RingsShape
<1>2. ASSUME NEW r \in Socket, NEW t, t \in HandlesOf(r)'
      PROVE  t \in HandlesOf(r) \cup {Nobody, Thread}
    <2>2. CASE r # s
        BY <1>2, <2>2 DEF HandlesOf, RingsShape
    <2>3. CASE r = s
        <3>1. ring[s] \in Seq(Message) /\ ring'[s] = Append(ring[s], m)
            BY DEF RingsShape
        <3> QED
            BY <1>2, <2>3, <3>1 DEF HandlesOf
    <2> QED
        BY <2>2, <2>3
<1>3. ASSUME NEW t \in 1 .. Len(tokens)
      PROVE  t \notin {Nobody, Thread}
    <2>1. t \in Nat
        OBVIOUS
    <2>2. Nobody \notin Nat /\ Thread \notin Nat
        BY PollerAssumption
    <2> QED
        BY <2>1, <2>2
<1> QED
    BY <1>1, <1>2, <1>3 DEF KeepsTokens, InUse

(* A message popped by the worker, whose handle it may keep.                *)
LEMMA PopKeepsTokens ==
    ASSUME SlotInv, NEW s \in Socket, ring[s] # <<>>,
           ring' = [ring EXCEPT ![s] = Tail(ring[s])],
           \/ readHandle' = readHandle
           \/ readHandle' = [readHandle EXCEPT ![s] = Head(ring[s]).handle],
           \/ writeHandle' = writeHandle
           \/ writeHandle' = [writeHandle EXCEPT ![s] = Head(ring[s]).handle],
           UNCHANGED <<tokens, alive, targets, words, on>>
    PROVE  /\ KeepsTokens /\ RingsShape'
           /\ \A r \in Socket : \A h \in HandlesOf(r)' : h \in HandlesOf(r)
<1> USE DEF SlotInv
<1>1. /\ ring[s] \in Seq(Message) /\ ring'[s] = Tail(ring[s])
      /\ Len(ring[s]) \in Nat \ {0} /\ Head(ring[s]) = ring[s][1]
      /\ Len(ring'[s]) = Len(ring[s]) - 1
      /\ \A n \in 1 .. Len(ring'[s]) : n + 1 \in 1 .. Len(ring[s]) /\ ring'[s][n] = ring[s][n + 1]
    BY DEF RingsShape
<1>2. RingsShape'
    BY <1>1 DEF RingsShape
<1>3. ASSUME NEW h, NEW r \in Socket, h \in HandlesOf(r)'
      PROVE  h \in HandlesOf(r)
    <2>1. CASE r # s
        BY <1>3, <2>1 DEF HandlesOf, RingsShape
    <2>2. CASE r = s
        <3>1. ring[s][1].handle \in HandlesOf(s)
            BY <1>1 DEF HandlesOf
        <3>2. CASE h = readHandle'[s] \/ h = writeHandle'[s]
            BY <1>1, <2>2, <3>1, <3>2 DEF HandlesOf, RingsShape
        <3>3. CASE \E n \in 1 .. Len(ring'[s]) : h = ring'[s][n].handle
            BY <1>1, <2>2, <3>3 DEF HandlesOf
        <3> QED
            BY <1>3, <2>2, <3>2, <3>3 DEF HandlesOf
    <2> QED
        BY <2>1, <2>2
<1> QED
    BY <1>2, <1>3 DEF KeepsTokens, InUse

-----------------------------------------------------------------------------
(* The theorem *)

(* A new poller has neither tokens nor words.                               *)
LEMMA InitEstablishesSlots == Init => SlotInv
<1> SUFFICES ASSUME Init PROVE SlotInv
    OBVIOUS
<1> USE DEF Init
<1>1. tokens = <<>> /\ Len(tokens) = 0 /\ MaxTokens \in Nat /\ WordBits \in Nat
    BY PollerAssumption
<1>2. TokensShape
    BY <1>1 DEF TokensShape
<1>3. RingsShape
    BY DEF RingsShape
<1>4. RegistersTheNewest
    BY DEF RegistersTheNewest
<1>5. SlotsFillUp
    <2>1. \A n \in Slot : targets[n] # 0 <=> n < 0
        BY <1>1 DEF Slot
    <2>2. 0 \in 0 .. Len(tokens) /\ 0 <= words * WordBits
        BY <1>1
    <2> QED
        BY <2>1, <2>2 DEF SlotsFillUp
<1>6. SlotsAreOwn
    BY <1>1 DEF SlotsAreOwn
<1> QED
    BY <1>2, <1>3, <1>4, <1>5, <1>6 DEF SlotInv

(* Steps that touch neither the tokens, nor the rings and handles.          *)
LEMMA OtherStepsKeepSlots ==
    ASSUME SlotInv,
           UNCHANGED <<tokens, targets, words, ring, readHandle, writeHandle>>,
           alive' \subseteq alive, on' \in Socket,
           user' = "register" => user = "register" /\ UNCHANGED <<todo, alive>>
    PROVE  SlotInv'
<1>1. KeepsTokens
    BY DEF KeepsTokens, InUse, HandlesOf
<1>2. RingsShape' /\ RegistersTheNewest'
    BY DEF SlotInv, RingsShape, RegistersTheNewest
<1> QED
    BY <1>1, <1>2, KeptTokensKeepSlots

(* Every step of the thread.                                                *)
LEMMA CallsKeepSlots == SlotInv /\ (Call \/ CallStep \/ TimesOut) => SlotInv'
<1> SUFFICES ASSUME SlotInv, Call \/ CallStep \/ TimesOut PROVE SlotInv'
    OBVIOUS
<1> USE DEF socketVars, handles, pollerVars, userVars
<1>0. on \in Socket /\ \A t \in alive : tokens[t] \in [slot : Slot, socket : Socket]
    BY ElementOfSeq DEF SlotInv, RingsShape, TokensShape
<1>1. CASE Poll
    BY <1>0, <1>1, OtherStepsKeepSlots DEF Poll
<1>2. CASE DropToken
    <2>1. user \in {"idle", "events"} /\ alive' \subseteq alive
        BY <1>2 DEF DropToken
    <2> QED
        BY <1>0, <1>2, <2>1, OtherStepsKeepSlots DEF DropToken
<1>3. ASSUME NEW s \in Socket, Register(s) PROVE SlotInv'
    BY <1>3, RegisterKeepsSlots
<1>4. ASSUME NEW s \in Socket, SendTo(s) PROVE SlotInv'
    <2>1. KeepsTokens /\ RingsShape'
        <3>1. Data \in Message /\ Data.handle \in {Nobody, Thread}
            BY DEF Data, Message
        <3> QED
            BY <1>0, <1>4, <3>1, AppendKeepsTokens DEF SendTo
    <2>2. RegistersTheNewest'
        BY <1>4 DEF SendTo, RegistersTheNewest
    <2> QED
        BY <2>1, <2>2, KeptTokensKeepSlots
<1>5. ASSUME NEW s \in Socket, NoBuffer(s) PROVE SlotInv'
    BY <1>0, <1>5, OtherStepsKeepSlots DEF NoBuffer
<1>6. ASSUME NEW s \in Socket, BlockingRecv(s) PROVE SlotInv'
    <2>1. KeepsTokens /\ RingsShape'
        <3>1. /\ Update("read", Thread) \in Message
              /\ Update("read", Thread).handle \in {Nobody, Thread}
            BY DEF Update, Message, Kind, Handle
        <3> QED
            BY <1>6, <3>1, AppendKeepsTokens DEF BlockingRecv
    <2>2. RegistersTheNewest'
        BY <1>6 DEF BlockingRecv, RegistersTheNewest
    <2> QED
        BY <2>1, <2>2, KeptTokensKeepSlots
<1>7. CASE PushHandle
    BY <1>7, PushHandleKeepsSlots
<1>8. CASE PushRefused
    BY <1>0, <1>8, OtherStepsKeepSlots DEF PushRefused
<1>9. CASE Scan
    BY <1>0, <1>9, OtherStepsKeepSlots DEF Scan
<1>10. CASE Unparked
    BY <1>0, <1>10, OtherStepsKeepSlots DEF Unparked
<1>11. CASE SwapLine
    BY <1>0, <1>11, OtherStepsKeepSlots DEF SwapLine
<1>12. CASE NextEvent
    <2>1. on' \in Socket /\ user' # "register"
        BY <1>0, <1>12 DEF NextEvent
    <2> QED
        BY <1>12, <2>1, OtherStepsKeepSlots DEF NextEvent
<1>13. CASE EndEvents
    BY <1>0, <1>13, OtherStepsKeepSlots DEF EndEvents
<1>14. CASE DrainSocket
    BY <1>0, <1>14, OtherStepsKeepSlots DEF DrainSocket
<1>15. CASE Await
    BY <1>0, <1>15, OtherStepsKeepSlots DEF Await
<1>16. CASE AwaitUnparked
    BY <1>0, <1>16, OtherStepsKeepSlots DEF AwaitUnparked
<1>17. CASE TimesOut
    BY <1>0, <1>17, OtherStepsKeepSlots DEF TimesOut
<1> QED
    BY <1>1, <1>2, <1>3, <1>4, <1>5, <1>6, <1>7, <1>8, <1>9, <1>10, <1>11, <1>12, <1>13,
       <1>14, <1>15, <1>16, <1>17 DEF Call, CallStep

(* Every step of the worker.                                                *)
LEMMA WorkerKeepsSlots ==
    SlotInv /\ (WorkerStep \/ \E s \in Socket : Deliver(s)) => SlotInv'
<1> SUFFICES ASSUME SlotInv, WorkerStep \/ \E s \in Socket : Deliver(s) PROVE SlotInv'
    OBVIOUS
<1> USE DEF socketVars, handles, pollerVars, userVars
<1>0. on \in Socket
    BY DEF SlotInv, RingsShape
<1>1. CASE CheckDropped
    BY <1>0, <1>1, OtherStepsKeepSlots DEF CheckDropped
<1>2. CASE SetBit
    BY <1>0, <1>2, OtherStepsKeepSlots DEF SetBit
<1>3. CASE Unpark
    BY <1>0, <1>3, OtherStepsKeepSlots DEF Unpark
<1>4. CASE TellWriter
    BY <1>0, <1>4, OtherStepsKeepSlots DEF TellWriter
<1>5. ASSUME NEW s \in Socket, Deliver(s) PROVE SlotInv'
    BY <1>0, <1>5, OtherStepsKeepSlots DEF Deliver
<1>6. ASSUME NEW s \in Socket, SendDatagram(s) \/ UpdateRead(s) \/ UpdateWrite(s)
      PROVE  SlotInv'
    <2>1. KeepsTokens /\ RingsShape'
        BY <1>6, PopKeepsTokens DEF SendDatagram, UpdateRead, UpdateWrite, PopMessage
    <2>2. RegistersTheNewest'
        BY <1>6 DEF SendDatagram, UpdateRead, UpdateWrite, SlotInv, RegistersTheNewest
    <2> QED
        BY <2>1, <2>2, KeptTokensKeepSlots
<1> QED
    BY <1>1, <1>2, <1>3, <1>4, <1>5, <1>6 DEF WorkerStep

(* No step of either gives a slot away that is not free.                     *)
LEMMA NextKeepsSlots == SlotInv /\ [Next]_vars => SlotInv'
<1> SUFFICES ASSUME SlotInv, [Next]_vars PROVE SlotInv'
    OBVIOUS
<1>1. CASE Next
    BY <1>1, CallsKeepSlots, WorkerKeepsSlots DEF Next
<1>2. CASE UNCHANGED vars
    <2>1. on \in Socket
        BY DEF SlotInv, RingsShape
    <2> QED
        BY <1>2, <2>1, OtherStepsKeepSlots DEF vars, userVars, pollerVars, socketVars, handles
<1> QED
    BY <1>1, <1>2

(* In every reachable state, whatever is registered, dropped, refused and   *)
(* replaced, each token that exists or has a handle somewhere is the one    *)
(* noted in its slot (the search of get_free_token, poller.rs:212).         *)
THEOREM SlotsStayOwn == Spec => []SlotsAreOwn
<1>1. SlotInv => SlotsAreOwn
    BY DEF SlotInv
<1> QED
    BY <1>1, InitEstablishesSlots, NextKeepsSlots, PTL DEF Spec

-----------------------------------------------------------------------------
(* The invariant of the whole poller *)

(* The handle a kind of wake is given to.                                   *)
WakeHandle(s, kind) == IF kind = "read" THEN readHandle[s] ELSE writeHandle[s]

Wakes(step) ==
    \E s \in Socket, kind \in Kind :
        /\ WakeHandle(s, kind) \in 1 .. Len(tokens)
        /\ worker = Waking(step, s, kind, WakeHandle(s, kind))

(* The handle the worker is busy with is still the one it keeps.            *)
WorkerShape ==
    \/ worker = Idle
    \/ \E s \in Socket : worker = Popped(s)
    \/ \E step \in {"check", "set", "unpark"} : Wakes(step)
    \/ \E s \in Socket, kind \in Kind : worker = Waking("unpark", s, kind, Thread)

(* A token's handles are with the socket it was registered for.             *)
HandlesFit ==
    \A s \in Socket : \A h \in HandlesOf(s) :
        h \in {Nobody, Thread} \/ (h \in 1 .. Len(tokens) /\ tokens[h].socket = s)

RegistersFor == user = "register" => tokens[Len(tokens)].socket = on

DataIn(q) == {n \in 1 .. Len(q) : q[n].kind = "data"}

(* A buffer is free, or in a datagram that is still in the ring.            *)
BuffersAddUp == \A s \in Socket : pool[s] + Cardinality(DataIn(ring[s])) = PoolSize

(* While it swaps, the thread is at one of the words there are.             *)
LinesFit ==
    /\ at \in 1 .. 2 * words \/ at = 1
    /\ user = "swap" => at \in 1 .. 2 * words
    /\ user # "swap" => at = 1
    /\ words <= Len(tokens)

CapturedInTime == user \notin {"swap", "events", "read"} => captured = {}

BitOf(h, kind) == <<tokens[h].slot, kind>>

Noticed(s, kind) ==
    \/ worker.at \in {"check", "set"} /\ worker.socket = s /\ worker.kind = kind
    \/ BitOf(WakeHandle(s, kind), kind) \in bits \cup captured

(* Wherever the thread is: packets it has not been told of are about to be  *)
(* announced, or announced by a bit, or being read.                         *)
ReadersAreNoticed ==
    \A s \in Socket :
        packets[s] > 0 /\ readHandle[s] \in alive =>
            Noticed(s, "read") \/ (user = "read" /\ on = s)

(* And a refused sender has a datagram on its way, or the message with its  *)
(* handle, or the worker is about to look at its ring, or it is announced.  *)
WritersAreNoticed ==
    \A s \in Socket :
        writer[s] = "refused" /\ writeHandle[s] \in alive =>
            \/ InRing(s, "data") \/ InRing(s, "write")
            \/ worker = Popped(s)
            \/ Noticed(s, "write")

(* Since a thread parks only after a look that found no bit, the only bit   *)
(* set without an unpark is that of the wake under way.                     *)
ParkedHasNoBits ==
    user = "park" /\ ~parkToken =>
        \A b \in bits :
            /\ worker.at = "unpark" /\ worker.handle # Thread
            /\ b = BitOf(worker.handle, worker.kind)

(* TypeOK without the tables that SlotInv has.                              *)
ThreadShape ==
    /\ user \in {"idle", "register", "scan", "park", "swap", "events", "read", "await",
                 "await_park"}
    /\ todo \in Calls \cup {<<>>} \cup {<<k>> : k \in Kind}
    /\ bits \cup captured \subseteq (0 .. words * WordBits - 1) \X Kind

SocketsShape ==
    /\ \A s \in Socket : Len(ring[s]) <= SendCapacity
    /\ pool \in [Socket -> 0 .. PoolSize] /\ packets \in [Socket -> 0 .. RecvCapacity]
    /\ writer \in [Socket -> {"content", "refused", "missed"}]
    /\ readHandle \in [Socket -> Handle] /\ writeHandle \in [Socket -> Handle]
    /\ arrived \in 0 .. MaxPackets /\ sends \in 0 .. MaxSends

IInv ==
    /\ SlotInv /\ ThreadShape /\ SocketsShape /\ parkToken \in BOOLEAN
    /\ WorkerShape /\ HandlesFit /\ RegistersFor /\ BuffersAddUp /\ LinesFit /\ CapturedInTime
    /\ ReadersAreNoticed /\ WritersAreNoticed /\ ParkedHasNoBits

-----------------------------------------------------------------------------
(* Counting the datagrams of a ring *)

LEMMA DataIsFinite ==
    ASSUME NEW q \in Seq(Message)
    PROVE  IsFiniteSet(DataIn(q)) /\ Cardinality(DataIn(q)) \in Nat
<1>1. Len(q) \in Nat /\ IsFiniteSet(1 .. Len(q))
    BY LenProperties, FS_Interval
<1>2. DataIn(q) \in SUBSET (1 .. Len(q))
    BY DEF DataIn
<1> QED
    BY <1>1, <1>2, FS_Subset, FS_CardinalityType

LEMMA DataAppended ==
    ASSUME NEW q \in Seq(Message), NEW m \in Message
    PROVE  Cardinality(DataIn(Append(q, m))) =
              Cardinality(DataIn(q)) + (IF m.kind = "data" THEN 1 ELSE 0)
<1>1. /\ Len(Append(q, m)) = Len(q) + 1
      /\ \A k \in 1 .. Len(q) : Append(q, m)[k] = q[k]
      /\ Append(q, m)[Len(q) + 1] = m
      /\ Len(q) \in Nat
    BY AppendProperties, LenProperties
<1>2. CASE m.kind = "data"
    <2>1. DataIn(Append(q, m)) = DataIn(q) \cup {Len(q) + 1}
        BY <1>1, <1>2 DEF DataIn
    <2>2. Len(q) + 1 \notin DataIn(q)
        BY <1>1 DEF DataIn
    <2> QED
        BY <1>2, <2>1, <2>2, DataIsFinite, FS_AddElement
<1>3. CASE m.kind # "data"
    <2>1. DataIn(Append(q, m)) = DataIn(q)
        BY <1>1, <1>3 DEF DataIn
    <2> QED
        BY <1>3, <2>1, DataIsFinite
<1> QED
    BY <1>2, <1>3

LEMMA DataPopped ==
    ASSUME NEW q \in Seq(Message), q # <<>>
    PROVE  Cardinality(DataIn(q)) =
              Cardinality(DataIn(Tail(q))) + (IF Head(q).kind = "data" THEN 1 ELSE 0)
<1> DEFINE T == DataIn(Tail(q))
           U == DataIn(q) \ {1}
           next == [n \in T |-> n + 1]
<1>1. /\ Tail(q) \in Seq(Message) /\ Len(q) \in Nat /\ Len(q) # 0
      /\ Len(Tail(q)) = Len(q) - 1
      /\ \A i \in 1 .. Len(q) - 1 : Tail(q)[i] = q[i + 1]
      /\ Head(q) = q[1]
    BY HeadTailProperties, EmptySeq
<1>2. next \in [T -> U]
    <2> SUFFICES ASSUME NEW n \in T PROVE n + 1 \in U
        OBVIOUS
    <2> QED
        BY <1>1 DEF DataIn
<1>3. \A m, n \in T : next[m] = next[n] => m = n
    BY <1>1 DEF DataIn
<1>4. \A n \in U : \E m \in T : next[m] = n
    <2> SUFFICES ASSUME NEW n \in U PROVE n - 1 \in T /\ next[n - 1] = n
        OBVIOUS
    <2>1. n \in 2 .. Len(q) /\ q[n].kind = "data"
        BY <1>1 DEF DataIn
    <2>2. n - 1 \in 1 .. Len(q) - 1 /\ (n - 1) + 1 = n
        BY <1>1, <2>1
    <2>3. Tail(q)[n - 1] = q[n]
        BY <1>1, <2>2
    <2>4. n - 1 \in T
        BY <1>1, <2>1, <2>2, <2>3 DEF DataIn
    <2> QED
        BY <2>2, <2>4
<1> HIDE DEF T, U, next
<1>5. next \in Bijection(T, U)
    <2>1. DOMAIN next = T
        BY <1>2
    <2> QED
        BY <1>2, <1>3, <1>4, <2>1 DEF Bijection, Injection, IsInjective, Surjection
<1>6. ExistsBijection(T, U)
    BY <1>5 DEF ExistsBijection
<1>7. IsFiniteSet(T)
    BY <1>1, DataIsFinite DEF T
<1>8. Cardinality(U) = Cardinality(T)
    BY <1>6, <1>7, FS_Bijection
<1>9. /\ IsFiniteSet(DataIn(q)) /\ Cardinality(DataIn(q)) \in Nat
      /\ Cardinality(U) = IF 1 \in DataIn(q) THEN Cardinality(DataIn(q)) - 1
                                             ELSE Cardinality(DataIn(q))
    BY DataIsFinite, FS_RemoveElement DEF U
<1>10. 1 \in DataIn(q) <=> Head(q).kind = "data"
    BY <1>1 DEF DataIn
<1> QED
    BY <1>8, <1>9, <1>10 DEF T

-----------------------------------------------------------------------------
(* What a step leaves of the tokens and the rings *)

LEMMA WordsOfSlot ==
    ASSUME NEW w \in Nat \ {0}, NEW m \in Nat, NEW n \in 0 .. m * w
    PROVE  n \div w <= m
<1> DEFINE q == n \div w
<1>1. n \in Nat /\ q \in Nat /\ q * w <= n
    OBVIOUS
<1>2. CASE q <= m
    BY <1>2
<1>3. CASE ~(q <= m)
    <2>1. m + 1 <= q
        BY <1>1, <1>3
    <2>2. (m + 1) * w <= q * w
        BY <1>1, <2>1, MultiplesGrow
    <2>3. (m + 1) * w = m * w + w /\ m * w \in Nat
        OBVIOUS
    <2> QED
        BY <1>1, <2>2, <2>3
<1> QED
    BY <1>2, <1>3

(* A token once registered stays what it is, and once dropped stays so.     *)
OldTokens ==
    /\ Len(tokens) \in Nat /\ Len(tokens) <= Len(tokens')
    /\ \A t \in 1 .. Len(tokens) : tokens'[t] = tokens[t] /\ (t \in alive' => t \in alive)
    /\ words \in Nat /\ words' \in Nat /\ words <= words'

LEMMA RegisterFacts ==
    ASSUME SlotInv, NEW s \in Socket, Register(s)
    PROVE  /\ OldTokens
           /\ Len(tokens') = Len(tokens) + 1 /\ Len(tokens') \in alive'
           /\ tokens'[Len(tokens')].socket = s
           /\ words' <= words + 1
<1> DEFINE f == FreeSlot
           new == Len(tokens) + 1
<1>1. /\ WordBits \in Nat \ {0} /\ words \in Nat /\ words * WordBits \in Nat
      /\ Len(tokens) \in Nat /\ new \notin 1 .. Len(tokens)
    BY PollerAssumption DEF SlotInv, TokensShape
<1>2. f \in 0 .. words * WordBits
    BY <1>1, FreeSlotIsFirst
<1>3. /\ tokens' = Append(tokens, [slot |-> f, socket |-> s])
      /\ alive' = alive \cup {new}
      /\ words' = IF f \div WordBits >= words THEN f \div WordBits + 1 ELSE words
    BY DEF Register, GetFreeToken
<1> HIDE DEF f
<1>4. f \div WordBits <= words /\ f \div WordBits \in Nat
    <2>1. f \div WordBits <= words
        BY <1>1, <1>2, WordsOfSlot
    <2> QED
        BY <1>1, <1>2, <2>1
<1>5. words' \in Nat /\ words <= words' /\ words' <= words + 1
    BY <1>1, <1>3, <1>4
<1>6. tokens \in Seq([slot : Nat, socket : Socket]) /\ f \in Nat
    <2>1. tokens \in Seq([slot : Slot, socket : Socket]) /\ Slot \subseteq Nat
        BY DEF SlotInv, TokensShape, Slot
    <2>2. [slot : Slot, socket : Socket] \subseteq [slot : Nat, socket : Socket]
        BY <2>1
    <2>3. tokens \in Seq([slot : Nat, socket : Socket])
        BY <2>1, <2>2, SeqMonotonic
    <2>4. f \in Nat
        BY <1>1, <1>2
    <2> QED
        BY <2>3, <2>4
<1>7. /\ Len(tokens') = new
      /\ tokens'[new] = [slot |-> f, socket |-> s]
      /\ \A t \in 1 .. Len(tokens) : tokens'[t] = tokens[t]
    BY <1>3, <1>6
<1> QED
    BY <1>1, <1>3, <1>5, <1>7 DEF OldTokens

LEMMA OldTokensStay == SlotInv /\ Next => OldTokens
<1> SUFFICES ASSUME SlotInv, Next PROVE OldTokens
    OBVIOUS
<1>0. Len(tokens) \in Nat /\ words \in Nat
    BY DEF SlotInv, TokensShape
<1>1. ASSUME NEW s \in Socket, Register(s) PROVE OldTokens
    BY <1>1, RegisterFacts
<1>2. CASE UNCHANGED <<tokens, words>> /\ alive' \subseteq alive
    BY <1>0, <1>2 DEF OldTokens
<1>3. ASSUME NEW s \in Socket, SendTo(s) \/ NoBuffer(s) \/ BlockingRecv(s)
      PROVE  UNCHANGED <<tokens, words, alive>>
    BY <1>3 DEF SendTo, NoBuffer, BlockingRecv, pollerVars
<1>4. CASE Poll \/ DropToken \/ CallStep \/ TimesOut
    <2>1. UNCHANGED <<tokens, words>> /\ alive' \subseteq alive
        BY <1>4
           DEF Poll, DropToken, CallStep, TimesOut, PushHandle, PushRefused, Scan, Unparked,
               SwapLine, NextEvent, EndEvents, DrainSocket, Await, AwaitUnparked, pollerVars
    <2> QED
        BY <1>2, <2>1
<1>5. CASE WorkerStep \/ \E s \in Socket : Deliver(s)
    <2>1. UNCHANGED <<tokens, words, alive>>
        BY <1>5
           DEF WorkerStep, CheckDropped, SetBit, Unpark, TellWriter, SendDatagram, UpdateRead,
               UpdateWrite, Deliver, pollerVars
    <2> QED
        BY <1>2, <2>1
<1> QED
    BY <1>1, <1>2, <1>3, <1>4, <1>5 DEF Next, Call

(* A handle that a wake may be given to is its own socket's, and its slot   *)
(* leads back to it.                                                        *)
LEMMA HandleSlot ==
    ASSUME IInv, NEW s \in Socket, NEW kind \in Kind, NEW h,
           h = WakeHandle(s, kind), h \in Nat
    PROVE  /\ h \in 1 .. Len(tokens)
           /\ tokens[h].socket = s
           /\ tokens[h].slot \in Slot /\ targets[tokens[h].slot] = h
           /\ tokens[h].slot \in 0 .. words * WordBits - 1
<1>1. h \in HandlesOf(s) /\ h \notin {Nobody, Thread}
    BY PollerAssumption DEF WakeHandle, HandlesOf
<1>2. h \in 1 .. Len(tokens) /\ tokens[h].socket = s /\ InUse(h)
    BY <1>1 DEF IInv, HandlesFit, InUse
<1>3. tokens[h] \in [slot : Slot, socket : Socket]
    BY <1>2, ElementOfSeq DEF IInv, SlotInv, TokensShape
<1>4. targets[tokens[h].slot] = h /\ h # 0
    BY <1>2 DEF IInv, SlotInv, SlotsAreOwn
<1>5. PICK used \in 0 .. Len(tokens) :
          /\ \A n \in Slot : targets[n] # 0 <=> n < used
          /\ used <= words * WordBits
    BY DEF IInv, SlotInv, SlotsFillUp
<1>6. tokens[h].slot < used
    BY <1>3, <1>4, <1>5
<1>7. words * WordBits \in Nat /\ MaxTokens \in Nat
    BY PollerAssumption DEF IInv, SlotInv, TokensShape
<1> QED
    BY <1>2, <1>3, <1>4, <1>5, <1>6, <1>7 DEF Slot

(* What a message adds to a ring, and what one that leaves keeps.           *)
LEMMA RingGrows ==
    ASSUME RingsShape, NEW s \in Socket, NEW m \in Message,
           ring' = [ring EXCEPT ![s] = Append(ring[s], m)]
    PROVE  /\ \A r \in Socket, kind \in {"data", "read", "write"} :
                 InRing(r, kind) => InRing(r, kind)'
           /\ Len(ring'[s]) = Len(ring[s]) + 1
           /\ \A r \in Socket : \A n \in 1 .. Len(ring'[r]) :
                 \/ n \in 1 .. Len(ring[r]) /\ ring'[r][n] = ring[r][n]
                 \/ r = s /\ ring'[r][n] = m
<1>1. ring[s] \in Seq(Message) /\ ring'[s] = Append(ring[s], m)
      /\ \A r \in Socket \ {s} : ring'[r] = ring[r]
    BY DEF RingsShape
<1>2. /\ Len(ring'[s]) = Len(ring[s]) + 1
      /\ \A k \in 1 .. Len(ring[s]) : ring'[s][k] = ring[s][k]
      /\ ring'[s][Len(ring[s]) + 1] = m
      /\ Len(ring[s]) \in Nat
    BY <1>1, AppendProperties, LenProperties
<1>3. ASSUME NEW r \in Socket, NEW kind, InRing(r, kind) PROVE InRing(r, kind)'
    <2>1. CASE r # s
        BY <1>1, <1>3, <2>1 DEF InRing
    <2>2. CASE r = s
        BY <1>2, <1>3, <2>2 DEF InRing
    <2> QED
        BY <2>1, <2>2
<1>4. ASSUME NEW r \in Socket, NEW n \in 1 .. Len(ring'[r])
      PROVE  \/ n \in 1 .. Len(ring[r]) /\ ring'[r][n] = ring[r][n]
             \/ r = s /\ ring'[r][n] = m
    <2>1. CASE r # s
        BY <1>1, <1>4, <2>1
    <2>2. CASE r = s
        BY <1>2, <1>4, <2>2
    <2> QED
        BY <2>1, <2>2
<1> QED
    BY <1>2, <1>3, <1>4

LEMMA RingShrinks ==
    ASSUME RingsShape, NEW s \in Socket, ring[s] # <<>>,
           ring' = [ring EXCEPT ![s] = Tail(ring[s])]
    PROVE  /\ \A r \in Socket, kind \in {"data", "read", "write"} :
                 InRing(r, kind) => InRing(r, kind)' \/ (r = s /\ Head(ring[s]).kind = kind)
           /\ Len(ring'[s]) = Len(ring[s]) - 1
           /\ Head(ring[s]) \in Message
<1>1. ring[s] \in Seq(Message) /\ ring'[s] = Tail(ring[s])
      /\ \A r \in Socket \ {s} : ring'[r] = ring[r]
    BY DEF RingsShape
<1>2. /\ Len(ring'[s]) = Len(ring[s]) - 1
      /\ \A i \in 1 .. Len(ring[s]) - 1 : ring'[s][i] = ring[s][i + 1]
      /\ Head(ring[s]) = ring[s][1] /\ Head(ring[s]) \in Message
      /\ Len(ring[s]) \in Nat
    <2> DEFINE q == ring[s]
    <2>1. q \in Seq(Message) /\ q # <<>> /\ ring'[s] = Tail(q)
        BY <1>1
    <2> HIDE DEF q
    <2>2. /\ Len(Tail(q)) = Len(q) - 1 /\ Len(q) \in Nat
          /\ \A i \in 1 .. Len(q) - 1 : Tail(q)[i] = q[i + 1]
          /\ Head(q) = q[1] /\ Head(q) \in Message
        BY <2>1, HeadTailProperties, LenProperties
    <2> QED
        BY <2>1, <2>2 DEF q
<1>3. ASSUME NEW r \in Socket, NEW kind, InRing(r, kind)
      PROVE  InRing(r, kind)' \/ (r = s /\ Head(ring[s]).kind = kind)
    <2>1. CASE r # s
        BY <1>1, <1>3, <2>1 DEF InRing
    <2>2. CASE r = s
        <3>1. PICK n \in 1 .. Len(ring[s]) : ring[s][n].kind = kind
            BY <1>3, <2>2 DEF InRing
        <3>2. CASE n = 1
            BY <1>2, <2>2, <3>1, <3>2
        <3>3. CASE n # 1
            <4>1. n - 1 \in 1 .. Len(ring[s]) - 1 /\ (n - 1) + 1 = n
                BY <1>2, <3>1, <3>3
            <4>2. ring'[s][n - 1] = ring[s][n]
                BY <1>2, <4>1
            <4> QED
                BY <1>2, <2>2, <3>1, <4>1, <4>2 DEF InRing
        <3> QED
            BY <3>2, <3>3
    <2> QED
        BY <2>1, <2>2
<1> QED
    BY <1>2, <1>3

-----------------------------------------------------------------------------
(* The invariant is inductive: shapes *)

Works == WorkerStep \/ \E s \in Socket : Deliver(s)

LEMMA NextIsEither == Next <=> Call \/ CallStep \/ TimesOut \/ Works
BY DEF Next, Works

LEMMA WorkerLeavesThread ==
    Works => UNCHANGED <<user, on, todo, at, captured, tokens, alive, targets, words>>
BY DEF Works, WorkerStep, CheckDropped, SetBit, Unpark, TellWriter, SendDatagram, UpdateRead,
       UpdateWrite, Deliver, userVars, pollerVars

LEMMA ThreadLeavesWorker ==
    Call \/ CallStep \/ TimesOut => UNCHANGED <<worker, readHandle, writeHandle>>
<1>1. ASSUME NEW s \in Socket, Register(s) \/ SendTo(s) \/ NoBuffer(s) \/ BlockingRecv(s)
      PROVE  UNCHANGED <<worker, readHandle, writeHandle>>
    BY <1>1 DEF Register, SendTo, NoBuffer, BlockingRecv, handles
<1>2. CASE Poll \/ DropToken \/ TimesOut \/ CallStep
    BY <1>2
       DEF Poll, DropToken, CallStep, TimesOut, PushHandle, PushRefused, Scan, Unparked,
           SwapLine, NextEvent, EndEvents, DrainSocket, Await, AwaitUnparked, handles
<1> QED
    BY <1>1, <1>2 DEF Call

(* A call asks for one kind or both.                                        *)
LEMMA CallsAsk ==
    ASSUME NEW q \in Calls \cup {<<>>} \cup {<<k>> : k \in Kind}, q # <<>>
    PROVE  /\ Head(q) \in Kind
           /\ Tail(q) \in {<<>>} \cup {<<k>> : k \in Kind}
           /\ Len(q) # 1 => Tail(q) # <<>>
<1>1. q \in {<<"read", "write">>} \cup {<<k>> : k \in Kind} /\ {"read", "write"} = Kind
    BY PollerAssumption DEF Kind
<1>2. CASE q = <<"read", "write">>
    BY <1>1, <1>2
<1>3. ASSUME NEW k \in Kind, q = <<k>>
      PROVE  Head(q) = k /\ Tail(q) = <<>> /\ Len(q) = 1
    BY <1>3
<1> QED
    BY <1>1, <1>2, <1>3

LEMMA UserStep ==
    ASSUME IInv, Next
    PROVE  /\ user' \in {"idle", "register", "scan", "park", "swap", "events", "read", "await",
                         "await_park"}
           /\ todo' \in Calls \cup {<<>>} \cup {<<k>> : k \in Kind}
<1>0. /\ user \in {"idle", "register", "scan", "park", "swap", "events", "read", "await",
                   "await_park"}
      /\ todo \in Calls \cup {<<>>} \cup {<<k>> : k \in Kind}
      /\ user = "register" => todo # <<>>
    BY DEF IInv, ThreadShape, SlotInv, RegistersTheNewest
<1>1. ASSUME NEW s \in Socket, Register(s) \/ SendTo(s) \/ NoBuffer(s) \/ BlockingRecv(s)
      PROVE  /\ user' \in {"register", "await", user}
             /\ todo' \in Calls \cup {todo}
    BY <1>1 DEF Register, SendTo, NoBuffer, BlockingRecv, userVars
<1>2. CASE Poll \/ DropToken \/ TimesOut \/ Scan \/ Unparked \/ SwapLine \/ NextEvent \/ EndEvents
           \/ DrainSocket \/ Await \/ AwaitUnparked
    <2>1. todo' = todo
        BY <1>2
           DEF Poll, DropToken, TimesOut, Scan, Unparked, SwapLine, NextEvent, EndEvents,
               DrainSocket, Await, AwaitUnparked, userVars
    <2>2. user' \in {"idle", "scan", "park", "swap", "events", "read", "await", "await_park", user}
        BY <1>2
           DEF Poll, DropToken, TimesOut, Scan, Unparked, SwapLine, NextEvent, EndEvents,
               DrainSocket, Await, AwaitUnparked, userVars
    <2> QED
        BY <1>0, <2>1, <2>2
<1>3. CASE PushHandle
    BY <1>0, <1>3, CallsAsk DEF PushHandle
<1>4. CASE PushRefused
    BY <1>4 DEF PushRefused
<1>5. CASE Works
    BY <1>0, <1>5, WorkerLeavesThread
<1>6. CASE \E s \in Socket : Register(s) \/ SendTo(s) \/ NoBuffer(s) \/ BlockingRecv(s)
    BY <1>0, <1>1, <1>6
<1> QED
    BY <1>2, <1>3, <1>4, <1>5, <1>6, NextIsEither DEF Call, CallStep

(* Where the bits change: SetBit sets one of a handle, a swap moves some.   *)
LEMMA BitSteps ==
    ASSUME Next
    PROVE  \/ /\ bits' \cup captured' \subseteq bits \cup captured
              /\ bits' \subseteq bits
           \/ SetBit
<1>1. ASSUME NEW s \in Socket, Register(s) \/ SendTo(s) \/ NoBuffer(s) \/ BlockingRecv(s)
      PROVE  UNCHANGED <<bits, captured>>
    BY <1>1 DEF Register, SendTo, NoBuffer, BlockingRecv, userVars
<1>2. CASE Poll \/ DropToken \/ TimesOut \/ PushHandle \/ PushRefused \/ Scan \/ Unparked
           \/ EndEvents \/ DrainSocket \/ Await \/ AwaitUnparked
    <2>1. UNCHANGED <<bits, captured>>
        BY <1>2
           DEF Poll, DropToken, TimesOut, PushHandle, PushRefused, Scan, Unparked, EndEvents,
               DrainSocket, Await, AwaitUnparked, userVars
    <2> QED
        BY <2>1
<1>3. CASE SwapLine
    BY <1>3 DEF SwapLine, ClearedBy, BitsOf
<1>4. CASE NextEvent
    BY <1>4 DEF NextEvent
<1>5. CASE Works
    <2>1. captured' = captured
        BY <1>5, WorkerLeavesThread
    <2>2. SetBit \/ bits' = bits
        BY <1>5
           DEF Works, WorkerStep, CheckDropped, Unpark, TellWriter, SendDatagram, UpdateRead,
               UpdateWrite, Deliver
    <2> QED
        BY <2>1, <2>2
<1> QED
    BY <1>1, <1>2, <1>3, <1>4, <1>5, NextIsEither DEF Call, CallStep

(* The worker's handle, when it sets a bit.                                 *)
LEMMA WakingHandle ==
    ASSUME IInv, worker.at \in {"check", "set"}
    PROVE  /\ worker.socket \in Socket /\ worker.kind \in Kind
           /\ worker.handle = WakeHandle(worker.socket, worker.kind)
           /\ worker.handle \in 1 .. Len(tokens) /\ worker.handle \in Nat
           /\ worker = Waking(worker.at, worker.socket, worker.kind, worker.handle)
<1>1. worker # Idle /\ \A s \in Socket : worker # Popped(s)
    BY DEF Idle, Popped
<1>2. \A s \in Socket, kind \in Kind : worker # Waking("unpark", s, kind, Thread)
    BY DEF Waking
<1>3. PICK step \in {"check", "set", "unpark"} : Wakes(step)
    BY <1>1, <1>2 DEF IInv, WorkerShape
<1>4. PICK s \in Socket, kind \in Kind :
        /\ WakeHandle(s, kind) \in 1 .. Len(tokens)
        /\ worker = Waking(step, s, kind, WakeHandle(s, kind))
    BY <1>3 DEF Wakes
<1>5. WakeHandle(s, kind) \in Nat
    BY <1>4
<1> HIDE DEF WakeHandle
<1>6. /\ worker.socket = s /\ worker.kind = kind /\ worker.at = step
      /\ worker.handle = WakeHandle(s, kind)
    BY <1>4 DEF Waking
<1> QED
    BY <1>4, <1>5, <1>6

LEMMA BitsStep ==
    ASSUME IInv, Next
    PROVE  (bits \cup captured \subseteq (0 .. words * WordBits - 1) \X Kind)'
<1>0. /\ bits \cup captured \subseteq (0 .. words * WordBits - 1) \X Kind
      /\ OldTokens /\ WordBits \in Nat
    BY OldTokensStay, PollerAssumption DEF IInv, ThreadShape
<1>1. words * WordBits \in Nat /\ words' * WordBits \in Nat /\ words * WordBits <= words' * WordBits
    <2>1. words \in Nat /\ words' \in Nat /\ words <= words' /\ WordBits \in Nat
        BY <1>0 DEF OldTokens
    <2>2. words * WordBits \in Nat
        BY <2>1, MultiplesGrow
    <2>3. words * WordBits <= words' * WordBits /\ words' * WordBits \in Nat
        BY <2>1, MultiplesGrow
    <2> QED
        BY <2>2, <2>3
<1> DEFINE end == words * WordBits
           newEnd == words' * WordBits
<1> HIDE DEF end, newEnd
<1>2. 0 .. end - 1 \subseteq 0 .. newEnd - 1
    BY <1>1 DEF end, newEnd
<1>3. CASE bits' \cup captured' \subseteq bits \cup captured
    BY <1>0, <1>2, <1>3 DEF end, newEnd
<1>4. CASE SetBit
    <2>1. /\ bits' = bits \cup {<<tokens[worker.handle].slot, worker.kind>>}
          /\ captured' = captured /\ words' = words
          /\ worker.at = "set"
        BY <1>4 DEF SetBit, userVars, pollerVars
    <2>2. /\ worker.socket \in Socket /\ worker.kind \in Kind
          /\ worker.handle = WakeHandle(worker.socket, worker.kind) /\ worker.handle \in Nat
        BY <2>1, WakingHandle
    <2>3. tokens[worker.handle].slot \in 0 .. words * WordBits - 1
        BY <2>2, HandleSlot
    <2> QED
        BY <1>0, <2>1, <2>2, <2>3
<1> QED
    BY <1>3, <1>4, BitSteps DEF end, newEnd

(* The message with the handle of the token that is being registered.       *)
LEMMA HandleMessage ==
    ASSUME IInv, PushHandle
    PROVE  /\ Update(Head(todo), Len(tokens)) \in Message
           /\ Update(Head(todo), Len(tokens)).kind # "data"
           /\ Update(Head(todo), Len(tokens)).handle = Len(tokens)
<1>1. todo # <<>> /\ Len(tokens) \in alive
    BY DEF PushHandle, IInv, SlotInv, RegistersTheNewest
<1>2. Len(tokens) \in 1 .. Len(tokens) /\ Len(tokens) <= MaxTokens /\ MaxTokens \in Nat
    BY <1>1, PollerAssumption DEF IInv, SlotInv, TokensShape
<1>3. Len(tokens) \in Token
    BY <1>2 DEF Token
<1>4. Head(todo) \in Kind
    BY <1>1, CallsAsk DEF IInv, ThreadShape
<1> QED
    BY <1>3, <1>4 DEF Update, Message, Handle, Kind

(* The buffers of a socket add up, whatever is pushed and popped.           *)
LEMMA BuffersStep == IInv /\ Next => BuffersAddUp'
<1> SUFFICES ASSUME IInv, Next, NEW r \in Socket
             PROVE  pool'[r] + Cardinality(DataIn(ring'[r])) = PoolSize
    BY DEF BuffersAddUp, DataIn
<1>0. /\ RingsShape /\ on \in Socket /\ pool \in [Socket -> 0 .. PoolSize] /\ PoolSize \in Nat
      /\ pool[r] + Cardinality(DataIn(ring[r])) = PoolSize
      /\ ring[r] \in Seq(Message)
      /\ Cardinality(DataIn(ring[r])) \in Nat /\ pool[r] \in Nat
    <2>1. RingsShape /\ on \in Socket /\ ring[r] \in Seq(Message)
        BY DEF IInv, SlotInv, RingsShape
    <2>2. pool \in [Socket -> 0 .. PoolSize] /\ PoolSize \in Nat
        BY PollerAssumption DEF IInv, SocketsShape
    <2>3. pool[r] \in Nat
        BY <2>2
    <2>4. pool[r] + Cardinality(DataIn(ring[r])) = PoolSize
        BY DEF IInv, BuffersAddUp
    <2>5. Cardinality(DataIn(ring[r])) \in Nat
        BY <2>1, DataIsFinite
    <2> QED
        BY <2>1, <2>2, <2>3, <2>4, <2>5
<1>1. CASE UNCHANGED <<pool, ring>>
    BY <1>0, <1>1
<1>2. ASSUME NEW s \in Socket, NEW m \in Message, m.kind # "data",
             ring' = [ring EXCEPT ![s] = Append(ring[s], m)], pool' = pool
      PROVE  pool'[r] + Cardinality(DataIn(ring'[r])) = PoolSize
    <2>1. CASE r # s
        BY <1>0, <1>2, <2>1 DEF RingsShape
    <2>2. CASE r = s
        <3>1. ring'[r] = Append(ring[r], m)
            BY <1>0, <1>2, <2>2 DEF RingsShape
        <3>2. Cardinality(DataIn(Append(ring[r], m))) = Cardinality(DataIn(ring[r])) + 0
            BY <1>0, <1>2, DataAppended
        <3> QED
            BY <1>0, <1>2, <3>1, <3>2
    <2> QED
        BY <2>1, <2>2
<1>3. ASSUME NEW s \in Socket, SendTo(s)
      PROVE  pool'[r] + Cardinality(DataIn(ring'[r])) = PoolSize
    <2>1. /\ ring' = [ring EXCEPT ![s] = Append(ring[s], Data)]
          /\ pool' = [pool EXCEPT ![s] = @ - 1]
        BY <1>3 DEF SendTo
    <2>2. CASE r # s
        BY <1>0, <2>1, <2>2 DEF RingsShape
    <2>3. CASE r = s
        <3>1. ring'[r] = Append(ring[r], Data) /\ pool'[r] = pool[r] - 1
            BY <1>0, <2>1, <2>3 DEF RingsShape
        <3>2. Data \in Message /\ Data.kind = "data"
            BY DEF Message, Data
        <3>3. Cardinality(DataIn(Append(ring[r], Data))) = Cardinality(DataIn(ring[r])) + 1
            BY <1>0, <3>2, DataAppended
        <3> QED
            BY <1>0, <3>1, <3>3
    <2> QED
        BY <2>2, <2>3
<1>4. ASSUME NEW s \in Socket, BlockingRecv(s)
      PROVE  pool'[r] + Cardinality(DataIn(ring'[r])) = PoolSize
    <2>1. Update("read", Thread) \in Message /\ Update("read", Thread).kind # "data"
        BY DEF Update, Message, Kind, Handle
    <2> QED
        BY <1>2, <1>4, <2>1 DEF BlockingRecv
<1>5. CASE PushHandle
    <2>1. Update(Head(todo), Len(tokens)) \in Message
          /\ Update(Head(todo), Len(tokens)).kind # "data"
        BY <1>5, HandleMessage
    <2> QED
        BY <1>0, <1>2, <1>5, <2>1 DEF PushHandle
<1>6. ASSUME NEW s \in Socket, SendDatagram(s) \/ UpdateRead(s) \/ UpdateWrite(s)
      PROVE  pool'[r] + Cardinality(DataIn(ring'[r])) = PoolSize
    <2>1. ring[s] # <<>> /\ ring' = [ring EXCEPT ![s] = Tail(ring[s])]
        BY <1>6 DEF SendDatagram, UpdateRead, UpdateWrite, PopMessage
    <2>2. pool' = IF Head(ring[s]).kind = "data" THEN [pool EXCEPT ![s] = @ + 1] ELSE pool
        BY <1>6 DEF SendDatagram, UpdateRead, UpdateWrite, PopMessage
    <2>3. CASE r # s
        BY <1>0, <2>1, <2>2, <2>3 DEF RingsShape
    <2>4. CASE r = s
        <3>1. /\ ring'[r] = Tail(ring[r])
              /\ pool'[r] = IF Head(ring[r]).kind = "data" THEN pool[r] + 1 ELSE pool[r]
            BY <1>0, <2>1, <2>2, <2>4 DEF RingsShape
        <3>2. Cardinality(DataIn(ring[r])) =
                 Cardinality(DataIn(Tail(ring[r]))) + (IF Head(ring[r]).kind = "data" THEN 1 ELSE 0)
            BY <1>0, <2>1, <2>4, DataPopped
        <3>3. Cardinality(DataIn(Tail(ring[r]))) \in Nat
            BY <1>0, <2>1, <2>4, HeadTailProperties, DataIsFinite
        <3> QED
            BY <1>0, <3>1, <3>2, <3>3
    <2> QED
        BY <2>3, <2>4
<1>7. CASE Poll \/ DropToken \/ TimesOut \/ PushRefused \/ Scan \/ Unparked \/ NextEvent
           \/ SwapLine \/ EndEvents \/ AwaitUnparked \/ DrainSocket \/ Await
           \/ CheckDropped \/ SetBit \/ Unpark \/ TellWriter
    <2>1. UNCHANGED <<ring, pool>>
        BY <1>7
           DEF Poll, DropToken, TimesOut, PushRefused, Scan, Unparked, SwapLine, EndEvents,
               AwaitUnparked, NextEvent, DrainSocket, Await, CheckDropped, SetBit, Unpark,
               TellWriter, socketVars
    <2> QED
        BY <1>1, <2>1
<1>8. ASSUME NEW s \in Socket, Register(s) \/ NoBuffer(s) \/ Deliver(s)
      PROVE  pool'[r] + Cardinality(DataIn(ring'[r])) = PoolSize
    <2>1. UNCHANGED <<ring, pool>>
        BY <1>8 DEF Register, NoBuffer, Deliver, socketVars
    <2> QED
        BY <1>1, <2>1
<1> QED
    BY <1>3, <1>4, <1>5, <1>6, <1>7, <1>8, NextIsEither DEF Call, CallStep, Works, WorkerStep

(* A buffer that comes back is one that was away.                           *)
LEMMA BufferComesBack ==
    ASSUME IInv, NEW s \in Socket, SendDatagram(s)
    PROVE  pool' \in [Socket -> 0 .. PoolSize]
<1>1. /\ ring[s] \in Seq(Message) /\ ring[s] # <<>> /\ Head(ring[s]).kind = "data"
      /\ pool' = [pool EXCEPT ![s] = @ + 1]
    BY DEF SendDatagram, PopMessage, IInv, SlotInv, RingsShape
<1>2. /\ pool \in [Socket -> 0 .. PoolSize] /\ PoolSize \in Nat
      /\ pool[s] + Cardinality(DataIn(ring[s])) = PoolSize
    BY PollerAssumption DEF IInv, SocketsShape, BuffersAddUp
<1>3. Tail(ring[s]) \in Seq(Message)
    BY <1>1, HeadTailProperties
<1>4. /\ Cardinality(DataIn(ring[s])) = Cardinality(DataIn(Tail(ring[s]))) + 1
      /\ Cardinality(DataIn(Tail(ring[s]))) \in Nat
    BY <1>1, <1>3, DataPopped, DataIsFinite
<1>5. pool[s] + 1 \in 0 .. PoolSize
    BY <1>2, <1>4
<1> QED
    BY <1>1, <1>2, <1>5

(* Every message in a ring and every handle kept is of a known shape.       *)
LEMMA SocketsStep == IInv /\ Next => SocketsShape'
<1> SUFFICES ASSUME IInv, Next PROVE SocketsShape'
    OBVIOUS
<1>0. SocketsShape /\ RingsShape /\ on \in Socket /\ SlotInv
    BY DEF IInv, SlotInv, RingsShape
<1>00. /\ {SendCapacity, RecvCapacity, PoolSize} \subseteq Nat
       /\ {MaxTokens, MaxPackets, MaxSends} \subseteq Nat
       /\ \A s \in Socket : ring[s] \in Seq(Message) /\ Len(ring[s]) \in Nat
    BY <1>0, PollerAssumption, LenProperties DEF RingsShape
<1>1. CASE UNCHANGED <<ring, pool, packets, writer, readHandle, writeHandle, arrived, sends>>
    BY <1>0, <1>1 DEF SocketsShape
<1>2. CASE UNCHANGED <<ring, pool, packets, readHandle, writeHandle, arrived, sends>>
           /\ writer' \in [Socket -> {"content", "refused", "missed"}]
    BY <1>0, <1>2 DEF SocketsShape
<1>3. ASSUME NEW s \in Socket, NEW m \in Message, RingHasRoom(s),
             ring' = [ring EXCEPT ![s] = Append(ring[s], m)],
             UNCHANGED <<packets, readHandle, writeHandle, arrived>>,
             pool' \in [Socket -> 0 .. PoolSize],
             writer' \in [Socket -> {"content", "refused", "missed"}],
             sends' \in 0 .. MaxSends
      PROVE  SocketsShape'
    <2>1. Len(ring'[s]) = Len(ring[s]) + 1 /\ \A r \in Socket \ {s} : ring'[r] = ring[r]
        BY <1>0, <1>3, RingGrows DEF RingsShape
    <2>2. Len(ring[s]) + 1 <= SendCapacity
        BY <1>00, <1>3 DEF RingHasRoom
    <2>3. \A r \in Socket \ {s} : Len(ring[r]) <= SendCapacity
        BY <1>0 DEF SocketsShape
    <2>4. \A r \in Socket : Len(ring'[r]) <= SendCapacity
        BY <2>1, <2>2, <2>3
    <2> QED
        BY <1>0, <1>3, <2>4 DEF SocketsShape
<1>4. ASSUME NEW s \in Socket, SendTo(s) PROVE SocketsShape'
    <2>1. Data \in Message /\ RingHasRoom(s) /\ pool[s] > 0 /\ sends < MaxSends
        BY <1>4 DEF SendTo, Message
    <2>2. /\ ring' = [ring EXCEPT ![s] = Append(ring[s], Data)]
          /\ pool' = [pool EXCEPT ![s] = @ - 1]
          /\ writer' = [writer EXCEPT ![s] = "content"]
          /\ sends' = sends + 1
          /\ UNCHANGED <<packets, readHandle, writeHandle, arrived>>
        BY <1>4 DEF SendTo, handles
    <2>3. pool' \in [Socket -> 0 .. PoolSize]
        <3>1. pool \in [Socket -> 0 .. PoolSize] /\ PoolSize \in Nat
            BY <1>0, <1>00 DEF SocketsShape
        <3>2. pool[s] - 1 \in 0 .. PoolSize
            BY <2>1, <3>1
        <3> QED
            BY <2>2, <3>1, <3>2
    <2>4. writer' \in [Socket -> {"content", "refused", "missed"}]
        BY <1>0, <2>2 DEF SocketsShape
    <2>5. sends' \in 0 .. MaxSends
        BY <1>0, <1>00, <2>1, <2>2 DEF SocketsShape
    <2> QED
        BY <1>3, <2>1, <2>2, <2>3, <2>4, <2>5
<1>5. ASSUME NEW s \in Socket, BlockingRecv(s) PROVE SocketsShape'
    <2>1. Update("read", Thread) \in Message /\ RingHasRoom(s)
        BY <1>5 DEF BlockingRecv, Update, Message, Kind, Handle
    <2> QED
        BY <1>0, <1>3, <1>5, <2>1 DEF BlockingRecv, SocketsShape, handles, counters
<1>6. CASE PushHandle
    <2>1. RingHasRoom(on)
        BY <1>6 DEF PushHandle
    <2>2. Update(Head(todo), Len(tokens)) \in Message
        BY <1>6, HandleMessage
    <2> QED
        BY <1>0, <1>3, <1>6, <2>1, <2>2 DEF PushHandle, SocketsShape, handles, counters
<1>7. ASSUME NEW s \in Socket, NoBuffer(s) PROVE SocketsShape'
    BY <1>0, <1>2, <1>7 DEF NoBuffer, SocketsShape, handles, counters
<1>8. CASE NextEvent
    <2>1. writer' = writer \/ \E s \in Socket : writer' = [writer EXCEPT ![s] = "content"]
        <3>1. on' \in Socket
            <4>1. ASSUME NEW t \in alive PROVE tokens[t].socket \in Socket
                <5>1. tokens[t] \in [slot : Slot, socket : Socket]
                    BY ElementOfSeq DEF IInv, SlotInv, TokensShape
                <5> QED
                    BY <5>1
            <4> QED
                BY <1>0, <1>8, <4>1 DEF NextEvent
        <3> QED
            BY <1>8, <3>1 DEF NextEvent
    <2>2. writer' \in [Socket -> {"content", "refused", "missed"}]
        BY <1>0, <2>1 DEF SocketsShape
    <2> QED
        BY <1>2, <1>8, <2>2 DEF NextEvent, handles, counters
<1>9. CASE DrainSocket \/ Await
    <2>1. packets' \in [Socket -> 0 .. RecvCapacity]
        <3>1. packets \in [Socket -> 0 .. RecvCapacity] /\ RecvCapacity \in Nat
            BY <1>0, <1>00 DEF SocketsShape
        <3>2. packets' = packets \/ (packets[on] > 0 /\ packets' = [packets EXCEPT ![on] = @ - 1])
            BY <1>9 DEF DrainSocket, Await
        <3>3. packets[on] > 0 => packets[on] - 1 \in 0 .. RecvCapacity
            BY <1>0, <3>1
        <3> QED
            BY <1>0, <3>1, <3>2, <3>3
    <2> QED
        BY <1>0, <1>9, <2>1 DEF DrainSocket, Await, SocketsShape, handles, counters
<1>10. CASE Poll \/ DropToken \/ TimesOut \/ PushRefused \/ Scan \/ Unparked
            \/ SwapLine \/ EndEvents \/ AwaitUnparked
    <2>1. UNCHANGED <<ring, pool, packets, writer, readHandle, writeHandle, arrived, sends>>
        BY <1>10
           DEF Poll, DropToken, TimesOut, PushRefused, Scan, Unparked, SwapLine, EndEvents,
               AwaitUnparked, socketVars, handles, counters
    <2> QED
        BY <1>1, <2>1
<1>11. ASSUME NEW s \in Socket, Register(s) PROVE SocketsShape'
    BY <1>1, <1>11 DEF Register, socketVars, handles, counters
<1>12. CASE CheckDropped \/ SetBit \/ Unpark
    BY <1>1, <1>12 DEF CheckDropped, SetBit, Unpark, socketVars, handles, counters
<1>13. CASE TellWriter
    <2>1. writer' = writer
             \/ \E v \in {"missed", "content", "refused"} :
                   writer' = [writer EXCEPT ![worker.socket] = v]
        BY <1>0, <1>13 DEF TellWriter, SocketsShape
    <2> QED
        BY <1>0, <1>2, <1>13, <2>1 DEF TellWriter, SocketsShape, handles, counters
<1>14. ASSUME NEW s \in Socket, Deliver(s) PROVE SocketsShape'
    <2>1. /\ UNCHANGED <<ring, pool, writer, readHandle, writeHandle, sends>>
          /\ packets' = [packets EXCEPT ![s] = @ + 1] /\ packets[s] < RecvCapacity
          /\ arrived' = arrived + 1 /\ arrived < MaxPackets
        BY <1>14 DEF Deliver, handles
    <2>2. packets' \in [Socket -> 0 .. RecvCapacity]
        <3>1. packets \in [Socket -> 0 .. RecvCapacity]
            BY <1>0 DEF SocketsShape
        <3>2. packets[s] + 1 \in 0 .. RecvCapacity
            BY <1>00, <2>1, <3>1
        <3> QED
            BY <2>1, <3>1, <3>2
    <2>3. arrived' \in 0 .. MaxPackets
        BY <1>0, <1>00, <2>1 DEF SocketsShape
    <2> QED
        BY <1>0, <2>1, <2>2, <2>3 DEF SocketsShape
<1>15. ASSUME NEW s \in Socket, SendDatagram(s) \/ UpdateRead(s) \/ UpdateWrite(s)
       PROVE  SocketsShape'
    <2>1. ring[s] # <<>> /\ ring' = [ring EXCEPT ![s] = Tail(ring[s])]
        BY <1>15 DEF SendDatagram, UpdateRead, UpdateWrite, PopMessage
    <2>2. /\ Len(ring'[s]) = Len(ring[s]) - 1 /\ Head(ring[s]) \in Message
          /\ \A r \in Socket \ {s} : ring'[r] = ring[r]
        BY <1>0, <2>1, RingShrinks DEF RingsShape
    <2>3. \A r \in Socket : Len(ring'[r]) <= SendCapacity
        <3>1. \A r \in Socket : Len(ring[r]) <= SendCapacity
            BY <1>0 DEF SocketsShape
        <3>2. Len(ring[s]) - 1 <= SendCapacity
            BY <1>00, <3>1
        <3> QED
            BY <2>2, <3>1, <3>2
    <2>4. Head(ring[s]).handle \in Handle
        BY <2>2 DEF Message, Data, Handle
    <2>5. pool' \in [Socket -> 0 .. PoolSize]
        BY <1>0, <1>15, BufferComesBack DEF UpdateRead, UpdateWrite, SocketsShape
    <2>6. UNCHANGED <<packets, writer, arrived, sends>>
        BY <1>15 DEF SendDatagram, UpdateRead, UpdateWrite, counters
    <2>7. /\ readHandle' \in [Socket -> Handle]
          /\ writeHandle' \in [Socket -> Handle]
        BY <1>0, <1>15, <2>4 DEF SendDatagram, UpdateRead, UpdateWrite, SocketsShape, handles
    <2> QED
        BY <1>0, <2>3, <2>5, <2>6, <2>7 DEF SocketsShape
<1> QED
    BY <1>4, <1>5, <1>6, <1>7, <1>8, <1>9, <1>10, <1>11, <1>12, <1>13, <1>14, <1>15, NextIsEither
       DEF Call, CallStep, Works, WorkerStep

-----------------------------------------------------------------------------
(* The invariant is inductive: handles and the worker *)

LEMMA SlotInvPrime ==
    ASSUME IInv, Next
    PROVE  SlotInv' /\ Len(tokens') \in Nat
<1>1. SlotInv'
    BY NextKeepsSlots DEF IInv
<1>2. tokens' \in Seq([slot : Slot, socket : Socket])
    BY <1>1 DEF SlotInv, TokensShape
<1> QED
    BY <1>1, <1>2, LenProperties

LEMMA HandlesStep == IInv /\ Next => HandlesFit'
<1> SUFFICES ASSUME IInv, Next, NEW r \in Socket, NEW h, h \in HandlesOf(r)'
             PROVE  h \in {Nobody, Thread} \/ (h \in 1 .. Len(tokens') /\ tokens'[h].socket = r)
    BY DEF HandlesFit
<1>0. SlotInv /\ RingsShape /\ on \in Socket /\ OldTokens
    BY OldTokensStay DEF IInv, SlotInv, RingsShape
<1>1. CASE h \in HandlesOf(r) \cup {Nobody, Thread}
    <2>1. h \in {Nobody, Thread} \/ (h \in 1 .. Len(tokens) /\ tokens[h].socket = r)
        BY <1>1 DEF IInv, HandlesFit
    <2>2. ASSUME h \in 1 .. Len(tokens) PROVE h \in 1 .. Len(tokens') /\ tokens'[h] = tokens[h]
        BY <1>0, <2>2, SlotInvPrime DEF OldTokens
    <2> QED
        BY <2>1, <2>2
<1>2. CASE UNCHANGED <<ring, readHandle, writeHandle>>
    <2>1. h \in HandlesOf(r)
        BY <1>2 DEF HandlesOf
    <2> QED
        BY <1>1, <2>1
<1>3. ASSUME NEW s \in Socket, SendTo(s) \/ BlockingRecv(s)
      PROVE  h \in HandlesOf(r) \cup {Nobody, Thread}
    <2>1. PICK m \in Message : /\ m.handle \in {Nobody, Thread}
                               /\ ring' = [ring EXCEPT ![s] = Append(ring[s], m)]
        <3>1. Data \in Message /\ Data.handle = Nobody
            BY DEF Data, Message
        <3>2. Update("read", Thread) \in Message /\ Update("read", Thread).handle = Thread
            BY DEF Update, Message, Kind, Handle
        <3> QED
            BY <1>3, <3>1, <3>2 DEF SendTo, BlockingRecv
    <2>2. UNCHANGED <<tokens, alive, targets, words, readHandle, writeHandle>> /\ on' \in Socket
        BY <1>0, <1>3 DEF SendTo, BlockingRecv, userVars, pollerVars, handles
    <2> QED
        BY <1>0, <2>1, <2>2, AppendKeepsTokens
<1>4. CASE PushHandle
    <2> DEFINE m == Update(Head(todo), Len(tokens))
    <2>1. m \in Message /\ m.handle = Len(tokens)
        BY <1>4, HandleMessage
    <2>2. /\ ring' = [ring EXCEPT ![on] = Append(ring[on], m)]
          /\ UNCHANGED <<tokens, readHandle, writeHandle>>
        BY <1>4 DEF PushHandle, pollerVars, handles
    <2> HIDE DEF m
    <2>3. \A n \in 1 .. Len(ring'[r]) :
             \/ n \in 1 .. Len(ring[r]) /\ ring'[r][n] = ring[r][n]
             \/ r = on /\ ring'[r][n] = m
        BY <1>0, <2>1, <2>2, RingGrows
    <2>4. h \in HandlesOf(r) \/ (r = on /\ h = Len(tokens))
        BY <2>1, <2>2, <2>3 DEF HandlesOf
    <2>5. Len(tokens) \in 1 .. Len(tokens) /\ tokens[Len(tokens)].socket = on
        <3>1. user = "register" /\ Len(tokens) \in alive
            BY <1>4 DEF PushHandle, IInv, SlotInv, RegistersTheNewest
        <3> QED
            BY <3>1 DEF IInv, RegistersFor, SlotInv, TokensShape
    <2>6. CASE r = on /\ h = Len(tokens)
        BY <2>2, <2>5, <2>6
    <2> QED
        BY <1>1, <2>4, <2>6
<1>5. ASSUME NEW s \in Socket, SendDatagram(s) \/ UpdateRead(s) \/ UpdateWrite(s)
      PROVE  h \in HandlesOf(r)
    <2>1. ring[s] # <<>> /\ ring' = [ring EXCEPT ![s] = Tail(ring[s])]
        BY <1>5 DEF SendDatagram, UpdateRead, UpdateWrite, PopMessage
    <2>2. /\ \/ readHandle' = readHandle
             \/ readHandle' = [readHandle EXCEPT ![s] = Head(ring[s]).handle]
          /\ \/ writeHandle' = writeHandle
             \/ writeHandle' = [writeHandle EXCEPT ![s] = Head(ring[s]).handle]
        BY <1>5 DEF SendDatagram, UpdateRead, UpdateWrite, handles
    <2>3. UNCHANGED <<tokens, alive, targets, words, on>>
        BY <1>5 DEF SendDatagram, UpdateRead, UpdateWrite, userVars, pollerVars
    <2> QED
        BY <1>0, <2>1, <2>2, <2>3, PopKeepsTokens
<1>6. CASE Poll \/ DropToken \/ TimesOut \/ PushRefused \/ Scan \/ Unparked \/ NextEvent
           \/ SwapLine \/ EndEvents \/ AwaitUnparked \/ DrainSocket \/ Await
           \/ CheckDropped \/ SetBit \/ Unpark \/ TellWriter
    <2>1. UNCHANGED <<ring, readHandle, writeHandle>>
        BY <1>6
           DEF Poll, DropToken, TimesOut, PushRefused, Scan, Unparked, SwapLine, EndEvents,
               AwaitUnparked, NextEvent, DrainSocket, Await, CheckDropped, SetBit, Unpark,
               TellWriter, socketVars, handles
    <2> QED
        BY <1>2, <2>1
<1>7. ASSUME NEW s \in Socket, Register(s) \/ NoBuffer(s) \/ Deliver(s)
      PROVE  UNCHANGED <<ring, readHandle, writeHandle>>
    BY <1>7 DEF Register, NoBuffer, Deliver, socketVars, handles
<1> QED
    BY <1>1, <1>2, <1>3, <1>4, <1>5, <1>6, <1>7, NextIsEither
       DEF Call, CallStep, Works, WorkerStep

LEMMA RegistersForStep == IInv /\ Next => RegistersFor'
<1> SUFFICES ASSUME IInv, Next, user' = "register"
             PROVE  tokens'[Len(tokens')].socket = on'
    BY DEF RegistersFor
<1>1. ASSUME NEW s \in Socket, Register(s) PROVE tokens'[Len(tokens')].socket = on'
    <2>1. tokens'[Len(tokens')].socket = s
        BY <1>1, RegisterFacts DEF IInv
    <2> QED
        BY <1>1, <2>1 DEF Register
<1>2. CASE user = "register" /\ UNCHANGED <<tokens, on>>
    BY <1>2 DEF IInv, RegistersFor
<1>3. ASSUME NEW s \in Socket, SendTo(s) \/ NoBuffer(s) \/ BlockingRecv(s)
      PROVE  user = "register" /\ UNCHANGED <<tokens, on>>
    BY <1>3 DEF SendTo, NoBuffer, BlockingRecv, userVars
<1>4. CASE Poll \/ DropToken \/ TimesOut \/ PushHandle \/ PushRefused \/ Scan \/ Unparked
           \/ NextEvent \/ SwapLine \/ EndEvents \/ AwaitUnparked \/ DrainSocket \/ Await
    <2>1. user = "register" /\ UNCHANGED <<tokens, on>>
        BY <1>4
           DEF Poll, DropToken, TimesOut, PushHandle, PushRefused, Scan, Unparked, SwapLine,
               EndEvents, AwaitUnparked, NextEvent, DrainSocket, Await, userVars, pollerVars
    <2> QED
        BY <1>2, <2>1
<1>5. CASE Works
    BY <1>2, <1>5, WorkerLeavesThread
<1> QED
    BY <1>1, <1>2, <1>3, <1>4, <1>5, NextIsEither DEF Call, CallStep

(* A wake that begins is for the handle the worker keeps.                   *)
LEMMA BeginWakeShape ==
    ASSUME HandlesFit', NEW s \in Socket, NEW kind \in Kind, NEW h,
           h = WakeHandle(s, kind)', BeginWake(s, kind, h)
    PROVE  WorkerShape'
<1>1. h \in {Nobody, Thread} \/ h \in 1 .. Len(tokens')
    BY DEF HandlesFit, HandlesOf, WakeHandle
<1>2. CASE h = Nobody
    BY <1>2 DEF BeginWake, WorkerShape
<1>3. CASE h = Thread
    <2>1. worker' = Waking("unpark", s, kind, Thread)
        BY <1>3, PollerAssumption DEF BeginWake
    <2> QED
        BY <2>1 DEF WorkerShape
<1>4. CASE h \in 1 .. Len(tokens') /\ h # Nobody /\ h # Thread
    <2>1. worker' = Waking("check", s, kind, h)
        BY <1>4 DEF BeginWake
    <2>2. Wakes("check")'
        BY <1>4, <2>1 DEF Wakes
    <2> QED
        BY <2>2 DEF WorkerShape
<1> QED
    BY <1>1, <1>2, <1>3, <1>4

LEMMA WakesStay ==
    ASSUME OldTokens, UNCHANGED <<readHandle, writeHandle>>, NEW step, NEW next,
           Wakes(step), Len(tokens') \in Nat,
           worker' = [worker EXCEPT !.at = next]
    PROVE  Wakes(next)'
<1>1. PICK s \in Socket, kind \in Kind :
        /\ WakeHandle(s, kind) \in 1 .. Len(tokens)
        /\ worker = Waking(step, s, kind, WakeHandle(s, kind))
    BY DEF Wakes
<1>2. WakeHandle(s, kind)' = WakeHandle(s, kind)
    BY DEF WakeHandle
<1>3. WakeHandle(s, kind) \in 1 .. Len(tokens')
    BY <1>1 DEF OldTokens
<1>4. worker' = Waking(next, s, kind, WakeHandle(s, kind))
    BY <1>1 DEF Waking
<1>5. WakeHandle(s, kind)' \in 1 .. Len(tokens') /\ worker' = Waking(next, s, kind, WakeHandle(s, kind)')
    BY <1>2, <1>3, <1>4
<1> QED
    BY <1>5 DEF Wakes

LEMMA WorkerShapeStep == IInv /\ Next => WorkerShape'
<1> SUFFICES ASSUME IInv, Next PROVE WorkerShape'
    OBVIOUS
<1>0. WorkerShape /\ OldTokens /\ HandlesFit' /\ Len(tokens') \in Nat
    BY OldTokensStay, HandlesStep, SlotInvPrime DEF IInv
<1>1. CASE UNCHANGED <<worker, readHandle, writeHandle>>
    <2>1. ASSUME NEW step, Wakes(step), step = worker.at PROVE Wakes(step)'
        <3>1. worker' = [worker EXCEPT !.at = step]
            BY <1>1, <2>1 DEF Wakes, Waking
        <3> QED
            BY <1>0, <1>1, <2>1, <3>1, WakesStay
    <2>2. \A step : Wakes(step) => step = worker.at
        BY DEF Wakes, Waking
    <2> QED
        BY <1>0, <1>1, <2>1, <2>2 DEF WorkerShape
<1>2. CASE CheckDropped \/ SetBit
    <2>1. worker.at \in {"check", "set"} /\ UNCHANGED <<readHandle, writeHandle>>
        BY <1>2 DEF CheckDropped, SetBit, handles
    <2>2. Wakes(worker.at)
        BY <2>1, WakingHandle DEF Wakes
    <2>3. worker' = Idle \/ \E next \in {"set", "unpark"} : worker' = [worker EXCEPT !.at = next]
        BY <1>2 DEF CheckDropped, SetBit
    <2> QED
        BY <1>0, <2>1, <2>2, <2>3, WakesStay DEF WorkerShape
<1>3. CASE Unpark
    BY <1>3 DEF Unpark, WorkerShape
<1>4. CASE TellWriter
    <2>1. PICK s \in Socket : worker = Popped(s)
        <3>1. worker.at = "popped"
            BY <1>4 DEF TellWriter
        <3> QED
            BY <1>0, <3>1 DEF WorkerShape, Wakes, Idle, Waking
    <2>2. worker.socket = s
        BY <2>1 DEF Popped
    <2>3. CASE worker' = Idle
        BY <2>3 DEF WorkerShape
    <2>4. CASE BeginWake(s, "write", writeHandle[s])
        <3>1. WakeHandle(s, "write")' = writeHandle[s] /\ "write" \in Kind
            BY <1>4 DEF TellWriter, handles, WakeHandle, Kind
        <3> QED
            BY <1>0, <2>4, <3>1, BeginWakeShape
    <2> QED
        BY <1>4, <2>2, <2>3, <2>4 DEF TellWriter
<1>5. ASSUME NEW s \in Socket, Deliver(s) PROVE WorkerShape'
    <2>1. WakeHandle(s, "read")' = readHandle[s] /\ "read" \in Kind
        BY <1>5 DEF Deliver, handles, WakeHandle, Kind
    <2>2. BeginWake(s, "read", readHandle[s])
        BY <1>5 DEF Deliver
    <2> QED
        BY <1>0, <2>1, <2>2, BeginWakeShape
<1>6. ASSUME NEW s \in Socket, SendDatagram(s) PROVE WorkerShape'
    BY <1>6 DEF SendDatagram, WorkerShape
<1>7. ASSUME NEW s \in Socket, UpdateRead(s) PROVE WorkerShape'
    <2>1. WakeHandle(s, "read")' = readHandle'[s] /\ "read" \in Kind
        BY DEF WakeHandle, Kind
    <2>2. BeginWake(s, "read", readHandle'[s]) \/ worker' = Idle
        BY <1>7 DEF UpdateRead, PopMessage
    <2>3. CASE BeginWake(s, "read", readHandle'[s])
        BY <1>0, <2>1, <2>3, BeginWakeShape
    <2> QED
        BY <2>2, <2>3 DEF WorkerShape
<1>8. ASSUME NEW s \in Socket, UpdateWrite(s) PROVE WorkerShape'
    BY <1>8 DEF UpdateWrite, WorkerShape
<1>9. CASE Call \/ CallStep \/ TimesOut
    BY <1>1, <1>9, ThreadLeavesWorker
<1> QED
    BY <1>2, <1>3, <1>4, <1>5, <1>6, <1>7, <1>8, <1>9, NextIsEither DEF Works, WorkerStep

-----------------------------------------------------------------------------
(* The invariant is inductive: the words and what was taken from them       *)

LEMMA LinesStep == IInv /\ Next => LinesFit'
<1> SUFFICES ASSUME IInv, Next PROVE LinesFit'
    OBVIOUS
<1>0. /\ user = "swap" => at \in 1 .. 2 * words
      /\ user # "swap" => at = 1
      /\ words <= Len(tokens) /\ words \in Nat /\ Len(tokens) \in Nat
    BY DEF IInv, LinesFit, SlotInv, TokensShape
<1>1. CASE UNCHANGED <<at, words, tokens>> /\ user' = user
    BY <1>0, <1>1 DEF LinesFit
<1>2. CASE UNCHANGED <<at, words, tokens>> /\ user # "swap" /\ user' # "swap"
    BY <1>0, <1>2 DEF LinesFit
<1>3. ASSUME NEW s \in Socket, Register(s) PROVE LinesFit'
    <2>1. words' <= words + 1 /\ Len(tokens') = Len(tokens) + 1 /\ words' \in Nat
        BY <1>3, RegisterFacts DEF IInv, OldTokens
    <2>2. user = "idle" /\ user' = "register" /\ at' = at
        BY <1>3 DEF Register
    <2> QED
        BY <1>0, <2>1, <2>2 DEF LinesFit
<1>4. ASSUME NEW s \in Socket, SendTo(s) \/ NoBuffer(s) \/ BlockingRecv(s) PROVE LinesFit'
    <2>1. UNCHANGED <<at, words, tokens>>
        BY <1>4 DEF SendTo, NoBuffer, BlockingRecv, userVars, pollerVars
    <2>2. user' = user \/ (user # "swap" /\ user' # "swap")
        BY <1>4 DEF SendTo, NoBuffer, BlockingRecv, userVars
    <2> QED
        BY <1>1, <1>2, <2>1, <2>2
<1>5. CASE Scan
    <2>1. /\ UNCHANGED <<at, words, tokens>> /\ user = "scan"
          /\ user' = IF bits = {} THEN "park" ELSE "swap"
        BY <1>5 DEF Scan, pollerVars
    <2>2. CASE bits = {}
        BY <1>2, <2>1, <2>2
    <2>3. CASE bits # {}
        <3>1. PICK b \in bits : TRUE
            BY <2>3
        <3>2. b[1] \in 0 .. words * WordBits - 1
            BY DEF IInv, ThreadShape
        <3>3. words # 0
            <4>1. ASSUME words = 0 PROVE FALSE
                <5>1. words * WordBits = 0
                    BY <4>1, PollerAssumption
                <5> QED
                    BY <3>2, <5>1
            <4> QED
                BY <4>1
        <3>4. 1 \in 1 .. 2 * words
            BY <1>0, <3>3
        <3> QED
            BY <1>0, <2>1, <3>4 DEF LinesFit
    <2> QED
        BY <2>2, <2>3
<1>6. CASE SwapLine
    <2>1. /\ user = "swap" /\ UNCHANGED <<words, tokens>>
          /\ IF at = 2 * words THEN at' = 1 /\ user' = "events" ELSE at' = at + 1 /\ user' = user
        BY <1>6 DEF SwapLine, LastLine, pollerVars
    <2> QED
        BY <1>0, <2>1 DEF LinesFit
<1>7. CASE Poll \/ DropToken \/ TimesOut \/ PushHandle \/ PushRefused \/ Unparked
           \/ NextEvent \/ EndEvents \/ AwaitUnparked \/ DrainSocket \/ Await
    <2>1. UNCHANGED <<at, words, tokens>>
        BY <1>7
           DEF Poll, DropToken, TimesOut, PushHandle, PushRefused, Unparked, EndEvents,
               AwaitUnparked, NextEvent, DrainSocket, Await, userVars, pollerVars
    <2>2. user' = user \/ (user # "swap" /\ user' # "swap")
        BY <1>7
           DEF Poll, DropToken, TimesOut, PushHandle, PushRefused, Unparked, EndEvents,
               AwaitUnparked, NextEvent, DrainSocket, Await, userVars
    <2> QED
        BY <1>1, <1>2, <2>1, <2>2
<1>8. CASE Works
    BY <1>1, <1>8, WorkerLeavesThread
<1> QED
    BY <1>3, <1>4, <1>5, <1>6, <1>7, <1>8, NextIsEither DEF Call, CallStep

LEMMA CapturedStep == IInv /\ Next => CapturedInTime'
<1> SUFFICES ASSUME IInv, Next PROVE CapturedInTime'
    OBVIOUS
<1>0. user \notin {"swap", "events", "read"} => captured = {}
    BY DEF IInv, CapturedInTime
<1>1. ASSUME NEW s \in Socket, Register(s) \/ SendTo(s) \/ NoBuffer(s) \/ BlockingRecv(s)
      PROVE  CapturedInTime'
    BY <1>0, <1>1 DEF CapturedInTime, Register, SendTo, NoBuffer, BlockingRecv, userVars
<1>2. CASE Poll \/ TimesOut \/ PushHandle \/ PushRefused \/ Scan \/ Unparked
           \/ SwapLine \/ EndEvents \/ AwaitUnparked \/ DrainSocket \/ Await
    BY <1>0, <1>2
       DEF CapturedInTime, Poll, TimesOut, PushHandle, PushRefused, Scan, Unparked,
           SwapLine, EndEvents, AwaitUnparked, DrainSocket, Await
<1>3. CASE NextEvent
    <2>1. user = "events" /\ user' \in {"events", "read"}
        BY <1>3 DEF NextEvent
    <2> QED
        BY <2>1 DEF CapturedInTime
<1>4. CASE DropToken
    BY <1>0, <1>4 DEF CapturedInTime, DropToken, userVars
<1>5. CASE Works
    BY <1>0, <1>5, WorkerLeavesThread DEF CapturedInTime
<1> QED
    BY <1>1, <1>2, <1>3, <1>4, <1>5, NextIsEither DEF Call, CallStep

LEMMA ParkTokenStep == IInv /\ Next => parkToken' \in BOOLEAN
<1> SUFFICES ASSUME IInv, Next PROVE parkToken' \in BOOLEAN
    OBVIOUS
<1>0. parkToken \in BOOLEAN
    BY DEF IInv
<1>1. ASSUME NEW s \in Socket, Register(s) \/ SendTo(s) \/ NoBuffer(s) \/ BlockingRecv(s)
      PROVE  parkToken' = parkToken
    BY <1>1, Zenon DEF Register, SendTo, NoBuffer, BlockingRecv
<1>2. CASE Poll \/ DropToken \/ TimesOut \/ PushHandle \/ PushRefused \/ Scan
           \/ SwapLine \/ NextEvent \/ EndEvents \/ DrainSocket \/ Await
    <2>1. parkToken' = parkToken
        BY <1>2, Zenon
           DEF Poll, DropToken, TimesOut, PushHandle, PushRefused, Scan, SwapLine, NextEvent,
               EndEvents, DrainSocket, Await
    <2> QED
        BY <1>0, <2>1
<1>3. CASE Unparked \/ AwaitUnparked
    BY <1>3 DEF Unparked, AwaitUnparked
<1>4. CASE Unpark
    BY <1>4 DEF Unpark
<1>5. CASE CheckDropped \/ SetBit \/ TellWriter
    <2>1. parkToken' = parkToken
        BY <1>5, Zenon DEF CheckDropped, SetBit, TellWriter
    <2> QED
        BY <1>0, <2>1
<1>6. ASSUME NEW s \in Socket, SendDatagram(s) \/ UpdateRead(s) \/ UpdateWrite(s) \/ Deliver(s)
      PROVE  parkToken' = parkToken
    BY <1>6, Zenon DEF SendDatagram, UpdateRead, UpdateWrite, Deliver
<1>7. CASE Call
    BY <1>0, <1>1, <1>2, <1>7 DEF Call
<1>8. CASE WorkerStep
    BY <1>0, <1>4, <1>5, <1>6, <1>8 DEF WorkerStep
<1> QED
    BY <1>0, <1>2, <1>3, <1>6, <1>7, <1>8, NextIsEither DEF CallStep, Works

-----------------------------------------------------------------------------
(* The invariant is inductive: nobody is forgotten                          *)

(* Only NextEvent takes a bit away that was set.                            *)
LEMMA BitsAreKept ==
    ASSUME Next, ~NextEvent
    PROVE  bits \cup captured \subseteq bits' \cup captured'
<1>1. ASSUME NEW s \in Socket, Register(s) \/ SendTo(s) \/ NoBuffer(s) \/ BlockingRecv(s)
      PROVE  UNCHANGED <<bits, captured>>
    BY <1>1 DEF Register, SendTo, NoBuffer, BlockingRecv, userVars
<1>2. CASE Poll \/ DropToken \/ TimesOut \/ PushHandle \/ PushRefused \/ Scan \/ Unparked
           \/ EndEvents \/ DrainSocket \/ Await \/ AwaitUnparked
    <2>1. UNCHANGED <<bits, captured>>
        BY <1>2
           DEF Poll, DropToken, TimesOut, PushHandle, PushRefused, Scan, Unparked, EndEvents,
               DrainSocket, Await, AwaitUnparked, userVars
    <2> QED
        BY <2>1
<1>3. CASE SwapLine
    BY <1>3 DEF SwapLine, ClearedBy
<1>4. CASE Works
    <2>1. captured' = captured
        BY <1>4, WorkerLeavesThread
    <2>2. bits \subseteq bits'
        BY <1>4
           DEF Works, WorkerStep, CheckDropped, SetBit, Unpark, TellWriter, SendDatagram,
               UpdateRead, UpdateWrite, Deliver
    <2> QED
        BY <2>1, <2>2
<1> QED
    BY <1>1, <1>2, <1>3, <1>4, NextIsEither DEF Call, CallStep

(* A wake on the handle of a living token begins with the look at it.       *)
LEMMA WakeBegins ==
    ASSUME IInv, Next, NEW s \in Socket, NEW kind \in Kind, NEW h, h \in alive',
           BeginWake(s, kind, h)
    PROVE  Noticed(s, kind)'
<1>1. h \in Nat
    BY SlotInvPrime DEF SlotInv, TokensShape
<1>2. h # Nobody /\ h # Thread
    BY <1>1, PollerAssumption
<1>3. worker' = Waking("check", s, kind, h)
    BY <1>2 DEF BeginWake
<1>4. worker'.at = "check" /\ worker'.socket = s /\ worker'.kind = kind
    BY <1>3 DEF Waking
<1> QED
    BY <1>4 DEF Noticed

(* What is noticed of a living token's handle stays so until the thread     *)
(* takes the event.                                                         *)
LEMMA NoticeStays ==
    ASSUME IInv, Next, ~NextEvent, NEW s \in Socket, NEW kind \in Kind, NEW h,
           h = WakeHandle(s, kind), h = WakeHandle(s, kind)', h \in alive', Noticed(s, kind)
    PROVE  Noticed(s, kind)'
<1>1. h \in Nat
    BY SlotInvPrime DEF SlotInv, TokensShape
<1>2. OldTokens /\ h \in 1 .. Len(tokens)
    BY <1>1, OldTokensStay, HandleSlot DEF IInv
<1>3. tokens'[h] = tokens[h] /\ h \in alive
    BY <1>2 DEF OldTokens
<1>4. CASE BitOf(h, kind) \in bits' \cup captured'
    BY <1>3, <1>4 DEF Noticed, BitOf
<1>5. CASE worker' = worker /\ worker.at \in {"check", "set"}
           /\ worker.socket = s /\ worker.kind = kind
    BY <1>5 DEF Noticed
<1>6. CASE BitOf(h, kind) \in bits \cup captured
    BY <1>4, <1>6, BitsAreKept
<1>7. CASE worker.at \in {"check", "set"} /\ worker.socket = s /\ worker.kind = kind
    <2>1. worker.handle = h /\ worker = Waking(worker.at, s, kind, h)
        BY <1>7, WakingHandle
    <2>2. CASE CheckDropped
        <3>1. worker' = [worker EXCEPT !.at = "set"]
            BY <1>3, <2>1, <2>2 DEF CheckDropped
        <3>2. worker' = Waking("set", s, kind, h)
            BY <2>1, <3>1 DEF Waking
        <3>3. worker'.at = "set" /\ worker'.socket = s /\ worker'.kind = kind
            BY <3>2 DEF Waking
        <3> QED
            BY <3>3 DEF Noticed
    <2>3. CASE SetBit
        BY <1>4, <1>7, <2>1, <2>3 DEF SetBit, BitOf
    <2>4. CASE Call \/ CallStep \/ TimesOut
        BY <1>5, <1>7, <2>4, ThreadLeavesWorker
    <2>5. ~(Unpark \/ TellWriter)
        BY <1>7 DEF Unpark, TellWriter
    <2>6. ASSUME NEW r \in Socket, SendDatagram(r) \/ UpdateRead(r) \/ UpdateWrite(r) \/ Deliver(r)
          PROVE  FALSE
        <3>1. worker = Idle
            BY <2>6 DEF SendDatagram, UpdateRead, UpdateWrite, Deliver, PopMessage
        <3> QED
            BY <1>7, <3>1 DEF Idle
    <2> QED
        BY <2>2, <2>3, <2>4, <2>5, <2>6, NextIsEither DEF Works, WorkerStep
<1> QED
    BY <1>6, <1>7 DEF Noticed

(* The event of a bit goes to the socket of the handle that set it.         *)
LEMMA EventIsTaken ==
    ASSUME IInv, NextEvent, NEW s \in Socket, NEW kind \in Kind, NEW h,
           h = WakeHandle(s, kind), h \in alive', Noticed(s, kind)
    PROVE  \/ Noticed(s, kind)'
           \/ /\ kind = "read" => user' = "read" /\ on' = s
              /\ kind = "write" => writer'[s] = "content"
<1>0. Next /\ UNCHANGED <<alive, tokens, worker, readHandle, writeHandle, bits>>
    BY DEF Next, CallStep, NextEvent, pollerVars, handles
<1>1. h \in Nat /\ h = WakeHandle(s, kind)'
    BY <1>0, SlotInvPrime DEF SlotInv, TokensShape, WakeHandle
<1>2. h \in 1 .. Len(tokens) /\ tokens[h].socket = s /\ targets[tokens[h].slot] = h
    <2>1. h = WakeHandle(s, kind) /\ h \in Nat
        BY <1>1
    <2> QED
        BY <2>1, HandleSlot
<1>3. CASE worker.at \in {"check", "set"} /\ worker.socket = s /\ worker.kind = kind
    BY <1>0, <1>3 DEF Noticed
<1>4. CASE BitOf(h, kind) \in bits' \cup captured'
    BY <1>0, <1>1, <1>4 DEF Noticed, BitOf
<1>5. CASE BitOf(h, kind) \in captured /\ BitOf(h, kind) \notin captured'
    <2> DEFINE n == CHOOSE n \in {b[1] : b \in captured} : \A b \in captured : n <= b[1]
               kinds == {k \in Kind : <<n, k>> \in captured}
               t == targets[n]
    <2>1. /\ captured' = captured \ {<<n, k>> : k \in kinds}
          /\ IF t \in alive
             THEN /\ on' = tokens[t].socket
                  /\ user' = IF "read" \in kinds THEN "read" ELSE "events"
                  /\ writer' = IF "write" \in kinds THEN [writer EXCEPT ![on'] = "content"]
                                                    ELSE writer
             ELSE UNCHANGED <<on, user, writer>>
        BY DEF NextEvent
    <2> HIDE DEF n
    <2>2. tokens[h].slot = n /\ kind \in kinds
        BY <1>5, <2>1 DEF BitOf
    <2>3. t = h /\ h \in alive
        BY <1>0, <1>2, <2>2
    <2>4. on' = s
        BY <1>2, <2>1, <2>3
    <2>5. writer \in [Socket -> {"content", "refused", "missed"}]
        BY DEF IInv, SocketsShape
    <2> QED
        BY <2>1, <2>2, <2>3, <2>4, <2>5
<1> QED
    BY <1>0, <1>3, <1>4, <1>5 DEF Noticed

(* What a step does to a socket that the waiting depend on.                 *)
LEMMA SocketSteps ==
    ASSUME IInv, Next, NEW s \in Socket
    PROVE  /\ readHandle'[s] = readHandle[s] \/ UpdateRead(s)
           /\ writeHandle'[s] = writeHandle[s] \/ UpdateWrite(s)
           /\ packets'[s] > 0 => packets[s] > 0 \/ Deliver(s)
           /\ writer'[s] = "refused" => writer[s] = "refused" \/ NoBuffer(s)
<1>0. /\ readHandle \in [Socket -> Handle] /\ writeHandle \in [Socket -> Handle]
      /\ packets \in [Socket -> 0 .. RecvCapacity] /\ RecvCapacity \in Nat
      /\ writer \in [Socket -> {"content", "refused", "missed"}]
    BY PollerAssumption DEF IInv, SocketsShape
<1>1. CASE UNCHANGED <<readHandle, writeHandle, packets, writer>>
    BY <1>1
<1>2. ASSUME NEW r \in Socket, Register(r) \/ BlockingRecv(r)
      PROVE  UNCHANGED <<readHandle, writeHandle, packets, writer>>
    BY <1>2 DEF Register, BlockingRecv, socketVars, handles
<1>3. ASSUME NEW r \in Socket, SendTo(r)
      PROVE  UNCHANGED <<readHandle, writeHandle, packets>> /\ writer' = [writer EXCEPT ![r] = "content"]
    BY <1>3 DEF SendTo, handles
<1>4. ASSUME NEW r \in Socket, NoBuffer(r)
      PROVE  UNCHANGED <<readHandle, writeHandle, packets>> /\ writer' = [writer EXCEPT ![r] = "refused"]
    BY <1>4 DEF NoBuffer, handles
<1>5. CASE Poll \/ DropToken \/ TimesOut \/ PushHandle \/ PushRefused \/ Scan \/ Unparked
           \/ EndEvents \/ SwapLine \/ AwaitUnparked \/ CheckDropped \/ SetBit \/ Unpark
    <2>1. UNCHANGED <<readHandle, writeHandle, packets, writer>>
        BY <1>5
           DEF Poll, DropToken, TimesOut, PushHandle, PushRefused, Scan, Unparked, EndEvents,
               SwapLine, AwaitUnparked, CheckDropped, SetBit, Unpark, socketVars, handles
    <2> QED
        BY <1>1, <2>1
<1>6. CASE DrainSocket \/ Await
    <2>1. /\ UNCHANGED <<readHandle, writeHandle, writer>>
          /\ packets' = packets \/ (packets[on] > 0 /\ packets' = [packets EXCEPT ![on] = @ - 1])
        BY <1>6 DEF DrainSocket, Await, handles
    <2>2. packets'[s] > 0 => packets[s] > 0
        BY <1>0, <2>1
    <2> QED
        BY <2>1, <2>2
<1>7. CASE NextEvent
    <2>1. /\ UNCHANGED <<readHandle, writeHandle, packets>>
          /\ writer' = writer \/ \E r : writer' = [writer EXCEPT ![r] = "content"]
        BY <1>7 DEF NextEvent, handles
    <2>2. writer'[s] = "refused" => writer[s] = "refused"
        BY <1>0, <2>1
    <2> QED
        BY <2>1, <2>2
<1>8. CASE TellWriter
    <2>1. /\ UNCHANGED <<readHandle, writeHandle, packets>>
          /\ writer' = writer \/ writer' = [writer EXCEPT ![worker.socket] = IF @ = "refused" THEN "missed" ELSE @]
        BY <1>8 DEF TellWriter, handles
    <2>2. writer'[s] = "refused" => writer[s] = "refused"
        BY <1>0, <2>1
    <2> QED
        BY <2>1, <2>2
<1>9. ASSUME NEW r \in Socket, Deliver(r)
      PROVE  UNCHANGED <<readHandle, writeHandle, writer>> /\ packets' = [packets EXCEPT ![r] = @ + 1]
    BY <1>9 DEF Deliver, handles
<1>10. ASSUME NEW r \in Socket, SendDatagram(r) \/ UpdateRead(r) \/ UpdateWrite(r)
       PROVE  /\ UNCHANGED <<packets, writer>>
              /\ readHandle' = readHandle
                    \/ (UpdateRead(r) /\ readHandle' = [readHandle EXCEPT ![r] = Head(ring[r]).handle])
              /\ writeHandle' = writeHandle
                    \/ (UpdateWrite(r) /\ writeHandle' = [writeHandle EXCEPT ![r] = Head(ring[r]).handle])
    BY <1>10 DEF SendDatagram, UpdateRead, UpdateWrite, handles
<1>11. CASE \E r \in Socket : SendTo(r) \/ NoBuffer(r)
    BY <1>0, <1>3, <1>4, <1>11
<1>12. CASE \E r \in Socket : Deliver(r)
    BY <1>0, <1>9, <1>12
<1>13. CASE \E r \in Socket : SendDatagram(r) \/ UpdateRead(r) \/ UpdateWrite(r)
    BY <1>0, <1>10, <1>13
<1>14. CASE \E r \in Socket : Register(r) \/ BlockingRecv(r)
    BY <1>1, <1>2, <1>14
<1> QED
    BY <1>5, <1>6, <1>7, <1>8, <1>11, <1>12, <1>13, <1>14, NextIsEither
       DEF Call, CallStep, Works, WorkerStep

LEMMA ReadersStep == IInv /\ Next => ReadersAreNoticed'
<1> SUFFICES ASSUME IInv, Next, NEW s \in Socket, packets'[s] > 0, readHandle'[s] \in alive'
             PROVE  Noticed(s, "read")' \/ (user' = "read" /\ on' = s)
    BY DEF ReadersAreNoticed
<1>0. "read" \in Kind
    BY DEF Kind
<1>1. PICK h : h = readHandle'[s]
    OBVIOUS
<1>2. h = WakeHandle(s, "read")' /\ h \in alive'
    BY <1>1 DEF WakeHandle
<1>3. CASE UpdateRead(s)
    <2>1. UNCHANGED packets
        BY <1>3 DEF UpdateRead
    <2>2. BeginWake(s, "read", h)
        BY <1>1, <1>3, <2>1 DEF UpdateRead, AnnouncesPackets
    <2> QED
        BY <1>0, <1>2, <2>2, WakeBegins
<1>4. CASE Deliver(s)
    <2>1. BeginWake(s, "read", h)
        BY <1>1, <1>4 DEF Deliver, handles
    <2> QED
        BY <1>0, <1>2, <2>1, WakeBegins
<1>5. CASE readHandle'[s] = readHandle[s] /\ packets[s] > 0
    <2>1. h = WakeHandle(s, "read") /\ h \in Nat
        BY <1>1, <1>2, <1>5, SlotInvPrime DEF WakeHandle, SlotInv, TokensShape
    <2>2. h \in 1 .. Len(tokens) /\ OldTokens
        BY <1>0, <2>1, HandleSlot, OldTokensStay DEF IInv
    <2>3. readHandle[s] \in alive
        BY <1>1, <1>2, <1>5, <2>2 DEF OldTokens
    <2>4. Noticed(s, "read") \/ (user = "read" /\ on = s)
        BY <1>5, <2>3 DEF IInv, ReadersAreNoticed
    <2>5. CASE Noticed(s, "read") /\ ~NextEvent
        BY <1>0, <1>2, <2>1, <2>5, NoticeStays
    <2>6. CASE Noticed(s, "read") /\ NextEvent
        BY <1>0, <1>2, <2>1, <2>6, EventIsTaken
    <2>7. CASE user = "read" /\ on = s
        <3>1. CASE Works
            BY <2>7, <3>1, WorkerLeavesThread
        <3>2. CASE DrainSocket
            BY <1>5, <2>7, <3>2 DEF DrainSocket
        <3>3. ~(Call \/ TimesOut)
            BY <2>7 DEF Call, TimesOut, Poll, DropToken, Register, SendTo, NoBuffer, BlockingRecv
        <3>4. CallStep => DrainSocket
            BY <2>7
               DEF CallStep, PushHandle, PushRefused, Scan, Unparked, SwapLine, NextEvent,
                   EndEvents, Await, AwaitUnparked
        <3> QED
            BY <3>1, <3>2, <3>3, <3>4, NextIsEither
    <2> QED
        BY <2>4, <2>5, <2>6, <2>7
<1> QED
    BY <1>3, <1>4, <1>5, SocketSteps

(* A socket without a free buffer has a datagram in its ring.               *)
LEMMA NoBufferNoIdleRing ==
    ASSUME IInv, NEW s \in Socket, pool[s] = 0
    PROVE  InRing(s, "data")
<1>1. Cardinality(DataIn(ring[s])) # 0
    BY PollerAssumption DEF IInv, BuffersAddUp
<1>2. DataIn(ring[s]) # {}
    BY <1>1, FS_EmptySet
<1> QED
    BY <1>2 DEF DataIn, InRing

(* What was in a ring stays there until the worker takes it.                *)
LEMMA InRingStays ==
    ASSUME IInv, Next, NEW s \in Socket, NEW kind \in {"data", "write"}, InRing(s, kind)
    PROVE  \/ InRing(s, kind)'
           \/ kind = "data" /\ SendDatagram(s)
           \/ kind = "write" /\ UpdateWrite(s)
<1>0. RingsShape /\ on \in Socket
    BY DEF IInv, SlotInv, RingsShape
<1>1. CASE ring' = ring
    BY <1>1 DEF InRing
<1>2. ASSUME NEW r \in Socket, NEW m \in Message, ring' = [ring EXCEPT ![r] = Append(ring[r], m)]
      PROVE  InRing(s, kind)'
    BY <1>0, <1>2, RingGrows
<1>3. ASSUME NEW r \in Socket, SendTo(r) PROVE InRing(s, kind)'
    <2>1. Data \in Message
        BY DEF Message
    <2> QED
        BY <1>2, <1>3, <2>1 DEF SendTo
<1>4. ASSUME NEW r \in Socket, BlockingRecv(r) PROVE InRing(s, kind)'
    <2>1. Update("read", Thread) \in Message
        BY DEF Update, Message, Kind, Handle
    <2> QED
        BY <1>2, <1>4, <2>1 DEF BlockingRecv
<1>5. CASE PushHandle
    <2>1. Update(Head(todo), Len(tokens)) \in Message
        BY <1>5, HandleMessage
    <2> QED
        BY <1>0, <1>2, <1>5, <2>1 DEF PushHandle
<1>6. ASSUME NEW r \in Socket, NEW k, PopMessage(r, k)
      PROVE  InRing(s, kind)' \/ (r = s /\ k = kind)
    BY <1>0, <1>6, RingShrinks DEF PopMessage
<1>7. ASSUME NEW r \in Socket, SendDatagram(r) \/ UpdateRead(r) \/ UpdateWrite(r)
      PROVE  \/ InRing(s, kind)'
             \/ kind = "data" /\ SendDatagram(s)
             \/ kind = "write" /\ UpdateWrite(s)
    <2>1. CASE SendDatagram(r)
        BY <1>6, <2>1 DEF SendDatagram
    <2>2. CASE UpdateRead(r)
        BY <1>6, <2>2 DEF UpdateRead
    <2>3. CASE UpdateWrite(r)
        BY <1>6, <2>3 DEF UpdateWrite
    <2> QED
        BY <1>7, <2>1, <2>2, <2>3
<1>8. ASSUME NEW r \in Socket, Register(r) \/ NoBuffer(r) \/ Deliver(r) PROVE ring' = ring
    BY <1>8 DEF Register, NoBuffer, Deliver, socketVars
<1>9. CASE Poll \/ DropToken \/ TimesOut \/ PushRefused \/ Scan \/ Unparked \/ NextEvent
           \/ SwapLine \/ EndEvents \/ AwaitUnparked \/ DrainSocket \/ Await
           \/ CheckDropped \/ SetBit \/ Unpark \/ TellWriter
    <2>1. ring' = ring
        BY <1>9
           DEF Poll, DropToken, TimesOut, PushRefused, Scan, Unparked, SwapLine, EndEvents,
               AwaitUnparked, NextEvent, DrainSocket, Await, CheckDropped, SetBit, Unpark,
               TellWriter, socketVars
    <2> QED
        BY <1>1, <2>1
<1> QED
    BY <1>1, <1>3, <1>4, <1>5, <1>7, <1>8, <1>9, NextIsEither
       DEF Call, CallStep, Works, WorkerStep

LEMMA WritersStep == IInv /\ Next => WritersAreNoticed'
<1> SUFFICES ASSUME IInv, Next, NEW s \in Socket, writer'[s] = "refused", writeHandle'[s] \in alive'
             PROVE  \/ InRing(s, "data")' \/ InRing(s, "write")'
                    \/ worker' = Popped(s)
                    \/ Noticed(s, "write")'
    BY DEF WritersAreNoticed, Popped
<1>0. "write" \in Kind
    BY DEF Kind
<1>1. PICK h : h = writeHandle'[s]
    OBVIOUS
<1>2. h = WakeHandle(s, "write")' /\ h \in alive'
    BY <1>1 DEF WakeHandle
<1>3. CASE UpdateWrite(s)
    BY <1>3 DEF UpdateWrite
<1>4. CASE NoBuffer(s)
    <2>1. InRing(s, "data") /\ ring' = ring
        BY <1>4, NoBufferNoIdleRing DEF NoBuffer
    <2> QED
        BY <2>1 DEF InRing
<1>5. CASE ~UpdateWrite(s) /\ writeHandle'[s] = writeHandle[s] /\ writer[s] = "refused"
    <2>1. h = WakeHandle(s, "write") /\ h \in Nat
        <3>1. h = WakeHandle(s, "write")
            BY <1>1, <1>5 DEF WakeHandle
        <3>2. h \in Nat
            BY <1>2, SlotInvPrime DEF SlotInv, TokensShape
        <3> QED
            BY <3>1, <3>2
    <2>2. h \in 1 .. Len(tokens) /\ OldTokens
        BY <1>0, <2>1, HandleSlot, OldTokensStay DEF IInv
    <2>3. writeHandle[s] \in alive
        BY <1>1, <1>2, <1>5, <2>2 DEF OldTokens
    <2>4. InRing(s, "data") \/ InRing(s, "write") \/ worker = Popped(s) \/ Noticed(s, "write")
        BY <1>5, <2>3 DEF IInv, WritersAreNoticed
    <2>5. CASE Noticed(s, "write") /\ ~NextEvent
        BY <1>0, <1>2, <2>1, <2>5, NoticeStays
    <2>6. CASE Noticed(s, "write") /\ NextEvent
        BY <1>0, <1>2, <2>1, <2>6, EventIsTaken
    <2>7. CASE InRing(s, "data")
        <3>1. CASE SendDatagram(s)
            BY <3>1 DEF SendDatagram
        <3> QED
            BY <2>7, <3>1, InRingStays
    <2>8. CASE InRing(s, "write")
        BY <1>5, <2>8, InRingStays
    <2>9. CASE worker = Popped(s)
        <3>1. worker.at = "popped" /\ worker.socket = s /\ worker # Idle
            BY <2>9 DEF Popped, Idle
        <3>2. CASE TellWriter
            <4>1. CASE TellsWriter(s)
                <5>1. BeginWake(s, "write", h)
                    BY <1>1, <1>5, <3>1, <3>2, <4>1 DEF TellWriter
                <5> QED
                    BY <1>0, <1>2, <5>1, WakeBegins
            <4>2. CASE ~TellsWriter(s)
                <5>1. ring' = ring
                      /\ writer' = IF writer[s] = "refused" /\ ~InRing(s, "data")
                                      /\ ~InRing(s, "write")
                                   THEN [writer EXCEPT ![s] = "missed"] ELSE writer
                    BY <3>1, <3>2, <4>2 DEF TellWriter
                <5>2. writer \in [Socket -> {"content", "refused", "missed"}]
                    BY DEF IInv, SocketsShape
                <5>3. CASE ~InRing(s, "data") /\ ~InRing(s, "write")
                    <6>1. writer'[s] = "missed"
                        BY <1>5, <5>1, <5>2, <5>3
                    <6> QED
                        BY <6>1
                <5>4. CASE InRing(s, "data") \/ InRing(s, "write")
                    BY <5>1, <5>4 DEF InRing
                <5> QED
                    BY <5>3, <5>4
            <4> QED
                BY <4>1, <4>2
        <3>3. CASE Call \/ CallStep \/ TimesOut
            BY <2>9, <3>3, ThreadLeavesWorker
        <3>4. ~(CheckDropped \/ SetBit \/ Unpark)
            BY <3>1 DEF CheckDropped, SetBit, Unpark
        <3>5. ASSUME NEW r \in Socket, SendDatagram(r) \/ UpdateRead(r) \/ UpdateWrite(r) \/ Deliver(r)
              PROVE  FALSE
            BY <3>1, <3>5 DEF SendDatagram, UpdateRead, UpdateWrite, Deliver, PopMessage
        <3> QED
            BY <3>2, <3>3, <3>4, <3>5, NextIsEither DEF Works, WorkerStep
    <2> QED
        BY <2>4, <2>5, <2>6, <2>7, <2>8, <2>9
<1> QED
    BY <1>3, <1>4, <1>5, SocketSteps

LEMMA ParkedStep == IInv /\ Next => ParkedHasNoBits'
<1> SUFFICES ASSUME IInv, Next, user' = "park", ~parkToken', NEW b \in bits'
             PROVE  /\ worker'.at = "unpark" /\ worker'.handle # Thread
                    /\ b = BitOf(worker.handle, worker.kind)'
    BY Zenon DEF ParkedHasNoBits
<1>1. CASE Scan
    BY <1>1 DEF Scan
<1>2. CASE (Call \/ CallStep \/ TimesOut) /\ ~Scan
    <2>1. CASE user = "park"
        <3>1. ~(Call \/ CallStep)
            BY <1>2, <2>1
               DEF Call, Poll, DropToken, Register, SendTo, NoBuffer, BlockingRecv, CallStep,
                   PushHandle, PushRefused, Unparked, SwapLine, NextEvent, EndEvents,
                   DrainSocket, Await, AwaitUnparked
        <3> QED
            BY <1>2, <3>1 DEF TimesOut
    <2>2. CASE user # "park"
        <3>1. ASSUME NEW s \in Socket, Register(s) \/ SendTo(s) \/ NoBuffer(s) \/ BlockingRecv(s)
              PROVE  FALSE
            BY <2>2, <3>1 DEF Register, SendTo, NoBuffer, BlockingRecv, userVars
        <3>2. ~(Poll \/ DropToken \/ TimesOut)
            BY <2>2 DEF Poll, DropToken, TimesOut, userVars
        <3>3. ~CallStep
            BY <1>2, <2>2
               DEF CallStep, PushHandle, PushRefused, Unparked, SwapLine, NextEvent, EndEvents,
                   DrainSocket, Await, AwaitUnparked
        <3> QED
            BY <1>2, <3>1, <3>2, <3>3 DEF Call
    <2> QED
        BY <2>1, <2>2
<1>3. CASE Works
    <2>1. user = "park" /\ tokens' = tokens
        BY <1>3, WorkerLeavesThread
    <2>2. ~Unpark
        BY DEF Unpark
    <2>3. ~parkToken
        <3>1. parkToken' = parkToken
            BY <1>3, <2>2, Zenon
               DEF Works, WorkerStep, CheckDropped, SetBit, TellWriter, SendDatagram,
                   UpdateRead, UpdateWrite, Deliver
        <3> QED
            BY <3>1, Zenon
    <2>4. \A a \in bits : worker.at = "unpark"
        BY <2>1, <2>3, Zenon DEF IInv, ParkedHasNoBits
    <2>5. CASE SetBit
        <3>1. /\ worker.at = "set"
              /\ bits' = bits \cup {<<tokens[worker.handle].slot, worker.kind>>}
              /\ worker' = [worker EXCEPT !.at = "unpark"]
            BY <2>5 DEF SetBit
        <3>2. /\ worker = Waking("set", worker.socket, worker.kind, worker.handle)
              /\ worker.handle \in Nat
            BY <3>1, WakingHandle
        <3>3. b = BitOf(worker.handle, worker.kind)
            BY <2>4, <3>1 DEF BitOf
        <3>4. worker' = Waking("unpark", worker.socket, worker.kind, worker.handle)
            BY <3>1, <3>2 DEF Waking
        <3>5. worker'.at = "unpark" /\ worker'.handle = worker.handle /\ worker'.kind = worker.kind
            BY <3>4 DEF Waking
        <3>6. worker.handle # Thread
            BY <3>2, PollerAssumption
        <3> QED
            BY <2>1, <3>3, <3>5, <3>6 DEF BitOf
    <2>6. CASE ~SetBit
        <3>1. bits' = bits
            BY <1>3, <2>2, <2>6
               DEF Works, WorkerStep, CheckDropped, TellWriter, SendDatagram, UpdateRead,
                   UpdateWrite, Deliver
        <3>2. worker.at = "unpark"
            BY <2>4, <3>1
        <3>3. ~(CheckDropped \/ TellWriter)
            BY <3>2 DEF CheckDropped, TellWriter
        <3>4. ASSUME NEW r \in Socket, SendDatagram(r) \/ UpdateRead(r) \/ UpdateWrite(r) \/ Deliver(r)
              PROVE  FALSE
            BY <3>2, <3>4 DEF SendDatagram, UpdateRead, UpdateWrite, Deliver, PopMessage, Idle
        <3> QED
            BY <1>3, <2>2, <2>6, <3>3, <3>4 DEF Works, WorkerStep
    <2> QED
        BY <2>5, <2>6
<1> QED
    BY <1>1, <1>2, <1>3, NextIsEither

-----------------------------------------------------------------------------
(* The theorems *)

LEMMA InitInvariant == Init => IInv
<1> SUFFICES ASSUME Init PROVE IInv
    OBVIOUS
<1>0. /\ tokens = <<>> /\ Len(tokens) = 0 /\ alive = {} /\ words = 0 /\ user = "idle" /\ at = 1
      /\ bits = {} /\ captured = {} /\ todo = <<>> /\ worker = Idle
      /\ arrived = 0 /\ sends = 0
      /\ ring = [s \in Socket |-> <<>>]
      /\ pool = [s \in Socket |-> PoolSize] /\ packets = [s \in Socket |-> 0]
      /\ writer = [s \in Socket |-> "content"]
      /\ readHandle = [s \in Socket |-> Nobody] /\ writeHandle = [s \in Socket |-> Nobody]
    BY DEF Init
<1>1. SlotInv
    BY InitEstablishesSlots
<1>2. ThreadShape
    BY <1>0 DEF ThreadShape
<1>3. SocketsShape
    <2>1. /\ {SendCapacity, RecvCapacity, PoolSize} \subseteq Nat
          /\ {MaxTokens, MaxPackets, MaxSends} \subseteq Nat
        BY PollerAssumption
    <2>2. \A s \in Socket : Len(ring[s]) = 0
        BY <1>0
    <2> QED
        BY <1>0, <2>1, <2>2 DEF SocketsShape, Handle
<1>4. parkToken \in BOOLEAN
    BY DEF Init
<1>5. WorkerShape
    BY <1>0 DEF WorkerShape
<1>6. HandlesFit
    <2>1. ASSUME NEW s \in Socket PROVE HandlesOf(s) = {Nobody}
        <3>1. Len(ring[s]) = 0 /\ readHandle[s] = Nobody /\ writeHandle[s] = Nobody
            BY <1>0
        <3> QED
            BY <3>1 DEF HandlesOf
    <2> QED
        BY <2>1 DEF HandlesFit
<1>7. BuffersAddUp
    <2> SUFFICES ASSUME NEW s \in Socket
                 PROVE  pool[s] + Cardinality(DataIn(ring[s])) = PoolSize
        BY DEF BuffersAddUp
    <2>1. ring[s] = <<>> /\ pool[s] = PoolSize /\ PoolSize \in Nat
        BY <1>0, PollerAssumption
    <2>2. DataIn(ring[s]) = {}
        BY <2>1 DEF DataIn
    <2>3. Cardinality(DataIn(ring[s])) = 0
        BY <2>2, FS_EmptySet
    <2> QED
        BY <2>1, <2>3
<1>8. RegistersFor /\ LinesFit /\ CapturedInTime
    BY <1>0 DEF RegistersFor, LinesFit, CapturedInTime
<1>9. ReadersAreNoticed /\ WritersAreNoticed /\ ParkedHasNoBits
    BY <1>0 DEF ReadersAreNoticed, WritersAreNoticed, ParkedHasNoBits
<1> QED
    BY <1>1, <1>2, <1>3, <1>4, <1>5, <1>6, <1>7, <1>8, <1>9 DEF IInv

LEMMA StutterInvariant == IInv /\ UNCHANGED vars => IInv'
<1> SUFFICES ASSUME IInv, UNCHANGED vars PROVE IInv'
    OBVIOUS
<1>1. UNCHANGED <<user, on, todo, at, captured, tokens, alive, targets, words, bits, ring>>
    BY DEF vars, userVars, pollerVars, socketVars
<1>2. UNCHANGED <<pool, packets, writer, readHandle, writeHandle, worker, arrived, sends>>
    BY DEF vars, socketVars, handles, counters
<1>3. parkToken' = parkToken
    BY Zenon DEF vars
<1>4. SlotInv'
    BY NextKeepsSlots DEF IInv
<1>5. ThreadShape' /\ SocketsShape'
    BY <1>1, <1>2 DEF IInv, ThreadShape, SocketsShape
<1>6. parkToken' \in BOOLEAN
    BY <1>3, Zenon DEF IInv
<1>7. WorkerShape'
    BY <1>1, <1>2, Zenon DEF IInv, WorkerShape, Wakes, WakeHandle
<1>8. HandlesFit'
    BY <1>1, <1>2 DEF IInv, HandlesFit, HandlesOf
<1>9. RegistersFor' /\ LinesFit' /\ CapturedInTime'
    BY <1>1 DEF IInv, RegistersFor, LinesFit, CapturedInTime
<1>10. BuffersAddUp'
    BY <1>1, <1>2 DEF IInv, BuffersAddUp, DataIn
<1>11. ReadersAreNoticed' /\ WritersAreNoticed'
    BY <1>1, <1>2
       DEF IInv, ReadersAreNoticed, WritersAreNoticed, Noticed, BitOf, WakeHandle, InRing
<1>12. ParkedHasNoBits'
    BY <1>1, <1>2, <1>3, Zenon DEF IInv, ParkedHasNoBits, BitOf
<1> QED
    BY <1>4, <1>5, <1>6, <1>7, <1>8, <1>9, <1>10, <1>11, <1>12 DEF IInv

LEMMA NextInvariant == IInv /\ [Next]_vars => IInv'
<1> SUFFICES ASSUME IInv, [Next]_vars PROVE IInv'
    OBVIOUS
<1>1. CASE Next
    <2>1. SlotInv'
        BY <1>1, NextKeepsSlots DEF IInv
    <2>2. ThreadShape'
        BY <1>1, UserStep, BitsStep DEF ThreadShape
    <2>3. SocketsShape' /\ parkToken' \in BOOLEAN /\ WorkerShape' /\ HandlesFit'
        BY <1>1, SocketsStep, ParkTokenStep, WorkerShapeStep, HandlesStep
    <2>4. RegistersFor' /\ BuffersAddUp' /\ LinesFit' /\ CapturedInTime'
        BY <1>1, RegistersForStep, BuffersStep, LinesStep, CapturedStep
    <2>5. ReadersAreNoticed' /\ WritersAreNoticed' /\ ParkedHasNoBits'
        BY <1>1, ReadersStep, WritersStep, ParkedStep
    <2> QED
        BY <2>1, <2>2, <2>3, <2>4, <2>5 DEF IInv
<1>2. CASE UNCHANGED vars
    BY <1>2, StutterInvariant
<1> QED
    BY <1>1, <1>2

(* The invariant of the whole poller holds in every reachable state.        *)
THEOREM Invariance == Spec => []IInv
BY InitInvariant, NextInvariant, PTL DEF Spec

(* No ring outgrows its capacity, no pool its buffers, and no bit is set    *)
(* or captured beyond the words of the poller (poller.rs:219-228).          *)
THEOREM TypeCorrect == Spec => []TypeOK
<1>1. ASSUME IInv PROVE TypeOK
    <2>1. /\ tokens \in Seq([slot : Slot, socket : Socket]) /\ Len(tokens) <= MaxTokens
          /\ alive \subseteq 1 .. Len(tokens)
          /\ targets \in [Slot -> 0 .. Len(tokens)]
          /\ words \in Nat /\ Len(tokens) \in Nat /\ MaxTokens \in Nat
        BY <1>1, PollerAssumption DEF IInv, SlotInv, TokensShape
    <2>2. words \in 0 .. MaxTokens /\ at \in {1} \cup 1 .. 2 * words
        BY <1>1, <2>1 DEF IInv, LinesFit
    <2>3. on \in Socket /\ ring \in [Socket -> Seq(Message)]
        BY <1>1 DEF IInv, SlotInv, RingsShape
    <2>4. worker = Idle \/ worker.at \in {"popped", "check", "set", "unpark"}
        BY <1>1 DEF IInv, WorkerShape, Wakes, Popped, Waking
    <2>5. ThreadShape /\ SocketsShape /\ parkToken \in BOOLEAN
        BY <1>1 DEF IInv
    <2> QED
        BY <2>1, <2>2, <2>3, <2>4, <2>5, Zenon DEF TypeOK, ThreadShape, SocketsShape
<1> QED
    BY <1>1, Invariance, PTL

(* A thread that has parked with nothing under way to unpark it is owed     *)
(* nothing: the announcement of a packet or of a free buffer is never lost  *)
(* between the swap of the words, the look at them and the park, whatever   *)
(* is registered, replaced and dropped meanwhile (poller.rs:51, 106, 144).  *)
THEOREM NothingIsSleptOn == Spec => []PollerSleepsOnNothing
<1>1. ASSUME IInv, user = "park", ~parkToken, NEW s \in Socket, NEW kind \in Kind, NEW h,
             h = WakeHandle(s, kind), h \in alive, Noticed(s, kind)
      PROVE  WakeUnderWay(s, kind)
    <2>1. captured = {}
        BY <1>1 DEF IInv, CapturedInTime
    <2>2. CASE worker.at \in {"check", "set"} /\ worker.socket = s /\ worker.kind = kind
        BY <2>2 DEF WakeUnderWay
    <2>3. CASE BitOf(h, kind) \in bits
        <3>1. /\ worker.at = "unpark" /\ worker.handle # Thread
              /\ BitOf(h, kind) = BitOf(worker.handle, worker.kind)
            BY <1>1, <2>3, Zenon DEF IInv, ParkedHasNoBits
        <3>2. h \in Nat
            BY <1>1 DEF IInv, SlotInv, TokensShape
        <3>3. tokens[h].socket = s /\ targets[tokens[h].slot] = h
            BY <1>1, <3>2, HandleSlot
        <3>4. PICK r \in Socket, k \in Kind :
                /\ WakeHandle(r, k) \in 1 .. Len(tokens)
                /\ worker = Waking("unpark", r, k, WakeHandle(r, k))
            <4>1. worker # Idle /\ \A q \in Socket : worker # Popped(q)
                BY <3>1 DEF Idle, Popped
            <4>2. \A q \in Socket, k \in Kind : worker # Waking("unpark", q, k, Thread)
                BY <3>1 DEF Waking
            <4>3. PICK step \in {"check", "set", "unpark"} : Wakes(step)
                BY <1>1, <4>1, <4>2 DEF IInv, WorkerShape
            <4>4. step = "unpark"
                BY <3>1, <4>3 DEF Wakes, Waking
            <4> QED
                BY <4>3, <4>4 DEF Wakes
        <3> DEFINE g == WakeHandle(r, k)
        <3>5. g \in Nat /\ g = WakeHandle(r, k)
            BY <3>4
        <3> HIDE DEF g
        <3>6. worker.socket = r /\ worker.kind = k /\ worker.handle = g
            BY <3>4, <3>5 DEF Waking
        <3>7. tokens[g].socket = r /\ targets[tokens[g].slot] = g
            BY <1>1, <3>5, HandleSlot
        <3>8. tokens[h].slot = tokens[g].slot /\ kind = k
            BY <3>1, <3>6 DEF BitOf
        <3>9. h = g /\ s = r
            BY <3>3, <3>7, <3>8
        <3> QED
            BY <3>1, <3>6, <3>8, <3>9 DEF WakeUnderWay
    <2> QED
        BY <1>1, <2>1, <2>2, <2>3 DEF Noticed
<1>2. IInv => PollerSleepsOnNoPacket
    <2> SUFFICES ASSUME IInv, user = "park", ~parkToken, NEW s \in Socket,
                        packets[s] > 0, readHandle[s] \in alive
                 PROVE  WakeUnderWay(s, "read")
        BY Zenon DEF PollerSleepsOnNoPacket
    <2>1. Noticed(s, "read")
        BY DEF IInv, ReadersAreNoticed
    <2>2. "read" \in Kind /\ readHandle[s] = WakeHandle(s, "read")
        BY DEF Kind, WakeHandle
    <2> QED
        BY <1>1, <2>1, <2>2, Zenon
<1>3. IInv => PollerSleepsOnNoRoom
    <2> SUFFICES ASSUME IInv, user = "park", ~parkToken, NEW s \in Socket,
                        writer[s] = "refused", writeHandle[s] \in alive
                 PROVE  \/ InRing(s, "data") \/ InRing(s, "write")
                        \/ worker = Popped(s)
                        \/ WakeUnderWay(s, "write")
        BY Zenon DEF PollerSleepsOnNoRoom
    <2>1. InRing(s, "data") \/ InRing(s, "write") \/ worker = Popped(s) \/ Noticed(s, "write")
        BY DEF IInv, WritersAreNoticed
    <2>2. "write" \in Kind /\ writeHandle[s] = WakeHandle(s, "write")
        BY DEF Kind, WakeHandle
    <2>3. Noticed(s, "write") => WakeUnderWay(s, "write")
        BY <1>1, <2>2, Zenon
    <2> QED
        BY <2>1, <2>3
<1>4. IInv => PollerSleepsOnNothing
    BY <1>2, <1>3 DEF PollerSleepsOnNothing
<1> QED
    BY <1>4, Invariance, PTL
=============================================================================
