---------------------------- MODULE PingManager ----------------------------
(***************************************************************************)
(* Ping sessions (src/lib/src/runtime/interface/l4_managers/ping.rs) in    *)
(* the loop of the interface worker.                                       *)
(*                                                                         *)
(* A session sends its echo requests one interval apart and keeps the      *)
(* 16-bit sequence numbers of those still unanswered.  A reply, an         *)
(* asynchronous error or the timeout decides a ping; what it reports is    *)
(* the ping's number, worked out from the sequence number and the count of *)
(* pings sent.  The PingSession of the program only has channels to it: it *)
(* receives the results and may ask for the session to stop, by its key.   *)
(*                                                                         *)
(* Time is in ticks and kept as ages: how long ago a ping was sent, how    *)
(* long the worker may still sleep.  Work takes no time; the worker wakes  *)
(* at most one tick after its deadline.                                    *)
(***************************************************************************)
EXTENDS Integers, FiniteSets, SequencesExt

CONSTANTS
    Target,         \* IPv4 addresses pinged
    Identifier,     \* ICMP identifiers (16 bits)
    SequenceSize,   \* number of ICMP sequence numbers (2^16)
    CounterSize,    \* number of values of a usize (2^64)
    Timeout,        \* PingManagerEntry::timeout (10 s), in ticks
    DefaultPark,    \* how long the worker parks without a deadline (1 s)
    NoCount,        \* the count None: pings without end
    Calls,          \* bound: the pings programs ask for, in their order
    MaxSent,        \* bound: pings of one session
    MaxErrors       \* bound: asynchronous errors

ASSUME PingAssumption ==
    /\ NoCount \notin Nat
    /\ Calls \in Seq([target : Target, count : Nat \cup {NoCount}, interval : Nat])
    /\ {Timeout, DefaultPark, MaxSent, MaxErrors} \subseteq Nat
    /\ {SequenceSize, CounterSize} \subseteq Nat \ {0}
    /\ SequenceSize % 2 = 0 /\ CounterSize % SequenceSize = 0
    /\ MaxSent < CounterSize

(* The pings of a session that are younger than the timeout, and the next    *)
(* one, fit in half the ring of sequence numbers.  ping.rs does not enforce  *)
(* it: an interval of zero could break it.                                   *)
ASSUME WindowAssumption ==
    \A h \in DOMAIN Calls :
        2 * (1 + Timeout \div (Calls[h].interval + 1)) <= SequenceSize

VARIABLES
    sessions,   \* PingManager::sessions
    handles,    \* the PingSessions given out, in the order of the calls
    stops,      \* the keys in control_rx
    results,    \* what each PingSession has been sent: <<number, status>>
    worker,     \* where the worker stands
    deadline,   \* parked: ticks left to sleep, -1 when a tick late
    errors      \* asynchronous errors so far

vars == <<sessions, handles, stops, results, worker, deadline, errors>>

Key == Target \X Identifier
Handle == DOMAIN Calls
(* Success and Timeout are one status here: both settle a pending ping.      *)
Status == {"settled", "unreachable"}

Init ==
    /\ sessions = <<>>
    /\ handles = <<>>
    /\ stops = {}
    /\ results = [h \in Handle |-> {}]
    /\ worker = "control"
    /\ deadline = 0
    /\ errors = 0

-----------------------------------------------------------------------------
(* Sequence numbers *)

(* Mutant of UnwrapSequence: the distance is not made signed. *)
UnwrapUnsigned(sequence, sent) ==
    (sent + ((sequence - sent) % SequenceSize)) % CounterSize

(* Mutant of UnwrapSequence: the unsigned distance taken off. *)
UnwrapSubtracted(sequence, sent) ==
    LET diff == (sequence - sent) % SequenceSize IN
    IF 2 * diff < SequenceSize THEN sent + diff ELSE sent - diff

(* The number nearest to sent on the ring of sequence numbers, at most half  *)
(* a ring behind it.                                                         *)
UnwrapSequence(sequence, sent) ==
    LET diff == (sequence - sent) % SequenceSize IN
    IF 2 * diff < SequenceSize
    THEN (sent + diff) % CounterSize
    ELSE (sent - (SequenceSize - diff)) % CounterSize

(* The places in pending of a sequence number. *)
Places(pending, sequence) == {i \in DOMAIN pending : pending[i].sequence = sequence}

(* Mutant of Finished: one more than there are to send. *)
FinishedOffByOne(entry) ==
    /\ entry.count # NoCount
    /\ entry.sent > entry.count
    /\ entry.pending = <<>>

(* Mutant of Finished: unanswered pings do not keep the session. *)
FinishedWhenSent(entry) == entry.count # NoCount /\ entry.sent >= entry.count

(* garbage_collect keeps what is not finished. *)
Finished(entry) ==
    /\ entry.count # NoCount
    /\ entry.sent >= entry.count
    /\ entry.pending = <<>>

Collected(table) == RestrictValues(table, LAMBDA entry : ~Finished(entry))

-----------------------------------------------------------------------------
(* The program's side: PingSession *)

NewSession(call) ==
    [owner |-> Len(handles) + 1, count |-> call.count, interval |-> call.interval,
     sent |-> 0, last |-> call.interval + 1, pending |-> <<>>]

(* Interface::ping and the Ping message together: the caller waits for the   *)
(* session the worker makes.                                                 *)
Ping(call) ==
    /\ worker = "control"
    /\ \E identifier \in Identifier :
        LET key == <<call.target, identifier>> IN
        /\ key \notin DOMAIN sessions
        /\ sessions' = [k \in DOMAIN sessions \cup {key} |->
                            IF k = key THEN NewSession(call) ELSE sessions[k]]
        /\ handles' = Append(handles, [key |-> key, stopped |-> FALSE])
    /\ UNCHANGED <<stops, results, worker, deadline, errors>>

(* stop(), as often as the program likes, and then drop: each sends the same *)
(* message, whether or not the session still exists.                         *)
Stop(h) ==
    /\ stops' = stops \cup {handles[h].key}
    /\ handles' = [handles EXCEPT ![h].stopped = TRUE]
    /\ UNCHANGED <<sessions, results, worker, deadline, errors>>

-----------------------------------------------------------------------------
(* The worker between its parks *)

EndControl ==
    /\ worker = "control"
    /\ worker' = "recv"
    /\ UNCHANGED <<sessions, handles, stops, results, deadline, errors>>

Report(h, report) == results' = [results EXCEPT ![h] = @ \cup {report}]

(* An echo reply: late, repeated or another's, as the network has it.        *)
OnEchoReply(key, sequence) ==
    /\ worker = "recv"
    /\ IF key \in DOMAIN sessions /\ Places(sessions[key].pending, sequence) # {}
       THEN LET entry == sessions[key]
                i == Min(Places(entry.pending, sequence)) IN
            /\ sessions' = Collected([sessions EXCEPT ![key].pending = RemoveAt(@, i)])
            /\ Report(entry.owner, <<UnwrapSequence(sequence, entry.sent), "settled">>)
       ELSE /\ sessions' = Collected(sessions)
            /\ UNCHANGED results
    /\ UNCHANGED <<handles, stops, worker, deadline, errors>>

(* An unreachable error from the network or from the ARP resolver, about an  *)
(* echo request with the key of a session.  Any sequence number will do: one *)
(* that is no longer pending, one of an older session of the key, one that   *)
(* was never sent.  It is reported all the same, and nothing is collected.   *)
OnAsyncSendError(key, sequence) ==
    /\ worker = "recv"
    /\ errors < MaxErrors
    /\ key \in DOMAIN sessions
    /\ LET entry == sessions[key]
           places == Places(entry.pending, sequence) IN
       /\ sessions' = IF places = {} THEN sessions
                      ELSE [sessions EXCEPT ![key].pending = RemoveAt(@, Min(places))]
       /\ Report(entry.owner, <<UnwrapSequence(sequence, entry.sent), "unreachable">>)
    /\ errors' = errors + 1
    /\ UNCHANGED <<handles, stops, worker, deadline>>

-----------------------------------------------------------------------------
(* perform_timers *)

(* How many pings at the front of pending have timed out; the first that has *)
(* not ends the search.                                                      *)
TimedOut(entry) ==
    LET fresh == {i \in DOMAIN entry.pending : entry.pending[i].age <= Timeout} IN
    IF fresh = {} THEN Len(entry.pending) ELSE Min(fresh) - 1

(* Mutant of AfterTimeouts: they are looked at only while there is something *)
(* left to send.                                                             *)
AfterTimeoutsWhileSending(entry) ==
    IF entry.count # NoCount /\ entry.sent >= entry.count THEN entry
    ELSE [entry EXCEPT !.pending = SubSeq(@, TimedOut(entry) + 1, Len(@))]

AfterTimeouts(entry) ==
    [entry EXCEPT !.pending = SubSeq(@, TimedOut(entry) + 1, Len(@))]

TimeoutReports(entry) ==
    {<<UnwrapSequence(entry.pending[i].sequence, entry.sent), "settled">> : i \in 1 .. TimedOut(entry)}

HasMoreToSend(entry) == entry.count = NoCount \/ entry.sent < entry.count
IsDue(entry) == HasMoreToSend(entry) /\ entry.last > entry.interval

(* sent_count as u16 *)
SequenceOf(sent) == sent % SequenceSize

(* The request is sent.  "number" is not in the code: it is what the ping    *)
(* should be reported as.                                                    *)
AfterSend(entry) ==
    [entry EXCEPT !.pending = Append(@, [sequence |-> SequenceOf(entry.sent), age |-> 0,
                                         number |-> entry.sent]),
                  !.last = 0,
                  !.sent = (@ + 1) % CounterSize]

(* What a session asks for: the set is empty for None. *)
SessionDeadline(entry, failed) ==
    CASE ~HasMoreToSend(entry)  -> {}
      [] IsDue(entry) /\ failed -> {0}
      [] IsDue(entry)           -> {Timeout}
      [] OTHER                  -> {entry.interval - entry.last}

NextDeadline(deadlines) == IF deadlines = {} THEN DefaultPark ELSE Min(deadlines)

(* The Stop messages, then every session that is left, then the park.  A     *)
(* send fails for want of a route or of room in a ring.                      *)
PerformTimers ==
    /\ worker = "recv"
    /\ LET kept == Restrict(sessions, DOMAIN sessions \ stops)
           due == {key \in DOMAIN kept : IsDue(kept[key])} IN
       \E failed \in SUBSET due :
        LET after == [key \in DOMAIN kept |->
                        IF key \in due \ failed THEN AfterSend(AfterTimeouts(kept[key]))
                        ELSE AfterTimeouts(kept[key])]
            told(h) == UNION {TimeoutReports(kept[key]) : key \in
                                {k \in DOMAIN kept : kept[k].owner = h}} IN
        /\ \A key \in due : kept[key].sent >= MaxSent => key \in failed
        /\ sessions' = Collected(after)
        /\ results' = [h \in Handle |-> results[h] \cup told(h)]
        /\ deadline' = NextDeadline(UNION {SessionDeadline(kept[key], key \in failed) :
                                            key \in DOMAIN kept})
    /\ stops' = {}
    /\ worker' = "parked"
    /\ UNCHANGED <<handles, errors>>

(* Anything may unpark the worker; its deadline does. *)
Wake ==
    /\ worker = "parked"
    /\ worker' = "control"
    /\ deadline' = 0
    /\ UNCHANGED <<sessions, handles, stops, results, errors>>

(* The longest park the deadlines allow. *)
LongestSleep ==
    Max({Timeout, DefaultPark} \cup {Calls[h].interval : h \in Handle})

(* Bound: an age counts no further than a tick past any that is reached. *)
MaxAge == Timeout + LongestSleep + 2

(* "last" counts no further than one past the interval, which is also where  *)
(* it starts: last_sent None and an interval gone by are treated alike.      *)
Older(entry) ==
    LET OlderPing(ping) == [ping EXCEPT !.age = Min({@ + 1, MaxAge})] IN
    [entry EXCEPT !.last = Min({@ + 1, entry.interval + 1}),
                  !.pending = [i \in DOMAIN @ |-> OlderPing(@[i])]]

Tick ==
    /\ worker = "parked"
    /\ deadline >= 0
    /\ sessions' = [key \in DOMAIN sessions |-> Older(sessions[key])]
    /\ deadline' = deadline - 1
    /\ UNCHANGED <<handles, stops, results, worker, errors>>

-----------------------------------------------------------------------------
Next ==
    \/ Len(handles) < Len(Calls) /\ Ping(Calls[Len(handles) + 1])
    \/ \E h \in DOMAIN handles : Stop(h)
    \/ EndControl
    \/ \E key \in Key, sequence \in 0 .. SequenceSize - 1 :
        OnEchoReply(key, sequence) \/ OnAsyncSendError(key, sequence)
    \/ PerformTimers
    \/ Wake
    \/ Tick

ParkTimesOut == deadline <= 0 /\ Wake

(* The worker goes on, its park ends, and time passes even when the worker   *)
(* is woken again and again.                                                 *)
Fairness ==
    /\ WF_vars(EndControl)
    /\ WF_vars(PerformTimers)
    /\ WF_vars(ParkTimesOut)
    /\ SF_vars(Tick)

SafeSpec == Init /\ [][Next]_vars
Spec == SafeSpec /\ Fairness

-----------------------------------------------------------------------------
(* Properties *)

Number == 0 .. CounterSize - 1
PendingPing == [sequence : 0 .. SequenceSize - 1, age : 0 .. MaxAge, number : Number]

(* The variables have their types: a sequence number has 16 bits, a session  *)
(* belongs to a PingSession of its key, the worker is late by one tick.      *)
TypeOK ==
    /\ DOMAIN sessions \subseteq Key
    /\ \A key \in DOMAIN sessions :
        LET entry == sessions[key] IN
        /\ entry.owner \in DOMAIN handles /\ handles[entry.owner].key = key
        /\ entry.sent \in Number
        /\ entry.last \in 0 .. entry.interval + 1
        /\ entry.pending \in Seq(PendingPing)
    /\ handles \in Seq([key : Key, stopped : BOOLEAN])
    /\ Len(handles) <= Len(Calls)
    /\ stops \subseteq Key
    /\ results \in [Handle -> SUBSET (Number \X Status)]
    /\ worker \in {"control", "recv", "parked"}
    /\ deadline \in Int /\ deadline >= -1
    /\ errors \in 0 .. MaxErrors

Decided(h) == {report[1] : report \in results[h]}
Unanswered(entry) == {entry.pending[i].number : i \in DOMAIN entry.pending}

(* Every ping sent is either pending or reported, under its own number       *)
(* although only 16 bits of it travel; what is pending was sent, and what is *)
(* settled (answered or timed out) was sent and is no longer pending.  An    *)
(* asynchronous error alone may be reported for a ping that is not pending,  *)
(* even for one never sent: on_async_send_error looks for it in pending and  *)
(* reports it either way (send, timeouts, on_echo_reply, on_async_send_error *)
(* and unwrap_sequence together).                                            *)
PingsAreAccounted ==
    \A key \in DOMAIN sessions :
        LET entry == sessions[key]
            sent == 0 .. entry.sent - 1 IN
        /\ sent \subseteq Decided(entry.owner) \cup Unanswered(entry)
        /\ Unanswered(entry) \subseteq sent
        /\ \A report \in results[entry.owner] :
            report[2] # "unreachable" => report[1] \in sent \ Unanswered(entry)

(* A ping never waits longer than the timeout and one more sleep of the      *)
(* worker.  That sleep is as long as the longest interval of ANY session:    *)
(* one that has sent all its pings asks for no deadline, and one whose       *)
(* interval has not passed asks for nothing sooner, whatever is pending      *)
(* (the deadlines of process_timers_session and their minimum).              *)
OverdueIsBounded ==
    \A key \in DOMAIN sessions :
        LET pending == sessions[key].pending IN
        \A i \in DOMAIN pending : pending[i].age < MaxAge

Alive(h) == \E key \in DOMAIN sessions : sessions[key].owner = h
OnlyOwner(h) == \A g \in DOMAIN handles : handles[g].key = handles[h].key => g = h

(* A session nobody stopped ends only when every one of its pings has been   *)
(* reported, so the iterator of the PingSession ends after the last result;  *)
(* unless an older PingSession had the same key, whose Stop it would obey    *)
(* (garbage_collect, and Stop messages by key).                              *)
EndedSessionsAreComplete ==
    \A h \in DOMAIN handles :
        ~handles[h].stopped /\ OnlyOwner(h) /\ ~Alive(h) =>
            /\ Calls[h].count # NoCount
            /\ 0 .. Calls[h].count - 1 \subseteq Decided(h)

AllSent(h) ==
    \E key \in DOMAIN sessions :
        sessions[key].owner = h /\ ~HasMoreToSend(sessions[key])

(* A session that was stopped or dropped, or has sent all it was to send, is *)
(* eventually removed, and with it the sending half the iterator waits on.   *)
SessionsEnd ==
    \A h \in Handle :
        (h \in DOMAIN handles /\ handles[h].stopped) \/ AllSent(h) ~> ~Alive(h)
=============================================================================
