------------------------------ MODULE ArpTable ------------------------------
(***************************************************************************)
(* One entry of the ARP table and what its operations do to it             *)
(* (src/lib/src/runtime/interface/l2_ethernet/arp_table.rs).               *)
(*                                                                         *)
(* Time is counted in ticks, each longer than ARP_REQUEST_TIMEOUT (100 ms) *)
(* and short against the two lifetimes; an entry carries its age.  The     *)
(* hardware address of a resolved entry and the source a pending request   *)
(* was made for are left out: nothing here depends on their values.        *)
(***************************************************************************)
EXTENDS Naturals

CONSTANTS
    MaxRetry,       \* ARP_REQUEST_MAX_RETRY (5)
    Lifetime,       \* ARP_LIFETIME in ticks (30 s)
    StaleLifetime   \* ARP_LIFETIME_STALE_SEC in ticks (60 s)

ASSUME ArpTableAssumption ==
    /\ MaxRetry \in Nat \ {0}
    /\ Lifetime \in Nat \ {0}
    /\ StaleLifetime \in Nat
    /\ Lifetime < StaleLifetime

Vacant == [state |-> "vacant"]
Pending(retries) == [state |-> "pending", retry |-> retries, age |-> 0]
Resolved == [state |-> "resolved", age |-> 0]
TimedOut == [state |-> "timeout", age |-> 0]

IsPending(entry) == entry.state = "pending"
IsResolved(entry) == entry.state = "resolved"
IsTimedOut(entry) == entry.state = "timeout"
Expired(entry) == IsPending(entry) /\ entry.age > 0

(* Mutant of RetriesSpent: one retry too many.                             *)
RetriesSpentLate(entry) == entry.retry > MaxRetry

RetriesSpent(entry) == entry.retry >= MaxRetry

(* One tick goes by; the age stops where no operation can tell any more.   *)
Older(entry) ==
    IF entry = Vacant \/ entry.age = StaleLifetime
    THEN entry
    ELSE [entry EXCEPT !.age = @ + 1]

(* ArpTable::request: the ArpState it returns ...                          *)
RequestState(entry) ==
    CASE entry = Vacant -> "PendingRetry"
      [] IsPending(entry) /\ ~Expired(entry) -> "PendingWait"
      [] Expired(entry) /\ ~RetriesSpent(entry) -> "PendingRetry"
      [] Expired(entry) /\ RetriesSpent(entry) -> "Timeout"
      [] IsTimedOut(entry) -> IF entry.age > Lifetime THEN "Restart" ELSE "Timeout"
      [] IsResolved(entry) -> IF entry.age >= StaleLifetime THEN "Restart"
                              ELSE IF entry.age >= Lifetime THEN "ResolvedStale"
                              ELSE "Resolved"

(* ... and the entry it leaves: a vacant one becomes pending, a spent one  *)
(* times out, and an outdated one is removed.                              *)
AfterRequest(entry) ==
    CASE entry = Vacant -> Pending(0)
      [] Expired(entry) /\ RetriesSpent(entry) -> TimedOut
      [] RequestState(entry) = "Restart" -> Vacant
      [] OTHER -> entry

(* ArpTable::can_send_request: whether a request may go out ...            *)
CanSendRequest(entry) == entry = Vacant \/ IsPending(entry)

(* Mutant of AfterSendRequest: a request starts the count afresh.          *)
AfterSendRequestUncounted(entry) ==
    IF CanSendRequest(entry) THEN Pending(0) ELSE entry

(* Mutant of AfterSendRequest: an entry that is not there is not inserted. *)
AfterSendRequestNoInsert(entry) ==
    IF IsPending(entry) THEN Pending(entry.retry + 1) ELSE entry

(* ... and the entry it leaves: one more retry from now, or a first one.   *)
AfterSendRequest(entry) ==
    CASE IsPending(entry) -> Pending(entry.retry + 1)
      [] entry = Vacant -> Pending(0)
      [] OTHER -> entry
=============================================================================
