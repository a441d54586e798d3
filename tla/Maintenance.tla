---------------------------- MODULE Maintenance ----------------------------
(***************************************************************************)
(* A running `serve --load F --watch --recheck`: the re-checker and the file *)
(* watcher change one pool while a caller leases from it and a user removes  *)
(* addresses through proxycontrol or report_dead.                           *)
(***************************************************************************)
EXTENDS Rechecker, Watcher

CONSTANT Repeats   \* the most lines of the file that name one address

ASSUME RepeatsAssumption == Repeats \in Nat \ {0}

vars == <<poolVars, recheckVars, watchVars>>

Init ==
  /\ RecheckInit
  /\ WatchInit
  /\ \E lines \in [Addr -> 1..Repeats] :   \* an address may be listed twice
       pooled = [a \in Addr |-> IF a \in loaded THEN lines[a] ELSE 0]
  /\ leased = [a \in Addr |-> 0]

Recheck == Loop /\ UNCHANGED watchVars

\* The pool's own callers and its remove API.
Use ==
  /\ \E a \in Addr : \/ Lease(a)
                     \/ Put(a)
                     \/ remove(a) /\ leased' = leased /\ a \in Leasable
  /\ UNCHANGED <<recheckVars, watchVars>>

Next ==
  \/ Recheck
  \/ Tick /\ UNCHANGED watchVars
  \/ Stop /\ UNCHANGED watchVars
  \/ Watch /\ UNCHANGED recheckVars
  \/ StopWatch /\ UNCHANGED recheckVars
  \/ Write /\ UNCHANGED <<poolVars, recheckVars>>
  \/ Use

\* The loops run and time passes; nobody has to write, call or stop.
Spec == Init /\ [][Next]_vars
             /\ WF_vars(Recheck) /\ WF_vars(Tick /\ UNCHANGED watchVars)
             /\ WF_vars(Watch /\ UNCHANGED recheckVars)

-----------------------------------------------------------------------------
TypeOK ==
  /\ pooled \in [Addr -> 0..(Repeats + 1)] /\ leased \in [Addr -> 0..1]
  /\ pc \in {"enroll", "idle", "sleep", "bucket", "check", "stopped"}
  /\ timer \in 0..MinInterval /\ next_start \in 0..Gap
  /\ heap \in Seq([addr : Addr, left : Nat])
  /\ DOMAIN ewma \subseteq Addr /\ DOMAIN last_ok = DOMAIN ewma
  /\ \A a \in DOMAIN ewma : ewma[a] \in 0..Full /\ last_ok[a] \in 0..MaxAge
  /\ job \in {Nobody} \cup {<<a>> : a \in Addr}
  /\ file.text \subseteq Addr /\ file.torn \in BOOLEAN
  /\ writer \in {<<>>} \cup {<<W>> : W \in Contents}
  /\ pending \in BOOLEAN /\ wpc \in {"unarmed", "poll", "reconcile", "stopped"}
  /\ drop \subseteq Addr /\ join \subseteq Addr /\ loaded \subseteq Addr

\* Tracked, scheduled and in flight are one and the same: an address with a
\* success average has exactly one entry in the heap, or is the one being
\* checked.  One too few would never be checked again, because enrollment
\* passes over tracked addresses; one too many would be checked twice as
\* often with every round.
TrackedOnce ==
  /\ TypeOK
  /\ \A a \in Addr :
       Cardinality({i \in DOMAIN heap : heap[i].addr = a})
         + (IF job = <<a>> THEN 1 ELSE 0)
         = IF a \in DOMAIN ewma THEN 1 ELSE 0
  /\ retrying \subseteq DOMAIN ewma

\* An address nothing holds on to any more: not pooled, leased, checked or
\* retried, and not in the user's list.
Gone(a) == /\ a \notin addrs /\ leased[a] = 0
           /\ job # <<a>> /\ a \notin retrying
           /\ a \notin loaded \cup join

\* Once an address is gone it stays gone until the user's list names it
\* again, although the schedule still holds its entry.
GoneStaysGone ==
  [][\A a \in Addr : Gone(a) /\ a \notin loaded' => Gone(a)']_vars

\* An address that stays in the pool is checked again and again, as long as
\* the re-checker runs: new arrivals, and addresses that left and came back,
\* included.
StaysChecked ==
  \A a \in Addr :
    <>[](a \in addrs) => []<>(job = <<a>> \/ pc = "stopped")

\* A list the user saves and leaves alone is the one the watcher ends up
\* with, and the pool holds the addresses of it that no caller, no failed
\* check and no user takes out, however the writes fall into polls, the
\* debounce window and a reconcile under way: as long as the watcher runs, and
\* if the watch was registered in time to see at least the end of a save.
NoWriteLost ==
  \A W \in Contents :
    <>event
    /\ <>[](writer = <<>> /\ ~event /\ file = [text |-> W, torn |-> FALSE])
      => <>[](\/ wpc = "stopped"
              \/ loaded = W /\ W \ (Leasable \cup Flaky) \subseteq addrs)
=============================================================================
