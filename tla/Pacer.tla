------------------------------- MODULE Pacer --------------------------------
(***************************************************************************)
(* qpsPacer (internal/engine/pacer.go): the workers of a load test share   *)
(* one pacer; each call of Wait reserves the next slot under the mutex and *)
(* then sleeps until that slot.  Time is counted in clock units; a         *)
(* goroutine may wake up any time after its slot.  The names that every    *)
(* specification has begin with "Pacer" here: the proofs about an engine   *)
(* and those about its pacer share a module.                               *)
(***************************************************************************)
EXTENDS Integers, Sequences, FiniteSets

CONSTANTS Callers,   \* the worker goroutines
          Interval,  \* 1 second / qps, at least one clock unit
          MaxTime    \* the clock stops here

ASSUME IntervalAssumption == Interval \in Nat \ {0}
ASSUME MaxTimeAssumption == MaxTime \in Nat
ASSUME CallersAssumption == IsFiniteSet(Callers)

VARIABLES now,       \* time.Now()
          next,      \* p.next, 0 while it is the zero time
          slot,      \* the slot each caller reserved last, 0 before
          pc,        \* inside Wait: "reserved", "sleep"; else "idle", "gone"
          ctx,       \* "live" or "done"
          reserved,  \* the slots handed out so far, one after the other
          used       \* the slots whose caller was let through

pacerVars == <<now, next, slot, pc, ctx, reserved, used>>

PacerInit ==
    /\ now = 1
    /\ next = 0
    /\ slot = [c \in Callers |-> 0]
    /\ pc = [c \in Callers |-> "idle"]
    /\ ctx = "live"
    /\ reserved = << >>
    /\ used = {}

\* Mutant: earlier reservations are ignored.
ScheduledNow == now

\* p.next when it is in the future, otherwise the clock: an idle pacer earns
\* no credit for the time it was not used.
Scheduled == IF next = 0 \/ now > next THEN now ELSE next

\* Mutant: the interval is added twice.
ReserveTwice(c) ==
    /\ pc[c] = "idle"
    /\ slot' = [slot EXCEPT ![c] = Scheduled]
    /\ next' = Scheduled + 2 * Interval
    /\ reserved' = Append(reserved, Scheduled)
    /\ pc' = [pc EXCEPT ![c] = "reserved"]
    /\ UNCHANGED <<now, ctx, used>>

\* The critical section of Wait.
Reserve(c) ==
    /\ pc[c] = "idle"
    /\ slot' = [slot EXCEPT ![c] = Scheduled]
    /\ next' = Scheduled + Interval
    /\ reserved' = Append(reserved, Scheduled)
    /\ pc' = [pc EXCEPT ![c] = "reserved"]
    /\ UNCHANGED <<now, ctx, used>>

\* Wait returns nil and the caller goes through; or it returns ctx.Err(), the
\* slot is not given back and the worker ends.
LetThrough(c) == used' = used \cup {slot[c]} /\ pc' = [pc EXCEPT ![c] = "idle"]
Aborted(c) == pc' = [pc EXCEPT ![c] = "gone"] /\ UNCHANGED used

\* After the unlock the clock is read again: a slot that has come is taken at
\* once, if the context is live, and any other starts a timer.
Due(c) ==
    /\ pc[c] = "reserved"
    /\ now >= slot[c]
    /\ IF ctx = "live" THEN LetThrough(c) ELSE Aborted(c)
    /\ UNCHANGED <<now, next, slot, ctx, reserved>>

StartTimer(c) ==
    /\ pc[c] = "reserved"
    /\ now < slot[c]
    /\ pc' = [pc EXCEPT ![c] = "sleep"]
    /\ UNCHANGED <<now, next, slot, ctx, reserved, used>>

\* Mutant: nobody sleeps.
TimerSkipped(c) ==
    /\ pc[c] = "sleep"
    /\ LetThrough(c)
    /\ UNCHANGED <<now, next, slot, ctx, reserved>>

\* The select: the timer may win although the context is done.
TimerFires(c) ==
    /\ pc[c] = "sleep"
    /\ now >= slot[c]
    /\ LetThrough(c)
    /\ UNCHANGED <<now, next, slot, ctx, reserved>>

Abort(c) ==
    /\ pc[c] = "sleep"
    /\ ctx = "done"
    /\ Aborted(c)
    /\ UNCHANGED <<now, next, slot, ctx, reserved>>

ContextDone ==
    /\ ctx = "live"
    /\ ctx' = "done"
    /\ UNCHANGED <<now, next, slot, pc, reserved, used>>

Tick ==
    /\ now < MaxTime
    /\ now' = now + 1
    /\ UNCHANGED <<next, slot, pc, ctx, reserved, used>>

PacerNext ==
    \/ \E c \in Callers : Reserve(c) \/ Due(c) \/ StartTimer(c) \/ TimerFires(c) \/ Abort(c)
    \/ ContextDone \/ Tick

PacerSpec == PacerInit /\ [][PacerNext]_pacerVars

-----------------------------------------------------------------------------
(* Properties.                                                             *)

PacerTypeOK ==
    /\ now \in Nat /\ now > 0
    /\ next \in Nat
    /\ slot \in [Callers -> Nat]
    /\ pc \in [Callers -> {"idle", "reserved", "sleep", "gone"}]
    /\ ctx \in {"live", "done"}
    /\ reserved \in Seq(Nat) /\ used \subseteq Nat

\* No two calls of Wait get slots closer than the interval, whatever the
\* order of the workers and however long the pacer was idle in between.
Spacing ==
    \A i, k \in 1..Len(reserved) : i < k => reserved[i] + Interval <= reserved[k]

\* With it, inductive: the next slot is an interval after every earlier one.
SpacingInv ==
    /\ PacerTypeOK
    /\ Spacing
    /\ \A i \in 1..Len(reserved) : reserved[i] + Interval <= next

\* The cap on requests per second is global: from the first slot until any
\* moment, no more callers were let through than intervals have started
\* (docs/cli-reference.md: "Global requests/sec cap").
RateCap ==
    \A i \in 1..Len(reserved) :
        LET through == Cardinality({s \in used : s >= reserved[i]})
        IN  through > 0 => (through - 1) * Interval <= now - reserved[i]

\* Nobody waits longer than one interval per worker while the context is
\* live: the backlog of reserved slots cannot outgrow the workers.
BoundedWait ==
    ctx = "live" =>
        \A c \in Callers : pc[c] \in {"reserved", "sleep"} =>
            slot[c] - now <= Cardinality(Callers) * Interval
=============================================================================
