------------------------------ MODULE VramGate ------------------------------
(***************************************************************************)
(* The VRAM admission gate (oapi/admission.rs) and the speculative chat    *)
(* path that goes through it (chat_engine/gemma4_loop.rs). A request takes *)
(* the verify cache its drafter's pool keeps, if it is there (a lease), is *)
(* charged at the gate for what it may allocate beyond what the gate       *)
(* already retains, takes a chat permit, runs, and puts a verify cache     *)
(* back. Requests are tasks on several threads: a step here is what one    *)
(* task does between two awaits, or under one lock.                        *)
(*                                                                         *)
(* A request without a drafter (pool NoPool) is admitted with extra only.  *)
(* `buf' and `verify' are device memory: the size of the cache a request   *)
(* holds and of the one each pool keeps. One verify depth k is modelled,   *)
(* so a cache is reusable when it is large enough.                         *)
(*                                                                         *)
(* The capacity is not the gate's own: it is the budget less what the      *)
(* ledger of all engines' plans records, read again at every attempt. It   *)
(* moves whenever an engine is booted or dropped, and no waiter is told.   *)
(***************************************************************************)
EXTENDS Integers, FiniteSets, FiniteSetsExt

CONSTANTS
    Requests,  \* the request tasks
    Pools,     \* the drafters with a pool: Eagle3Shared, DFlashShared
    NoPool,    \* the pool of a request that runs without a drafter
    Sizes,     \* the verify cache sizes requests need (sticky)
    Extras,    \* what they allocate besides (extra)
    Capacities, \* what GateCapacity::bytes may be
    Pad,       \* VramGate::transient_pad
    Permits    \* NV_CHAT_CONCURRENCY

ASSUME GateAssumption ==
    /\ IsFiniteSet(Requests) /\ IsFiniteSet(Pools)
    /\ NoPool \notin Pools
    /\ Sizes \subseteq Nat \ {0} /\ Extras \subseteq Nat \ {0}
    /\ Capacities \subseteq Nat /\ Capacities # {}
    /\ Pad \in Nat /\ Permits \in Nat \ {0}

VARIABLES
    used, retained, active,  \* GateState
    capacity,  \* GateCapacity::bytes, as the ledger stands
    verify,    \* Eagle3State::verify of each pool, 0 for None
    leaseOut,  \* Eagle3State::lease_out
    permits,   \* free permits of the chat semaphore
    pc,        \* where each request stands
    expired,   \* its admission deadline has passed
    pool, need, extra,  \* what it asks for
    hadLease,  \* it took its pool's cache
    buf,       \* the size of the cache it holds, 0 for none
    charge, sticky, \* VramGuard; charge is 0 without a guard
    \* History, read by no action: the capacity the latest admission saw, and
    \* the one each request that waits saw when it looked, 0 if it does not.
    granted, looked

gateVars == <<used, retained, active>>
guardVars == <<charge, sticky>>
askVars == <<pool, need, extra, hadLease>>
lookVars == <<granted, looked>>
vars == <<gateVars, capacity, verify, leaseOut, permits, pc, expired, askVars,
          buf, guardVars, lookVars>>

Monus(a, b) == IF a > b THEN a - b ELSE 0
MaxOf(a, b) == IF a > b THEN a ELSE b

Goto(r, label) == pc' = [pc EXCEPT ![r] = label]

Init ==
    /\ used = 0 /\ retained = 0 /\ active = 0
    /\ verify = [p \in Pools |-> 0]
    /\ leaseOut = [p \in Pools |-> FALSE]
    /\ permits = Permits
    /\ pc = [r \in Requests |-> "idle"]
    /\ expired = [r \in Requests |-> FALSE]
    /\ pool = [r \in Requests |-> NoPool]
    /\ need = [r \in Requests |-> 0]
    /\ extra = [r \in Requests |-> 0]
    /\ hadLease = [r \in Requests |-> FALSE]
    /\ buf = [r \in Requests |-> 0]
    /\ charge = [r \in Requests |-> 0]
    /\ sticky = [r \in Requests |-> 0]
    /\ capacity \in Capacities
    /\ granted = capacity
    /\ looked = [r \in Requests |-> 0]

-----------------------------------------------------------------------------
(* A request arrives.                                                      *)

\* run_sampling_gemma4_spec, _dflash: take the pool's cache under its lock.
ArriveSpec(r, p, n, e) ==
    /\ pc[r] = "idle"
    /\ pool' = [pool EXCEPT ![r] = p]
    /\ need' = [need EXCEPT ![r] = n]
    /\ extra' = [extra EXCEPT ![r] = e]
    /\ hadLease' = [hadLease EXCEPT ![r] = verify[p] > 0]
    /\ buf' = [buf EXCEPT ![r] = verify[p]]
    /\ verify' = [verify EXCEPT ![p] = 0]
    /\ leaseOut' = [leaseOut EXCEPT ![p] = @ \/ verify[p] > 0]
    /\ expired' = [expired EXCEPT ![r] = FALSE]
    /\ Goto(r, "admit")
    /\ UNCHANGED <<gateVars, capacity, permits, guardVars, lookVars>>

\* The paths without a drafter.
ArrivePlain(r, e) ==
    /\ pc[r] = "idle"
    /\ pool' = [pool EXCEPT ![r] = NoPool]
    /\ need' = [need EXCEPT ![r] = 0]
    /\ extra' = [extra EXCEPT ![r] = e]
    /\ hadLease' = [hadLease EXCEPT ![r] = FALSE]
    /\ expired' = [expired EXCEPT ![r] = FALSE]
    /\ Goto(r, "admit")
    /\ UNCHANGED <<gateVars, capacity, verify, leaseOut, permits, buf,
                   guardVars, lookVars>>

-----------------------------------------------------------------------------
(* VramGate::admit. Each attempt is one critical section, in which the     *)
(* task is registered as a waiter before it looks at the state.            *)

\* The sticky argument: only a lease is credited with what is retained.
StickyArg(r) == IF hadLease[r] THEN need[r] ELSE 0
ExtraArg(r) == IF hadLease[r] THEN extra[r] ELSE need[r] + extra[r]

\* Mutant: what is retained is credited to every request, lease or not.
ChargeForCreditsAll(r) == Monus(need[r], retained) + extra[r] + Pad

ChargeFor(r) == Monus(StickyArg(r), retained) + ExtraArg(r) + Pad

\* Mutant: the comparison leaves out the charge of the newcomer itself.
FitsWithoutNewcomer(r) == used <= capacity

Fits(r) == used + ChargeFor(r) <= capacity

Admit(r) ==
    /\ pc[r] = "admit"
    /\ Fits(r) \/ active = 0
    /\ used' = used + ChargeFor(r)
    /\ active' = active + 1
    /\ charge' = [charge EXCEPT ![r] = ChargeFor(r)]
    /\ sticky' = [sticky EXCEPT ![r] = StickyArg(r)]
    /\ Goto(r, "permit")
    /\ granted' = capacity
    /\ UNCHANGED <<retained, capacity, verify, leaseOut, permits, expired,
                   askVars, buf, looked>>

\* Mutant: the deadline is not looked at, and the wait starts over.
WaitForever(r) ==
    /\ pc[r] = "admit"
    /\ ~Fits(r) /\ active > 0
    /\ Goto(r, "waiting")
    /\ expired' = [expired EXCEPT ![r] = FALSE]
    /\ looked' = [looked EXCEPT ![r] = capacity]
    /\ UNCHANGED <<gateVars, capacity, verify, leaseOut, permits, askVars,
                   buf, guardVars, granted>>

Wait(r) ==
    /\ pc[r] = "admit"
    /\ ~Fits(r) /\ active > 0
    /\ ~expired[r]
    /\ Goto(r, "waiting")
    /\ looked' = [looked EXCEPT ![r] = capacity]
    /\ UNCHANGED <<gateVars, capacity, verify, leaseOut, permits, expired,
                   askVars, buf, guardVars, granted>>

\* Rejected, after the whole queue window.
Reject(r) ==
    /\ pc[r] = "admit"
    /\ ~Fits(r) /\ active > 0
    /\ expired[r]
    /\ Goto(r, "unwind")
    /\ UNCHANGED <<gateVars, capacity, verify, leaseOut, permits, expired,
                   askVars, buf, guardVars, lookVars>>

\* The queue window closes while the request is at the gate.
Expire(r) ==
    /\ pc[r] \in {"admit", "waiting"}
    /\ ~expired[r]
    /\ expired' = [expired EXCEPT ![r] = TRUE]
    /\ UNCHANGED <<gateVars, capacity, verify, leaseOut, permits, pc, askVars,
                   buf, guardVars, lookVars>>

TimeoutWakes(r) ==
    /\ pc[r] = "waiting"
    /\ expired[r]
    /\ looked' = [looked EXCEPT ![r] = 0]
    /\ Goto(r, "admit")
    /\ UNCHANGED <<gateVars, capacity, verify, leaseOut, permits, expired,
                   askVars, buf, guardVars, granted>>

-----------------------------------------------------------------------------
(* The chat permit and the generation.                                     *)

AcquirePermit(r) ==
    /\ pc[r] = "permit"
    /\ permits > 0
    /\ permits' = permits - 1
    /\ Goto(r, "build")
    /\ UNCHANGED <<gateVars, capacity, verify, leaseOut, expired, askVars, buf,
                   guardVars, lookVars>>

\* NV_CHAT_QUEUE_MS passes without a permit.
PermitRefused(r) ==
    /\ pc[r] = "permit"
    /\ permits = 0
    /\ Goto(r, "unwind")
    /\ UNCHANGED <<gateVars, capacity, verify, leaseOut, permits, expired,
                   askVars, buf, guardVars, lookVars>>

\* Refused by either: what was taken goes back to the pool, or is dropped if
\* the pool has a cache again. The guard, if any, is dropped afterwards.
Unwind(r) ==
    /\ pc[r] = "unwind"
    /\ IF pool[r] = NoPool THEN UNCHANGED <<verify, leaseOut>>
       ELSE /\ leaseOut' = [leaseOut EXCEPT ![pool[r]] = @ /\ ~hadLease[r]]
            /\ verify' = [verify EXCEPT ![pool[r]] = IF @ = 0 THEN buf[r] ELSE @]
    /\ buf' = [buf EXCEPT ![r] = 0]
    /\ Goto(r, IF charge[r] > 0 THEN "guard" ELSE "idle")
    /\ UNCHANGED <<gateVars, capacity, permits, expired, askVars, guardVars,
                   lookVars>>

\* take_reusable_or_build: a cache that is too small is freed first.
Build(r) ==
    /\ pc[r] = "build"
    /\ buf' = [buf EXCEPT ![r] = IF @ >= need[r] THEN @ ELSE need[r]]
    /\ Goto(r, "run")
    /\ UNCHANGED <<gateVars, capacity, verify, leaseOut, permits, expired,
                   askVars, guardVars, lookVars>>

\* The generation ends, and the permit is given back before the pool's lock
\* is taken; an error frees the cache.
RunOk(r) ==
    /\ pc[r] = "run"
    /\ permits' = permits + 1
    /\ Goto(r, "restore")
    /\ UNCHANGED <<gateVars, capacity, verify, leaseOut, expired, askVars, buf,
                   guardVars, lookVars>>

RunFails(r) ==
    /\ pc[r] \in {"build", "run"}
    /\ permits' = permits + 1
    /\ buf' = [buf EXCEPT ![r] = 0]
    /\ Goto(r, "restore")
    /\ UNCHANGED <<gateVars, capacity, verify, leaseOut, expired, askVars,
                   guardVars, lookVars>>

\* The task unwinds: its permit, its cache and its guard are dropped, and
\* nothing else is done.
RunPanics(r) ==
    /\ pc[r] \in {"build", "run"}
    /\ permits' = permits + 1
    /\ buf' = [buf EXCEPT ![r] = 0]
    /\ Goto(r, "guard")
    /\ UNCHANGED <<gateVars, capacity, verify, leaseOut, expired, askVars,
                   guardVars, lookVars>>

\* Mutant: a cache is stored beside one that is out on lease.
RestoreBesideLease(r) ==
    /\ pc[r] = "restore"
    /\ IF pool[r] = NoPool THEN UNCHANGED <<verify, leaseOut, sticky>>
       ELSE LET out == leaseOut[pool[r]] /\ ~hadLease[r]
                kept == buf[r] > 0 /\ verify[pool[r]] = 0
            IN  /\ leaseOut' = [leaseOut EXCEPT ![pool[r]] = out]
                /\ verify' = [verify EXCEPT ![pool[r]] = IF kept THEN buf[r] ELSE @]
                /\ sticky' = [sticky EXCEPT ![r] = IF kept THEN need[r] ELSE 0]
    /\ buf' = [buf EXCEPT ![r] = 0]
    /\ Goto(r, "guard")
    /\ UNCHANGED <<gateVars, capacity, permits, expired, askVars, charge,
                   lookVars>>

\* Back under the pool's lock: the cache is kept if the pool has none and
\* none is out on lease, and then the guard is told to retain it.
Restore(r) ==
    /\ pc[r] = "restore"
    /\ IF pool[r] = NoPool THEN UNCHANGED <<verify, leaseOut, sticky>>
       ELSE LET out == leaseOut[pool[r]] /\ ~hadLease[r]
                kept == buf[r] > 0 /\ verify[pool[r]] = 0 /\ ~out
            IN  /\ leaseOut' = [leaseOut EXCEPT ![pool[r]] = out]
                /\ verify' = [verify EXCEPT ![pool[r]] = IF kept THEN buf[r] ELSE @]
                /\ sticky' = [sticky EXCEPT ![r] = IF kept THEN need[r] ELSE 0]
    /\ buf' = [buf EXCEPT ![r] = 0]
    /\ Goto(r, "guard")
    /\ UNCHANGED <<gateVars, capacity, permits, expired, askVars, charge,
                   lookVars>>

-----------------------------------------------------------------------------
(* Drop for VramGuard: the ledger under the lock, then the wakeup.         *)

\* Mutant: the whole charge is released, what becomes retained included.
DropGuardReleasesAll(r) ==
    /\ pc[r] = "guard"
    /\ retained' = IF sticky[r] > 0 THEN MaxOf(retained, sticky[r]) ELSE retained
    /\ used' = Monus(used, charge[r])
    /\ active' = Monus(active, 1)
    /\ charge' = [charge EXCEPT ![r] = 0]
    /\ sticky' = [sticky EXCEPT ![r] = 0]
    /\ Goto(r, "notify")
    /\ UNCHANGED <<capacity, verify, leaseOut, permits, expired, askVars, buf,
                   lookVars>>

\* Mutant: waiters are woken only when the ledger is empty again.
DropGuardWakesLast(r) ==
    /\ pc[r] = "guard"
    /\ LET grown == IF sticky[r] > 0 THEN MaxOf(retained, sticky[r]) ELSE retained
           kept == grown - retained
       IN  /\ retained' = grown
           /\ used' = Monus(used, Monus(charge[r], kept))
    /\ active' = Monus(active, 1)
    /\ charge' = [charge EXCEPT ![r] = 0]
    /\ sticky' = [sticky EXCEPT ![r] = 0]
    /\ Goto(r, IF active = 1 THEN "notify" ELSE "idle")
    /\ UNCHANGED <<capacity, verify, leaseOut, permits, expired, askVars, buf,
                   lookVars>>

DropGuard(r) ==
    /\ pc[r] = "guard"
    /\ LET grown == IF sticky[r] > 0 THEN MaxOf(retained, sticky[r]) ELSE retained
           kept == grown - retained
       IN  /\ retained' = grown
           /\ used' = Monus(used, Monus(charge[r], kept))
    /\ active' = Monus(active, 1)
    /\ charge' = [charge EXCEPT ![r] = 0]
    /\ sticky' = [sticky EXCEPT ![r] = 0]
    /\ Goto(r, "notify")
    /\ UNCHANGED <<capacity, verify, leaseOut, permits, expired, askVars, buf,
                   lookVars>>

NotifyWaiters(r) ==
    /\ pc[r] = "notify"
    /\ pc' = [q \in Requests |-> IF q = r THEN "idle"
                                 ELSE IF pc[q] = "waiting" THEN "admit"
                                 ELSE pc[q]]
    /\ looked' = [q \in Requests |-> 0]
    /\ UNCHANGED <<gateVars, capacity, verify, leaseOut, permits, expired,
                   askVars, buf, guardVars, granted>>

-----------------------------------------------------------------------------
\* An engine's plan is recorded in the ledger, or removed from it.
MoveCapacity ==
    /\ capacity' \in Capacities \ {capacity}
    /\ UNCHANGED <<gateVars, verify, leaseOut, permits, pc, expired, askVars,
                   buf, guardVars, lookVars>>

Arrive(r) ==
    \/ \E p \in Pools, n \in Sizes, e \in Extras : ArriveSpec(r, p, n, e)
    \/ \E e \in Extras : ArrivePlain(r, e)

Step(r) ==
    \/ Admit(r)
    \/ Wait(r)
    \/ Reject(r)
    \/ TimeoutWakes(r)
    \/ AcquirePermit(r)
    \/ PermitRefused(r)
    \/ Unwind(r)
    \/ Build(r)
    \/ RunOk(r)
    \/ RunFails(r)
    \/ RunPanics(r)
    \/ Restore(r)
    \/ DropGuard(r)
    \/ NotifyWaiters(r)

Next ==
    \/ \E r \in Requests : Arrive(r) \/ Step(r) \/ Expire(r)
    \/ MoveCapacity

Spec == Init /\ [][Next]_vars

\* Tasks are scheduled, generations end, and the admission timer fires.
FairSpec ==
    /\ Spec
    /\ \A r \in Requests : WF_vars(Step(r)) /\ WF_vars(Expire(r))

-----------------------------------------------------------------------------
(* Properties.                                                             *)

Labels == {"idle", "admit", "waiting", "permit", "unwind", "build", "run",
           "restore", "guard", "notify"}

\* Every variable has its type.
TypeOK ==
    /\ used \in Nat /\ retained \in Nat /\ active \in Nat
    /\ verify \in [Pools -> Nat]
    /\ leaseOut \in [Pools -> BOOLEAN]
    /\ permits \in 0 .. Permits
    /\ pc \in [Requests -> Labels]
    /\ expired \in [Requests -> BOOLEAN]
    /\ pool \in [Requests -> Pools \cup {NoPool}]
    /\ need \in [Requests -> Nat] /\ extra \in [Requests -> Nat]
    /\ hadLease \in [Requests -> BOOLEAN]
    /\ buf \in [Requests -> Nat]
    /\ charge \in [Requests -> Nat] /\ sticky \in [Requests -> Nat]
    /\ capacity \in Nat /\ granted \in Nat /\ looked \in [Requests -> Nat]

\* The sum of f over S.
Total(f, S) == MapThenSumSet(LAMBDA x : f[x], S)

\* The requests a guard exists for.
Guarded == {r \in Requests : pc[r] \in {"permit", "build", "run", "restore", "guard"}}
             \cup {r \in Requests : pc[r] = "unwind" /\ charge[r] > 0}

\* The ledger balances: what is in use is what is retained and what the
\* guards hold, whichever order leases are stored, lost and dropped in; no
\* saturating subtraction ever hides a deficit.
LedgerBalances ==
    /\ used = retained + Total(charge, Requests)
    /\ active = Cardinality(Guarded)

\* Two requests are in flight together only within the budget: over it is
\* the privilege of a request that is alone. The budget is the one the latest
\* of them was admitted against: if the ledger grows afterwards, nobody who is
\* in flight is sent away.
NeverOversubscribed == active > 1 => used <= granted

\* A request sleeps at the gate only while what it last looked at refuses it:
\* if the releases since then have made room for it in the capacity it saw,
\* one of them has yet to call notify_waiters. No release is lost between the
\* look at the ledger and the wait. This is about releases alone: when the
\* capacity grows, nobody is woken, and a request that would fit sleeps on
\* until the next release or its deadline.
NoLostWakeup ==
    \A r \in Requests :
        pc[r] = "waiting" /\ (used + ChargeFor(r) <= looked[r] \/ active = 0) =>
            \E q \in Requests : pc[q] = "notify"

\* What a request allocates besides its cache.
Besides == [r \in Requests |-> IF pc[r] \in {"run", "restore"} THEN extra[r] ELSE 0]

Resident == Total(verify, Pools) + Total(buf, Requests) + Total(Besides, Requests)

\* The accounting is conservative: the memory requests and pools really hold
\* never exceeds what the gate counts as used.
ResidentIsAccounted == Resident <= used

\* A lease is exclusive: its pool is empty while it is out, so no second
\* cache is stored beside it.
LeaseIsExclusive ==
    \A r \in Requests :
        hadLease[r] /\ pc[r] \in {"admit", "waiting", "permit", "unwind",
                                  "build", "run", "restore"} =>
            /\ leaseOut[pool[r]]
            /\ verify[pool[r]] = 0
            /\ \A q \in Requests \ {r} :
                  hadLease[q] /\ pool[q] = pool[r] =>
                      pc[q] \in {"idle", "guard", "notify"}

\* Every request is answered at the gate, with an admission or a rejection.
EveryRequestAnswered ==
    \A r \in Requests : pc[r] = "admit" ~> pc[r] \in {"permit", "unwind"}
=============================================================================
