--------------------------- MODULE VramGateProofs ---------------------------
(***************************************************************************)
(* Proofs about the VRAM gate, for any number of requests and pools, any   *)
(* sizes, capacity, pad and permits.                                       *)
(*                                                                         *)
(* What each action does to one variable depends on few others, so the     *)
(* inductive invariants are proved one after the other: the types together *)
(* with the count of permits, the budget with the wakeups, the leases, the *)
(* ledger of what is charged, and the caches that are resident.            *)
(***************************************************************************)
EXTENDS VramGate, FiniteSetTheorems, TLAPS

-----------------------------------------------------------------------------
(* Types, and where the permits are.                                       *)

\* The requests that hold a chat permit.
PermitHolders == {r \in Requests : pc[r] \in {"build", "run"}}

\* Every permit is free or held by a request that builds or runs.
GateTypes ==
    /\ TypeOK
    /\ permits + Cardinality(PermitHolders) = Permits

\* The set of holders stays finite and changes by one request at a time.
LEMMA HoldersStep ==
    ASSUME GateAssumption,
           NEW A, A \subseteq Requests, NEW r \in Requests
    PROVE  /\ IsFiniteSet(A) /\ Cardinality(A) \in Nat
           /\ r \notin A => Cardinality(A \cup {r}) = Cardinality(A) + 1
           /\ r \in A => Cardinality(A \ {r}) = Cardinality(A) - 1
  <1>1. IsFiniteSet(A)
    BY FS_Subset DEF GateAssumption
  <1> QED
    BY <1>1, FS_CardinalityType, FS_AddElement, FS_RemoveElement

\* Initially every variable has its type and every permit is free.
LEMMA InitTypes == ASSUME GateAssumption, Init PROVE GateTypes
  <1>1. PermitHolders = {}
    BY DEF Init, PermitHolders
  <1>2. Cardinality(PermitHolders) = 0
    BY <1>1, FS_EmptySet
  <1>3. TypeOK
    BY DEF GateAssumption, Init, TypeOK, Labels
  <1> QED
    BY <1>2, <1>3 DEF GateAssumption, Init, GateTypes

\* A step that moves no request into or out of the held labels keeps the
\* permits where they are.
LEMMA HoldersKept ==
    ASSUME GateTypes, TypeOK', permits' = permits,
           \A r \in Requests : pc'[r] \in {"build", "run"} <=> pc[r] \in {"build", "run"}
    PROVE  GateTypes'
  <1>1. PermitHolders' = PermitHolders
    BY DEF PermitHolders
  <1> QED
    BY <1>1 DEF GateTypes

\* Every step keeps the types and the count of permits.
LEMMA NextTypes == ASSUME GateAssumption, GateTypes, [Next]_vars PROVE GateTypes'
  <1> USE DEF GateTypes
  <1>a. CASE UNCHANGED vars \/ MoveCapacity
    BY <1>a, HoldersKept
    DEF TypeOK, PermitHolders, vars, MoveCapacity, gateVars, guardVars, askVars,
        lookVars
  <1>b. CASE \E r \in Requests : Arrive(r) \/ Step(r) \/ Expire(r)
    <2> PICK r \in Requests : Arrive(r) \/ Step(r) \/ Expire(r)
      BY <1>b
    <2> USE DEF gateVars, guardVars, askVars, lookVars, Goto
    <2>1. ASSUME NEW p \in Pools, NEW n \in Sizes, NEW e \in Extras,
                 ArriveSpec(r, p, n, e)
          PROVE  GateTypes'
      <3>1. TypeOK'
        BY <2>1 DEF GateAssumption, TypeOK, Labels, ArriveSpec
      <3> QED
        BY <3>1, <2>1, HoldersKept DEF TypeOK, ArriveSpec
    <2>2. ASSUME NEW e \in Extras, ArrivePlain(r, e) PROVE GateTypes'
      <3>1. TypeOK'
        BY <2>2 DEF GateAssumption, TypeOK, Labels, ArrivePlain
      <3> QED
        BY <3>1, <2>2, HoldersKept DEF TypeOK, ArrivePlain
    <2>3. CASE Admit(r)
      <3>1. ChargeFor(r) \in Nat /\ StickyArg(r) \in Nat
        BY DEF GateAssumption, TypeOK, ChargeFor, StickyArg, ExtraArg, Monus
      <3>2. TypeOK'
        BY <3>1, <2>3 DEF TypeOK, Labels, Admit
      <3> QED
        BY <3>2, <2>3, HoldersKept DEF TypeOK, Admit
    <2>4. CASE Wait(r) \/ Reject(r) \/ TimeoutWakes(r)
      <3>1. TypeOK'
        BY <2>4 DEF TypeOK, Labels, Wait, Reject, TimeoutWakes
      <3> QED
        BY <3>1, <2>4, HoldersKept DEF TypeOK, Wait, Reject, TimeoutWakes
    <2>5. CASE Expire(r)
      <3>1. TypeOK'
        BY <2>5 DEF TypeOK, Expire
      <3> QED
        BY <3>1, <2>5, HoldersKept DEF Expire
    <2>6. CASE AcquirePermit(r)
      <3>1. PermitHolders' = PermitHolders \cup {r} /\ r \notin PermitHolders
        BY <2>6 DEF TypeOK, AcquirePermit, PermitHolders
      <3>2. Cardinality(PermitHolders') = Cardinality(PermitHolders) + 1
            /\ Cardinality(PermitHolders) \in Nat
        BY <3>1, HoldersStep DEF PermitHolders
      <3>3. TypeOK'
        BY <2>6 DEF TypeOK, Labels, AcquirePermit
      <3> QED
        BY <3>2, <3>3, <2>6 DEF GateAssumption, TypeOK, AcquirePermit
    <2>7. CASE PermitRefused(r)
      <3>1. TypeOK'
        BY <2>7 DEF TypeOK, Labels, PermitRefused
      <3> QED
        BY <3>1, <2>7, HoldersKept DEF TypeOK, PermitRefused
    <2>8. CASE Unwind(r)
      <3>a. pool[r] \in Pools \/ pool[r] = NoPool
        BY DEF TypeOK
      <3>b. verify' \in [Pools -> Nat]
        BY <2>8, <3>a DEF TypeOK, Unwind
      <3>c. leaseOut' \in [Pools -> BOOLEAN]
        <4>1. CASE pool[r] = NoPool
          BY <2>8, <4>1 DEF TypeOK, Unwind
        <4>2. CASE pool[r] # NoPool
          <5>1. leaseOut' = [leaseOut EXCEPT ![pool[r]] = leaseOut[pool[r]] /\ ~hadLease[r]]
            BY <2>8, <4>2 DEF Unwind
          <5> QED
            BY <5>1, Zenon DEF TypeOK
        <4> QED
          BY <4>1, <4>2
      <3>1. verify' \in [Pools -> Nat] /\ leaseOut' \in [Pools -> BOOLEAN]
        BY <3>b, <3>c
      <3>2. TypeOK'
        BY <3>1, <2>8 DEF TypeOK, Labels, Unwind
      <3> QED
        BY <3>2, <2>8, HoldersKept DEF TypeOK, Unwind
    <2>9. CASE Build(r)
      <3>1. TypeOK'
        BY <2>9 DEF TypeOK, Labels, Build
      <3> QED
        BY <3>1, <2>9, HoldersKept DEF TypeOK, Build
    <2>10. CASE RunOk(r) \/ RunFails(r) \/ RunPanics(r)
      <3>1. PermitHolders' = PermitHolders \ {r} /\ r \in PermitHolders
        BY <2>10 DEF TypeOK, RunOk, RunFails, RunPanics, PermitHolders
      <3>2. Cardinality(PermitHolders') = Cardinality(PermitHolders) - 1
            /\ Cardinality(PermitHolders) \in Nat
            /\ Cardinality(PermitHolders') \in Nat
        BY <3>1, HoldersStep DEF PermitHolders
      <3>3. permits' \in 0 .. Permits
        BY <3>2, <2>10 DEF GateAssumption, TypeOK, RunOk, RunFails, RunPanics
      <3>4. TypeOK'
        BY <3>3, <2>10 DEF TypeOK, Labels, RunOk, RunFails, RunPanics
      <3> QED
        BY <3>2, <3>4, <2>10 DEF GateAssumption, TypeOK, RunOk, RunFails, RunPanics
    <2>11. CASE Restore(r)
      <3>a. pool[r] \in Pools \/ pool[r] = NoPool
        BY DEF TypeOK
      <3>b. verify' \in [Pools -> Nat]
        BY <2>11, <3>a DEF TypeOK, Restore
      <3>c. leaseOut' \in [Pools -> BOOLEAN]
        <4>1. CASE pool[r] = NoPool
          BY <2>11, <4>1 DEF TypeOK, Restore
        <4>2. CASE pool[r] # NoPool
          <5>1. leaseOut' = [leaseOut EXCEPT ![pool[r]] = leaseOut[pool[r]] /\ ~hadLease[r]]
            BY <2>11, <4>2 DEF Restore
          <5> QED
            BY <5>1, Zenon DEF TypeOK
        <4> QED
          BY <4>1, <4>2
      <3>1. verify' \in [Pools -> Nat] /\ leaseOut' \in [Pools -> BOOLEAN]
        BY <3>b, <3>c
      <3>2. sticky' \in [Requests -> Nat]
        BY <2>11 DEF TypeOK, Restore
      <3>3. TypeOK'
        BY <3>1, <3>2, <2>11 DEF TypeOK, Labels, Restore
      <3> QED
        BY <3>3, <2>11, HoldersKept DEF TypeOK, Restore
    <2>12. CASE DropGuard(r)
      <3>1. used' \in Nat /\ retained' \in Nat /\ active' \in Nat
        BY <2>12 DEF TypeOK, DropGuard, Monus, MaxOf
      <3>2. TypeOK'
        BY <3>1, <2>12 DEF TypeOK, Labels, DropGuard
      <3> QED
        BY <3>2, <2>12, HoldersKept DEF TypeOK, DropGuard
    <2>13. CASE NotifyWaiters(r)
      <3>1. TypeOK'
        BY <2>13 DEF TypeOK, Labels, NotifyWaiters
      <3> QED
        BY <3>1, <2>13, HoldersKept DEF TypeOK, NotifyWaiters
    <2> QED
      BY <2>1, <2>2, <2>3, <2>4, <2>5, <2>6, <2>7, <2>8, <2>9, <2>10, <2>11,
         <2>12, <2>13 DEF Arrive, Step
  <1> QED
    BY <1>a, <1>b DEF Next

\* In every behaviour of the gate the variables keep their types, and every
\* permit that is not free is held by one request that builds or runs: no way
\* a generation ends returns it twice or never.
THEOREM GateTypesHold == Spec => []GateTypes
  <1>1. Init => GateTypes
    BY InitTypes, GateAssumption
  <1>2. GateTypes /\ [Next]_vars => GateTypes'
    BY NextTypes, GateAssumption
  <1> QED
    BY <1>1, <1>2, PTL DEF Spec

\* The type invariant the runs check, for every value of the constants.
THEOREM GateTypeCorrect == Spec => []TypeOK
  <1>1. GateTypes => TypeOK
    BY DEF GateTypes
  <1> QED
    BY <1>1, GateTypesHold, PTL
-----------------------------------------------------------------------------
(* The budget and the wakeups.                                             *)

\* Only admission adds to what is in use, and it looks first.
LEMMA NextBudget ==
    ASSUME GateAssumption, TypeOK, NeverOversubscribed, [Next]_vars
    PROVE  NeverOversubscribed'
  <1> USE DEF NeverOversubscribed
  <1>a. CASE used' = used /\ active' = active /\ granted' = granted
    BY <1>a
  <1>b. ASSUME NEW r \in Requests, Admit(r) PROVE NeverOversubscribed'
    BY <1>b DEF TypeOK, Admit, Fits
  <1>c. ASSUME NEW r \in Requests, DropGuard(r) PROVE NeverOversubscribed'
    <2>1. used' <= used /\ used' \in Int /\ granted' = granted
      BY <1>c DEF TypeOK, DropGuard, Monus, MaxOf, lookVars
    <2>2. active' > 1 => active > 1
      BY <1>c DEF TypeOK, DropGuard, Monus
    <2> QED
      BY <2>1, <2>2 DEF TypeOK
  <1> QED
    BY <1>a, <1>b, <1>c
    DEF Next, Arrive, Step, ArriveSpec, ArrivePlain, Wait, Reject, TimeoutWakes,
        Expire, AcquirePermit, PermitRefused, Unwind, Build, RunOk, RunFails,
        RunPanics, Restore, NotifyWaiters, MoveCapacity, vars, gateVars, lookVars

\* Two requests are in flight together only within the capacity the latest of
\* them was admitted against, for every number of requests, every size and
\* however the capacity moves: no interleaving of admissions, failures and
\* releases takes the ledger over it with more than one alive.
THEOREM GateNeverOversubscribed == Spec => []NeverOversubscribed
  <1>1. Init => NeverOversubscribed
    BY DEF Init, NeverOversubscribed
  <1>2. TypeOK /\ NeverOversubscribed /\ [Next]_vars => NeverOversubscribed'
    BY NextBudget, GateAssumption
  <1> QED
    BY <1>1, <1>2, GateTypeCorrect, PTL DEF Spec

\* A step that puts nobody to sleep, silences nobody who is about to wake the
\* others and frees nothing cannot lose a wakeup.
LEMMA WakeupKept ==
    ASSUME GateAssumption, TypeOK, TypeOK', NoLostWakeup,
           retained' = retained, used' >= used, active' = 0 => active = 0,
           \A q \in Requests : pc'[q] = "waiting" =>
               /\ pc[q] = "waiting"
               /\ need'[q] = need[q] /\ extra'[q] = extra[q]
               /\ hadLease'[q] = hadLease[q] /\ looked'[q] = looked[q],
           \A q \in Requests : pc[q] = "notify" => pc'[q] = "notify"
    PROVE  NoLostWakeup'
  <1>1. SUFFICES ASSUME NEW q \in Requests, pc'[q] = "waiting",
                        (used + ChargeFor(q) <= looked[q])' \/ active' = 0
                 PROVE  \E o \in Requests : pc'[o] = "notify"
    BY DEF NoLostWakeup
  <1>2. ChargeFor(q)' = ChargeFor(q)
    BY <1>1 DEF ChargeFor, StickyArg, ExtraArg
  <1>3. ChargeFor(q) \in Nat /\ looked[q] \in Nat
    BY DEF GateAssumption, TypeOK, ChargeFor, StickyArg, ExtraArg, Monus
  <1>4. used' + ChargeFor(q)' <= looked'[q] => used + ChargeFor(q) <= looked[q]
    BY <1>1, <1>2, <1>3 DEF TypeOK
  <1> QED
    BY <1>1, <1>4 DEF NoLostWakeup

\* Every step keeps the wakeups.
LEMMA NextWakeup ==
    ASSUME GateAssumption, TypeOK, TypeOK', NoLostWakeup, [Next]_vars
    PROVE  NoLostWakeup'
  <1> USE DEF gateVars, guardVars, askVars, lookVars, Goto
  <1>a. CASE UNCHANGED vars \/ MoveCapacity
    BY <1>a, WakeupKept DEF TypeOK, vars, MoveCapacity
  <1>b. CASE \E r \in Requests : Arrive(r) \/ Step(r) \/ Expire(r)
    <2> PICK r \in Requests : Arrive(r) \/ Step(r) \/ Expire(r)
      BY <1>b
    <2>1. CASE Arrive(r)
      BY <2>1, WakeupKept DEF TypeOK, Arrive, ArriveSpec, ArrivePlain
    <2>2. CASE Admit(r)
      <3>1. ChargeFor(r) \in Nat
        BY DEF GateAssumption, TypeOK, ChargeFor, StickyArg, ExtraArg, Monus
      <3> QED
        BY <3>1, <2>2, WakeupKept DEF TypeOK, Admit
    <2>3. CASE Wait(r)
      <3>1. SUFFICES ASSUME NEW q \in Requests, pc'[q] = "waiting",
                            (used + ChargeFor(q) <= looked[q])' \/ active' = 0
                     PROVE  \E o \in Requests : pc'[o] = "notify"
        BY DEF NoLostWakeup
      <3>2. ChargeFor(q)' = ChargeFor(q) /\ used' = used /\ active' = active
        BY <2>3 DEF Wait, ChargeFor, StickyArg, ExtraArg
      <3>3. q # r
        BY <2>3, <3>1, <3>2 DEF TypeOK, Wait, Fits
      <3>4. looked'[q] = looked[q] /\ pc[q] = "waiting"
        BY <2>3, <3>1, <3>3 DEF TypeOK, Wait
      <3>5. PICK o \in Requests : pc[o] = "notify"
        BY <3>1, <3>2, <3>4 DEF NoLostWakeup
      <3> QED
        BY <2>3, <3>5 DEF TypeOK, Wait
    <2>4. CASE Reject(r) \/ TimeoutWakes(r) \/ Expire(r)
      BY <2>4, WakeupKept DEF TypeOK, Reject, TimeoutWakes, Expire
    <2>5. CASE AcquirePermit(r) \/ PermitRefused(r) \/ Build(r)
      BY <2>5, WakeupKept DEF TypeOK, AcquirePermit, PermitRefused, Build
    <2>6. CASE Unwind(r)
      BY <2>6, WakeupKept DEF TypeOK, Unwind
    <2>7. CASE RunOk(r) \/ RunFails(r) \/ RunPanics(r)
      BY <2>7, WakeupKept DEF TypeOK, RunOk, RunFails, RunPanics
    <2>8. CASE Restore(r)
      BY <2>8, WakeupKept DEF TypeOK, Restore
    <2>9. CASE DropGuard(r)
      <3>1. pc'[r] = "notify"
        BY <2>9 DEF TypeOK, DropGuard
      <3> QED
        BY <3>1 DEF NoLostWakeup
    <2>10. CASE NotifyWaiters(r)
      <3>1. \A q \in Requests : pc'[q] # "waiting"
        BY <2>10 DEF NotifyWaiters
      <3> QED
        BY <3>1 DEF NoLostWakeup
    <2> QED
      BY <2>1, <2>2, <2>3, <2>4, <2>5, <2>6, <2>7, <2>8, <2>9, <2>10 DEF Step
  <1> QED
    BY <1>a, <1>b DEF Next

\* However the capacity moves while requests wait, a request never sleeps on
\* after the releases have made the room it found missing when it looked,
\* unless one of them has still to call notify_waiters: registering as a waiter
\* under the lock, before the look at the ledger, leaves no window. Room that
\* comes from a growing capacity is not claimed, since nobody announces it.
THEOREM GateNoLostWakeup == Spec => []NoLostWakeup
  <1>1. Init => NoLostWakeup
    BY DEF Init, NoLostWakeup
  <1>2. TypeOK /\ TypeOK' /\ NoLostWakeup /\ [Next]_vars => NoLostWakeup'
    BY NextWakeup, GateAssumption
  <1> QED
    BY <1>1, <1>2, GateTypeCorrect, PTL DEF Spec
-----------------------------------------------------------------------------
(* The leases.                                                             *)

Leasing == {"admit", "waiting", "permit", "unwind", "build", "run", "restore"}

\* LeaseIsExclusive is not inductive alone: a request without a lease could
\* put a cache it should not have into the pool when it is refused. It has
\* none before it builds one, and nobody has one outside a generation.
LeaseInv ==
    /\ LeaseIsExclusive
    /\ \A r \in Requests :
          /\ pc[r] \in {"idle", "guard", "notify"} => buf[r] = 0
          /\ pc[r] \in {"admit", "waiting", "permit", "unwind"} /\ ~hadLease[r]
                => buf[r] = 0
          /\ hadLease[r] => pool[r] \in Pools

\* A step within one request's generation that touches no pool keeps the
\* leases.
LEMMA LeaseKept ==
    ASSUME TypeOK, TypeOK', LeaseInv,
           UNCHANGED <<verify, leaseOut, pool, hadLease>>,
           \A q \in Requests : pc'[q] \in Leasing => pc[q] \in Leasing
    PROVE  LeaseIsExclusive'
  <1>1. SUFFICES ASSUME NEW r \in Requests, hadLease[r], pc'[r] \in Leasing
                 PROVE  /\ leaseOut[pool[r]]
                        /\ verify[pool[r]] = 0
                        /\ \A q \in Requests \ {r} :
                              hadLease[q] /\ pool[q] = pool[r] =>
                                  pc'[q] \in {"idle", "guard", "notify"}
    BY DEF LeaseIsExclusive, Leasing
  <1>2. pc[r] \in Leasing
    BY <1>1
  <1>3. /\ leaseOut[pool[r]] /\ verify[pool[r]] = 0
        /\ \A q \in Requests \ {r} :
              hadLease[q] /\ pool[q] = pool[r] => pc[q] \in {"idle", "guard", "notify"}
    BY <1>1, <1>2 DEF LeaseInv, LeaseIsExclusive, Leasing
  <1>4. \A q \in Requests : pc[q] \in {"idle", "guard", "notify"} =>
                             pc'[q] \in {"idle", "guard", "notify"}
    BY DEF Leasing, TypeOK, Labels
  <1> QED
    BY <1>3, <1>4

\* Every step keeps the leases exclusive.
LEMMA NextLease ==
    ASSUME GateAssumption, TypeOK, TypeOK', LeaseInv, [Next]_vars
    PROVE  LeaseInv'
  <1> DEFINE Rest(r) ==
        /\ pc[r] \in {"idle", "guard", "notify"} => buf[r] = 0
        /\ pc[r] \in {"admit", "waiting", "permit", "unwind"} /\ ~hadLease[r]
              => buf[r] = 0
        /\ hadLease[r] => pool[r] \in Pools
  <1>0. (\A q \in Requests : Rest(q)')/\ LeaseIsExclusive' => LeaseInv'
    BY DEF LeaseInv
  <1> USE DEF gateVars, guardVars, askVars, lookVars, Goto
  <1>a. CASE UNCHANGED vars \/ MoveCapacity
    <2>1. LeaseIsExclusive'
      BY <1>a, LeaseKept DEF vars, MoveCapacity
    <2>2. \A q \in Requests : Rest(q)'
      BY <1>a DEF vars, MoveCapacity, LeaseInv
    <2> QED
      BY <2>1, <2>2, <1>0
  <1>b. CASE \E r \in Requests : Arrive(r) \/ Step(r) \/ Expire(r)
    <2> PICK r \in Requests : Arrive(r) \/ Step(r) \/ Expire(r)
      BY <1>b
    <2>1. ASSUME NEW p \in Pools, NEW n \in Sizes, NEW e \in Extras,
                 ArriveSpec(r, p, n, e)
          PROVE  LeaseInv'
      <3>e. pc'[r] = "admit"
        BY <2>1 DEF TypeOK, ArriveSpec
      <3>f. pool'[r] = p
        BY <2>1 DEF TypeOK, ArriveSpec
      <3>g. buf'[r] = verify[p]
        BY <2>1 DEF TypeOK, ArriveSpec
      <3>h. hadLease'[r] = (verify[p] > 0)
        <4>1. hadLease' = [hadLease EXCEPT ![r] = verify[p] > 0]
          BY <2>1 DEF ArriveSpec
        <4>2. r \in DOMAIN hadLease
          BY DEF TypeOK
        <4> QED
          BY <4>1, <4>2, Zenon
      <3>a. /\ pc'[r] = "admit" /\ pool'[r] = p /\ buf'[r] = verify[p]
            /\ hadLease'[r] <=> verify[p] > 0
        BY <3>e, <3>f, <3>g, <3>h
      <3>b. verify[p] \in Nat
        BY DEF TypeOK
      <3>c. Rest(r)'
        BY <3>a, <3>b
      <3>d. ASSUME NEW q \in Requests, q # r PROVE Rest(q)'
        <4>1. /\ pc'[q] = pc[q] /\ pool'[q] = pool[q] /\ buf'[q] = buf[q]
              /\ hadLease'[q] = hadLease[q]
          BY <2>1, <3>d DEF TypeOK, ArriveSpec
        <4> QED
          BY <4>1 DEF LeaseInv
      <3>1. \A q \in Requests : Rest(q)'
        BY <3>c, <3>d
      <3>2. ASSUME NEW q \in Requests, hadLease'[q], pc'[q] \in Leasing
            PROVE  /\ leaseOut'[pool'[q]]
                   /\ verify'[pool'[q]] = 0
                   /\ \A o \in Requests \ {q} :
                         hadLease'[o] /\ pool'[o] = pool'[q] =>
                             pc'[o] \in {"idle", "guard", "notify"}
        <4>1. CASE q = r
          <5>1. verify[p] > 0 /\ pool'[r] = p
            BY <2>1, <3>2, <4>1 DEF TypeOK, ArriveSpec
          <5>2. leaseOut'[p] /\ verify'[p] = 0
            BY <2>1, <5>1 DEF TypeOK, ArriveSpec
          <5>3. ASSUME NEW o \in Requests \ {r}, hadLease'[o], pool'[o] = p
                PROVE  pc'[o] \in {"idle", "guard", "notify"}
            <6>1. hadLease[o] /\ pool[o] = p /\ pc'[o] = pc[o]
              BY <2>1, <5>3 DEF TypeOK, ArriveSpec
            <6>2. pc[o] \notin Leasing
              BY <6>1, <5>1 DEF LeaseInv, LeaseIsExclusive, Leasing, TypeOK
            <6> QED
              BY <6>1, <6>2 DEF Leasing, TypeOK, Labels
          <5> QED
            BY <4>1, <5>1, <5>2, <5>3
        <4>2. CASE q # r
          <5>1. hadLease[q] /\ pool'[q] = pool[q] /\ pc[q] \in Leasing
            BY <2>1, <3>2, <4>2 DEF TypeOK, ArriveSpec
          <5>2. leaseOut[pool[q]] /\ verify[pool[q]] = 0 /\ pool[q] \in Pools
            BY <5>1 DEF LeaseInv, LeaseIsExclusive, Leasing
          <5>3. leaseOut'[pool[q]] /\ verify'[pool[q]] = 0
            BY <2>1, <5>2 DEF TypeOK, ArriveSpec
          <5>4. ASSUME NEW o \in Requests \ {q}, hadLease'[o], pool'[o] = pool[q]
                PROVE  pc'[o] \in {"idle", "guard", "notify"}
            <6>1. o # r
              BY <3>a, <5>2, <5>4
            <6>2. hadLease[o] /\ pool[o] = pool[q] /\ pc'[o] = pc[o]
              BY <2>1, <5>4, <6>1 DEF TypeOK, ArriveSpec
            <6> QED
              BY <5>1, <6>2 DEF LeaseInv, LeaseIsExclusive, Leasing
          <5> QED
            BY <5>1, <5>3, <5>4
        <4> QED
          BY <4>1, <4>2
      <3>3. LeaseIsExclusive'
        BY <3>2 DEF LeaseIsExclusive, Leasing
      <3> QED
        BY <3>1, <3>3, <1>0
    <2>2. ASSUME NEW e \in Extras, ArrivePlain(r, e) PROVE LeaseInv'
      <3>1. \A q \in Requests : Rest(q)'
        BY <2>2 DEF LeaseInv, TypeOK, ArrivePlain
      <3>2. ASSUME NEW q \in Requests, hadLease'[q], pc'[q] \in Leasing
            PROVE  /\ leaseOut'[pool'[q]]
                   /\ verify'[pool'[q]] = 0
                   /\ \A o \in Requests \ {q} :
                         hadLease'[o] /\ pool'[o] = pool'[q] =>
                             pc'[o] \in {"idle", "guard", "notify"}
        <4>1. q # r /\ ~hadLease'[r]
          BY <2>2, <3>2 DEF TypeOK, ArrivePlain
        <4>2. /\ hadLease[q] /\ pool'[q] = pool[q] /\ pc[q] \in Leasing
              /\ leaseOut' = leaseOut /\ verify' = verify
          BY <2>2, <3>2, <4>1 DEF TypeOK, ArrivePlain
        <4>3. leaseOut[pool[q]] /\ verify[pool[q]] = 0
          BY <4>2 DEF LeaseInv, LeaseIsExclusive, Leasing
        <4>4. ASSUME NEW o \in Requests \ {q}, hadLease'[o], pool'[o] = pool[q]
              PROVE  pc'[o] \in {"idle", "guard", "notify"}
          <5>1. o # r
            BY <4>1, <4>4
          <5>2. hadLease[o] /\ pool[o] = pool[q] /\ pc'[o] = pc[o]
            BY <2>2, <4>4, <5>1 DEF TypeOK, ArrivePlain
          <5> QED
            BY <4>2, <5>2 DEF LeaseInv, LeaseIsExclusive, Leasing
        <4> QED
          BY <4>2, <4>3, <4>4
      <3>3. LeaseIsExclusive'
        BY <3>2 DEF LeaseIsExclusive, Leasing
      <3> QED
        BY <3>1, <3>3, <1>0
    <2>3. CASE Admit(r) \/ Wait(r) \/ Reject(r) \/ TimeoutWakes(r) \/ Expire(r)
      <3>1. LeaseIsExclusive'
        BY <2>3, LeaseKept
        DEF TypeOK, Leasing, Admit, Wait, Reject, TimeoutWakes, Expire
      <3>2. \A q \in Requests : Rest(q)'
        BY <2>3 DEF LeaseInv, TypeOK, Admit, Wait, Reject, TimeoutWakes, Expire
      <3> QED
        BY <3>1, <3>2, <1>0
    <2>4. CASE AcquirePermit(r) \/ PermitRefused(r) \/ Build(r)
      <3>1. LeaseIsExclusive'
        BY <2>4, LeaseKept
        DEF TypeOK, Leasing, AcquirePermit, PermitRefused, Build
      <3>2. \A q \in Requests : Rest(q)'
        BY <2>4 DEF LeaseInv, TypeOK, AcquirePermit, PermitRefused, Build
      <3> QED
        BY <3>1, <3>2, <1>0
    <2>5. CASE RunOk(r) \/ RunFails(r) \/ RunPanics(r)
      <3>1. LeaseIsExclusive'
        BY <2>5, LeaseKept DEF TypeOK, Leasing, RunOk, RunFails, RunPanics
      <3>2. \A q \in Requests : Rest(q)'
        BY <2>5 DEF LeaseInv, TypeOK, RunOk, RunFails, RunPanics
      <3> QED
        BY <3>1, <3>2, <1>0
    <2>6. CASE DropGuard(r) \/ NotifyWaiters(r)
      <3>1. LeaseIsExclusive'
        BY <2>6, LeaseKept DEF TypeOK, Leasing, DropGuard, NotifyWaiters
      <3>2. \A q \in Requests : Rest(q)'
        BY <2>6 DEF LeaseInv, TypeOK, DropGuard, NotifyWaiters
      <3> QED
        BY <3>1, <3>2, <1>0
    <2>7. CASE Unwind(r) \/ Restore(r)
      <3>1. \A q \in Requests : Rest(q)'
        BY <2>7 DEF LeaseInv, TypeOK, Unwind, Restore
      <3>2. /\ pc[r] \in Leasing /\ pc'[r] \notin Leasing
            /\ \A q \in Requests \ {r} : pc'[q] = pc[q]
            /\ hadLease' = hadLease /\ pool' = pool
        BY <2>7 DEF TypeOK, Leasing, Unwind, Restore
      <3>3. ASSUME NEW q \in Requests, hadLease[q], pc'[q] \in Leasing
            PROVE  /\ leaseOut'[pool[q]]
                   /\ verify'[pool[q]] = 0
                   /\ \A o \in Requests \ {q} :
                         hadLease[o] /\ pool[o] = pool[q] =>
                             pc'[o] \in {"idle", "guard", "notify"}
        <4>1. q # r /\ pc[q] \in Leasing
          BY <3>2, <3>3
        <4>2. /\ leaseOut[pool[q]] /\ verify[pool[q]] = 0 /\ pool[q] \in Pools
              /\ \A o \in Requests \ {q} :
                    hadLease[o] /\ pool[o] = pool[q] =>
                        pc[o] \in {"idle", "guard", "notify"}
          BY <3>3, <4>1 DEF LeaseInv, LeaseIsExclusive, Leasing
        <4>3. pool[r] = pool[q] => ~hadLease[r]
          BY <4>1, <4>2, <3>2 DEF Leasing
        <4>4. leaseOut'[pool[q]]
          BY <2>7, <4>2, <4>3 DEF TypeOK, Unwind, Restore
        <4>5. verify'[pool[q]] = 0
          <5>1. CASE Unwind(r)
            <6>1. pool[r] = pool[q] => buf[r] = 0
              BY <5>1, <4>3 DEF LeaseInv, Unwind
            <6> QED
              BY <5>1, <6>1, <4>2 DEF TypeOK, Unwind
          <5>2. CASE Restore(r)
            BY <5>2, <4>2, <4>3 DEF TypeOK, Restore
          <5> QED
            BY <5>1, <5>2, <2>7
        <4>6. \A o \in Requests \ {q} :
                 hadLease[o] /\ pool[o] = pool[q] =>
                     pc'[o] \in {"idle", "guard", "notify"}
          BY <3>2, <4>2, <4>3
        <4> QED
          BY <4>4, <4>5, <4>6
      <3>4. LeaseIsExclusive'
        BY <3>2, <3>3 DEF LeaseIsExclusive, Leasing
      <3> QED
        BY <3>1, <3>4, <1>0
    <2> QED
      BY <2>1, <2>2, <2>3, <2>4, <2>5, <2>6, <2>7 DEF Arrive, Step
  <1> QED
    BY <1>a, <1>b DEF Next

\* While a request has a pool's cache on lease the pool stays empty and is
\* marked, and nobody else has it: however refused, failed and finished
\* requests come back to the pool, a second cache is never stored beside it.
THEOREM GateLeaseExclusive == Spec => []LeaseIsExclusive
  <1>1. Init => LeaseInv
    BY DEF Init, LeaseInv, LeaseIsExclusive
  <1>2. TypeOK /\ TypeOK' /\ LeaseInv /\ [Next]_vars => LeaseInv'
    BY NextLease, GateAssumption
  <1>3. LeaseInv => LeaseIsExclusive
    BY DEF LeaseInv
  <1> QED
    BY <1>1, <1>2, <1>3, GateTypeCorrect, PTL DEF Spec
-----------------------------------------------------------------------------
(* Sums.  A sum is defined by recursion over the set it is over; it is     *)
(* the number of units there are, one for each unit of each summand, which *)
(* solves that recursion, and a smallest set where another solution        *)
(* differed cannot exist.                                                  *)

Some(s) == CHOOSE x \in s : TRUE

\* The recursion that defines Total(f, S).
IsIter(g, f, S) ==
    g = [s \in SUBSET S |-> IF s = {} THEN 0 ELSE f[Some(s)] + g[s \ {Some(s)}]]

Units(f, S) == {u \in S \X Nat : u[2] \in 1..f[u[1]]}

\* A sum is a solution of its recursion, taken at the whole set.
LEMMA TotalDef ==
    ASSUME NEW f, NEW S
    PROVE  Total(f, S) = (CHOOSE g : IsIter(g, f, S))[S]
  BY DEF Total, MapThenSumSet, MapThenFoldSet, IsIter, Some

\* The units of one summand.
LEMMA UnitsOfOne ==
    ASSUME NEW x, NEW n \in Nat
    PROVE  IsFiniteSet({x} \X (1..n)) /\ Cardinality({x} \X (1..n)) = n
  <1> DEFINE A == {x}
             B == 1..n
  <1>1. IsFiniteSet(A) /\ Cardinality(A) = 1
    BY FS_Singleton
  <1>2. IsFiniteSet(B) /\ Cardinality(B) = n
    BY FS_Interval
  <1> HIDE DEF A, B
  <1>3. IsFiniteSet(A \X B) /\ Cardinality(A \X B) = Cardinality(A) * Cardinality(B)
    BY <1>1, <1>2, FS_Product
  <1>4. IsFiniteSet(A \X B) /\ Cardinality(A \X B) = n
    BY <1>1, <1>2, <1>3
  <1> QED
    BY <1>4 DEF A, B

\* The units of a finite set are finitely many.
LEMMA UnitsFinite ==
    ASSUME NEW S, IsFiniteSet(S), NEW f \in [S -> Nat], NEW T \in SUBSET S
    PROVE  IsFiniteSet(Units(f, T)) /\ Cardinality(Units(f, T)) \in Nat
  <1> DEFINE g == [x \in T |-> {x} \X (1..f[x])]
             G == {{x} \X (1..f[x]) : x \in T}
  <1>1. IsFiniteSet(T)
    BY FS_Subset
  <1>2. g \in Surjection(T, G)
    BY DEF Surjection
  <1>3. IsFiniteSet(G)
    <2> HIDE DEF g, G
    <2> QED BY <1>1, <1>2, FS_Surjection
  <1>4. ASSUME NEW U \in G PROVE IsFiniteSet(U)
    <2>1. PICK x \in T : U = {x} \X (1..f[x])
      OBVIOUS
    <2>2. f[x] \in Nat
      OBVIOUS
    <2>3. IsFiniteSet({x} \X (1..f[x]))
      BY <2>2, UnitsOfOne
    <2> QED BY <2>1, <2>3
  <1>5. Units(f, T) = UNION G
    BY DEF Units
  <1>6. IsFiniteSet(UNION G)
    <2> HIDE DEF G
    <2> QED BY <1>3, <1>4, FS_UNION
  <1> QED
    BY <1>5, <1>6, FS_CardinalityType

\* Every element of the set brings its own units.
LEMMA UnitsSplit ==
    ASSUME NEW S, IsFiniteSet(S), NEW f \in [S -> Nat], NEW T \in SUBSET S, NEW x \in T
    PROVE  Cardinality(Units(f, T)) = f[x] + Cardinality(Units(f, T \ {x}))
  <1> DEFINE A == {x} \X (1..f[x])
             B == Units(f, T \ {x})
  <1>1. Units(f, T) = A \cup B /\ A \cap B = {}
    BY DEF Units
  <1>2. IsFiniteSet(A) /\ Cardinality(A) = f[x] /\ f[x] \in Nat
    BY UnitsOfOne
  <1>3. IsFiniteSet(B) /\ Cardinality(B) \in Nat
    <2>1. T \ {x} \in SUBSET S
      OBVIOUS
    <2> QED BY <2>1, UnitsFinite
  <1>4. Cardinality(A \cap B) = 0
    BY <1>1, FS_EmptySet
  <1>5. Cardinality(A \cup B) = Cardinality(A) + Cardinality(B) - Cardinality(A \cap B)
    <2> HIDE DEF A, B
    <2> QED BY <1>2, <1>3, FS_Union
  <1>6. Cardinality(A \cup B) = f[x] + Cardinality(B)
    <2> HIDE DEF A, B
    <2> QED BY <1>2, <1>3, <1>4, <1>5
  <1> QED
    BY <1>1, <1>6

\* Counting units solves the recursion of the sum.
LEMMA IterExists ==
    ASSUME NEW S, IsFiniteSet(S), NEW f \in [S -> Nat]
    PROVE  IsIter([s \in SUBSET S |-> Cardinality(Units(f, s))], f, S)
  <1> DEFINE g == [s \in SUBSET S |-> Cardinality(Units(f, s))]
  <1>1. Units(f, {}) = {}
    BY DEF Units
  <1>2. g[{}] = 0
    BY <1>1, FS_EmptySet
  <1>3. ASSUME NEW s \in SUBSET S, s # {}
        PROVE  g[s] = f[Some(s)] + g[s \ {Some(s)}]
    <2>1. Some(s) \in s
      BY <1>3 DEF Some
    <2>2. s \ {Some(s)} \in SUBSET S
      OBVIOUS
    <2> QED BY <2>1, <2>2, UnitsSplit
  <1> QED
    BY <1>2, <1>3 DEF IsIter

\* And nothing else does.
LEMMA IterUnique ==
    ASSUME NEW S, IsFiniteSet(S), NEW f \in [S -> Nat], NEW g, IsIter(g, f, S)
    PROVE  \A s \in SUBSET S : g[s] = Cardinality(Units(f, s))
  <1> DEFINE Bad == {s \in SUBSET S : g[s] # Cardinality(Units(f, s))}
  <1> SUFFICES ASSUME Bad # {} PROVE FALSE
    OBVIOUS
  <1>1. IsWellFoundedOn(StrictSubsetOrdering(S), SUBSET S)
    BY FS_StrictSubsetOrderingWellFounded, FS_FiniteSubsetsOfFinite
  <1>2. \E s \in Bad : \A t \in Bad : ~(<<t, s>> \in StrictSubsetOrdering(S))
    <2>1. Bad \subseteq SUBSET S
      OBVIOUS
    <2> HIDE DEF Bad
    <2> QED BY <1>1, <2>1, WFMin
  <1>3. PICK s \in Bad : \A t \in Bad : ~(<<t, s>> \in StrictSubsetOrdering(S))
    BY <1>2
  <1>4. s # {}
    <2>1. Units(f, {}) = {}
      BY DEF Units
    <2>2. Cardinality(Units(f, {})) = 0
      BY <2>1, FS_EmptySet
    <2>3. g[{}] = 0
      BY DEF IsIter
    <2> QED BY <2>2, <2>3
  <1>5. Some(s) \in s
    BY <1>4 DEF Some
  <1>6. s \ {Some(s)} \in SUBSET S /\ <<s \ {Some(s)}, s>> \in StrictSubsetOrdering(S)
    BY <1>5 DEF StrictSubsetOrdering
  <1>7. g[s \ {Some(s)}] = Cardinality(Units(f, s \ {Some(s)}))
    BY <1>3, <1>6
  <1>8. g[s] = f[Some(s)] + g[s \ {Some(s)}]
    BY <1>4 DEF IsIter
  <1>9. Cardinality(Units(f, s)) = f[Some(s)] + Cardinality(Units(f, s \ {Some(s)}))
    BY <1>5, UnitsSplit
  <1> QED
    BY <1>7, <1>8, <1>9

\* A sum of naturals counts its units.
LEMMA TotalIsUnits ==
    ASSUME NEW S, IsFiniteSet(S), NEW f \in [S -> Nat]
    PROVE  Total(f, S) = Cardinality(Units(f, S)) /\ Total(f, S) \in Nat
  <1> DEFINE h == CHOOSE g : IsIter(g, f, S)
  <1>1. IsIter(h, f, S)
    BY IterExists
  <1>2. h[S] = Cardinality(Units(f, S))
    <2> HIDE DEF h
    <2> QED BY <1>1, IterUnique
  <1>3. Cardinality(Units(f, S)) \in Nat
    BY UnitsFinite
  <1> QED
    BY <1>2, <1>3, TotalDef

\* A sum moves with any one summand, and is at least that summand.
LEMMA TotalMoves ==
    ASSUME NEW S, IsFiniteSet(S), NEW f \in [S -> Nat], NEW g \in [S -> Nat],
           NEW x \in S, \A y \in S \ {x} : g[y] = f[y]
    PROVE  /\ Total(g, S) = (Total(f, S) - f[x]) + g[x]
           /\ Total(f, S) >= f[x]
           /\ Total(f, S) \in Nat /\ Total(g, S) \in Nat
  <1> DEFINE T == S \ {x}
  <1>1. Units(g, T) = Units(f, T)
    BY DEF Units
  <1>2. Cardinality(Units(f, T)) \in Nat
    BY UnitsFinite
  <1>3. Cardinality(Units(f, S)) = f[x] + Cardinality(Units(f, T))
    BY UnitsSplit
  <1>4. Cardinality(Units(g, S)) = g[x] + Cardinality(Units(g, T))
    BY UnitsSplit
  <1>5. f[x] \in Nat /\ g[x] \in Nat
    OBVIOUS
  <1>6. Total(f, S) = Cardinality(Units(f, S)) /\ Total(g, S) = Cardinality(Units(g, S))
    BY TotalIsUnits
  <1> HIDE DEF T
  <1> QED
    BY <1>1, <1>2, <1>3, <1>4, <1>5, <1>6

\* A sum over the requests moves with one request's summand.
LEMMA LoadMoves ==
    ASSUME IsFiniteSet(Requests),
           NEW f \in [Requests -> Nat], NEW g \in [Requests -> Nat],
           NEW x \in Requests, \A y \in Requests \ {x} : g[y] = f[y]
    PROVE  /\ Total(g, Requests) = (Total(f, Requests) - f[x]) + g[x]
           /\ Total(g, Requests) \in Nat
  BY TotalMoves

\* Sums keep the order of their summands.
LEMMA TotalBound ==
    ASSUME NEW S, IsFiniteSet(S), NEW f \in [S -> Nat], NEW g \in [S -> Nat],
           \A x \in S : f[x] <= g[x]
    PROVE  Total(f, S) <= Total(g, S)
  <1>1. Units(f, S) \in SUBSET Units(g, S)
    BY DEF Units
  <1>2. IsFiniteSet(Units(g, S))
    BY UnitsFinite
  <1>3. Cardinality(Units(f, S)) <= Cardinality(Units(g, S))
    BY <1>1, <1>2, FS_Subset
  <1> QED
    BY <1>3, TotalIsUnits

\* A sum of zeroes.
LEMMA TotalZero ==
    ASSUME NEW S, IsFiniteSet(S), NEW f \in [S -> Nat], \A x \in S : f[x] = 0
    PROVE  Total(f, S) = 0
  <1>1. Units(f, S) = {}
    BY DEF Units
  <1> QED
    BY <1>1, TotalIsUnits, FS_EmptySet

\* The sum of two is the sum of the sums.
LEMMA TotalAdds ==
    ASSUME NEW S, IsFiniteSet(S), NEW f \in [S -> Nat], NEW g \in [S -> Nat]
    PROVE  Total([x \in S |-> f[x] + g[x]], S) = Total(f, S) + Total(g, S)
  <1> DEFINE h == [x \in S |-> f[x] + g[x]]
             A == Units(f, S)
             B == {u \in S \X Nat : u[2] \in (f[u[1]] + 1)..h[u[1]]}
             b == [u \in Units(g, S) |-> <<u[1], f[u[1]] + u[2]>>]
  <1>1. Units(h, S) = A \cup B /\ A \cap B = {}
    BY DEF Units
  <1>2. b \in Bijection(Units(g, S), B)
    <2>1. b \in [Units(g, S) -> B]
      BY DEF Units
    <2>2. ASSUME NEW u \in Units(g, S), NEW v \in Units(g, S), b[u] = b[v] PROVE u = v
      BY <2>2 DEF Units
    <2>3. ASSUME NEW w \in B PROVE \E u \in Units(g, S) : b[u] = w
      <3>1. <<w[1], w[2] - f[w[1]]>> \in Units(g, S)
        BY DEF Units
      <3>2. b[<<w[1], w[2] - f[w[1]]>>] = w
        BY <3>1 DEF Units
      <3> QED BY <3>1, <3>2
    <2> HIDE DEF b, B
    <2> QED BY <2>1, <2>2, <2>3 DEF Bijection, Injection, Surjection, IsInjective
  <1>3. IsFiniteSet(Units(g, S)) /\ IsFiniteSet(A)
    BY UnitsFinite
  <1>4. IsFiniteSet(B) /\ Cardinality(B) = Cardinality(Units(g, S))
    <2> HIDE DEF B, b
    <2>1. ExistsBijection(Units(g, S), B)
      BY <1>2 DEF ExistsBijection
    <2> QED BY <2>1, <1>3, FS_Bijection
  <1>5. Cardinality(A \cup B) = Cardinality(A) + Cardinality(B)
    <2> HIDE DEF A, B
    <2>1. Cardinality(A \cap B) = 0
      BY <1>1, FS_EmptySet
    <2>2. Cardinality(A) \in Nat /\ Cardinality(B) \in Nat
      BY <1>3, <1>4, FS_CardinalityType
    <2> QED BY <1>3, <1>4, <2>1, <2>2, FS_Union
  <1>6. h \in [S -> Nat]
    OBVIOUS
  <1>7. Total(h, S) = Cardinality(Units(h, S))
    BY <1>6, TotalIsUnits
  <1>8. Total(f, S) = Cardinality(A) /\ Total(g, S) = Cardinality(Units(g, S))
    BY TotalIsUnits
  <1> QED
    BY <1>1, <1>4, <1>5, <1>7, <1>8
-----------------------------------------------------------------------------
(* The ledger.                                                             *)

\* What a guard owes: it was charged for all its request may allocate beyond
\* what is retained, or beyond nothing if it took no lease.
GuardOf(r) ==
    /\ charge[r] > 0 /\ extra[r] <= charge[r]
    /\ need[r] + extra[r] <= charge[r] + retained
    /\ ~hadLease[r] => need[r] + extra[r] <= charge[r]
    /\ sticky[r] \in {0, need[r]}

LedgerOf(r) ==
    /\ r \notin Guarded => charge[r] = 0 /\ sticky[r] = 0
    /\ r \in Guarded => GuardOf(r)
    /\ pc[r] \in Leasing => extra[r] > 0

\* LedgerBalances is not inductive alone: a guard that became sticky could
\* retain more than it was charged, and the subtraction would saturate.
LedgerInv == LedgerBalances /\ \A r \in Requests : LedgerOf(r)

\* Whether a request has a guard is seen from its own label and charge.
LEMMA GuardedMember ==
    ASSUME NEW r \in Requests
    PROVE  r \in Guarded <=> \/ pc[r] \in {"permit", "build", "run", "restore", "guard"}
                             \/ pc[r] = "unwind" /\ charge[r] > 0
  BY DEF Guarded

\* A request nothing happens to stands as it did, whatever else is retained.
LEMMA LedgerOfKept ==
    ASSUME TypeOK, TypeOK', NEW q \in Requests, LedgerOf(q),
           pc'[q] = pc[q], need'[q] = need[q], extra'[q] = extra[q],
           hadLease'[q] = hadLease[q], charge'[q] = charge[q], sticky'[q] = sticky[q],
           retained' >= retained
    PROVE  LedgerOf(q)' /\ (q \in Guarded' <=> q \in Guarded)
  <1>1. q \in Guarded' <=> q \in Guarded
    BY DEF Guarded
  <1>2. GuardOf(q) => GuardOf(q)'
    BY DEF GuardOf, TypeOK
  <1> QED
    BY <1>1, <1>2 DEF LedgerOf

\* A step that moves nothing in the ledger and gives nobody a guard.
LEMMA LedgerKept ==
    ASSUME LedgerInv, UNCHANGED <<used, retained, active, charge>>,
           \A q \in Requests : LedgerOf(q)' /\ (q \in Guarded' <=> q \in Guarded)
    PROVE  LedgerInv'
  <1>1. Guarded' = Guarded
    BY DEF Guarded
  <1> QED
    BY <1>1 DEF LedgerInv, LedgerBalances

\* Every step keeps the ledger.
LEMMA NextLedger ==
    ASSUME GateAssumption, TypeOK, TypeOK', LedgerInv, [Next]_vars
    PROVE  LedgerInv'
  <1> USE DEF gateVars, guardVars, askVars, lookVars, Goto
  <1>t. /\ used \in Nat /\ retained \in Nat /\ active \in Nat /\ Pad \in Nat
        /\ used' \in Nat /\ retained' \in Nat /\ active' \in Nat
        /\ charge \in [Requests -> Nat] /\ charge' \in [Requests -> Nat]
        /\ IsFiniteSet(Requests)
    BY DEF TypeOK, GateAssumption
  <1>u. ASSUME NEW q \in Requests
        PROVE  /\ charge[q] \in Nat /\ sticky[q] \in Nat /\ need[q] \in Nat
               /\ extra[q] \in Nat /\ pc[q] \in Labels
               /\ charge'[q] \in Nat /\ sticky'[q] \in Nat /\ need'[q] \in Nat
               /\ extra'[q] \in Nat /\ pc'[q] \in Labels
    BY DEF TypeOK
  <1>i. \A q \in Requests : LedgerOf(q)
    BY DEF LedgerInv
  <1>a. CASE UNCHANGED vars \/ MoveCapacity
    <2>1. ASSUME NEW q \in Requests
          PROVE  LedgerOf(q)' /\ (q \in Guarded' <=> q \in Guarded)
      BY <1>a, <1>i, <1>t, LedgerOfKept DEF vars, MoveCapacity
    <2> QED BY <1>a, <2>1, LedgerKept DEF vars, MoveCapacity
  <1>b. CASE \E r \in Requests : Arrive(r) \/ Step(r) \/ Expire(r)
    <2> PICK r \in Requests : Arrive(r) \/ Step(r) \/ Expire(r)
      BY <1>b
    <2>r. LedgerOf(r)
      BY <1>i
    <2>1. CASE Arrive(r)
      <3>1. /\ pc[r] = "idle" /\ pc' = [pc EXCEPT ![r] = "admit"]
            /\ UNCHANGED <<used, retained, active, charge, sticky>>
        BY <2>1 DEF Arrive, ArriveSpec, ArrivePlain
      <3>2. \E e \in Extras : extra' = [extra EXCEPT ![r] = e]
        BY <2>1 DEF Arrive, ArriveSpec, ArrivePlain
      <3>3. \A q \in Requests \ {r} :
               need'[q] = need[q] /\ extra'[q] = extra[q] /\ hadLease'[q] = hadLease[q]
        BY <2>1 DEF Arrive, ArriveSpec, ArrivePlain, TypeOK
      <3>4. ASSUME NEW q \in Requests, q # r
            PROVE  LedgerOf(q)' /\ (q \in Guarded' <=> q \in Guarded)
        BY <1>i, <1>t, <3>1, <3>3, <3>4, LedgerOfKept DEF TypeOK
      <3>5. r \notin Guarded /\ r \notin Guarded' /\ extra'[r] > 0
        BY <3>1, <3>2 DEF Guarded, TypeOK, GateAssumption
      <3>6. LedgerOf(r)'
        BY <2>r, <3>1, <3>5 DEF LedgerOf
      <3> QED BY <3>1, <3>4, <3>5, <3>6, LedgerKept
    <2>2. CASE \/ Wait(r) \/ Reject(r) \/ TimeoutWakes(r) \/ Expire(r)
               \/ AcquirePermit(r) \/ PermitRefused(r) \/ Unwind(r) \/ Build(r)
               \/ RunOk(r) \/ RunFails(r) \/ RunPanics(r)
      <3>1. UNCHANGED <<used, retained, active, charge, sticky, need, extra, hadLease>>
        BY <2>2 DEF Wait, Reject, TimeoutWakes, Expire, AcquirePermit, PermitRefused,
                    Unwind, Build, RunOk, RunFails, RunPanics
      <3>2. \A q \in Requests \ {r} : pc'[q] = pc[q]
        BY <2>2 DEF Wait, Reject, TimeoutWakes, Expire, AcquirePermit, PermitRefused,
                    Unwind, Build, RunOk, RunFails, RunPanics, TypeOK
      <3>3. ASSUME NEW q \in Requests, q # r
            PROVE  LedgerOf(q)' /\ (q \in Guarded' <=> q \in Guarded)
        BY <1>i, <1>t, <3>1, <3>2, <3>3, LedgerOfKept DEF TypeOK
      <3>4. /\ r \in Guarded' <=> r \in Guarded
            /\ pc'[r] \in Leasing => pc[r] \in Leasing
        <4>1. CASE Wait(r) \/ Reject(r) \/ TimeoutWakes(r) \/ Expire(r)
          <5>1. r \notin Guarded /\ charge[r] = 0
            BY <4>1, <2>r DEF Wait, Reject, TimeoutWakes, Expire, Guarded, LedgerOf
          <5>2. /\ pc'[r] \in {"admit", "waiting", "unwind"}
                /\ pc[r] \in Leasing
            BY <4>1 DEF Wait, Reject, TimeoutWakes, Expire, TypeOK, Leasing
          <5> QED BY <3>1, <5>1, <5>2, <1>u DEF Guarded
        <4>2. CASE \/ AcquirePermit(r) \/ PermitRefused(r) \/ Build(r)
                   \/ RunOk(r) \/ RunFails(r) \/ RunPanics(r)
          <5>1. pc[r] \in {"permit", "build", "run"}
            BY <4>2 DEF AcquirePermit, PermitRefused, Build, RunOk, RunFails, RunPanics
          <5>2. pc'[r] \in {"build", "unwind", "run", "restore", "guard"}
            BY <4>2 DEF AcquirePermit, PermitRefused, Build, RunOk, RunFails, RunPanics,
                        TypeOK
          <5>3. r \in Guarded /\ charge[r] > 0
            BY <5>1, <2>r DEF Guarded, LedgerOf, GuardOf
          <5> QED BY <3>1, <5>1, <5>2, <5>3 DEF Guarded, Leasing
        <4>3. CASE Unwind(r)
          <5>1. pc[r] = "unwind" /\ pc'[r] = IF charge[r] > 0 THEN "guard" ELSE "idle"
            BY <4>3 DEF Unwind, TypeOK
          <5> QED BY <3>1, <5>1, <1>u DEF Guarded, Leasing
        <4> QED BY <2>2, <4>1, <4>2, <4>3
      <3>5. GuardOf(r)' <=> GuardOf(r)
        BY <3>1 DEF GuardOf
      <3>6. LedgerOf(r)'
        BY <2>r, <3>1, <3>4, <3>5 DEF LedgerOf
      <3> QED BY <3>1, <3>3, <3>4, <3>6, LedgerKept
    <2>3. CASE Restore(r)
      <3>1. /\ UNCHANGED <<used, retained, active, charge, need, extra, hadLease>>
            /\ pc[r] = "restore" /\ pc' = [pc EXCEPT ![r] = "guard"]
        BY <2>3 DEF Restore
      <3>2. /\ \A q \in Requests \ {r} : sticky'[q] = sticky[q]
            /\ sticky'[r] \in {0, sticky[r], need[r]}
        BY <2>3 DEF Restore, TypeOK
      <3>3. ASSUME NEW q \in Requests, q # r
            PROVE  LedgerOf(q)' /\ (q \in Guarded' <=> q \in Guarded)
        BY <1>i, <1>t, <3>1, <3>2, <3>3, LedgerOfKept DEF TypeOK
      <3>4. r \in Guarded /\ r \in Guarded' /\ pc'[r] = "guard"
        BY <3>1 DEF Guarded, TypeOK
      <3>5. GuardOf(r)
        BY <2>r, <3>4 DEF LedgerOf
      <3>6. GuardOf(r)'
        BY <3>1, <3>2, <3>5 DEF GuardOf
      <3>7. LedgerOf(r)'
        BY <3>4, <3>6 DEF LedgerOf, Leasing
      <3> QED BY <3>1, <3>3, <3>4, <3>7, LedgerKept
    <2>4. CASE NotifyWaiters(r)
      <3>1. UNCHANGED <<used, retained, active, charge, sticky, need, extra, hadLease>>
        BY <2>4 DEF NotifyWaiters
      <3>2. ASSUME NEW q \in Requests
            PROVE  /\ q \in Guarded' <=> q \in Guarded
                   /\ pc'[q] \in Leasing => pc[q] \in Leasing
        BY <2>4, <3>1 DEF NotifyWaiters, Guarded, Leasing
      <3>3. ASSUME NEW q \in Requests PROVE LedgerOf(q)'
        <4>1. GuardOf(q)' <=> GuardOf(q)
          BY <3>1 DEF GuardOf
        <4> QED BY <1>i, <3>1, <3>2, <4>1 DEF LedgerOf
      <3> QED BY <3>1, <3>2, <3>3, LedgerKept
    <2>5. CASE Admit(r)
      <3>1. /\ pc[r] = "admit" /\ pc' = [pc EXCEPT ![r] = "permit"]
            /\ used' = used + ChargeFor(r) /\ active' = active + 1
            /\ UNCHANGED <<retained, need, extra, hadLease>>
            /\ charge' = [charge EXCEPT ![r] = ChargeFor(r)]
            /\ sticky' = [sticky EXCEPT ![r] = StickyArg(r)]
        BY <2>5 DEF Admit
      <3>2. ASSUME NEW q \in Requests, q # r
            PROVE  LedgerOf(q)' /\ (q \in Guarded' <=> q \in Guarded)
        BY <1>i, <1>t, <3>1, <3>2, LedgerOfKept DEF TypeOK
      <3>3. r \notin Guarded /\ r \in Guarded' /\ pc'[r] = "permit"
        BY <3>1 DEF Guarded, TypeOK
      <3>4. /\ charge[r] = 0 /\ extra[r] > 0
            /\ charge'[r] = ChargeFor(r) /\ sticky'[r] = StickyArg(r)
        BY <2>r, <3>1, <3>3 DEF LedgerOf, Leasing, TypeOK
      <3>5. /\ ChargeFor(r) \in Nat /\ ChargeFor(r) > 0 /\ extra[r] <= ChargeFor(r)
            /\ need[r] + extra[r] <= ChargeFor(r) + retained
            /\ ~hadLease[r] => need[r] + extra[r] <= ChargeFor(r)
            /\ StickyArg(r) \in {0, need[r]}
        <4>1. CASE hadLease[r]
          BY <1>t, <1>u, <3>4, <4>1 DEF ChargeFor, StickyArg, ExtraArg, Monus
        <4>2. CASE ~hadLease[r]
          BY <1>t, <1>u, <3>4, <4>2 DEF ChargeFor, StickyArg, ExtraArg, Monus
        <4> QED BY <4>1, <4>2
      <3>6. LedgerOf(r)'
        BY <3>1, <3>3, <3>4, <3>5 DEF LedgerOf, GuardOf
      <3>7. Total(charge', Requests) = Total(charge, Requests) + ChargeFor(r)
        <4>1. \A q \in Requests \ {r} : charge'[q] = charge[q]
          BY <3>1, <1>t
        <4>2. /\ Total(charge', Requests) = (Total(charge, Requests) - charge[r]) + charge'[r]
              /\ Total(charge, Requests) \in Nat
          BY <1>t, <4>1, TotalMoves
        <4> QED BY <3>4, <3>5, <4>2
      <3>8. Guarded' = Guarded \cup {r}
        BY <3>2, <3>3 DEF Guarded
      <3>9. Cardinality(Guarded') = Cardinality(Guarded) + 1
        <4>1. Guarded \subseteq Requests
          BY DEF Guarded
        <4> QED BY <3>3, <3>8, <4>1, HoldersStep
      <3>10. LedgerBalances'
        <4>1. Total(charge, Requests) \in Nat
          BY <1>t, TotalIsUnits
        <4> QED
          BY <1>t, <3>1, <3>5, <3>7, <3>9, <4>1 DEF LedgerInv, LedgerBalances
      <3> QED BY <3>2, <3>6, <3>10 DEF LedgerInv
    <2>6. CASE DropGuard(r)
      <3> DEFINE grown == IF sticky[r] > 0 THEN MaxOf(retained, sticky[r]) ELSE retained
      <3>1. /\ pc[r] = "guard" /\ pc' = [pc EXCEPT ![r] = "notify"]
            /\ retained' = grown
            /\ used' = Monus(used, Monus(charge[r], grown - retained))
            /\ active' = Monus(active, 1)
            /\ UNCHANGED <<need, extra, hadLease>>
            /\ charge' = [charge EXCEPT ![r] = 0]
            /\ sticky' = [sticky EXCEPT ![r] = 0]
        BY <2>6 DEF DropGuard
      <3>2. grown >= retained /\ grown \in Nat
        BY <1>t, <1>u DEF MaxOf
      <3>3. ASSUME NEW q \in Requests, q # r
            PROVE  LedgerOf(q)' /\ (q \in Guarded' <=> q \in Guarded)
        BY <1>i, <1>t, <3>1, <3>2, <3>3, LedgerOfKept DEF TypeOK
      <3>4. r \in Guarded /\ r \notin Guarded' /\ pc'[r] = "notify"
        BY <3>1 DEF Guarded, TypeOK
      <3>5. GuardOf(r) /\ charge'[r] = 0 /\ sticky'[r] = 0
        BY <2>r, <3>1, <3>4 DEF LedgerOf, TypeOK
      <3>6. LedgerOf(r)'
        BY <3>4, <3>5 DEF LedgerOf, Leasing
      <3>7. grown - retained <= charge[r]
        BY <1>t, <1>u, <3>5 DEF GuardOf, MaxOf
      <3>8. /\ Total(charge', Requests) = Total(charge, Requests) - charge[r]
            /\ Total(charge, Requests) >= charge[r] /\ Total(charge, Requests) \in Nat
        <4>1. \A q \in Requests \ {r} : charge'[q] = charge[q]
          BY <3>1, <1>t
        <4>2. /\ Total(charge', Requests) = (Total(charge, Requests) - charge[r]) + charge'[r]
              /\ Total(charge, Requests) >= charge[r] /\ Total(charge, Requests) \in Nat
          BY <1>t, <4>1, TotalMoves
        <4> QED BY <1>u, <3>5, <4>2
      <3>9. Guarded' = Guarded \ {r}
        BY <3>3, <3>4 DEF Guarded
      <3>10. Cardinality(Guarded') = Cardinality(Guarded) - 1 /\ Cardinality(Guarded) \in Nat
        <4>1. Guarded \subseteq Requests
          BY DEF Guarded
        <4> QED BY <3>4, <3>9, <4>1, HoldersStep
      <3>11. used = retained + Total(charge, Requests) /\ active = Cardinality(Guarded)
        BY DEF LedgerInv, LedgerBalances
      <3>12. used' = retained' + Total(charge', Requests)
        <4> HIDE DEF grown
        <4>1. Monus(charge[r], grown - retained) = charge[r] - (grown - retained)
          BY <1>t, <1>u, <3>2, <3>7 DEF Monus
        <4>2. used' = used - (charge[r] - (grown - retained))
          BY <1>t, <1>u, <3>1, <3>2, <3>7, <3>8, <3>11, <4>1 DEF Monus
        <4> QED BY <1>t, <1>u, <3>1, <3>2, <3>8, <3>11, <4>2
      <3>13. active' = Cardinality(Guarded')
        <4>1. Guarded' \subseteq Requests
          BY DEF Guarded
        <4>2. Cardinality(Guarded') \in Nat
          BY <4>1, HoldersStep
        <4> QED BY <3>1, <3>10, <3>11, <4>2 DEF Monus
      <3> QED BY <3>3, <3>6, <3>12, <3>13 DEF LedgerInv, LedgerBalances
    <2> QED
      BY <2>1, <2>2, <2>3, <2>4, <2>5, <2>6 DEF Step
  <1> QED
    BY <1>a, <1>b DEF Next

\* Initially nothing is in use.
LEMMA InitLedger == ASSUME Init PROVE LedgerInv
  <1>1. Guarded = {}
    BY DEF Init, Guarded
  <1>2. Total(charge, Requests) = 0
    BY TotalZero, GateAssumption DEF Init, GateAssumption
  <1>3. Cardinality(Guarded) = 0
    BY <1>1, FS_EmptySet
  <1>4. LedgerBalances
    BY <1>2, <1>3 DEF Init, LedgerBalances
  <1> QED
    BY <1>1, <1>4 DEF Init, LedgerInv, LedgerOf, Leasing

\* The ledger always balances, for every number of requests, every size and
\* every order in which guards are charged, become sticky and are dropped:
\* what is in use is what is retained and what the guards hold, the count of
\* guards is exact, and no saturating subtraction hides a deficit.
THEOREM GateLedgerBalances == Spec => []LedgerBalances
  <1>1. Init => LedgerInv
    BY InitLedger
  <1>2. TypeOK /\ TypeOK' /\ LedgerInv /\ [Next]_vars => LedgerInv'
    BY NextLedger, GateAssumption
  <1>3. LedgerInv => LedgerBalances
    BY DEF LedgerInv
  <1> QED
    BY <1>1, <1>2, <1>3, GateTypeCorrect, PTL DEF Spec
-----------------------------------------------------------------------------
(* What is resident.                                                       *)

\* A cache a pool keeps, or kept before it was taken on lease, is paid for
\* by what is retained, or by a guard that is about to retain it.
Covered(c) ==
    \/ c <= retained
    \/ \E q \in Requests : pc[q] = "guard" /\ c <= sticky[q]

\* The cache of a request is its lease, or what it built and was charged for.
CacheOf(r) ==
    /\ hadLease[r] /\ pc[r] \in Leasing =>
          Covered(buf[r]) \/ (pc[r] \in {"run", "restore"} /\ buf[r] <= need[r])
    /\ ~hadLease[r] /\ pc[r] \in Leasing =>
          IF pc[r] \in {"run", "restore"} THEN buf[r] <= need[r] ELSE buf[r] = 0

CacheInv ==
    /\ \A p \in Pools : Covered(verify[p])
    /\ \A r \in Requests : CacheOf(r)

\* What is paid for stays so while the guards stay and what is retained does
\* not shrink; a guard that goes leaves its cache among what is retained.
LEMMA CoveredKept ==
    ASSUME TypeOK, TypeOK', retained' >= retained,
           \A q \in Requests : pc[q] = "guard" =>
               \/ pc'[q] = "guard" /\ sticky'[q] = sticky[q]
               \/ sticky[q] <= retained'
    PROVE  \A c \in Nat : Covered(c) => Covered(c)'
  <1> SUFFICES ASSUME NEW c \in Nat, Covered(c) PROVE Covered(c)'
    OBVIOUS
  <1>1. retained \in Nat /\ retained' \in Nat /\ \A q \in Requests : sticky[q] \in Nat
    BY DEF TypeOK
  <1>2. CASE c <= retained
    BY <1>1, <1>2 DEF Covered
  <1>3. ASSUME NEW q \in Requests, pc[q] = "guard", c <= sticky[q] PROVE Covered(c)'
    <2>1. CASE pc'[q] = "guard" /\ sticky'[q] = sticky[q]
      BY <1>3, <2>1 DEF Covered
    <2>2. CASE sticky[q] <= retained'
      BY <1>1, <1>3, <2>2 DEF Covered
    <2> QED BY <1>3, <2>1, <2>2
  <1> QED
    BY <1>2, <1>3 DEF Covered

\* A request whose cache is not touched.
LEMMA CacheOfKept ==
    ASSUME NEW q \in Requests, CacheOf(q), TypeOK,
           \A c \in Nat : Covered(c) => Covered(c)',
           buf'[q] = buf[q], need'[q] = need[q], hadLease'[q] = hadLease[q],
           pc'[q] \in Leasing =>
               /\ pc[q] \in Leasing
               /\ pc'[q] \in {"run", "restore"} <=> pc[q] \in {"run", "restore"}
    PROVE  CacheOf(q)'
  <1>1. buf[q] \in Nat
    BY DEF TypeOK
  <1>2. Covered(buf[q]) => (\/ buf[q] <= retained'
                            \/ \E o \in Requests : pc'[o] = "guard" /\ buf[q] <= sticky'[o])
    BY <1>1 DEF Covered
  <1>3. CASE hadLease[q]
    BY <1>2, <1>3 DEF CacheOf, Covered
  <1>4. CASE ~hadLease[q]
    BY <1>4 DEF CacheOf
  <1> QED
    BY <1>3, <1>4

\* The caches of the pools, where no pool is touched.
LEMMA PoolsKept ==
    ASSUME TypeOK, CacheInv, \A c \in Nat : Covered(c) => Covered(c)', verify' = verify
    PROVE  \A p \in Pools : Covered(verify[p])'
  <1> SUFFICES ASSUME NEW p \in Pools PROVE Covered(verify[p])'
    OBVIOUS
  <1>1. verify[p] \in Nat /\ Covered(verify[p])
    BY DEF TypeOK, CacheInv
  <1> QED
    BY <1>1 DEF Covered

\* Every step keeps every cache paid for.
LEMMA NextCache ==
    ASSUME GateAssumption, TypeOK, TypeOK', LedgerInv, LeaseInv, CacheInv, [Next]_vars
    PROVE  CacheInv'
  <1> USE DEF gateVars, guardVars, askVars, lookVars, Goto
  <1>t. /\ retained \in Nat /\ retained' \in Nat
        /\ \A p \in Pools : verify[p] \in Nat /\ Covered(verify[p])
    BY DEF TypeOK, CacheInv
  <1>u. ASSUME NEW q \in Requests
        PROVE  /\ sticky[q] \in Nat /\ need[q] \in Nat /\ buf[q] \in Nat
               /\ pc[q] \in Labels /\ CacheOf(q)
    BY DEF TypeOK, CacheInv
  <1>a. CASE UNCHANGED vars \/ MoveCapacity
    <2>1. \A c \in Nat : Covered(c) => Covered(c)'
      BY <1>a DEF Covered, vars, MoveCapacity
    <2>2. \A q \in Requests : CacheOf(q)'
      BY <1>a, <1>u, <2>1, CacheOfKept DEF vars, MoveCapacity
    <2> QED BY <1>a, <2>1, <2>2, PoolsKept DEF CacheInv, vars, MoveCapacity
  <1>b. CASE \E r \in Requests : Arrive(r) \/ Step(r) \/ Expire(r)
    <2> PICK r \in Requests : Arrive(r) \/ Step(r) \/ Expire(r)
      BY <1>b
    <2>1. ASSUME NEW p \in Pools, NEW n \in Sizes, NEW e \in Extras,
                 ArriveSpec(r, p, n, e)
          PROVE  CacheInv'
      <3>1. /\ pc[r] = "idle" /\ pc' = [pc EXCEPT ![r] = "admit"]
            /\ UNCHANGED <<retained, sticky>>
            /\ buf' = [buf EXCEPT ![r] = verify[p]]
            /\ verify' = [verify EXCEPT ![p] = 0]
            /\ need' = [need EXCEPT ![r] = n]
        BY <2>1 DEF ArriveSpec
      <3>2. \A c \in Nat : Covered(c) => Covered(c)'
        BY <1>t, <3>1, CoveredKept DEF TypeOK
      <3>3. \A o \in Pools : Covered(verify[o])'
        <4> SUFFICES ASSUME NEW o \in Pools PROVE Covered(verify[o])'
          OBVIOUS
        <4>1. CASE o = p
          BY <1>t, <3>1, <4>1 DEF Covered, TypeOK
        <4>2. CASE o # p
          <5>1. verify'[o] = verify[o]
            BY <3>1, <4>2 DEF TypeOK
          <5> QED BY <1>t, <3>2, <5>1 DEF Covered
        <4> QED BY <4>1, <4>2
      <3>4. ASSUME NEW q \in Requests, q # r PROVE CacheOf(q)'
        <4>1. /\ buf'[q] = buf[q] /\ need'[q] = need[q] /\ pc'[q] = pc[q]
          BY <3>1, <3>4 DEF TypeOK
        <4>2. hadLease'[q] = hadLease[q]
          BY <2>1, <3>4 DEF ArriveSpec, TypeOK
        <4> QED BY <1>u, <3>2, <4>1, <4>2, CacheOfKept
      <3>5. /\ pc'[r] = "admit" /\ buf'[r] = verify[p]
        BY <3>1 DEF TypeOK
      <3>6. hadLease'[r] <=> verify[p] > 0
        <4>1. hadLease' = [hadLease EXCEPT ![r] = verify[p] > 0]
          BY <2>1 DEF ArriveSpec
        <4>2. r \in DOMAIN hadLease
          BY DEF TypeOK
        <4> QED BY <4>1, <4>2, Zenon
      <3>7. CacheOf(r)'
        <4>1. \/ verify[p] <= retained'
              \/ \E o \in Requests : pc'[o] = "guard" /\ verify[p] <= sticky'[o]
          BY <1>t, <3>2 DEF Covered
        <4>2. CASE hadLease'[r]
          BY <3>5, <4>1, <4>2 DEF CacheOf, Covered
        <4>3. CASE ~hadLease'[r]
          BY <1>t, <3>5, <3>6, <4>3 DEF CacheOf
        <4> QED BY <4>2, <4>3
      <3> QED BY <3>3, <3>4, <3>7 DEF CacheInv
    <2>2. ASSUME NEW e \in Extras, ArrivePlain(r, e) PROVE CacheInv'
      <3>1. /\ pc[r] = "idle" /\ pc' = [pc EXCEPT ![r] = "admit"]
            /\ UNCHANGED <<retained, sticky, verify, buf>>
            /\ need' = [need EXCEPT ![r] = 0]
            /\ hadLease' = [hadLease EXCEPT ![r] = FALSE]
        BY <2>2 DEF ArrivePlain
      <3>2. \A c \in Nat : Covered(c) => Covered(c)'
        BY <1>t, <3>1, CoveredKept DEF TypeOK
      <3>3. ASSUME NEW q \in Requests, q # r PROVE CacheOf(q)'
        <4>1. /\ buf'[q] = buf[q] /\ need'[q] = need[q] /\ pc'[q] = pc[q]
              /\ hadLease'[q] = hadLease[q]
          BY <3>1, <3>3 DEF TypeOK
        <4> QED BY <1>u, <3>2, <4>1, CacheOfKept
      <3>4. pc'[r] = "admit" /\ buf'[r] = 0 /\ ~hadLease'[r]
        BY <3>1 DEF TypeOK, LeaseInv
      <3>5. CacheOf(r)'
        BY <3>4 DEF CacheOf
      <3> QED BY <3>1, <3>2, <3>3, <3>5, PoolsKept DEF CacheInv
    <2>3. CASE \/ Wait(r) \/ Reject(r) \/ TimeoutWakes(r) \/ Expire(r) \/ Admit(r)
               \/ AcquirePermit(r) \/ PermitRefused(r)
      <3>1. UNCHANGED <<retained, verify, buf, need, hadLease>>
        BY <2>3 DEF Wait, Reject, TimeoutWakes, Expire, Admit, AcquirePermit,
                    PermitRefused
      <3>2. /\ pc[r] \in {"admit", "waiting", "permit"}
            /\ pc'[r] \in {"admit", "waiting", "permit", "unwind", "build"}
            /\ \A q \in Requests \ {r} : pc'[q] = pc[q]
        BY <2>3 DEF Wait, Reject, TimeoutWakes, Expire, Admit, AcquirePermit,
                    PermitRefused, TypeOK
      <3>3. \A q \in Requests \ {r} : sticky'[q] = sticky[q]
        BY <2>3 DEF Wait, Reject, TimeoutWakes, Expire, Admit, AcquirePermit,
                    PermitRefused, TypeOK
      <3>4. \A c \in Nat : Covered(c) => Covered(c)'
        <4>1. ASSUME NEW q \in Requests, pc[q] = "guard"
              PROVE  pc'[q] = "guard" /\ sticky'[q] = sticky[q]
          BY <3>2, <3>3, <4>1
        <4> QED BY <1>t, <3>1, <4>1, CoveredKept
      <3>5. ASSUME NEW q \in Requests PROVE CacheOf(q)'
        BY <1>u, <3>1, <3>2, <3>4, CacheOfKept DEF Leasing
      <3> QED BY <3>1, <3>4, <3>5, PoolsKept DEF CacheInv
    <2>4. CASE Unwind(r)
      <3>1. /\ pc[r] = "unwind" /\ UNCHANGED <<retained, sticky, need, hadLease>>
            /\ pc' = [pc EXCEPT ![r] = IF charge[r] > 0 THEN "guard" ELSE "idle"]
            /\ buf' = [buf EXCEPT ![r] = 0]
        BY <2>4 DEF Unwind
      <3>2. \A c \in Nat : Covered(c) => Covered(c)'
        BY <1>t, <3>1, CoveredKept DEF TypeOK
      <3>3. ASSUME NEW q \in Requests, q # r PROVE CacheOf(q)'
        <4>1. /\ buf'[q] = buf[q] /\ pc'[q] = pc[q]
          BY <3>1, <3>3 DEF TypeOK
        <4> QED BY <1>u, <3>1, <3>2, <4>1, CacheOfKept
      <3>4. CacheOf(r)'
        <4>1. pc'[r] \notin Leasing
          BY <3>1 DEF TypeOK, Leasing
        <4> QED BY <4>1 DEF CacheOf
      <3>5. Covered(buf[r]) /\ buf[r] \in Nat
        <4>1. CASE hadLease[r]
          BY <1>u, <3>1, <4>1 DEF CacheOf, Leasing
        <4>2. CASE ~hadLease[r]
          BY <1>t, <1>u, <3>1, <4>2 DEF CacheOf, Leasing, Covered
        <4> QED BY <1>u, <4>1, <4>2
      <3>6. \A p \in Pools : verify'[p] = verify[p] \/ verify'[p] = buf[r]
        BY <2>4 DEF Unwind, TypeOK
      <3>7. ASSUME NEW p \in Pools PROVE Covered(verify[p])'
        <4>1. /\ \/ verify[p] <= retained'
                 \/ \E o \in Requests : pc'[o] = "guard" /\ verify[p] <= sticky'[o]
              /\ \/ buf[r] <= retained'
                 \/ \E o \in Requests : pc'[o] = "guard" /\ buf[r] <= sticky'[o]
          BY <1>t, <3>2, <3>5 DEF Covered
        <4> QED BY <3>6, <4>1 DEF Covered
      <3> QED BY <3>3, <3>4, <3>7 DEF CacheInv
    <2>5. CASE Build(r)
      <3>1. /\ pc[r] = "build" /\ pc' = [pc EXCEPT ![r] = "run"]
            /\ UNCHANGED <<retained, sticky, verify, need, hadLease>>
            /\ buf' = [buf EXCEPT ![r] = IF @ >= need[r] THEN @ ELSE need[r]]
        BY <2>5 DEF Build
      <3>2. \A c \in Nat : Covered(c) => Covered(c)'
        BY <1>t, <3>1, CoveredKept DEF TypeOK
      <3>3. ASSUME NEW q \in Requests, q # r PROVE CacheOf(q)'
        <4>1. /\ buf'[q] = buf[q] /\ pc'[q] = pc[q]
          BY <3>1, <3>3 DEF TypeOK
        <4> QED BY <1>u, <3>1, <3>2, <4>1, CacheOfKept
      <3>4. /\ pc'[r] = "run"
            /\ buf'[r] = IF buf[r] >= need[r] THEN buf[r] ELSE need[r]
        BY <3>1 DEF TypeOK
      <3>5. CacheOf(r)'
        <4>1. CASE hadLease[r]
          <5>1. Covered(buf[r])
            BY <1>u, <3>1, <4>1 DEF CacheOf, Leasing
          <5>2. \/ buf[r] <= retained'
                \/ \E o \in Requests : pc'[o] = "guard" /\ buf[r] <= sticky'[o]
            BY <1>u, <3>2, <5>1 DEF Covered
          <5>3. CASE buf[r] >= need[r]
            <6>1. buf'[r] = buf[r]
              BY <3>4, <5>3
            <6> QED BY <3>1, <4>1, <5>2, <6>1 DEF CacheOf, Covered
          <5>4. CASE ~(buf[r] >= need[r])
            BY <1>u, <3>1, <3>4, <4>1, <5>4 DEF CacheOf
          <5> QED BY <5>3, <5>4
        <4>2. CASE ~hadLease[r]
          <5>1. buf[r] = 0
            BY <1>u, <3>1, <4>2 DEF CacheOf, Leasing
          <5> QED BY <1>u, <3>1, <3>4, <4>2, <5>1 DEF CacheOf
        <4> QED BY <4>1, <4>2
      <3> QED BY <3>1, <3>2, <3>3, <3>5, PoolsKept DEF CacheInv
    <2>6. CASE RunOk(r) \/ RunFails(r) \/ RunPanics(r)
      <3>1. /\ UNCHANGED <<retained, sticky, verify, need, hadLease>>
            /\ pc[r] \in {"build", "run"} /\ pc'[r] \in {"restore", "guard"}
            /\ \A q \in Requests \ {r} : pc'[q] = pc[q] /\ buf'[q] = buf[q]
            /\ (pc[r] = "run" /\ buf'[r] = buf[r]) \/ buf'[r] = 0
        BY <2>6 DEF RunOk, RunFails, RunPanics, TypeOK
      <3>2. \A c \in Nat : Covered(c) => Covered(c)'
        <4>1. ASSUME NEW q \in Requests, pc[q] = "guard"
              PROVE  pc'[q] = "guard" /\ sticky'[q] = sticky[q]
          BY <3>1, <4>1
        <4> QED BY <1>t, <3>1, <4>1, CoveredKept
      <3>3. ASSUME NEW q \in Requests, q # r PROVE CacheOf(q)'
        BY <1>u, <3>1, <3>2, <3>3, CacheOfKept
      <3>4. CacheOf(r)'
        <4>1. CASE pc[r] = "run" /\ buf'[r] = buf[r]
          BY <1>u, <3>1, <3>2, <4>1, CacheOfKept DEF Leasing
        <4>2. CASE buf'[r] = 0
          BY <1>u, <3>1, <4>2 DEF CacheOf, Covered
        <4> QED BY <3>1, <4>1, <4>2
      <3> QED BY <3>1, <3>2, <3>3, <3>4, PoolsKept DEF CacheInv
    <2>7. CASE Restore(r)
      <3>1. /\ pc[r] = "restore" /\ pc' = [pc EXCEPT ![r] = "guard"]
            /\ UNCHANGED <<retained, need, hadLease>>
            /\ buf' = [buf EXCEPT ![r] = 0]
        BY <2>7 DEF Restore
      <3>2. \A q \in Requests \ {r} : sticky'[q] = sticky[q]
        BY <2>7 DEF Restore, TypeOK
      <3>3. \A c \in Nat : Covered(c) => Covered(c)'
        <4>1. ASSUME NEW q \in Requests, pc[q] = "guard"
              PROVE  pc'[q] = "guard" /\ sticky'[q] = sticky[q]
          BY <3>1, <3>2, <4>1 DEF TypeOK
        <4> QED BY <1>t, <3>1, <4>1, CoveredKept
      <3>4. ASSUME NEW q \in Requests, q # r PROVE CacheOf(q)'
        <4>1. /\ buf'[q] = buf[q] /\ pc'[q] = pc[q]
          BY <3>1, <3>4 DEF TypeOK
        <4> QED BY <1>u, <3>1, <3>3, <4>1, CacheOfKept
      <3>5. CacheOf(r)' /\ pc'[r] = "guard"
        BY <3>1 DEF CacheOf, Leasing, TypeOK
      <3>6. \A p \in Pools : verify'[p] = verify[p] \/ (verify'[p] = buf[r] /\ sticky'[r] = need[r])
        BY <2>7 DEF Restore, TypeOK
      <3>7. Covered(buf[r]) \/ buf[r] <= need[r]
        <4>1. CASE hadLease[r]
          BY <1>u, <3>1, <4>1 DEF CacheOf, Leasing
        <4>2. CASE ~hadLease[r]
          BY <1>u, <3>1, <4>2 DEF CacheOf, Leasing
        <4> QED BY <4>1, <4>2
      <3>8. ASSUME NEW p \in Pools PROVE Covered(verify[p])'
        <4>1. CASE verify'[p] = verify[p]
          BY <1>t, <3>3, <4>1 DEF Covered
        <4>2. CASE verify'[p] = buf[r] /\ sticky'[r] = need[r]
          <5>1. \/ buf[r] <= need[r]
                \/ buf[r] <= retained'
                \/ \E o \in Requests : pc'[o] = "guard" /\ buf[r] <= sticky'[o]
            BY <1>u, <3>3, <3>7 DEF Covered
          <5> QED BY <3>5, <4>2, <5>1 DEF Covered
        <4> QED BY <3>6, <4>1, <4>2
      <3> QED BY <3>4, <3>5, <3>8 DEF CacheInv
    <2>8. CASE DropGuard(r)
      <3>1. /\ pc[r] = "guard" /\ pc' = [pc EXCEPT ![r] = "notify"]
            /\ UNCHANGED <<need, hadLease, buf, verify>>
            /\ sticky' = [sticky EXCEPT ![r] = 0]
            /\ retained' = IF sticky[r] > 0 THEN MaxOf(retained, sticky[r]) ELSE retained
        BY <2>8 DEF DropGuard
      <3>2. retained' >= retained /\ sticky[r] <= retained'
        BY <1>t, <1>u, <3>1 DEF MaxOf
      <3>3. \A c \in Nat : Covered(c) => Covered(c)'
        <4>1. ASSUME NEW q \in Requests, pc[q] = "guard"
              PROVE  \/ pc'[q] = "guard" /\ sticky'[q] = sticky[q]
                     \/ sticky[q] <= retained'
          BY <3>1, <3>2, <4>1 DEF TypeOK
        <4> QED BY <3>2, <4>1, CoveredKept
      <3>4. ASSUME NEW q \in Requests, q # r PROVE CacheOf(q)'
        <4>1. pc'[q] = pc[q]
          BY <3>1, <3>4 DEF TypeOK
        <4> QED BY <1>u, <3>1, <3>3, <4>1, CacheOfKept
      <3>5. CacheOf(r)'
        BY <3>1 DEF CacheOf, Leasing, TypeOK
      <3> QED BY <3>1, <3>3, <3>4, <3>5, PoolsKept DEF CacheInv
    <2>9. CASE NotifyWaiters(r)
      <3>1. UNCHANGED <<retained, sticky, verify, buf, need, hadLease>>
        BY <2>9 DEF NotifyWaiters
      <3>2. ASSUME NEW q \in Requests
            PROVE  /\ pc[q] = "guard" => pc'[q] = "guard"
                   /\ pc'[q] \in Leasing =>
                        /\ pc[q] \in Leasing
                        /\ pc'[q] \in {"run", "restore"} <=> pc[q] \in {"run", "restore"}
        BY <2>9 DEF NotifyWaiters, Leasing
      <3>3. \A c \in Nat : Covered(c) => Covered(c)'
        BY <1>t, <3>1, <3>2, CoveredKept
      <3>4. ASSUME NEW q \in Requests PROVE CacheOf(q)'
        BY <1>u, <3>1, <3>2, <3>3, CacheOfKept
      <3> QED BY <3>1, <3>3, <3>4, PoolsKept DEF CacheInv
    <2> QED
      BY <2>1, <2>2, <2>3, <2>4, <2>5, <2>6, <2>7, <2>8, <2>9 DEF Arrive, Step
  <1> QED
    BY <1>a, <1>b DEF Next

\* A cache that is paid for fits beside any load that the guards cover, since
\* a guard that is about to retain it covers nothing else.
LEMMA CoveredFits ==
    ASSUME GateAssumption, TypeOK, LedgerInv, NEW c \in Nat, Covered(c),
           NEW f \in [Requests -> Nat],
           \A q \in Requests : f[q] <= charge[q],
           \A q \in Requests : pc[q] = "guard" => f[q] = 0
    PROVE  Total(f, Requests) + c <= Total(charge, Requests) + retained
  <1>t. /\ IsFiniteSet(Requests) /\ charge \in [Requests -> Nat] /\ retained \in Nat
        /\ Total(f, Requests) \in Nat /\ Total(charge, Requests) \in Nat
    BY TotalIsUnits DEF GateAssumption, TypeOK
  <1>1. CASE c <= retained
    BY <1>t, <1>1, TotalBound
  <1>2. ASSUME NEW q \in Requests, pc[q] = "guard", c <= sticky[q]
        PROVE  Total(f, Requests) + c <= Total(charge, Requests) + retained
    <2> DEFINE rest == [charge EXCEPT ![q] = 0]
    <2>1. rest \in [Requests -> Nat]
      BY <1>t
    <2>2. \A y \in Requests : f[y] <= rest[y]
      BY <1>t, <1>2
    <2>3. \A y \in Requests \ {q} : rest[y] = charge[y]
      BY <1>t
    <2>4. rest[q] = 0
      BY <1>t
    <2> HIDE DEF rest
    <2>5. Total(f, Requests) <= Total(rest, Requests)
      BY <1>t, <2>1, <2>2, TotalBound
    <2>6. /\ Total(rest, Requests) = (Total(charge, Requests) - charge[q]) + rest[q]
          /\ Total(rest, Requests) \in Nat
      BY <1>t, <2>1, <2>3, TotalMoves
    <2>7. GuardOf(q)
      BY <1>2 DEF LedgerInv, LedgerOf, Guarded
    <2>8. sticky[q] <= charge[q] + retained /\ charge[q] \in Nat /\ sticky[q] \in Nat
      BY <1>t, <2>7 DEF GuardOf, TypeOK
    <2> QED
      BY <1>t, <1>2, <2>4, <2>5, <2>6, <2>8
  <1> QED
    BY <1>1, <1>2 DEF Covered

\* What a request holds, its cache on lease apart, is covered by its guard.
LEMMA OwnLoad ==
    ASSUME TypeOK, LedgerInv, LeaseInv, CacheInv, NEW r \in Requests
    PROVE  /\ buf[r] \in Nat /\ Besides[r] \in Nat /\ charge[r] \in Nat
           /\ Besides[r] <= charge[r]
           /\ ~(hadLease[r] /\ pc[r] \in Leasing) => buf[r] + Besides[r] <= charge[r]
           /\ pc[r] = "guard" => buf[r] = 0 /\ Besides[r] = 0
  <1>1. /\ buf[r] \in Nat /\ extra[r] \in Nat /\ need[r] \in Nat /\ charge[r] \in Nat
        /\ pc[r] \in Labels
    BY DEF TypeOK
  <1>2. Besides[r] = IF pc[r] \in {"run", "restore"} THEN extra[r] ELSE 0
    BY DEF Besides
  <1>3. CASE pc[r] \in {"run", "restore"}
    <2>1. GuardOf(r)
      BY <1>3 DEF LedgerInv, LedgerOf, Guarded
    <2>2. ~hadLease[r] => buf[r] <= need[r]
      BY <1>3 DEF CacheInv, CacheOf, Leasing
    <2> QED BY <1>1, <1>2, <1>3, <2>1, <2>2 DEF GuardOf, Leasing
  <1>4. CASE pc[r] \in {"idle", "guard", "notify"}
    <2>1. buf[r] = 0
      BY <1>4 DEF LeaseInv
    <2> QED BY <1>1, <1>2, <1>4, <2>1
  <1>5. CASE pc[r] \in Leasing \ {"run", "restore"}
    <2>1. ~hadLease[r] => buf[r] = 0
      BY <1>5 DEF CacheInv, CacheOf
    <2> QED BY <1>1, <1>2, <1>5, <2>1 DEF Leasing
  <1> QED
    BY <1>1, <1>3, <1>4, <1>5 DEF Labels, Leasing

\* With one pool, what is resident is accounted for.
LEMMA AccountsHold ==
    ASSUME GateAssumption, TypeOK, LedgerInv, LeaseInv, CacheInv,
           \A p, o \in Pools : p = o
    PROVE  ResidentIsAccounted
  <1> DEFINE load == [r \in Requests |-> buf[r] + Besides[r]]
  <1>t. /\ IsFiniteSet(Requests) /\ IsFiniteSet(Pools) /\ retained \in Nat
        /\ buf \in [Requests -> Nat] /\ charge \in [Requests -> Nat]
        /\ verify \in [Pools -> Nat] /\ Besides \in [Requests -> Nat]
    BY DEF GateAssumption, TypeOK, Besides
  <1>l. load \in [Requests -> Nat]
    BY <1>t
  <1>n. /\ Total(verify, Pools) \in Nat /\ Total(load, Requests) \in Nat
        /\ Total(charge, Requests) \in Nat
    BY <1>t, <1>l, TotalIsUnits
  <1>u. used = retained + Total(charge, Requests)
    BY DEF LedgerInv, LedgerBalances
  <1>r. Total(load, Requests) = Total(buf, Requests) + Total(Besides, Requests)
    BY <1>t, TotalAdds
  <1>b. Total(buf, Requests) \in Nat /\ Total(Besides, Requests) \in Nat
    BY <1>t, TotalIsUnits
  <1>s. SUFFICES Total(verify, Pools) + Total(load, Requests)
                   <= Total(charge, Requests) + retained
    BY <1>n, <1>u, <1>r, <1>b, <1>t DEF ResidentIsAccounted, Resident
  <1>1. CASE \E r \in Requests : hadLease[r] /\ pc[r] \in Leasing
    <2> PICK r \in Requests : hadLease[r] /\ pc[r] \in Leasing
      BY <1>1
    <2> DEFINE rest == [load EXCEPT ![r] = Besides[r]]
    <2>1. /\ pool[r] \in Pools /\ verify[pool[r]] = 0
          /\ \A q \in Requests \ {r} :
                hadLease[q] /\ pool[q] = pool[r] => pc[q] \notin Leasing
      BY DEF LeaseInv, LeaseIsExclusive, Leasing
    <2>2. Total(verify, Pools) = 0
      BY <1>t, <2>1, TotalZero
    <2>3. \A q \in Requests \ {r} : hadLease[q] => pc[q] \notin Leasing
      BY <2>1 DEF LeaseInv
    <2>4. rest \in [Requests -> Nat] /\ rest[r] = Besides[r] /\ load[r] = buf[r] + Besides[r]
      BY <1>t, <1>l
    <2>5. \A q \in Requests \ {r} : rest[q] = load[q] /\ load[q] = buf[q] + Besides[q]
      BY <1>t, <1>l
    <2> HIDE DEF rest, load
    <2>6. /\ Total(rest, Requests) = (Total(load, Requests) - load[r]) + rest[r]
          /\ Total(rest, Requests) \in Nat
      BY <1>t, <1>l, <2>4, <2>5, LoadMoves
    <2>7. Total(load, Requests) = Total(rest, Requests) + buf[r] /\ buf[r] \in Nat
      BY <1>n, <1>t, <2>4, <2>6
    <2>8. \A q \in Requests : rest[q] <= charge[q] /\ (pc[q] = "guard" => rest[q] = 0)
      <3> TAKE q \in Requests
      <3>1. CASE q = r
        BY <2>4, <3>1, OwnLoad
      <3>2. CASE q # r
        BY <2>3, <2>5, <3>2, OwnLoad
      <3> QED BY <3>1, <3>2
    <2>9. CASE Covered(buf[r])
      <3>1. Total(rest, Requests) + buf[r] <= Total(charge, Requests) + retained
        BY <2>4, <2>7, <2>8, <2>9, CoveredFits
      <3> QED BY <1>n, <2>2, <2>7, <3>1
    <2>10. CASE pc[r] \in {"run", "restore"} /\ buf[r] <= need[r]
      <3> DEFINE most == [rest EXCEPT ![r] = 0]
                 left == [charge EXCEPT ![r] = 0]
      <3>1. /\ most \in [Requests -> Nat] /\ most[r] = 0
            /\ left \in [Requests -> Nat] /\ left[r] = 0
            /\ \A q \in Requests \ {r} : most[q] = rest[q] /\ left[q] = charge[q]
        BY <1>t, <2>4
      <3> HIDE DEF most, left
      <3>2. Total(most, Requests) <= Total(left, Requests)
        <4>1. \A q \in Requests : most[q] <= left[q]
          <5> TAKE q \in Requests
          <5>1. CASE q = r
            BY <3>1, <5>1
          <5>2. CASE q # r
            BY <2>8, <3>1, <5>2
          <5> QED BY <5>1, <5>2
        <4> QED BY <1>t, <3>1, <4>1, TotalBound
      <3>3. /\ Total(most, Requests) = (Total(rest, Requests) - rest[r]) + most[r]
            /\ Total(most, Requests) \in Nat
        BY <1>t, <2>4, <3>1, LoadMoves
      <3>4. /\ Total(left, Requests) = (Total(charge, Requests) - charge[r]) + left[r]
            /\ Total(left, Requests) \in Nat
        BY <1>t, <3>1, LoadMoves
      <3>5. GuardOf(r)
        BY <2>10 DEF LedgerInv, LedgerOf, Guarded
      <3>6. buf[r] + rest[r] <= charge[r] + retained /\ rest[r] \in Nat /\ charge[r] \in Nat
        <4>1. /\ extra[r] \in Nat /\ need[r] \in Nat /\ charge[r] \in Nat
              /\ rest[r] = extra[r]
          BY <2>4, <2>10 DEF TypeOK, Besides
        <4> QED BY <1>t, <2>7, <2>10, <3>5, <4>1 DEF GuardOf
      <3>7. Total(rest, Requests) = Total(most, Requests) + rest[r]
        BY <2>6, <3>1, <3>3, <3>6
      <3>8. Total(charge, Requests) = Total(left, Requests) + charge[r]
        BY <1>n, <3>1, <3>4, <3>6
      <3> QED BY <1>n, <1>t, <2>2, <2>7, <3>2, <3>3, <3>4, <3>6, <3>7, <3>8
    <2>11. CacheOf(r)
      BY DEF CacheInv
    <2> QED BY <2>9, <2>10, <2>11 DEF CacheOf
  <1>2. CASE ~ \E r \in Requests : hadLease[r] /\ pc[r] \in Leasing
    <2>1. \A q \in Requests : load[q] <= charge[q] /\ (pc[q] = "guard" => load[q] = 0)
      <3> TAKE q \in Requests
      <3>1. load[q] = buf[q] + Besides[q]
        OBVIOUS
      <3> QED BY <1>2, <3>1, OwnLoad
    <2> HIDE DEF load
    <2>2. CASE Pools = {}
      <3>1. Total(verify, Pools) = 0
        BY <1>t, <2>2, TotalZero
      <3>2. Total(load, Requests) <= Total(charge, Requests)
        BY <1>t, <1>l, <2>1, TotalBound
      <3> QED BY <1>n, <1>t, <3>1, <3>2
    <2>3. CASE Pools # {}
      <3> PICK p \in Pools : TRUE
        BY <2>3
      <3> DEFINE none == [o \in Pools |-> 0]
      <3>1. none \in [Pools -> Nat] /\ none[p] = 0 /\ \A o \in Pools : none[o] = 0
        OBVIOUS
      <3> HIDE DEF none
      <3>2. /\ Total(none, Pools) = (Total(verify, Pools) - verify[p]) + none[p]
            /\ Total(none, Pools) = 0
        <4>1. \A o \in Pools \ {p} : none[o] = verify[o]
          OBVIOUS
        <4>2. Total(none, Pools) = (Total(verify, Pools) - verify[p]) + none[p]
          BY <1>t, <3>1, <4>1, TotalMoves
        <4>3. Total(none, Pools) = 0
          BY <1>t, <3>1, TotalZero
        <4> QED BY <4>2, <4>3
      <3>3. verify[p] \in Nat /\ Covered(verify[p])
        BY <1>t DEF CacheInv
      <3>4. Total(load, Requests) + verify[p] <= Total(charge, Requests) + retained
        BY <1>l, <2>1, <3>3, CoveredFits
      <3>5. Total(verify, Pools) = verify[p]
        BY <1>n, <3>1, <3>2, <3>3
      <3> QED BY <1>n, <3>3, <3>4, <3>5
    <2> QED BY <2>2, <2>3
  <1> QED
    BY <1>1, <1>2

\* The accounting is conservative as long as one drafter has a pool, for every
\* number of requests and every size: the caches kept and held and what
\* requests allocate besides never exceed what the gate counts as used.  With
\* two pools it fails: they share one `retained'.
THEOREM GateResidentIsAccounted ==
    ASSUME \A p, o \in Pools : p = o
    PROVE  Spec => []ResidentIsAccounted
  <1>1. Init => LeaseInv /\ LedgerInv /\ CacheInv
    <2> SUFFICES ASSUME Init PROVE LeaseInv /\ LedgerInv /\ CacheInv
      OBVIOUS
    <2>1. LeaseInv
      BY DEF Init, LeaseInv, LeaseIsExclusive
    <2>2. LedgerInv
      BY InitLedger
    <2>3. CacheInv
      BY DEF Init, CacheInv, CacheOf, Covered, Leasing
    <2> QED BY <2>1, <2>2, <2>3
  <1>2. /\ TypeOK /\ TypeOK' /\ LeaseInv /\ LedgerInv /\ CacheInv /\ [Next]_vars
        => LeaseInv' /\ LedgerInv' /\ CacheInv'
    BY NextLease, NextLedger, NextCache, GateAssumption
  <1>3. TypeOK /\ LeaseInv /\ LedgerInv /\ CacheInv => ResidentIsAccounted
    BY AccountsHold, GateAssumption
  <1> QED
    BY <1>1, <1>2, <1>3, GateTypeCorrect, PTL DEF Spec
=============================================================================
