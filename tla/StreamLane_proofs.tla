-------------------------- MODULE StreamLane_proofs --------------------------
(***************************************************************************)
(* The proxy's stream lane and the lock of its store.                      *)
(*                                                                         *)
(* The lock is sound for any number of processes, deaths and delays, as    *)
(* long as no waiter removes the lock of a live process.                   *)
(*                                                                         *)
(* The lane relies on it: the proxy's operations are serialized from the   *)
(* load of the store to its save.  Three inductive invariants, each on top *)
(* of the one before: OpInv, at most one operation is under way and what   *)
(* it is about to do is still to be done; BookInv, whatever a row, a       *)
(* contract record or a recording under way counts was delivered, once;    *)
(* PayInv, every command of the proxy was sent for a cycle and an attempt  *)
(* its row may still tell, and it goes on to pay only when no offer waits. *)
(***************************************************************************)
EXTENDS StreamLane, StoreLock, FunctionTheorems, SequenceTheorems, Arithmetic_proofs

----------------------------------------------------------------------------
(* The lock file: the inductive invariant says that the lock file and the  *)
(* live process inside the critical section always name each other.  Only  *)
(* a waiter that removes the lock of a live process breaks it.             *)

FileNamesHolder ==
  file # Absent /\ alive[file.pid] => pc[file.pid] \in Critical /\ file = Record(file.pid)

HolderSawStore == \A p \in Procs : alive[p] /\ pc[p] = "loaded" => seen[p] = store

LockInv == TypeOK /\ HolderKeepsLock /\ FileNamesHolder /\ HolderSawStore

\* This removal, if it is one, takes no lock of a live process.
RemovalIsSafe ==
  \A p \in Procs : Reclaim(p) => file = Absent \/ ~alive[file.pid]

\* What the theorems assume of a behaviour: no waiter removes the lock of a
\* live process, by the time it removes it.  The code does not ensure it: the
\* holder may be slower than staleMs, and a second waiter may have taken the
\* lock since the first one judged its holder dead.
LiveLocksStay == [][RemovalIsSafe]_vars

\* A record is never mistaken for a missing file, and names its process.
LEMMA RecordFacts ==
  ASSUME NEW p \in Procs, NEW q \in Procs
  PROVE  /\ Record(p) # Absent
         /\ Record(p) = Record(q) => p = q
  BY DEF Record, Absent

\* The critical section has one process at a time.
LEMMA OneInside ==
  ASSUME LockInv
  PROVE  MutualExclusion
  BY RecordFacts DEF LockInv, HolderKeepsLock, MutualExclusion

LEMMA InitInv == Init => LockInv
  BY LockAssumption
  DEF Init, LockInv, TypeOK, HolderKeepsLock, FileNamesHolder, HolderSawStore, InCritical,
      Critical, Absent

USE DEF Goto

\* A live process that moves on and leaves the lock file, the store and its
\* request alone keeps the invariant, if it stays outside the critical section.
LEMMA OutsideInv ==
  ASSUME LockInv, NEW p \in Procs, NEW to \in {"idle", "trying", "refused", "reclaiming"},
         alive[p], pc[p] \notin Critical, pc' = [pc EXCEPT ![p] = to],
         UNCHANGED <<clock, file, store, alive, number, asked, seen>>
  PROVE  LockInv'
  BY DEF LockInv, TypeOK, HolderKeepsLock, FileNamesHolder, HolderSawStore, InCritical,
         Record, token, Absent, Critical

LEMMA StepInv ==
  ASSUME LockInv, RemovalIsSafe, NEW p \in Procs,
         Acquire(p) \/ Mutate(p) \/ Release(p) \/ Crash(p)
  PROVE  LockInv'
<1> USE DEF Critical
<1>1. CASE Ask(p)
  <2> USE <1>1 DEF Ask
  <2>1. TypeOK'
    BY LockAssumption DEF LockInv, TypeOK
  <2>2. HolderKeepsLock' /\ FileNamesHolder' /\ HolderSawStore'
    BY DEF LockInv, TypeOK, HolderKeepsLock, FileNamesHolder, HolderSawStore, InCritical,
           Record, token, Absent
  <2> QED BY <2>1, <2>2 DEF LockInv
<1>2. CASE Link(p)
  <2> USE <1>2 DEF Link, Unlocked
  <2>0. \A q \in Procs : alive[q] => pc[q] \notin Critical
    BY RecordFacts DEF LockInv, HolderKeepsLock, InCritical
  <2>1. TypeOK'
    BY DEF LockInv, TypeOK, Record, token, Tokens
  <2>2. HolderKeepsLock' /\ FileNamesHolder' /\ HolderSawStore'
    BY <2>0 DEF LockInv, TypeOK, HolderKeepsLock, FileNamesHolder, HolderSawStore,
                InCritical, Record, token
  <2> QED BY <2>1, <2>2 DEF LockInv
<1>3. CASE LinkFails(p)
  BY <1>3, OutsideInv DEF LinkFails
<1>4. CASE Inspect(p)
  BY <1>4, OutsideInv DEF Inspect
<1>5. CASE Reclaim(p)
  \* The lock it removes is nobody's, so nobody is inside.
  <2> USE <1>5 DEF Reclaim
  <2>0. \A q \in Procs : alive[q] => pc[q] \notin Critical
    <3> SUFFICES ASSUME NEW q \in Procs, alive[q], pc[q] \in Critical PROVE FALSE
      OBVIOUS
    <3>1. file = Record(q)
      BY DEF LockInv, HolderKeepsLock, InCritical
    <3>2. file # Absent /\ alive[file.pid]
      BY <3>1, RecordFacts DEF Record
    <3> QED BY <3>2 DEF RemovalIsSafe
  <2>1. TypeOK'
    BY DEF LockInv, TypeOK
  <2>2. HolderKeepsLock' /\ FileNamesHolder' /\ HolderSawStore'
    BY <2>0 DEF LockInv, TypeOK, HolderKeepsLock, FileNamesHolder, HolderSawStore, InCritical
  <2> QED BY <2>1, <2>2 DEF LockInv
<1>6. CASE Load(p)
  <2> USE <1>6 DEF Load, Snapshot
  <2>1. TypeOK'
    BY DEF LockInv, TypeOK
  <2>2. HolderKeepsLock' /\ FileNamesHolder' /\ HolderSawStore'
    BY DEF LockInv, TypeOK, HolderKeepsLock, FileNamesHolder, HolderSawStore, InCritical,
           Record, token, Absent
  <2> QED BY <2>1, <2>2 DEF LockInv
<1>7. CASE SaveStore(p)
  <2> USE <1>7 DEF SaveStore
  <2>0. \A q \in Procs : alive[q] /\ pc[q] = "loaded" => q = p
    BY OneInside DEF MutualExclusion, InCritical
  <2>1. TypeOK'
    BY DEF LockInv, TypeOK, token, Tokens
  <2>2. HolderKeepsLock' /\ FileNamesHolder' /\ HolderSawStore'
    BY <2>0 DEF LockInv, TypeOK, HolderKeepsLock, FileNamesHolder, HolderSawStore, InCritical,
                Record, token, Absent
  <2> QED BY <2>1, <2>2 DEF LockInv
<1>8. CASE Throw(p)
  <2> USE <1>8 DEF Throw
  <2>1. TypeOK'
    BY DEF LockInv, TypeOK
  <2>2. HolderKeepsLock' /\ FileNamesHolder' /\ HolderSawStore'
    BY DEF LockInv, TypeOK, HolderKeepsLock, FileNamesHolder, HolderSawStore, InCritical,
           Record, token, Absent
  <2> QED BY <2>1, <2>2 DEF LockInv
<1>9. CASE CheckToken(p)
  <2>1. StillOurs(p)
    BY <1>9, RecordFacts
    DEF CheckToken, StillOurs, LockInv, HolderKeepsLock, InCritical, Record
  <2> USE <1>9, <2>1 DEF CheckToken
  <2>2. TypeOK'
    BY DEF LockInv, TypeOK
  <2>3. HolderKeepsLock' /\ FileNamesHolder' /\ HolderSawStore'
    BY DEF LockInv, TypeOK, HolderKeepsLock, FileNamesHolder, HolderSawStore, InCritical,
           Record, token, Absent
  <2> QED BY <2>2, <2>3 DEF LockInv
<1>10. CASE Unlink(p)
  <2> USE <1>10 DEF Unlink
  <2>0. \A q \in Procs : InCritical(q) => q = p
    BY OneInside DEF MutualExclusion, InCritical
  <2>1. TypeOK'
    BY DEF LockInv, TypeOK
  <2>2. HolderKeepsLock' /\ FileNamesHolder' /\ HolderSawStore'
    BY <2>0 DEF LockInv, TypeOK, HolderKeepsLock, FileNamesHolder, HolderSawStore, InCritical
  <2> QED BY <2>1, <2>2 DEF LockInv
<1>11. CASE Crash(p)
  \* Every part speaks of live processes only.
  <2> USE <1>11 DEF Crash
  <2>1. \A q \in Procs : alive'[q] => alive[q]
    BY DEF LockInv, TypeOK
  <2>2. TypeOK'
    BY DEF LockInv, TypeOK
  <2>3. HolderKeepsLock' /\ FileNamesHolder' /\ HolderSawStore'
    BY <2>1 DEF LockInv, TypeOK, HolderKeepsLock, FileNamesHolder, HolderSawStore, InCritical,
                Record, token
  <2> QED BY <2>2, <2>3 DEF LockInv
<1> QED
  BY <1>1, <1>2, <1>3, <1>4, <1>5, <1>6, <1>7, <1>8, <1>9, <1>10, <1>11
  DEF Acquire, Mutate, Release

LEMMA NextInv == LockInv /\ [Next]_vars /\ [RemovalIsSafe]_vars => LockInv'
<1> SUFFICES ASSUME LockInv, [Next]_vars, [RemovalIsSafe]_vars PROVE LockInv'
  OBVIOUS
<1>1. CASE ClockTick
  BY <1>1, LockAssumption
  DEF ClockTick, LockInv, TypeOK, HolderKeepsLock, FileNamesHolder, HolderSawStore,
      InCritical, Record, token, Absent
<1>2. CASE RemovalIsSafe /\ Next /\ ~ClockTick
  BY <1>2, StepInv DEF Next
<1>3. CASE UNCHANGED vars
  BY <1>3 DEF vars, LockInv, TypeOK, HolderKeepsLock, FileNamesHolder, HolderSawStore,
              InCritical, Record, token, Absent
<1> QED BY <1>1, <1>2, <1>3

\* acquireStoreLock and releaseStoreLock let one process in at a time, however many
\* share the store, wherever they die and however long they take, as long as no
\* waiter removes the lock of a live process: that is the only way in for a second
\* writer, since a release never removes a lock that is not its own.
THEOREM SingleWriter == Spec /\ LiveLocksStay => []OneHolder
<1>1. LockInv => OneHolder
  BY OneInside DEF LockInv, OneHolder
<1> QED BY <1>1, InitInv, NextInv, PTL DEF Spec, LiveLocksStay

----------------------------------------------------------------------------
(* When no waiter removes the lock of a live process: critical sections,   *)
(* with the wait before them, are over before their record is stale, and   *)
(* processes that may die are no more than two, so that a dead holder      *)
(* leaves one waiter.  With three, two waiters may judge the same holder.  *)

Calm ==
  /\ Timely = TRUE
  /\ Crashes = FALSE \/ \E a, b \in Procs : Procs = {a, b}

OthersDead(p) == \A q \in Procs \ {p} : ~alive[q]

ReclaimsAlone == \A p \in Procs : alive[p] /\ pc[p] = "reclaiming" => OthersDead(p)

\* A process that reclaimed a lock may try again past its own time.
InTime ==
  \A p \in Procs :
    alive[p] /\ pc[p] \in Critical \cup {"trying"} =>
      clock - asked[p] <= StaleAfter \/ OthersDead(p)

CalmInv == (Crashes = FALSE => \A p \in Procs : alive[p]) /\ ReclaimsAlone /\ InTime

\* A waiter that takes the holder for dead is right, and no other process lives.
LEMMA DeadIsDead ==
  ASSUME Calm, LockInv, CalmInv, NEW p \in Procs, alive[p], pc[p] = "refused", Dead(p)
  PROVE  OthersDead(p)
<1>1. file # Absent /\ file.pid \in Procs
  BY DEF Dead, LockInv, TypeOK
<1>2. ~alive[file.pid]
  <2> SUFFICES ASSUME alive[file.pid] PROVE FALSE
    OBVIOUS
  <2>1. pc[file.pid] \in Critical /\ file.at = asked[file.pid]
    BY <1>1 DEF LockInv, FileNamesHolder, Record
  <2>2. ~OthersDead(file.pid)
    BY <2>1 DEF OthersDead, Critical
  <2>3. clock - asked[file.pid] <= StaleAfter
    BY <1>1, <2>1, <2>2 DEF CalmInv, InTime
  <2>4. clock - asked[file.pid] > StaleAfter
    BY <2>1 DEF Dead
  <2> QED BY <1>1, <2>3, <2>4, LockAssumption DEF LockInv, TypeOK
<1>3. \E a, b \in Procs : Procs = {a, b}
  BY <1>1, <1>2 DEF Calm, CalmInv
<1>4. \A q \in Procs : q = p \/ q = file.pid
  BY <1>1, <1>2, <1>3
<1> QED BY <1>2, <1>4 DEF OthersDead

LEMMA CalmStep ==
  ASSUME Calm, LockInv, CalmInv, [Next]_vars
  PROVE  CalmInv'
<1> USE DEF Critical, CalmInv, LockInv, TypeOK
<1>1. CASE ClockTick
  <2> USE <1>1 DEF ClockTick
  <2>1. InTime'
    <3> SUFFICES ASSUME NEW p \in Procs, alive[p], pc[p] \in Critical \cup {"trying"}
                 PROVE  (clock + 1) - asked[p] <= StaleAfter
      BY DEF InTime, OthersDead
    <3>1. clock - asked[p] < StaleAfter
      BY DEF Calm, Punctual
    <3> QED BY <3>1, LockAssumption
  <2> QED BY <2>1 DEF ReclaimsAlone, OthersDead
<1>2. CASE \E p \in Procs : Crash(p)
  <2>1. PICK p \in Procs : Crash(p)
    BY <1>2
  <2>2. \A q \in Procs : alive'[q] => alive[q]
    BY <2>1 DEF Crash
  <2> QED BY <2>1, <2>2, LockAssumption DEF Crash, ReclaimsAlone, InTime, OthersDead
<1>3. CASE \E p \in Procs : Ask(p)
  <2>1. PICK p \in Procs : Ask(p)
    BY <1>3
  <2> QED BY <2>1, LockAssumption DEF Ask, ReclaimsAlone, InTime, OthersDead
<1>4. CASE \E p \in Procs : Inspect(p)
  <2>1. PICK p \in Procs : Inspect(p)
    BY <1>4
  <2>2. CASE Goto(p, "refused", "reclaiming") /\ Dead(p)
    <3>1. OthersDead(p)
      BY <2>2, DeadIsDead
    <3> QED BY <2>1, <2>2, <3>1 DEF Inspect, ReclaimsAlone, InTime, OthersDead
  <2>3. CASE Goto(p, "refused", "idle")
    BY <2>1, <2>3 DEF Inspect, ReclaimsAlone, InTime, OthersDead
  <2>4. CASE Goto(p, "refused", "trying") /\ clock - asked[p] <= StaleAfter
    BY <2>1, <2>4 DEF Inspect, ReclaimsAlone, InTime, OthersDead
  <2> QED BY <2>1, <2>2, <2>3, <2>4 DEF Inspect
<1>5. CASE \E p \in Procs : Reclaim(p)
  <2>1. PICK p \in Procs : Reclaim(p)
    BY <1>5
  <2> QED BY <2>1 DEF Reclaim, ReclaimsAlone, InTime, OthersDead
<1>6. CASE \E p \in Procs : Link(p) \/ LinkFails(p) \/ Mutate(p) \/ Release(p)
  <2>1. PICK p \in Procs : Link(p) \/ LinkFails(p) \/ Mutate(p) \/ Release(p)
    BY <1>6
  <2>2. UNCHANGED <<clock, alive, asked>>
    BY <2>1 DEF Link, LinkFails, Mutate, Load, SaveStore, Throw, Release, CheckToken, Unlink
  <2>3. \A q \in Procs :
          /\ pc'[q] = "reclaiming" => pc[q] = "reclaiming"
          /\ pc'[q] \in Critical \cup {"trying"} => pc[q] \in Critical \cup {"trying"}
    BY <2>1 DEF Link, LinkFails, Mutate, Load, SaveStore, Throw, Release, CheckToken, Unlink
  <2> QED BY <2>2, <2>3 DEF ReclaimsAlone, InTime, OthersDead
<1>7. CASE UNCHANGED vars
  BY <1>7 DEF vars, ReclaimsAlone, InTime, OthersDead
<1> QED BY <1>1, <1>2, <1>3, <1>4, <1>5, <1>6, <1>7 DEF Next, Acquire

LEMMA CalmIsSafe ==
  ASSUME LockInv, CalmInv
  PROVE  RemovalIsSafe
<1> SUFFICES ASSUME NEW p \in Procs, Reclaim(p), file # Absent, alive[file.pid]
             PROVE  FALSE
  BY DEF RemovalIsSafe
<1>1. alive[p] /\ pc[p] = "reclaiming"
  BY DEF Reclaim
<1>2. file.pid \in Procs /\ pc[file.pid] \in Critical
  BY DEF LockInv, TypeOK, FileNamesHolder
<1>3. file.pid # p
  BY <1>1, <1>2 DEF Critical
<1> QED BY <1>1, <1>2, <1>3 DEF CalmInv, ReclaimsAlone, OthersDead

\* The assumption of the two theorems holds of calm processes, those the run of
\* the lock checks among them.
LEMMA CalmLocksStay ==
  ASSUME Calm
  PROVE  Spec => LiveLocksStay
<1>1. Init => CalmInv
  BY LockAssumption DEF Init, CalmInv, ReclaimsAlone, InTime, Critical
<1>2. LockInv /\ CalmInv => RemovalIsSafe
  BY CalmIsSafe
<1>3. LockInv /\ CalmInv /\ [Next]_vars => CalmInv'
  BY CalmStep
<1>4. LockInv /\ RemovalIsSafe /\ [Next]_vars => LockInv'
  BY NextInv
<1> QED BY <1>1, <1>2, <1>3, <1>4, InitInv, PTL DEF Spec, LiveLocksStay

----------------------------------------------------------------------------
(* What the lock is for *)

\* A mutation on its way is not in the store yet, and its number is not used twice.
Unsaved == {"trying", "refused", "reclaiming", "held", "loaded"}
FreshInv ==
  /\ \A m \in store : m[2] <= number[m[1]]
  /\ \A p \in Procs : pc[p] \in Unsaved => token(p) \notin store

LEMMA FreshKept ==
  ASSUME LockInv, LockInv', FreshInv, [Next]_vars
  PROVE  FreshInv'
<1> USE DEF FreshInv, Unsaved
<1>1. CASE \E p \in Procs : SaveStore(p)
  <2>1. PICK p \in Procs : SaveStore(p)
    BY <1>1
  <2>2. store' = store \cup {token(p)} /\ pc'[p] = "done"
    BY <2>1 DEF SaveStore, LockInv, TypeOK, HolderSawStore
  <2>3. \A q \in Procs \ {p} : pc'[q] = pc[q] /\ token(q) # token(p)
    BY <2>1 DEF SaveStore, LockInv, TypeOK, token
  <2>4. number' = number /\ \A q \in Procs : token(q)' = token(q)
    BY <2>1 DEF SaveStore, token
  <2>5. token(p)[1] = p /\ token(p)[2] = number[p] /\ number[p] \in Nat
    BY DEF token, LockInv, TypeOK
  <2>6. \A m \in store' : m[2] <= number'[m[1]]
    BY <2>2, <2>4, <2>5
  <2> QED BY <2>2, <2>3, <2>4, <2>6
<1>2. CASE \E p \in Procs : Ask(p)
  <2>1. PICK p \in Procs : Ask(p)
    BY <1>2
  <2>2. /\ store' = store /\ store \subseteq Procs \X Nat
        /\ number' = [number EXCEPT ![p] = @ + 1] /\ number \in [Procs -> Nat]
    BY <2>1 DEF Ask, LockInv, TypeOK, Tokens
  <2>3. \A m \in store' : m[2] <= number'[m[1]]
    BY <2>2
  <2>4. token(p)' \notin store'
    <3>1. token(p)' = <<p, number[p] + 1>>
      BY <2>2 DEF token
    <3> QED BY <2>2, <3>1
  <2>5. \A q \in Procs \ {p} : pc'[q] = pc[q] /\ token(q)' = token(q)
    BY <2>1 DEF Ask, LockInv, TypeOK, token
  <2> QED BY <2>2, <2>3, <2>4, <2>5
<1>3. CASE \E p \in Procs : \/ Link(p) \/ LinkFails(p) \/ Inspect(p) \/ Reclaim(p) \/ Load(p)
                            \/ Throw(p) \/ CheckToken(p) \/ Unlink(p)
  <2>1. PICK p \in Procs : \/ Link(p) \/ LinkFails(p) \/ Inspect(p) \/ Reclaim(p) \/ Load(p)
                           \/ Throw(p) \/ CheckToken(p) \/ Unlink(p)
    BY <1>3
  <2>2. UNCHANGED <<store, number>>
    BY <2>1 DEF Link, LinkFails, Inspect, Reclaim, Load, Throw, CheckToken, Unlink
  <2>3. \A q \in Procs : pc'[q] \in Unsaved => pc[q] \in Unsaved
    BY <2>1 DEF Link, LinkFails, Inspect, Reclaim, Load, Throw, CheckToken, Unlink, LockInv, TypeOK
  <2> QED BY <2>2, <2>3 DEF token
<1>4. CASE ClockTick \/ UNCHANGED vars \/ \E p \in Procs : Crash(p)
  <2>1. UNCHANGED <<store, number, pc>>
    BY <1>4 DEF ClockTick, vars, Crash
  <2> QED BY <2>1 DEF token
<1> QED BY <1>1, <1>2, <1>3, <1>4 DEF Next, Acquire, Mutate, Release

LEMMA StoreStep ==
  ASSUME LockInv, FreshInv, [Next]_vars, store' # store
  PROVE  \E p \in Procs :
           InCritical(p) /\ token(p) \notin store /\ store' = store \cup {token(p)}
<1>1. PICK p \in Procs : SaveStore(p)
  BY DEF Next, vars, ClockTick, Acquire, Ask, Link, LinkFails, Inspect, Reclaim, Mutate, Load,
         Throw, Release, CheckToken, Unlink, Crash
<1>2. InCritical(p) /\ store' = store \cup {token(p)}
  BY <1>1 DEF SaveStore, LockInv, HolderSawStore, InCritical, Critical
<1>3. token(p) \notin store
  BY <1>1 DEF SaveStore, FreshInv, Unsaved
<1> QED BY <1>2, <1>3

\* Under the same assumption the load-mutate-save of every process (runLocked,
\* EscrowLane.withLock) is atomic: no save starts from a stale snapshot, so none
\* drops what another one saved.
THEOREM MutationsAreAtomic == Spec /\ LiveLocksStay => SavesAreAtomic
<1> DEFINE Adds == \E p \in Procs :
             InCritical(p) /\ token(p) \notin store /\ store' = store \cup {token(p)}
<1>1. Init => FreshInv
  BY DEF Init, FreshInv, Unsaved
<1>2. LockInv /\ LockInv' /\ FreshInv /\ [Next]_vars => FreshInv'
  BY FreshKept
<1>3. LockInv /\ FreshInv /\ [Next]_vars => [Adds]_store
  BY StoreStep
<1> HIDE DEF Adds
<1>4. Spec /\ LiveLocksStay => [][Adds]_store
  BY <1>1, <1>2, <1>3, InitInv, NextInv, PTL DEF Spec, LiveLocksStay
<1> QED BY <1>4 DEF SavesAreAtomic, Adds

----------------------------------------------------------------------------
(* What the steps of the lane do to a row *)

Fresh(s) == [NoRow EXCEPT !.status = "active", !.rate = RatePerPeriod[s]]

\* The fields of a row after each of the changes made to it.
LEMMA FreshIs ==
  ASSUME NEW s
  PROVE  Fresh(s) = [ status |-> "active", rate |-> RatePerPeriod[s], settled |-> 0, cycles |-> 0,
                      history |-> <<>>, pending |-> <<>> ]
<1> DEFINE e == <<>>
           n == [status |-> "none", rate |-> 0, settled |-> 0, cycles |-> 0, history |-> e, pending |-> e]
<1>1. Fresh(s) = [n EXCEPT !.status = "active", !.rate = RatePerPeriod[s]]
  BY DEF Fresh, NoRow
<1> HIDE DEF e
<1>2. Fresh(s) = [ status |-> "active", rate |-> RatePerPeriod[s], settled |-> 0, cycles |-> 0,
                   history |-> e, pending |-> e ]
  BY <1>1
<1> QED BY <1>2 DEF e

LEMMA CreditedIs ==
  ASSUME NEW r \in Row, NEW u, NEW a
  PROVE  Credited(r, u, a) =
           [ status |-> r.status, rate |-> r.rate, settled |-> r.settled + a,
             cycles |-> r.cycles + 1, history |-> Pushed(r.history, u, a), pending |-> r.pending ]
<1> DEFINE h == Pushed(r.history, u, a)
<1>1. Credited(r, u, a) = [r EXCEPT !.settled = @ + a, !.cycles = @ + 1, !.history = h]
  BY DEF Credited
<1> HIDE DEF h
<1>2. r = [ status |-> r.status, rate |-> r.rate, settled |-> r.settled, cycles |-> r.cycles,
            history |-> r.history, pending |-> r.pending ]
  BY DEF Row
<1> QED BY <1>1, <1>2 DEF h

LEMMA AcceptedIs ==
  ASSUME NEW r \in Row, NEW k \in DOMAIN r.pending, NEW u
  PROVE  creditAcceptedOffer(r, k, u) =
           [ status |-> r.status, rate |-> r.rate, settled |-> r.settled + r.pending[k].amount,
             cycles |-> MaxOf(r.cycles, r.pending[k].cycle),
             history |-> Pushed(r.history, u, r.pending[k].amount),
             pending |-> [r.pending EXCEPT ![k].status = "accepted"] ]
<1> DEFINE h == Pushed(r.history, u, r.pending[k].amount)
           p == [r.pending EXCEPT ![k].status = "accepted"]
           m == MaxOf(r.cycles, r.pending[k].cycle)
           n == r.settled + r.pending[k].amount
<1>1. creditAcceptedOffer(r, k, u)
        = [r EXCEPT !.settled = n, !.cycles = m, !.history = h, !.pending = p]
  BY DEF creditAcceptedOffer
<1> HIDE DEF h, p, m, n
<1>2. r = [ status |-> r.status, rate |-> r.rate, settled |-> r.settled, cycles |-> r.cycles,
            history |-> r.history, pending |-> r.pending ]
  BY DEF Row
<1>3. creditAcceptedOffer(r, k, u)
        = [ status |-> r.status, rate |-> r.rate, settled |-> n, cycles |-> m, history |-> h, pending |-> p ]
  BY <1>1, <1>2
<1> QED BY <1>3 DEF h, p, m, n

\* A row's list of offers, the status of the k-th changed.
LEMMA MarkedPending ==
  ASSUME NEW q \in Seq(PendingTransfer), NEW k \in DOMAIN q,
         NEW st \in {"pending", "accepted", "withdrawn"}
  PROVE  LET p == [q EXCEPT ![k].status = st]
         IN  /\ p \in Seq(PendingTransfer) /\ DOMAIN p = DOMAIN q
             /\ \A l \in DOMAIN q :
                  /\ p[l].offer = q[l].offer /\ p[l].amount = q[l].amount /\ p[l].cycle = q[l].cycle
                  /\ p[l].status = IF l = k THEN st ELSE q[l].status
<1> DEFINE e == [q[k] EXCEPT !.status = st]
           p == [q EXCEPT ![k] = e]
           P == PendingTransfer
<1>1. Len(q) \in Nat /\ DOMAIN q = 1 .. Len(q) /\ \A l \in DOMAIN q : q[l] \in PendingTransfer
  BY LenProperties, ElementOfSeq
<1>2. /\ e \in PendingTransfer /\ e.offer = q[k].offer /\ e.amount = q[k].amount
      /\ e.cycle = q[k].cycle /\ e.status = st
  BY <1>1 DEF PendingTransfer
<1>3. [q EXCEPT ![k].status = st] = p
  OBVIOUS
<1> HIDE DEF e
<1>4. q \in Seq(P) /\ k \in 1 .. Len(q) /\ e \in P
  BY <1>1, <1>2
<1> HIDE DEF P
<1>5. p \in Seq(P) /\ Len(p) = Len(q) /\ \A j \in 1 .. Len(q) : p[j] = IF j = k THEN e ELSE q[j]
  BY <1>4, ExceptSeq
<1>6. DOMAIN p = 1 .. Len(q)
  BY <1>5, LenProperties
<1> HIDE DEF p
<1>7. p \in Seq(PendingTransfer)
  BY <1>5 DEF P
<1>8. ASSUME NEW l \in DOMAIN q
      PROVE  /\ p[l].offer = q[l].offer /\ p[l].amount = q[l].amount /\ p[l].cycle = q[l].cycle
             /\ p[l].status = IF l = k THEN st ELSE q[l].status
  BY <1>1, <1>2, <1>5
<1> QED BY <1>1, <1>3, <1>6, <1>7, <1>8

LEMMA PushedType ==
  ASSUME NEW h \in Seq(Cycle), NEW u \in Int, NEW a \in Nat \ {0}
  PROVE  Pushed(h, u, a) \in Seq(Cycle)
<1> DEFINE e == [update |-> u, amount |-> a]
           g == Append(h, e)
           n == Len(g)
<1>1. e \in Cycle
  BY DEF Cycle
<1> HIDE DEF e
<1>2. g \in Seq(Cycle)
  BY <1>1
<1> HIDE DEF g
<1>3. n \in Nat /\ \A i \in 1 .. n : g[i] \in Cycle
  BY <1>2, LenProperties, ElementOfSeq
<1>4. HistoryMax \in Nat \ {0}
  BY LaneAssumption
<1>5. CASE n > HistoryMax
  <2> DEFINE m == n - HistoryMax + 1
  <2>1. m \in Int /\ n \in Int /\ m >= 1
    BY <1>3, <1>4, <1>5
  <2> HIDE DEF m, n
  <2>2. \A i \in m .. n : g[i] \in Cycle
    BY <2>1, <1>3
  <2>3. SubSeq(g, m, n) \in Seq(Cycle)
    BY <2>1, <2>2, SubSeqProperties
  <2> QED BY <1>5, <2>3 DEF Pushed, g, e, m, n
<1>6. CASE ~(n > HistoryMax)
  BY <1>2, <1>6 DEF Pushed, g, e, n
<1> QED BY <1>5, <1>6

LEMMA FreshType ==
  ASSUME NEW s \in Streams PROVE Fresh(s) \in Row
<1>1. RatePerPeriod[s] \in Nat
  BY LaneAssumption
<1>2. <<>> \in Seq(Cycle) /\ <<>> \in Seq(PendingTransfer)
  OBVIOUS
<1> QED BY <1>1, <1>2, FreshIs DEF Row

LEMMA StoppedType ==
  ASSUME NEW r \in Row
  PROVE  LET q == [r EXCEPT !.status = "stopped", !.rate = 0]
         IN  /\ q \in Row /\ q.status = "stopped" /\ q.settled = r.settled /\ q.cycles = r.cycles
             /\ q.history = r.history /\ q.pending = r.pending /\ q.rate = 0
BY DEF Row

LEMMA CreditedType ==
  ASSUME NEW r \in Row, NEW u \in Int, NEW a \in Nat \ {0}
  PROVE  Credited(r, u, a) \in Row /\ Credited(r, u, a).status = r.status
<1>1. Pushed(r.history, u, a) \in Seq(Cycle)
  BY PushedType DEF Row
<1>2. r.settled + a \in Nat /\ r.cycles + 1 \in Nat
  BY DEF Row
<1>3. Credited(r, u, a).status = r.status
  BY CreditedIs
<1> QED BY <1>1, <1>2, <1>3, CreditedIs DEF Row

LEMMA PendingAt ==
  ASSUME NEW r \in Row, NEW k \in DOMAIN r.pending
  PROVE  /\ r.pending[k] \in PendingTransfer
         /\ r.pending[k].offer \in Nat \ {0} /\ r.pending[k].amount \in Nat \ {0}
         /\ r.pending[k].cycle \in Nat \ {0}
<1>1. r.pending \in Seq(PendingTransfer)
  BY DEF Row
<1>2. r.pending[k] \in PendingTransfer
  BY <1>1, LenProperties, ElementOfSeq
<1> QED BY <1>2 DEF PendingTransfer

LEMMA AcceptedType ==
  ASSUME NEW r \in Row, NEW k \in DOMAIN r.pending, NEW u \in Int
  PROVE  /\ creditAcceptedOffer(r, k, u) \in Row
         /\ creditAcceptedOffer(r, k, u).status = r.status
<1>1. r.pending[k].amount \in Nat \ {0} /\ r.pending[k].cycle \in Nat \ {0}
  BY PendingAt
<1>2. Pushed(r.history, u, r.pending[k].amount) \in Seq(Cycle)
  BY <1>1, PushedType DEF Row
<1>3. r.settled + r.pending[k].amount \in Nat /\ MaxOf(r.cycles, r.pending[k].cycle) \in Nat
  BY <1>1 DEF Row, MaxOf
<1>4. r.pending \in Seq(PendingTransfer)
  BY DEF Row
<1>5. [r.pending EXCEPT ![k].status = "accepted"] \in Seq(PendingTransfer)
  BY <1>4, MarkedPending
<1> DEFINE h == Pushed(r.history, u, r.pending[k].amount)
           p == [r.pending EXCEPT ![k].status = "accepted"]
           m == MaxOf(r.cycles, r.pending[k].cycle)
           n == r.settled + r.pending[k].amount
<1>6. creditAcceptedOffer(r, k, u)
        = [ status |-> r.status, rate |-> r.rate, settled |-> n, cycles |-> m, history |-> h, pending |-> p ]
  BY AcceptedIs
<1>7. r.status \in {"none", "active", "stopped"} /\ r.rate \in Nat
  BY DEF Row
<1>8. h \in Seq(Cycle) /\ p \in Seq(PendingTransfer) /\ m \in Nat /\ n \in Nat
  BY <1>2, <1>3, <1>5
<1> HIDE DEF h, p, m, n
<1> QED BY <1>6, <1>7, <1>8 DEF Row

LEMMA WithdrawnType ==
  ASSUME NEW r \in Row, NEW k \in DOMAIN r.pending
  PROVE  LET q == [r EXCEPT !.pending[k].status = "withdrawn"]
         IN  /\ q \in Row /\ q.status = r.status /\ q.rate = r.rate /\ q.settled = r.settled
             /\ q.cycles = r.cycles /\ q.history = r.history
             /\ q.pending = [r.pending EXCEPT ![k].status = "withdrawn"]
<1> DEFINE p == [r.pending EXCEPT ![k].status = "withdrawn"]
<1>1. r.pending \in Seq(PendingTransfer)
  BY DEF Row
<1>2. p \in Seq(PendingTransfer)
  BY <1>1, MarkedPending
<1>3. [r EXCEPT !.pending[k].status = "withdrawn"] = [r EXCEPT !.pending = p]
  OBVIOUS
<1> HIDE DEF p
<1>4. LET q == [r EXCEPT !.pending = p]
      IN  /\ q \in Row /\ q.status = r.status /\ q.rate = r.rate /\ q.settled = r.settled
          /\ q.cycles = r.cycles /\ q.history = r.history /\ q.pending = p
  BY <1>2 DEF Row
<1> QED BY <1>3, <1>4 DEF p

\* A row that learns of more offers.
LEMMA MorePending ==
  ASSUME NEW r \in Row, NEW p \in Seq(PendingTransfer)
  PROVE  LET q == [r EXCEPT !.pending = p]
         IN  /\ q \in Row /\ q.status = r.status /\ q.rate = r.rate /\ q.settled = r.settled
             /\ q.cycles = r.cycles /\ q.history = r.history /\ q.pending = p
BY DEF Row

LEMMA WithPendingType ==
  ASSUME NEW r \in Row, NEW i \in Nat \ {0}, NEW a \in Nat \ {0}
  PROVE  WithPending(r, i, a) \in Row /\ WithPending(r, i, a).status = r.status
<1> DEFINE e == PendingRecord(i, a, r.cycles + 1)
           p == Append(r.pending, e)
<1>1. r.pending \in Seq(PendingTransfer) /\ r.cycles \in Nat
  BY DEF Row
<1>2. e \in PendingTransfer
  BY <1>1 DEF PendingRecord, PendingTransfer
<1> HIDE DEF e
<1>3. p \in Seq(PendingTransfer)
  BY <1>1, <1>2
<1> HIDE DEF p
<1>4. [r EXCEPT !.pending = p] \in Row /\ [r EXCEPT !.pending = p].status = r.status
  BY <1>3, MorePending
<1>5. WithPending(r, i, a) = r \/ WithPending(r, i, a) = [r EXCEPT !.pending = p]
  BY DEF WithPending, p, e
<1> QED BY <1>4, <1>5

\* The records of size offers that a recovery adopts from cycle first on.
Adopted(c, offers, size, first) ==
  [ n \in 1 .. size |-> PendingRecord(offers[n], c[offers[n]].amount, first + 2 * (n - 1)) ]

LEMMA RecoveredType ==
  ASSUME NEW c \in Seq(Transfer), NEW size \in Nat, NEW offers \in [1 .. size -> DOMAIN c],
         NEW first \in Nat \ {0}
  PROVE  LET q == Adopted(c, offers, size, first)
         IN  q \in Seq(PendingTransfer) /\ Len(q) = size /\ DOMAIN q = 1 .. size
<1> DEFINE q == [ n \in 1 .. size |->
                    PendingRecord(offers[n], c[offers[n]].amount, first + 2 * (n - 1)) ]
<1>1. ASSUME NEW n \in 1 .. size PROVE q[n] \in PendingTransfer
  <2>1. offers[n] \in DOMAIN c
    OBVIOUS
  <2>2. offers[n] \in Nat \ {0} /\ c[offers[n]] \in Transfer
    BY <2>1, LenProperties, ElementOfSeq
  <2>3. c[offers[n]].amount \in Nat \ {0}
    BY <2>2 DEF Transfer
  <2>4. first + 2 * (n - 1) \in Nat \ {0}
    OBVIOUS
  <2>5. q[n] = PendingRecord(offers[n], c[offers[n]].amount, first + 2 * (n - 1))
    OBVIOUS
  <2> HIDE DEF q
  <2> QED BY <2>2, <2>3, <2>4, <2>5 DEF PendingRecord, PendingTransfer
<1>2. q \in [1 .. size -> PendingTransfer]
  <2>1. q = [n \in 1 .. size |-> q[n]]
    OBVIOUS
  <2> HIDE DEF q
  <2> QED BY <1>1, <2>1
<1> DEFINE P == PendingTransfer
<1> HIDE DEF q, P
<1>3. q \in Seq(P)
  BY <1>2, SeqDef DEF P
<1>4. DOMAIN q = 1 .. size /\ Len(q) = size
  BY <1>2, <1>3, LenProperties DEF P
<1>5. q = Adopted(c, offers, size, first)
  BY DEF Adopted, q
<1> HIDE DEF Adopted
<1>6. q \in Seq(PendingTransfer)
  BY <1>3 DEF P
<1> HIDE DEF q
<1> QED BY <1>4, <1>5, <1>6

LEMMA MoreOffers ==
  ASSUME NEW r \in Row, NEW q \in Seq(PendingTransfer)
  PROVE  LET p == r.pending \o q
             m == [r EXCEPT !.pending = p]
         IN  /\ p \in Seq(PendingTransfer) /\ Len(p) = Len(r.pending) + Len(q)
             /\ \A k \in 1 .. Len(r.pending) : p[k] = r.pending[k]
             /\ \A n \in 1 .. Len(q) : p[Len(r.pending) + n] = q[n]
             /\ m \in Row /\ m.status = r.status /\ m.rate = r.rate /\ m.settled = r.settled
             /\ m.cycles = r.cycles /\ m.history = r.history /\ m.pending = p
<1> DEFINE p == r.pending \o q
           P == PendingTransfer
           a == r.pending
<1>1. a \in Seq(P) /\ q \in Seq(P)
  BY DEF Row
<1> HIDE DEF P, a
<1>2. Len(a) \in Nat /\ Len(q) \in Nat
  BY <1>1, LenProperties
<1>3. /\ a \o q \in Seq(P) /\ Len(a \o q) = Len(a) + Len(q)
      /\ \A i \in 1 .. Len(a) + Len(q) : (a \o q)[i] = IF i <= Len(a) THEN a[i] ELSE q[i - Len(a)]
  BY <1>1, ConcatProperties
<1>4. \A k \in 1 .. Len(a) : (a \o q)[k] = a[k]
  BY <1>2, <1>3
<1>5. \A n \in 1 .. Len(q) : (a \o q)[Len(a) + n] = q[n]
  <2> TAKE n \in 1 .. Len(q)
  <2>1. Len(a) + n \in 1 .. Len(a) + Len(q) /\ ~(Len(a) + n <= Len(a)) /\ Len(a) + n - Len(a) = n
    BY <1>2
  <2> QED BY <1>3, <2>1
<1>6. p = a \o q
  BY DEF a
<1> HIDE DEF p
<1>7. p \in Seq(PendingTransfer)
  BY <1>3, <1>6 DEF P
<1>8. LET m == [r EXCEPT !.pending = p]
      IN  /\ m \in Row /\ m.status = r.status /\ m.rate = r.rate /\ m.settled = r.settled
          /\ m.cycles = r.cycles /\ m.history = r.history /\ m.pending = p
  BY <1>7, MorePending
<1> QED BY <1>3, <1>4, <1>5, <1>6, <1>7, <1>8 DEF a, p

----------------------------------------------------------------------------
\* One operation at a time holds the store lock.
Locked == \A v, w \in Workers : op[v] # Idle /\ op[w] # Idle => v = w

\* What an operation o holds in hand, when the store is st and the chain c.
ReadyToSettle(o, st) ==
  /\ o.store = st /\ st[o.s].status # "none"
  /\ o.phase = "submit" => o.s \in Hosted /\ st[o.s].status # "stopped"
InHand(o, st, c) ==
  /\ o.phase = "create" =>
       st[o.s].status = "none" /\ o.store = [st EXCEPT ![o.s] = Fresh(o.s)]
  /\ o.phase = "reconcile" =>
       /\ \A t \in Streams : t # o.s => o.store[t] = st[t]
       /\ o.store[o.s].status = st[o.s].status /\ st[o.s].status # "none"
       /\ o.purpose = "submit" => o.s \in Hosted /\ st[o.s].status # "stopped"
  /\ o.phase \in {"submit", "prepare"} => ReadyToSettle(o, st)
  /\ o.phase = "save" =>
       /\ o.store = st /\ o.s \in Hosted /\ st[o.s].status \notin {"none", "stopped"}
       /\ o.xfer \in DOMAIN c
  /\ o.phase = "sync" => o.syncs # <<>> /\ (o.next # Idle => ReadyToSettle(o.next, st))

OpInv ==
  /\ now \in 0 .. MaxTime /\ LaneTypeOK /\ Locked
  /\ \A w \in Workers : InHand(op[w], row, chain)

\* Which fields an operation has.
LEMMA OperationFields ==
  ASSUME NEW o \in Operation
  PROVE  /\ o # Idle => o.s \in Streams
         /\ o.phase = "idle" => o = Idle
         /\ o.phase \in {"create", "reconcile", "submit", "prepare", "save"} => o.store \in Store /\ o # Idle
         /\ o.phase = "reconcile" => o.purpose \in {"submit", "prepare"} /\ o.syncs \in Seq(SyncItem)
         /\ o.phase = "save" => o.xfer \in Nat \ {0}
         /\ o.phase = "sync" => o # Idle /\ o.syncs \in Seq(SyncItem) /\ o.next \in {Idle} \cup Settling
<1>1. CASE o = Idle
  BY <1>1 DEF Idle
<1>2. CASE o \in Settling
  BY <1>2 DEF Settling, Idle
<1>3. CASE o \in [phase : {"create"}, s : Streams, store : Store]
  BY <1>3 DEF Idle
<1>4. CASE o \in [ phase : {"reconcile"}, s : Streams, purpose : {"submit", "prepare"}, store : Store,
                   syncs : Seq(SyncItem) ]
  BY <1>4 DEF Idle
<1>5. CASE o \in [phase : {"save"}, s : Streams, store : Store, xfer : Nat \ {0}]
  BY <1>5 DEF Idle
<1>6. CASE o \in [phase : {"sync"}, s : Streams, syncs : Seq(SyncItem), next : {Idle} \cup Settling]
  BY <1>6 DEF Idle
<1> QED BY <1>1, <1>2, <1>3, <1>4, <1>5, <1>6 DEF Operation

LEMMA IdleHoldsNothing ==
  ASSUME NEW st, NEW c PROVE InHand(Idle, st, c) /\ Idle \in Operation
BY DEF InHand, Idle, Operation

\* A step of the worker that holds the lock, or that finds it free.
LEMMA LockHolderMoves ==
  ASSUME LaneTypeOK, Locked, NEW w \in Workers, op[w] # Idle \/ Free(w),
         NEW o \in Operation, Do(w, o)
  PROVE  /\ op' \in [Workers -> Operation] /\ Locked' /\ op'[w] = o
         /\ \A v \in Workers : v # w => op[v] = Idle /\ op'[v] = Idle
         /\ \A v \in Workers : op'[v] = IF v = w THEN o ELSE Idle
<1>1. op \in [Workers -> Operation] /\ op' = [op EXCEPT ![w] = o]
  BY DEF LaneTypeOK, Do
<1>2. \A v \in Workers : v # w => op[v] = Idle
  BY DEF Locked, Free
<1>3. \A v \in Workers : op'[v] = IF v = w THEN o ELSE op[v]
  BY <1>1
<1> QED BY <1>1, <1>2, <1>3 DEF Locked

\* What such a step has to leave behind.
LEMMA HolderKeepsOp ==
  ASSUME OpInv, NEW w \in Workers, op[w] # Idle \/ Free(w),
         NEW o \in Operation, Do(w, o), InHand(o, row', chain'), UNCHANGED now,
         row' \in Store, chain' \in Seq(Transfer),
         admin' \in [Streams -> Index], record' \in [Streams -> CycleRecord],
         \A p \in prepared' : p \in [stream : Streams, amount : Nat \ {0}]
  PROVE  OpInv'
<1>1. /\ op' \in [Workers -> Operation] /\ Locked'
      /\ \A v \in Workers : op'[v] = IF v = w THEN o ELSE Idle
  BY LockHolderMoves DEF OpInv
<1>2. \A v \in Workers : InHand(op'[v], row', chain')
  BY <1>1, IdleHoldsNothing
<1>3. LaneTypeOK'
  BY <1>1 DEF LaneTypeOK
<1>4. (now \in 0 .. MaxTime)'
  BY DEF OpInv
<1> QED BY <1>1, <1>2, <1>3, <1>4 DEF OpInv

\* And a step that leaves the lock alone, while nobody holds it.
LEMMA FreeKeepsLock ==
  ASSUME OpInv, NEW w \in Workers, Free(w), UNCHANGED <<now, op, chain, prepared>>,
         row' \in Store, admin' \in [Streams -> Index], record' \in [Streams -> CycleRecord]
  PROVE  OpInv'
<1>1. \A v \in Workers : op'[v] = Idle
  BY DEF Free
<1>2. Locked' /\ \A v \in Workers : InHand(op'[v], row', chain')
  BY <1>1, IdleHoldsNothing DEF Locked
<1>3. LaneTypeOK'
  BY DEF OpInv, LaneTypeOK
<1> QED BY <1>2, <1>3 DEF OpInv

----------------------------------------------------------------------------
\* Nothing on chain is taken back: a transfer may be added, an offer may end.
Onward(c, d) ==
  /\ d \in Seq(Transfer) /\ DOMAIN c \subseteq DOMAIN d
  /\ \A i \in DOMAIN c :
       /\ d[i].stream = c[i].stream /\ d[i].amount = c[i].amount /\ d[i].cmd = c[i].cmd
       /\ d[i].at = c[i].at /\ d[i].land = c[i].land
       /\ c[i].fate # "open" => d[i].fate = c[i].fate

LEMMA ChainAt ==
  ASSUME NEW c \in Seq(Transfer)
  PROVE  /\ Len(c) \in Nat /\ DOMAIN c = 1 .. Len(c)
         /\ \A i \in DOMAIN c :
              /\ i \in Nat \ {0} /\ c[i] \in Transfer /\ c[i].stream \in Streams
              /\ c[i].amount \in Nat \ {0} /\ c[i].at \in Nat
              /\ c[i].cmd \in {NoCommand} \cup (Streams \X Nat \X Nat)
              /\ c[i].land \in {"direct", "offer"}
              /\ c[i].fate \in {"delivered", "open", "accepted", "returned"}
<1>1. Len(c) \in Nat /\ DOMAIN c = 1 .. Len(c) /\ \A i \in DOMAIN c : c[i] \in Transfer
  BY LenProperties, ElementOfSeq
<1> QED BY <1>1 DEF Transfer

\* An offer ends.
LEMMA OfferEnds ==
  ASSUME NEW c \in Seq(Transfer), NEW i \in DOMAIN c, c[i].fate = "open",
         NEW f \in {"accepted", "returned"}
  PROVE  LET d == [c EXCEPT ![i].fate = f]
         IN  /\ Onward(c, d) /\ DOMAIN d = DOMAIN c /\ Len(d) = Len(c)
             /\ \A j \in DOMAIN c : d[j].fate = IF j = i THEN f ELSE c[j].fate
<1> DEFINE e == [c[i] EXCEPT !.fate = f]
           d == [c EXCEPT ![i] = e]
           T == Transfer
<1>1. Len(c) \in Nat /\ DOMAIN c = 1 .. Len(c) /\ \A j \in DOMAIN c : c[j] \in Transfer
  BY ChainAt
<1>2. /\ e \in Transfer /\ e.stream = c[i].stream /\ e.amount = c[i].amount /\ e.cmd = c[i].cmd
      /\ e.at = c[i].at /\ e.land = c[i].land /\ e.fate = f
  BY <1>1 DEF Transfer
<1>3. [c EXCEPT ![i].fate = f] = d
  OBVIOUS
<1> HIDE DEF e
<1>4. c \in Seq(T) /\ i \in 1 .. Len(c) /\ e \in T
  BY <1>1, <1>2
<1> HIDE DEF T
<1>5. d \in Seq(T) /\ Len(d) = Len(c) /\ \A j \in 1 .. Len(c) : d[j] = IF j = i THEN e ELSE c[j]
  BY <1>4, ExceptSeq
<1>6. DOMAIN d = 1 .. Len(c)
  BY <1>5, LenProperties
<1> HIDE DEF d
<1>7. d \in Seq(Transfer)
  BY <1>5 DEF T
<1>8. ASSUME NEW j \in DOMAIN c
      PROVE  /\ d[j].stream = c[j].stream /\ d[j].amount = c[j].amount /\ d[j].cmd = c[j].cmd
             /\ d[j].at = c[j].at /\ d[j].land = c[j].land
             /\ d[j].fate = IF j = i THEN f ELSE c[j].fate
  BY <1>1, <1>2, <1>5
<1>9. Onward(c, d)
  BY <1>1, <1>6, <1>7, <1>8 DEF Onward
<1> QED BY <1>1, <1>3, <1>5, <1>6, <1>8, <1>9

\* A transfer is made.
LEMMA TransferMade ==
  ASSUME LaneTypeOK, now \in Nat, NEW s \in Streams, NEW amount \in Nat \ {0},
         NEW cmd \in {NoCommand} \cup (Streams \X Nat \X Nat),
         Transferred(s, amount, cmd)
  PROVE  /\ Onward(chain, chain') /\ Len(chain) < MaxTransfers /\ Len(chain') = Len(chain) + 1
         /\ DOMAIN chain' = DOMAIN chain \cup {Len(chain) + 1} /\ Len(chain) + 1 \notin DOMAIN chain
         /\ \A j \in DOMAIN chain : chain'[j] = chain[j]
         /\ chain'[Len(chain) + 1].stream = s /\ chain'[Len(chain) + 1].amount = amount
         /\ chain'[Len(chain) + 1].cmd = cmd /\ chain'[Len(chain) + 1].at = now
         /\ chain'[Len(chain) + 1].land = "direct" => chain'[Len(chain) + 1].fate = "delivered"
         /\ chain'[Len(chain) + 1].land = "offer" => chain'[Len(chain) + 1].fate = "open"
         /\ chain'[Len(chain) + 1].land \in {"direct", "offer"}
<1> DEFINE c == chain
           d == chain'
           T == Transfer
<1>1. PICK land \in Lands[s] :
        d = Append(c, [ stream |-> s, amount |-> amount, cmd |-> cmd, at |-> now, land |-> land,
                        fate |-> IF land = "direct" THEN "delivered" ELSE "open" ])
  BY DEF Transferred
<1> DEFINE e == [ stream |-> s, amount |-> amount, cmd |-> cmd, at |-> now, land |-> land,
                  fate |-> IF land = "direct" THEN "delivered" ELSE "open" ]
<1>2. land \in {"direct", "offer"}
  BY LaneAssumption
<1>3. /\ e \in Transfer /\ e.stream = s /\ e.amount = amount /\ e.cmd = cmd /\ e.at = now
      /\ e.land = land /\ e.fate = IF land = "direct" THEN "delivered" ELSE "open"
  BY <1>2 DEF Transfer
<1>4. d = Append(c, e)
  BY <1>1
<1> HIDE DEF e
<1>5. c \in Seq(T) /\ e \in T
  BY <1>3 DEF LaneTypeOK
<1> HIDE DEF T, c, d
<1>6. Len(c) \in Nat /\ DOMAIN c = 1 .. Len(c)
  BY <1>5, LenProperties
<1>7. /\ d \in Seq(T) /\ Len(d) = Len(c) + 1 /\ \A j \in 1 .. Len(c) : d[j] = c[j]
      /\ d[Len(c) + 1] = e
  BY <1>4, <1>5, AppendProperties
<1>8. DOMAIN d = 1 .. (Len(c) + 1)
  BY <1>7, LenProperties
<1>9. DOMAIN d = DOMAIN c \cup {Len(c) + 1} /\ Len(c) + 1 \notin DOMAIN c
  BY <1>6, <1>8
<1>10. Onward(c, d)
  BY <1>6, <1>7, <1>9 DEF Onward, T
<1>11. Len(c) < MaxTransfers
  BY DEF Transferred, c
<1> QED BY <1>2, <1>3, <1>6, <1>7, <1>9, <1>10, <1>11 DEF c, d

\* A step of the chain alone.
LEMMA ChainKeepsLock ==
  ASSUME OpInv, Onward(chain, chain'), UNCHANGED <<now, contracts, row, prepared, op>>
  PROVE  OpInv'
<1>1. LaneTypeOK'
  BY DEF OpInv, LaneTypeOK, Onward, contracts
<1>2. ASSUME NEW w \in Workers PROVE InHand(op[w], row, chain')
  <2>1. InHand(op[w], row, chain) /\ DOMAIN chain \subseteq DOMAIN chain'
    BY DEF OpInv, Onward
  <2> QED BY <2>1 DEF InHand
<1>3. Locked'
  BY DEF OpInv, Locked
<1> QED BY <1>1, <1>2, <1>3 DEF OpInv

----------------------------------------------------------------------------
AfterSync(s, syncs, next) ==
  IF syncs = <<>> THEN next ELSE [phase |-> "sync", s |-> s, syncs |-> syncs, next |-> next]

LEMMA SyncInHand ==
  ASSUME NEW s \in Streams, NEW syncs \in Seq(SyncItem), NEW next \in {Idle} \cup Settling,
         NEW st, NEW c, next # Idle => ReadyToSettle(next, st)
  PROVE  AfterSync(s, syncs, next) \in Operation /\ InHand(AfterSync(s, syncs, next), st, c)
<1>1. CASE syncs = <<>>
  <2>1. AfterSync(s, syncs, next) = next
    BY <1>1 DEF AfterSync
  <2>2. CASE next = Idle
    BY <2>1, <2>2, IdleHoldsNothing
  <2>3. CASE next # Idle
    <3>1. next \in Settling /\ next \in Operation /\ next.phase \in {"submit", "prepare"}
      BY <2>3 DEF Operation, Settling
    <3>2. InHand(next, st, c)
      BY <2>3, <3>1 DEF InHand
    <3> QED BY <2>1, <3>1, <3>2
  <2> QED BY <2>2, <2>3
<1>2. CASE syncs # <<>>
  <2> DEFINE o == [phase |-> "sync", s |-> s, syncs |-> syncs, next |-> next]
  <2>1. AfterSync(s, syncs, next) = o
    BY <1>2 DEF AfterSync
  <2>2. o \in Operation
    BY DEF Operation
  <2>3. o.phase = "sync" /\ o.syncs = syncs /\ o.next = next
    OBVIOUS
  <2> HIDE DEF o
  <2>4. InHand(o, st, c)
    BY <1>2, <2>3 DEF InHand
  <2> QED BY <2>1, <2>2, <2>4
<1> QED BY <1>1, <1>2

LEMMA ReconcileKeepsLock ==
  ASSUME OpInv, NEW w \in Workers, op[w] # Idle \/ Free(w), NEW s \in Streams,
         NEW purpose \in {"submit", "prepare"}, NEW rows \in Store, NEW syncs \in Seq(SyncItem),
         \A t \in Streams : t # s => rows[t] = row[t],
         rows[s].status = row[s].status, row[s].status # "none",
         purpose = "submit" => s \in Hosted /\ row[s].status # "stopped",
         ReconcileThen(w, s, purpose, rows, syncs),
         UNCHANGED <<now, contracts, chain, prepared>>
  PROVE  OpInv'
<1>0. /\ admin' \in [Streams -> Index] /\ record' \in [Streams -> CycleRecord]
      /\ chain' \in Seq(Transfer) /\ row \in Store
      /\ \A p \in prepared' : p \in [stream : Streams, amount : Nat \ {0}]
      /\ UNCHANGED now
  BY DEF OpInv, LaneTypeOK, contracts
<1>1. CASE /\ Outstanding(rows[s]) # {}
           /\ Do(w, [phase |-> "reconcile", s |-> s, purpose |-> purpose, store |-> rows,
                     syncs |-> syncs])
           /\ UNCHANGED row
  <2> DEFINE o == [phase |-> "reconcile", s |-> s, purpose |-> purpose, store |-> rows, syncs |-> syncs]
  <2>1. o \in Operation
    BY DEF Operation
  <2>2. o.phase = "reconcile" /\ o.s = s /\ o.purpose = purpose /\ o.store = rows
    OBVIOUS
  <2>3. Do(w, o)
    BY <1>1
  <2> HIDE DEF o
  <2>4. InHand(o, row', chain')
    BY <1>1, <2>2 DEF InHand
  <2> QED BY <1>0, <1>1, <2>1, <2>3, <2>4, HolderKeepsOp
<1>2. CASE /\ row' = rows
           /\ SyncThen(w, s, syncs, [phase |-> purpose, s |-> s, store |-> rows])
  <2> DEFINE next == [phase |-> purpose, s |-> s, store |-> rows]
             o == AfterSync(s, syncs, next)
  <2>1. next \in Settling
    BY DEF Settling
  <2>2. next.phase = purpose /\ next.s = s /\ next.store = rows
    OBVIOUS
  <2>3. Do(w, o)
    BY <1>2 DEF SyncThen, AfterSync
  <2> HIDE DEF next
  <2>4. ReadyToSettle(next, rows)
    BY <2>2 DEF ReadyToSettle
  <2>5. o \in Operation /\ InHand(o, row', chain')
    BY <1>2, <2>1, <2>4, SyncInHand
  <2> HIDE DEF o
  <2> QED BY <1>0, <1>2, <2>3, <2>5, HolderKeepsOp
<1> QED BY <1>1, <1>2 DEF ReconcileThen

LEMMA StoreExcept ==
  ASSUME NEW st \in Store, NEW s \in Streams, NEW r \in Row
  PROVE  /\ [st EXCEPT ![s] = r] \in Store
         /\ \A t \in Streams : [st EXCEPT ![s] = r][t] = IF t = s THEN r ELSE st[t]
BY DEF Store

LEMMA RowAt ==
  ASSUME LaneTypeOK, NEW s \in Streams PROVE row[s] \in Row
BY DEF LaneTypeOK, Store

LEMMA CreateKeepsLock ==
  ASSUME OpInv, NEW w \in Workers, NEW s \in Streams, createStream(w, s)
  PROVE  OpInv'
<1> DEFINE fresh == [NoRow EXCEPT !.status = "active", !.rate = RatePerPeriod[s]]
           st == [row EXCEPT ![s] = fresh]
           o == [phase |-> "create", s |-> s, store |-> st]
<1>1. Free(w) /\ row[s].status = "none" /\ Do(w, o) /\ UNCHANGED <<now, chain, row, prepared>>
  BY DEF createStream
<1>2. fresh = Fresh(s) /\ Fresh(s) \in Row
  BY FreshType DEF Fresh
<1> HIDE DEF fresh
<1>3. st \in Store
  BY <1>2, StoreExcept DEF OpInv, LaneTypeOK
<1>4. st = [row EXCEPT ![s] = Fresh(s)]
  BY <1>2
<1> HIDE DEF st
<1>5. o \in Operation
  BY <1>3 DEF Operation
<1>6. o.phase = "create" /\ o.s = s /\ o.store = st
  OBVIOUS
<1> HIDE DEF o
<1>7. InHand(o, row', chain')
  BY <1>1, <1>4, <1>6 DEF InHand
<1>8. admin' \in [Streams -> Index]
  <2>1. mkStreamAdmin \in Index
    BY DEF mkStreamAdmin, Index, NoCid
  <2>2. admin \in [Streams -> Index] /\ (admin' = admin \/ admin' = [admin EXCEPT ![s] = mkStreamAdmin])
    BY DEF OpInv, LaneTypeOK, createStream
  <2> QED BY <2>1, <2>2
<1>9. record' \in [Streams -> CycleRecord]
  <2>1. createStreamRecord \in CycleRecord
    BY DEF createStreamRecord, CycleRecord, NoTransfer
  <2>2. /\ record \in [Streams -> CycleRecord]
        /\ record' = record \/ record' = [record EXCEPT ![s] = createStreamRecord]
    BY DEF OpInv, LaneTypeOK, createStream
  <2> QED BY <2>1, <2>2
<1>10. /\ row' \in Store /\ chain' \in Seq(Transfer) /\ UNCHANGED now
       /\ \A p \in prepared' : p \in [stream : Streams, amount : Nat \ {0}]
  BY <1>1 DEF OpInv, LaneTypeOK
<1> QED BY <1>1, <1>5, <1>7, <1>8, <1>9, <1>10, HolderKeepsOp

\* The contracts keep their shape.
LEMMA ContractsFit ==
  ASSUME LaneTypeOK, UNCHANGED contracts
  PROVE  admin' \in [Streams -> Index] /\ record' \in [Streams -> CycleRecord]
BY DEF LaneTypeOK, contracts

LEMMA SaveCreatedKeepsLock ==
  ASSUME OpInv, NEW w \in Workers, SaveCreated(w)
  PROVE  OpInv'
<1>1. op[w] \in Operation /\ op[w].phase = "create"
  BY DEF OpInv, LaneTypeOK, SaveCreated
<1>2. op[w].store \in Store /\ op[w] # Idle
  BY <1>1, OperationFields
<1>3. /\ row' = op[w].store /\ Do(w, Idle) /\ UNCHANGED <<now, chain, prepared>> /\ UNCHANGED contracts
  BY DEF SaveCreated
<1>4. admin' \in [Streams -> Index] /\ record' \in [Streams -> CycleRecord]
  BY <1>3, ContractsFit DEF OpInv
<1>5. chain' \in Seq(Transfer) /\ \A p \in prepared' : p \in [stream : Streams, amount : Nat \ {0}]
  BY <1>3 DEF OpInv, LaneTypeOK
<1> QED BY <1>2, <1>3, <1>4, <1>5, IdleHoldsNothing, HolderKeepsOp

LEMMA StopKeepsLock ==
  ASSUME OpInv, NEW w \in Workers, NEW s \in Streams, stopStream(w, s)
  PROVE  OpInv'
<1>1. /\ Free(w) /\ UNCHANGED <<now, op, chain, prepared>> /\ UNCHANGED admin
      /\ row' = [row EXCEPT ![s].status = "stopped", ![s].rate = 0]
      /\ UNCHANGED record \/ MarkStopped(s)
  BY DEF stopStream
<1> DEFINE q == [row[s] EXCEPT !.status = "stopped", !.rate = 0]
<1>2. q \in Row
  BY RowAt, StoppedType DEF OpInv
<1>3. row' = [row EXCEPT ![s] = q]
  BY <1>1
<1> HIDE DEF q
<1>4. row' \in Store
  BY <1>2, <1>3, StoreExcept DEF OpInv, LaneTypeOK
<1>5. record' \in [Streams -> CycleRecord]
  <2>1. record \in [Streams -> CycleRecord]
    BY DEF OpInv, LaneTypeOK
  <2>2. CASE MarkStopped(s)
    <3> DEFINE e == [record[s] EXCEPT !.status = "Cancelled"]
    <3>1. e \in CycleRecord
      BY <2>1 DEF CycleRecord
    <3>2. record' = [record EXCEPT ![s] = e]
      BY <2>2 DEF MarkStopped
    <3> HIDE DEF e
    <3> QED BY <2>1, <3>1, <3>2
  <2> QED BY <1>1, <2>1, <2>2
<1>6. admin' \in [Streams -> Index]
  BY <1>1 DEF OpInv, LaneTypeOK
<1> QED BY <1>1, <1>4, <1>5, <1>6, FreeKeepsLock

----------------------------------------------------------------------------
LEMMA RefreshedStore ==
  ASSUME NEW st \in Store, NEW s \in Streams, NEW r \in Row, r.status = st[s].status
  PROVE  LET d == [st EXCEPT ![s] = r]
         IN  /\ d \in Store /\ d[s] = r /\ d[s].status = st[s].status
             /\ \A t \in Streams : t # s => d[t] = st[t]
BY StoreExcept

LEMMA BeginKeepsLock ==
  ASSUME OpInv, NEW w \in Workers, NEW s \in Streams, NEW purpose \in {"submit", "prepare"},
         BeginSettle(w, s, purpose)
  PROVE  OpInv'
<1>1. /\ Free(w) /\ row[s].status # "none"
      /\ purpose = "submit" => s \in Hosted /\ row[s].status # "stopped"
      /\ ReconcileThen(w, s, purpose, row, <<>>)
      /\ UNCHANGED <<now, contracts, chain, prepared>>
  BY DEF BeginSettle
<1>2. row \in Store /\ <<>> \in Seq(SyncItem)
  BY DEF OpInv, LaneTypeOK
<1> QED BY <1>1, <1>2, ReconcileKeepsLock

\* What the worker finds in hand while it reconciles.
LEMMA ReconcilingFacts ==
  ASSUME OpInv, NEW w \in Workers, op[w].phase = "reconcile"
  PROVE  LET o == op[w]
         IN  /\ o # Idle /\ o.s \in Streams /\ o.store \in Store /\ o.store[o.s] \in Row
             /\ o.purpose \in {"submit", "prepare"} /\ o.syncs \in Seq(SyncItem)
             /\ \A t \in Streams : t # o.s => o.store[t] = row[t]
             /\ o.store[o.s].status = row[o.s].status /\ row[o.s].status # "none"
             /\ o.purpose = "submit" => o.s \in Hosted /\ row[o.s].status # "stopped"
<1>1. op[w] \in Operation /\ InHand(op[w], row, chain)
  BY DEF OpInv, LaneTypeOK
<1>2. /\ op[w] # Idle /\ op[w].s \in Streams /\ op[w].store \in Store
      /\ op[w].purpose \in {"submit", "prepare"} /\ op[w].syncs \in Seq(SyncItem)
  BY <1>1, OperationFields
<1>3. op[w].store[op[w].s] \in Row
  BY <1>2 DEF Store
<1> QED BY <1>1, <1>2, <1>3 DEF InHand

LEMMA ReconcilingKeepsLock ==
  ASSUME OpInv, NEW w \in Workers, reconcileOutstandingOffers(w)
  PROVE  OpInv'
<1> DEFINE s == op[w].s
           rows == op[w].store
           r == rows[s]
           syncs == op[w].syncs
           purpose == op[w].purpose
<1>0. op[w].phase = "reconcile" /\ UNCHANGED <<now, contracts, chain, prepared>>
  BY DEF reconcileOutstandingOffers
<1>1. /\ op[w] # Idle /\ s \in Streams /\ rows \in Store /\ r \in Row
      /\ purpose \in {"submit", "prepare"} /\ syncs \in Seq(SyncItem)
      /\ \A t \in Streams : t # s => rows[t] = row[t]
      /\ r.status = row[s].status /\ row[s].status # "none"
      /\ purpose = "submit" => s \in Hosted /\ row[s].status # "stopped"
  BY <1>0, ReconcilingFacts
<1>2. PICK k \in Outstanding(r) :
        \/ ReconcileThen(w, s, purpose, [rows EXCEPT ![s] = creditAcceptedOffer(r, k, -r.pending[k].offer)],
                         Append(syncs, ToSync(-r.pending[k].offer, r.pending[k].amount, FALSE)))
        \/ ReconcileThen(w, s, purpose, [rows EXCEPT ![s] = [r EXCEPT !.pending[k].status = "withdrawn"]],
                         syncs)
        \/ row' = rows /\ SyncThen(w, s, syncs, Idle)
  BY DEF reconcileOutstandingOffers
<1>3. k \in DOMAIN r.pending
  BY DEF Outstanding
<1> HIDE DEF s, rows, r, syncs, purpose
<1>4. r.pending[k].offer \in Nat \ {0} /\ r.pending[k].amount \in Nat \ {0}
  BY <1>1, <1>3, PendingAt
<1>5. CASE ReconcileThen(w, s, purpose, [rows EXCEPT ![s] = creditAcceptedOffer(r, k, -r.pending[k].offer)],
                         Append(syncs, ToSync(-r.pending[k].offer, r.pending[k].amount, FALSE)))
  <2> DEFINE u == -r.pending[k].offer
             q == creditAcceptedOffer(r, k, u)
             e == ToSync(u, r.pending[k].amount, FALSE)
             st == [rows EXCEPT ![s] = q]
             next == Append(syncs, e)
  <2>1. u \in Int
    BY <1>4
  <2>2. e \in SyncItem
    BY <1>4, <2>1 DEF ToSync, SyncItem
  <2>3. q \in Row /\ q.status = r.status
    BY <1>1, <1>3, <2>1, AcceptedType
  <2>4. next \in Seq(SyncItem)
    <3> HIDE DEF e
    <3> QED BY <1>1, <2>2
  <2>5. ReconcileThen(w, s, purpose, st, next)
    BY <1>5
  <2> HIDE DEF q, u, e, next
  <2>6. r = rows[s]
    BY DEF r, rows, s
  <2>7. st \in Store /\ st[s] = q /\ st[s].status = rows[s].status /\ \A t \in Streams : t # s => st[t] = rows[t]
    BY <1>1, <2>3, <2>6, RefreshedStore
  <2> HIDE DEF st
  <2>8. st[s].status = row[s].status /\ \A t \in Streams : t # s => st[t] = row[t]
    BY <1>1, <2>6, <2>7
  <2> QED BY <1>0, <1>1, <2>4, <2>5, <2>7, <2>8, ReconcileKeepsLock
<1>6. CASE ReconcileThen(w, s, purpose, [rows EXCEPT ![s] = [r EXCEPT !.pending[k].status = "withdrawn"]],
                         syncs)
  <2> DEFINE q == [r EXCEPT !.pending[k].status = "withdrawn"]
             st == [rows EXCEPT ![s] = q]
  <2>1. q \in Row /\ q.status = r.status
    BY <1>1, <1>3, WithdrawnType
  <2>2. ReconcileThen(w, s, purpose, st, syncs)
    BY <1>6
  <2> HIDE DEF q
  <2>3. r = rows[s]
    BY DEF r, rows, s
  <2>4. st \in Store /\ st[s] = q /\ st[s].status = rows[s].status /\ \A t \in Streams : t # s => st[t] = rows[t]
    BY <1>1, <2>1, <2>3, RefreshedStore
  <2> HIDE DEF st
  <2>5. st[s].status = row[s].status /\ \A t \in Streams : t # s => st[t] = row[t]
    BY <1>1, <2>3, <2>4
  <2> QED BY <1>0, <1>1, <2>2, <2>4, <2>5, ReconcileKeepsLock
<1>7. CASE row' = rows /\ SyncThen(w, s, syncs, Idle)
  <2> DEFINE o == AfterSync(s, syncs, Idle)
  <2>1. Do(w, o)
    BY <1>7 DEF SyncThen, AfterSync
  <2>2. o \in Operation /\ InHand(o, row', chain')
    BY <1>1, SyncInHand
  <2> HIDE DEF o
  <2>3. admin' \in [Streams -> Index] /\ record' \in [Streams -> CycleRecord]
    BY <1>0, ContractsFit DEF OpInv
  <2>4. /\ chain' \in Seq(Transfer) /\ \A p \in prepared' : p \in [stream : Streams, amount : Nat \ {0}]
        /\ UNCHANGED now
    BY <1>0 DEF OpInv, LaneTypeOK
  <2> QED BY <1>1, <1>7, <2>1, <2>2, <2>3, <2>4, HolderKeepsOp
<1> QED BY <1>2, <1>5, <1>6, <1>7

\* What has accrued, and what of it is due.
LEMMA AccruedIs ==
  ASSUME NEW s \in Streams, NEW t \in Nat, NEW rate \in Nat
  PROVE  rate * (IF TermEnd[s] # 0 /\ TermEnd[s] < t THEN TermEnd[s] ELSE t) \in Nat
<1>1. TermEnd[s] \in Nat
  BY LaneAssumption
<1> DEFINE x == IF TermEnd[s] # 0 /\ TermEnd[s] < t THEN TermEnd[s] ELSE t
<1>2. x \in Nat
  BY <1>1
<1> HIDE DEF x
<1>3. rate * x \in Nat
  BY <1>2
<1> QED BY <1>3 DEF x

LEMMA DueIsWithin ==
  ASSUME now \in Nat, NEW s \in Streams, NEW r \in Row
  PROVE  /\ accruedAmount(s, r) \in Nat /\ dueAmount(s, r) \in Nat
         /\ dueAmount(s, r) > 0 => r.settled + dueAmount(s, r) <= accruedAmount(s, r)
<1> DEFINE a == accruedAmount(s, r)
<1>1. r.rate \in Nat /\ r.settled \in Nat
  BY DEF Row
<1>2. a \in Nat
  BY <1>1, AccruedIs DEF accruedAmount
<1>3. dueAmount(s, r) = IF r.status = "stopped" \/ a - r.settled <= 0 THEN 0
                        ELSE IF s \in CatchUp THEN a - r.settled
                        ELSE MinOf(a - r.settled, r.rate)
  BY DEF dueAmount
<1> HIDE DEF a
<1>4. dueAmount(s, r) \in Nat /\ (dueAmount(s, r) > 0 => r.settled + dueAmount(s, r) <= a)
  BY <1>1, <1>2, <1>3 DEF MinOf
<1> QED BY <1>2, <1>4 DEF a

LEMMA PayableIs ==
  ASSUME now \in Nat, NEW s \in Streams, NEW r \in Row, NEW amount \in Payable(s, r)
  PROVE  amount \in Nat \ {0} /\ (~Forces => amount <= dueAmount(s, r))
<1> DEFINE cap == IF Forces THEN MaxOf(dueAmount(s, r), r.rate) ELSE dueAmount(s, r)
<1>1. dueAmount(s, r) \in Nat /\ r.rate \in Nat
  BY DueIsWithin DEF Row
<1>2. cap \in Nat /\ (~Forces => cap = dueAmount(s, r))
  BY <1>1 DEF MaxOf
<1>3. amount \in { MinOf(named, cap) : named \in (1 .. MaxNamed) \cup {cap} } \ {0}
  BY DEF Payable
<1> HIDE DEF cap
<1>4. PICK named \in (1 .. MaxNamed) \cup {cap} : amount = MinOf(named, cap)
  BY <1>3
<1>5. named \in Nat /\ amount # 0
  BY <1>2, <1>3 DEF LaneAssumption
<1> QED BY <1>2, <1>4, <1>5 DEF MinOf

\* Offers a row remembers for a cycle: their number is a natural number.
LEMMA AttemptIs ==
  ASSUME NEW r \in Row
  PROVE  attempt(r) \in Nat
<1> DEFINE D == { k \in DOMAIN r.pending : r.pending[k].cycle = r.cycles + 1 }
<1>1. r.pending \in Seq(PendingTransfer)
  BY DEF Row
<1>2. DOMAIN r.pending = 1 .. Len(r.pending) /\ Len(r.pending) \in Nat
  BY <1>1, LenProperties
<1>3. IsFiniteSet(1 .. Len(r.pending))
  BY <1>2, FS_Interval
<1>4. IsFiniteSet(D)
  BY <1>2, <1>3, FS_Subset
<1>5. Cardinality(D) \in Nat
  BY <1>4, FS_CardinalityType
<1> QED BY <1>5 DEF attempt

----------------------------------------------------------------------------
LEMMA ReadyFacts ==
  ASSUME OpInv, NEW w \in Workers, op[w].phase \in {"submit", "prepare"}
  PROVE  LET o == op[w]
         IN  /\ o # Idle /\ o.s \in Streams /\ o.store = row /\ row[o.s] \in Row
             /\ row[o.s].status # "none"
             /\ o.phase = "submit" => o.s \in Hosted /\ row[o.s].status # "stopped"
<1>1. op[w] \in Operation /\ InHand(op[w], row, chain)
  BY DEF OpInv, LaneTypeOK
<1>2. op[w] # Idle /\ op[w].s \in Streams
  BY <1>1, OperationFields
<1>3. row[op[w].s] \in Row
  BY <1>2, RowAt DEF OpInv
<1>4. ReadyToSettle(op[w], row)
  BY <1>1 DEF InHand
<1> QED BY <1>2, <1>3, <1>4 DEF ReadyToSettle

\* The transfer that settleCycle submits.
LEMMA SettledTransfer ==
  ASSUME OpInv, NEW w \in Workers, settleCycle(w)
  PROVE  LET s == op[w].s
         IN  /\ s \in Hosted /\ s \in Streams /\ row[s] \in Row /\ op[w] # Idle /\ op[w].store = row
             /\ row[s].status \notin {"none", "stopped"}
             /\ ~Deduplicated(commandId(s, row[s]))
             /\ \E amount \in Payable(s, row[s]) : Transferred(s, amount, commandId(s, row[s]))
             /\ Do(w, [phase |-> "save", s |-> s, store |-> row, xfer |-> Len(chain) + 1])
             /\ commandId(s, row[s]) \in Streams \X Nat \X Nat
<1> DEFINE s == op[w].s
<1>1. /\ op[w].phase = "submit" /\ ~Deduplicated(commandId(s, op[w].store[s]))
      /\ \E amount \in Payable(s, op[w].store[s]) : Transferred(s, amount, commandId(s, op[w].store[s]))
      /\ Do(w, [phase |-> "save", s |-> s, store |-> op[w].store, xfer |-> Len(chain) + 1])
  BY DEF settleCycle
<1>2. /\ op[w] # Idle /\ s \in Streams /\ op[w].store = row /\ row[s] \in Row
      /\ row[s].status # "none" /\ s \in Hosted /\ row[s].status # "stopped"
  BY <1>1, ReadyFacts
<1> HIDE DEF s
<1>3. commandId(s, row[s]) \in Streams \X Nat \X Nat
  <2>1. attempt(row[s]) \in Nat /\ row[s].cycles + 1 \in Nat
    BY <1>2, AttemptIs DEF Row
  <2> QED BY <1>2, <2>1 DEF commandId
<1> QED BY <1>1, <1>2, <1>3 DEF s

LEMMA SettleCycleKeepsLock ==
  ASSUME OpInv, NEW w \in Workers, settleCycle(w)
  PROVE  OpInv'
<1> DEFINE s == op[w].s
           cmd == commandId(s, row[s])
           i == Len(chain) + 1
           o == [phase |-> "save", s |-> s, store |-> row, xfer |-> i]
<1>1. /\ s \in Hosted /\ s \in Streams /\ row[s] \in Row /\ op[w] # Idle /\ op[w].store = row
      /\ row[s].status \notin {"none", "stopped"} /\ cmd \in Streams \X Nat \X Nat
      /\ \E amount \in Payable(s, row[s]) : Transferred(s, amount, cmd)
      /\ Do(w, o)
  BY SettledTransfer
<1>2. UNCHANGED <<now, contracts, row, prepared>>
  BY DEF settleCycle
<1> HIDE DEF s, cmd
<1>3. PICK amount \in Payable(s, row[s]) : Transferred(s, amount, cmd)
  BY <1>1
<1>4. amount \in Nat \ {0}
  BY <1>1, PayableIs DEF OpInv
<1>5. Onward(chain, chain') /\ DOMAIN chain' = DOMAIN chain \cup {i}
  <2>1. LaneTypeOK /\ now \in Nat /\ cmd \in {NoCommand} \cup (Streams \X Nat \X Nat)
    BY <1>1, MaxTimeAssumption DEF OpInv
  <2> QED BY <1>1, <1>3, <1>4, <2>1, TransferMade
<1>6. i \in Nat \ {0}
  BY ChainAt DEF OpInv, LaneTypeOK
<1> HIDE DEF i
<1>7. o \in Operation
  BY <1>1, <1>6 DEF Operation, OpInv, LaneTypeOK
<1>8. o.phase = "save" /\ o.s = s /\ o.store = row /\ o.xfer = i
  OBVIOUS
<1> HIDE DEF o
<1>9. InHand(o, row', chain')
  BY <1>1, <1>2, <1>5, <1>8 DEF InHand
<1>10. admin' \in [Streams -> Index] /\ record' \in [Streams -> CycleRecord]
  BY <1>2, ContractsFit DEF OpInv
<1>11. /\ chain' \in Seq(Transfer) /\ row' \in Store /\ UNCHANGED now
       /\ \A p \in prepared' : p \in [stream : Streams, amount : Nat \ {0}]
  BY <1>2, <1>5 DEF OpInv, LaneTypeOK, Onward
<1> QED BY <1>1, <1>7, <1>9, <1>10, <1>11, HolderKeepsOp

\* The holder lets go without a trace.
LEMMA DropKeepsLock ==
  ASSUME OpInv, NEW w \in Workers, op[w] # Idle, Do(w, Idle),
         UNCHANGED <<now, contracts, chain, row, prepared>>
  PROVE  OpInv'
<1>1. admin' \in [Streams -> Index] /\ record' \in [Streams -> CycleRecord]
  BY ContractsFit DEF OpInv
<1>2. /\ chain' \in Seq(Transfer) /\ row' \in Store
      /\ \A p \in prepared' : p \in [stream : Streams, amount : Nat \ {0}]
  BY DEF OpInv, LaneTypeOK
<1> QED BY <1>1, <1>2, IdleHoldsNothing, HolderKeepsOp

LEMMA PrepareKeepsLock ==
  ASSUME OpInv, NEW w \in Workers, prepareSettle(w)
  PROVE  OpInv'
<1> DEFINE s == op[w].s
           due == dueAmount(s, op[w].store[s])
<1>1. /\ op[w].phase = "prepare" /\ Do(w, Idle) /\ UNCHANGED <<now, contracts, chain, row>>
      /\ \E amount \in (1 .. MaxNamed) \cup ({due} \ {0}) :
           prepared' = prepared \cup {[stream |-> s, amount |-> amount]}
  BY DEF prepareSettle
<1>2. op[w] # Idle /\ s \in Streams /\ op[w].store = row /\ row[s] \in Row
  BY <1>1, ReadyFacts
<1>3. due \in Nat
  BY <1>2, DueIsWithin DEF OpInv
<1> HIDE DEF s, due
<1>4. \A p \in prepared' : p \in [stream : Streams, amount : Nat \ {0}]
  BY <1>1, <1>2, <1>3 DEF OpInv, LaneTypeOK, LaneAssumption
<1>5. admin' \in [Streams -> Index] /\ record' \in [Streams -> CycleRecord]
  BY <1>1, ContractsFit DEF OpInv
<1>6. chain' \in Seq(Transfer) /\ row' \in Store
  BY <1>1 DEF OpInv, LaneTypeOK
<1> QED BY <1>1, <1>2, <1>4, <1>5, <1>6, IdleHoldsNothing, HolderKeepsOp

\* What the worker finds in hand when it saves.
LEMMA SavingFacts ==
  ASSUME OpInv, NEW w \in Workers, op[w].phase = "save"
  PROVE  LET o == op[w]
         IN  /\ o # Idle /\ o.s \in Streams /\ o.s \in Hosted /\ o.store = row /\ row[o.s] \in Row
             /\ row[o.s].status \notin {"none", "stopped"} /\ o.xfer \in DOMAIN chain
<1>1. op[w] \in Operation /\ InHand(op[w], row, chain)
  BY DEF OpInv, LaneTypeOK
<1>2. op[w] # Idle /\ op[w].s \in Streams
  BY <1>1, OperationFields
<1>3. row[op[w].s] \in Row
  BY <1>2, RowAt DEF OpInv
<1> QED BY <1>1, <1>2, <1>3 DEF InHand

\* The holder, or a request that finds the lock free, changes one row, and goes on
\* with nothing but what there is to sync.
LEMMA RowChangeKeepsLock ==
  ASSUME OpInv, NEW w \in Workers, op[w] # Idle \/ Free(w), NEW s \in Streams,
         NEW r \in Row, row' = [row EXCEPT ![s] = r], NEW syncs \in Seq(SyncItem),
         SyncThen(w, s, syncs, Idle), UNCHANGED <<now, contracts, chain, prepared>>
  PROVE  OpInv'
<1> DEFINE o == AfterSync(s, syncs, Idle)
<1>1. Do(w, o)
  BY DEF SyncThen, AfterSync
<1>2. o \in Operation /\ InHand(o, row', chain')
  BY SyncInHand
<1> HIDE DEF o
<1>3. admin' \in [Streams -> Index] /\ record' \in [Streams -> CycleRecord]
  BY ContractsFit DEF OpInv
<1>4. row' \in Store
  BY StoreExcept DEF OpInv, LaneTypeOK
<1>5. chain' \in Seq(Transfer) /\ \A p \in prepared' : p \in [stream : Streams, amount : Nat \ {0}]
  BY DEF OpInv, LaneTypeOK
<1> QED BY <1>1, <1>2, <1>3, <1>4, <1>5, HolderKeepsOp

LEMMA OneSync ==
  ASSUME NEW u \in Int, NEW a \in Nat \ {0}, NEW b \in BOOLEAN
  PROVE  <<ToSync(u, a, b)>> \in Seq(SyncItem)
<1>1. ToSync(u, a, b) \in SyncItem
  BY DEF ToSync, SyncItem
<1> QED BY <1>1

LEMMA NothingToSync ==
  ASSUME NEW w, NEW s, Do(w, Idle) PROVE SyncThen(w, s, <<>>, Idle)
BY DEF SyncThen

LEMMA SaveKeepsLock ==
  ASSUME OpInv, NEW w \in Workers, Save(w)
  PROVE  OpInv'
<1> DEFINE s == op[w].s
           i == op[w].xfer
           a == chain[i].amount
<1>1. op[w].phase = "save" /\ UNCHANGED <<now, contracts, chain, prepared>>
  BY DEF Save
<1>2. op[w] # Idle /\ s \in Streams /\ op[w].store = row /\ row[s] \in Row /\ i \in DOMAIN chain
  BY <1>1, SavingFacts
<1>3. i \in Nat \ {0} /\ i \in Int /\ a \in Nat \ {0}
  BY <1>2, ChainAt DEF OpInv, LaneTypeOK
<1>4. \/ row' = [row EXCEPT ![s] = WithPending(row[s], i, a)] /\ Do(w, Idle)
      \/ /\ row' = [row EXCEPT ![s] = Credited(row[s], i, a)]
         /\ SyncThen(w, s, <<ToSync(i, a, TRUE)>>, Idle)
  BY <1>2 DEF Save
<1> HIDE DEF s, i, a
<1>5. CASE row' = [row EXCEPT ![s] = WithPending(row[s], i, a)] /\ Do(w, Idle)
  <2>1. WithPending(row[s], i, a) \in Row
    BY <1>2, <1>3, WithPendingType
  <2>2. SyncThen(w, s, <<>>, Idle) /\ <<>> \in Seq(SyncItem)
    BY <1>5, NothingToSync
  <2> QED BY <1>1, <1>2, <1>5, <2>1, <2>2, RowChangeKeepsLock
<1>6. CASE /\ row' = [row EXCEPT ![s] = Credited(row[s], i, a)]
           /\ SyncThen(w, s, <<ToSync(i, a, TRUE)>>, Idle)
  <2>1. Credited(row[s], i, a) \in Row
    BY <1>2, <1>3, CreditedType
  <2>2. <<ToSync(i, a, TRUE)>> \in Seq(SyncItem)
    BY <1>3, OneSync
  <2> QED BY <1>1, <1>2, <1>6, <2>1, <2>2, RowChangeKeepsLock
<1> QED BY <1>4, <1>5, <1>6

----------------------------------------------------------------------------
\* What the worker finds in hand while it syncs.
LEMMA SyncingFacts ==
  ASSUME OpInv, NEW w \in Workers, op[w].phase = "sync"
  PROVE  LET o == op[w]
             c == Head(o.syncs)
         IN  /\ o # Idle /\ o.s \in Streams /\ o.syncs \in Seq(SyncItem) /\ o.syncs # <<>>
             /\ o.next \in {Idle} \cup Settling /\ (o.next # Idle => ReadyToSettle(o.next, row))
             /\ c \in SyncItem /\ c.update \in Int /\ c.amount \in Nat \ {0} /\ c.cycle \in BOOLEAN
             /\ Tail(o.syncs) \in Seq(SyncItem)
<1> DEFINE q == op[w].syncs
           c == Head(q)
<1>1. op[w] \in Operation /\ InHand(op[w], row, chain)
  BY DEF OpInv, LaneTypeOK
<1>2. /\ op[w] # Idle /\ op[w].s \in Streams /\ q \in Seq(SyncItem)
      /\ op[w].next \in {Idle} \cup Settling
  BY <1>1, OperationFields
<1>3. q # <<>> /\ (op[w].next # Idle => ReadyToSettle(op[w].next, row))
  BY <1>1 DEF InHand
<1> HIDE DEF q
<1>4. c \in SyncItem /\ Tail(q) \in Seq(SyncItem)
  BY <1>2, <1>3, HeadTailProperties
<1> HIDE DEF c
<1>5. c.update \in Int /\ c.amount \in Nat \ {0} /\ c.cycle \in BOOLEAN
  BY <1>4 DEF SyncItem
<1> QED BY <1>2, <1>3, <1>4, <1>5 DEF q, c

LEMMA SyncedIndex ==
  ASSUME admin \in [Streams -> Index], NEW s \in Streams, NEW a \in Nat \ {0}, NEW u \in Int
  PROVE  /\ Synced(s, a, u) \in Index /\ [admin EXCEPT ![s] = Synced(s, a, u)] \in [Streams -> Index]
         /\ Synced(s, a, u).totalWithdrawn = admin[s].totalWithdrawn + a
<1> DEFINE x == admin[s]
           total == x.totalWithdrawn + a
           n == x.numIterations + 1
           st == IF total = Terms[s].totalDeposited THEN "Completed" ELSE "Active"
           oc == IF x.originalAllocationId = NoCid THEN u ELSE x.originalAllocationId
<1>1. x \in Index
  OBVIOUS
<1> HIDE DEF x
<1>2. total \in Nat /\ n \in Nat /\ st \in {"Active", "Completed", "Cancelled"} /\ oc \in Int
  BY <1>1 DEF Index
<1>3. Synced(s, a, u) = [ totalWithdrawn |-> total, numIterations |-> n, status |-> st,
                          currentAllocationCid |-> u, originalAllocationId |-> oc ]
  BY DEF Synced, x
<1> HIDE DEF total, n, st, oc
<1>4. Synced(s, a, u) \in Index /\ Synced(s, a, u).totalWithdrawn = total
  BY <1>2, <1>3 DEF Index
<1> QED BY <1>4 DEF total, x

LEMMA RecordedCycle ==
  ASSUME record \in [Streams -> CycleRecord], NEW s \in Streams, NEW a \in Nat \ {0}, NEW u \in Int,
         RecordCycle(s, a, u)
  PROVE  /\ record' \in [Streams -> CycleRecord]
         /\ \A t \in Streams : record'[t].totalPaid = IF t = s THEN record[s].totalPaid + a
                                                      ELSE record[t].totalPaid
<1> DEFINE x == record[s]
           total == x.totalPaid + a
           n == x.cyclesSettled + 1
           y == [x EXCEPT !.totalPaid = total, !.cyclesSettled = n, !.lastTransferId = u]
<1>1. x \in CycleRecord
  OBVIOUS
<1>2. record' = [record EXCEPT ![s] = y]
  BY DEF RecordCycle
<1> HIDE DEF x
<1>3. total \in Nat /\ n \in Nat
  BY <1>1 DEF CycleRecord
<1> HIDE DEF total, n
<1>4. y \in CycleRecord /\ y.totalPaid = total
  BY <1>1, <1>3 DEF CycleRecord
<1> HIDE DEF y
<1> QED BY <1>2, <1>4 DEF total, x

LEMMA SyncStep ==
  ASSUME OpInv, NEW w \in Workers, SyncContracts(w)
  PROVE  LET s == op[w].s
             c == Head(op[w].syncs)
         IN  /\ op[w].phase = "sync"
             /\ admin' \in [Streams -> Index] /\ record' \in [Streams -> CycleRecord]
             /\ admin' = admin \/ admin' = [admin EXCEPT ![s] = Synced(s, c.amount, c.update)]
             /\ record' = record \/ \A t \in Streams :
                  record'[t].totalPaid = IF t = s THEN record[s].totalPaid + c.amount
                                         ELSE record[t].totalPaid
             /\ Do(w, AfterSync(s, Tail(op[w].syncs), op[w].next))
             /\ UNCHANGED <<now, chain, row, prepared>>
<1> DEFINE s == op[w].s
           c == Head(op[w].syncs)
<1>1. /\ op[w].phase = "sync" /\ UNCHANGED <<now, chain, row, prepared>>
      /\ SyncThen(w, s, Tail(op[w].syncs), op[w].next)
      /\ Sync_Iteration(s, c.amount, 0, c.update) \/ UNCHANGED admin
      /\ RecordCycle(s, c.amount, c.update) \/ UNCHANGED record
  BY DEF SyncContracts
<1>2. s \in Streams /\ c.update \in Int /\ c.amount \in Nat \ {0}
  BY <1>1, SyncingFacts
<1>3. admin \in [Streams -> Index] /\ record \in [Streams -> CycleRecord]
  BY DEF OpInv, LaneTypeOK
<1> HIDE DEF s, c
<1>4. /\ admin' \in [Streams -> Index]
      /\ admin' = admin \/ admin' = [admin EXCEPT ![s] = Synced(s, c.amount, c.update)]
  BY <1>1, <1>2, <1>3, SyncedIndex DEF Sync_Iteration
<1>5. /\ record' \in [Streams -> CycleRecord]
      /\ record' = record \/ \A t \in Streams :
           record'[t].totalPaid = IF t = s THEN record[s].totalPaid + c.amount ELSE record[t].totalPaid
  BY <1>1, <1>2, <1>3, RecordedCycle
<1>6. Do(w, AfterSync(s, Tail(op[w].syncs), op[w].next))
  BY <1>1 DEF SyncThen, AfterSync
<1> QED BY <1>1, <1>4, <1>5, <1>6 DEF s, c

LEMMA SyncKeepsLock ==
  ASSUME OpInv, NEW w \in Workers, SyncContracts(w)
  PROVE  OpInv'
<1> DEFINE o == AfterSync(op[w].s, Tail(op[w].syncs), op[w].next)
<1>1. /\ op[w].phase = "sync" /\ admin' \in [Streams -> Index] /\ record' \in [Streams -> CycleRecord]
      /\ Do(w, o) /\ UNCHANGED <<now, chain, row, prepared>>
  BY SyncStep
<1>2. /\ op[w] # Idle /\ op[w].s \in Streams /\ Tail(op[w].syncs) \in Seq(SyncItem)
      /\ op[w].next \in {Idle} \cup Settling /\ (op[w].next # Idle => ReadyToSettle(op[w].next, row))
  BY <1>1, SyncingFacts
<1>3. o \in Operation /\ InHand(o, row, chain)
  BY <1>2, SyncInHand
<1> HIDE DEF o
<1>4. InHand(o, row', chain')
  BY <1>1, <1>3
<1>5. /\ chain' \in Seq(Transfer) /\ row' \in Store /\ UNCHANGED now
      /\ \A p \in prepared' : p \in [stream : Streams, amount : Nat \ {0}]
  BY <1>1 DEF OpInv, LaneTypeOK
<1> QED BY <1>1, <1>2, <1>3, <1>4, <1>5, HolderKeepsOp

\* A request that only changes a row leaves the lock free.
LEMMA FreeRowKeepsLock ==
  ASSUME OpInv, NEW w \in Workers, Free(w), NEW s \in Streams, NEW r \in Row,
         row' = [row EXCEPT ![s] = r], UNCHANGED <<now, contracts, chain, prepared, op>>
  PROVE  OpInv'
<1>1. admin' \in [Streams -> Index] /\ record' \in [Streams -> CycleRecord]
  BY ContractsFit DEF OpInv
<1>2. row' \in Store
  BY StoreExcept DEF OpInv, LaneTypeOK
<1> QED BY <1>1, <1>2, FreeKeepsLock

LEMMA RecordSettleKeepsLock ==
  ASSUME OpInv, NEW w \in Workers, NEW s \in Streams, NEW i \in DOMAIN chain, recordSettle(w, s, i)
  PROVE  OpInv'
<1> DEFINE a == chain[i].amount
<1>1. /\ Free(w) /\ UNCHANGED <<now, contracts, chain, prepared>>
      /\ \/ row' = [row EXCEPT ![s] = WithPending(row[s], i, a)] /\ UNCHANGED op
         \/ /\ row' = [row EXCEPT ![s] = Credited(row[s], i, a)]
            /\ SyncThen(w, s, <<ToSync(i, a, TRUE)>>, Idle)
  BY DEF recordSettle
<1>2. row[s] \in Row /\ i \in Nat \ {0} /\ i \in Int /\ a \in Nat \ {0}
  BY RowAt, ChainAt DEF OpInv, LaneTypeOK
<1> HIDE DEF a
<1>3. WithPending(row[s], i, a) \in Row /\ Credited(row[s], i, a) \in Row
  BY <1>2, WithPendingType, CreditedType
<1>4. <<ToSync(i, a, TRUE)>> \in Seq(SyncItem)
  BY <1>2, OneSync
<1>5. CASE row' = [row EXCEPT ![s] = WithPending(row[s], i, a)] /\ UNCHANGED op
  BY <1>1, <1>3, <1>5, FreeRowKeepsLock
<1>6. CASE row' = [row EXCEPT ![s] = Credited(row[s], i, a)] /\ SyncThen(w, s, <<ToSync(i, a, TRUE)>>, Idle)
  BY <1>1, <1>3, <1>4, <1>6, RowChangeKeepsLock
<1> QED BY <1>1, <1>5, <1>6

\* The row of s gets records of these offers, numbered from first on.
RecoveredAs(s, size, first, offers) ==
  /\ \A n \in 1 .. size : offers[n] \in Unknown(s)
  /\ \A m, n \in 1 .. size : offers[m] = offers[n] => m = n
  /\ row' = [row EXCEPT ![s] = [row[s] EXCEPT !.pending =
                                 row[s].pending \o Adopted(chain, offers, size, first)]]

\* The offers that a recovery adopts, in the order it finds them.
LEMMA RecoveredOffers ==
  ASSUME OpInv, NEW w \in Workers, NEW s \in Streams, recoverPendingOffers(w, s)
  PROVE  /\ row[s] \in Row
         /\ \E size \in Nat, first \in Nat \ {0} : \E offers \in [1 .. size -> DOMAIN chain] :
              RecoveredAs(s, size, first, offers)
<1>1. row[s] \in Row
  BY RowAt DEF OpInv
<1>2. row[s].cycles \in Nat /\ Len(row[s].pending) \in Nat
  <2>1. row[s].pending \in Seq(PendingTransfer) /\ row[s].cycles \in Nat
    BY <1>1 DEF Row
  <2> QED BY <2>1, LenProperties
<1>3. IsFiniteSet(Unknown(s)) /\ Unknown(s) \subseteq DOMAIN chain
  <2>1. DOMAIN chain = 1 .. Len(chain) /\ Len(chain) \in Nat
    BY ChainAt DEF OpInv, LaneTypeOK
  <2>2. IsFiniteSet(1 .. Len(chain))
    BY <2>1, FS_Interval
  <2>3. Unknown(s) \subseteq DOMAIN chain
    BY DEF Unknown
  <2> QED BY <2>1, <2>2, <2>3, FS_Subset
<1> DEFINE size == Cardinality(Unknown(s))
           first == row[s].cycles + Len(row[s].pending) + 1
<1>4. size \in Nat /\ first \in Nat \ {0}
  <2>1. size \in Nat
    BY <1>3, FS_CardinalityType
  <2>2. first \in Nat \ {0}
    <3> DEFINE x == row[s].cycles
               y == Len(row[s].pending)
    <3>1. x \in Nat /\ y \in Nat
      BY <1>2
    <3> HIDE DEF x, y
    <3>2. x + y + 1 \in Nat \ {0}
      BY <3>1
    <3> QED BY <3>2 DEF x, y
  <2> QED BY <2>1, <2>2
<1>5. PICK offers \in [1 .. size -> Unknown(s)] :
         /\ \A m, n \in 1 .. size : offers[m] = offers[n] => m = n
         /\ row' = [row EXCEPT ![s].pending = @ \o
              [ n \in 1 .. size |->
                  PendingRecord(offers[n], chain[offers[n]].amount, first + 2 * (n - 1)) ]]
  BY DEF recoverPendingOffers
<1>6. row' = [row EXCEPT ![s] = [row[s] EXCEPT !.pending =
                                   row[s].pending \o Adopted(chain, offers, size, first)]]
  BY <1>5 DEF Adopted
<1> HIDE DEF size, first
<1>8. offers \in [1 .. size -> DOMAIN chain] /\ \A n \in 1 .. size : offers[n] \in Unknown(s)
  BY <1>3
<1>9. RecoveredAs(s, size, first, offers)
  BY <1>5, <1>6, <1>8 DEF RecoveredAs
<1> QED BY <1>1, <1>4, <1>8, <1>9

LEMMA RecoverKeepsLock ==
  ASSUME OpInv, NEW w \in Workers, NEW s \in Streams, recoverPendingOffers(w, s)
  PROVE  OpInv'
<1>1. row[s] \in Row
  BY RecoveredOffers
<1>2. PICK size \in Nat, first \in Nat \ {0} : \E offers \in [1 .. size -> DOMAIN chain] :
        RecoveredAs(s, size, first, offers)
  BY RecoveredOffers
<1>3. PICK offers \in [1 .. size -> DOMAIN chain] : RecoveredAs(s, size, first, offers)
  BY <1>2
<1> DEFINE q == Adopted(chain, offers, size, first)
           r == [row[s] EXCEPT !.pending = row[s].pending \o q]
<1>4. chain \in Seq(Transfer)
  BY DEF OpInv, LaneTypeOK
<1>5. q \in Seq(PendingTransfer)
  BY <1>4, RecoveredType
<1>6. row' = [row EXCEPT ![s] = r]
  BY <1>3 DEF RecoveredAs
<1> HIDE DEF q
<1>7. r \in Row
  BY <1>1, <1>5, MoreOffers
<1> HIDE DEF r
<1>8. Free(w) /\ UNCHANGED <<now, contracts, chain, prepared, op>>
  BY DEF recoverPendingOffers
<1> QED BY <1>6, <1>7, <1>8, FreeRowKeepsLock

LEMMA RecordAcceptKeepsLock ==
  ASSUME OpInv, NEW w \in Workers, NEW s \in Streams, NEW k \in DOMAIN row[s].pending,
         recordAcceptTransfer(w, s, k)
  PROVE  OpInv'
<1> DEFINE r == row[s]
           u == -r.pending[k].offer
           q == <<ToSync(u, r.pending[k].amount, FALSE)>>
<1>1. /\ Free(w) /\ UNCHANGED <<now, contracts, chain, prepared>>
      /\ row' = [row EXCEPT ![s] = creditAcceptedOffer(r, k, u)]
      /\ SyncThen(w, s, q, Idle)
  BY DEF recordAcceptTransfer
<1>2. r \in Row
  BY RowAt DEF OpInv
<1>3. u \in Int /\ r.pending[k].amount \in Nat \ {0}
  BY <1>2, PendingAt
<1>4. creditAcceptedOffer(r, k, u) \in Row
  BY <1>2, <1>3, AcceptedType
<1>5. q \in Seq(SyncItem)
  BY <1>3, OneSync
<1> HIDE DEF u, q, r
<1> QED BY <1>1, <1>4, <1>5, RowChangeKeepsLock

LEMMA RecordWithdrawKeepsLock ==
  ASSUME OpInv, NEW w \in Workers, NEW s \in Streams, NEW k \in DOMAIN row[s].pending,
         recordWithdrawTransfer(w, s, k)
  PROVE  OpInv'
<1> DEFINE r == [row[s] EXCEPT !.pending[k].status = "withdrawn"]
<1>1. Free(w) /\ UNCHANGED <<now, contracts, chain, prepared, op>> /\ row' = [row EXCEPT ![s] = r]
  BY DEF recordWithdrawTransfer
<1>2. r \in Row
  BY RowAt, WithdrawnType DEF OpInv
<1> HIDE DEF r
<1> QED BY <1>1, <1>2, FreeRowKeepsLock

----------------------------------------------------------------------------
LEMMA LaneInitLock ==
  ASSUME LaneInit PROVE OpInv
<1>1. mkStreamAdmin \in Index /\ createStreamRecord \in CycleRecord
  BY DEF mkStreamAdmin, Index, NoCid, createStreamRecord, CycleRecord, NoTransfer
<1>2. /\ [mkStreamAdmin EXCEPT !.status = "Cancelled"] \in Index
      /\ [createStreamRecord EXCEPT !.status = "Cancelled"] \in CycleRecord
  BY <1>1 DEF Index, CycleRecord
<1>3. NoRow \in Row
  <2>1. <<>> \in Seq(Cycle) /\ <<>> \in Seq(PendingTransfer)
    OBVIOUS
  <2> QED BY <2>1 DEF NoRow, Row
<1>4. /\ admin \in [Streams -> Index] /\ record \in [Streams -> CycleRecord]
      /\ row \in Store /\ op \in [Workers -> Operation]
  BY <1>2, <1>3, IdleHoldsNothing DEF LaneInit, Store
<1>5. \A w \in Workers : op[w] = Idle
  BY DEF LaneInit
<1>6. chain \in Seq(Transfer) /\ prepared = {}
  BY DEF LaneInit
<1>7. LaneTypeOK
  BY <1>4, <1>6 DEF LaneTypeOK
<1>8. Locked /\ \A w \in Workers : InHand(op[w], row, chain)
  BY <1>5, IdleHoldsNothing DEF Locked
<1>9. now \in 0 .. MaxTime
  BY MaxTimeAssumption DEF LaneInit
<1> QED BY <1>7, <1>8, <1>9 DEF OpInv

LEMMA TickKeepsLock ==
  ASSUME OpInv, Tick, UNCHANGED <<contracts, chain, row, prepared, op>>
  PROVE  OpInv'
<1>1. LaneTypeOK'
  BY DEF OpInv, LaneTypeOK, contracts
<1>2. Locked' /\ \A w \in Workers : InHand(op'[w], row', chain')
  BY DEF OpInv, Locked
<1>3. (now \in 0 .. MaxTime)'
  BY MaxTimeAssumption DEF OpInv, Tick
<1> QED BY <1>1, <1>2, <1>3 DEF OpInv

LEMMA OfferStep ==
  ASSUME OpInv, NEW i \in DOMAIN chain, AcceptOffer(i) \/ ReturnOffer(i)
  PROVE  /\ Onward(chain, chain') /\ DOMAIN chain' = DOMAIN chain
         /\ chain[i].fate = "open" /\ UNCHANGED <<now, contracts, row, prepared, op>>
         /\ \A j \in DOMAIN chain : j # i => chain'[j].fate = chain[j].fate
         /\ chain'[i].fate \in {"accepted", "returned"}
<1>1. PICK f \in {"accepted", "returned"} :
        /\ chain[i].fate = "open" /\ chain' = [chain EXCEPT ![i].fate = f]
        /\ UNCHANGED <<now, contracts, row, prepared, op>>
  BY DEF AcceptOffer, ReturnOffer
<1> DEFINE d == [chain EXCEPT ![i].fate = f]
<1>2. /\ Onward(chain, d) /\ DOMAIN d = DOMAIN chain
      /\ \A j \in DOMAIN chain : d[j].fate = IF j = i THEN f ELSE chain[j].fate
  BY <1>1, OfferEnds DEF OpInv, LaneTypeOK
<1>3. chain' = d
  BY <1>1
<1> HIDE DEF d
<1> QED BY <1>1, <1>2, <1>3

LEMMA WalletStep ==
  ASSUME OpInv, WalletTransfer
  PROVE  \E p \in prepared :
           /\ p \in [stream : Streams, amount : Nat \ {0}] /\ p.stream \in Streams
           /\ p.amount \in Nat \ {0} /\ Transferred(p.stream, p.amount, NoCommand)
           /\ Onward(chain, chain') /\ Len(chain) < MaxTransfers
           /\ DOMAIN chain' = DOMAIN chain \cup {Len(chain) + 1}
           /\ Len(chain) + 1 \notin DOMAIN chain /\ Len(chain') = Len(chain) + 1
           /\ \A j \in DOMAIN chain : chain'[j] = chain[j]
           /\ chain'[Len(chain) + 1].stream = p.stream
           /\ chain'[Len(chain) + 1].cmd = NoCommand
           /\ chain'[Len(chain) + 1].land = "direct" => chain'[Len(chain) + 1].fate = "delivered"
           /\ chain'[Len(chain) + 1].land = "offer" => chain'[Len(chain) + 1].fate = "open"
           /\ UNCHANGED <<now, contracts, row, prepared, op>>
<1>1. PICK p \in prepared : Transferred(p.stream, p.amount, NoCommand)
  BY DEF WalletTransfer
<1>2. p \in [stream : Streams, amount : Nat \ {0}]
  BY DEF OpInv, LaneTypeOK
<1>3. p.stream \in Streams /\ p.amount \in Nat \ {0}
  BY <1>2
<1>4. LaneTypeOK /\ now \in Nat /\ NoCommand \in {NoCommand} \cup (Streams \X Nat \X Nat)
  BY MaxTimeAssumption DEF OpInv
<1>5. UNCHANGED <<now, contracts, row, prepared, op>>
  BY DEF WalletTransfer
<1> QED BY <1>1, <1>2, <1>3, <1>4, <1>5, TransferMade

LEMMA LockStep ==
  ASSUME OpInv, [LaneNext]_laneVars PROVE OpInv'
<1>1. CASE UNCHANGED laneVars
  BY <1>1, ChainKeepsLock DEF laneVars, Onward, OpInv, LaneTypeOK, contracts
<1>2. CASE Tick /\ UNCHANGED <<contracts, chain, row, prepared, op>>
  BY <1>2, TickKeepsLock
<1>3. CASE \E i \in DOMAIN chain : AcceptOffer(i) \/ ReturnOffer(i)
  BY <1>3, OfferStep, ChainKeepsLock
<1>4. CASE WalletTransfer
  BY <1>4, WalletStep, ChainKeepsLock
<1>5. CASE \E w \in Workers : GiveUp(w) \/ ProxyCrash(w)
  <2>1. PICK w \in Workers : GiveUp(w) \/ ProxyCrash(w)
    BY <1>5
  <2>2. op[w] # Idle
    BY <2>1 DEF GiveUp, ProxyCrash, Idle
  <2> QED BY <2>1, <2>2, DropKeepsLock DEF GiveUp, ProxyCrash
<1>6. CASE \E w \in Workers : \/ SaveCreated(w) \/ reconcileOutstandingOffers(w) \/ settleCycle(w)
                              \/ Save(w) \/ SyncContracts(w) \/ prepareSettle(w)
  BY <1>6, SaveCreatedKeepsLock, ReconcilingKeepsLock, SettleCycleKeepsLock, SaveKeepsLock,
     SyncKeepsLock, PrepareKeepsLock
<1>7. CASE \E w \in Workers : \E s \in Streams :
             \/ createStream(w, s) \/ stopStream(w, s) \/ recoverPendingOffers(w, s)
             \/ BeginSettle(w, s, "submit") \/ BeginSettle(w, s, "prepare")
  BY <1>7, CreateKeepsLock, StopKeepsLock, RecoverKeepsLock, BeginKeepsLock
<1>8. CASE \E w \in Workers : \E s \in Streams : \E i \in DOMAIN chain : recordSettle(w, s, i)
  BY <1>8, RecordSettleKeepsLock
<1>9. CASE \E w \in Workers : \E s \in Streams : \E k \in DOMAIN row[s].pending :
             recordAcceptTransfer(w, s, k) \/ recordWithdrawTransfer(w, s, k)
  BY <1>9, RecordAcceptKeepsLock, RecordWithdrawKeepsLock
<1> QED BY <1>1, <1>2, <1>3, <1>4, <1>5, <1>6, <1>7, <1>8, <1>9 DEF LaneNext

----------------------------------------------------------------------------
\* No step takes a row back from its stop.
LEMMA ReconcileKeepsStops ==
  ASSUME NEW w, NEW s, NEW purpose, NEW rows, NEW q,
         \A t \in Streams : rows[t].status = row[t].status,
         ReconcileThen(w, s, purpose, rows, q)
  PROVE  \A t \in Streams : row'[t].status = row[t].status
BY DEF ReconcileThen

LEMMA RowStatusKept ==
  ASSUME OpInv, NEW s \in Streams, NEW r \in Row, r.status = row[s].status \/ r.status = "stopped",
         row' = [row EXCEPT ![s] = r]
  PROVE  \A t \in Streams : row[t].status = "stopped" => row'[t].status = "stopped"
BY StoreExcept DEF OpInv, LaneTypeOK

LEMMA ReconcilingKeepsStops ==
  ASSUME OpInv, NEW w \in Workers, reconcileOutstandingOffers(w)
  PROVE  \A t \in Streams : row'[t].status = row[t].status
<1> DEFINE s == op[w].s
           rows == op[w].store
           r == rows[s]
           syncs == op[w].syncs
           purpose == op[w].purpose
<1>1. /\ s \in Streams /\ rows \in Store /\ r \in Row
      /\ \A t \in Streams : t # s => rows[t] = row[t]
      /\ r.status = row[s].status
  BY ReconcilingFacts DEF reconcileOutstandingOffers
<1>2. PICK k \in Outstanding(r) :
        \/ \E q : ReconcileThen(w, s, purpose, [rows EXCEPT ![s] = creditAcceptedOffer(r, k, -r.pending[k].offer)], q)
        \/ \E q : ReconcileThen(w, s, purpose, [rows EXCEPT ![s] = [r EXCEPT !.pending[k].status = "withdrawn"]], q)
        \/ row' = rows
  BY DEF reconcileOutstandingOffers
<1>3. k \in DOMAIN r.pending
  BY DEF Outstanding
<1>4. r = rows[s]
  OBVIOUS
<1> HIDE DEF s, rows, r, syncs, purpose
<1>5. r.pending[k].offer \in Nat \ {0}
  BY <1>1, <1>3, PendingAt
<1> DEFINE x == creditAcceptedOffer(r, k, -r.pending[k].offer)
           y == [r EXCEPT !.pending[k].status = "withdrawn"]
<1>6. x.status = r.status /\ x \in Row
  BY <1>1, <1>3, <1>5, AcceptedType
<1>7. y.status = r.status /\ y \in Row
  BY <1>1, <1>3, WithdrawnType
<1>8. \A z \in Row : z.status = r.status =>
        \A t \in Streams : [rows EXCEPT ![s] = z][t].status = row[t].status
  <2> SUFFICES ASSUME NEW z \in Row, z.status = r.status, NEW t \in Streams
               PROVE  [rows EXCEPT ![s] = z][t].status = row[t].status
    OBVIOUS
  <2>1. [rows EXCEPT ![s] = z][t] = IF t = s THEN z ELSE rows[t]
    BY <1>1 DEF Store
  <2> QED BY <1>1, <2>1
<1>9. \/ \E q : ReconcileThen(w, s, purpose, [rows EXCEPT ![s] = x], q)
      \/ \E q : ReconcileThen(w, s, purpose, [rows EXCEPT ![s] = y], q)
      \/ row' = rows
  BY <1>2
<1> HIDE DEF x, y
<1>10. CASE \E q : ReconcileThen(w, s, purpose, [rows EXCEPT ![s] = x], q)
  <2>1. \A t \in Streams : [rows EXCEPT ![s] = x][t].status = row[t].status
    BY <1>6, <1>8
  <2> QED BY <1>10, <2>1, ReconcileKeepsStops
<1>11. CASE \E q : ReconcileThen(w, s, purpose, [rows EXCEPT ![s] = y], q)
  <2>1. \A t \in Streams : [rows EXCEPT ![s] = y][t].status = row[t].status
    BY <1>7, <1>8
  <2> QED BY <1>11, <2>1, ReconcileKeepsStops
<1>12. CASE row' = rows
  BY <1>1, <1>4, <1>12
<1> QED BY <1>9, <1>10, <1>11, <1>12

LEMMA StopsAreKept ==
  ASSUME OpInv, [LaneNext]_laneVars
  PROVE  \A t \in Streams : row[t].status = "stopped" => row'[t].status = "stopped"
<1>1. CASE UNCHANGED row
  BY <1>1
<1>2. CASE \E w \in Workers : SaveCreated(w)
  <2>1. PICK w \in Workers : SaveCreated(w)
    BY <1>2
  <2>2. op[w].phase = "create" /\ row' = op[w].store /\ op[w] \in Operation /\ InHand(op[w], row, chain)
    BY <2>1 DEF SaveCreated, OpInv, LaneTypeOK
  <2>3. op[w].s \in Streams
    BY <2>2, OperationFields
  <2>4. row[op[w].s].status = "none" /\ row' = [row EXCEPT ![op[w].s] = Fresh(op[w].s)]
    BY <2>2 DEF InHand
  <2>5. \A t \in Streams : t # op[w].s => row'[t] = row[t]
    BY <2>3, <2>4 DEF OpInv, LaneTypeOK, Store
  <2> QED BY <2>4, <2>5
<1>3. CASE \E w \in Workers : reconcileOutstandingOffers(w)
  BY <1>3, ReconcilingKeepsStops
<1>4. CASE \E w \in Workers : Save(w)
  <2>1. PICK w \in Workers : Save(w)
    BY <1>4
  <2> DEFINE s == op[w].s
             i == op[w].xfer
             a == chain[i].amount
  <2>2. op[w].phase = "save"
    BY <2>1 DEF Save
  <2>3. s \in Streams /\ op[w].store = row /\ row[s] \in Row /\ i \in DOMAIN chain
    BY <2>2, SavingFacts
  <2>4. i \in Nat \ {0} /\ i \in Int /\ a \in Nat \ {0}
    BY <2>3, ChainAt DEF OpInv, LaneTypeOK
  <2>5. \/ row' = [row EXCEPT ![s] = WithPending(row[s], i, a)]
        \/ row' = [row EXCEPT ![s] = Credited(row[s], i, a)]
    BY <2>1, <2>3 DEF Save
  <2> HIDE DEF s, i, a
  <2>6. WithPending(row[s], i, a) \in Row /\ WithPending(row[s], i, a).status = row[s].status
    BY <2>3, <2>4, WithPendingType
  <2>7. Credited(row[s], i, a) \in Row /\ Credited(row[s], i, a).status = row[s].status
    BY <2>3, <2>4, CreditedType
  <2> QED BY <2>3, <2>5, <2>6, <2>7, RowStatusKept
<1>5. CASE \E w \in Workers : \E s \in Streams : stopStream(w, s)
  <2>1. PICK w \in Workers, s \in Streams : stopStream(w, s)
    BY <1>5
  <2> DEFINE q == [row[s] EXCEPT !.status = "stopped", !.rate = 0]
  <2>2. q \in Row /\ q.status = "stopped"
    BY RowAt, StoppedType DEF OpInv
  <2>3. row' = [row EXCEPT ![s] = q]
    BY <2>1 DEF stopStream
  <2> HIDE DEF q
  <2> QED BY <2>2, <2>3, RowStatusKept
<1>6. CASE \E w \in Workers : \E s \in Streams : recoverPendingOffers(w, s)
  <2>1. PICK w \in Workers, s \in Streams : recoverPendingOffers(w, s)
    BY <1>6
  <2>2. PICK size \in Nat, first \in Nat \ {0} : \E offers \in [1 .. size -> DOMAIN chain] :
          RecoveredAs(s, size, first, offers)
    BY <2>1, RecoveredOffers
  <2>3. PICK offers \in [1 .. size -> DOMAIN chain] : RecoveredAs(s, size, first, offers)
    BY <2>2
  <2> DEFINE q == Adopted(chain, offers, size, first)
             r == [row[s] EXCEPT !.pending = row[s].pending \o q]
  <2>4. chain \in Seq(Transfer) /\ row[s] \in Row
    BY RowAt DEF OpInv, LaneTypeOK
  <2>5. q \in Seq(PendingTransfer)
    BY <2>4, RecoveredType
  <2>6. row' = [row EXCEPT ![s] = r]
    BY <2>3 DEF RecoveredAs
  <2> HIDE DEF q
  <2>7. r \in Row /\ r.status = row[s].status
    BY <2>4, <2>5, MoreOffers
  <2> HIDE DEF r
  <2> QED BY <2>6, <2>7, RowStatusKept
<1>7. CASE \E w \in Workers : \E s \in Streams :
             BeginSettle(w, s, "submit") \/ BeginSettle(w, s, "prepare")
  BY <1>7, ReconcileKeepsStops DEF BeginSettle
<1>8. CASE \E w \in Workers : \E s \in Streams : \E i \in DOMAIN chain : recordSettle(w, s, i)
  <2>1. PICK w \in Workers, s \in Streams, i \in DOMAIN chain : recordSettle(w, s, i)
    BY <1>8
  <2> DEFINE a == chain[i].amount
  <2>2. \/ row' = [row EXCEPT ![s] = WithPending(row[s], i, a)]
        \/ row' = [row EXCEPT ![s] = Credited(row[s], i, a)]
    BY <2>1 DEF recordSettle
  <2>3. row[s] \in Row /\ i \in Nat \ {0} /\ i \in Int /\ a \in Nat \ {0}
    BY RowAt, ChainAt DEF OpInv, LaneTypeOK
  <2> HIDE DEF a
  <2>4. WithPending(row[s], i, a) \in Row /\ WithPending(row[s], i, a).status = row[s].status
    BY <2>3, WithPendingType
  <2>5. Credited(row[s], i, a) \in Row /\ Credited(row[s], i, a).status = row[s].status
    BY <2>3, CreditedType
  <2> QED BY <2>2, <2>4, <2>5, RowStatusKept
<1>9. CASE \E w \in Workers : \E s \in Streams : \E k \in DOMAIN row[s].pending :
             recordAcceptTransfer(w, s, k) \/ recordWithdrawTransfer(w, s, k)
  <2>0. PICK w \in Workers, s \in Streams : \E k \in DOMAIN row[s].pending :
          recordAcceptTransfer(w, s, k) \/ recordWithdrawTransfer(w, s, k)
    BY <1>9
  <2>1. PICK k \in DOMAIN row[s].pending : recordAcceptTransfer(w, s, k) \/ recordWithdrawTransfer(w, s, k)
    BY <2>0
  <2> DEFINE u == -row[s].pending[k].offer
             x == creditAcceptedOffer(row[s], k, u)
             y == [row[s] EXCEPT !.pending[k].status = "withdrawn"]
  <2>2. row[s] \in Row
    BY RowAt DEF OpInv
  <2>3. u \in Int
    BY <2>2, PendingAt
  <2>4. row' = [row EXCEPT ![s] = x] \/ row' = [row EXCEPT ![s] = y]
    BY <2>1 DEF recordAcceptTransfer, recordWithdrawTransfer
  <2> HIDE DEF u
  <2>5. x \in Row /\ x.status = row[s].status
    BY <2>2, <2>3, AcceptedType
  <2>6. y \in Row /\ y.status = row[s].status
    BY <2>2, WithdrawnType
  <2> HIDE DEF x, y
  <2> QED BY <2>4, <2>5, <2>6, RowStatusKept
<1>10. CASE \E w \in Workers : \E s \in Streams : createStream(w, s)
  BY <1>10 DEF createStream
<1>11. CASE \E w \in Workers : GiveUp(w) \/ ProxyCrash(w) \/ settleCycle(w) \/ SyncContracts(w) \/ prepareSettle(w)
  BY <1>11 DEF GiveUp, ProxyCrash, settleCycle, SyncContracts, prepareSettle
<1>12. CASE \/ Tick /\ UNCHANGED <<contracts, chain, row, prepared, op>>
            \/ \E i \in DOMAIN chain : AcceptOffer(i) \/ ReturnOffer(i)
            \/ WalletTransfer
            \/ UNCHANGED laneVars
  BY <1>12 DEF AcceptOffer, ReturnOffer, WalletTransfer, laneVars
<1> QED
  BY <1>1, <1>2, <1>3, <1>4, <1>5, <1>6, <1>7, <1>8, <1>9, <1>10, <1>11, <1>12 DEF LaneNext

\* What a step adds to the chain: a wallet's transfer, or the settlement of a row
\* that is not stopped.
LEMMA StoppedPaysNothing ==
  ASSUME OpInv, [LaneNext]_laneVars, NEW s \in Streams, row[s].status = "stopped",
         NEW i \in DOMAIN chain' \ DOMAIN chain, chain'[i].stream = s
  PROVE  chain'[i].cmd = NoCommand
<1>1. CASE UNCHANGED chain
  BY <1>1
<1>2. CASE \E j \in DOMAIN chain : AcceptOffer(j) \/ ReturnOffer(j)
  BY <1>2, OfferStep
<1>3. CASE WalletTransfer
  BY <1>3, WalletStep
<1>4. CASE \E w \in Workers : settleCycle(w)
  <2>1. PICK w \in Workers : settleCycle(w)
    BY <1>4
  <2> DEFINE t == op[w].s
             cmd == commandId(t, row[t])
  <2>2. /\ t \in Streams /\ row[t] \in Row /\ row[t].status # "stopped"
        /\ \E amount \in Payable(t, row[t]) : Transferred(t, amount, cmd)
        /\ cmd \in Streams \X Nat \X Nat
    BY <2>1, SettledTransfer
  <2> HIDE DEF t, cmd
  <2>3. PICK amount \in Payable(t, row[t]) : Transferred(t, amount, cmd)
    BY <2>2
  <2>4. now \in Nat /\ LaneTypeOK
    BY MaxTimeAssumption DEF OpInv
  <2>5. amount \in Nat \ {0} /\ cmd \in {NoCommand} \cup (Streams \X Nat \X Nat)
    BY <2>2, <2>4, PayableIs
  <2>6. chain'[Len(chain) + 1].stream = t /\ DOMAIN chain' = DOMAIN chain \cup {Len(chain) + 1}
    BY <2>2, <2>3, <2>4, <2>5, TransferMade
  <2>7. i = Len(chain) + 1
    BY <2>6
  <2>8. s = t
    BY <2>6, <2>7
  <2> QED BY <2>2, <2>8
<1>5. CASE \E w \in Workers :
             \/ SaveCreated(w) \/ reconcileOutstandingOffers(w) \/ GiveUp(w) \/ Save(w)
             \/ SyncContracts(w) \/ prepareSettle(w) \/ ProxyCrash(w)
  BY <1>1, <1>5 DEF SaveCreated, reconcileOutstandingOffers, GiveUp, Save, SyncContracts, prepareSettle, ProxyCrash
<1>6. CASE \E w \in Workers : \E t \in Streams :
             \/ createStream(w, t) \/ stopStream(w, t) \/ recoverPendingOffers(w, t)
             \/ BeginSettle(w, t, "submit") \/ BeginSettle(w, t, "prepare")
             \/ \E j \in DOMAIN chain : recordSettle(w, t, j)
             \/ \E k \in DOMAIN row[t].pending :
                  recordAcceptTransfer(w, t, k) \/ recordWithdrawTransfer(w, t, k)
  <2>1. PICK w \in Workers, t \in Streams :
             \/ createStream(w, t) \/ stopStream(w, t) \/ recoverPendingOffers(w, t)
             \/ BeginSettle(w, t, "submit") \/ BeginSettle(w, t, "prepare")
             \/ \E j \in DOMAIN chain : recordSettle(w, t, j)
             \/ \E k \in DOMAIN row[t].pending :
                  recordAcceptTransfer(w, t, k) \/ recordWithdrawTransfer(w, t, k)
    BY <1>6
  <2>2. (createStream(w, t) \/ stopStream(w, t)) => UNCHANGED chain
    BY DEF createStream, stopStream
  <2>3. recoverPendingOffers(w, t) => UNCHANGED chain
    BY DEF recoverPendingOffers
  <2>4. \A p : BeginSettle(w, t, p) => UNCHANGED chain
    BY DEF BeginSettle
  <2>5. \A j : recordSettle(w, t, j) => UNCHANGED chain
    BY DEF recordSettle
  <2>6. \A k : recordAcceptTransfer(w, t, k) \/ recordWithdrawTransfer(w, t, k) => UNCHANGED chain
    BY DEF recordAcceptTransfer, recordWithdrawTransfer
  <2> QED BY <1>1, <2>1, <2>2, <2>3, <2>4, <2>5, <2>6
<1>7. CASE (Tick /\ UNCHANGED <<contracts, chain, row, prepared, op>>) \/ UNCHANGED laneVars
  BY <1>1, <1>7 DEF laneVars
<1> QED BY <1>2, <1>3, <1>4, <1>5, <1>6, <1>7 DEF LaneNext

\* A stop is final: whatever was in flight when a stream was stopped, no step takes
\* its row back from the stop and none pays for it with the payer's authority
\* (stopStream, and the guards of settleOnce, v1-lane.ts:2714 and 3093).
THEOREM LaneStopsAreFinal == LaneSpec => StopIsFinal
<1>1. LaneInit => OpInv
  BY LaneInitLock
<1>2. OpInv /\ [LaneNext]_laneVars => OpInv'
  BY LockStep
<1>3. OpInv /\ [LaneNext]_laneVars =>
        [\A s \in Streams : row[s].status = "stopped" =>
           /\ row[s].status' = "stopped"
           /\ \A i \in DOMAIN chain' \ DOMAIN chain :
                chain'[i].stream = s => chain'[i].cmd = NoCommand ]_laneVars
  BY StopsAreKept, StoppedPaysNothing
<1> QED BY <1>1, <1>2, <1>3, PTL DEF LaneSpec, StopIsFinal

----------------------------------------------------------------------------
(* Sums over lists of credits *)

AmountsOf(h) == Total([k \in DOMAIN h |-> h[k].amount])

LEMMA AmountsSummable ==
  ASSUME NEW S, \A x \in S : x.amount \in Nat, NEW h \in Seq(S)
  PROVE  /\ Len(h) \in Nat /\ DOMAIN h = 1 .. Len(h)
         /\ Summable([k \in DOMAIN h |-> h[k].amount]) /\ AmountsOf(h) \in Nat
<1> DEFINE n == Len(h)
           f == [k \in 1 .. n |-> h[k].amount]
<1>1. n \in Nat /\ DOMAIN h = 1 .. n /\ \A k \in 1 .. n : h[k] \in S
  BY LenProperties, ElementOfSeq
<1>2. \A k \in 1 .. n : h[k].amount \in Nat
  BY <1>1
<1> HIDE DEF n
<1>3. IsFiniteSet(1 .. n)
  BY <1>1, FS_Interval
<1>4. Summable(f)
  BY <1>2, <1>3 DEF Summable
<1>5. Total(f) \in Nat
  <2> HIDE DEF f
  <2> QED BY <1>4, UnitsFinite
<1> QED BY <1>1, <1>4, <1>5 DEF AmountsOf, n

LEMMA AmountsAppend ==
  ASSUME NEW S, \A x \in S : x.amount \in Nat, NEW h \in Seq(S), NEW e \in S
  PROVE  /\ Append(h, e) \in Seq(S) /\ Len(Append(h, e)) = Len(h) + 1
         /\ DOMAIN Append(h, e) = 1 .. (Len(h) + 1)
         /\ \A k \in 1 .. Len(h) : Append(h, e)[k] = h[k]
         /\ Append(h, e)[Len(h) + 1] = e
         /\ AmountsOf(Append(h, e)) = AmountsOf(h) + e.amount
<1> DEFINE n == Len(h)
           r == Append(h, e)
           f == [k \in 1 .. n |-> h[k].amount]
           g == [k \in 1 .. (n + 1) |-> r[k].amount]
<1>1. n \in Nat /\ DOMAIN h = 1 .. n
  BY LenProperties
<1>2. /\ r \in Seq(S) /\ Len(r) = n + 1
      /\ \A k \in 1 .. n : r[k] = h[k]
      /\ r[n + 1] = e
  BY AppendProperties
<1>3. DOMAIN r = 1 .. (n + 1)
  BY <1>2, LenProperties
<1> HIDE DEF r
<1>4. Summable(f)
  BY <1>1, AmountsSummable
<1>5. /\ n + 1 \notin DOMAIN f /\ DOMAIN g = DOMAIN f \cup {n + 1}
      /\ \A k \in DOMAIN f : g[k] = f[k]
      /\ g[n + 1] = e.amount /\ e.amount \in Nat
      /\ f = [k \in DOMAIN f |-> f[k]]
  BY <1>1, <1>2
<1>6. Total(g) = Total(f) + g[n + 1]
  <2> HIDE DEF f, g
  <2> QED BY <1>4, <1>5, TotalExtends
<1> QED
  BY <1>1, <1>2, <1>3, <1>5, <1>6 DEF r, AmountsOf

LEMMA AmountsTail ==
  ASSUME NEW S, \A x \in S : x.amount \in Nat, NEW h \in Seq(S), h # <<>>
  PROVE  Head(h).amount + AmountsOf(Tail(h)) <= AmountsOf(h)
<1> DEFINE n == Len(h)
           t == Tail(h)
           f == [k \in 1 .. n |-> h[k].amount]
           g == [k \in 1 .. (n - 1) |-> t[k].amount]
           p == Part(f, DOMAIN f \ {1})
           m == [k \in 1 .. (n - 1) |-> k + 1]
<1>1. n \in Nat /\ n > 0 /\ DOMAIN h = 1 .. n /\ \A k \in 1 .. n : h[k] \in S
  BY LenProperties, ElementOfSeq, EmptySeq
<1>2. t \in Seq(S) /\ Len(t) = n - 1 /\ \A k \in 1 .. (n - 1) : t[k] = h[k + 1]
  BY HeadTailProperties
<1>3. DOMAIN t = 1 .. (n - 1)
  BY <1>2, LenProperties
<1>4. Head(h) = h[1]
  BY <1>1
<1>5. Summable(f) /\ DOMAIN f = 1 .. n
  BY <1>1, AmountsSummable
<1>6. Summable(g) /\ DOMAIN g = 1 .. (n - 1)
  BY <1>2, <1>3, AmountsSummable
<1>7. 1 \in DOMAIN f /\ f[1] = h[1].amount
  BY <1>1
<1>8. \A k \in 1 .. (n - 1) : g[k] = f[k + 1]
  BY <1>1, <1>2
<1> HIDE DEF f, g, t
<1>9. Total(f) = Total(p) + f[1] /\ Total(p) \in Nat
  BY <1>5, <1>7, TotalWithout
<1>10. Summable(p) /\ DOMAIN p = DOMAIN f \ {1} /\ \A k \in DOMAIN p : p[k] = f[k]
  BY <1>5, PartFacts DEF Part
<1>11. m \in [DOMAIN g -> DOMAIN p] /\ \A k \in DOMAIN g : m[k] = k + 1
  BY <1>1, <1>5, <1>6, <1>10
<1>12. /\ \A k, l \in DOMAIN g : m[k] = m[l] => k = l
       /\ \A k \in DOMAIN g : g[k] <= p[m[k]]
  <2>1. ASSUME NEW k \in DOMAIN g PROVE g[k] <= p[m[k]]
    <3>1. g[k] = p[m[k]]
      BY <1>6, <1>8, <1>10, <1>11
    <3>2. g[k] \in Nat
      BY <1>6 DEF Summable
    <3> QED BY <3>1, <3>2
  <2>2. \A k \in DOMAIN g : k \in Int
    BY <1>6
  <2>3. \A k, l \in DOMAIN g : m[k] = m[l] => k = l
    <3> HIDE DEF m
    <3> QED BY <1>11, <2>2
  <2> QED BY <2>1, <2>3
<1> HIDE DEF m, p
<1>13. Total(g) <= Total(p)
  BY <1>6, <1>10, <1>11, <1>12, TotalInjects
<1>14. Total(g) \in Nat /\ f[1] \in Nat
  BY <1>5, <1>6, <1>7, UnitsFinite DEF Summable
<1>15. AmountsOf(h) = Total(f) /\ AmountsOf(t) = Total(g)
  BY <1>1, <1>3 DEF AmountsOf, f, g
<1> QED BY <1>4, <1>7, <1>9, <1>13, <1>14, <1>15 DEF t

LEMMA AmountsOfOne ==
  ASSUME NEW S, \A x \in S : x.amount \in Nat, NEW e \in S
  PROVE  AmountsOf(<<e>>) = e.amount /\ AmountsOf(<<>>) = 0
<1>1. AmountsOf(<<>>) = 0
  BY TotalOfNothing DEF AmountsOf
<1>2. <<>> \in Seq(S) /\ Append(<<>>, e) = <<e>>
  OBVIOUS
<1> DEFINE z == <<>>
<1>3. AmountsOf(Append(z, e)) = AmountsOf(z) + e.amount
  <2>1. z \in Seq(S)
    BY <1>2
  <2> HIDE DEF z
  <2> QED BY <2>1, AmountsAppend
<1>4. e.amount \in Nat
  OBVIOUS
<1> QED BY <1>1, <1>2, <1>3, <1>4

----------------------------------------------------------------------------
(* What a row of stream s may hold while the chain is c *)

Delivered(c, i) == c[i].fate \in {"delivered", "accepted"}
LandsAs(c, i, u) ==
  \/ c[i].land = "direct" /\ u = i
  \/ c[i].land = "offer" /\ u = -i
\* The k-th credit is a delivery, of an offer only if the row remembers it accepted.
Entry(c, s, r, k) ==
  \E i \in DOMAIN c :
    /\ c[i].stream = s /\ Delivered(c, i) /\ c[i].amount = r.history[k].amount
    /\ LandsAs(c, i, r.history[k].update)
    /\ c[i].land = "offer" =>
         \E l \in DOMAIN r.pending : r.pending[l].offer = i /\ r.pending[l].status = "accepted"
\* The k-th offer it remembers is one, and its acceptance was not made up.
Remembered(c, s, r, k) ==
  LET i == r.pending[k].offer
  IN  /\ i \in DOMAIN c /\ c[i].stream = s
      /\ c[i].land = "offer" /\ c[i].amount = r.pending[k].amount
      /\ r.pending[k].status = "accepted" => InHistory(r, -i)
OffersDistinct(r) == \A k, l \in DOMAIN r.pending : r.pending[k].offer = r.pending[l].offer => k = l
UpdatesDistinct(h) == \A k, l \in DOMAIN h : h[k].update = h[l].update => k = l
Backed(c, s, r) ==
  /\ r.status = "none" => r = NoRow
  /\ r.status = "active" => r.rate = RatePerPeriod[s]
  /\ OffersDistinct(r) /\ \A k \in DOMAIN r.pending : Remembered(c, s, r, k)
  /\ UpdatesDistinct(r.history) /\ \A k \in DOMAIN r.history : Entry(c, s, r, k)
  /\ r.settled = AmountsOf(r.history)

\* Only a direct transfer is delivered at once.
Landed(c) == \A i \in DOMAIN c : c[i].fate = "delivered" <=> c[i].land = "direct"

LEMMA BackedOnward ==
  ASSUME NEW c, NEW d, Onward(c, d), NEW s, NEW r, Backed(c, s, r)
  PROVE  Backed(d, s, r)
<1>1. \A i \in DOMAIN c : /\ i \in DOMAIN d /\ d[i].stream = c[i].stream /\ d[i].amount = c[i].amount
                          /\ d[i].land = c[i].land /\ (c[i].fate # "open" => d[i].fate = c[i].fate)
  BY DEF Onward
<1>2. ASSUME NEW k \in DOMAIN r.pending PROVE Remembered(d, s, r, k)
  <2>1. Remembered(c, s, r, k)
    BY DEF Backed
  <2> QED BY <1>1, <2>1 DEF Remembered
<1>3. ASSUME NEW k \in DOMAIN r.history PROVE Entry(d, s, r, k)
  <2>1. Entry(c, s, r, k)
    BY DEF Backed
  <2> QED BY <1>1, <2>1 DEF Entry, Delivered, LandsAs
<1> QED BY <1>2, <1>3 DEF Backed

\* As many credits as the chain has transfers, at most.
LEMMA CreditsInject ==
  ASSUME NEW c \in Seq(Transfer), NEW h \in Seq(Cycle), UpdatesDistinct(h),
         \A k \in DOMAIN h : \E i \in DOMAIN c : LandsAs(c, i, h[k].update)
  PROVE  Len(h) <= Len(c)
<1> DEFINE n == Len(h)
           m == Len(c)
           at == [k \in 1 .. n |-> CHOOSE i \in 1 .. m : LandsAs(c, i, h[k].update)]
<1>1. n \in Nat /\ m \in Nat /\ DOMAIN h = 1 .. n /\ DOMAIN c = 1 .. m
  BY LenProperties
<1> HIDE DEF n, m
<1>2. ASSUME NEW k \in 1 .. n PROVE at[k] \in 1 .. m /\ LandsAs(c, at[k], h[k].update)
  <2>1. \E i \in 1 .. m : LandsAs(c, i, h[k].update)
    BY <1>1
  <2> QED BY <2>1
<1>3. at \in [1 .. n -> 1 .. m]
  BY <1>2
<1> HIDE DEF at
<1>4. \A k, l \in 1 .. n : at[k] = at[l] => k = l
  <2> SUFFICES ASSUME NEW k \in 1 .. n, NEW l \in 1 .. n, at[k] = at[l] PROVE k = l
    OBVIOUS
  <2>1. LandsAs(c, at[k], h[k].update) /\ LandsAs(c, at[k], h[l].update)
    BY <1>2
  <2>2. h[k].update = h[l].update
    BY <2>1 DEF LandsAs
  <2> QED BY <1>1, <2>2 DEF UpdatesDistinct
<1>5. at \in Injection(1 .. n, 1 .. m)
  BY <1>3, <1>4 DEF Injection, IsInjective
<1>6. /\ IsFiniteSet(1 .. n) /\ IsFiniteSet(1 .. m)
      /\ Cardinality(1 .. n) = n /\ Cardinality(1 .. m) = m
  BY <1>1, FS_Interval
<1>7. Cardinality(1 .. n) <= Cardinality(1 .. m)
  BY <1>5, <1>6, FS_Injection
<1> QED BY <1>6, <1>7 DEF n, m

\* A list of credits that takes one more.
GrownBy(h, g, u, a) ==
  /\ g \in Seq(Cycle) /\ UpdatesDistinct(g) /\ AmountsOf(g) = AmountsOf(h) + a
  /\ DOMAIN h \subseteq DOMAIN g /\ \A k \in DOMAIN h : g[k] = h[k]
  /\ \E n \in DOMAIN g : DOMAIN g = DOMAIN h \cup {n} /\ n \notin DOMAIN h
                         /\ g[n].update = u /\ g[n].amount = a

LEMMA HistoryGrows ==
  ASSUME NEW c \in Seq(Transfer), Len(c) <= HistoryMax, NEW h \in Seq(Cycle), UpdatesDistinct(h),
         \A k \in DOMAIN h : \E i \in DOMAIN c : LandsAs(c, i, h[k].update),
         NEW u \in Int, NEW a \in Nat \ {0}, \E i \in DOMAIN c : LandsAs(c, i, u),
         \A k \in DOMAIN h : h[k].update # u
  PROVE  GrownBy(h, Pushed(h, u, a), u, a)
<1> DEFINE e == [update |-> u, amount |-> a]
           g == Append(h, e)
           n == Len(h) + 1
<1>1. e \in Cycle /\ e.update = u /\ e.amount = a
  BY DEF Cycle
<1>2. \A x \in Cycle : x.amount \in Nat
  BY DEF Cycle
<1>3. Len(h) \in Nat /\ DOMAIN h = 1 .. Len(h)
  BY LenProperties
<1> HIDE DEF e
<1>4. /\ g \in Seq(Cycle) /\ Len(g) = n /\ DOMAIN g = 1 .. n
      /\ \A k \in 1 .. Len(h) : g[k] = h[k]
      /\ g[n] = e /\ AmountsOf(g) = AmountsOf(h) + e.amount
  <2>1. e \in Cycle /\ h \in Seq(Cycle)
    BY <1>1
  <2> QED BY <1>2, <2>1, AmountsAppend
<1>5. Pushed(h, u, a) = IF Len(g) > HistoryMax THEN SubSeq(g, Len(g) - HistoryMax + 1, Len(g)) ELSE g
  BY DEF Pushed, g, e
<1> HIDE DEF g
<1>6. n \in Nat /\ n \notin DOMAIN h /\ DOMAIN g = DOMAIN h \cup {n} /\ \A k \in DOMAIN h : g[k] = h[k]
  BY <1>3, <1>4
<1> HIDE DEF n
<1>7. UpdatesDistinct(g)
  BY <1>1, <1>4, <1>6 DEF UpdatesDistinct
<1>8. \A k \in DOMAIN g : \E i \in DOMAIN c : LandsAs(c, i, g[k].update)
  BY <1>1, <1>4, <1>6
<1>9. Len(g) <= Len(c)
  BY <1>4, <1>7, <1>8, CreditsInject
<1>10. Len(c) \in Nat /\ HistoryMax \in Nat
  BY LaneAssumption, LenProperties
<1>11. Pushed(h, u, a) = g
  BY <1>4, <1>5, <1>6, <1>9, <1>10
<1> QED BY <1>1, <1>4, <1>6, <1>7, <1>11 DEF GrownBy

----------------------------------------------------------------------------
LEMMA EntryAt ==
  ASSUME NEW c \in Seq(Transfer), NEW s, NEW r \in Row, Backed(c, s, r)
  PROVE  /\ r.history \in Seq(Cycle) /\ r.pending \in Seq(PendingTransfer)
         /\ r.settled \in Nat /\ r.cycles \in Nat /\ UpdatesDistinct(r.history)
         /\ \A k \in DOMAIN r.history : \E i \in DOMAIN c : LandsAs(c, i, r.history[k].update)
<1>1. \A k \in DOMAIN r.history : Entry(c, s, r, k)
  BY DEF Backed
<1>2. UpdatesDistinct(r.history)
  BY DEF Backed
<1>3. \A k \in DOMAIN r.history : \E i \in DOMAIN c : LandsAs(c, i, r.history[k].update)
  BY <1>1 DEF Entry
<1> QED BY <1>2, <1>3 DEF Row

\* The row after a credit, whether its offer was remembered or it was paid directly.
LEMMA CreditBacks ==
  ASSUME NEW c, NEW s, NEW r, Backed(c, s, r), r.status # "none",
         NEW q, q.status = r.status, q.rate = r.rate,
         NEW i \in DOMAIN c, c[i].stream = s, Delivered(c, i), NEW u, LandsAs(c, i, u),
         GrownBy(r.history, q.history, u, c[i].amount), q.settled = r.settled + c[i].amount,
         DOMAIN q.pending = DOMAIN r.pending, OffersDistinct(q),
         \A k \in DOMAIN r.pending :
           /\ q.pending[k].offer = r.pending[k].offer /\ q.pending[k].amount = r.pending[k].amount
           /\ \/ q.pending[k].status = r.pending[k].status
              \/ q.pending[k].status = "accepted" /\ u = -q.pending[k].offer /\ r.pending[k].status # "accepted",
         c[i].land = "offer" =>
           \E l \in DOMAIN q.pending : q.pending[l].offer = i /\ q.pending[l].status = "accepted"
  PROVE  /\ Backed(c, s, q)
         /\ \A v : InHistory(q, v) <=> InHistory(r, v) \/ v = u
<1> DEFINE h == r.history
           g == q.history
<1>1. PICK n \in DOMAIN g : /\ DOMAIN g = DOMAIN h \cup {n} /\ n \notin DOMAIN h
                            /\ g[n].update = u /\ g[n].amount = c[i].amount
  BY DEF GrownBy
<1>2. \A k \in DOMAIN h : g[k] = h[k]
  BY DEF GrownBy
<1>3. ASSUME NEW v PROVE InHistory(q, v) <=> InHistory(r, v) \/ v = u
  BY <1>1, <1>2 DEF InHistory
<1>4. ASSUME NEW k \in DOMAIN q.pending PROVE Remembered(c, s, q, k)
  <2>1. Remembered(c, s, r, k)
    BY DEF Backed
  <2> QED BY <1>3, <2>1 DEF Remembered
<1>5. ASSUME NEW k \in DOMAIN g PROVE Entry(c, s, q, k)
  <2>1. CASE k = n
    BY <1>1, <2>1 DEF Entry
  <2>2. CASE k # n
    <3>1. k \in DOMAIN h /\ g[k] = h[k] /\ Entry(c, s, r, k)
      BY <1>1, <1>2, <2>2 DEF Backed
    <3>2. PICK j \in DOMAIN c :
            /\ c[j].stream = s /\ Delivered(c, j) /\ c[j].amount = r.history[k].amount
            /\ LandsAs(c, j, r.history[k].update)
            /\ c[j].land = "offer" =>
                 \E l \in DOMAIN r.pending : r.pending[l].offer = j /\ r.pending[l].status = "accepted"
      BY <3>1 DEF Entry
    <3>3. c[j].land = "offer" =>
            \E l \in DOMAIN q.pending : q.pending[l].offer = j /\ q.pending[l].status = "accepted"
      BY <3>2
    <3> QED BY <3>1, <3>2, <3>3 DEF Entry
  <2> QED BY <2>1, <2>2
<1>6. UpdatesDistinct(g) /\ q.settled = AmountsOf(g)
  BY DEF GrownBy, Backed
<1> QED BY <1>3, <1>4, <1>5, <1>6 DEF Backed

LEMMA CreditedBacked ==
  ASSUME NEW c \in Seq(Transfer), Len(c) <= HistoryMax, NEW s, NEW r \in Row, Backed(c, s, r),
         r.status # "none", NEW i \in DOMAIN c, c[i].stream = s, c[i].land = "direct",
         Delivered(c, i), ~InHistory(r, i)
  PROVE  LET q == Credited(r, i, c[i].amount)
         IN  /\ Backed(c, s, q) /\ q.settled = r.settled + c[i].amount /\ q.cycles = r.cycles + 1
             /\ q.pending = r.pending /\ q.status = r.status
             /\ \A v : InHistory(q, v) <=> InHistory(r, v) \/ v = i
<1> DEFINE a == c[i].amount
           q == Credited(r, i, a)
<1>1. i \in Nat \ {0} /\ i \in Int /\ a \in Nat \ {0}
  BY ChainAt
<1>2. LandsAs(c, i, i)
  BY DEF LandsAs
<1>3. \A k \in DOMAIN r.history : r.history[k].update # i
  BY DEF InHistory
<1>4. GrownBy(r.history, Pushed(r.history, i, a), i, a)
  BY <1>1, <1>2, <1>3, EntryAt, HistoryGrows
<1>5. /\ q.status = r.status /\ q.rate = r.rate /\ q.settled = r.settled + a /\ q.cycles = r.cycles + 1
      /\ q.history = Pushed(r.history, i, a) /\ q.pending = r.pending
  BY CreditedIs
<1> HIDE DEF q
<1>6. OffersDistinct(q)
  BY <1>5 DEF OffersDistinct, Backed
<1>7. Backed(c, s, q) /\ \A v : InHistory(q, v) <=> InHistory(r, v) \/ v = i
  BY <1>2, <1>4, <1>5, <1>6, CreditBacks
<1> QED BY <1>5, <1>7 DEF q

LEMMA AcceptedBacked ==
  ASSUME NEW c \in Seq(Transfer), Len(c) <= HistoryMax, NEW s, NEW r \in Row, Backed(c, s, r),
         r.status # "none", NEW k \in DOMAIN r.pending, r.pending[k].status # "accepted",
         c[r.pending[k].offer].fate = "accepted"
  PROVE  LET u == -r.pending[k].offer
             q == creditAcceptedOffer(r, k, u)
         IN  /\ Backed(c, s, q) /\ q.settled = r.settled + r.pending[k].amount
             /\ q.cycles = MaxOf(r.cycles, r.pending[k].cycle) /\ q.status = r.status
             /\ q.pending = [r.pending EXCEPT ![k].status = "accepted"]
             /\ \A v : InHistory(q, v) <=> InHistory(r, v) \/ v = u
<1> DEFINE i == r.pending[k].offer
           u == -i
           a == r.pending[k].amount
           q == creditAcceptedOffer(r, k, u)
           p == [r.pending EXCEPT ![k].status = "accepted"]
<1>1. Remembered(c, s, r, k)
  BY DEF Backed
<1>2. i \in DOMAIN c /\ c[i].stream = s /\ c[i].land = "offer" /\ c[i].amount = a
  BY <1>1 DEF Remembered
<1>3. i \in Nat \ {0} /\ u \in Int /\ a \in Nat \ {0}
  BY PendingAt
<1>4. LandsAs(c, i, u) /\ Delivered(c, i)
  BY <1>2 DEF LandsAs, Delivered
<1>5. ASSUME NEW j \in DOMAIN r.history, r.history[j].update = u PROVE FALSE
  <2>1. PICK m \in DOMAIN c :
          /\ LandsAs(c, m, u)
          /\ c[m].land = "offer" =>
               \E l \in DOMAIN r.pending : r.pending[l].offer = m /\ r.pending[l].status = "accepted"
    BY <1>5 DEF Backed, Entry
  <2>2. m \in Nat \ {0}
    BY ChainAt
  <2>3. m = i /\ c[m].land = "offer"
    BY <1>3, <2>1, <2>2 DEF LandsAs
  <2>4. PICK l \in DOMAIN r.pending : r.pending[l].offer = i /\ r.pending[l].status = "accepted"
    BY <2>1, <2>3
  <2>5. l = k
    BY <2>4 DEF Backed, OffersDistinct
  <2> QED BY <2>4, <2>5
<1>6. GrownBy(r.history, Pushed(r.history, u, a), u, a)
  BY <1>2, <1>3, <1>4, <1>5, EntryAt, HistoryGrows
<1>7. /\ q.status = r.status /\ q.rate = r.rate /\ q.settled = r.settled + a
      /\ q.cycles = MaxOf(r.cycles, r.pending[k].cycle)
      /\ q.history = Pushed(r.history, u, a) /\ q.pending = p
  BY AcceptedIs
<1>8. /\ DOMAIN p = DOMAIN r.pending
      /\ \A l \in DOMAIN r.pending :
           /\ p[l].offer = r.pending[l].offer /\ p[l].amount = r.pending[l].amount
           /\ p[l].status = IF l = k THEN "accepted" ELSE r.pending[l].status
  <2>1. r.pending \in Seq(PendingTransfer)
    BY DEF Row
  <2> QED BY <2>1, MarkedPending
<1> HIDE DEF q, p
<1>9. OffersDistinct(q)
  BY <1>7, <1>8 DEF OffersDistinct, Backed
<1>10. q.pending[k].offer = i /\ q.pending[k].status = "accepted" /\ k \in DOMAIN q.pending
  BY <1>7, <1>8
<1>11. \A l \in DOMAIN r.pending :
           /\ q.pending[l].offer = r.pending[l].offer /\ q.pending[l].amount = r.pending[l].amount
           /\ \/ q.pending[l].status = r.pending[l].status
              \/ q.pending[l].status = "accepted" /\ u = -q.pending[l].offer /\ r.pending[l].status # "accepted"
  BY <1>7, <1>8
<1>12. DOMAIN q.pending = DOMAIN r.pending
  BY <1>7, <1>8
<1> HIDE DEF u, i, a
<1>13. Backed(c, s, q) /\ \A v : InHistory(q, v) <=> InHistory(r, v) \/ v = u
  BY <1>2, <1>4, <1>6, <1>7, <1>9, <1>10, <1>11, <1>12, CreditBacks
<1> QED BY <1>7, <1>13 DEF q, u, i, a, p

\* A row whose list of offers changes and nothing else.
LEMMA OfferListBacks ==
  ASSUME NEW c, NEW s, NEW r, Backed(c, s, r), NEW q, q.status # "none" \/ q = NoRow,
         q.status = "active" => q.rate = RatePerPeriod[s],
         q.history = r.history, q.settled = r.settled, OffersDistinct(q),
         \A k \in DOMAIN q.pending : Remembered(c, s, q, k),
         \A k \in DOMAIN r.pending : r.pending[k].status = "accepted" =>
           \E l \in DOMAIN q.pending :
             q.pending[l].offer = r.pending[k].offer /\ q.pending[l].status = "accepted"
  PROVE  Backed(c, s, q) /\ \A v : InHistory(q, v) <=> InHistory(r, v)
<1>1. \A v : InHistory(q, v) <=> InHistory(r, v)
  BY DEF InHistory
<1>2. ASSUME NEW k \in DOMAIN q.history PROVE Entry(c, s, q, k)
  <2>1. Entry(c, s, r, k)
    BY DEF Backed
  <2>2. PICK j \in DOMAIN c :
          /\ c[j].stream = s /\ Delivered(c, j) /\ c[j].amount = q.history[k].amount
          /\ LandsAs(c, j, q.history[k].update)
          /\ c[j].land = "offer" =>
               \E l \in DOMAIN r.pending : r.pending[l].offer = j /\ r.pending[l].status = "accepted"
    BY <2>1 DEF Entry
  <2>3. c[j].land = "offer" =>
          \E l \in DOMAIN q.pending : q.pending[l].offer = j /\ q.pending[l].status = "accepted"
    BY <2>2
  <2> QED BY <2>2, <2>3 DEF Entry
<1>3. UpdatesDistinct(q.history) /\ q.settled = AmountsOf(q.history)
  BY DEF Backed
<1> QED BY <1>1, <1>2, <1>3 DEF Backed

LEMMA WithdrawnBacked ==
  ASSUME NEW c, NEW s, NEW r \in Row, Backed(c, s, r), r.status # "none",
         NEW k \in DOMAIN r.pending, r.pending[k].status # "accepted"
  PROVE  LET q == [r EXCEPT !.pending[k].status = "withdrawn"]
         IN  /\ Backed(c, s, q) /\ q.settled = r.settled /\ q.cycles = r.cycles /\ q.status = r.status
             /\ q.pending = [r.pending EXCEPT ![k].status = "withdrawn"]
             /\ \A v : InHistory(q, v) <=> InHistory(r, v)
<1> DEFINE q == [r EXCEPT !.pending[k].status = "withdrawn"]
           p == [r.pending EXCEPT ![k].status = "withdrawn"]
<1>1. /\ q.status = r.status /\ q.rate = r.rate /\ q.settled = r.settled
      /\ q.cycles = r.cycles /\ q.history = r.history /\ q.pending = p
  BY WithdrawnType
<1>2. /\ DOMAIN p = DOMAIN r.pending
      /\ \A l \in DOMAIN r.pending :
           /\ p[l].offer = r.pending[l].offer /\ p[l].amount = r.pending[l].amount
           /\ p[l].status = IF l = k THEN "withdrawn" ELSE r.pending[l].status
  <2>1. r.pending \in Seq(PendingTransfer)
    BY DEF Row
  <2> QED BY <2>1, MarkedPending
<1> HIDE DEF q, p
<1>3. OffersDistinct(q)
  BY <1>1, <1>2 DEF OffersDistinct, Backed
<1>4. \A v : InHistory(q, v) <=> InHistory(r, v)
  BY <1>1 DEF InHistory
<1>5. ASSUME NEW l \in DOMAIN q.pending PROVE Remembered(c, s, q, l)
  <2>1. Remembered(c, s, r, l)
    BY <1>1, <1>2 DEF Backed
  <2> QED BY <1>1, <1>2, <1>4, <2>1 DEF Remembered
<1>6. \A l \in DOMAIN r.pending : r.pending[l].status = "accepted" =>
           \E m \in DOMAIN q.pending :
             q.pending[m].offer = r.pending[l].offer /\ q.pending[m].status = "accepted"
  BY <1>1, <1>2
<1>7. q.status # "none" /\ (q.status = "active" => q.rate = RatePerPeriod[s])
  BY <1>1 DEF Backed
<1>8. Backed(c, s, q)
  BY <1>1, <1>3, <1>5, <1>6, <1>7, OfferListBacks
<1> QED BY <1>1, <1>4, <1>8 DEF q, p

\* Offers of the chain the row does not know, each once.
NewOffers(c, s, r, q) ==
  /\ q \in Seq(PendingTransfer)
  /\ \A n \in 1 .. Len(q) :
       /\ q[n].offer \in DOMAIN c /\ c[q[n].offer].stream = s /\ c[q[n].offer].land = "offer"
       /\ c[q[n].offer].amount = q[n].amount /\ q[n].status = "pending"
       /\ \A k \in DOMAIN r.pending : r.pending[k].offer # q[n].offer
  /\ \A m, n \in 1 .. Len(q) : q[m].offer = q[n].offer => m = n
\* The row with these offers at the end of its list.
Adds(r, q, p, t) ==
  /\ p \in Seq(PendingTransfer) /\ Len(p) = Len(r.pending) + Len(q)
  /\ \A k \in 1 .. Len(r.pending) : p[k] = r.pending[k]
  /\ \A n \in 1 .. Len(q) : p[Len(r.pending) + n] = q[n]
  /\ t.status = r.status /\ t.rate = r.rate /\ t.settled = r.settled
  /\ t.cycles = r.cycles /\ t.history = r.history /\ t.pending = p

LEMMA MoreOffersAdds ==
  ASSUME NEW r \in Row, NEW q \in Seq(PendingTransfer)
  PROVE  Adds(r, q, r.pending \o q, [r EXCEPT !.pending = r.pending \o q])
BY MoreOffers DEF Adds

\* A row that remembers more offers, none of them twice.
LEMMA MoreOffersBacked ==
  ASSUME NEW c, NEW s, NEW r \in Row, Backed(c, s, r), r.status # "none",
         NEW q, NewOffers(c, s, r, q), NEW p, NEW t, Adds(r, q, p, t)
  PROVE  /\ Backed(c, s, t) /\ DOMAIN p = 1 .. (Len(r.pending) + Len(q))
         /\ DOMAIN r.pending = 1 .. Len(r.pending) /\ Len(r.pending) \in Nat /\ Len(q) \in Nat
         /\ \A k \in DOMAIN r.pending : k \in DOMAIN p /\ p[k] = r.pending[k]
         /\ \A v : InHistory(t, v) <=> InHistory(r, v)
<1> DEFINE a == r.pending
<1>1. a \in Seq(PendingTransfer)
  BY DEF Row
<1>2. DOMAIN a = 1 .. Len(a) /\ Len(a) \in Nat /\ Len(q) \in Nat /\ p \in Seq(PendingTransfer)
      /\ Len(p) = Len(a) + Len(q)
  BY <1>1, LenProperties DEF NewOffers, Adds
<1>3. /\ \A k \in 1 .. Len(a) : p[k] = a[k]
      /\ \A n \in 1 .. Len(q) : p[Len(a) + n] = q[n]
      /\ t.history = r.history /\ t.pending = p /\ t.status = r.status /\ t.rate = r.rate
      /\ t.settled = r.settled
  BY DEF Adds
<1>13. \A n \in 1 .. Len(q) :
           /\ q[n].offer \in DOMAIN c /\ c[q[n].offer].stream = s /\ c[q[n].offer].land = "offer"
           /\ c[q[n].offer].amount = q[n].amount /\ q[n].status = "pending"
           /\ \A k \in DOMAIN r.pending : r.pending[k].offer # q[n].offer
  BY DEF NewOffers
<1>14. \A m, n \in 1 .. Len(q) : q[m].offer = q[n].offer => m = n
  BY DEF NewOffers
<1>4. DOMAIN p = 1 .. (Len(a) + Len(q))
  BY <1>2, LenProperties
<1>5. \A v : InHistory(t, v) <=> InHistory(r, v)
  BY <1>3 DEF InHistory
<1>6. ASSUME NEW k \in DOMAIN p
      PROVE  \/ k \in DOMAIN a /\ p[k] = a[k]
             \/ \E n \in 1 .. Len(q) : k = Len(a) + n /\ p[k] = q[n]
  <2>1. CASE k <= Len(a)
    BY <1>2, <1>3, <1>4, <2>1
  <2>2. CASE ~(k <= Len(a))
    <3> DEFINE n == k - Len(a)
    <3>1. n \in 1 .. Len(q) /\ k = Len(a) + n
      BY <1>2, <1>4, <2>2
    <3> HIDE DEF n
    <3>2. p[Len(a) + n] = q[n]
      BY <1>3, <3>1
    <3> QED BY <3>1, <3>2
  <2> QED BY <2>1, <2>2
<1>7. OffersDistinct(t)
  <2> SUFFICES ASSUME NEW k \in DOMAIN p, NEW l \in DOMAIN p, p[k].offer = p[l].offer PROVE k = l
    BY <1>3 DEF OffersDistinct
  <2>1. \A x, y \in DOMAIN a : a[x].offer = a[y].offer => x = y
    BY DEF Backed, OffersDistinct
  <2>2. CASE k \in DOMAIN a /\ p[k] = a[k] /\ l \in DOMAIN a /\ p[l] = a[l]
    BY <2>1, <2>2
  <2>3. ASSUME NEW x \in DOMAIN a, NEW n \in 1 .. Len(q) PROVE a[x].offer # q[n].offer
    BY <1>13
  <2>4. CASE /\ \E n \in 1 .. Len(q) : k = Len(a) + n /\ p[k] = q[n]
             /\ \E n \in 1 .. Len(q) : l = Len(a) + n /\ p[l] = q[n]
    <3>1. PICK m \in 1 .. Len(q) : k = Len(a) + m /\ p[k] = q[m]
      BY <2>4
    <3>2. PICK n \in 1 .. Len(q) : l = Len(a) + n /\ p[l] = q[n]
      BY <2>4
    <3>3. q[m].offer = q[n].offer
      BY <3>1, <3>2
    <3>4. m = n
      BY <1>14, <3>3
    <3> QED BY <3>1, <3>2, <3>4
  <2> QED BY <1>6, <2>2, <2>3, <2>4
<1>8. ASSUME NEW k \in DOMAIN t.pending PROVE Remembered(c, s, t, k)
  <2>1. CASE k \in DOMAIN a /\ p[k] = a[k]
    <3>1. Remembered(c, s, r, k)
      BY <2>1 DEF Backed
    <3> QED BY <1>3, <1>5, <2>1, <3>1 DEF Remembered
  <2>2. CASE \E n \in 1 .. Len(q) : k = Len(a) + n /\ p[k] = q[n]
    BY <1>3, <1>13, <2>2 DEF Remembered
  <2> QED BY <1>3, <1>6, <2>1, <2>2
<1>9. \A l \in DOMAIN a : l \in DOMAIN p /\ p[l] = a[l]
  BY <1>2, <1>3, <1>4
<1>10. t.status # "none" /\ (t.status = "active" => t.rate = RatePerPeriod[s])
  BY <1>3 DEF Backed
<1>11. \A l \in DOMAIN r.pending : r.pending[l].status = "accepted" =>
           \E m \in DOMAIN t.pending :
             t.pending[m].offer = r.pending[l].offer /\ t.pending[m].status = "accepted"
  BY <1>3, <1>9
<1>12. Backed(c, s, t)
  BY <1>3, <1>7, <1>8, <1>10, <1>11, OfferListBacks
<1> QED BY <1>2, <1>4, <1>5, <1>9, <1>12

LEMMA WithPendingBacked ==
  ASSUME NEW c \in Seq(Transfer), NEW s, NEW r \in Row, Backed(c, s, r), r.status # "none",
         NEW i \in DOMAIN c, c[i].stream = s, c[i].land = "offer"
  PROVE  LET q == WithPending(r, i, c[i].amount)
         IN  /\ Backed(c, s, q) /\ q.settled = r.settled /\ q.cycles = r.cycles /\ q.status = r.status
             /\ \A v : InHistory(q, v) <=> InHistory(r, v)
             /\ \A k \in DOMAIN r.pending : k \in DOMAIN q.pending /\ q.pending[k] = r.pending[k]
             /\ \E k \in DOMAIN q.pending : q.pending[k].offer = i
             /\ \A k \in DOMAIN q.pending : k \notin DOMAIN r.pending =>
                  q.pending[k].offer = i /\ q.pending[k].cycle = r.cycles + 1
             /\ q = r \/ \A k \in DOMAIN r.pending : r.pending[k].offer # i
<1> DEFINE a == c[i].amount
           e == PendingRecord(i, a, r.cycles + 1)
           q == WithPending(r, i, a)
<1>1. CASE \E k \in DOMAIN r.pending : r.pending[k].offer = i
  BY <1>1 DEF WithPending
<1>2. CASE ~\E k \in DOMAIN r.pending : r.pending[k].offer = i
  <2>1. i \in Nat \ {0} /\ a \in Nat \ {0} /\ r.cycles \in Nat /\ r.pending \in Seq(PendingTransfer)
    BY ChainAt DEF Row
  <2>2. /\ e \in PendingTransfer /\ e.offer = i /\ e.amount = a /\ e.status = "pending"
        /\ e.cycle = r.cycles + 1
    BY <2>1 DEF PendingRecord, PendingTransfer
  <2>3. q = [r EXCEPT !.pending = Append(r.pending, e)]
    BY <1>2 DEF WithPending
  <2> HIDE DEF e, q
  <2>4. Append(r.pending, e) = r.pending \o <<e>>
    BY <2>1, <2>2, AppendIsConcat
  <2> DEFINE z == <<e>>
  <2>5. z \in Seq(PendingTransfer) /\ Len(z) = 1 /\ z[1] = e
    BY <2>2
  <2>6. q = [r EXCEPT !.pending = r.pending \o z]
    BY <2>3, <2>4
  <2> HIDE DEF z
  <2>7. \A n \in 1 .. Len(z) :
           /\ z[n].offer \in DOMAIN c /\ c[z[n].offer].stream = s /\ c[z[n].offer].land = "offer"
           /\ c[z[n].offer].amount = z[n].amount /\ z[n].status = "pending"
           /\ \A k \in DOMAIN r.pending : r.pending[k].offer # z[n].offer
    BY <1>2, <2>2, <2>5
  <2>8. \A m, n \in 1 .. Len(z) : z[m].offer = z[n].offer => m = n
    BY <2>5
  <2> DEFINE p == r.pending \o z
             t == [r EXCEPT !.pending = p]
  <2>0. Adds(r, z, p, t)
    BY <2>5, MoreOffersAdds
  <2>13. NewOffers(c, s, r, z)
    BY <2>5, <2>7, <2>8 DEF NewOffers
  <2>14. /\ \A n \in 1 .. Len(z) : p[Len(r.pending) + n] = z[n]
         /\ t.status = r.status /\ t.settled = r.settled
         /\ t.cycles = r.cycles /\ t.pending = p
    BY <2>0 DEF Adds
  <2>10. q = t
    BY <2>6
  <2> HIDE DEF t, p
  <2>9. /\ Backed(c, s, t) /\ DOMAIN p = 1 .. (Len(r.pending) + Len(z))
        /\ DOMAIN r.pending = 1 .. Len(r.pending) /\ Len(r.pending) \in Nat /\ Len(z) \in Nat
        /\ \A k \in DOMAIN r.pending : k \in DOMAIN p /\ p[k] = r.pending[k]
        /\ \A v : InHistory(t, v) <=> InHistory(r, v)
    BY <2>0, <2>13, MoreOffersBacked
  <2>11. /\ DOMAIN p = DOMAIN r.pending \cup {Len(r.pending) + 1} /\ p[Len(r.pending) + 1].offer = i
         /\ p[Len(r.pending) + 1].cycle = r.cycles + 1
    BY <2>14, <2>2, <2>5, <2>9
  <2>12. \A k \in DOMAIN r.pending : k \in DOMAIN p /\ p[k] = r.pending[k]
    BY <2>9, <2>11
  <2>15. /\ Backed(c, s, q) /\ q.settled = r.settled /\ q.cycles = r.cycles /\ q.status = r.status
         /\ \A v : InHistory(q, v) <=> InHistory(r, v)
    BY <2>9, <2>10, <2>14
  <2>16. \A k \in DOMAIN r.pending : k \in DOMAIN q.pending /\ q.pending[k] = r.pending[k]
    BY <2>10, <2>12, <2>14
  <2>17. /\ \E k \in DOMAIN q.pending : q.pending[k].offer = i
         /\ \A k \in DOMAIN q.pending : k \notin DOMAIN r.pending =>
              q.pending[k].offer = i /\ q.pending[k].cycle = r.cycles + 1
    BY <2>10, <2>11, <2>14
  <2>18. \A k \in DOMAIN r.pending : r.pending[k].offer # i
    BY <1>2
  <2> QED BY <2>15, <2>16, <2>17, <2>18 DEF q
<1> QED BY <1>1, <1>2

\* Offers of its stream that the row does not know, in some order.
Recoverable(c, s, r, offers, size) ==
  /\ offers \in [1 .. size -> DOMAIN c]
  /\ \A m, n \in 1 .. size : offers[m] = offers[n] => m = n
  /\ \A n \in 1 .. size :
       /\ c[offers[n]].stream = s /\ c[offers[n]].land = "offer"
       /\ \A k \in DOMAIN r.pending : r.pending[k].offer # offers[n]

\* Row q remembers these offers as well.
Remembers(r, q, offers, size) ==
  /\ \A v : InHistory(q, v) <=> InHistory(r, v)
  /\ \A k \in DOMAIN r.pending : k \in DOMAIN q.pending /\ q.pending[k] = r.pending[k]
  /\ \A n \in 1 .. size : \E k \in DOMAIN q.pending : q.pending[k].offer = offers[n]
  /\ \A k \in DOMAIN q.pending : k \notin DOMAIN r.pending =>
       \E n \in 1 .. size : q.pending[k].offer = offers[n]

LEMMA AdoptedBacked ==
  ASSUME NEW c \in Seq(Transfer), NEW s, NEW r \in Row, Backed(c, s, r), r.status # "none",
         NEW size \in Nat, NEW first \in Nat \ {0}, NEW offers, Recoverable(c, s, r, offers, size),
         NEW z, z = Adopted(c, offers, size, first), NEW p, NEW q, Adds(r, z, p, q)
  PROVE  /\ Backed(c, s, q) /\ q.settled = r.settled /\ q.cycles = r.cycles /\ q.status = r.status
         /\ Remembers(r, q, offers, size)
<1>13. offers \in [1 .. size -> DOMAIN c]
  BY DEF Recoverable
<1>1. z \in Seq(PendingTransfer) /\ Len(z) = size
  BY <1>13, RecoveredType
<1>2. ASSUME NEW n \in 1 .. size
      PROVE  z[n].offer = offers[n] /\ z[n].amount = c[offers[n]].amount /\ z[n].status = "pending"
  BY DEF Adopted, PendingRecord
<1>3. \A n \in 1 .. Len(z) :
           /\ z[n].offer \in DOMAIN c /\ c[z[n].offer].stream = s /\ c[z[n].offer].land = "offer"
           /\ c[z[n].offer].amount = z[n].amount /\ z[n].status = "pending"
           /\ \A k \in DOMAIN r.pending : r.pending[k].offer # z[n].offer
  BY <1>1, <1>2 DEF Recoverable
<1>4. \A m, n \in 1 .. Len(z) : z[m].offer = z[n].offer => m = n
  BY <1>1, <1>2 DEF Recoverable
<1>0. /\ \A n \in 1 .. Len(z) : p[Len(r.pending) + n] = z[n]
      /\ q.status = r.status /\ q.settled = r.settled
      /\ q.cycles = r.cycles /\ q.pending = p
  BY DEF Adds
<1>11. NewOffers(c, s, r, z)
  BY <1>1, <1>3, <1>4 DEF NewOffers
<1>5. /\ Backed(c, s, q) /\ DOMAIN p = 1 .. (Len(r.pending) + Len(z))
      /\ DOMAIN r.pending = 1 .. Len(r.pending) /\ Len(r.pending) \in Nat /\ Len(z) \in Nat
      /\ \A k \in DOMAIN r.pending : k \in DOMAIN p /\ p[k] = r.pending[k]
      /\ \A v : InHistory(q, v) <=> InHistory(r, v)
  BY <1>11, MoreOffersBacked
<1>6. q.settled = r.settled /\ q.cycles = r.cycles /\ q.status = r.status /\ q.pending = p
  BY <1>0
<1>7. ASSUME NEW n \in 1 .. size PROVE \E k \in DOMAIN p : p[k].offer = offers[n]
  <2>1. Len(r.pending) + n \in DOMAIN p /\ p[Len(r.pending) + n] = z[n]
    BY <1>0, <1>1, <1>5
  <2> QED BY <1>2, <2>1
<1>8. ASSUME NEW k \in DOMAIN p, k \notin DOMAIN r.pending
      PROVE  \E n \in 1 .. size : p[k].offer = offers[n]
  <2>1. k - Len(r.pending) \in 1 .. size /\ k = Len(r.pending) + (k - Len(r.pending))
    BY <1>1, <1>5, <1>8
  <2>2. p[k] = z[k - Len(r.pending)]
    BY <1>0, <1>1, <1>5, <2>1
  <2> QED BY <1>2, <2>1, <2>2
<1>12. Remembers(r, q, offers, size)
  BY <1>5, <1>6, <1>7, <1>8 DEF Remembers
<1> QED BY <1>5, <1>6, <1>12

LEMMA EmptyBacked ==
  ASSUME NEW c, NEW s \in Streams
  PROVE  Backed(c, s, NoRow) /\ Backed(c, s, Fresh(s)) /\ Fresh(s).settled = 0 /\ NoRow.settled = 0
<1> DEFINE e == <<>>
<1>1. AmountsOf(e) = 0 /\ DOMAIN e = {}
  BY TotalOfNothing DEF AmountsOf
<1>2. Fresh(s).status = "active" /\ Fresh(s).rate = RatePerPeriod[s]
  BY FreshIs
<1>3. Fresh(s).settled = 0 /\ Fresh(s).history = e /\ Fresh(s).pending = e
  BY FreshIs
<1>4. NoRow.settled = 0 /\ NoRow.history = e /\ NoRow.pending = e /\ NoRow.status = "none"
  BY DEF NoRow
<1> HIDE DEF e
<1> QED BY <1>1, <1>2, <1>3, <1>4 DEF Backed, OffersDistinct, UpdatesDistinct

LEMMA StoppedBacked ==
  ASSUME NEW c, NEW s, NEW r \in Row, Backed(c, s, r)
  PROVE  Backed(c, s, [r EXCEPT !.status = "stopped", !.rate = 0])
<1> DEFINE q == [r EXCEPT !.status = "stopped", !.rate = 0]
<1>1. /\ q.status = "stopped" /\ q.settled = r.settled
      /\ q.history = r.history /\ q.pending = r.pending
  BY StoppedType
<1> HIDE DEF q
<1>2. OffersDistinct(q) /\ \A k \in DOMAIN q.pending : Remembered(c, s, q, k)
  <2>1. OffersDistinct(q)
    BY <1>1 DEF Backed, OffersDistinct
  <2>2. ASSUME NEW k \in DOMAIN q.pending PROVE Remembered(c, s, q, k)
    <3>1. Remembered(c, s, r, k)
      BY <1>1 DEF Backed
    <3> QED BY <1>1, <3>1 DEF Remembered, InHistory
  <2> QED BY <2>1, <2>2
<1>3. q.status # "none" /\ q.status # "active"
  BY <1>1
<1>4. \A l \in DOMAIN r.pending : r.pending[l].status = "accepted" =>
           \E m \in DOMAIN q.pending :
             q.pending[m].offer = r.pending[l].offer /\ q.pending[m].status = "accepted"
  BY <1>1
<1>5. Backed(c, s, q)
  BY <1>1, <1>2, <1>3, <1>4, OfferListBacks
<1> QED BY <1>5 DEF q

----------------------------------------------------------------------------
(* Nothing is recovered for another stream, and no history outgrows its row *)

OwnOffers == Recovers => \A s, t \in Streams : Pair[s] = Pair[t] => s = t
HistoryFits == MaxTransfers <= HistoryMax

\* What an operation o holds in hand, when the store is st, the chain c, and ad and
\* rec the contracts.
OpBooks(o, st, c, ad, rec) ==
  /\ o.phase = "reconcile" =>
       /\ Backed(c, o.s, o.store[o.s])
       /\ st[o.s].settled + AmountsOf(o.syncs) <= o.store[o.s].settled
  /\ o.phase = "save" => c[o.xfer].stream = o.s /\ ~InHistory(st[o.s], o.xfer)
  /\ o.phase = "sync" =>
       /\ ad[o.s].totalWithdrawn + AmountsOf(o.syncs) <= st[o.s].settled
       /\ rec[o.s].totalPaid + AmountsOf(o.syncs) <= st[o.s].settled
Books ==
  /\ Landed(chain) /\ Len(chain) <= MaxTransfers
  /\ \A s \in Streams : Backed(chain, s, row[s])
  /\ RecordsNeverAhead
  /\ \A w \in Workers : OpBooks(op[w], row, chain, admin, record)
BookInv == OpInv /\ Books

LEMMA IdleBooksNothing ==
  ASSUME NEW st, NEW c, NEW ad, NEW rec, NEW o \in {Idle} \cup Settling
  PROVE  OpBooks(o, st, c, ad, rec)
BY DEF OpBooks, Idle, Settling

\* A step of the worker that holds the lock, or that finds it free.
LEMMA HolderKeepsBooks ==
  ASSUME BookInv, NEW w \in Workers, op[w] # Idle \/ Free(w), NEW o \in Operation, Do(w, o),
         Landed(chain'), Len(chain') <= MaxTransfers,
         \A s \in Streams : Backed(chain', s, row'[s]), RecordsNeverAhead',
         OpBooks(o, row', chain', admin', record')
  PROVE  Books'
<1>1. \A v \in Workers : op'[v] = IF v = w THEN o ELSE Idle
  BY LockHolderMoves DEF BookInv, OpInv
<1>2. Idle \in {Idle} \cup Settling
  OBVIOUS
<1>3. ASSUME NEW v \in Workers PROVE OpBooks(op'[v], row', chain', admin', record')
  BY <1>1, <1>2, IdleBooksNothing
<1> QED BY <1>3 DEF Books

\* The amounts there are: all of them natural numbers.
LEMMA BooksAreNumbers ==
  ASSUME LaneTypeOK, NEW s \in Streams
  PROVE  /\ admin[s].totalWithdrawn \in Nat /\ record[s].totalPaid \in Nat
         /\ row[s] \in Row /\ row[s].settled \in Nat
<1>1. admin[s] \in Index /\ record[s] \in CycleRecord /\ row[s] \in Row
  BY RowAt DEF LaneTypeOK
<1> QED BY <1>1 DEF Index, CycleRecord, Row

LEMMA SyncsAreNumbers ==
  ASSUME NEW q \in Seq(SyncItem) PROVE AmountsOf(q) \in Nat
<1>1. \A x \in SyncItem : x.amount \in Nat
  BY DEF SyncItem
<1> QED BY <1>1, AmountsSummable

\* The row of s is saved, with at least what there is to sync on top.
LEMMA RowKeepsBooks ==
  ASSUME BookInv, NEW w \in Workers, op[w] # Idle \/ Free(w), NEW s \in Streams,
         NEW st \in Store, row' = st, \A t \in Streams : t # s => st[t] = row[t],
         Backed(chain, s, st[s]), NEW syncs \in Seq(SyncItem),
         row[s].settled + AmountsOf(syncs) <= st[s].settled,
         NEW next \in {Idle} \cup Settling, next # Idle => ReadyToSettle(next, st),
         SyncThen(w, s, syncs, next), UNCHANGED chain,
         \A t \in Streams : /\ admin'[t].totalWithdrawn = admin[t].totalWithdrawn \/ admin'[t].totalWithdrawn = 0
                            /\ record'[t].totalPaid = record[t].totalPaid \/ record'[t].totalPaid = 0
  PROVE  Books'
<1> DEFINE o == AfterSync(s, syncs, next)
<1>1. Do(w, o)
  BY DEF SyncThen, AfterSync
<1>2. o \in Operation
  BY SyncInHand
<1>3. AmountsOf(syncs) \in Nat
  BY SyncsAreNumbers
<1>4. ASSUME NEW t \in Streams
      PROVE  /\ admin[t].totalWithdrawn \in Nat /\ record[t].totalPaid \in Nat
             /\ admin[t].totalWithdrawn <= row[t].settled /\ record[t].totalPaid <= row[t].settled
             /\ row[t].settled \in Nat /\ st[t].settled \in Nat /\ Backed(chain, t, row[t])
  <2>1. st[t].settled \in Nat
    BY DEF Store, Row
  <2> QED BY <2>1, BooksAreNumbers DEF BookInv, Books, OpInv, RecordsNeverAhead
<1>5. Landed(chain') /\ Len(chain') <= MaxTransfers
  BY DEF BookInv, Books
<1>6. \A t \in Streams : Backed(chain', t, row'[t])
  BY <1>4
<1>7. RecordsNeverAhead'
  <2> SUFFICES ASSUME NEW t \in Streams
               PROVE admin'[t].totalWithdrawn <= st[t].settled /\ record'[t].totalPaid <= st[t].settled
    BY DEF RecordsNeverAhead
  <2>1. row[t].settled <= st[t].settled
    BY <1>3, <1>4
  <2> QED BY <1>4, <2>1
<1>8. OpBooks(o, row', chain', admin', record')
  <2>1. CASE syncs = <<>>
    <3>1. o = next
      BY <2>1 DEF AfterSync
    <3> QED BY <3>1, IdleBooksNothing
  <2>2. CASE syncs # <<>>
    <3>1. o.phase = "sync" /\ o.s = s /\ o.syncs = syncs
      BY <2>2 DEF AfterSync
    <3>2. /\ admin'[s].totalWithdrawn + AmountsOf(syncs) <= st[s].settled
          /\ record'[s].totalPaid + AmountsOf(syncs) <= st[s].settled
      BY <1>3, <1>4
    <3> HIDE DEF o
    <3> QED BY <3>1, <3>2 DEF OpBooks
  <2> QED BY <2>1, <2>2
<1> HIDE DEF o
<1> QED BY <1>1, <1>2, <1>5, <1>6, <1>7, <1>8, HolderKeepsBooks

\* A step that leaves a free lock alone lets go of nothing.
LEMMA FreeIsIdle ==
  ASSUME LaneTypeOK, NEW w \in Workers, Free(w), UNCHANGED op, NEW s
  PROVE  SyncThen(w, s, <<>>, Idle)
<1>1. op[w] = Idle /\ op \in [Workers -> Operation]
  BY DEF Free, LaneTypeOK
<1> QED BY <1>1 DEF SyncThen, Do

\* Nothing to sync, nothing to go on with.
LEMMA QuietRowKeepsBooks ==
  ASSUME BookInv, NEW w \in Workers, op[w] # Idle \/ Free(w), NEW s \in Streams,
         NEW r \in Row, row' = [row EXCEPT ![s] = r], Backed(chain, s, r), row[s].settled <= r.settled,
         SyncThen(w, s, <<>>, Idle), UNCHANGED chain,
         \A t \in Streams : /\ admin'[t].totalWithdrawn = admin[t].totalWithdrawn \/ admin'[t].totalWithdrawn = 0
                            /\ record'[t].totalPaid = record[t].totalPaid \/ record'[t].totalPaid = 0
  PROVE  Books'
<1> DEFINE st == [row EXCEPT ![s] = r]
           q == <<>>
<1>0. row \in Store
  BY DEF BookInv, OpInv, LaneTypeOK
<1>9. st \in Store
  BY <1>0, StoreExcept
<1>1. st \in Store /\ st[s] = r /\ \A t \in Streams : t # s => st[t] = row[t]
  BY <1>0, <1>9 DEF Store
<1>2. row[s].settled \in Nat /\ q \in Seq(SyncItem) /\ AmountsOf(q) = 0
  BY BooksAreNumbers, TotalOfNothing DEF BookInv, OpInv, AmountsOf
<1>3. row' = st /\ SyncThen(w, s, q, Idle) /\ Idle \in {Idle} \cup Settling
  OBVIOUS
<1> HIDE DEF st, q
<1>4. row[s].settled + AmountsOf(q) <= st[s].settled /\ Backed(chain, s, st[s])
  BY <1>1, <1>2
<1> QED BY <1>1, <1>2, <1>3, <1>4, RowKeepsBooks

\* One credit, to be synced as one.
LEMMA CreditKeepsBooks ==
  ASSUME BookInv, NEW w \in Workers, op[w] # Idle \/ Free(w), NEW s \in Streams,
         NEW r \in Row, row' = [row EXCEPT ![s] = r], Backed(chain, s, r),
         NEW e \in SyncItem, row[s].settled + e.amount = r.settled,
         SyncThen(w, s, <<e>>, Idle), UNCHANGED <<chain, contracts>>
  PROVE  Books'
<1> DEFINE st == [row EXCEPT ![s] = r]
           q == <<e>>
<1>0. row \in Store
  BY DEF BookInv, OpInv, LaneTypeOK
<1>9. st \in Store
  BY <1>0, StoreExcept
<1>1. st \in Store /\ st[s] = r /\ \A t \in Streams : t # s => st[t] = row[t]
  BY <1>0, <1>9 DEF Store
<1>2. \A x \in SyncItem : x.amount \in Nat
  BY DEF SyncItem
<1>3. q \in Seq(SyncItem) /\ AmountsOf(q) = e.amount
  BY <1>2, AmountsOfOne
<1>4. row' = st /\ SyncThen(w, s, q, Idle) /\ Idle \in {Idle} \cup Settling
  OBVIOUS
<1>5. row[s].settled \in Nat /\ e.amount \in Nat
  BY <1>2, BooksAreNumbers DEF BookInv, OpInv
<1>6. \A t \in Streams : admin'[t] = admin[t] /\ record'[t] = record[t]
  BY DEF contracts
<1> HIDE DEF st, q
<1>7. row[s].settled + AmountsOf(q) <= st[s].settled /\ Backed(chain, s, st[s])
  BY <1>1, <1>3, <1>5
<1> QED BY <1>1, <1>3, <1>4, <1>6, <1>7, RowKeepsBooks

\* The reconciliation goes on, or ends.
LEMMA ReconcileKeepsBooks ==
  ASSUME BookInv, NEW w \in Workers, op[w] # Idle \/ Free(w), NEW s \in Streams,
         NEW purpose \in {"submit", "prepare"}, NEW rows \in Store, NEW syncs \in Seq(SyncItem),
         \A t \in Streams : t # s => rows[t] = row[t],
         rows[s].status = row[s].status, row[s].status # "none",
         purpose = "submit" => s \in Hosted /\ row[s].status # "stopped",
         Backed(chain, s, rows[s]), row[s].settled + AmountsOf(syncs) <= rows[s].settled,
         ReconcileThen(w, s, purpose, rows, syncs), UNCHANGED <<contracts, chain>>
  PROVE  Books'
<1>1. CASE /\ Outstanding(rows[s]) # {}
           /\ Do(w, [phase |-> "reconcile", s |-> s, purpose |-> purpose, store |-> rows,
                     syncs |-> syncs])
           /\ UNCHANGED row
  <2> DEFINE o == [phase |-> "reconcile", s |-> s, purpose |-> purpose, store |-> rows, syncs |-> syncs]
  <2>1. o \in Operation
    BY DEF Operation
  <2>2. o.phase = "reconcile" /\ o.s = s /\ o.syncs = syncs /\ o.store = rows
    OBVIOUS
  <2>3. Do(w, o)
    BY <1>1
  <2> HIDE DEF o
  <2>4. OpBooks(o, row', chain', admin', record')
    BY <1>1, <2>2 DEF OpBooks
  <2>5. /\ Landed(chain') /\ Len(chain') <= MaxTransfers /\ RecordsNeverAhead'
        /\ \A t \in Streams : Backed(chain', t, row'[t])
    BY <1>1 DEF BookInv, Books, RecordsNeverAhead, contracts
  <2> QED BY <2>1, <2>3, <2>4, <2>5, HolderKeepsBooks
<1>2. CASE /\ row' = rows
           /\ SyncThen(w, s, syncs, [phase |-> purpose, s |-> s, store |-> rows])
  <2> DEFINE next == [phase |-> purpose, s |-> s, store |-> rows]
  <2>1. next \in Settling
    BY DEF Settling
  <2>2. next.phase = purpose /\ next.s = s /\ next.store = rows
    OBVIOUS
  <2>3. SyncThen(w, s, syncs, next)
    BY <1>2
  <2> HIDE DEF next
  <2>4. ReadyToSettle(next, rows)
    BY <2>2 DEF ReadyToSettle
  <2>5. \A t \in Streams : admin'[t] = admin[t] /\ record'[t] = record[t]
    BY DEF contracts
  <2> QED BY <1>2, <2>1, <2>3, <2>4, <2>5, RowKeepsBooks
<1> QED BY <1>1, <1>2 DEF ReconcileThen

LEMMA BeginKeepsBooks ==
  ASSUME BookInv, NEW w \in Workers, NEW s \in Streams, NEW purpose \in {"submit", "prepare"},
         BeginSettle(w, s, purpose)
  PROVE  Books'
<1> DEFINE q == <<>>
<1>1. /\ Free(w) /\ row[s].status # "none"
      /\ purpose = "submit" => s \in Hosted /\ row[s].status # "stopped"
      /\ ReconcileThen(w, s, purpose, row, q)
      /\ UNCHANGED <<contracts, chain>>
  BY DEF BeginSettle
<1>2. row \in Store /\ q \in Seq(SyncItem)
  BY DEF BookInv, OpInv, LaneTypeOK
<1>3. row[s].settled \in Nat /\ AmountsOf(q) = 0
  BY BooksAreNumbers, TotalOfNothing DEF BookInv, OpInv, AmountsOf
<1>4. Backed(chain, s, row[s]) /\ row[s].settled + AmountsOf(q) <= row[s].settled
  BY <1>3 DEF BookInv, Books
<1> HIDE DEF q
<1> QED BY <1>1, <1>2, <1>4, ReconcileKeepsBooks

LEMMA HistoryIsRoomy ==
  ASSUME HistoryFits, Books, LaneTypeOK PROVE Len(chain) <= HistoryMax /\ chain \in Seq(Transfer)
<1>1. chain \in Seq(Transfer) /\ Len(chain) <= MaxTransfers
  BY DEF LaneTypeOK, Books
<1>2. Len(chain) \in Nat /\ MaxTransfers \in Nat /\ HistoryMax \in Nat
  BY <1>1, LenProperties, LaneAssumption
<1> QED BY <1>1, <1>2 DEF HistoryFits

LEMMA ReconcilingKeepsBooks ==
  ASSUME HistoryFits, BookInv, NEW w \in Workers, reconcileOutstandingOffers(w)
  PROVE  Books'
<1> DEFINE s == op[w].s
           rows == op[w].store
           r == rows[s]
           syncs == op[w].syncs
           purpose == op[w].purpose
<1>0. op[w].phase = "reconcile" /\ UNCHANGED <<contracts, chain>>
  BY DEF reconcileOutstandingOffers
<1>1. /\ op[w] # Idle /\ s \in Streams /\ rows \in Store /\ r \in Row
      /\ purpose \in {"submit", "prepare"} /\ syncs \in Seq(SyncItem)
      /\ \A t \in Streams : t # s => rows[t] = row[t]
      /\ r.status = row[s].status /\ row[s].status # "none"
      /\ purpose = "submit" => s \in Hosted /\ row[s].status # "stopped"
  BY <1>0, ReconcilingFacts DEF BookInv
<1>2. PICK k \in Outstanding(r) :
        \/ /\ chain[r.pending[k].offer].fate = "accepted"
           /\ ReconcileThen(w, s, purpose, [rows EXCEPT ![s] = creditAcceptedOffer(r, k, -r.pending[k].offer)],
                            Append(syncs, ToSync(-r.pending[k].offer, r.pending[k].amount, FALSE)))
        \/ /\ chain[r.pending[k].offer].fate = "returned"
           /\ ReconcileThen(w, s, purpose, [rows EXCEPT ![s] = [r EXCEPT !.pending[k].status = "withdrawn"]],
                         syncs)
        \/ row' = rows /\ SyncThen(w, s, syncs, Idle)
  BY DEF reconcileOutstandingOffers
<1>3. k \in DOMAIN r.pending /\ r.pending[k].status # "accepted"
  BY DEF Outstanding
<1>4. Backed(chain, s, r) /\ row[s].settled + AmountsOf(syncs) <= r.settled
  BY <1>0 DEF BookInv, Books, OpBooks
<1> HIDE DEF s, rows, r, syncs, purpose
<1>5. r.pending[k].offer \in Nat \ {0} /\ r.pending[k].amount \in Nat \ {0}
  BY <1>1, <1>3, PendingAt
<1>6. Len(chain) <= HistoryMax /\ chain \in Seq(Transfer)
  BY HistoryIsRoomy DEF BookInv, OpInv
<1>7. AmountsOf(syncs) \in Nat /\ row[s].settled \in Nat /\ r.settled \in Nat
  BY <1>1, SyncsAreNumbers, BooksAreNumbers DEF BookInv, OpInv, Row
<1>8. r = rows[s]
  BY DEF r, rows, s
<1>9. CASE /\ chain[r.pending[k].offer].fate = "accepted"
           /\ ReconcileThen(w, s, purpose, [rows EXCEPT ![s] = creditAcceptedOffer(r, k, -r.pending[k].offer)],
                            Append(syncs, ToSync(-r.pending[k].offer, r.pending[k].amount, FALSE)))
  <2> DEFINE u == -r.pending[k].offer
             a == r.pending[k].amount
             q == creditAcceptedOffer(r, k, u)
             e == ToSync(u, a, FALSE)
             st == [rows EXCEPT ![s] = q]
             next == Append(syncs, e)
  <2>1. u \in Int /\ a \in Nat
    BY <1>5
  <2>2. e \in SyncItem /\ e.amount = a
    BY <1>5, <2>1 DEF ToSync, SyncItem
  <2>3. q \in Row /\ q.status = r.status
    BY <1>1, <1>3, <2>1, AcceptedType
  <2>4. Backed(chain, s, q) /\ q.settled = r.settled + a
    <3>1. Backed(chain, s, q)
      BY <1>1, <1>3, <1>4, <1>6, <1>9, AcceptedBacked
    <3>2. q.settled = r.settled + a
      BY <1>1, <1>3, AcceptedIs
    <3> QED BY <3>1, <3>2
  <2>5. ReconcileThen(w, s, purpose, st, next)
    BY <1>9
  <2> HIDE DEF q, u, e, a
  <2>6. next \in Seq(SyncItem) /\ AmountsOf(next) = AmountsOf(syncs) + a
    <3>1. \A x \in SyncItem : x.amount \in Nat
      BY DEF SyncItem
    <3> QED BY <1>1, <2>2, <3>1, AmountsAppend
  <2> HIDE DEF next
  <2>7. st \in Store /\ st[s] = q /\ st[s].status = rows[s].status /\ \A t \in Streams : t # s => st[t] = rows[t]
    BY <1>1, <1>8, <2>3, RefreshedStore
  <2> HIDE DEF st
  <2>8. st[s].status = row[s].status /\ \A t \in Streams : t # s => st[t] = row[t]
    BY <1>1, <1>8, <2>7
  <2>9. Backed(chain, s, st[s]) /\ row[s].settled + AmountsOf(next) <= st[s].settled
    BY <1>4, <1>7, <2>1, <2>4, <2>6, <2>7
  <2> QED BY <1>0, <1>1, <2>5, <2>6, <2>7, <2>8, <2>9, ReconcileKeepsBooks
<1>10. CASE /\ chain[r.pending[k].offer].fate = "returned"
            /\ ReconcileThen(w, s, purpose, [rows EXCEPT ![s] = [r EXCEPT !.pending[k].status = "withdrawn"]],
                         syncs)
  <2> DEFINE q == [r EXCEPT !.pending[k].status = "withdrawn"]
             st == [rows EXCEPT ![s] = q]
  <2>1. q \in Row /\ q.status = r.status
    BY <1>1, <1>3, WithdrawnType
  <2>2. ReconcileThen(w, s, purpose, st, syncs)
    BY <1>10
  <2>3. Backed(chain, s, q) /\ q.settled = r.settled
    BY <1>1, <1>3, <1>4, <1>10, WithdrawnBacked
  <2> HIDE DEF q
  <2>4. st \in Store /\ st[s] = q /\ st[s].status = rows[s].status /\ \A t \in Streams : t # s => st[t] = rows[t]
    BY <1>1, <1>8, <2>1, RefreshedStore
  <2> HIDE DEF st
  <2>5. st[s].status = row[s].status /\ \A t \in Streams : t # s => st[t] = row[t]
    BY <1>1, <1>8, <2>4
  <2>6. Backed(chain, s, st[s]) /\ row[s].settled + AmountsOf(syncs) <= st[s].settled
    BY <1>4, <2>3, <2>4
  <2> QED BY <1>0, <1>1, <2>2, <2>4, <2>5, <2>6, ReconcileKeepsBooks
<1>11. CASE row' = rows /\ SyncThen(w, s, syncs, Idle)
  <2>1. \A t \in Streams : admin'[t] = admin[t] /\ record'[t] = record[t]
    BY <1>0 DEF contracts
  <2>2. Idle \in {Idle} \cup Settling /\ UNCHANGED chain
    BY <1>0
  <2> QED BY <1>1, <1>4, <1>8, <1>11, <2>1, <2>2, RowKeepsBooks
<1> QED BY <1>2, <1>9, <1>10, <1>11

----------------------------------------------------------------------------
LEMMA CreateKeepsBooks ==
  ASSUME BookInv, NEW w \in Workers, NEW s \in Streams, createStream(w, s)
  PROVE  Books'
<1> DEFINE o == [phase |-> "create", s |-> s, store |-> [row EXCEPT ![s] = Fresh(s)]]
<1>1. /\ Free(w) /\ Do(w, o) /\ UNCHANGED <<chain, row>>
      /\ admin' = admin \/ admin' = [admin EXCEPT ![s] = mkStreamAdmin]
      /\ record' = record \/ record' = [record EXCEPT ![s] = createStreamRecord]
  BY DEF createStream, Fresh
<1>2. o.phase = "create" /\ o \in Operation
  <2>1. Fresh(s) \in Row /\ row \in Store
    BY FreshType DEF BookInv, OpInv, LaneTypeOK
  <2>2. [row EXCEPT ![s] = Fresh(s)] \in Store
    BY <2>1, StoreExcept
  <2> QED BY <2>2 DEF Operation
<1> HIDE DEF o
<1>3. OpBooks(o, row', chain', admin', record')
  BY <1>2 DEF OpBooks
<1>4. RecordsNeverAhead'
  <2> SUFFICES ASSUME NEW t \in Streams
               PROVE admin'[t].totalWithdrawn <= row[t].settled /\ record'[t].totalPaid <= row[t].settled
    BY <1>1 DEF RecordsNeverAhead
  <2>1. /\ admin[t].totalWithdrawn <= row[t].settled /\ record[t].totalPaid <= row[t].settled
        /\ row[t].settled \in Nat
    BY BooksAreNumbers DEF BookInv, Books, OpInv, RecordsNeverAhead
  <2>2. admin \in [Streams -> Index] /\ record \in [Streams -> CycleRecord]
    BY DEF BookInv, OpInv, LaneTypeOK
  <2>3. admin'[t] = admin[t] \/ admin'[t].totalWithdrawn = 0
    BY <1>1, <2>2 DEF mkStreamAdmin
  <2>4. record'[t] = record[t] \/ record'[t].totalPaid = 0
    BY <1>1, <2>2 DEF createStreamRecord
  <2> QED BY <2>1, <2>3, <2>4
<1>5. /\ Landed(chain') /\ Len(chain') <= MaxTransfers /\ \A t \in Streams : Backed(chain', t, row'[t])
  BY <1>1 DEF BookInv, Books
<1> QED BY <1>1, <1>2, <1>3, <1>4, <1>5, HolderKeepsBooks

LEMMA SaveCreatedKeepsBooks ==
  ASSUME BookInv, NEW w \in Workers, SaveCreated(w)
  PROVE  Books'
<1> DEFINE s == op[w].s
           r == Fresh(s)
<1>1. op[w].phase = "create" /\ row' = op[w].store /\ Do(w, Idle) /\ UNCHANGED <<contracts, chain>>
  BY DEF SaveCreated
<1>2. op[w] \in Operation /\ InHand(op[w], row, chain)
  BY DEF BookInv, OpInv, LaneTypeOK
<1>3. /\ op[w] # Idle /\ s \in Streams /\ row[s].status = "none" /\ row' = [row EXCEPT ![s] = Fresh(s)]
  BY <1>1, <1>2, OperationFields DEF InHand
<1> HIDE DEF s
<1>4. r \in Row /\ Backed(chain, s, r) /\ r.settled = 0 /\ NoRow.settled = 0
  BY <1>3, FreshType, EmptyBacked
<1>5. row[s].settled = 0
  <2>1. row[s] = NoRow
    BY <1>3 DEF BookInv, Books, Backed
  <2> QED BY <1>4, <2>1
<1>6. SyncThen(w, s, <<>>, Idle)
  BY <1>1, NothingToSync
<1>7. \A t \in Streams : admin'[t] = admin[t] /\ record'[t] = record[t]
  BY <1>1 DEF contracts
<1>8. row' = [row EXCEPT ![s] = r] /\ row[s].settled <= r.settled /\ UNCHANGED chain
  BY <1>1, <1>3, <1>4, <1>5
<1> HIDE DEF r
<1> QED BY <1>3, <1>4, <1>6, <1>7, <1>8, QuietRowKeepsBooks

LEMMA StopKeepsBooks ==
  ASSUME BookInv, NEW w \in Workers, NEW s \in Streams, stopStream(w, s)
  PROVE  Books'
<1> DEFINE r == [row[s] EXCEPT !.status = "stopped", !.rate = 0]
<1>1. /\ Free(w) /\ row' = [row EXCEPT ![s] = r] /\ UNCHANGED <<admin, chain, op>>
      /\ UNCHANGED record \/ MarkStopped(s)
  BY DEF stopStream
<1>2. row[s] \in Row /\ LaneTypeOK
  BY RowAt DEF BookInv, OpInv
<1>3. r \in Row /\ Backed(chain, s, r) /\ r.settled = row[s].settled
  <2>1. Backed(chain, s, row[s])
    BY DEF BookInv, Books
  <2> QED BY <1>2, <2>1, StoppedBacked, StoppedType
<1> HIDE DEF r
<1>4. row[s].settled <= r.settled
  BY <1>2, <1>3 DEF Row
<1>5. SyncThen(w, s, <<>>, Idle)
  BY <1>1, <1>2, FreeIsIdle
<1>6. ASSUME NEW t \in Streams PROVE record'[t].totalPaid = record[t].totalPaid
  <2>1. record \in [Streams -> CycleRecord]
    BY <1>2 DEF LaneTypeOK
  <2>2. CASE MarkStopped(s)
    <3>1. record' = [record EXCEPT ![s] = [record[s] EXCEPT !.status = "Cancelled"]]
      BY <2>2 DEF MarkStopped
    <3>2. record[s] \in CycleRecord
      BY <2>1
    <3>3. [record[s] EXCEPT !.status = "Cancelled"].totalPaid = record[s].totalPaid
      BY <3>2 DEF CycleRecord
    <3> QED BY <2>1, <3>1, <3>3
  <2> QED BY <1>1, <2>2
<1> QED BY <1>1, <1>3, <1>4, <1>5, <1>6, QuietRowKeepsBooks

\* The holder lets go, whatever it had in hand.
LEMMA DropKeepsBooks ==
  ASSUME BookInv, NEW w \in Workers, op[w] # Idle, Do(w, Idle), UNCHANGED <<contracts, chain, row>>
  PROVE  Books'
<1>1. Idle \in Operation /\ OpBooks(Idle, row', chain', admin', record')
  BY IdleHoldsNothing, IdleBooksNothing
<1>2. /\ Landed(chain') /\ Len(chain') <= MaxTransfers /\ RecordsNeverAhead'
      /\ \A t \in Streams : Backed(chain', t, row'[t])
  BY DEF BookInv, Books, RecordsNeverAhead, contracts
<1> QED BY <1>1, <1>2, HolderKeepsBooks

----------------------------------------------------------------------------
\* A step of the chain alone: what was in hand stays as it was.
LEMMA ChainKeepsBooks ==
  ASSUME BookInv, Onward(chain, chain'), Landed(chain'), Len(chain') <= MaxTransfers,
         UNCHANGED <<contracts, row, op>>
  PROVE  Books'
<1>1. \A s \in Streams : Backed(chain', s, row'[s])
  BY BackedOnward DEF BookInv, Books
<1>2. ASSUME NEW w \in Workers PROVE OpBooks(op[w], row, chain', admin, record)
  <2>1. OpBooks(op[w], row, chain, admin, record) /\ InHand(op[w], row, chain)
    BY DEF BookInv, Books, OpInv
  <2>2. op[w].phase = "reconcile" => Backed(chain', op[w].s, op[w].store[op[w].s])
    BY <2>1, BackedOnward DEF OpBooks
  <2>3. op[w].phase = "save" => chain'[op[w].xfer].stream = op[w].s
    BY <2>1 DEF OpBooks, InHand, Onward
  <2> QED BY <2>1, <2>2, <2>3 DEF OpBooks
<1>3. RecordsNeverAhead'
  BY DEF BookInv, Books, RecordsNeverAhead, contracts
<1>4. UNCHANGED <<admin, record, row, op>>
  BY DEF contracts
<1> QED BY <1>1, <1>2, <1>3, <1>4 DEF Books

LEMMA OfferStepKeepsBooks ==
  ASSUME BookInv, NEW i \in DOMAIN chain, AcceptOffer(i) \/ ReturnOffer(i)
  PROVE  Books'
<1>1. /\ Onward(chain, chain') /\ DOMAIN chain' = DOMAIN chain /\ chain[i].fate = "open"
      /\ UNCHANGED <<contracts, row, op>>
      /\ \A j \in DOMAIN chain : j # i => chain'[j].fate = chain[j].fate
      /\ chain'[i].fate \in {"accepted", "returned"}
  BY OfferStep DEF BookInv
<1>2. Landed(chain')
  BY <1>1 DEF BookInv, Books, Landed, Onward
<1>3. Len(chain') = Len(chain)
  <2>1. chain \in Seq(Transfer) /\ chain' \in Seq(Transfer)
    BY <1>1 DEF Onward, BookInv, OpInv, LaneTypeOK
  <2>2. /\ DOMAIN chain = 1 .. Len(chain) /\ DOMAIN chain' = 1 .. Len(chain')
        /\ Len(chain) \in Nat /\ Len(chain') \in Nat
    BY <2>1, LenProperties
  <2> QED BY <1>1, <2>2
<1> QED BY <1>1, <1>2, <1>3, ChainKeepsBooks DEF BookInv, Books

\* What was just submitted is in no history.
LEMMA NewIsUncounted ==
  ASSUME NEW c \in Seq(Transfer), NEW s, NEW r \in Row, Backed(c, s, r)
  PROVE  ~InHistory(r, Len(c) + 1)
<1>1. Len(c) \in Nat /\ DOMAIN c = 1 .. Len(c)
  BY ChainAt
<1>2. ASSUME NEW k \in DOMAIN r.history PROVE r.history[k].update # Len(c) + 1
  <2>1. PICK i \in DOMAIN c : LandsAs(c, i, r.history[k].update)
    BY EntryAt
  <2> QED BY <1>1, <2>1 DEF LandsAs
<1> QED BY <1>2 DEF InHistory

LEMMA LandedGrows ==
  ASSUME NEW c, NEW d, NEW n, Landed(c), DOMAIN d = DOMAIN c \cup {n},
         \A j \in DOMAIN c : d[j] = c[j], d[n].land \in {"direct", "offer"},
         d[n].land = "direct" => d[n].fate = "delivered", d[n].land = "offer" => d[n].fate = "open"
  PROVE  Landed(d)
BY DEF Landed

LEMMA WalletKeepsBooks ==
  ASSUME BookInv, WalletTransfer
  PROVE  Books'
<1> DEFINE n == Len(chain) + 1
<1>1. /\ Onward(chain, chain') /\ Len(chain) < MaxTransfers
      /\ DOMAIN chain' = DOMAIN chain \cup {n} /\ Len(chain') = n
      /\ \A j \in DOMAIN chain : chain'[j] = chain[j]
      /\ chain'[n].land = "direct" => chain'[n].fate = "delivered"
      /\ chain'[n].land = "offer" => chain'[n].fate = "open"
      /\ UNCHANGED <<contracts, row, op>>
  BY WalletStep DEF BookInv
<1>2. Len(chain) \in Nat /\ MaxTransfers \in Nat /\ chain'[n].land \in {"direct", "offer"}
  <2>1. chain \in Seq(Transfer) /\ chain' \in Seq(Transfer)
    BY <1>1 DEF Onward, BookInv, OpInv, LaneTypeOK
  <2>2. n \in DOMAIN chain'
    BY <1>1
  <2> HIDE DEF n
  <2> QED BY <2>1, <2>2, ChainAt, LaneAssumption
<1>3. Len(chain') <= MaxTransfers
  BY <1>1, <1>2
<1> HIDE DEF n
<1>4. Landed(chain')
  BY <1>1, <1>2, LandedGrows DEF BookInv, Books
<1> QED BY <1>1, <1>3, <1>4, ChainKeepsBooks

LEMMA SettleCycleKeepsBooks ==
  ASSUME BookInv, NEW w \in Workers, settleCycle(w)
  PROVE  Books'
<1> DEFINE s == op[w].s
           cmd == commandId(s, row[s])
           n == Len(chain) + 1
           o == [phase |-> "save", s |-> s, store |-> row, xfer |-> n]
<1>1. /\ s \in Hosted /\ s \in Streams /\ row[s] \in Row /\ op[w] # Idle
      /\ cmd \in Streams \X Nat \X Nat
      /\ \E amount \in Payable(s, row[s]) : Transferred(s, amount, cmd)
      /\ Do(w, o)
  BY SettledTransfer DEF BookInv
<1>2. UNCHANGED <<contracts, row>>
  BY DEF settleCycle
<1> HIDE DEF s, cmd
<1>3. PICK amount \in Payable(s, row[s]) : Transferred(s, amount, cmd)
  BY <1>1
<1>4. amount \in Nat \ {0}
  BY <1>1, PayableIs DEF BookInv, OpInv
<1>5. /\ Onward(chain, chain') /\ Len(chain) < MaxTransfers /\ Len(chain') = n
      /\ DOMAIN chain' = DOMAIN chain \cup {n} /\ \A j \in DOMAIN chain : chain'[j] = chain[j]
      /\ chain'[n].stream = s /\ chain'[n].land \in {"direct", "offer"}
      /\ chain'[n].land = "direct" => chain'[n].fate = "delivered"
      /\ chain'[n].land = "offer" => chain'[n].fate = "open"
  <2>1. LaneTypeOK /\ now \in Nat /\ cmd \in {NoCommand} \cup (Streams \X Nat \X Nat)
    BY <1>1, MaxTimeAssumption DEF BookInv, OpInv
  <2> QED BY <1>1, <1>3, <1>4, <2>1, TransferMade
<1>6. Len(chain) \in Nat /\ MaxTransfers \in Nat /\ chain \in Seq(Transfer) /\ row \in Store
  BY ChainAt, LaneAssumption DEF BookInv, OpInv, LaneTypeOK
<1>7. n \in Nat \ {0} /\ Len(chain') <= MaxTransfers
  BY <1>5, <1>6
<1>8. ~InHistory(row[s], n)
  <2>1. Backed(chain, s, row[s])
    BY <1>1 DEF BookInv, Books
  <2> QED BY <1>1, <1>6, <2>1, NewIsUncounted
<1> HIDE DEF n
<1>9. Landed(chain')
  BY <1>5, LandedGrows DEF BookInv, Books
<1>10. o \in Operation
  BY <1>1, <1>6, <1>7 DEF Operation
<1>11. o.phase = "save" /\ o.s = s /\ o.xfer = n
  OBVIOUS
<1> HIDE DEF o
<1>12. OpBooks(o, row', chain', admin', record')
  BY <1>2, <1>5, <1>8, <1>11 DEF OpBooks
<1>13. \A t \in Streams : Backed(chain', t, row'[t])
  BY <1>2, <1>5, BackedOnward DEF BookInv, Books
<1>14. RecordsNeverAhead'
  BY <1>2 DEF BookInv, Books, RecordsNeverAhead, contracts
<1> QED BY <1>1, <1>7, <1>9, <1>10, <1>12, <1>13, <1>14, HolderKeepsBooks

\* A direct transfer is credited, an offer remembered, with the row on the ledger's side.
LEMMA PaymentKeepsBooks ==
  ASSUME HistoryFits, BookInv, NEW w \in Workers, op[w] # Idle \/ Free(w), NEW s \in Streams,
         row[s].status # "none", NEW i \in DOMAIN chain, chain[i].stream = s, ~InHistory(row[s], i),
         \/ /\ chain[i].land = "offer"
            /\ row' = [row EXCEPT ![s] = WithPending(row[s], i, chain[i].amount)]
            /\ SyncThen(w, s, <<>>, Idle)
         \/ /\ chain[i].land # "offer"
            /\ row' = [row EXCEPT ![s] = Credited(row[s], i, chain[i].amount)]
            /\ SyncThen(w, s, <<ToSync(i, chain[i].amount, TRUE)>>, Idle),
         UNCHANGED <<chain, contracts>>
  PROVE  Books'
<1> DEFINE a == chain[i].amount
           p == WithPending(row[s], i, a)
           c == Credited(row[s], i, a)
           e == ToSync(i, a, TRUE)
<1>1. LaneTypeOK /\ Backed(chain, s, row[s]) /\ Landed(chain)
  BY DEF BookInv, Books, OpInv
<1>2. row[s] \in Row /\ Len(chain) <= HistoryMax /\ chain \in Seq(Transfer)
  BY <1>1, RowAt, HistoryIsRoomy DEF BookInv
<1>3. i \in Nat \ {0} /\ i \in Int /\ a \in Nat \ {0} /\ chain[i].land \in {"direct", "offer"}
  BY <1>2, ChainAt
<1>4. p \in Row /\ c \in Row
  BY <1>2, <1>3, WithPendingType, CreditedType
<1>5. row[s].settled \in Nat
  BY <1>2 DEF Row
<1>6. CASE chain[i].land = "offer"
  <2>1. Backed(chain, s, p) /\ p.settled = row[s].settled
    BY <1>1, <1>2, <1>6, WithPendingBacked
  <2>2. row' = [row EXCEPT ![s] = p] /\ SyncThen(w, s, <<>>, Idle)
    BY <1>6
  <2>3. \A t \in Streams : admin'[t] = admin[t] /\ record'[t] = record[t]
    BY DEF contracts
  <2> HIDE DEF p
  <2>4. row[s].settled <= p.settled /\ UNCHANGED chain
    BY <1>5, <2>1
  <2> QED BY <1>4, <2>1, <2>2, <2>3, <2>4, QuietRowKeepsBooks
<1>7. CASE chain[i].land # "offer"
  <2>1. chain[i].land = "direct" /\ Delivered(chain, i)
    BY <1>1, <1>3, <1>7 DEF Landed, Delivered
  <2>2. Backed(chain, s, c) /\ c.settled = row[s].settled + a
    BY <1>1, <1>2, <2>1, CreditedBacked
  <2>3. row' = [row EXCEPT ![s] = c] /\ SyncThen(w, s, <<e>>, Idle)
    BY <1>7
  <2>4. e \in SyncItem /\ e.amount = a
    BY <1>3 DEF ToSync, SyncItem
  <2> HIDE DEF c, e
  <2> QED BY <1>4, <2>2, <2>3, <2>4, CreditKeepsBooks
<1> QED BY <1>6, <1>7

LEMMA SaveKeepsBooks ==
  ASSUME HistoryFits, BookInv, NEW w \in Workers, Save(w)
  PROVE  Books'
<1> DEFINE s == op[w].s
           i == op[w].xfer
           a == chain[i].amount
<1>1. op[w].phase = "save" /\ UNCHANGED <<chain, contracts>>
  BY DEF Save
<1>2. /\ op[w] # Idle /\ s \in Streams /\ op[w].store = row /\ row[s].status # "none"
      /\ i \in DOMAIN chain
  BY <1>1, SavingFacts DEF BookInv
<1>3. chain[i].stream = s /\ ~InHistory(row[s], i)
  BY <1>1 DEF BookInv, Books, OpBooks
<1>4. \/ chain[i].land = "offer" /\ row' = [row EXCEPT ![s] = WithPending(row[s], i, a)] /\ Do(w, Idle)
      \/ /\ chain[i].land # "offer" /\ row' = [row EXCEPT ![s] = Credited(row[s], i, a)]
         /\ SyncThen(w, s, <<ToSync(i, a, TRUE)>>, Idle)
  BY <1>2 DEF Save
<1>5. \/ /\ chain[i].land = "offer" /\ row' = [row EXCEPT ![s] = WithPending(row[s], i, a)]
         /\ SyncThen(w, s, <<>>, Idle)
      \/ /\ chain[i].land # "offer" /\ row' = [row EXCEPT ![s] = Credited(row[s], i, a)]
         /\ SyncThen(w, s, <<ToSync(i, a, TRUE)>>, Idle)
  BY <1>4, NothingToSync
<1> HIDE DEF s, i
<1> QED BY <1>1, <1>2, <1>3, <1>5, PaymentKeepsBooks

LEMMA RecordSettleKeepsBooks ==
  ASSUME HistoryFits, BookInv, NEW w \in Workers, NEW s \in Streams, NEW i \in DOMAIN chain,
         recordSettle(w, s, i)
  PROVE  Books'
<1> DEFINE a == chain[i].amount
<1>1. /\ Free(w) /\ row[s].status # "none" /\ chain[i].stream = s /\ ~InHistory(row[s], i)
      /\ UNCHANGED <<chain, contracts>>
      /\ \/ chain[i].land = "offer" /\ row' = [row EXCEPT ![s] = WithPending(row[s], i, a)] /\ UNCHANGED op
         \/ /\ chain[i].land # "offer" /\ row' = [row EXCEPT ![s] = Credited(row[s], i, a)]
            /\ SyncThen(w, s, <<ToSync(i, a, TRUE)>>, Idle)
  BY DEF recordSettle
<1>2. UNCHANGED op => SyncThen(w, s, <<>>, Idle)
  BY <1>1, FreeIsIdle DEF BookInv, OpInv
<1> QED BY <1>1, <1>2, PaymentKeepsBooks

LEMMA RecoverKeepsBooks ==
  ASSUME OwnOffers, BookInv, NEW w \in Workers, NEW s \in Streams, recoverPendingOffers(w, s)
  PROVE  Books'
<1>1. row[s] \in Row
  BY RecoveredOffers DEF BookInv
<1>2. PICK size \in Nat, first \in Nat \ {0} : \E offers \in [1 .. size -> DOMAIN chain] :
        RecoveredAs(s, size, first, offers)
  BY RecoveredOffers DEF BookInv
<1>20. PICK offers \in [1 .. size -> DOMAIN chain] : RecoveredAs(s, size, first, offers)
  BY <1>2
<1>3. /\ \A n \in 1 .. size : offers[n] \in Unknown(s)
      /\ \A m, n \in 1 .. size : offers[m] = offers[n] => m = n
      /\ row' = [row EXCEPT ![s] = [row[s] EXCEPT !.pending =
                                     row[s].pending \o Adopted(chain, offers, size, first)]]
  BY <1>20 DEF RecoveredAs
<1> DEFINE q == Adopted(chain, offers, size, first)
           r == [row[s] EXCEPT !.pending = row[s].pending \o q]
<1>4. chain \in Seq(Transfer) /\ Backed(chain, s, row[s]) /\ LaneTypeOK
  BY DEF BookInv, Books, OpInv, LaneTypeOK
<1>5. Recovers /\ Free(w) /\ row[s].status # "none" /\ UNCHANGED <<contracts, chain, op>>
  BY DEF recoverPendingOffers
<1>6. \A n \in 1 .. size :
           /\ chain[offers[n]].stream = s /\ chain[offers[n]].land = "offer"
           /\ \A k \in DOMAIN row[s].pending : row[s].pending[k].offer # offers[n]
  <2> SUFFICES ASSUME NEW n \in 1 .. size
               PROVE /\ chain[offers[n]].stream = s /\ chain[offers[n]].land = "offer"
                     /\ \A k \in DOMAIN row[s].pending : row[s].pending[k].offer # offers[n]
    OBVIOUS
  <2>1. offers[n] \in Unknown(s)
    BY <1>3
  <2> DEFINE i == offers[n]
  <2>2. /\ i \in DOMAIN chain /\ chain[i].fate = "open" /\ Pair[chain[i].stream] = Pair[s]
        /\ \A k \in DOMAIN row[s].pending : row[s].pending[k].offer # i
    BY <2>1 DEF Unknown
  <2> HIDE DEF i
  <2>3. chain[i].stream \in Streams /\ chain[i].land \in {"direct", "offer"}
    BY <1>4, <2>2, ChainAt
  <2>4. chain[i].stream = s
    BY <1>5, <2>2, <2>3 DEF OwnOffers
  <2>5. chain[i].land = "offer"
    BY <2>2, <2>3 DEF BookInv, Books, Landed
  <2> QED BY <2>2, <2>4, <2>5 DEF i
<1>7. \A m, n \in 1 .. size : offers[m] = offers[n] => m = n
  BY <1>3
<1>15. Recoverable(chain, s, row[s], offers, size)
  BY <1>6, <1>7 DEF Recoverable
<1>9. q \in Seq(PendingTransfer)
  BY <1>4, RecoveredType
<1>16. q = Adopted(chain, offers, size, first)
  OBVIOUS
<1>8. Backed(chain, s, r) /\ r.settled = row[s].settled
  <2> HIDE DEF q
  <2>1. Adds(row[s], q, row[s].pending \o q, r)
    BY <1>1, <1>9, MoreOffersAdds
  <2> HIDE DEF r
  <2> QED BY <1>1, <1>4, <1>5, <1>15, <1>16, <2>1, AdoptedBacked
<1>10. row' = [row EXCEPT ![s] = r]
  BY <1>3
<1> HIDE DEF q
<1>11. r \in Row
  BY <1>1, <1>9, MoreOffers
<1> HIDE DEF r
<1>12. SyncThen(w, s, <<>>, Idle)
  BY <1>4, <1>5, FreeIsIdle
<1>13. row[s].settled <= r.settled
  BY <1>1, <1>8 DEF Row
<1>14. \A t \in Streams : admin'[t] = admin[t] /\ record'[t] = record[t]
  BY <1>5 DEF contracts
<1> QED BY <1>5, <1>8, <1>10, <1>11, <1>12, <1>13, <1>14, QuietRowKeepsBooks

LEMMA RecordAcceptKeepsBooks ==
  ASSUME HistoryFits, BookInv, NEW w \in Workers, NEW s \in Streams, NEW k \in DOMAIN row[s].pending,
         recordAcceptTransfer(w, s, k)
  PROVE  Books'
<1> DEFINE r == row[s]
           u == -r.pending[k].offer
           a == r.pending[k].amount
           e == ToSync(u, a, FALSE)
           q == creditAcceptedOffer(r, k, u)
<1>1. /\ Free(w) /\ UNCHANGED <<chain, contracts>>
      /\ r.pending[k].status # "accepted" /\ chain[r.pending[k].offer].fate = "accepted"
      /\ row' = [row EXCEPT ![s] = q] /\ SyncThen(w, s, <<e>>, Idle)
  BY DEF recordAcceptTransfer
<1>2. LaneTypeOK /\ Backed(chain, s, r)
  BY DEF BookInv, Books, OpInv
<1>3. r \in Row /\ Len(chain) <= HistoryMax /\ chain \in Seq(Transfer)
  BY <1>2, RowAt, HistoryIsRoomy DEF BookInv
<1>4. u \in Int /\ a \in Nat \ {0}
  BY <1>3, PendingAt
<1>5. r.status # "none"
  BY <1>2 DEF Backed, NoRow
<1>6. Backed(chain, s, q) /\ q.settled = r.settled + a
  <2>1. Backed(chain, s, q)
    BY <1>1, <1>2, <1>3, <1>5, AcceptedBacked
  <2>2. q.settled = r.settled + a
    BY <1>3, AcceptedIs
  <2> QED BY <2>1, <2>2
<1>7. q \in Row
  BY <1>3, <1>4, AcceptedType
<1>8. e \in SyncItem /\ e.amount = a
  BY <1>4 DEF ToSync, SyncItem
<1> HIDE DEF q, e
<1> QED BY <1>1, <1>6, <1>7, <1>8, CreditKeepsBooks

LEMMA RecordWithdrawKeepsBooks ==
  ASSUME BookInv, NEW w \in Workers, NEW s \in Streams, NEW k \in DOMAIN row[s].pending,
         recordWithdrawTransfer(w, s, k)
  PROVE  Books'
<1> DEFINE r == row[s]
           q == [r EXCEPT !.pending[k].status = "withdrawn"]
<1>1. /\ Free(w) /\ UNCHANGED <<contracts, chain, op>>
      /\ r.pending[k].status # "accepted" /\ row' = [row EXCEPT ![s] = q]
  BY DEF recordWithdrawTransfer
<1>2. LaneTypeOK /\ Backed(chain, s, r)
  BY DEF BookInv, Books, OpInv
<1>3. r \in Row /\ r.status # "none"
  BY <1>2, RowAt DEF Backed, NoRow
<1>4. Backed(chain, s, q) /\ q.settled = r.settled /\ q \in Row
  BY <1>1, <1>2, <1>3, WithdrawnBacked, WithdrawnType
<1> HIDE DEF q
<1>5. SyncThen(w, s, <<>>, Idle)
  BY <1>1, <1>2, FreeIsIdle
<1>6. r.settled <= q.settled
  BY <1>3, <1>4 DEF Row
<1>7. \A t \in Streams : admin'[t] = admin[t] /\ record'[t] = record[t]
  BY <1>1 DEF contracts
<1> QED BY <1>1, <1>4, <1>5, <1>6, <1>7, QuietRowKeepsBooks

LEMMA SyncKeepsBooks ==
  ASSUME BookInv, NEW w \in Workers, SyncContracts(w)
  PROVE  Books'
<1> DEFINE s == op[w].s
           q == op[w].syncs
           a == Head(q).amount
           n == op[w].next
           o == AfterSync(s, Tail(q), n)
<1>1. /\ op[w].phase = "sync" /\ Do(w, o) /\ UNCHANGED <<chain, row>>
      /\ admin' = admin \/ admin' = [admin EXCEPT ![s] = Synced(s, a, Head(q).update)]
      /\ record' = record \/ \A t \in Streams :
           record'[t].totalPaid = IF t = s THEN record[s].totalPaid + a ELSE record[t].totalPaid
  BY SyncStep DEF BookInv
<1>2. /\ op[w] # Idle /\ s \in Streams /\ q \in Seq(SyncItem) /\ q # <<>>
      /\ n \in {Idle} \cup Settling /\ (n # Idle => ReadyToSettle(n, row))
      /\ Head(q).update \in Int /\ a \in Nat \ {0} /\ Tail(q) \in Seq(SyncItem)
  BY <1>1, SyncingFacts DEF BookInv
<1>3. /\ admin[s].totalWithdrawn + AmountsOf(q) <= row[s].settled
      /\ record[s].totalPaid + AmountsOf(q) <= row[s].settled
  BY <1>1 DEF BookInv, Books, OpBooks
<1>4. a + AmountsOf(Tail(q)) <= AmountsOf(q) /\ AmountsOf(q) \in Nat /\ AmountsOf(Tail(q)) \in Nat
  <2>1. \A x \in SyncItem : x.amount \in Nat
    BY DEF SyncItem
  <2> HIDE DEF q
  <2> QED BY <1>2, <2>1, AmountsTail, SyncsAreNumbers
<1>5. o \in Operation
  BY <1>2, SyncInHand
<1>6. admin \in [Streams -> Index] /\ LaneTypeOK
  BY DEF BookInv, OpInv, LaneTypeOK
<1>7. Synced(s, a, Head(q).update).totalWithdrawn = admin[s].totalWithdrawn + a
  BY <1>2, <1>6, SyncedIndex
<1> HIDE DEF s, q, a, n
<1>8. ASSUME NEW t \in Streams
      PROVE  /\ \/ admin'[t].totalWithdrawn = admin[t].totalWithdrawn
                \/ t = s /\ admin'[t].totalWithdrawn = admin[s].totalWithdrawn + a
             /\ \/ record'[t].totalPaid = record[t].totalPaid
                \/ t = s /\ record'[t].totalPaid = record[s].totalPaid + a
  BY <1>1, <1>6, <1>7
<1>9. ASSUME NEW t \in Streams
      PROVE  /\ admin[t].totalWithdrawn \in Nat /\ record[t].totalPaid \in Nat /\ row[t].settled \in Nat
             /\ admin[t].totalWithdrawn <= row[t].settled /\ record[t].totalPaid <= row[t].settled
  BY <1>6, BooksAreNumbers DEF BookInv, Books, RecordsNeverAhead
<1>13. /\ admin'[s].totalWithdrawn + AmountsOf(Tail(q)) <= row[s].settled
       /\ record'[s].totalPaid + AmountsOf(Tail(q)) <= row[s].settled
       /\ admin'[s].totalWithdrawn <= row[s].settled /\ record'[s].totalPaid <= row[s].settled
  <2> DEFINE x == AmountsOf(q)
             y == AmountsOf(Tail(q))
             d == admin[s].totalWithdrawn
             e == record[s].totalPaid
             g == row[s].settled
  <2>1. /\ x \in Nat /\ y \in Nat /\ a \in Nat /\ d \in Nat /\ e \in Nat /\ g \in Nat
        /\ a + y <= x /\ d + x <= g /\ e + x <= g
    BY <1>2, <1>3, <1>4, <1>9
  <2>2. admin'[s].totalWithdrawn = d \/ admin'[s].totalWithdrawn = d + a
    BY <1>2, <1>8
  <2>3. record'[s].totalPaid = e \/ record'[s].totalPaid = e + a
    BY <1>2, <1>8
  <2> HIDE DEF x, y, d, e, g
  <2>4. admin'[s].totalWithdrawn + y <= g /\ admin'[s].totalWithdrawn <= g
    BY <2>1, <2>2
  <2>5. record'[s].totalPaid + y <= g /\ record'[s].totalPaid <= g
    BY <2>1, <2>3
  <2> QED BY <2>4, <2>5 DEF y, g
<1>10. RecordsNeverAhead'
  <2> SUFFICES ASSUME NEW t \in Streams
               PROVE admin'[t].totalWithdrawn <= row[t].settled /\ record'[t].totalPaid <= row[t].settled
    BY <1>1 DEF RecordsNeverAhead
  <2>1. CASE t = s
    BY <2>1, <1>13
  <2>2. CASE t # s
    <3>1. admin'[t].totalWithdrawn = admin[t].totalWithdrawn /\ record'[t].totalPaid = record[t].totalPaid
      BY <1>8, <2>2
    <3> QED BY <1>9, <3>1
  <2> QED BY <2>1, <2>2
<1>11. OpBooks(o, row', chain', admin', record')
  <2>1. CASE Tail(q) = <<>>
    <3>1. o = n
      BY <2>1 DEF AfterSync
    <3> QED BY <1>2, <3>1, IdleBooksNothing
  <2>2. CASE Tail(q) # <<>>
    <3>1. o.phase = "sync" /\ o.s = s /\ o.syncs = Tail(q)
      BY <2>2 DEF AfterSync
    <3> HIDE DEF o
    <3> QED BY <1>1, <1>13, <3>1 DEF OpBooks
  <2> QED BY <2>1, <2>2
<1>12. /\ Landed(chain') /\ Len(chain') <= MaxTransfers /\ \A t \in Streams : Backed(chain', t, row'[t])
  BY <1>1 DEF BookInv, Books
<1> HIDE DEF o
<1> QED BY <1>1, <1>2, <1>5, <1>10, <1>11, <1>12, HolderKeepsBooks

----------------------------------------------------------------------------
LEMMA LaneInitBooks ==
  ASSUME LaneInit PROVE BookInv
<1>1. OpInv
  BY LaneInitLock
<1>2. chain = <<>> /\ \A s \in Streams : row[s] = NoRow
  BY DEF LaneInit
<1>3. Landed(chain) /\ Len(chain) <= MaxTransfers
  BY <1>2, LaneAssumption DEF Landed
<1>4. \A s \in Streams : Backed(chain, s, row[s])
  BY <1>2, EmptyBacked
<1>5. RecordsNeverAhead
  <2> SUFFICES ASSUME NEW s \in Streams
               PROVE admin[s].totalWithdrawn <= row[s].settled /\ record[s].totalPaid <= row[s].settled
    BY DEF RecordsNeverAhead
  <2>1. row[s].settled = 0
    BY <1>2 DEF NoRow
  <2>2. admin[s].totalWithdrawn = 0 /\ record[s].totalPaid = 0
    BY DEF LaneInit, mkStreamAdmin, createStreamRecord
  <2> QED BY <2>1, <2>2
<1>6. \A w \in Workers : op[w] \in {Idle} \cup Settling
  BY DEF LaneInit
<1>7. \A w \in Workers : OpBooks(op[w], row, chain, admin, record)
  BY <1>6, IdleBooksNothing
<1> QED BY <1>1, <1>3, <1>4, <1>5, <1>7 DEF BookInv, Books

LEMMA BookStep ==
  ASSUME OwnOffers, HistoryFits, BookInv, [LaneNext]_laneVars PROVE BookInv'
<1>1. OpInv'
  BY LockStep DEF BookInv
<1>2. CASE (Tick /\ UNCHANGED <<contracts, chain, row, prepared, op>>) \/ UNCHANGED laneVars
  <2>1. UNCHANGED <<contracts, chain, row, op>>
    BY <1>2 DEF laneVars, contracts
  <2>2. Onward(chain, chain') /\ Landed(chain') /\ Len(chain') <= MaxTransfers
    BY <2>1 DEF Onward, BookInv, Books, OpInv, LaneTypeOK
  <2>3. Books'
    BY <2>1, <2>2, ChainKeepsBooks
  <2> QED BY <1>1, <2>3 DEF BookInv
<1>3. CASE \E i \in DOMAIN chain : AcceptOffer(i) \/ ReturnOffer(i)
  BY <1>1, <1>3, OfferStepKeepsBooks DEF BookInv
<1>4. CASE WalletTransfer
  BY <1>1, <1>4, WalletKeepsBooks DEF BookInv
<1>5. CASE \E w \in Workers : GiveUp(w) \/ ProxyCrash(w) \/ prepareSettle(w)
  <2>1. PICK w \in Workers : GiveUp(w) \/ ProxyCrash(w) \/ prepareSettle(w)
    BY <1>5
  <2>2. op[w] # Idle
    BY <2>1 DEF GiveUp, ProxyCrash, prepareSettle, Idle
  <2>3. Do(w, Idle) /\ UNCHANGED <<contracts, chain, row>>
    BY <2>1 DEF GiveUp, ProxyCrash, prepareSettle
  <2> QED BY <1>1, <2>2, <2>3, DropKeepsBooks DEF BookInv
<1>6. CASE \E w \in Workers : \/ SaveCreated(w) \/ reconcileOutstandingOffers(w) \/ settleCycle(w)
                              \/ Save(w) \/ SyncContracts(w)
  <2>1. Books'
    BY <1>6, SaveCreatedKeepsBooks, ReconcilingKeepsBooks, SettleCycleKeepsBooks, SaveKeepsBooks,
       SyncKeepsBooks
  <2> QED BY <1>1, <2>1 DEF BookInv
<1>7. CASE \E w \in Workers : \E s \in Streams :
             \/ createStream(w, s) \/ stopStream(w, s) \/ recoverPendingOffers(w, s)
             \/ BeginSettle(w, s, "submit") \/ BeginSettle(w, s, "prepare")
  <2>1. Books'
    BY <1>7, CreateKeepsBooks, StopKeepsBooks, RecoverKeepsBooks, BeginKeepsBooks
  <2> QED BY <1>1, <2>1 DEF BookInv
<1>8. CASE \E w \in Workers : \E s \in Streams : \E i \in DOMAIN chain : recordSettle(w, s, i)
  <2>1. Books'
    BY <1>8, RecordSettleKeepsBooks
  <2> QED BY <1>1, <2>1 DEF BookInv
<1>9. CASE \E w \in Workers : \E s \in Streams : \E k \in DOMAIN row[s].pending :
             recordAcceptTransfer(w, s, k) \/ recordWithdrawTransfer(w, s, k)
  <2>1. Books'
    BY <1>9, RecordAcceptKeepsBooks, RecordWithdrawKeepsBooks
  <2> QED BY <1>1, <2>1 DEF BookInv
<1> QED BY <1>2, <1>3, <1>4, <1>5, <1>6, <1>7, <1>8, <1>9 DEF LaneNext

LEMMA BookImplies ==
  ASSUME BookInv PROVE RowsAreBacked
<1>1. LaneTypeOK /\ RecordsNeverAhead
  BY DEF BookInv, Books, OpInv
<1>2. ASSUME NEW s \in Streams
      PROVE LET h == row[s].history
            IN  /\ \A k, l \in DOMAIN h : k # l => h[k].update # h[l].update
                /\ \A k \in DOMAIN h : \E i \in transfersOf(s) :
                     /\ Arrived(i) /\ chain[i].amount = h[k].amount
                     /\ h[k].update = IF chain[i].land = "direct" THEN i ELSE -i
                /\ row[s].settled = Total([k \in DOMAIN h |-> h[k].amount])
  <2> DEFINE h == row[s].history
  <2>1. Backed(chain, s, row[s])
    BY DEF BookInv, Books
  <2>2. \A k, l \in DOMAIN h : k # l => h[k].update # h[l].update
    BY <2>1 DEF Backed, UpdatesDistinct
  <2>3. row[s].settled = Total([k \in DOMAIN h |-> h[k].amount])
    BY <2>1 DEF Backed, AmountsOf
  <2>4. ASSUME NEW k \in DOMAIN h
        PROVE  \E i \in transfersOf(s) :
                     /\ Arrived(i) /\ chain[i].amount = h[k].amount
                     /\ h[k].update = IF chain[i].land = "direct" THEN i ELSE -i
    <3>1. Entry(chain, s, row[s], k)
      BY <2>1 DEF Backed
    <3>2. PICK i \in DOMAIN chain :
            /\ chain[i].stream = s /\ Delivered(chain, i) /\ chain[i].amount = h[k].amount
            /\ LandsAs(chain, i, h[k].update)
      BY <3>1 DEF Entry
    <3>3. i \in transfersOf(s) /\ Arrived(i)
      BY <3>2 DEF transfersOf, Arrived, Delivered
    <3>4. h[k].update = IF chain[i].land = "direct" THEN i ELSE -i
      BY <3>2 DEF LandsAs
    <3> QED BY <3>2, <3>3, <3>4
  <2> QED BY <2>2, <2>3, <2>4
<1> QED BY <1>1, <1>2 DEF RowsAreBacked, CreditsAreDeliveries

\* Whatever crashed, was retried, was returned or was never answered: what a row
\* counts was delivered for that very stream, each delivery once, and the contracts
\* on the ledger are at most as far as the row (settleOnce, reconcileOutstandingOffers,
\* recordSettle and recordAcceptTransfer of v1-lane.ts), as long as no two streams
\* pay between the same parties, or nobody recovers offers, and no history is cut.
THEOREM LaneRowsAreBacked ==
  ASSUME OwnOffers, HistoryFits
  PROVE  LaneSpec => []RowsAreBacked
<1>1. LaneInit => BookInv
  BY LaneInitBooks
<1>2. BookInv /\ [LaneNext]_laneVars => BookInv'
  BY BookStep
<1>3. BookInv => RowsAreBacked
  BY BookImplies
<1> QED BY <1>1, <1>2, <1>3, PTL DEF LaneSpec

----------------------------------------------------------------------------
(* What the proxy pays *)

\* What every change of a row leaves in place; a direct transfer is credited only with
\* a cycle of its own.
RowGrows(r, q) ==
  /\ q.cycles >= r.cycles
  /\ \A k \in DOMAIN r.pending :
       k \in DOMAIN q.pending /\ q.pending[k].offer = r.pending[k].offer
                              /\ q.pending[k].cycle = r.pending[k].cycle
  /\ \A v : InHistory(r, v) => InHistory(q, v)
  /\ \A i \in Nat : InHistory(q, i) => InHistory(r, i) \/ q.cycles >= r.cycles + 1

LEMMA RowGrowsOn ==
  ASSUME NEW r \in Row, NEW q \in Row, NEW p \in Row, RowGrows(r, q), RowGrows(q, p)
  PROVE  RowGrows(r, p)
<1>1. r.cycles \in Nat /\ q.cycles \in Nat /\ p.cycles \in Nat
  BY DEF Row
<1> QED BY <1>1 DEF RowGrows

LEMMA RowIsKept ==
  ASSUME NEW r \in Row PROVE RowGrows(r, r)
<1>1. r.cycles \in Nat
  BY DEF Row
<1> QED BY <1>1 DEF RowGrows

\* A row knows transfer i, an offer under the cycle it was sent for.
Placed(c, r, i) ==
  \/ InHistory(r, i)
  \/ \E k \in DOMAIN r.pending :
       /\ r.pending[k].offer = i
       /\ (c[i].cmd = NoCommand \/ c[i].cmd[2] = r.pending[k].cycle)

\* The pending records of a cycle, but for the one of offer i.
OthersOf(r, n, i) == { k \in DOMAIN r.pending : r.pending[k].cycle = n /\ r.pending[k].offer # i }
OfCycle(r, n) == { k \in DOMAIN r.pending : r.pending[k].cycle = n }

LEMMA CyclesFinite ==
  ASSUME NEW r \in Row, NEW n, NEW i
  PROVE  /\ IsFiniteSet(OfCycle(r, n)) /\ IsFiniteSet(OthersOf(r, n, i))
         /\ Cardinality(OfCycle(r, n)) \in Nat /\ Cardinality(OthersOf(r, n, i)) \in Nat
<1>1. r.pending \in Seq(PendingTransfer)
  BY DEF Row
<1>2. DOMAIN r.pending = 1 .. Len(r.pending) /\ Len(r.pending) \in Nat
  BY <1>1, LenProperties
<1>3. IsFiniteSet(1 .. Len(r.pending))
  BY <1>2, FS_Interval
<1>4. OfCycle(r, n) \subseteq 1 .. Len(r.pending) /\ OthersOf(r, n, i) \subseteq 1 .. Len(r.pending)
  BY <1>2 DEF OfCycle, OthersOf
<1>5. IsFiniteSet(OfCycle(r, n)) /\ IsFiniteSet(OthersOf(r, n, i))
  BY <1>3, <1>4, FS_Subset
<1> QED BY <1>5, FS_CardinalityType

LEMMA OthersGrow ==
  ASSUME NEW r \in Row, NEW q \in Row, RowGrows(r, q), NEW n, NEW i
  PROVE  Cardinality(OthersOf(r, n, i)) <= Cardinality(OthersOf(q, n, i))
<1>1. OthersOf(r, n, i) \subseteq OthersOf(q, n, i)
  BY DEF OthersOf, RowGrows
<1>2. IsFiniteSet(OthersOf(q, n, i))
  BY CyclesFinite
<1> HIDE DEF OthersOf
<1> QED BY <1>1, <1>2, FS_Subset

LEMMA CommandOf ==
  ASSUME NEW s, NEW r
  PROVE  commandId(s, r) = <<s, r.cycles + 1, Cardinality(OfCycle(r, r.cycles + 1))>>
BY DEF commandId, attempt, OfCycle

\* Transfer i was sent as its stream's row r may still tell.
Commanded(c, r, i) ==
  \E n \in Nat \ {0}, a \in Nat :
    /\ c[i].stream \in Hosted /\ c[i].cmd = <<c[i].stream, n, a>>
    /\ n <= r.cycles + 1 /\ a <= Cardinality(OthersOf(r, n, i))
    /\ InHistory(r, i) => n <= r.cycles
OwnCommands(c, st) == \A i \in DOMAIN c : c[i].cmd # NoCommand => Commanded(c, st[c[i].stream], i)

LEMMA CommandedOn ==
  ASSUME NEW c \in Seq(Transfer), NEW i \in DOMAIN c, NEW r \in Row, NEW q \in Row,
         RowGrows(r, q), Commanded(c, r, i)
  PROVE  Commanded(c, q, i)
<1>1. PICK n \in Nat \ {0}, a \in Nat :
        /\ c[i].stream \in Hosted /\ c[i].cmd = <<c[i].stream, n, a>>
        /\ n <= r.cycles + 1 /\ a <= Cardinality(OthersOf(r, n, i))
        /\ InHistory(r, i) => n <= r.cycles
  BY DEF Commanded
<1>2. r.cycles \in Nat /\ q.cycles \in Nat /\ i \in Nat
  BY ChainAt DEF Row
<1>3. Cardinality(OthersOf(r, n, i)) <= Cardinality(OthersOf(q, n, i))
  BY OthersGrow
<1>4. Cardinality(OthersOf(r, n, i)) \in Nat /\ Cardinality(OthersOf(q, n, i)) \in Nat
  BY CyclesFinite
<1>5. q.cycles >= r.cycles /\ (InHistory(q, i) => InHistory(r, i) \/ q.cycles >= r.cycles + 1)
  BY <1>2 DEF RowGrows
<1>6. n <= q.cycles + 1 /\ (InHistory(q, i) => n <= q.cycles)
  BY <1>1, <1>2, <1>5
<1>7. a <= Cardinality(OthersOf(q, n, i))
  BY <1>1, <1>3, <1>4
<1> QED BY <1>1, <1>6, <1>7 DEF Commanded

\* The chain may go on.
LEMMA CommandedOnward ==
  ASSUME NEW c, NEW d, Onward(c, d), NEW i \in DOMAIN c, NEW r, Commanded(c, r, i)
  PROVE  Commanded(d, r, i)
<1>1. d[i].stream = c[i].stream /\ d[i].cmd = c[i].cmd
  BY DEF Onward
<1> QED BY <1>1 DEF Commanded

\* A command id of a row that knows the transfers of its stream is a new one.
LEMMA FreshWhenKnown ==
  ASSUME NEW c \in Seq(Transfer), NEW s \in Streams, NEW r \in Row, NEW i \in DOMAIN c, c[i].stream = s,
         c[i].cmd # NoCommand => Commanded(c, r, i), Placed(c, r, i)
  PROVE  c[i].cmd # commandId(s, r)
<1> DEFINE m == r.cycles + 1
<1> SUFFICES ASSUME c[i].cmd = <<s, m, Cardinality(OfCycle(r, m))>> PROVE FALSE
  BY CommandOf
<1>1. c[i].cmd # NoCommand
  BY DEF NoCommand
<1>2. PICK n \in Nat \ {0}, a \in Nat :
        /\ c[i].cmd = <<c[i].stream, n, a>> /\ a <= Cardinality(OthersOf(r, n, i))
        /\ InHistory(r, i) => n <= r.cycles
  BY <1>1 DEF Commanded
<1>3. n = m /\ a = Cardinality(OfCycle(r, m))
  BY <1>2
<1>4. r.cycles \in Nat
  BY DEF Row
<1>5. ~InHistory(r, i)
  BY <1>2, <1>3, <1>4
<1>6. c[i].cmd[2] = m
  OBVIOUS
<1>7. PICK k \in DOMAIN r.pending : r.pending[k].offer = i /\ r.pending[k].cycle = m
  BY <1>1, <1>5, <1>6 DEF Placed
<1>8. k \in OfCycle(r, m) /\ k \notin OthersOf(r, m, i) /\ OthersOf(r, m, i) \subseteq OfCycle(r, m)
  BY <1>7 DEF OfCycle, OthersOf
<1>9. /\ IsFiniteSet(OfCycle(r, m)) /\ IsFiniteSet(OthersOf(r, m, i))
      /\ Cardinality(OfCycle(r, m)) \in Nat /\ Cardinality(OthersOf(r, m, i)) \in Nat
  BY CyclesFinite
<1>10. Cardinality(OthersOf(r, m, i)) < Cardinality(OfCycle(r, m))
  <2> HIDE DEF OfCycle, OthersOf, m
  <2>1. OthersOf(r, m, i) # OfCycle(r, m)
    BY <1>8
  <2> QED BY <1>8, <1>9, <2>1, FS_Subset
<1> QED BY <1>2, <1>3, <1>9, <1>10

----------------------------------------------------------------------------
LEMMA CreditedGrows ==
  ASSUME NEW c \in Seq(Transfer), Len(c) <= HistoryMax, NEW s, NEW r \in Row, Backed(c, s, r),
         r.status # "none", NEW i \in DOMAIN c, c[i].stream = s, c[i].land = "direct",
         Delivered(c, i), ~InHistory(r, i)
  PROVE  RowGrows(r, Credited(r, i, c[i].amount))
<1> DEFINE q == Credited(r, i, c[i].amount)
<1>1. /\ q.cycles = r.cycles + 1 /\ q.pending = r.pending
      /\ \A v : InHistory(q, v) <=> InHistory(r, v) \/ v = i
  BY CreditedBacked
<1>2. r.cycles \in Nat
  BY DEF Row
<1> HIDE DEF q
<1>3. RowGrows(r, q)
  BY <1>1, <1>2 DEF RowGrows
<1> QED BY <1>3 DEF q

LEMMA AcceptedGrows ==
  ASSUME NEW c \in Seq(Transfer), Len(c) <= HistoryMax, NEW s, NEW r \in Row, Backed(c, s, r),
         r.status # "none", NEW k \in DOMAIN r.pending, r.pending[k].status # "accepted",
         c[r.pending[k].offer].fate = "accepted"
  PROVE  RowGrows(r, creditAcceptedOffer(r, k, -r.pending[k].offer))
<1> DEFINE u == -r.pending[k].offer
           q == creditAcceptedOffer(r, k, u)
           p == [r.pending EXCEPT ![k].status = "accepted"]
<1>1. /\ q.cycles = MaxOf(r.cycles, r.pending[k].cycle) /\ q.pending = p
      /\ \A v : InHistory(q, v) <=> InHistory(r, v) \/ v = u
  BY AcceptedBacked
<1>2. r.cycles \in Nat /\ r.pending[k].cycle \in Nat /\ r.pending[k].offer \in Nat \ {0}
  BY PendingAt DEF Row
<1>3. /\ DOMAIN p = DOMAIN r.pending
      /\ \A l \in DOMAIN r.pending : p[l].offer = r.pending[l].offer /\ p[l].cycle = r.pending[l].cycle
  <2>1. r.pending \in Seq(PendingTransfer)
    BY DEF Row
  <2> QED BY <2>1, MarkedPending
<1>4. u \notin Nat
  BY <1>2
<1>5. q.cycles >= r.cycles
  BY <1>1, <1>2 DEF MaxOf
<1> HIDE DEF q, p, u
<1>6. RowGrows(r, q)
  BY <1>1, <1>3, <1>4, <1>5 DEF RowGrows
<1> QED BY <1>6 DEF q, u

LEMMA WithdrawnGrows ==
  ASSUME NEW r \in Row, NEW k \in DOMAIN r.pending
  PROVE  RowGrows(r, [r EXCEPT !.pending[k].status = "withdrawn"])
<1> DEFINE q == [r EXCEPT !.pending[k].status = "withdrawn"]
           p == [r.pending EXCEPT ![k].status = "withdrawn"]
<1>1. q.cycles = r.cycles /\ q.history = r.history /\ q.pending = p
  BY WithdrawnType
<1>2. r.cycles \in Nat
  BY DEF Row
<1>3. /\ DOMAIN p = DOMAIN r.pending
      /\ \A l \in DOMAIN r.pending : p[l].offer = r.pending[l].offer /\ p[l].cycle = r.pending[l].cycle
  <2>1. r.pending \in Seq(PendingTransfer)
    BY DEF Row
  <2> QED BY <2>1, MarkedPending
<1> HIDE DEF q, p
<1>4. \A v : InHistory(q, v) <=> InHistory(r, v)
  BY <1>1 DEF InHistory
<1>5. RowGrows(r, q)
  BY <1>1, <1>2, <1>3, <1>4 DEF RowGrows
<1> QED BY <1>5 DEF q

\* A longer list of offers.
LEMMA LongerGrows ==
  ASSUME NEW r \in Row, NEW q, q.cycles = r.cycles, \A v : InHistory(q, v) <=> InHistory(r, v),
         \A k \in DOMAIN r.pending : k \in DOMAIN q.pending /\ q.pending[k] = r.pending[k]
  PROVE  RowGrows(r, q)
<1>1. r.cycles \in Nat
  BY DEF Row
<1> QED BY <1>1 DEF RowGrows

LEMMA StoppedGrows ==
  ASSUME NEW r \in Row
  PROVE  RowGrows(r, [r EXCEPT !.status = "stopped", !.rate = 0])
<1> DEFINE q == [r EXCEPT !.status = "stopped", !.rate = 0]
<1>1. q.cycles = r.cycles /\ q.history = r.history /\ q.pending = r.pending /\ r.cycles \in Nat
  BY DEF Row
<1> HIDE DEF q
<1>2. RowGrows(r, q)
  BY <1>1 DEF RowGrows, InHistory
<1> QED BY <1>2 DEF q

LEMMA FreshGrows ==
  ASSUME NEW s
  PROVE  RowGrows(NoRow, Fresh(s))
<1> DEFINE e == <<>>
           q == Fresh(s)
<1>1. q.cycles = 0 /\ q.history = e /\ q.pending = e
  BY FreshIs
<1>2. NoRow.cycles = 0 /\ NoRow.history = e /\ NoRow.pending = e
  BY DEF NoRow
<1>3. DOMAIN e = {}
  OBVIOUS
<1> HIDE DEF q, e
<1>4. RowGrows(NoRow, q)
  BY <1>1, <1>2, <1>3 DEF RowGrows, InHistory
<1> QED BY <1>4 DEF q

----------------------------------------------------------------------------
\* What an operation o holds in hand: a reading of its row that only grew, and, where it
\* goes on to pay, one that waits for no offer.
OpPays(o, st) ==
  /\ o.phase = "reconcile" => RowGrows(st[o.s], o.store[o.s])
  /\ o.phase \in {"submit", "prepare"} => Outstanding(st[o.s]) = {}
  /\ o.phase = "sync" /\ o.next # Idle => Outstanding(st[o.next.s]) = {}
Pays ==
  /\ OwnCommands(chain, row)
  /\ \A w \in Workers : OpPays(op[w], row)
PayInv == BookInv /\ Pays

LEMMA IdlePaysNothing ==
  ASSUME NEW st PROVE OpPays(Idle, st)
BY DEF OpPays, Idle

\* A step of the worker that holds the lock, or finds it free, in which the row of s
\* may grow, and the chain stays.
LEMMA HolderKeepsPays ==
  ASSUME PayInv, NEW w \in Workers, op[w] # Idle \/ Free(w), NEW o \in Operation, Do(w, o),
         UNCHANGED chain, NEW s \in Streams, row' \in Store,
         \A t \in Streams : t # s => row'[t] = row[t], RowGrows(row[s], row'[s]),
         OpPays(o, row')
  PROVE  Pays'
<1>1. LaneTypeOK /\ Locked /\ chain \in Seq(Transfer) /\ row \in Store /\ op \in [Workers -> Operation]
  BY DEF PayInv, BookInv, OpInv, LaneTypeOK
<1>2. \A v \in Workers : op'[v] = IF v = w THEN o ELSE Idle
  BY <1>1, LockHolderMoves
<1>3. \A v \in Workers : OpPays(op'[v], row')
  BY <1>2, IdlePaysNothing
<1>4. ASSUME NEW t \in Streams PROVE RowGrows(row[t], row'[t]) /\ row[t] \in Row /\ row'[t] \in Row
  <2>1. row[t] \in Row /\ row'[t] \in Row
    BY <1>1 DEF Store
  <2> QED BY <2>1, RowIsKept
<1>5. OwnCommands(chain', row')
  <2> SUFFICES ASSUME NEW i \in DOMAIN chain, chain[i].cmd # NoCommand
               PROVE  Commanded(chain, row'[chain[i].stream], i)
    BY DEF OwnCommands
  <2>1. Commanded(chain, row[chain[i].stream], i)
    BY DEF PayInv, Pays, OwnCommands
  <2> DEFINE t == chain[i].stream
  <2>2. t \in Streams
    BY <1>1, ChainAt
  <2>3. RowGrows(row[t], row'[t]) /\ row[t] \in Row /\ row'[t] \in Row
    BY <1>4, <2>2
  <2>4. Commanded(chain, row[t], i)
    BY <2>1
  <2> HIDE DEF t
  <2>5. Commanded(chain, row'[t], i)
    BY <1>1, <2>3, <2>4, CommandedOn
  <2> QED BY <2>5 DEF t
<1> QED BY <1>3, <1>5 DEF Pays

\* The row stays as well.
LEMMA HolderMovesOn ==
  ASSUME PayInv, NEW w \in Workers, op[w] # Idle \/ Free(w), NEW o \in Operation, Do(w, o),
         UNCHANGED <<chain, row>>, NEW s \in Streams, OpPays(o, row')
  PROVE  Pays'
<1>1. row \in Store /\ row[s] \in Row
  BY DEF PayInv, BookInv, OpInv, LaneTypeOK, Store
<1>2. RowGrows(row[s], row'[s])
  BY <1>1, RowIsKept
<1>3. row' \in Store
  BY <1>1
<1> QED BY <1>2, <1>3, HolderKeepsPays

LEMMA CrashKeepsPays ==
  ASSUME PayInv, NEW w \in Workers, ProxyCrash(w)
  PROVE  Pays'
<1>1. op[w] # Idle /\ Do(w, Idle) /\ UNCHANGED <<chain, row>>
  BY DEF ProxyCrash
<1>2. Idle \in Operation /\ OpPays(Idle, row')
  BY IdlePaysNothing DEF Operation
<1>3. op[w] \in Operation
  BY DEF PayInv, BookInv, OpInv, LaneTypeOK
<1>4. op[w].s \in Streams
  BY <1>1, <1>3, OperationFields
<1> QED BY <1>1, <1>2, <1>4, HolderMovesOn

----------------------------------------------------------------------------
\* The row of s is saved, with something to sync and then nothing to go on with.
LEMMA RowKeepsPays ==
  ASSUME PayInv, NEW w \in Workers, op[w] # Idle \/ Free(w), NEW s \in Streams, NEW r \in Row,
         row' = [row EXCEPT ![s] = r], NEW syncs \in Seq(SyncItem), SyncThen(w, s, syncs, Idle),
         UNCHANGED chain, RowGrows(row[s], r)
  PROVE  Pays'
<1> DEFINE o == AfterSync(s, syncs, Idle)
<1>1. Do(w, o)
  BY DEF SyncThen, AfterSync
<1>2. o \in Operation
  BY SyncInHand
<1>3. OpPays(o, row')
  BY IdlePaysNothing DEF AfterSync, OpPays
<1>4. row \in Store
  BY DEF PayInv, BookInv, OpInv, LaneTypeOK
<1>5. row' \in Store
  BY <1>4, StoreExcept
<1>6. row'[s] = r /\ \A t \in Streams : t # s => row'[t] = row[t]
  BY <1>4 DEF Store
<1> HIDE DEF o
<1> QED BY <1>1, <1>2, <1>3, <1>5, <1>6, HolderKeepsPays

LEMMA ReconcileKeepsPays ==
  ASSUME PayInv, NEW w \in Workers, op[w] # Idle \/ Free(w), NEW s \in Streams,
         NEW purpose \in {"submit", "prepare"}, NEW rows \in Store, NEW syncs \in Seq(SyncItem),
         \A t \in Streams : t # s => rows[t] = row[t],
         rows[s].status = row[s].status, row[s].status # "none",
         purpose = "submit" => s \in Hosted /\ row[s].status # "stopped",
         RowGrows(row[s], rows[s]), ReconcileThen(w, s, purpose, rows, syncs), UNCHANGED chain
  PROVE  Pays'
<1>1. CASE /\ Outstanding(rows[s]) # {}
           /\ Do(w, [phase |-> "reconcile", s |-> s, purpose |-> purpose, store |-> rows,
                     syncs |-> syncs])
           /\ UNCHANGED row
  <2> DEFINE o == [phase |-> "reconcile", s |-> s, purpose |-> purpose, store |-> rows, syncs |-> syncs]
  <2>1. o \in Operation
    BY DEF Operation
  <2>2. o.phase = "reconcile" /\ o.s = s /\ o.store = rows
    OBVIOUS
  <2>3. Do(w, o)
    BY <1>1
  <2> HIDE DEF o
  <2>4. OpPays(o, row')
    BY <1>1, <2>2 DEF OpPays
  <2> QED BY <1>1, <2>1, <2>3, <2>4, HolderMovesOn
<1>2. CASE /\ Outstanding(rows[s]) = {} /\ row' = rows
           /\ SyncThen(w, s, syncs, [phase |-> purpose, s |-> s, store |-> rows])
  <2> DEFINE next == [phase |-> purpose, s |-> s, store |-> rows]
             o == AfterSync(s, syncs, next)
  <2>1. next \in Settling
    BY DEF Settling
  <2>2. next.phase = purpose /\ next.s = s /\ next.store = rows
    OBVIOUS
  <2>3. Do(w, o)
    BY <1>2 DEF SyncThen, AfterSync
  <2> HIDE DEF next
  <2>4. ReadyToSettle(next, rows)
    BY <2>2 DEF ReadyToSettle
  <2>5. o \in Operation
    BY <2>1, <2>4, SyncInHand
  <2>6. OpPays(o, row')
    <3>1. OpPays(next, row')
      BY <1>2, <2>2 DEF OpPays
    <3>2. CASE syncs = <<>>
      BY <3>1, <3>2 DEF AfterSync
    <3>3. CASE syncs # <<>>
      <4>1. o.phase = "sync" /\ o.next = next
        BY <3>3 DEF AfterSync
      <4> HIDE DEF o
      <4> QED BY <1>2, <2>2, <4>1 DEF OpPays
    <3> QED BY <3>2, <3>3
  <2> HIDE DEF o
  <2> QED BY <1>2, <2>3, <2>5, <2>6, HolderKeepsPays
<1> QED BY <1>1, <1>2 DEF ReconcileThen

LEMMA BeginKeepsPays ==
  ASSUME PayInv, NEW w \in Workers, NEW s \in Streams, NEW purpose \in {"submit", "prepare"},
         BeginSettle(w, s, purpose)
  PROVE  Pays'
<1>1. /\ Free(w) /\ row[s].status # "none"
      /\ purpose = "submit" => s \in Hosted /\ row[s].status # "stopped"
      /\ ReconcileThen(w, s, purpose, row, <<>>)
      /\ UNCHANGED chain
  BY DEF BeginSettle
<1>2. row \in Store /\ <<>> \in Seq(SyncItem) /\ row[s] \in Row
  BY DEF PayInv, BookInv, OpInv, LaneTypeOK, Store
<1>3. RowGrows(row[s], row[s])
  BY <1>2, RowIsKept
<1> QED BY <1>1, <1>2, <1>3, ReconcileKeepsPays

LEMMA ReconcilingKeepsPays ==
  ASSUME HistoryFits, PayInv, NEW w \in Workers, reconcileOutstandingOffers(w)
  PROVE  Pays'
<1> DEFINE s == op[w].s
           rows == op[w].store
           r == rows[s]
           syncs == op[w].syncs
           purpose == op[w].purpose
<1>0. op[w].phase = "reconcile" /\ UNCHANGED chain
  BY DEF reconcileOutstandingOffers
<1>1. /\ op[w] # Idle /\ s \in Streams /\ rows \in Store /\ r \in Row
      /\ purpose \in {"submit", "prepare"} /\ syncs \in Seq(SyncItem)
      /\ \A t \in Streams : t # s => rows[t] = row[t]
      /\ r.status = row[s].status /\ row[s].status # "none"
      /\ purpose = "submit" => s \in Hosted /\ row[s].status # "stopped"
  BY <1>0, ReconcilingFacts DEF PayInv, BookInv
<1>2. PICK k \in Outstanding(r) :
        \/ /\ chain[r.pending[k].offer].fate = "accepted"
           /\ ReconcileThen(w, s, purpose, [rows EXCEPT ![s] = creditAcceptedOffer(r, k, -r.pending[k].offer)],
                            Append(syncs, ToSync(-r.pending[k].offer, r.pending[k].amount, FALSE)))
        \/ ReconcileThen(w, s, purpose, [rows EXCEPT ![s] = [r EXCEPT !.pending[k].status = "withdrawn"]],
                         syncs)
        \/ row' = rows /\ SyncThen(w, s, syncs, Idle)
  BY DEF reconcileOutstandingOffers
<1>3. k \in DOMAIN r.pending /\ r.pending[k].status # "accepted"
  BY DEF Outstanding
<1>4. Backed(chain, s, r)
  BY <1>0 DEF PayInv, BookInv, Books, OpBooks
<1>5. RowGrows(row[s], r)
  BY <1>0 DEF PayInv, Pays, OpPays
<1> HIDE DEF s, rows, r, syncs, purpose
<1>6. r.pending[k].offer \in Nat \ {0} /\ r.pending[k].amount \in Nat \ {0}
  BY <1>1, <1>3, PendingAt
<1>7. Len(chain) <= HistoryMax /\ chain \in Seq(Transfer) /\ row[s] \in Row
  BY <1>1, HistoryIsRoomy, RowAt DEF PayInv, BookInv, OpInv
<1>8. r = rows[s]
  BY DEF r, rows, s
<1>9. CASE /\ chain[r.pending[k].offer].fate = "accepted"
           /\ ReconcileThen(w, s, purpose, [rows EXCEPT ![s] = creditAcceptedOffer(r, k, -r.pending[k].offer)],
                            Append(syncs, ToSync(-r.pending[k].offer, r.pending[k].amount, FALSE)))
  <2> DEFINE u == -r.pending[k].offer
             q == creditAcceptedOffer(r, k, u)
             e == ToSync(u, r.pending[k].amount, FALSE)
             st == [rows EXCEPT ![s] = q]
             next == Append(syncs, e)
  <2>1. u \in Int
    BY <1>6
  <2>2. e \in SyncItem
    BY <1>6, <2>1 DEF ToSync, SyncItem
  <2>3. q \in Row /\ q.status = r.status
    BY <1>1, <1>3, <2>1, AcceptedType
  <2>4. RowGrows(r, q)
    BY <1>1, <1>3, <1>4, <1>7, <1>9, AcceptedGrows
  <2>5. ReconcileThen(w, s, purpose, st, next)
    BY <1>9
  <2>6. next \in Seq(SyncItem)
    <3> HIDE DEF e
    <3> QED BY <1>1, <2>2
  <2> HIDE DEF q, u, e, next
  <2>7. st \in Store /\ st[s] = q /\ st[s].status = rows[s].status /\ \A t \in Streams : t # s => st[t] = rows[t]
    BY <1>1, <1>8, <2>3, RefreshedStore
  <2> HIDE DEF st
  <2>8. st[s].status = row[s].status /\ \A t \in Streams : t # s => st[t] = row[t]
    BY <1>1, <1>8, <2>7
  <2>9. RowGrows(row[s], st[s])
    BY <1>1, <1>5, <1>7, <2>3, <2>4, <2>7, RowGrowsOn
  <2> QED BY <1>0, <1>1, <1>5, <2>5, <2>6, <2>7, <2>8, <2>9, ReconcileKeepsPays
<1>10. CASE ReconcileThen(w, s, purpose, [rows EXCEPT ![s] = [r EXCEPT !.pending[k].status = "withdrawn"]],
                         syncs)
  <2> DEFINE q == [r EXCEPT !.pending[k].status = "withdrawn"]
             st == [rows EXCEPT ![s] = q]
  <2>1. q \in Row /\ q.status = r.status
    BY <1>1, <1>3, WithdrawnType
  <2>2. ReconcileThen(w, s, purpose, st, syncs)
    BY <1>10
  <2>3. RowGrows(r, q)
    BY <1>1, <1>3, WithdrawnGrows
  <2> HIDE DEF q
  <2>4. st \in Store /\ st[s] = q /\ st[s].status = rows[s].status /\ \A t \in Streams : t # s => st[t] = rows[t]
    BY <1>1, <1>8, <2>1, RefreshedStore
  <2> HIDE DEF st
  <2>5. st[s].status = row[s].status /\ \A t \in Streams : t # s => st[t] = row[t]
    BY <1>1, <1>8, <2>4
  <2>6. RowGrows(row[s], st[s])
    BY <1>1, <1>5, <1>7, <2>1, <2>3, <2>4, RowGrowsOn
  <2> QED BY <1>0, <1>1, <1>5, <2>2, <2>4, <2>5, <2>6, ReconcileKeepsPays
<1>11. CASE row' = rows /\ SyncThen(w, s, syncs, Idle)
  <2> DEFINE o == AfterSync(s, syncs, Idle)
  <2>1. Do(w, o)
    BY <1>11 DEF SyncThen, AfterSync
  <2>2. o \in Operation
    BY <1>1, SyncInHand
  <2>3. OpPays(o, row')
    BY IdlePaysNothing DEF AfterSync, OpPays
  <2> HIDE DEF o
  <2> QED BY <1>0, <1>1, <1>5, <1>8, <1>11, <2>1, <2>2, <2>3, HolderKeepsPays
<1> QED BY <1>2, <1>9, <1>10, <1>11

LEMMA SaveCreatedKeepsPays ==
  ASSUME PayInv, NEW w \in Workers, SaveCreated(w)
  PROVE  Pays'
<1> DEFINE s == op[w].s
           r == Fresh(s)
<1>1. op[w].phase = "create" /\ row' = op[w].store /\ Do(w, Idle) /\ UNCHANGED chain
  BY DEF SaveCreated
<1>2. op[w] \in Operation /\ InHand(op[w], row, chain)
  BY DEF PayInv, BookInv, OpInv, LaneTypeOK
<1>3. op[w] # Idle /\ s \in Streams /\ row[s].status = "none" /\ row' = [row EXCEPT ![s] = r]
  BY <1>1, <1>2, OperationFields DEF InHand
<1> HIDE DEF s
<1>5. row[s] = NoRow
  BY <1>3 DEF PayInv, BookInv, Books, Backed
<1>6. r \in Row /\ RowGrows(row[s], r)
  BY <1>3, <1>5, FreshType, FreshGrows
<1>7. SyncThen(w, s, <<>>, Idle) /\ <<>> \in Seq(SyncItem)
  BY <1>1, NothingToSync
<1> HIDE DEF r
<1> QED BY <1>1, <1>3, <1>6, <1>7, RowKeepsPays

LEMMA StopKeepsPays ==
  ASSUME PayInv, NEW w \in Workers, NEW s \in Streams, stopStream(w, s)
  PROVE  Pays'
<1> DEFINE r == [row[s] EXCEPT !.status = "stopped", !.rate = 0]
<1>1. Free(w) /\ row' = [row EXCEPT ![s] = r] /\ UNCHANGED <<chain, op>>
  BY DEF stopStream
<1>2. row[s] \in Row /\ LaneTypeOK
  BY RowAt DEF PayInv, BookInv, OpInv
<1>3. r \in Row
  BY <1>2, StoppedType
<1>4. RowGrows(row[s], r)
  BY <1>2, StoppedGrows
<1>5. SyncThen(w, s, <<>>, Idle) /\ <<>> \in Seq(SyncItem)
  BY <1>1, <1>2, FreeIsIdle
<1> HIDE DEF r
<1> QED BY <1>1, <1>3, <1>4, <1>5, RowKeepsPays

----------------------------------------------------------------------------
LEMMA PaymentKeepsPays ==
  ASSUME HistoryFits, PayInv, NEW w \in Workers, op[w] # Idle \/ Free(w), NEW s \in Streams,
         row[s].status # "none", NEW i \in DOMAIN chain, chain[i].stream = s, ~InHistory(row[s], i),
         \/ /\ chain[i].land = "offer"
            /\ row' = [row EXCEPT ![s] = WithPending(row[s], i, chain[i].amount)]
            /\ SyncThen(w, s, <<>>, Idle)
         \/ /\ chain[i].land # "offer"
            /\ row' = [row EXCEPT ![s] = Credited(row[s], i, chain[i].amount)]
            /\ SyncThen(w, s, <<ToSync(i, chain[i].amount, TRUE)>>, Idle),
         UNCHANGED chain
  PROVE  Pays'
<1> DEFINE a == chain[i].amount
           p == WithPending(row[s], i, a)
           c == Credited(row[s], i, a)
           e == ToSync(i, a, TRUE)
<1>1. LaneTypeOK /\ Backed(chain, s, row[s]) /\ Landed(chain)
  BY DEF PayInv, BookInv, Books, OpInv
<1>2. row[s] \in Row /\ Len(chain) <= HistoryMax /\ chain \in Seq(Transfer)
  BY <1>1, RowAt, HistoryIsRoomy DEF PayInv, BookInv
<1>3. i \in Nat \ {0} /\ i \in Int /\ a \in Nat \ {0} /\ chain[i].land \in {"direct", "offer"}
  BY <1>2, ChainAt
<1>4. p \in Row /\ c \in Row
  BY <1>2, <1>3, WithPendingType, CreditedType
<1>5. CASE chain[i].land = "offer"
  <2>5. p.cycles = row[s].cycles
    BY <1>1, <1>2, <1>5, WithPendingBacked
  <2>6. \A v : InHistory(p, v) <=> InHistory(row[s], v)
    BY <1>1, <1>2, <1>5, WithPendingBacked
  <2>7. \A k \in DOMAIN row[s].pending : k \in DOMAIN p.pending /\ p.pending[k] = row[s].pending[k]
    BY <1>1, <1>2, <1>5, WithPendingBacked
  <2>2. row' = [row EXCEPT ![s] = p] /\ SyncThen(w, s, <<>>, Idle) /\ <<>> \in Seq(SyncItem)
    BY <1>5
  <2> HIDE DEF p
  <2>3. RowGrows(row[s], p)
    BY <1>2, <2>5, <2>6, <2>7, LongerGrows
  <2> QED BY <1>4, <2>2, <2>3, RowKeepsPays
<1>6. CASE chain[i].land # "offer"
  <2>1. chain[i].land = "direct" /\ Delivered(chain, i)
    BY <1>1, <1>3, <1>6 DEF Landed, Delivered
  <2>2. RowGrows(row[s], c)
    BY <1>1, <1>2, <2>1, CreditedGrows
  <2>3. row' = [row EXCEPT ![s] = c] /\ SyncThen(w, s, <<e>>, Idle)
    BY <1>6
  <2>4. <<e>> \in Seq(SyncItem)
    BY <1>3, OneSync
  <2> HIDE DEF c, e
  <2> QED BY <1>4, <2>2, <2>3, <2>4, RowKeepsPays
<1> QED BY <1>3, <1>5, <1>6

LEMMA SaveKeepsPays ==
  ASSUME HistoryFits, PayInv, NEW w \in Workers, Save(w)
  PROVE  Pays'
<1> DEFINE s == op[w].s
           i == op[w].xfer
           a == chain[i].amount
<1>1. op[w].phase = "save" /\ UNCHANGED chain
  BY DEF Save
<1>2. /\ op[w] # Idle /\ s \in Streams /\ op[w].store = row /\ row[s].status # "none"
      /\ i \in DOMAIN chain
  BY <1>1, SavingFacts DEF PayInv, BookInv
<1>3. chain[i].stream = s /\ ~InHistory(row[s], i)
  BY <1>1 DEF PayInv, BookInv, Books, OpBooks
<1>4. \/ chain[i].land = "offer" /\ row' = [row EXCEPT ![s] = WithPending(row[s], i, a)] /\ Do(w, Idle)
      \/ /\ chain[i].land # "offer" /\ row' = [row EXCEPT ![s] = Credited(row[s], i, a)]
         /\ SyncThen(w, s, <<ToSync(i, a, TRUE)>>, Idle)
  BY <1>2 DEF Save
<1>5. \/ /\ chain[i].land = "offer" /\ row' = [row EXCEPT ![s] = WithPending(row[s], i, a)]
         /\ SyncThen(w, s, <<>>, Idle)
      \/ /\ chain[i].land # "offer" /\ row' = [row EXCEPT ![s] = Credited(row[s], i, a)]
         /\ SyncThen(w, s, <<ToSync(i, a, TRUE)>>, Idle)
  BY <1>4, NothingToSync
<1> HIDE DEF s, i
<1> QED BY <1>1, <1>2, <1>3, <1>5, PaymentKeepsPays

LEMMA RecordSettleKeepsPays ==
  ASSUME HistoryFits, PayInv, NEW w \in Workers, NEW s \in Streams, NEW i \in DOMAIN chain,
         recordSettle(w, s, i)
  PROVE  Pays'
<1> DEFINE a == chain[i].amount
<1>1. /\ Free(w) /\ row[s].status # "none" /\ chain[i].stream = s /\ ~InHistory(row[s], i)
      /\ UNCHANGED chain
      /\ \/ chain[i].land = "offer" /\ row' = [row EXCEPT ![s] = WithPending(row[s], i, a)] /\ UNCHANGED op
         \/ /\ chain[i].land # "offer" /\ row' = [row EXCEPT ![s] = Credited(row[s], i, a)]
            /\ SyncThen(w, s, <<ToSync(i, a, TRUE)>>, Idle)
  BY DEF recordSettle
<1>2. UNCHANGED op => SyncThen(w, s, <<>>, Idle)
  BY <1>1, FreeIsIdle DEF PayInv, BookInv, OpInv
<1> QED BY <1>1, <1>2, PaymentKeepsPays

LEMMA RecoverKeepsPays ==
  ASSUME OwnOffers, PayInv, NEW w \in Workers, NEW s \in Streams, recoverPendingOffers(w, s)
  PROVE  Pays'
<1>1. row[s] \in Row
  BY RecoveredOffers DEF PayInv, BookInv
<1>2. PICK size \in Nat, first \in Nat \ {0} : \E offers \in [1 .. size -> DOMAIN chain] :
        RecoveredAs(s, size, first, offers)
  BY RecoveredOffers DEF PayInv, BookInv
<1>20. PICK offers \in [1 .. size -> DOMAIN chain] : RecoveredAs(s, size, first, offers)
  BY <1>2
<1>3. /\ \A n \in 1 .. size : offers[n] \in Unknown(s)
      /\ \A m, n \in 1 .. size : offers[m] = offers[n] => m = n
      /\ row' = [row EXCEPT ![s] = [row[s] EXCEPT !.pending =
                                     row[s].pending \o Adopted(chain, offers, size, first)]]
  BY <1>20 DEF RecoveredAs
<1> DEFINE q == Adopted(chain, offers, size, first)
           r == [row[s] EXCEPT !.pending = row[s].pending \o q]
<1>4. chain \in Seq(Transfer) /\ Backed(chain, s, row[s]) /\ LaneTypeOK
  BY DEF PayInv, BookInv, Books, OpInv, LaneTypeOK
<1>5. Recovers /\ Free(w) /\ row[s].status # "none" /\ UNCHANGED <<chain, op>>
  BY DEF recoverPendingOffers
<1>6. \A n \in 1 .. size :
           /\ chain[offers[n]].stream = s /\ chain[offers[n]].land = "offer"
           /\ \A k \in DOMAIN row[s].pending : row[s].pending[k].offer # offers[n]
  <2> SUFFICES ASSUME NEW n \in 1 .. size
               PROVE /\ chain[offers[n]].stream = s /\ chain[offers[n]].land = "offer"
                     /\ \A k \in DOMAIN row[s].pending : row[s].pending[k].offer # offers[n]
    OBVIOUS
  <2>1. offers[n] \in Unknown(s)
    BY <1>3
  <2> DEFINE i == offers[n]
  <2>2. /\ i \in DOMAIN chain /\ chain[i].fate = "open" /\ Pair[chain[i].stream] = Pair[s]
        /\ \A k \in DOMAIN row[s].pending : row[s].pending[k].offer # i
    BY <2>1 DEF Unknown
  <2> HIDE DEF i
  <2>3. chain[i].stream \in Streams /\ chain[i].land \in {"direct", "offer"}
    BY <1>4, <2>2, ChainAt
  <2>4. chain[i].stream = s
    BY <1>5, <2>2, <2>3 DEF OwnOffers
  <2>5. chain[i].land = "offer"
    BY <2>2, <2>3 DEF PayInv, BookInv, Books, Landed
  <2> QED BY <2>2, <2>4, <2>5 DEF i
<1>7. \A m, n \in 1 .. size : offers[m] = offers[n] => m = n
  BY <1>3
<1>8. Recoverable(chain, s, row[s], offers, size)
  BY <1>6, <1>7 DEF Recoverable
<1>9. /\ r.cycles = row[s].cycles /\ (\A v : InHistory(r, v) <=> InHistory(row[s], v))
      /\ \A k \in DOMAIN row[s].pending : k \in DOMAIN r.pending /\ r.pending[k] = row[s].pending[k]
      /\ \A n \in 1 .. size : \E k \in DOMAIN r.pending : r.pending[k].offer = offers[n]
      /\ \A k \in DOMAIN r.pending : k \notin DOMAIN row[s].pending =>
           \E n \in 1 .. size : r.pending[k].offer = offers[n]
  <2> DEFINE p == row[s]
  <2>1. p \in Row /\ Backed(chain, s, p) /\ p.status # "none" /\ Recoverable(chain, s, p, offers, size)
    BY <1>1, <1>4, <1>5, <1>8
  <2>4. q \in Seq(PendingTransfer) /\ q = Adopted(chain, offers, size, first)
    BY <1>4, RecoveredType
  <2> HIDE DEF q
  <2>2. Adds(p, q, p.pending \o q, r)
    BY <1>1, <2>4, MoreOffersAdds
  <2> HIDE DEF p, r
  <2>3. r.cycles = p.cycles /\ Remembers(p, r, offers, size)
    BY <1>4, <2>1, <2>2, <2>4, AdoptedBacked
  <2> QED BY <2>3 DEF p, Remembers
<1>10. q \in Seq(PendingTransfer)
  BY <1>4, RecoveredType
<1>11. row' = [row EXCEPT ![s] = r]
  BY <1>3
<1> HIDE DEF q
<1>12. r \in Row
  BY <1>1, <1>10, MoreOffers
<1> HIDE DEF r
<1>13. SyncThen(w, s, <<>>, Idle) /\ <<>> \in Seq(SyncItem)
  BY <1>4, <1>5, FreeIsIdle
<1>14. RowGrows(row[s], r)
  BY <1>1, <1>9, LongerGrows
<1> QED BY <1>5, <1>11, <1>12, <1>13, <1>14, RowKeepsPays

LEMMA RecordAcceptKeepsPays ==
  ASSUME HistoryFits, PayInv, NEW w \in Workers, NEW s \in Streams, NEW k \in DOMAIN row[s].pending,
         recordAcceptTransfer(w, s, k)
  PROVE  Pays'
<1> DEFINE r == row[s]
           u == -r.pending[k].offer
           e == ToSync(u, r.pending[k].amount, FALSE)
           q == creditAcceptedOffer(r, k, u)
<1>1. /\ Free(w) /\ UNCHANGED chain
      /\ r.pending[k].status # "accepted" /\ chain[r.pending[k].offer].fate = "accepted"
      /\ row' = [row EXCEPT ![s] = q] /\ SyncThen(w, s, <<e>>, Idle)
  BY DEF recordAcceptTransfer
<1>2. LaneTypeOK /\ Backed(chain, s, r)
  BY DEF PayInv, BookInv, Books, OpInv
<1>3. r \in Row /\ Len(chain) <= HistoryMax /\ chain \in Seq(Transfer)
  BY <1>2, RowAt, HistoryIsRoomy DEF PayInv, BookInv
<1>4. u \in Int /\ r.pending[k].amount \in Nat \ {0}
  BY <1>3, PendingAt
<1>5. r.status # "none"
  BY <1>2 DEF Backed, NoRow
<1>6. RowGrows(r, q)
  BY <1>1, <1>2, <1>3, <1>5, AcceptedGrows
<1>7. q \in Row
  BY <1>3, <1>4, AcceptedType
<1>8. <<e>> \in Seq(SyncItem)
  BY <1>4, OneSync
<1> HIDE DEF q, e
<1> QED BY <1>1, <1>6, <1>7, <1>8, RowKeepsPays

LEMMA RecordWithdrawKeepsPays ==
  ASSUME PayInv, NEW w \in Workers, NEW s \in Streams, NEW k \in DOMAIN row[s].pending,
         recordWithdrawTransfer(w, s, k)
  PROVE  Pays'
<1> DEFINE r == row[s]
           q == [r EXCEPT !.pending[k].status = "withdrawn"]
<1>1. /\ Free(w) /\ UNCHANGED <<chain, op>>
      /\ row' = [row EXCEPT ![s] = q]
  BY DEF recordWithdrawTransfer
<1>2. LaneTypeOK /\ r \in Row
  BY RowAt DEF PayInv, BookInv, OpInv
<1>3. q \in Row /\ RowGrows(r, q)
  BY <1>2, WithdrawnType, WithdrawnGrows
<1> HIDE DEF q
<1>5. SyncThen(w, s, <<>>, Idle) /\ <<>> \in Seq(SyncItem)
  BY <1>1, <1>2, FreeIsIdle
<1> QED BY <1>1, <1>3, <1>5, RowKeepsPays

----------------------------------------------------------------------------
LEMMA CreateKeepsPays ==
  ASSUME PayInv, NEW w \in Workers, NEW s \in Streams, createStream(w, s)
  PROVE  Pays'
<1> DEFINE st == [row EXCEPT ![s] = Fresh(s)]
           o == [phase |-> "create", s |-> s, store |-> st]
<1>1. Free(w) /\ Do(w, o) /\ UNCHANGED <<chain, row>>
  BY DEF createStream, Fresh
<1>2. st \in Store
  BY FreshType, StoreExcept DEF PayInv, BookInv, OpInv, LaneTypeOK
<1> HIDE DEF st
<1>3. o \in Operation
  BY <1>2 DEF Operation
<1>4. o.phase = "create"
  OBVIOUS
<1> HIDE DEF o
<1>5. OpPays(o, row')
  BY <1>4 DEF OpPays
<1> QED BY <1>1, <1>3, <1>5, HolderMovesOn

LEMMA GiveUpKeepsPays ==
  ASSUME PayInv, NEW w \in Workers, GiveUp(w) \/ prepareSettle(w)
  PROVE  Pays'
<1>1. op[w].phase \in {"submit", "prepare"} /\ Do(w, Idle) /\ UNCHANGED <<chain, row>>
  BY DEF GiveUp, prepareSettle
<1>2. op[w] # Idle /\ op[w].s \in Streams
  BY <1>1, ReadyFacts DEF PayInv, BookInv
<1>3. OpPays(Idle, row') /\ Idle \in Operation
  BY IdlePaysNothing DEF Operation
<1> QED BY <1>1, <1>2, <1>3, HolderMovesOn

LEMMA SyncKeepsPays ==
  ASSUME PayInv, NEW w \in Workers, SyncContracts(w)
  PROVE  Pays'
<1> DEFINE next == op[w].next
           syncs == Tail(op[w].syncs)
           o == AfterSync(op[w].s, syncs, next)
<1>1. op[w].phase = "sync" /\ Do(w, o) /\ UNCHANGED <<chain, row>>
  BY SyncStep DEF PayInv, BookInv
<1>2. /\ op[w] # Idle /\ op[w].s \in Streams /\ syncs \in Seq(SyncItem)
      /\ next \in {Idle} \cup Settling /\ (next # Idle => ReadyToSettle(next, row))
  BY <1>1, SyncingFacts DEF PayInv, BookInv
<1>3. o \in Operation
  BY <1>2, SyncInHand
<1>4. next # Idle => Outstanding(row[next.s]) = {}
  BY <1>1 DEF PayInv, Pays, OpPays
<1> HIDE DEF next, syncs
<1>5. OpPays(o, row)
  <2>1. CASE syncs = <<>> /\ next = Idle
    BY <2>1, IdlePaysNothing DEF AfterSync
  <2>2. CASE syncs = <<>> /\ next # Idle
    <3>1. next.phase \in {"submit", "prepare"}
      BY <1>2, <2>2 DEF Settling
    <3>2. OpPays(next, row)
      BY <1>4, <2>2, <3>1 DEF OpPays
    <3> QED BY <2>2, <3>2 DEF AfterSync
  <2>3. CASE syncs # <<>>
    <3>1. o.phase = "sync" /\ o.next = next
      BY <2>3 DEF AfterSync
    <3> HIDE DEF o
    <3> QED BY <1>4, <3>1 DEF OpPays
  <2> QED BY <2>1, <2>2, <2>3
<1> HIDE DEF o
<1>6. OpPays(o, row')
  BY <1>1, <1>5
<1> QED BY <1>1, <1>2, <1>3, <1>6, HolderMovesOn

----------------------------------------------------------------------------
\* The chain goes on without the proxy.
LEMMA ChainKeepsPays ==
  ASSUME PayInv, Onward(chain, chain'), UNCHANGED <<row, op>>,
         \A i \in DOMAIN chain' : i \in DOMAIN chain \/ chain'[i].cmd = NoCommand
  PROVE  Pays'
<1>1. \A i \in DOMAIN chain : chain'[i].stream = chain[i].stream /\ chain'[i].cmd = chain[i].cmd
  BY DEF Onward
<1>2. OwnCommands(chain', row)
  <2> SUFFICES ASSUME NEW i \in DOMAIN chain', chain'[i].cmd # NoCommand
               PROVE  Commanded(chain', row[chain'[i].stream], i)
    BY DEF OwnCommands
  <2>1. i \in DOMAIN chain /\ Commanded(chain, row[chain[i].stream], i)
    BY <1>1 DEF PayInv, Pays, OwnCommands
  <2> QED BY <1>1, <2>1, CommandedOnward
<1> QED BY <1>2 DEF PayInv, Pays

\* The new transfer is the one its row would send.
LEMMA NewIsCommanded ==
  ASSUME NEW c \in Seq(Transfer), NEW s \in Hosted, NEW r \in Row, Backed(c, s, r), NEW d, NEW n,
         n = Len(c) + 1, d[n].stream = s, d[n].cmd = commandId(s, r)
  PROVE  Commanded(d, r, n)
<1> DEFINE m == r.cycles + 1
           a == Cardinality(OfCycle(r, m))
<1>1. m \in Nat \ {0} /\ a \in Nat /\ m <= r.cycles + 1
  <2>1. r.cycles \in Nat
    BY DEF Row
  <2> QED BY <2>1, CyclesFinite
<1>2. ~InHistory(r, n)
  BY NewIsUncounted
<1>3. n \notin DOMAIN c
  BY ChainAt
<1>4. \A k \in DOMAIN r.pending : r.pending[k].offer # n
  BY <1>3 DEF Backed, Remembered
<1>5. OthersOf(r, m, n) = OfCycle(r, m)
  BY <1>4 DEF OthersOf, OfCycle
<1>6. a <= Cardinality(OthersOf(r, m, n))
  BY <1>1, <1>5
<1>7. d[n].cmd = <<s, m, a>>
  BY CommandOf
<1> HIDE DEF m, a
<1> QED BY <1>1, <1>2, <1>6, <1>7 DEF Commanded

LEMMA SettleCycleKeepsPays ==
  ASSUME PayInv, NEW w \in Workers, settleCycle(w)
  PROVE  Pays'
<1> DEFINE s == op[w].s
           cmd == commandId(s, row[s])
           n == Len(chain) + 1
           o == [phase |-> "save", s |-> s, store |-> row, xfer |-> n]
<1>1. /\ s \in Hosted /\ s \in Streams /\ row[s] \in Row /\ op[w] # Idle
      /\ cmd \in Streams \X Nat \X Nat
      /\ \E amount \in Payable(s, row[s]) : Transferred(s, amount, cmd)
      /\ Do(w, o)
  BY SettledTransfer DEF PayInv, BookInv
<1>2. row' = row
  BY DEF settleCycle
<1>4. cmd = commandId(s, row[s])
  OBVIOUS
<1> HIDE DEF s, cmd
<1>5. PICK amount \in Payable(s, row[s]) : Transferred(s, amount, cmd)
  BY <1>1
<1>6. LaneTypeOK /\ now \in Nat /\ chain \in Seq(Transfer) /\ row \in Store
  BY MaxTimeAssumption DEF PayInv, BookInv, OpInv, LaneTypeOK
<1>7. amount \in Nat \ {0}
  BY <1>1, <1>6, PayableIs
<1>8. /\ Onward(chain, chain') /\ DOMAIN chain' = DOMAIN chain \cup {n} /\ n \notin DOMAIN chain
      /\ \A j \in DOMAIN chain : chain'[j] = chain[j]
      /\ chain'[n].stream = s /\ chain'[n].amount = amount /\ chain'[n].cmd = cmd
  <2>1. cmd \in {NoCommand} \cup (Streams \X Nat \X Nat)
    BY <1>1
  <2> QED BY <1>1, <1>5, <1>6, <1>7, <2>1, TransferMade
<1>10. Backed(chain, s, row[s])
  BY <1>1 DEF PayInv, BookInv, Books
<1>12. Commanded(chain', row[s], n)
  BY <1>1, <1>4, <1>6, <1>8, <1>10, NewIsCommanded
<1>13. n = Len(chain) + 1 /\ n \in Nat \ {0}
  BY <1>6, ChainAt
<1> HIDE DEF n
<1>14. o \in Operation
  BY <1>1, <1>6, <1>13 DEF Operation
<1>15. o.phase = "save" /\ o.s = s /\ o.xfer = n
  OBVIOUS
<1> HIDE DEF o
<1>16. \A v \in Workers : op'[v] = IF v = w THEN o ELSE Idle
  BY <1>1, <1>6, <1>14, LockHolderMoves DEF PayInv, BookInv, OpInv
<1>19. OwnCommands(chain', row)
  <2> SUFFICES ASSUME NEW i \in DOMAIN chain', chain'[i].cmd # NoCommand
               PROVE  Commanded(chain', row[chain'[i].stream], i)
    BY DEF OwnCommands
  <2>1. CASE i = n
    BY <1>8, <1>12, <2>1
  <2>2. CASE i \in DOMAIN chain
    <3>1. chain'[i] = chain[i]
      BY <1>8, <2>2
    <3>2. Commanded(chain, row[chain[i].stream], i)
      BY <2>2, <3>1 DEF PayInv, Pays, OwnCommands
    <3> QED BY <1>8, <2>2, <3>1, <3>2, CommandedOnward
  <2> QED BY <1>8, <2>1, <2>2
<1>20. \A v \in Workers : OpPays(op'[v], row)
  <2>1. OpPays(o, row)
    BY <1>15 DEF OpPays
  <2> QED BY <1>16, <2>1, IdlePaysNothing
<1> QED BY <1>2, <1>19, <1>20 DEF Pays

----------------------------------------------------------------------------
LEMMA LaneInitPays ==
  ASSUME LaneInit PROVE PayInv
<1>1. BookInv
  BY LaneInitBooks
<1> DEFINE e == <<>>
<1>2. chain = e /\ DOMAIN e = {}
  BY DEF LaneInit
<1>3. \A w \in Workers : OpPays(op[w], row)
  BY IdlePaysNothing DEF LaneInit
<1> HIDE DEF e
<1>4. OwnCommands(chain, row)
  BY <1>2 DEF OwnCommands
<1> QED BY <1>1, <1>3, <1>4 DEF PayInv, Pays

LEMMA PayStep ==
  ASSUME OwnOffers, HistoryFits, PayInv, [LaneNext]_laneVars PROVE PayInv'
<1>1. BookInv'
  BY BookStep DEF PayInv
<1>2. CASE UNCHANGED laneVars
  <2>1. Onward(chain, chain')
    BY <1>2 DEF laneVars, Onward, PayInv, BookInv, OpInv, LaneTypeOK
  <2>2. Pays'
    BY <1>2, <2>1, ChainKeepsPays DEF laneVars
  <2> QED BY <1>1, <2>2 DEF PayInv
<1>3. CASE Tick /\ UNCHANGED <<contracts, chain, row, prepared, op>>
  <2>1. Onward(chain, chain')
    BY <1>3 DEF Onward, PayInv, BookInv, OpInv, LaneTypeOK
  <2>2. Pays'
    BY <1>3, <2>1, ChainKeepsPays
  <2> QED BY <1>1, <2>2 DEF PayInv
<1>4. CASE \E i \in DOMAIN chain : AcceptOffer(i) \/ ReturnOffer(i)
  <2>1. Onward(chain, chain') /\ DOMAIN chain' = DOMAIN chain /\ UNCHANGED <<row, op>>
    BY <1>4, OfferStep DEF PayInv, BookInv
  <2>2. Pays'
    BY <2>1, ChainKeepsPays
  <2> QED BY <1>1, <2>2 DEF PayInv
<1>5. CASE WalletTransfer
  <2>1. /\ Onward(chain, chain') /\ DOMAIN chain' = DOMAIN chain \cup {Len(chain) + 1}
        /\ chain'[Len(chain) + 1].cmd = NoCommand /\ UNCHANGED <<row, op>>
    BY <1>5, WalletStep DEF PayInv, BookInv
  <2>2. Pays'
    BY <2>1, ChainKeepsPays
  <2> QED BY <1>1, <2>2 DEF PayInv
<1>6. CASE \E w \in Workers :
             \/ SaveCreated(w) \/ reconcileOutstandingOffers(w) \/ settleCycle(w) \/ GiveUp(w)
             \/ Save(w) \/ SyncContracts(w) \/ prepareSettle(w) \/ ProxyCrash(w)
  <2>1. Pays'
    BY <1>6, SaveCreatedKeepsPays, ReconcilingKeepsPays, SettleCycleKeepsPays, GiveUpKeepsPays,
       SaveKeepsPays, SyncKeepsPays, CrashKeepsPays
  <2> QED BY <1>1, <2>1 DEF PayInv
<1>7. CASE \E w \in Workers : \E s \in Streams :
             \/ createStream(w, s) \/ stopStream(w, s) \/ recoverPendingOffers(w, s)
             \/ BeginSettle(w, s, "submit") \/ BeginSettle(w, s, "prepare")
  <2>1. Pays'
    BY <1>7, CreateKeepsPays, StopKeepsPays, RecoverKeepsPays, BeginKeepsPays
  <2> QED BY <1>1, <2>1 DEF PayInv
<1>8. CASE \E w \in Workers : \E s \in Streams : \E i \in DOMAIN chain : recordSettle(w, s, i)
  <2>1. Pays'
    BY <1>8, RecordSettleKeepsPays
  <2> QED BY <1>1, <2>1 DEF PayInv
<1>9. CASE \E w \in Workers : \E s \in Streams : \E k \in DOMAIN row[s].pending :
             recordAcceptTransfer(w, s, k) \/ recordWithdrawTransfer(w, s, k)
  <2>1. Pays'
    BY <1>9, RecordAcceptKeepsPays, RecordWithdrawKeepsPays
  <2> QED BY <1>1, <2>1 DEF PayInv
<1> QED BY <1>2, <1>3, <1>4, <1>5, <1>6, <1>7, <1>8, <1>9 DEF LaneNext

LEMMA PayImplies ==
  ASSUME PayInv PROVE NextCommandIsFresh
<1>0. Hosted \subseteq Streams /\ chain \in Seq(Transfer) /\ row \in Store
  BY LaneAssumption DEF PayInv, BookInv, OpInv, LaneTypeOK
<1> SUFFICES ASSUME NEW s \in Hosted,
                    \A i \in transfersOf(s) :
                      \/ InHistory(row[s], i)
                      \/ \E k \in DOMAIN row[s].pending :
                           /\ row[s].pending[k].offer = i
                           /\ (chain[i].cmd = NoCommand \/ chain[i].cmd[2] = row[s].pending[k].cycle),
                    NEW i \in transfersOf(s)
             PROVE  chain[i].cmd # commandId(s, row[s])
  BY DEF NextCommandIsFresh
<1>1. i \in DOMAIN chain /\ chain[i].stream = s
  BY DEF transfersOf
<1>2. chain[i].cmd # NoCommand => Commanded(chain, row[s], i)
  BY <1>1 DEF PayInv, Pays, OwnCommands
<1>3. s \in Streams /\ row[s] \in Row
  BY <1>0 DEF Store
<1>4. Placed(chain, row[s], i)
  BY DEF Placed
<1> QED BY <1>0, <1>1, <1>2, <1>3, <1>4, FreshWhenKnown

\* What is paid had accrued, on top of all that the row counts.
LEMMA PaymentIsDue ==
  ASSUME ~Forces, now \in Nat, NEW s \in Streams, NEW r \in Row, Backed(chain, s, r),
         r.status \notin {"none", "stopped"}, NEW amount \in Payable(s, r)
  PROVE  r.settled + amount <= AccruedSoFar(s)
<1>1. amount \in Nat \ {0} /\ amount <= dueAmount(s, r)
  BY PayableIs
<1>2. /\ accruedAmount(s, r) \in Nat /\ dueAmount(s, r) \in Nat
      /\ dueAmount(s, r) > 0 => r.settled + dueAmount(s, r) <= accruedAmount(s, r)
  BY DueIsWithin
<1>3. r.settled \in Nat /\ r.status = "active"
  BY DEF Row
<1>4. r.rate = RatePerPeriod[s]
  BY <1>3 DEF Backed
<1>5. accruedAmount(s, r) = AccruedSoFar(s)
  BY <1>4 DEF accruedAmount, AccruedSoFar
<1>6. r.settled + amount <= accruedAmount(s, r)
  BY <1>1, <1>2, <1>3
<1> QED BY <1>5, <1>6

LEMMA SettlePaysTheRest ==
  ASSUME ~Forces, PayInv, NEW w \in Workers, settleCycle(w),
         NEW i \in DOMAIN chain' \ DOMAIN chain
  PROVE  LET s == chain'[i].stream
         IN  Outstanding(row[s]) = {} /\ row[s].settled + chain'[i].amount <= AccruedSoFar(s)
<1> DEFINE s == op[w].s
           cmd == commandId(s, row[s])
<1>1. /\ s \in Streams /\ row[s] \in Row /\ row[s].status \notin {"none", "stopped"}
      /\ \E amount \in Payable(s, row[s]) : Transferred(s, amount, cmd)
      /\ cmd \in Streams \X Nat \X Nat
  BY SettledTransfer DEF PayInv, BookInv
<1>2. Outstanding(row[s]) = {}
  BY DEF settleCycle, PayInv, Pays, OpPays
<1> HIDE DEF s, cmd
<1>3. PICK amount \in Payable(s, row[s]) : Transferred(s, amount, cmd)
  BY <1>1
<1>4. now \in Nat /\ LaneTypeOK /\ Backed(chain, s, row[s])
  BY <1>1, MaxTimeAssumption DEF PayInv, BookInv, OpInv, Books
<1>5. amount \in Nat \ {0} /\ cmd \in {NoCommand} \cup (Streams \X Nat \X Nat)
  BY <1>1, <1>4, PayableIs
<1>6. /\ chain'[Len(chain) + 1].stream = s /\ chain'[Len(chain) + 1].amount = amount
      /\ DOMAIN chain' = DOMAIN chain \cup {Len(chain) + 1}
  BY <1>1, <1>3, <1>4, <1>5, TransferMade
<1>7. i = Len(chain) + 1
  BY <1>6
<1>8. row[s].settled + amount <= AccruedSoFar(s)
  BY <1>1, <1>4, PaymentIsDue
<1> QED BY <1>2, <1>6, <1>7, <1>8

\* Only settleCycle adds a transfer with a command of the proxy to the chain.
LEMMA OnlySettlesPay ==
  ASSUME OpInv, [LaneNext]_laneVars, NEW i \in DOMAIN chain' \ DOMAIN chain,
         chain'[i].cmd # NoCommand
  PROVE  \E w \in Workers : settleCycle(w)
<1>1. CASE UNCHANGED chain
  BY <1>1
<1>2. CASE \E j \in DOMAIN chain : AcceptOffer(j) \/ ReturnOffer(j)
  BY <1>2, OfferStep
<1>3. CASE WalletTransfer
  BY <1>3, WalletStep
<1>5. CASE \E w \in Workers :
             \/ SaveCreated(w) \/ reconcileOutstandingOffers(w) \/ GiveUp(w) \/ Save(w)
             \/ SyncContracts(w) \/ prepareSettle(w) \/ ProxyCrash(w)
  BY <1>1, <1>5 DEF SaveCreated, reconcileOutstandingOffers, GiveUp, Save, SyncContracts, prepareSettle, ProxyCrash
<1>6. CASE \E w \in Workers : \E t \in Streams :
             \/ createStream(w, t) \/ stopStream(w, t) \/ recoverPendingOffers(w, t)
             \/ BeginSettle(w, t, "submit") \/ BeginSettle(w, t, "prepare")
             \/ \E j \in DOMAIN chain : recordSettle(w, t, j)
             \/ \E k \in DOMAIN row[t].pending :
                  recordAcceptTransfer(w, t, k) \/ recordWithdrawTransfer(w, t, k)
  <2>1. PICK w \in Workers, t \in Streams :
             \/ createStream(w, t) \/ stopStream(w, t) \/ recoverPendingOffers(w, t)
             \/ BeginSettle(w, t, "submit") \/ BeginSettle(w, t, "prepare")
             \/ \E j \in DOMAIN chain : recordSettle(w, t, j)
             \/ \E k \in DOMAIN row[t].pending :
                  recordAcceptTransfer(w, t, k) \/ recordWithdrawTransfer(w, t, k)
    BY <1>6
  <2>2. (createStream(w, t) \/ stopStream(w, t)) => UNCHANGED chain
    BY DEF createStream, stopStream
  <2>3. recoverPendingOffers(w, t) => UNCHANGED chain
    BY DEF recoverPendingOffers
  <2>4. \A p : BeginSettle(w, t, p) => UNCHANGED chain
    BY DEF BeginSettle
  <2>5. \A j : recordSettle(w, t, j) => UNCHANGED chain
    BY DEF recordSettle
  <2>6. \A k : recordAcceptTransfer(w, t, k) \/ recordWithdrawTransfer(w, t, k) => UNCHANGED chain
    BY DEF recordAcceptTransfer, recordWithdrawTransfer
  <2> QED BY <1>1, <2>1, <2>2, <2>3, <2>4, <2>5, <2>6
<1>7. CASE (Tick /\ UNCHANGED <<contracts, chain, row, prepared, op>>) \/ UNCHANGED laneVars
  BY <1>1, <1>7 DEF laneVars
<1> QED BY <1>2, <1>3, <1>5, <1>6, <1>7 DEF LaneNext

\* With a payer's authority the proxy transfers only what its row says is left: a payment
\* and all that the row counts by then stay within accrual, and no offer is outstanding
\* on top of it, whatever crashes, retries, reports and wallets do; and its next command
\* is a new one as long as its row knows what was paid (settleCycle, commandId and
\* reconcileOutstandingOffers of v1-lane.ts).  No two streams that recover offers pay
\* between the same parties, no history is cut, and nobody settles by force.
THEOREM LaneNeverPaysAhead ==
  ASSUME OwnOffers, HistoryFits, ~Forces
  PROVE  LaneSpec => NeverPaysAhead
<1>1. LaneInit => PayInv
  BY LaneInitPays
<1>2. PayInv /\ [LaneNext]_laneVars => PayInv'
  BY PayStep
<1>3. PayInv => NextCommandIsFresh
  BY PayImplies
<1>4. PayInv /\ [LaneNext]_laneVars => [PaysOnlyTheRest]_laneVars
  <2> SUFFICES ASSUME PayInv, [LaneNext]_laneVars, NEW s \in Hosted,
                      NEW i \in DOMAIN chain' \ DOMAIN chain,
                      chain'[i].stream = s, chain'[i].cmd # NoCommand
               PROVE  Outstanding(row[s]) = {} /\ row[s].settled + chain'[i].amount <= AccruedSoFar(s)
    BY DEF PaysOnlyTheRest
  <2>1. PICK w \in Workers : settleCycle(w)
    BY OnlySettlesPay DEF PayInv, BookInv
  <2> QED BY <2>1, SettlePaysTheRest
<1> QED BY <1>1, <1>2, <1>3, <1>4, PTL DEF LaneSpec, NeverPaysAhead
=============================================================================
