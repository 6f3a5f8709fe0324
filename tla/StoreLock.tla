------------------------------ MODULE StoreLock ------------------------------
(***************************************************************************)
(* The file lock that serializes the processes sharing one of the proxy's  *)
(* JSON stores (proxy/src/store-lock.ts), and the load-mutate-save it      *)
(* protects.                                                               *)
(*                                                                         *)
(* Each file operation is atomic and nothing else is: between a failed     *)
(* link, the read of the holder's record and the removal of a lock judged  *)
(* dead, and between the check and the removal of one's own lock, every    *)
(* other process may run.  A process may die anywhere; one that restarts   *)
(* has another pid, so it is another member of Procs.                      *)
(***************************************************************************)
EXTENDS Integers

CONSTANTS
  Procs,        \* process ids
  StaleAfter,   \* staleMs
  Crashes,      \* whether processes may die
  Timely,       \* whether a critical section, with the wait before it, is
                \* over before its lock record is stale
  MaxClock,     \* bound: the clock stops here
  MaxMutations  \* bound: mutations each process starts

ASSUME LockAssumption ==
  /\ StaleAfter \in Nat /\ MaxClock \in Nat /\ MaxMutations \in Nat
  /\ Crashes \in BOOLEAN /\ Timely \in BOOLEAN

VARIABLES
  clock,
  file,     \* the lock file: Absent, or its holder's record
  store,    \* the store file: the mutations it holds
  alive,    \* pidAlive
  pc,       \* where each process is
  number,   \* how many mutations each process has started
  asked,    \* when it asked for the lock: the record's `at`, and `start`
  seen      \* the store as each process last loaded it

vars == <<clock, file, store, alive, pc, number, asked, seen>>

Absent == [pid |-> "nobody"]
token(p) == <<p, number[p]>>
Record(p) == [pid |-> p, at |-> asked[p], token |-> token(p)]
Tokens == Procs \X Nat

Init ==
  /\ clock = 0
  /\ file = Absent
  /\ store = {}
  /\ alive = [p \in Procs |-> TRUE]
  /\ pc = [p \in Procs |-> "idle"]
  /\ number = [p \in Procs |-> 0]
  /\ asked = [p \in Procs |-> 0]
  /\ seen = [p \in Procs |-> {}]

\* A live process moves on.
Goto(p, from, to) == alive[p] /\ pc[p] = from /\ pc' = [pc EXCEPT ![p] = to]

----------------------------------------------------------------------------
(* acquireStoreLock *)

Ask(p) ==
  /\ Goto(p, "idle", "trying")
  /\ number[p] < MaxMutations
  /\ number' = [number EXCEPT ![p] = @ + 1]
  /\ asked' = [asked EXCEPT ![p] = clock]
  /\ UNCHANGED <<clock, file, store, alive, seen>>

Unlocked == file = Absent

\* linkSync creates the lock, and fails if there is one.
Link(p) ==
  /\ Goto(p, "trying", "held")
  /\ Unlocked
  /\ file' = Record(p)
  /\ UNCHANGED <<clock, store, alive, number, asked, seen>>

LinkFails(p) ==
  /\ Goto(p, "trying", "refused")
  /\ ~Unlocked
  /\ UNCHANGED <<clock, file, store, alive, number, asked, seen>>

NeedsAge(p) == file # Absent /\ clock - file.at > StaleAfter
NeedsPatience(p) ==
  file # Absent /\ (~alive[file.pid] \/ clock - asked[p] > StaleAfter)
\* The lock's holder is dead, or its record has aged out.
Dead(p) ==
  file # Absent /\ (~alive[file.pid] \/ clock - file.at > StaleAfter)

\* Read the holder's record: reclaim the lock, give up, or sleep and try again.
Inspect(p) ==
  /\ \/ Dead(p) /\ Goto(p, "refused", "reclaiming")
     \/ ~Dead(p) /\ clock - asked[p] > StaleAfter /\ Goto(p, "refused", "idle")
     \/ ~Dead(p) /\ clock - asked[p] <= StaleAfter /\ Goto(p, "refused", "trying")
  /\ UNCHANGED <<clock, file, store, alive, number, asked, seen>>

\* unlinkSync removes whatever lock is there by now.
Reclaim(p) ==
  /\ Goto(p, "reclaiming", "trying")
  /\ file' = Absent
  /\ UNCHANGED <<clock, store, alive, number, asked, seen>>

----------------------------------------------------------------------------
(* The critical section: load, mutate, save *)

KeepsSnapshot(p) == seen[p]
Snapshot(p) == store

Load(p) ==
  /\ Goto(p, "held", "loaded")
  /\ seen' = [seen EXCEPT ![p] = Snapshot(p)]
  /\ UNCHANGED <<clock, file, store, alive, number, asked>>

SaveStore(p) ==
  /\ Goto(p, "loaded", "done")
  /\ store' = seen[p] \cup {token(p)}
  /\ UNCHANGED <<clock, file, alive, number, asked, seen>>

\* The mutation throws before it saves.
Throw(p) ==
  /\ Goto(p, "loaded", "done")
  /\ UNCHANGED <<clock, file, store, alive, number, asked, seen>>

----------------------------------------------------------------------------
(* releaseStoreLock *)

StillOurs(p) == file # Absent /\ file.token = token(p)

CheckToken(p) ==
  /\ IF StillOurs(p) THEN Goto(p, "done", "releasing") ELSE Goto(p, "done", "idle")
  /\ UNCHANGED <<clock, file, store, alive, number, asked, seen>>

Unlink(p) ==
  /\ Goto(p, "releasing", "idle")
  /\ file' = Absent
  /\ UNCHANGED <<clock, store, alive, number, asked, seen>>

----------------------------------------------------------------------------
Crash(p) ==
  /\ Crashes
  /\ alive[p]
  /\ alive' = [alive EXCEPT ![p] = FALSE]
  /\ UNCHANGED <<clock, file, store, pc, number, asked, seen>>

Critical == {"held", "loaded", "done", "releasing"}

\* Nobody who holds the lock, or may still take it, reaches staleMs.
Punctual ==
  \A p \in Procs :
    alive[p] /\ pc[p] \in Critical \cup {"trying"} => clock - asked[p] < StaleAfter

ClockTick ==
  /\ clock < MaxClock
  /\ Timely => Punctual
  /\ clock' = clock + 1
  /\ UNCHANGED <<file, store, alive, pc, number, asked, seen>>

Acquire(p) == Ask(p) \/ Link(p) \/ LinkFails(p) \/ Inspect(p) \/ Reclaim(p)
Mutate(p) == Load(p) \/ SaveStore(p) \/ Throw(p)
Release(p) == CheckToken(p) \/ Unlink(p)

Next == ClockTick \/ \E p \in Procs : Acquire(p) \/ Mutate(p) \/ Release(p) \/ Crash(p)

Spec == Init /\ [][Next]_vars

\* A live process keeps running.
Runs(p) ==
  \/ Link(p) \/ LinkFails(p) \/ Inspect(p) \/ Reclaim(p) \/ Mutate(p) \/ Release(p)

FairSpec == Spec /\ \A p \in Procs : WF_vars(Runs(p))

----------------------------------------------------------------------------
(* Properties *)

TypeOK ==
  /\ clock \in 0 .. MaxClock
  /\ file = Absent \/ file \in [pid : Procs, at : Nat, token : Tokens]
  /\ store \subseteq Tokens
  /\ alive \in [Procs -> BOOLEAN]
  /\ pc \in [Procs -> {"idle", "trying", "refused", "reclaiming"} \cup Critical]
  /\ number \in [Procs -> Nat]
  /\ asked \in [Procs -> Nat]
  /\ seen \in [Procs -> SUBSET Tokens]

InCritical(p) == alive[p] /\ pc[p] \in Critical

\* At most one live process is between acquireStoreLock and releaseStoreLock:
\* store-lock.ts promises a single writer, and that a live holder is never
\* overtaken.
MutualExclusion ==
  \A p, q \in Procs : InCritical(p) /\ InCritical(q) => p = q

\* Nobody removes a live holder's lock, neither a waiter that takes it for dead
\* nor a former holder that releases.
HolderKeepsLock == \A p \in Procs : InCritical(p) => file = Record(p)

\* The store has one writer at a time, and the lock file is that writer's.
OneHolder == TypeOK /\ MutualExclusion /\ HolderKeepsLock

\* Load, mutate and save are one atomic step: whatever changes the store is the one
\* process inside, and it adds its own mutation, once, to everything saved before.
SavesAreAtomic ==
  [][\E p \in Procs :
       InCritical(p) /\ token(p) \notin store /\ store' = store \cup {token(p)}]_store

\* A waiter that finds the lock of a dead process gets it: it neither waits for
\* the record to age nor times out.
DeadHolderIsReplaced ==
  \A p \in Procs :
    (alive[p] /\ pc[p] = "refused" /\ file # Absent /\ ~alive[file.pid])
      ~> (InCritical(p) \/ ~alive[p])
==============================================================================
