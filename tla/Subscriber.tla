------------------------------ MODULE Subscriber ------------------------------
(***************************************************************************)
(* The proxy's transfer-event subscriber                                   *)
(* (proxy/src/transfer-events-subscriber.ts): one polling loop per asset   *)
(* reads the events after a checkpoint, emits them, then saves how far it  *)
(* got.  The checkpoints of all assets are one JSON file, replaced through *)
(* one temporary file by every loop without a lock.                        *)
(*                                                                         *)
(* Loops interleave at every await; a stopped subscriber leaves the poll   *)
(* it was in running beside its successor's; the process may die at any    *)
(* point.  A handler of an event ends some time after the event is emitted.*)
(***************************************************************************)
EXTENDS Integers, FiniteSets

CONSTANTS
  Assets,
  Loops,           \* the polling loops that may be in the middle of something
  LogEnd,          \* bound: events of each asset on the ledger
  MaxEvents,       \* bound: polls, restarts and crashes
  Absent,          \* content of a file: there is none,
  Empty,           \* opened and not written yet,
  Torn             \* written by two loops at once

ASSUME SubscriberAssumption == LogEnd \in Nat

VARIABLES
  log,       \* how many settlement events each asset has
  file,      \* the checkpoint file
  tmp,       \* the temporary file: absent, or its content
  loop,      \* what each loop is in the middle of
  current,   \* the loop that polls each asset, the others only finish
  handling,  \* events a handler is working on: <<asset, offset>>
  handled,   \* events a handler ended with, done or failed
  lost,      \* events whose handler died with the process
  polls      \* counts polls and crashes, for the bound

subscriberVars == <<log, file, tmp, loop, current, handling, handled, lost, polls>>

Genesis == [a \in Assets |-> 0]
Loaded(content) == IF content \in {Absent, Empty, Torn} THEN Genesis ELSE content
Asleep == [at |-> "asleep"]

SubscriberInit ==
  /\ log = Genesis
  /\ file = Absent /\ tmp = Absent
  /\ loop = [l \in Loops |-> Asleep]
  /\ current \in { f \in [Assets -> Loops] : \A a, b \in Assets : a # b => f[a] # f[b] }
  /\ handling = {} /\ handled = {} /\ lost = {}
  /\ polls = 0

At(l, step) == loop[l].at = step
Becomes(l, s) == loop' = [loop EXCEPT ![l] = s]
Counts == polls < MaxEvents /\ polls' = polls + 1

----------------------------------------------------------------------------
(* One round of a loop *)

Poll(a) ==
  LET l == current[a]
  IN  /\ At(l, "asleep")
      /\ Counts
      /\ Becomes(l, [at |-> "poll", asset |-> a, from |-> Loaded(file)[a]])
      /\ UNCHANGED <<log, file, tmp, current, handling, handled, lost>>

NewestOffset(a, end) == log[a]
endOffset(a, end) == end

\* The service answers with the events up to some offset; they are emitted at once.
Fetch(l) ==
  /\ At(l, "poll")
  /\ LET a == loop[l].asset
     IN  \E end \in loop[l].from .. log[a] :
           /\ handling' = handling \cup { <<a, n>> : n \in (loop[l].from + 1) .. end }
           /\ Becomes(l, [at |-> "emitted", asset |-> a, end |-> endOffset(a, end)])
  /\ UNCHANGED <<log, file, tmp, current, handled, lost, polls>>

\* setAssetOffset: load, change one entry, then save.
Load(l) ==
  /\ At(l, "emitted")
  /\ Becomes(l, [at |-> "loaded", map |-> [Loaded(file) EXCEPT ![loop[l].asset] = loop[l].end]])
  /\ UNCHANGED <<log, file, tmp, current, handling, handled, lost, polls>>

\* writeFile opens, and so empties, the temporary file, then writes where that file
\* is by then: still there, renamed by another loop, or replaced since.
Open(l) ==
  /\ At(l, "loaded")
  /\ tmp' = Empty
  /\ Becomes(l, [at |-> "opened", map |-> loop[l].map, fd |-> "tmp"])
  /\ UNCHANGED <<log, file, current, handling, handled, lost, polls>>

Written(content, map) == IF content = Empty THEN {map} ELSE {map, Torn}

Write(l) ==
  /\ At(l, "opened")
  /\ IF loop[l].fd = "tmp" THEN tmp' \in Written(tmp, loop[l].map) ELSE UNCHANGED tmp
  /\ IF loop[l].fd = "file" THEN file' \in Written(file, loop[l].map) ELSE UNCHANGED file
  /\ Becomes(l, [at |-> "written"])
  /\ UNCHANGED <<log, current, handling, handled, lost, polls>>

\* rename takes whatever the temporary file holds; without one it fails, which is
\* only logged.
Moved(k) ==
  IF ~At(k, "opened") THEN loop[k]
  ELSE [loop[k] EXCEPT !.fd = IF @ = "tmp" THEN "file" ELSE "gone"]

Rename(l) ==
  /\ At(l, "written")
  /\ IF tmp = Absent
     THEN Becomes(l, Asleep) /\ UNCHANGED <<file, tmp>>
     ELSE /\ file' = tmp /\ tmp' = Absent
          /\ loop' = [k \in Loops |-> IF k = l THEN Asleep ELSE Moved(k)]
  /\ UNCHANGED <<log, current, handling, handled, lost, polls>>

\* A request or a write fails, or times out: the loop backs off and polls again.
RoundFails(l) ==
  /\ ~At(l, "asleep")
  /\ Becomes(l, Asleep)
  /\ UNCHANGED <<log, file, tmp, current, handling, handled, lost, polls>>

----------------------------------------------------------------------------
(* Around it *)

Settles(a) ==
  /\ log[a] < LogEnd
  /\ log' = [log EXCEPT ![a] = @ + 1]
  /\ UNCHANGED <<file, tmp, loop, current, handling, handled, lost, polls>>

HandlerEnds(e) ==
  /\ handling' = handling \ {e}
  /\ handled' = handled \cup {e}
  /\ UNCHANGED <<log, file, tmp, loop, current, lost, polls>>

\* stop, then start: a fresh loop polls the asset, the old one ends its round.
StopStart(a, l) ==
  /\ Counts
  /\ At(l, "asleep") /\ \A b \in Assets : current[b] # l
  /\ current' = [current EXCEPT ![a] = l]
  /\ UNCHANGED <<log, file, tmp, loop, handling, handled, lost>>

Crash ==
  /\ Counts
  /\ loop' = [l \in Loops |-> Asleep]
  /\ lost' = lost \cup handling /\ handling' = {}
  /\ UNCHANGED <<log, file, tmp, current, handled>>

SubscriberNext ==
  \/ \E a \in Assets : Poll(a) \/ Settles(a) \/ \E l \in Loops : StopStart(a, l)
  \/ \E l \in Loops : Fetch(l) \/ Load(l) \/ Open(l) \/ Write(l) \/ Rename(l) \/ RoundFails(l)
  \/ \E e \in handling : HandlerEnds(e)
  \/ Crash

SubscriberSpec == SubscriberInit /\ [][SubscriberNext]_subscriberVars

----------------------------------------------------------------------------
SubscriberTypeOK ==
  /\ log \in [Assets -> 0 .. LogEnd]
  /\ \A f \in {file, tmp} : Loaded(f) \in [Assets -> 0 .. LogEnd]
  /\ (handling \cup lost) \subseteq (Assets \X (1 .. LogEnd))

\* No event is skipped: an event at or below a checkpoint was given to a handler,
\* whatever the loops do to each other's files.  An event may be repeated.  It says
\* no more than that: handlers are not awaited, so an event can be behind the saved
\* checkpoint while its handler runs, and a crash then loses it for good.
NothingSkipped ==
  \A a \in Assets : \A n \in 1 .. Loaded(file)[a] : <<a, n>> \in handling \cup handled \cup lost

SubscriberSound == SubscriberTypeOK /\ NothingSkipped
============================================================================
