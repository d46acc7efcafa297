------------------------------- MODULE Events -------------------------------
(***************************************************************************)
(* The event by which DisGoverService tells DAPoSService to begin           *)
(* (commons/utils/events.go): the goroutine of DAPoSService.Go calls On,    *)
(* that of DisGoverService.Go calls Raise.  Both take only the read lock    *)
(* for what follows the creation of the event, which does not keep them     *)
(* apart: On appends to the list and then looks at happenedOnce, Raise sets *)
(* happenedOnce and then goes through the list.  Nothing orders the two      *)
(* accesses of Raise, so what it has written may be seen by others only     *)
(* when it gives the lock back: until then the write is "pending".          *)
(***************************************************************************)
EXTENDS Naturals, FiniteSets

CONSTANT Service  \* goroutines that call On for their handler

VARIABLES
  created,       \* the event is in the map
  subscribers,   \* the handlers on its list
  happenedOnce,  \* "no", "pending", "yes"
  starts,        \* per service: how often its handler was started
  on,            \* per service: where On is
  raise          \* where Raise is

eventVars == <<created, subscribers, happenedOnce, starts, on, raise>>

EventsInit ==
  /\ created = FALSE /\ subscribers = {} /\ happenedOnce = "no"
  /\ starts = [s \in Service |-> 0] /\ on = [s \in Service |-> "create"] /\ raise = "create"

addEventIfNotExists == created' = TRUE

OnCreate(s) ==
  /\ on[s] = "create" /\ on' = [on EXCEPT ![s] = "add"]
  /\ addEventIfNotExists
  /\ UNCHANGED <<subscribers, happenedOnce, starts, raise>>

\* One service subscribes, so no two appends race.
addSubscriberIfNotExists(s) ==
  /\ on[s] = "add" /\ on' = [on EXCEPT ![s] = "look"]
  /\ subscribers' = subscribers \cup {s}
  /\ UNCHANGED <<created, happenedOnce, starts, raise>>

\* Variant of Seen: the event is looked at before the handler is on the list.
SeenEarly(s) == happenedOnce = "yes" /\ s \notin subscribers

\* What On finds: a write that is pending is not seen.
Seen(s) == happenedOnce = "yes"

OnLook(s) ==
  /\ on[s] = "look" /\ on' = [on EXCEPT ![s] = IF happenedOnce = "pending" THEN "overtaken" ELSE "done"]
  /\ starts' = IF Seen(s) THEN [starts EXCEPT ![s] = @ + 1] ELSE starts
  /\ UNCHANGED <<created, subscribers, happenedOnce, raise>>

RaiseCreate ==
  /\ raise = "create" /\ raise' = "set"
  /\ addEventIfNotExists
  /\ UNCHANGED <<subscribers, happenedOnce, starts, on>>

\* The write is seen at once, or not before the lock is given back.
Happened == {"pending", "yes"}

RaiseSet ==
  /\ raise = "set" /\ raise' = "call"
  /\ happenedOnce' \in Happened
  /\ UNCHANGED <<created, subscribers, starts, on>>

RaiseCall ==
  /\ raise = "call" /\ raise' = "unlock"
  /\ starts' = [s \in Service |-> IF s \in subscribers THEN starts[s] + 1 ELSE starts[s]]
  /\ UNCHANGED <<created, subscribers, happenedOnce, on>>

RaiseUnlock ==
  /\ raise = "unlock" /\ raise' = "done"
  /\ happenedOnce' = IF happenedOnce = "pending" THEN "yes" ELSE happenedOnce
  /\ UNCHANGED <<created, subscribers, starts, on>>

EventsNext ==
  \/ \E s \in Service : OnCreate(s) \/ addSubscriberIfNotExists(s) \/ OnLook(s)
  \/ RaiseCreate \/ RaiseSet \/ RaiseCall \/ RaiseUnlock

EventsSpec == EventsInit /\ [][EventsNext]_eventVars

-----------------------------------------------------------------------------

\* The handler is started once, or twice when On and Raise see each other: the
\* workers of DAPoSService then run twice.  It is started before both have
\* returned, unless On has looked while the write of Raise was pending.
EventReachesHandler ==
  \A s \in Service :
    /\ starts[s] <= 2
    /\ on[s] = "done" /\ raise = "done" => starts[s] >= 1
=============================================================================
