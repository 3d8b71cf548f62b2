------------------------------- MODULE IdleAlarm -------------------------------
(***************************************************************************)
(* The throttled idle-alarm policy that both Durable Objects share         *)
(* (packages/core/src/idle-alarm.ts), together with the way an owner       *)
(* drives it: a request first ensures the owner's meta row, and only a     *)
(* request that ends well touches the alarm; the alarm handler is not      *)
(* queued behind requests, so it may run while one is in flight.  A        *)
(* sandbox that has contexts awaits a remote call per interpreter between  *)
(* the decision to destroy itself and the wipe; everything else an owner   *)
(* awaits here is storage, behind the input gate of its object.            *)
(*                                                                         *)
(* One clock tick is the unit of every timestamp.  A ttl of 0 disables     *)
(* expiry, as it does in the code; the setting is fixed in a behaviour.    *)
(***************************************************************************)
EXTENDS Integers

CONSTANTS
  TTLs,     \* the settings of SANDBOX_IDLE_TTL a deployment may have, in ticks
  Owners,   \* the Durable Objects that have the policy
  Horizon,  \* bound: no request runs at or after this time
  NONE      \* null

ASSUME TTLAssumption     == TTLs \subseteq Nat
ASSUME OwnersAssumption  == Owners \subseteq {"sandbox", "interpreter"}
ASSUME HorizonAssumption == Horizon \in Nat
ASSUME NoneAssumption    == NONE \notin Int

VARIABLES
  owner,      \* which of the two objects this is
  ttl,        \* ttlMs, read when the object is constructed
  now,        \* Date.now()
  alarm,      \* the alarm the platform holds for this object, or NONE
  alarmAt,    \* IdleAlarm.alarmAt, the in-memory cache of that alarm
  lastUsed,   \* meta.lastUsed in storage; NONE when there is no meta row
  delivered,  \* the alarm whose handler awaits interpreters, or NONE
  request,    \* the request in flight: "none", "handled" or "delete"
  touched,    \* history: when this lifetime was last touched, or NONE
  expiresAt   \* history: the deadline last reported in this lifetime, or NONE

vars == <<owner, ttl, now, alarm, alarmAt, lastUsed, delivered, request, touched, expiresAt>>

OptionalTime == Nat \cup {NONE}

(***************************************************************************)
(* A lifetime that ends at Horizon has ended its idle period by this time. *)
(***************************************************************************)
ClockLimit == Horizon + ttl + ttl

(***************************************************************************)
(* With expiry disabled an alarm may remain from a deployment that had it  *)
(* enabled.                                                                *)
(***************************************************************************)
Init ==
  /\ owner \in Owners
  /\ ttl \in TTLs
  /\ now = 0
  /\ alarmAt = NONE
  /\ delivered = NONE
  /\ request = "none"
  /\ touched = NONE
  /\ expiresAt = NONE
  /\ \/ alarm = NONE /\ lastUsed = NONE
     \/ ttl = 0 /\ alarm = 1 /\ lastUsed = 0

Tick ==
  /\ now < ClockLimit
  /\ request # "none" => now < Horizon
  /\ now' = now + 1
  /\ UNCHANGED <<owner, ttl, alarm, alarmAt, lastUsed, delivered, request, touched, expiresAt>>

(***************************************************************************)
(* ensureSandboxMeta / ensureInterpreterMeta at the start of a request.    *)
(***************************************************************************)
BeginRequest ==
  /\ now < Horizon
  /\ request = "none"
  /\ request' = "handled"
  /\ lastUsed' = IF lastUsed = NONE THEN now ELSE lastUsed
  /\ UNCHANGED <<owner, ttl, now, alarm, alarmAt, delivered, touched, expiresAt>>

(***************************************************************************)
(* IdleAlarm.touch.  usedBefore is meta.lastUsed when touch is called.     *)
(***************************************************************************)
Armed == IF alarmAt # NONE THEN alarmAt ELSE alarm
\* Mutant: the deadline before the request.
WantBefore == now - ttl

Want  == now + ttl

\* Mutant: only a full ttl of progress re-arms.
MustRearmLate == Armed # NONE => Want - Armed > ttl

MustRearm == Armed # NONE => 10 * (Want - Armed) > ttl

TouchDisabled(usedBefore) ==
  /\ ttl = 0
  /\ alarm' = NONE
  /\ alarmAt' = NONE
  /\ lastUsed' = usedBefore
  /\ expiresAt' = NONE

TouchRearms ==
  /\ ttl # 0
  /\ MustRearm
  /\ alarm' = Want
  /\ alarmAt' = Want
  /\ lastUsed' = now
  /\ expiresAt' = Want

TouchKeeps(usedBefore) ==
  /\ ttl # 0
  /\ ~MustRearm
  /\ alarmAt' = Armed
  /\ lastUsed' = usedBefore
  /\ expiresAt' = Armed
  /\ UNCHANGED alarm

Touch(usedBefore) ==
  /\ \/ TouchDisabled(usedBefore)
     \/ TouchRearms
     \/ TouchKeeps(usedBefore)
  /\ touched' = now

(***************************************************************************)
(* The ends of a request: a handler touches on its way out; setEnvVars has *)
(* written meta with its own lastUsed first; an error response touches     *)
(* nothing.                                                                *)
(***************************************************************************)
EndTouching ==
  /\ request = "handled"
  /\ Touch(lastUsed)
  /\ request' = "none"
  /\ UNCHANGED <<owner, ttl, now, delivered>>

EndSetEnv ==
  /\ owner = "sandbox"
  /\ request = "handled"
  /\ Touch(now)
  /\ request' = "none"
  /\ UNCHANGED <<owner, ttl, now, delivered>>

EndFailing ==
  /\ request = "handled"
  /\ request' = "none"
  /\ UNCHANGED <<owner, ttl, now, alarm, alarmAt, lastUsed, delivered, touched, expiresAt>>

\* Mutant: no idleAlarm.reset().
WipeKeepingCache ==
  /\ alarm' = NONE
  /\ lastUsed' = NONE
  /\ touched' = NONE
  /\ expiresAt' = NONE
  /\ UNCHANGED alarmAt

(***************************************************************************)
(* The end of destroy(): deleteAll, deleteAlarm, idleAlarm.reset().  What  *)
(* was stored or armed during its awaits goes as well.                     *)
(***************************************************************************)
Wipe ==
  /\ alarm' = NONE
  /\ alarmAt' = NONE
  /\ lastUsed' = NONE
  /\ touched' = NONE
  /\ expiresAt' = NONE

(***************************************************************************)
(* DELETE / is a request that never ensures meta.  An interpreter, or a    *)
(* sandbox without contexts, wipes itself at once; other sandboxes call    *)
(* their interpreters first, holding the queue.                            *)
(***************************************************************************)
DeleteRequest ==
  /\ now < Horizon
  /\ request = "none"
  /\ Wipe
  /\ UNCHANGED <<owner, ttl, now, delivered, request>>

BeginDelete ==
  /\ now < Horizon
  /\ owner = "sandbox"
  /\ request = "none"
  /\ request' = "delete"
  /\ UNCHANGED <<owner, ttl, now, alarm, alarmAt, lastUsed, delivered, touched, expiresAt>>

EndDelete ==
  /\ request = "delete"
  /\ Wipe
  /\ request' = "none"
  /\ UNCHANGED <<owner, ttl, now, delivered>>

(***************************************************************************)
(* alarm(): the platform has cleared the alarm it delivers, and delivers   *)
(* no other until the handler is done.  onAlarm answers disabled, re-arms  *)
(* to the real deadline, or lets the owner go.                             *)
(***************************************************************************)
AlarmDue == alarm # NONE /\ alarm <= now /\ delivered = NONE

Deadline == lastUsed + ttl

AlarmIgnored ==
  /\ AlarmDue
  /\ lastUsed # NONE => ttl = 0
  /\ alarm' = NONE
  /\ UNCHANGED <<owner, ttl, now, alarmAt, lastUsed, delivered, request, touched, expiresAt>>

\* Mutant: the handler returns without arming the real deadline.
AlarmForgets ==
  /\ AlarmDue
  /\ lastUsed # NONE /\ ttl # 0
  /\ Deadline > now
  /\ alarm' = NONE
  /\ alarmAt' = NONE
  /\ UNCHANGED <<owner, ttl, now, lastUsed, delivered, request, touched, expiresAt>>

AlarmRearms ==
  /\ AlarmDue
  /\ lastUsed # NONE /\ ttl # 0
  /\ Deadline > now
  /\ alarm' = Deadline
  /\ alarmAt' = Deadline
  /\ UNCHANGED <<owner, ttl, now, lastUsed, delivered, request, touched, expiresAt>>

\* Mutant: the handler does not look whether expiry is disabled.
DecidesDisabled == AlarmDue /\ lastUsed # NONE /\ Deadline <= now

\* The handler decides that the owner goes.
Decides == AlarmDue /\ lastUsed # NONE /\ ttl # 0 /\ Deadline <= now

\* No interpreter to call: destroy() follows behind the input gate.
AlarmDestroys ==
  /\ Decides
  /\ Wipe
  /\ UNCHANGED <<owner, ttl, now, delivered, request>>

\* destroy() of a sandbox with contexts first awaits their interpreters.
AlarmCallsInterpreters ==
  /\ Decides
  /\ owner = "sandbox"
  /\ alarm' = NONE
  /\ delivered' = alarm
  /\ UNCHANGED <<owner, ttl, now, alarmAt, lastUsed, request, touched, expiresAt>>

OnAlarm == AlarmIgnored \/ AlarmRearms \/ AlarmDestroys \/ AlarmCallsInterpreters

\* The last interpreter has answered or failed: destroy() goes on.
AlarmWipes ==
  /\ delivered # NONE
  /\ Wipe
  /\ delivered' = NONE
  /\ UNCHANGED <<owner, ttl, now, request>>

(***************************************************************************)
(* The object leaves memory, or crashes: the cache, the request in flight  *)
(* and a destroy under way are gone, storage and the alarm stay.  An alarm *)
(* whose handler did not finish is delivered again, unless another was set.*)
(***************************************************************************)
Evict ==
  /\ alarmAt # NONE \/ request # "none" \/ delivered # NONE
  /\ alarmAt' = NONE
  /\ request' = "none"
  /\ alarm' = IF alarm = NONE THEN delivered ELSE alarm
  /\ delivered' = NONE
  /\ UNCHANGED <<owner, ttl, now, lastUsed, touched, expiresAt>>

EndRequest == EndTouching \/ EndSetEnv \/ EndFailing \/ EndDelete

Next ==
  \/ Tick
  \/ BeginRequest
  \/ EndRequest
  \/ DeleteRequest
  \/ BeginDelete
  \/ OnAlarm
  \/ AlarmWipes
  \/ Evict

(***************************************************************************)
(* Time passes, a request ends, and the platform delivers a due alarm,     *)
(* again after a crash: not every destroy is cut short, hence SF.          *)
(***************************************************************************)
Fairness ==
  /\ WF_vars(Tick)
  /\ WF_vars(EndRequest)
  /\ WF_vars(OnAlarm)
  /\ SF_vars(AlarmWipes)

Spec     == Init /\ [][Next]_vars
FairSpec == Spec /\ Fairness

--------------------------------------------------------------------------------

(***************************************************************************)
(* Every variable has its type (the fields of IdleAlarm and of meta).      *)
(***************************************************************************)
TypeOK ==
  /\ owner \in Owners
  /\ ttl \in TTLs
  /\ now \in Nat
  /\ alarm \in OptionalTime
  /\ alarmAt \in OptionalTime
  /\ lastUsed \in OptionalTime
  /\ delivered \in OptionalTime
  /\ request \in {"none", "handled", "delete"}
  /\ touched \in OptionalTime
  /\ expiresAt \in OptionalTime

(***************************************************************************)
(* touch() trusts its in-memory deadline without reading storage, so the   *)
(* cache must hold nothing but the alarm the platform holds.  While the    *)
(* handler of an alarm awaits it may still hold that one, which is past,   *)
(* so that the next touch arms a new one.                                  *)
(***************************************************************************)
CacheIsCoherent ==
  alarmAt # NONE =>
    \/ alarmAt = alarm
    \/ alarm = NONE /\ alarmAt = delivered /\ delivered <= now

(***************************************************************************)
(* The alarm an owner is to hear of: the one set, or the one whose handler *)
(* has yet to finish.                                                      *)
(***************************************************************************)
Pending == IF alarm # NONE THEN alarm ELSE delivered

(***************************************************************************)
(* The documented promise as one state predicate: whatever mixture of      *)
(* throttled touches, setEnvVars, evictions, alarms and destroys cut short *)
(* has happened, a touched owner is armed, for between 0.9 and 1 ttl after *)
(* its last touch.                                                         *)
(***************************************************************************)
ArmedWithinWindow ==
  ttl # 0 /\ touched # NONE =>
    /\ Pending # NONE
    /\ 10 * (Pending - touched) >= 9 * ttl
    /\ Pending - touched <= ttl

\* Idle for at least 0.9 ttl, and past the expiresAt of the last response.
IdleEnough ==
  /\ touched # NONE => 10 * (now - touched) >= 9 * ttl
  /\ expiresAt # NONE => expiresAt <= now

(***************************************************************************)
(* The alarm handler never decides that an owner goes before that owner    *)
(* has been idle for 0.9 ttl and its reported expiresAt is past, although  *)
(* it decides from a lastUsed that throttling lets lag behind.  When its   *)
(* destroy() wipes, after awaiting the interpreters, that holds still of   *)
(* an owner that no request has armed anew since the decision.             *)
(***************************************************************************)
NeverEarly ==
  [][\/ AlarmDestroys \/ AlarmCallsInterpreters
     \/ AlarmWipes /\ alarm = NONE
     => IdleEnough]_vars

(***************************************************************************)
(* With ttl = 0 nothing but DELETE / ever removes the owner, even when an  *)
(* alarm is left from a deployment with another ttl, and once a touch has  *)
(* cleared that alarm none is ever armed again.                            *)
(***************************************************************************)
DisabledNeverExpires ==
  [][ttl = 0 =>
       /\ lastUsed # NONE /\ lastUsed' = NONE => DeleteRequest \/ EndDelete
       /\ alarm = NONE => alarm' = NONE]_vars

(***************************************************************************)
(* Unless expiry is disabled, an owner that was touched is eventually      *)
(* wiped once requests stop.                                               *)
(***************************************************************************)
TouchedIsEventuallyWiped == ttl # 0 /\ touched # NONE ~> lastUsed = NONE

(***************************************************************************)
(* "An idle sandbox is deleted automatically": every owner with a meta row *)
(* is eventually wiped once requests stop, also one whose requests all     *)
(* failed.  The code arms the alarm only on success.                       *)
(***************************************************************************)
IdleIsEventuallyWiped == ttl # 0 /\ lastUsed # NONE ~> lastUsed = NONE

(***************************************************************************)
(* "Either side can go idle for as little as 0.9x its configured TTL       *)
(* before expiring", and "expiresAt reports the armed deadline, so it is   *)
(* always exact".  A request that ends while destroy() awaits the          *)
(* interpreters is told a new deadline, and the destroy goes on.           *)
(***************************************************************************)
WipedOnTime == [][AlarmDestroys \/ AlarmWipes => IdleEnough]_vars

================================================================================
