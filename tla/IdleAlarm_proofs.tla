---------------------------- MODULE IdleAlarm_proofs ----------------------------
(***************************************************************************)
(* Proofs about the idle-alarm policy, for every set of owners and of      *)
(* TTLs, and every Horizon.                                                *)
(***************************************************************************)
EXTENDS IdleAlarm, TLAPS

(***************************************************************************)
(* What a live lifetime knows: the deadline it is armed for, or has been   *)
(* delivered, never exceeds lastUsed + ttl, and lastUsed lags the last     *)
(* touch by at most ttl/10.                                                *)
(***************************************************************************)
LagBounded ==
  ttl # 0 /\ touched # NONE =>
    /\ lastUsed # NONE /\ Pending # NONE
    /\ lastUsed <= touched /\ touched <= now
    /\ Pending <= lastUsed + ttl
    /\ 10 * (Pending - touched) >= 9 * ttl
    /\ 10 * (touched - lastUsed) <= ttl

\* A reported deadline is at most the one the owner is armed for.
ReportedIsArmed ==
  ttl # 0 /\ expiresAt # NONE => touched # NONE /\ Pending # NONE /\ expiresAt <= Pending

UsedInThePast == lastUsed # NONE => lastUsed <= now

(***************************************************************************)
(* An alarm that is still to come is no later than lastUsed + ttl: a touch *)
(* armed it, or the handler of one delivered again after a crash.          *)
(***************************************************************************)
ArmedForTheOwner ==
  ttl # 0 /\ alarm # NONE =>
    alarm <= now \/ (lastUsed # NONE /\ alarm <= lastUsed + ttl)

\* The alarm a handler awaits with is past, and unless a touch armed anew none is set.
DeliveredIsPast ==
  delivered # NONE =>
    /\ ttl # 0 /\ delivered <= now
    /\ alarm # NONE => touched # NONE

\* Only an owner with a meta row has a cached deadline, and none with expiry disabled.
CacheIsOfAnOwner == alarmAt # NONE => ttl # 0 /\ lastUsed # NONE

IInv ==
  /\ TypeOK
  /\ CacheIsCoherent
  /\ LagBounded
  /\ ReportedIsArmed
  /\ UsedInThePast
  /\ ArmedForTheOwner
  /\ DeliveredIsPast
  /\ CacheIsOfAnOwner

USE TTLAssumption, HorizonAssumption, NoneAssumption DEF OptionalTime

LEMMA InitEstablishes == Init => IInv
  <1> SUFFICES ASSUME Init PROVE IInv
    OBVIOUS
  <1>1. TypeOK
    BY DEF Init, TypeOK
  <1>2. CacheIsCoherent /\ LagBounded /\ ReportedIsArmed /\ UsedInThePast
    BY DEF Init, CacheIsCoherent, LagBounded, ReportedIsArmed, UsedInThePast
  <1>3. ArmedForTheOwner /\ DeliveredIsPast /\ CacheIsOfAnOwner
    BY DEF Init, ArmedForTheOwner, DeliveredIsPast, CacheIsOfAnOwner
  <1>. QED
    BY <1>1, <1>2, <1>3 DEF IInv

(***************************************************************************)
(* A touch, with any value of lastUsed setEnvVars may have left, keeps the *)
(* invariant: the three branches of IdleAlarm.touch.  The branch that      *)
(* leaves the alarm alone has compared with a deadline to come, so not     *)
(* with the one a handler awaits with.                                     *)
(***************************************************************************)
LEMMA TouchPreserves ==
  ASSUME IInv, NEW used \in {lastUsed, now}, Touch(used),
         UNCHANGED <<owner, ttl, now, delivered>>,
         request' \in {"none", "handled", "delete"}
  PROVE  IInv'
  <1> USE DEF IInv, TypeOK, CacheIsCoherent, LagBounded, ReportedIsArmed, UsedInThePast,
             ArmedForTheOwner, DeliveredIsPast, CacheIsOfAnOwner, Pending
  <1>1. CASE TouchDisabled(used)
    BY <1>1 DEF Touch, TouchDisabled
  <1>2. CASE TouchRearms
    BY <1>2 DEF Touch, TouchRearms, Want
  <1>3. CASE TouchKeeps(used)
    <2>1. /\ ttl \in Nat /\ now \in Nat /\ ttl # 0
          /\ Armed \in Nat /\ 10 * (now + ttl - Armed) <= ttl
      BY <1>3 DEF TouchKeeps, MustRearm, Armed, Want
    <2>2. Armed > now
      BY <2>1
    <2>3. Armed = alarm
      BY <2>1, <2>2 DEF Armed
    <2>4. /\ lastUsed \in Nat /\ alarm \in Nat /\ alarm <= lastUsed + ttl
          /\ used \in Nat /\ lastUsed <= used /\ used <= now
      BY <2>1, <2>2, <2>3
    <2>. QED
      BY <1>3, <2>1, <2>2, <2>3, <2>4 DEF Touch, TouchKeeps
  <1>. QED
    BY <1>1, <1>2, <1>3 DEF Touch

LEMMA WipePreserves ==
  ASSUME IInv, Wipe, UNCHANGED <<owner, ttl, now>>, delivered' \in {delivered, NONE},
         request' \in {"none", "handled", "delete"}
  PROVE  IInv'
  BY DEF Wipe, IInv, TypeOK, CacheIsCoherent, LagBounded, ReportedIsArmed, UsedInThePast,
             ArmedForTheOwner, DeliveredIsPast, CacheIsOfAnOwner, Pending

LEMMA NextPreserves == IInv /\ [Next]_vars => IInv'
  <1> SUFFICES ASSUME IInv, [Next]_vars PROVE IInv'
    OBVIOUS
  <1>0. request \in {"none", "handled", "delete"}
    BY DEF IInv, TypeOK
  <1>3. CASE EndTouching
    BY <1>3, TouchPreserves DEF EndTouching
  <1>4. CASE EndSetEnv
    BY <1>4, TouchPreserves DEF EndSetEnv
  <1>6. CASE DeleteRequest
    BY <1>0, <1>6, WipePreserves DEF DeleteRequest
  <1>7. CASE EndDelete
    BY <1>7, WipePreserves DEF EndDelete
  <1>8. CASE AlarmDestroys
    BY <1>0, <1>8, WipePreserves DEF AlarmDestroys
  <1>9. CASE AlarmWipes
    BY <1>0, <1>9, WipePreserves DEF AlarmWipes
  <1> USE DEF IInv, TypeOK, CacheIsCoherent, LagBounded, ReportedIsArmed, UsedInThePast,
             ArmedForTheOwner, DeliveredIsPast, CacheIsOfAnOwner, Pending
  <1>1. CASE Tick
    BY <1>1 DEF Tick
  <1>2. CASE BeginRequest
    BY <1>2 DEF BeginRequest
  <1>5. CASE EndFailing \/ BeginDelete
    BY <1>5 DEF EndFailing, BeginDelete
  <1>10. CASE AlarmIgnored
    BY <1>10 DEF AlarmIgnored, AlarmDue
  <1>11. CASE AlarmRearms
    BY <1>11 DEF AlarmRearms, AlarmDue, Deadline
  <1>12. CASE AlarmCallsInterpreters
    BY <1>12 DEF AlarmCallsInterpreters, Decides, AlarmDue
  <1>13. CASE Evict
    BY <1>13 DEF Evict
  <1>14. CASE UNCHANGED vars
    BY <1>14 DEF vars
  <1>. QED
    BY <1>1, <1>2, <1>3, <1>4, <1>5, <1>6, <1>7, <1>8, <1>9, <1>10, <1>11, <1>12, <1>13, <1>14
       DEF Next, EndRequest, OnAlarm

\* The invariant holds for every owner, TTL, horizon and order of requests and alarms.
THEOREM Invariance == Spec => []IInv
  BY InitEstablishes, NextPreserves, PTL DEF Spec

(***************************************************************************)
(* Types: every variable of the policy and its owner stays in its type.    *)
(***************************************************************************)
THEOREM TypeCorrect == Spec => []TypeOK
  <1>1. IInv => TypeOK
    BY DEF IInv
  <1>. QED
    BY <1>1, Invariance, PTL

(***************************************************************************)
(* The in-memory deadline touch() trusts is always the armed one, or one   *)
(* that is past, whose handler has yet to finish.                          *)
(***************************************************************************)
THEOREM CacheCoherence == Spec => []CacheIsCoherent
  <1>1. IInv => CacheIsCoherent
    BY DEF IInv
  <1>. QED
    BY <1>1, Invariance, PTL

(***************************************************************************)
(* The documented window: armed between 0.9 and 1 ttl after the last touch.*)
(***************************************************************************)
THEOREM ArmedWindow == Spec => []ArmedWithinWindow
  <1>1. IInv => ArmedWithinWindow
    BY DEF IInv, TypeOK, LagBounded, ArmedWithinWindow, Pending
  <1>. QED
    BY <1>1, Invariance, PTL

\* An owner whose pending alarm is past has been idle for long enough.
LEMMA PastIsIdleEnough ==
  ASSUME IInv, ttl # 0, Pending # NONE, Pending <= now
  PROVE  IdleEnough
  BY DEF IInv, TypeOK, LagBounded, ReportedIsArmed, Pending, IdleEnough

(***************************************************************************)
(* The alarm handler never decides against an owner idle for less than 0.9 *)
(* ttl, or before the deadline it last reported; and its destroy, however  *)
(* long it awaits the interpreters, wipes such an owner only if a request  *)
(* has armed it anew in the meantime.                                      *)
(***************************************************************************)
THEOREM NoEarlyExpiry == Spec => NeverEarly
  <1>1. ASSUME IInv, AlarmDestroys \/ AlarmCallsInterpreters
        PROVE  IdleEnough
    <2>1. ttl # 0 /\ alarm # NONE /\ alarm <= now
      BY <1>1 DEF AlarmDestroys, AlarmCallsInterpreters, Decides, AlarmDue
    <2>. QED
      BY <1>1, <2>1, PastIsIdleEnough DEF Pending
  <1>2. ASSUME IInv, AlarmWipes, alarm = NONE
        PROVE  IdleEnough
    <2>1. ttl # 0 /\ delivered # NONE /\ delivered <= now
      BY <1>2 DEF AlarmWipes, IInv, DeliveredIsPast
    <2>. QED
      BY <1>2, <2>1, PastIsIdleEnough DEF Pending
  <1>3. IInv => [\/ AlarmDestroys \/ AlarmCallsInterpreters
                 \/ AlarmWipes /\ alarm = NONE
                 => IdleEnough]_vars
    BY <1>1, <1>2
  <1>. QED
    BY <1>3, Invariance, PTL DEF NeverEarly

(***************************************************************************)
(* With ttl = 0 no touch arms an alarm, the handler finds nothing it may   *)
(* wipe, and only DELETE / takes the meta row: of every step, not only of  *)
(* those an execution begins with.                                         *)
(***************************************************************************)
LEMMA DisabledStep ==
  ASSUME IInv, [Next]_vars, ttl = 0
  PROVE  /\ lastUsed # NONE /\ lastUsed' = NONE => DeleteRequest \/ EndDelete
         /\ alarm = NONE => alarm' = NONE
  <1>0. delivered = NONE
    BY DEF IInv, DeliveredIsPast
  <1> USE DEF IInv, TypeOK
  <1>1. CASE Tick \/ EndFailing \/ Evict \/ BeginDelete \/ UNCHANGED vars
    BY <1>0, <1>1 DEF Tick, EndFailing, Evict, BeginDelete, vars
  <1>2. CASE BeginRequest
    BY <1>2 DEF BeginRequest
  <1>3. CASE EndTouching \/ EndSetEnv
    BY <1>3 DEF EndTouching, EndSetEnv, Touch, TouchDisabled, TouchRearms, TouchKeeps
  <1>4. CASE DeleteRequest \/ EndDelete
    BY <1>4 DEF DeleteRequest, EndDelete, Wipe
  <1>5. CASE OnAlarm
    BY <1>5 DEF OnAlarm, AlarmIgnored, AlarmRearms, AlarmDestroys, AlarmCallsInterpreters,
                Decides, AlarmDue
  <1>6. CASE AlarmWipes
    BY <1>0, <1>6 DEF AlarmWipes
  <1>. QED
    BY <1>1, <1>2, <1>3, <1>4, <1>5, <1>6 DEF Next, EndRequest

(***************************************************************************)
(* With expiry disabled nothing but DELETE / ever removes the owner, and   *)
(* an alarm that is gone stays gone.                                       *)
(***************************************************************************)
THEOREM DisabledIsForever == Spec => DisabledNeverExpires
  <1>1. ASSUME IInv, [Next]_vars
        PROVE  [ttl = 0 =>
                  /\ lastUsed # NONE /\ lastUsed' = NONE => DeleteRequest \/ EndDelete
                  /\ alarm = NONE => alarm' = NONE]_vars
    BY <1>1, DisabledStep
  <1>. QED
    BY <1>1, Invariance, PTL DEF Spec, DisabledNeverExpires
================================================================================
