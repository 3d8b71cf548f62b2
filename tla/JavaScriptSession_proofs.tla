----------------------- MODULE JavaScriptSession_proofs -----------------------
(***************************************************************************)
(* Proofs about JavaScriptSession, for every amount of fuel, every console *)
(* limit and any number of executions; and about ScriptTransform, for      *)
(* every set of syntax trees.                                              *)
(*                                                                         *)
(* Part one: the executions of an instance.                                *)
(***************************************************************************)
EXTENDS MCSessions, WellFoundedInduction, TLAPS

(***************************************************************************)
(* Types.                                                                  *)
(***************************************************************************)
Ids == 1 .. MaxExecutions

Value == [kind : {"none", "undefined", "fits", "unfit", "opaque"},
          by : 0 .. MaxExecutions, in : 0 .. MaxExecutions]
Error == [kind : {"none", "error", "limit", "opaque"},
          by : 0 .. MaxExecutions, in : 0 .. MaxExecutions]

\* Not every kind is one of a slot, nor does a session's error have no description; those
\* of the latter are in the set to keep it simple.
Kinds == {"none", "fuel", "limit", "error", "engine", "unsettled", "value", "empty", "opaque"}
Outcomes == [kind : Kinds, by : 0 .. MaxExecutions, in : 0 .. MaxExecutions, logs : 0 .. MaxEntries]
Slots == {o \in Outcomes : o.kind \in {"none", "error", "limit", "value", "empty"}}

Memory ==
  [value : Value, error : Error, done : BOOLEAN, slot : Slots,
   entries : 0 .. MaxEntries, said : 0 .. MaxEntries,
   waiting : SUBSET Ids, ready : Seq(Jobs), words : BOOLEAN, torn : BOOLEAN]

Meters == [remaining : Int, interrupted : BOOLEAN]
Snapshots == [taken : BOOLEAN, memory : Memory]

Types ==
  /\ instance \in {"none", "session", "stateless"}
  /\ at \in {"idle", "reset", "body", "jobs", "end", "done"}
  /\ script \in Scripts
  /\ n \in 0 .. MaxExecutions
  /\ guest \in Memory
  /\ meter \in Meters
  /\ invalid \in BOOLEAN
  /\ outcome \in Outcomes
  /\ used \in Int
  /\ snapshot \in Snapshots
  /\ at # "idle" => instance # "none" /\ n \in Ids
  /\ at = "reset" => instance = "session"
  /\ at # "idle" => (instance = "stateless" <=> script.stateless)

\* What has been burnt and what is left of the fuel; the words are set only by this execution.
Fuelled ==
  /\ meter.remaining <= Fuel /\ used <= 2 * Fuel
  /\ InGuest =>
       /\ meter.remaining > -Fuel
       /\ used = Fuel - meter.remaining
       /\ meter.interrupted => meter.remaining <= 0
       /\ guest.words => meter.interrupted
  /\ at = "done" /\ outcome.kind = "fuel" => used >= Fuel

\* A torn instance is invalid until it is gone, and never stored.
Rested ==
  /\ ~snapshot.memory.torn
  /\ instance # "none" /\ guest.torn => invalid

\* What was captured was captured by this execution.
Recent(x) == x # Empty => x.in = n

Captures ==
  /\ InGuest => Recent(guest.value) /\ Recent(guest.error)
  /\ InGuest /\ script.stateless /\ guest.slot.kind # "none" => guest.slot.in = n
  /\ at = "done" /\ outcome.kind \in {"value", "error", "limit"} => outcome.in = n

\* A body is in one place: it awaits, or it is in the queue once; so are the other jobs.
Elements(s) == {s[i] : i \in DOMAIN s}
Once(s) == \A i, j \in DOMAIN s : s[i] = s[j] => i = j
InQueue(memory) == Elements(memory.ready)
Places(memory) == memory.waiting \union InQueue(memory)

OnePlace(memory) ==
  /\ memory.waiting \subseteq 1 .. n /\ InQueue(memory) \subseteq Detached .. n
  /\ memory.waiting \intersect InQueue(memory) = {}
  /\ Once(memory.ready)

\* __sandbox.execute continues once, when the only body there is has settled.
Queued ==
  /\ OnePlace(guest) /\ OnePlace(snapshot.memory)
  /\ at \notin {"body", "jobs"} => guest.ready = <<>>
  /\ snapshot.memory.ready = <<>>
  /\ at \in {"reset", "body"} => n \notin Places(guest)
  /\ 0 \in Places(guest) => script.stateless /\ at = "jobs" /\ n \notin Places(guest)
  /\ InGuest /\ script.stateless => Places(guest) \subseteq {n, 0, Detached}

\* A session's body that has not marked itself done is still somewhere.
Pending ==
  /\ at \in {"jobs", "end"} /\ expectAsync /\ ~guest.done => n \in Places(guest)
  /\ at = "done" /\ outcome.kind = "unsettled" /\ ~script.stateless => n \in guest.waiting

\* The three stages of a stateless execution: its body runs or waits; it has settled, and
\* __sandbox.execute continues; the slot is final.
Running == at = "body" \/ n \in Places(guest)
Continuing == 0 \in Places(guest)

FinalSlot ==
  IF Indescribable THEN guest.slot.kind = "none"
  ELSE guest.slot.kind # "none" /\ guest.slot.by = n /\ guest.slot.logs \in guest.said .. guest.entries

Stages ==
  /\ guest.said <= guest.entries
  /\ guest.value # Empty => guest.value.by = n
  /\ guest.error # Empty => guest.error.by = n
  /\ Running => guest.value = Empty /\ guest.error = Empty /\ guest.slot.kind = "none"
  /\ ~Running /\ ~Continuing => FinalSlot
  /\ ~script.parses => at = "body" \/ (guest.slot.kind = "error" /\ ~Running /\ ~Continuing)

\* A stateless instance only ever runs its one script.
Alone ==
  /\ InGuest /\ script.stateless => Stages
  /\ StatelessIsExact

IInv == Types /\ Fuelled /\ Rested /\ Captures /\ Queued /\ Pending /\ Alone

USE JavaScriptAssumption

(***************************************************************************)
(* The job queue, in which every job is at most once.                      *)
(***************************************************************************)
\* The numbers of bodies and of jobs.
LEMMA Numbers == Ids \subseteq Jobs /\ 0 \in Jobs /\ Detached \in Jobs /\ Detached < 0 /\ 0 \notin Ids /\ Detached \notin Ids
  BY DEF Ids, Jobs, Detached

\* An empty queue.
LEMMA EmptyQueue == Elements(<<>>) = {} /\ Once(<<>>) /\ <<>> \in Seq(Jobs)
  BY DEF Elements, Once

\* Awaiting: a job joins the queue it is not in.
LEMMA AppendOnce ==
  ASSUME NEW s \in Seq(Jobs), NEW x \in Jobs, Once(s), x \notin Elements(s)
  PROVE  /\ Append(s, x) \in Seq(Jobs)
         /\ Elements(Append(s, x)) = Elements(s) \union {x}
         /\ Once(Append(s, x))
  <1>1. /\ Len(s) \in Nat /\ DOMAIN s = 1 .. Len(s)
        /\ Append(s, x) \in Seq(Jobs) /\ DOMAIN Append(s, x) = 1 .. (Len(s) + 1)
        /\ \A i \in DOMAIN s : Append(s, x)[i] = s[i]
        /\ Append(s, x)[Len(s) + 1] = x
    OBVIOUS
  <1>2. DOMAIN Append(s, x) = DOMAIN s \union {Len(s) + 1}
    BY <1>1
  <1>3. Elements(Append(s, x)) = Elements(s) \union {x}
    BY <1>1, <1>2 DEF Elements
  <1>4. Once(Append(s, x))
    BY <1>1, <1>2 DEF Once, Elements
  <1> QED BY <1>1, <1>3, <1>4

\* Running: the head leaves the queue, where it was once.
LEMMA TailOnce ==
  ASSUME NEW s \in Seq(Jobs), s # <<>>, Once(s)
  PROVE  /\ Head(s) \in Jobs /\ Head(s) \in Elements(s)
         /\ Tail(s) \in Seq(Jobs)
         /\ Elements(Tail(s)) = Elements(s) \ {Head(s)}
         /\ Once(Tail(s))
  <1>1. Len(s) \in Nat \ {0} /\ Head(s) = s[1] /\ DOMAIN s = 1 .. Len(s)
    OBVIOUS
  <1>2. /\ Tail(s) \in Seq(Jobs) /\ DOMAIN Tail(s) = 1 .. (Len(s) - 1)
        /\ \A i \in DOMAIN Tail(s) : Tail(s)[i] = s[i + 1]
    BY <1>1
  <1>3. Elements(Tail(s)) = Elements(s) \ {Head(s)}
    <2>1. ASSUME NEW x \in Elements(Tail(s)) PROVE x \in Elements(s) \ {Head(s)}
      <3>1. PICK i \in DOMAIN Tail(s) : x = Tail(s)[i]
        BY <2>1 DEF Elements
      <3>2. i + 1 \in DOMAIN s /\ x = s[i + 1] /\ i + 1 # 1
        BY <3>1, <1>1, <1>2
      <3> QED BY <3>2, <1>1 DEF Elements, Once
    <2>2. ASSUME NEW x \in Elements(s) \ {Head(s)} PROVE x \in Elements(Tail(s))
      <3>1. PICK i \in DOMAIN s : x = s[i]
        BY <2>2 DEF Elements
      <3>2. i - 1 \in DOMAIN Tail(s) /\ x = Tail(s)[i - 1]
        BY <3>1, <2>2, <1>1, <1>2
      <3> QED BY <3>2 DEF Elements
    <2> QED BY <2>1, <2>2
  <1>4. Once(Tail(s))
    BY <1>1, <1>2 DEF Once
  <1>5. 1 \in DOMAIN s
    BY <1>1
  <1>6. Head(s) \in Jobs /\ Head(s) \in Elements(s)
    BY <1>1, <1>5 DEF Elements
  <1> QED BY <1>2, <1>3, <1>4, <1>6

(***************************************************************************)
(* What the code of one job does.                                          *)
(***************************************************************************)
ByGuest(job) ==
  \/ Log(job) \/ Start(job) \/ Await(job)
  \/ \E other \in Ids : Wake(job, other)
  \/ \E v \in {"absent", "undefined", "fits", "unfit", "opaque"} : Finish(job, v)
  \/ \E kind \in {"error", "limit", "opaque"} : ThrowAsync(job, kind)
  \/ job = Detached /\ Leave
  \/ job = 0 /\ Settle

\* The job that runs is in no other place, and has left the queue if it was there.
LEMMA RestOnce ==
  ASSUME Types, Queued, NEW job \in Jobs, Runs(job)
  PROVE  /\ job \in Detached .. n /\ job \notin guest.waiting
         /\ Rest \in Seq(Jobs) /\ Once(Rest)
         /\ Elements(Rest) = Elements(guest.ready) \ {job}
         /\ at = "body" => job = n /\ n \in Ids
         /\ at = "jobs" => job \in Places(guest)
         /\ at \in {"body", "jobs"}
  <1>1. /\ guest.ready \in Seq(Jobs) /\ Once(guest.ready) /\ n \in Nat
    BY DEF Types, Memory, Queued, OnePlace
  <1>2. CASE at = "body"
    BY <1>1, <1>2 DEF Runs, Rest, Queued, Types, InQueue, Ids, Places, Detached
  <1>3. CASE at = "jobs"
    <2>1. guest.ready # <<>> /\ job = Head(guest.ready) /\ Rest = Tail(guest.ready)
      BY <1>3 DEF Runs, Rest
    <2>2. job \in InQueue(guest)
      BY <2>1, <1>1, TailOnce DEF InQueue
    <2> QED BY <2>1, <2>2, <1>1, <1>3, TailOnce DEF Queued, OnePlace, Places
  <1> QED BY <1>2, <1>3 DEF Runs

\* What setResult captures is a value.
LEMMA ValueTyped ==
  ASSUME NEW job \in Ids, n \in 0 .. MaxExecutions, NEW kind \in {"undefined", "fits", "unfit", "opaque"}
  PROVE  Captured(job, kind) \in Value
  BY DEF Captured, Value, Ids

\* What setError captures is an error.
LEMMA ErrorTyped ==
  ASSUME NEW job \in Ids, n \in 0 .. MaxExecutions, NEW kind \in {"error", "limit", "opaque"}
  PROVE  Captured(job, kind) \in Error
  BY DEF Captured, Error, Ids

\* The answers that are built from what was captured are outcomes.
LEMMA AnswersTyped ==
  ASSUME Types
  PROVE  /\ \A k \in Kinds : Own(k) \in Outcomes
         /\ Of(guest.error, guest.error.kind) \in Outcomes /\ Of(guest.value, "value") \in Outcomes
         /\ NoOutcome \in Outcomes
  <1>1. /\ guest.value \in Value /\ guest.error \in Error /\ guest.entries \in 0 .. MaxEntries
        /\ n \in 0 .. MaxExecutions
    BY DEF Types, Memory
  <1>2. \A k \in Kinds : Own(k) \in Outcomes
    BY <1>1 DEF Own, Outcomes
  <1>3. Of(guest.error, guest.error.kind) \in Outcomes /\ Of(guest.value, "value") \in Outcomes
    BY <1>1 DEF Of, Outcomes, Error, Value, Kinds
  <1>4. NoOutcome \in Outcomes
    BY DEF NoOutcome, Outcomes, Kinds
  <1> QED BY <1>2, <1>3, <1>4

\* There is an error when its kind is one; one that has a description is no "opaque" one.
LEMMA ErrorDescribed ==
  ASSUME Types
  PROVE  ~Indescribable /\ guest.error.kind # "none" =>
           guest.error.kind \in {"error", "limit"} /\ guest.error # Empty
  BY DEF Types, Memory, Error, Empty, Indescribable

\* So is the slot.
LEMMA SlotTyped ==
  ASSUME Types
  PROVE  Final \in Slots /\ Own("error") \in Slots
  <1>1. /\ Own("error") \in Outcomes /\ Own("empty") \in Outcomes /\ NoOutcome \in Outcomes
        /\ Of(guest.error, guest.error.kind) \in Outcomes /\ Of(guest.value, "value") \in Outcomes
    BY AnswersTyped DEF Kinds
  <1>a. ~Indescribable /\ guest.error.kind # "none" => guest.error.kind \in {"error", "limit"}
    BY ErrorDescribed
  <1>2. /\ Own("error").kind = "error" /\ Own("empty").kind = "empty" /\ NoOutcome.kind = "none"
        /\ Of(guest.error, guest.error.kind).kind = guest.error.kind
        /\ Of(guest.value, "value").kind = "value"
    BY DEF Own, Of, NoOutcome
  <1> QED BY <1>1, <1>2, <1>a DEF Final, Slots

\* The four things a job can do. It goes on, and may wait, or start a job; it leaves the
\* queue; its body settles; it ends __sandbox.execute.
Answer == <<guest.value, guest.error, guest.done, guest.slot, guest.said>>

Goes(job) ==
  /\ job # 0 /\ UNCHANGED Answer /\ guest.entries <= guest'.entries
  /\ \/ at' = at /\ Places(guest') \in {Places(guest), Places(guest) \union {Detached}}
     \/ at' = "jobs" /\ job \in Ids /\ Places(guest') = Places(guest) \union {job}

HasLeft(job) ==
  /\ job = Detached /\ UNCHANGED Answer /\ UNCHANGED <<guest.entries, at>>
  /\ Places(guest') = Places(guest) \ {job}

Settles(job) ==
  /\ job \in Ids /\ at' = "jobs" /\ UNCHANGED <<guest.slot, guest.entries>>
  /\ Places(guest') = (Places(guest) \ {job}) \union (IF script.stateless THEN {0} ELSE {})
  /\ guest'.said = IF script.stateless THEN guest.entries ELSE guest.said
  /\ guest.done => guest'.done
  /\ job = n /\ IsAsync => guest'.done
  /\ guest'.value # guest.value => guest'.value.by = job /\ guest'.value.in = n
  /\ guest'.error # guest.error => guest'.error.by = job /\ guest'.error.in = n

Continues(job) ==
  /\ job = 0 /\ UNCHANGED <<guest.value, guest.error, guest.done, guest.said, guest.entries, at>>
  /\ guest'.slot = Final
  /\ Places(guest') = Places(guest) \ {0}

\* The queue and the waiting bodies of a memory.
Places2(memory, waiting, ready) == memory.waiting = waiting /\ memory.ready = ready

\* The kept parts of the memory.
Kept == UNCHANGED <<guest.words, guest.torn>>

\* Where jobs are when one has joined the queue or left it.
LEMMA PlacesOf ==
  ASSUME NEW memory, NEW waiting, NEW ready, Places2(memory, waiting, ready)
  PROVE  Places(memory) = waiting \union Elements(ready) /\ InQueue(memory) = Elements(ready)
  BY DEF Places, InQueue, Places2

\* 0 is not in the queue when a stateless script's body runs.
LEMMA BodyBeforeZero ==
  ASSUME Types, Queued, NEW job \in Ids, Runs(job)
  PROVE  script.stateless => job = n /\ 0 \notin Places(guest)
  <1>1. /\ at \in {"body", "jobs"}
        /\ at = "body" => job = n
        /\ at = "jobs" => job \in Places(guest)
    BY RestOnce, Numbers
  <1>2. CASE at = "body"
    BY <1>1, <1>2 DEF Queued
  <1>3. CASE at = "jobs"
    BY <1>1, <1>3, Numbers DEF Queued, InGuest
  <1> QED BY <1>1, <1>2, <1>3

\* What a body that settles does.
LEMMA SettledStep ==
  ASSUME Types, Queued, NEW job \in Ids, Runs(job), NEW m \in Memory, guest' = Settled(m),
         m.waiting = guest.waiting, m.words = guest.words, m.torn = guest.torn,
         m.slot = guest.slot, m.entries = guest.entries, m.said = guest.said,
         at' = "jobs", UNCHANGED n
  PROVE  /\ guest' \in Memory /\ OnePlace(guest') /\ Kept
         /\ UNCHANGED <<guest.slot, guest.entries>>
         /\ Places(guest') = (Places(guest) \ {job}) \union (IF script.stateless THEN {0} ELSE {})
         /\ guest'.said = IF script.stateless THEN guest.entries ELSE guest.said
         /\ guest'.done = m.done /\ guest'.value = m.value /\ guest'.error = m.error
  <1>1. /\ guest \in Memory /\ guest.entries \in 0 .. MaxEntries /\ n \in Nat
        /\ job \in Jobs /\ OnePlace(guest)
    BY Numbers DEF Types, Memory, Queued
  <1>2. /\ job \notin guest.waiting /\ Rest \in Seq(Jobs) /\ Once(Rest)
        /\ Elements(Rest) = Elements(guest.ready) \ {job}
    BY <1>1, RestOnce
  <1>3. CASE script.stateless
    <2>1. 0 \notin Elements(Rest) /\ 0 \in Jobs
      BY <1>2, <1>3, BodyBeforeZero, Numbers DEF Places, InQueue
    <2>2. /\ Append(Rest, 0) \in Seq(Jobs) /\ Once(Append(Rest, 0))
          /\ Elements(Append(Rest, 0)) = Elements(Rest) \union {0}
      BY <1>2, <2>1, AppendOnce
    <2>3. guest' = [m EXCEPT !.ready = Append(Rest, 0), !.said = guest.entries]
      BY <1>3 DEF Settled
    <2>4. guest' \in Memory /\ Places2(guest', guest.waiting, Append(Rest, 0))
      BY <1>1, <2>2, <2>3 DEF Memory, Places2
    <2>5. /\ InQueue(guest') = (InQueue(guest) \ {job}) \union {0}
          /\ Places(guest') = (Places(guest) \ {job}) \union {0}
      BY <1>2, <2>2, <2>4, PlacesOf DEF Places, InQueue
    <2>6. OnePlace(guest')
      BY <1>1, <2>2, <2>4, <2>5 DEF OnePlace, Places2, Detached
    <2> QED BY <1>3, <2>3, <2>4, <2>5, <2>6 DEF Memory, Kept
  <1>4. CASE ~script.stateless
    <2>1. guest' = [m EXCEPT !.ready = Rest]
      BY <1>4 DEF Settled
    <2>2. guest' \in Memory /\ Places2(guest', guest.waiting, Rest)
      BY <1>1, <1>2, <2>1 DEF Memory, Places2
    <2>3. /\ InQueue(guest') = InQueue(guest) \ {job}
          /\ Places(guest') = Places(guest) \ {job}
      BY <1>2, <2>2, PlacesOf DEF Places, InQueue
    <2>4. OnePlace(guest')
      BY <1>1, <1>2, <2>2, <2>3 DEF OnePlace, Places2
    <2> QED BY <1>4, <2>1, <2>2, <2>3, <2>4 DEF Memory, Kept
  <1> QED BY <1>3, <1>4

\* Every step of the guest's code is one of the four.
LEMMA GuestStep ==
  ASSUME Types, Queued, NEW job \in Jobs, ByGuest(job)
  PROVE  /\ UNCHANGED <<instance, script, n, meter, invalid, outcome, used, snapshot>>
         /\ at \in {"body", "jobs"} /\ at' \in {"body", "jobs"} /\ Runs(job)
         /\ guest' \in Memory /\ OnePlace(guest') /\ Kept
         /\ Goes(job) \/ HasLeft(job) \/ Settles(job) \/ Continues(job)
  <1>0. /\ UNCHANGED <<instance, script, n, meter, invalid, outcome, used, snapshot>> /\ Runs(job)
    BY DEF ByGuest, Log, Start, Await, Wake, Finish, ThrowAsync, Leave, Settle, GuestOnly
  <1>1. /\ guest \in Memory /\ guest.ready \in Seq(Jobs) /\ Once(guest.ready)
        /\ n \in Nat /\ n \in 0 .. MaxExecutions /\ OnePlace(guest) /\ at \in {"body", "jobs"}
        /\ guest.entries \in 0 .. MaxEntries /\ guest.waiting \subseteq 1 .. n
    BY <1>0 DEF Types, Memory, Queued, OnePlace, Runs
  <1>2. /\ job \in Detached .. n /\ job \notin guest.waiting
        /\ Rest \in Seq(Jobs) /\ Once(Rest)
        /\ Elements(Rest) = Elements(guest.ready) \ {job}
    BY <1>0, RestOnce
  <1>3. job > 0 => job \in Ids
    BY DEF Jobs, Ids
  <1>4. CASE Log(job)
    <2>1. /\ guest' = [guest EXCEPT !.entries = @ + 1] /\ guest.entries + 1 \in 0 .. MaxEntries
          /\ job # 0 /\ at' = at
      BY <1>1, <1>4 DEF Log
    <2>2. guest' \in Memory /\ Kept /\ UNCHANGED Answer /\ guest'.entries = guest.entries + 1
      BY <1>1, <2>1 DEF Memory, Kept, Answer
    <2>3. guest'.waiting = guest.waiting /\ guest'.ready = guest.ready
      BY <1>1, <2>1 DEF Memory
    <2>4. Places(guest') = Places(guest) /\ OnePlace(guest')
      BY <1>0, <1>1, <2>3 DEF Places, InQueue, OnePlace
    <2> QED BY <1>0, <1>1, <2>1, <2>2, <2>4 DEF Goes
  <1>5. CASE Start(job)
    <2>1. Detached \notin Elements(guest.ready) /\ Detached \in Jobs
      BY <1>5, Numbers DEF Start, ToSet, Elements
    <2>2. /\ Append(guest.ready, Detached) \in Seq(Jobs) /\ Once(Append(guest.ready, Detached))
          /\ Elements(Append(guest.ready, Detached)) = Elements(guest.ready) \union {Detached}
      BY <1>1, <2>1, AppendOnce
    <2>3. guest' = [guest EXCEPT !.ready = Append(@, Detached)] /\ at' = at /\ job # 0
      BY <1>5 DEF Start, Jobs
    <2>4. /\ guest' \in Memory /\ Kept /\ UNCHANGED Answer /\ guest'.entries = guest.entries
          /\ Places2(guest', guest.waiting, Append(guest.ready, Detached))
      BY <1>1, <2>2, <2>3 DEF Memory, Kept, Answer, Places2
    <2>5. Places(guest') = Places(guest) \union {Detached} /\ InQueue(guest') = InQueue(guest) \union {Detached}
      BY <2>2, <2>4, PlacesOf DEF Places, InQueue
    <2>6. OnePlace(guest')
      BY <1>0, <1>1, <2>2, <2>4, <2>5 DEF OnePlace, Places2, Detached
    <2>7. guest.entries <= guest'.entries
      BY <1>1, <2>4
    <2>8. Goes(job)
      BY <2>3, <2>4, <2>5, <2>7, Zenon DEF Goes
    <2> QED BY <1>0, <1>1, <2>3, <2>4, <2>6, <2>8
  <1>6. CASE \E other \in Ids : Wake(job, other)
    <2>1. PICK other \in Ids : Wake(job, other)
      BY <1>6
    <2>2. other \notin Elements(guest.ready) /\ other \in guest.waiting /\ other \in Jobs /\ job # 0 /\ at' = at
      BY <2>1, <1>1, Numbers DEF Wake, OnePlace, InQueue
    <2>3. /\ Append(guest.ready, other) \in Seq(Jobs) /\ Once(Append(guest.ready, other))
          /\ Elements(Append(guest.ready, other)) = Elements(guest.ready) \union {other}
      BY <1>1, <2>2, AppendOnce
    <2>4. /\ guest' \in Memory /\ Kept /\ UNCHANGED Answer /\ guest'.entries = guest.entries
          /\ Places2(guest', guest.waiting \ {other}, Append(guest.ready, other))
      BY <1>1, <2>1, <2>3 DEF Wake, Memory, Kept, Answer, Places2
    <2>5. InQueue(guest') = InQueue(guest) \union {other} /\ Places(guest') = Places(guest)
      BY <2>2, <2>3, <2>4, PlacesOf DEF Places, InQueue
    <2>6. OnePlace(guest')
      BY <1>0, <1>1, <2>2, <2>3, <2>4, <2>5 DEF OnePlace, Places2, Detached
    <2> QED BY <1>0, <1>1, <2>2, <2>4, <2>5, <2>6 DEF Goes
  <1>7. CASE Await(job)
    <2>0. job \in Ids /\ job # 0 /\ at' = "jobs"
      BY <1>3, <1>7 DEF Await, Jobs
    <2>1. CASE guest' = [guest EXCEPT !.waiting = @ \union {job}, !.ready = Rest]
      <3>1. /\ guest' \in Memory /\ Kept /\ UNCHANGED Answer /\ guest'.entries = guest.entries
            /\ Places2(guest', guest.waiting \union {job}, Rest)
        BY <1>1, <1>2, <2>0, <2>1 DEF Memory, Kept, Answer, Places2
      <3>2. /\ InQueue(guest') = InQueue(guest) \ {job}
            /\ Places(guest') = Places(guest) \union {job}
        BY <1>2, <3>1, PlacesOf DEF Places, InQueue
      <3>3. OnePlace(guest')
        BY <1>0, <1>1, <1>2, <2>0, <3>1, <3>2 DEF OnePlace, Places2, Ids
      <3> QED BY <1>0, <1>1, <2>0, <3>1, <3>2, <3>3 DEF Goes
    <2>2. CASE guest' = [guest EXCEPT !.ready = Append(Rest, job)]
      <3>1. /\ Append(Rest, job) \in Seq(Jobs) /\ Once(Append(Rest, job))
            /\ Elements(Append(Rest, job)) = Elements(Rest) \union {job}
        BY <1>2, AppendOnce
      <3>2. /\ guest' \in Memory /\ Kept /\ UNCHANGED Answer /\ guest'.entries = guest.entries
            /\ Places2(guest', guest.waiting, Append(Rest, job))
        BY <1>1, <3>1, <2>2 DEF Memory, Kept, Answer, Places2
      <3>3. /\ InQueue(guest') = InQueue(guest) \union {job}
            /\ Places(guest') = Places(guest) \union {job}
        BY <1>2, <3>1, <3>2, PlacesOf DEF Places, InQueue
      <3>4. OnePlace(guest')
        BY <1>0, <1>1, <1>2, <3>1, <3>2, <3>3 DEF OnePlace, Places2
      <3> QED BY <1>0, <1>1, <2>0, <3>2, <3>3, <3>4 DEF Goes
    <2> QED BY <1>7, <2>1, <2>2 DEF Await
  <1>8. CASE \E v \in {"absent", "undefined", "fits", "unfit", "opaque"} : Finish(job, v)
    <2>1. PICK v \in {"absent", "undefined", "fits", "unfit", "opaque"} : Finish(job, v)
      BY <1>8
    <2> DEFINE m == [guest EXCEPT !.value = IF v = "absent" THEN @ ELSE Captured(job, v),
                                  !.done = @ \/ IsAsync \/ job # n]
    <2>2. job \in Ids /\ at' = "jobs" /\ guest' = Settled(m)
      BY <1>3, <2>1 DEF Finish
    <2>3. PICK b \in BOOLEAN : b <=> (guest.done \/ IsAsync \/ job # n)
      OBVIOUS
    <2>4. PICK x \in Value : x = IF v = "absent" THEN guest.value ELSE Captured(job, v)
      BY <1>1, <2>2, ValueTyped DEF Memory
    <2>5. m = [guest EXCEPT !.value = x, !.done = b]
      BY <2>3, <2>4, Zenon
    <2>6. /\ m \in Memory /\ m.value = x /\ m.error = guest.error /\ m.done = b
          /\ m.waiting = guest.waiting /\ m.words = guest.words /\ m.torn = guest.torn
          /\ m.slot = guest.slot /\ m.entries = guest.entries /\ m.said = guest.said
      BY <1>1, <2>5 DEF Memory
    <2> HIDE DEF m
    <2>7. /\ guest' \in Memory /\ OnePlace(guest') /\ Kept
          /\ UNCHANGED <<guest.slot, guest.entries>>
          /\ Places(guest') = (Places(guest) \ {job}) \union (IF script.stateless THEN {0} ELSE {})
          /\ guest'.said = IF script.stateless THEN guest.entries ELSE guest.said
          /\ guest'.done = m.done /\ guest'.value = m.value /\ guest'.error = m.error
      BY <1>0, <2>2, <2>6, SettledStep
    <2>8. guest'.value # guest.value => guest'.value.by = job /\ guest'.value.in = n
      BY <2>4, <2>6, <2>7 DEF Captured
    <2>9. Settles(job)
      BY <2>2, <2>3, <2>6, <2>7, <2>8 DEF Settles
    <2> QED BY <1>0, <1>1, <2>2, <2>7, <2>9
  <1>9. CASE \E kind \in {"error", "limit", "opaque"} : ThrowAsync(job, kind)
    <2>1. PICK kind \in {"error", "limit", "opaque"} : ThrowAsync(job, kind)
      BY <1>9
    <2> DEFINE m == [guest EXCEPT !.error = Captured(job, kind), !.done = TRUE]
    <2>2. job \in Ids /\ at' = "jobs" /\ guest' = Settled(m)
      BY <1>3, <2>1 DEF ThrowAsync
    <2>3. Captured(job, kind) \in Error
      BY <1>1, <2>2, ErrorTyped
    <2>4. /\ m \in Memory /\ m.value = guest.value /\ m.error = Captured(job, kind) /\ m.done = TRUE
          /\ m.waiting = guest.waiting /\ m.words = guest.words /\ m.torn = guest.torn
          /\ m.slot = guest.slot /\ m.entries = guest.entries /\ m.said = guest.said
      BY <1>1, <2>3 DEF Memory
    <2> HIDE DEF m
    <2>5. /\ guest' \in Memory /\ OnePlace(guest') /\ Kept
          /\ UNCHANGED <<guest.slot, guest.entries>>
          /\ Places(guest') = (Places(guest) \ {job}) \union (IF script.stateless THEN {0} ELSE {})
          /\ guest'.said = IF script.stateless THEN guest.entries ELSE guest.said
          /\ guest'.done = m.done /\ guest'.value = m.value /\ guest'.error = m.error
      BY <1>0, <2>2, <2>4, SettledStep
    <2>6. Captured(job, kind).by = job /\ Captured(job, kind).in = n
      BY DEF Captured
    <2>7. Settles(job)
      BY <2>2, <2>4, <2>5, <2>6 DEF Settles
    <2> QED BY <1>0, <1>1, <2>2, <2>5, <2>7
  <1>10. ASSUME Places2(guest', guest.waiting, Rest)
         PROVE  OnePlace(guest') /\ Places(guest') = Places(guest) \ {job}
    <2>1. InQueue(guest') = InQueue(guest) \ {job} /\ Places(guest') = Places(guest) \ {job}
      BY <1>2, <1>10, PlacesOf DEF Places, InQueue
    <2> QED BY <1>0, <1>1, <1>2, <1>10, <2>1 DEF OnePlace, Places2
  <1>11. CASE job = Detached /\ Leave
    <2>1. /\ guest' \in Memory /\ Kept /\ UNCHANGED Answer /\ guest'.entries = guest.entries
          /\ Places2(guest', guest.waiting, Rest) /\ at' = at
      BY <1>1, <1>2, <1>11 DEF Leave, Memory, Kept, Answer, Places2
    <2> QED BY <1>0, <1>1, <1>10, <1>11, <2>1 DEF HasLeft
  <1>12. CASE job = 0 /\ Settle
    <2>1. Final \in Slots
      BY SlotTyped
    <2>2. /\ guest' \in Memory /\ Kept /\ Places2(guest', guest.waiting, Rest) /\ at' = at
          /\ UNCHANGED <<guest.value, guest.error, guest.done, guest.said, guest.entries>>
          /\ guest'.slot = Final
      BY <1>1, <1>2, <1>12, <2>1 DEF Settle, Memory, Kept, Places2
    <2> QED BY <1>0, <1>1, <1>10, <1>12, <2>2 DEF Continues
  <1> QED BY <1>4, <1>5, <1>6, <1>7, <1>8, <1>9, <1>11, <1>12 DEF ByGuest

(***************************************************************************)
(* The actions, with those of the guest's code as one.                     *)
(***************************************************************************)
\* Every step is one of these.
LEMMA NextCases ==
  ASSUME Next
  PROVE  \/ Boot \/ Restore \/ Evict \/ Evaluate \/ Tick \/ Trap \/ Interrupted
         \/ AskEnd \/ End \/ Conclude
         \/ \E s \in Scripts : Execute(s) \/ RunJavaScript(s)
         \/ SyntaxError
         \/ \E kind \in {"error", "limit"} : ThrowSync(kind)
         \/ \E job \in Jobs : ByGuest(job)
  <1>1. 0 \in Jobs /\ Detached \in Jobs
    BY Numbers
  <1>2. CASE Leave \/ Settle
    BY <1>1, <1>2 DEF ByGuest
  <1> QED BY <1>2 DEF Next, ByGuest, Ids

\* A syntax error is the slot of a stateless script, before anything of it ran.
LEMMA SyntaxErrorStep ==
  ASSUME Types, Queued, SyntaxError
  PROVE  /\ UNCHANGED <<instance, script, n, meter, invalid, outcome, used, snapshot>>
         /\ at = "body" /\ at' = "jobs" /\ script.stateless /\ ~script.parses
         /\ guest' \in Memory /\ Kept /\ guest'.slot = Own("error")
         /\ UNCHANGED <<guest.value, guest.error, guest.said, guest.entries, guest.waiting, guest.ready>>
  <1>1. guest \in Memory /\ guest' = [guest EXCEPT !.slot = Own("error")] /\ Own("error") \in Slots
    BY SlotTyped DEF SyntaxError, Types
  <1> QED BY <1>1 DEF SyntaxError, GuestOnly, Memory, Kept

\* The memory of a new instance.
LEMMA BootedTyped == Booted \in Memory /\ ~Booted.torn /\ ~Booted.words
  <1>1. NoOutcome \in Slots
    BY DEF NoOutcome, Slots, Outcomes, Kinds
  <1> QED BY <1>1, EmptyQueue DEF Booted, Memory, Value, Error, Empty, Ids

\* The two answers are outcomes.
LEMMA EndTyped ==
  ASSUME Types, at = "end"
  PROVE  EndOutcome \in Outcomes /\ TakeOutcome \in Outcomes
  <1>1. /\ \A k \in Kinds : Own(k) \in Outcomes
        /\ Of(guest.error, guest.error.kind) \in Outcomes /\ Of(guest.value, "value") \in Outcomes
        /\ NoOutcome \in Outcomes /\ guest.slot \in Outcomes
    BY AnswersTyped DEF Types, Memory, Slots
  <1>2. [NoOutcome EXCEPT !.kind = "engine"] \in Outcomes
    BY DEF NoOutcome, Outcomes, Kinds
  <1>3. Own("unsettled") \in Outcomes /\ Own("empty") \in Outcomes
    BY <1>1 DEF Kinds
  <1>4. [Own("unsettled") EXCEPT !.logs = 0] \in Outcomes
    BY <1>3 DEF Outcomes
  <1> QED BY <1>1, <1>2, <1>3, <1>4 DEF EndOutcome, TakeOutcome

\* Every action keeps the types.
LEMMA TypesKept ==
  ASSUME Types, Queued, Next
  PROVE  Types'
  <1>0. /\ guest \in Memory /\ snapshot \in Snapshots /\ snapshot.memory \in Memory
        /\ FullMeter \in Meters /\ Burnt \in Meters
        /\ used + 1 \in Int /\ 0 \in Int
    <2>1. meter \in Meters /\ guest \in Memory /\ snapshot \in Snapshots /\ used \in Int
      BY DEF Types
    <2>2. snapshot.memory \in Memory
      BY <2>1 DEF Snapshots
    <2>3. FullMeter \in Meters
      BY DEF FullMeter, Meters
    <2>4. Burnt \in Meters
      <3>1. meter.remaining - 1 \in Int
        BY <2>1 DEF Meters
      <3>2. PICK b \in BOOLEAN : b <=> (meter.interrupted \/ meter.remaining <= 1)
        OBVIOUS
      <3>3. Burnt = [meter EXCEPT !.remaining = @ - 1, !.interrupted = b]
        BY <3>2, Zenon DEF Burnt
      <3> QED BY <2>1, <3>1, <3>3 DEF Meters
    <2> QED BY <2>1, <2>2, <2>3, <2>4
  <1>1. CASE Boot \/ Restore \/ Evict \/ Evaluate \/ AskEnd
    <2>1. guest' \in Memory /\ meter' \in Meters
      BY <1>0, <1>1, BootedTyped DEF Types, Boot, Restore, Evict, Evaluate, AskEnd
    <2> QED BY <1>1, <2>1 DEF Types, Boot, Restore, Evict, Evaluate, AskEnd
  <1>2. CASE Tick
    <2>1. guest' \in Memory
      <3>1. \E b \in BOOLEAN : guest' = [guest EXCEPT !.words = b]
        BY <1>0, <1>2 DEF Tick, Types, Meters, Memory
      <3> QED BY <1>0, <3>1 DEF Memory
    <2>2. meter' \in Meters /\ used' \in Int
      BY <1>0, <1>2 DEF Tick
    <2> QED BY <1>2, <2>1, <2>2 DEF Types, Tick
  <1>3. ASSUME NEW kind \in {"fuel", "error", "limit"}, Report(kind, 0), UNCHANGED n
        PROVE  outcome' \in Outcomes
    BY <1>3 DEF Report, Outcomes, Kinds, Types
  <1>4. CASE Trap
    <2>1. guest' \in Memory
      BY <1>0, <1>4, EmptyQueue DEF Trap, Memory
    <2>2. meter' \in Meters /\ used' \in Int /\ outcome' \in Outcomes
      BY <1>0, <1>3, <1>4 DEF Trap
    <2> QED BY <1>4, <2>1, <2>2 DEF Types, Trap, InGuest, Report, Tagged
  <1>5. CASE Interrupted
    <2>1. guest' \in Memory
      BY <1>0, <1>5, EmptyQueue DEF Interrupted, Memory
    <2>2. outcome' \in Outcomes
      BY <1>3, <1>5 DEF Interrupted
    <2> QED BY <1>5, <2>1, <2>2 DEF Types, Interrupted, InGuest, Report
  <1>6. CASE End
    <2>1. outcome' \in Outcomes
      BY <1>6, EndTyped DEF End
    <2> QED BY <1>6, <2>1 DEF Types, End
  <1>7. CASE Conclude
    <2>1. [taken |-> TRUE, memory |-> guest] \in Snapshots
      BY <1>0 DEF Snapshots
    <2>2. snapshot' \in Snapshots
      BY <1>0, <1>7, <2>1 DEF Conclude
    <2>3. guest' \in Memory /\ outcome' \in Outcomes
      BY <1>0, <1>7, BootedTyped, AnswersTyped DEF Conclude
    <2> QED BY <1>7, <2>2, <2>3 DEF Types, Conclude
  <1>8. ASSUME NEW s \in Scripts, Execute(s) PROVE Types'
    <2>1. Empty \in Value /\ Empty \in Error /\ 0 \in 0 .. MaxEntries
      BY DEF Empty, Value, Error
    <2>2. ClearWords(guest) \in Memory
      BY <1>0 DEF ClearWords, Memory
    <2>3. Reset(ClearWords(guest)) \in Memory
      BY <2>1, <2>2 DEF Reset, Memory
    <2>4. guest' \in Memory /\ meter' \in Meters /\ used' \in Int /\ n' \in Ids
      BY <1>0, <1>8, <2>3 DEF Execute, Begin, Types, Ids
    <2> QED BY <1>8, <2>4 DEF Types, Execute, Begin, Ids
  <1>9. ASSUME NEW s \in Scripts, RunJavaScript(s) PROVE Types'
    <2>1. guest' \in Memory /\ meter' \in Meters /\ used' \in Int /\ n' \in Ids
      BY <1>0, <1>9, BootedTyped DEF RunJavaScript, Begin, Types, Ids
    <2>2. at' = "body" /\ instance' = "stateless" /\ script' = s /\ s.stateless
      BY <1>9 DEF RunJavaScript, Begin
    <2>3. invalid' = FALSE /\ UNCHANGED <<outcome, snapshot>>
      BY <1>9 DEF RunJavaScript
    <2>4. n' \in 0 .. MaxExecutions
      BY <2>1 DEF Ids
    <2>5. (instance' = "stateless") <=> script'.stateless
      BY <2>2
    <2> QED BY <2>1, <2>2, <2>3, <2>4, <2>5 DEF Types
  <1>10. ASSUME NEW kind \in {"error", "limit"}, ThrowSync(kind) PROVE Types'
    <2>1. guest' \in Memory
      BY <1>0, <1>10, EmptyQueue DEF ThrowSync, Memory
    <2>2. outcome' \in Outcomes
      BY <1>3, <1>10 DEF ThrowSync, GuestOnly
    <2> QED BY <1>10, <2>1, <2>2 DEF Types, ThrowSync, Report, GuestOnly
  <1>11. ASSUME NEW job \in Jobs, ByGuest(job) PROVE Types'
    BY <1>11, GuestStep DEF Types
  <1>12. CASE SyntaxError
    BY <1>12, SyntaxErrorStep DEF Types
  <1> QED BY <1>1, <1>2, <1>4, <1>5, <1>6, <1>7, <1>8, <1>9, <1>10, <1>11, <1>12, NextCases

(***************************************************************************)
(* Fuel.                                                                   *)
(***************************************************************************)
\* Every action keeps account of the fuel; the words set by another execution are cleared.
LEMMA FuelledKept ==
  ASSUME Types, Queued, Fuelled, Next
  PROVE  Fuelled'
  <1>0. /\ Fuel \in Nat \ {0} /\ meter.remaining \in Int /\ meter.interrupted \in BOOLEAN
        /\ guest.words \in BOOLEAN /\ used \in Int
    BY DEF Types, Memory, Meters
  <1>1. CASE Boot \/ Restore \/ Evict \/ Evaluate \/ AskEnd \/ Conclude
    BY <1>0, <1>1 DEF Fuelled, InGuest, FullMeter, Boot, Restore, Evict, Evaluate, AskEnd, Conclude
  <1>2. CASE Tick
    <2>1. /\ InGuest /\ Burnt.remaining = meter.remaining - 1 /\ Burnt.remaining > -Fuel
          /\ Burnt.interrupted = (meter.interrupted \/ meter.remaining <= 1)
      BY <1>0, <1>2 DEF Tick, Backstop, Burnt, Types
    <2>2. /\ meter' = Burnt /\ used' = used + 1 /\ at' = at
          /\ guest'.words => Burnt.interrupted
      BY <1>0, <1>2, <2>1 DEF Tick, Types, Memory, Fuelled
    <2> QED BY <1>0, <2>1, <2>2 DEF Fuelled, InGuest
  <1>3. CASE Trap
    <2>1. InGuest /\ Burnt.remaining = meter.remaining - 1 /\ Burnt.remaining <= -Fuel
      BY <1>0, <1>3 DEF Trap, Backstop, Burnt, Types
    <2>2. meter' = Burnt /\ used' = used + 1 /\ at' = "done"
      BY <1>3 DEF Trap, Report
    <2> QED BY <1>0, <2>1, <2>2 DEF Fuelled, InGuest
  <1>4. CASE Interrupted
    BY <1>0, <1>4 DEF Fuelled, InGuest, Interrupted, Report
  <1>5. CASE End
    <2>1. guest.error.kind # "fuel" /\ guest.slot.kind # "fuel"
      BY DEF Types, Memory, Error, Slots
    <2>2. outcome'.kind # "fuel"
      <3>1. Own("unsettled").kind = "unsettled" /\ [Own("unsettled") EXCEPT !.logs = 0].kind = "unsettled"
        BY DEF Own
      <3> QED BY <1>5, <2>1, <3>1 DEF End, EndOutcome, TakeOutcome, Own, Of, NoOutcome
    <2> QED BY <1>0, <1>5, <2>2 DEF Fuelled, InGuest, End
  <1>6. ASSUME NEW s \in Scripts, Execute(s) \/ RunJavaScript(s) PROVE Fuelled'
    <2>1. ~guest'.words
      BY <1>6, BootedTyped DEF Execute, RunJavaScript, Reset, ClearWords, Types, Memory
    <2> QED BY <1>0, <1>6, <2>1 DEF Fuelled, InGuest, Execute, RunJavaScript, Begin, FullMeter
  <1>7. ASSUME NEW kind \in {"error", "limit"}, ThrowSync(kind) PROVE Fuelled'
    BY <1>0, <1>7 DEF Fuelled, InGuest, ThrowSync, Report, GuestOnly
  <1>8. CASE SyntaxError \/ \E job \in Jobs : ByGuest(job)
    <2>1. UNCHANGED <<meter, used>> /\ guest'.words = guest.words /\ InGuest /\ at' \in {"body", "jobs"}
      BY <1>8, GuestStep, SyntaxErrorStep DEF InGuest, Kept
    <2> QED BY <1>0, <2>1 DEF Fuelled, InGuest
  <1> QED BY <1>1, <1>2, <1>3, <1>4, <1>5, <1>6, <1>7, <1>8, NextCases

(***************************************************************************)
(* Rest.                                                                   *)
(***************************************************************************)
\* Every action keeps a torn instance invalid, and out of the snapshot.
LEMMA RestedKept ==
  ASSUME Types, Queued, Rested, Next
  PROVE  Rested'
  <1>0. guest \in Memory /\ snapshot \in [taken : BOOLEAN, memory : Memory]
    BY DEF Types, Snapshots
  <1>1. CASE Boot \/ Restore \/ Evict \/ Evaluate \/ AskEnd \/ End
    BY <1>0, <1>1, BootedTyped DEF Rested, Boot, Restore, Evict, Evaluate, AskEnd, End
  <1>2. CASE Tick \/ Interrupted
    BY <1>0, <1>2 DEF Rested, Tick, Interrupted, Memory
  <1>3. CASE Trap
    BY <1>0, <1>3 DEF Rested, Trap, Tagged, Memory
  <1>4. CASE Conclude
    <2>1. instance # "none"
      BY <1>4 DEF Conclude, Types
    <2>2. CASE Dropped
      BY <1>4, <2>2 DEF Rested, Conclude
    <2>3. CASE ~Dropped
      <3>1. ~guest.torn
        BY <2>1, <2>3 DEF Rested, Dropped
      <3>2. guest' = guest
        BY <1>4, <2>3 DEF Conclude
      <3> QED BY <1>4, <2>3, <3>1, <3>2 DEF Rested, Conclude
    <2> QED BY <2>2, <2>3
  <1>5. ASSUME NEW s \in Scripts, Execute(s) \/ RunJavaScript(s) PROVE Rested'
    BY <1>0, <1>5, BootedTyped DEF Rested, Execute, RunJavaScript, Reset, ClearWords, Memory
  <1>6. ASSUME NEW kind \in {"error", "limit"}, ThrowSync(kind) PROVE Rested'
    BY <1>0, <1>6 DEF Rested, ThrowSync, GuestOnly, Memory
  <1>7. CASE SyntaxError \/ \E job \in Jobs : ByGuest(job)
    BY <1>7, GuestStep, SyntaxErrorStep DEF Rested, Kept
  <1> QED BY <1>1, <1>2, <1>3, <1>4, <1>5, <1>6, <1>7, NextCases

(***************************************************************************)
(* Queue.                                                                  *)
(***************************************************************************)
\* What is queued or waits is no later body, and 0 is not waiting.
LEMMA PlacesBound ==
  ASSUME Types, Queued
  PROVE  /\ guest.ready = <<>> => Places(guest) = guest.waiting /\ 0 \notin Places(guest)
         /\ n + 1 \notin Places(guest)
  <1>1. n \in Nat /\ guest.waiting \subseteq 1 .. n /\ InQueue(guest) \subseteq Detached .. n
    BY DEF Types, Queued, OnePlace
  <1>2. guest.ready = <<>> => InQueue(guest) = {}
    BY EmptyQueue DEF InQueue
  <1>3. n + 1 \notin Detached .. n /\ n + 1 \notin 1 .. n /\ 0 \notin 1 .. n
    BY <1>1 DEF Detached
  <1> QED BY <1>1, <1>2, <1>3 DEF Places

\* Every action keeps a job in one place, and the continuation of execute to its time.
LEMMA QueuedKept ==
  ASSUME Types, Queued, Next
  PROVE  Queued'
  <1>0. /\ n \in Nat /\ guest \in Memory
        /\ OnePlace(guest) /\ OnePlace(snapshot.memory)
        /\ Elements(<<>>) = {} /\ Once(<<>>)
    BY EmptyQueue DEF Types, Queued
  <1>a. ASSUME at' \notin {"body", "jobs"}, UNCHANGED <<n, snapshot>>, at' = "reset" => n \notin guest'.waiting,
               guest'.waiting \subseteq 1 .. n, guest'.ready = <<>>,
               at' = "end" /\ script'.stateless => guest'.waiting \subseteq {n},
               at' = "reset" => ~script'.stateless
        PROVE  Queued'
    <2>1. InQueue(guest)' = {} /\ Places(guest)' = guest'.waiting /\ Once(guest'.ready)
      BY <1>0, <1>a DEF InQueue, Places
    <2>2. OnePlace(guest)' /\ OnePlace(snapshot.memory)'
      BY <1>0, <1>a, <2>1 DEF OnePlace, InQueue
    <2>3. 0 \notin Places(guest)' /\ snapshot'.memory.ready = <<>>
      BY <1>0, <1>a, <2>1 DEF Queued
    <2> QED BY <1>a, <2>1, <2>2, <2>3 DEF Queued, InGuest
  <1>1. CASE Boot \/ Evict
    <2>1. UNCHANGED <<n, snapshot, at>> /\ at = "idle" /\ guest'.waiting = {} /\ guest'.ready = <<>>
      BY <1>1 DEF Boot, Evict, Booted
    <2> QED BY <1>0, <1>a, <2>1
  <1>2. CASE Restore
    <2>1. UNCHANGED <<n, snapshot, at>> /\ at = "idle" /\ guest' = snapshot.memory
      BY <1>2 DEF Restore
    <2> QED BY <1>0, <1>a, <2>1 DEF Queued, OnePlace
  <1>3. CASE Evaluate
    <2>1. UNCHANGED <<n, snapshot, guest, script>> /\ at = "reset" /\ at' = "body" /\ ~script.stateless
      BY <1>3 DEF Evaluate, Types
    <2>2. guest.ready = <<>> /\ n \notin Places(guest) /\ 0 \notin Places(guest)
      BY <2>1, PlacesBound DEF Queued
    <2> QED BY <1>0, <2>1, <2>2 DEF Queued, OnePlace, InQueue, Places, InGuest
  <1>4. CASE AskEnd
    <2>1. UNCHANGED <<n, snapshot, guest, script>> /\ at = "jobs" /\ at' = "end" /\ guest.ready = <<>>
      BY <1>4 DEF AskEnd
    <2>2. Places(guest) = guest.waiting /\ guest.waiting \subseteq 1 .. n
      BY <1>0, <2>1, PlacesBound DEF OnePlace
    <2>3. script.stateless => guest.waiting \subseteq {n}
      BY <1>0, <2>1, <2>2, Numbers DEF Queued, InGuest, Detached
    <2> QED BY <1>a, <2>1, <2>2, <2>3
  <1>5. CASE End
    <2>1. UNCHANGED <<n, snapshot, guest>> /\ at = "end" /\ at' = "done"
      BY <1>5 DEF End
    <2> QED BY <1>0, <1>a, <2>1 DEF Queued, OnePlace
  <1>6. CASE Tick
    <2>1. guest'.waiting = guest.waiting /\ guest'.ready = guest.ready
      BY <1>0, <1>6 DEF Tick, Memory
    <2>2. UNCHANGED <<n, snapshot, at, script>>
      BY <1>6 DEF Tick
    <2> QED BY <1>0, <2>1, <2>2 DEF Queued, OnePlace, InQueue, Places, InGuest
  <1>7. CASE Trap \/ Interrupted
    <2>1. at' = "done" /\ UNCHANGED <<n, snapshot>> /\ guest'.waiting = guest.waiting /\ guest'.ready = <<>>
      BY <1>0, <1>7 DEF Trap, Interrupted, Report, Memory
    <2> QED BY <1>0, <1>a, <2>1 DEF OnePlace
  <1>8. CASE Conclude
    <2>1. n' = n /\ at' = "idle" /\ guest.ready = <<>> /\ snapshot.memory.ready = <<>>
      BY <1>8 DEF Conclude, Queued
    <2>2. guest' \in {Booted, guest}
      BY <1>8 DEF Conclude
    <2>3. guest'.ready = <<>> /\ guest'.waiting \subseteq 1 .. n
      BY <1>0, <2>1, <2>2 DEF Booted, OnePlace
    <2>4. snapshot'.memory \in {snapshot.memory, guest}
      BY <1>8 DEF Conclude
    <2>5. /\ OnePlace(snapshot.memory)' /\ snapshot'.memory.ready = <<>>
      BY <1>0, <2>1, <2>4 DEF OnePlace, InQueue
    <2>6. InQueue(guest)' = {} /\ Places(guest)' = guest'.waiting /\ Once(guest'.ready)
      BY <1>0, <2>3 DEF InQueue, Places
    <2>7. OnePlace(guest)' /\ 0 \notin Places(guest)'
      BY <1>0, <2>1, <2>3, <2>6 DEF OnePlace
    <2> QED BY <2>1, <2>3, <2>5, <2>6, <2>7 DEF Queued, InGuest
  <1>9. ASSUME NEW s \in Scripts, Execute(s) PROVE Queued'
    <2>1. /\ n' = n + 1 /\ snapshot' = snapshot /\ at' = "reset" /\ at = "idle"
          /\ guest'.waiting = guest.waiting /\ guest'.ready = guest.ready
          /\ script' = s /\ ~s.stateless
      BY <1>0, <1>9 DEF Execute, Begin, Reset, ClearWords, Memory
    <2>2. guest.ready = <<>> /\ Places(guest) = guest.waiting /\ 0 \notin Places(guest) /\ n + 1 \notin Places(guest)
      BY <2>1, PlacesBound DEF Queued
    <2>3. 1 .. n \subseteq 1 .. (n + 1) /\ Detached .. n \subseteq Detached .. (n + 1)
      BY <1>0 DEF Detached
    <2>4. OnePlace(guest)' /\ OnePlace(snapshot.memory)'
      BY <1>0, <2>1, <2>3 DEF OnePlace, InQueue
    <2>5. Places(guest)' = Places(guest)
      BY <2>1 DEF Places, InQueue
    <2> QED BY <2>1, <2>2, <2>4, <2>5 DEF Queued
  <1>10. ASSUME NEW s \in Scripts, RunJavaScript(s) PROVE Queued'
    <2>1. /\ n' = n + 1 /\ snapshot' = snapshot /\ at' = "body"
          /\ guest'.waiting = {} /\ guest'.ready = <<>>
      BY <1>10 DEF RunJavaScript, Begin, Booted
    <2>2. 1 .. n \subseteq 1 .. (n + 1) /\ Detached .. n \subseteq Detached .. (n + 1)
      BY <1>0 DEF Detached
    <2>3. OnePlace(guest)' /\ OnePlace(snapshot.memory)' /\ Places(guest)' = {}
      BY <1>0, <2>1, <2>2 DEF OnePlace, InQueue, Places
    <2> QED BY <2>1, <2>3 DEF Queued
  <1>11. ASSUME NEW kind \in {"error", "limit"}, ThrowSync(kind) PROVE Queued'
    <2>1. at' = "done" /\ UNCHANGED <<n, snapshot>> /\ guest'.waiting = guest.waiting /\ guest'.ready = <<>>
      BY <1>0, <1>11 DEF ThrowSync, Report, GuestOnly, Memory
    <2> QED BY <1>0, <1>a, <2>1 DEF OnePlace
  <1>12. CASE SyntaxError
    <2>1. /\ UNCHANGED <<n, snapshot, script, guest.waiting, guest.ready>>
          /\ at = "body" /\ at' = "jobs"
      BY <1>12, SyntaxErrorStep
    <2> QED BY <1>0, <2>1 DEF Queued, OnePlace, InQueue, Places, InGuest
  <1>13. ASSUME NEW job \in Jobs, ByGuest(job) PROVE Queued'
    <2>1. /\ UNCHANGED <<n, snapshot, script>> /\ at \in {"body", "jobs"} /\ at' \in {"body", "jobs"}
          /\ Runs(job) /\ OnePlace(guest')
          /\ Goes(job) \/ HasLeft(job) \/ Settles(job) \/ Continues(job)
      BY <1>13, GuestStep
    <2>2. /\ at = "body" => job = n /\ n \in Ids
          /\ at = "jobs" => job \in Places(guest)
      BY <2>1, RestOnce
    <2>3. job \in Ids => (script.stateless => job = n /\ 0 \notin Places(guest))
      BY <2>1, BodyBeforeZero
    <2>4. /\ at = "body" => n \notin Places(guest) /\ 0 \notin Places(guest)
          /\ 0 \in Places(guest) => script.stateless /\ n \notin Places(guest)
          /\ script.stateless => Places(guest) \subseteq {n, 0, Detached}
      BY <2>1 DEF Queued, InGuest
    <2>5. OnePlace(guest)' /\ OnePlace(snapshot.memory)' /\ snapshot'.memory.ready = <<>>
      BY <1>0, <2>1 DEF OnePlace, InQueue, Queued
    <2>6. 0 # Detached /\ 0 \notin Ids /\ n # Detached
      BY <1>0, Numbers DEF Detached
    <2>7. CASE Goes(job)
      <3>1. /\ at' = "body" => at = "body" /\ n \notin Places(guest')
            /\ 0 \in Places(guest') => script.stateless /\ at' = "jobs" /\ n \notin Places(guest')
            /\ script.stateless => Places(guest') \subseteq {n, 0, Detached}
        BY <2>1, <2>2, <2>3, <2>4, <2>6, <2>7 DEF Goes
      <3> QED BY <2>1, <2>5, <3>1 DEF Queued, Places, InQueue, InGuest
    <2>8. CASE HasLeft(job) \/ Continues(job)
      <3>1. /\ at' = at /\ Places(guest') \subseteq Places(guest)
            /\ at = "body" => FALSE
        BY <1>0, <2>2, <2>6, <2>8 DEF HasLeft, Continues, Ids, Detached
      <3>2. /\ n \notin Places(guest) => n \notin Places(guest')
            /\ 0 \in Places(guest') => 0 \in Places(guest)
        BY <3>1
      <3> QED BY <2>1, <2>4, <2>5, <3>1, <3>2 DEF Queued, Places, InQueue, InGuest
    <2>9. CASE Settles(job)
      <3>1. /\ at' = "jobs"
            /\ 0 \in Places(guest') => script.stateless /\ n \notin Places(guest')
            /\ script.stateless => Places(guest') \subseteq {n, 0, Detached}
        BY <2>2, <2>3, <2>4, <2>6, <2>9 DEF Settles
      <3> QED BY <2>1, <2>5, <3>1 DEF Queued, Places, InQueue, InGuest
    <2> QED BY <2>1, <2>7, <2>8, <2>9
  <1> QED BY <1>1, <1>2, <1>3, <1>4, <1>5, <1>6, <1>7, <1>8, <1>9, <1>10, <1>11, <1>12, <1>13, NextCases

(***************************************************************************)
(* Captures.                                                               *)
(***************************************************************************)
\* The last transition of an execution, when it is not `end`.
LEMMA CutShort ==
  ASSUME Types, NEW kind \in {"fuel", "error", "limit"}, Report(kind, 0)
  PROVE  /\ at' = "done" /\ outcome'.kind = kind /\ outcome'.in = n
  BY DEF Report

\* What the slot is set to.
LEMMA FinalFacts ==
  ASSUME Types
  PROVE  /\ Indescribable => Final.kind = "none"
         /\ ~Indescribable => Final.kind # "none" /\ Final.logs = guest.entries
         /\ Final.kind # "none" =>
              \/ Final.by = n /\ Final.in = n
              \/ guest.error # Empty /\ Final.by = guest.error.by /\ Final.in = guest.error.in
              \/ guest.value # Empty /\ Final.by = guest.value.by /\ Final.in = guest.value.in
  <1>1. CASE Indescribable
    <2>1. Final = NoOutcome
      BY <1>1 DEF Final
    <2>2. Final.kind = "none"
      BY <2>1 DEF NoOutcome
    <2> QED BY <1>1, <2>2
  <1>2. CASE ~Indescribable /\ guest.error.kind # "none"
    <2>1. Final = Of(guest.error, guest.error.kind) /\ guest.error # Empty
      BY <1>2, ErrorDescribed DEF Final
    <2>2. /\ Final.kind = guest.error.kind /\ Final.logs = guest.entries
          /\ Final.by = guest.error.by /\ Final.in = guest.error.in
      BY <2>1 DEF Of
    <2> QED BY <1>2, <2>1, <2>2
  <1>3. CASE ~Indescribable /\ guest.error.kind = "none"
    <2>1. \/ Final = Own("error") \/ Final = Own("empty")
          \/ guest.value.kind = "fits" /\ Final = Of(guest.value, "value")
      BY <1>3 DEF Final
    <2>2. guest.value.kind = "fits" => guest.value # Empty
      BY DEF Empty
    <2> QED BY <1>3, <2>1, <2>2 DEF Of, Own
  <1> QED BY <1>1, <1>2, <1>3

\* What `end` and `take` answer, seen from the memory they read.
LEMMA EndAnswers ==
  ASSUME Types, Captures, End
  PROVE  /\ at = "end" /\ at' = "done"
         /\ UNCHANGED <<instance, script, n, guest>>
         /\ outcome'.kind \in {"value", "error", "limit"} => outcome'.in = n
         /\ script.stateless => outcome' = TakeOutcome
         /\ outcome'.kind = "unsettled" /\ ~script.stateless => expectAsync /\ ~guest.done
  <1>1. /\ at = "end" /\ at' = "done" /\ UNCHANGED <<instance, script, n, guest>>
        /\ outcome' = IF script.stateless THEN TakeOutcome ELSE EndOutcome
    BY DEF End
  <1>2. /\ guest.value \in Value /\ guest.error \in Error
        /\ guest.value # Empty => guest.value.in = n
        /\ guest.error # Empty => guest.error.in = n
        /\ script.stateless /\ guest.slot.kind # "none" => guest.slot.in = n
    BY <1>1 DEF Types, Memory, Captures, Recent, InGuest
  <1>3. guest.error.kind \notin {"fuel", "value", "unsettled"}
    BY <1>2 DEF Error
  <1>4. guest.value.kind = "fits" => guest.value # Empty
    BY DEF Empty
  <1>5. CASE script.stateless
    <2>1. [Own("unsettled") EXCEPT !.logs = 0].kind = "unsettled"
      BY DEF Own
    <2> QED BY <1>1, <1>2, <1>5, <2>1 DEF TakeOutcome
  <1>6. CASE ~script.stateless
    BY <1>1, <1>2, <1>3, <1>4, <1>6 DEF EndOutcome, Of, Own, NoOutcome
  <1> QED BY <1>5, <1>6

\* Every action keeps to captures of the execution that runs.
LEMMA CapturesKept ==
  ASSUME Types, Queued, Captures, Next
  PROVE  Captures'
  <1>0. guest \in Memory
    BY DEF Types
  <1>1. CASE Boot \/ Restore \/ Evict \/ Conclude
    BY <1>1 DEF Captures, InGuest, Boot, Restore, Evict, Conclude
  <1>2. CASE Evaluate \/ AskEnd
    BY <1>2 DEF Captures, InGuest, Recent, Evaluate, AskEnd
  <1>3. CASE Tick
    <2>1. /\ guest'.value = guest.value /\ guest'.error = guest.error /\ guest'.slot = guest.slot
          /\ UNCHANGED <<at, n, outcome, script>>
      BY <1>0, <1>3 DEF Tick, Memory
    <2> QED BY <2>1 DEF Captures, InGuest, Recent
  <1>4. CASE Trap \/ Interrupted
    <2>1. at' = "done" /\ outcome'.kind = "fuel"
      BY <1>4, CutShort DEF Trap, Interrupted
    <2> QED BY <2>1 DEF Captures, InGuest
  <1>5. CASE End
    BY <1>5, EndAnswers DEF Captures, InGuest
  <1>6. ASSUME NEW s \in Scripts, Execute(s) \/ RunJavaScript(s) PROVE Captures'
    <2>1. at' \in {"reset", "body"}
      BY <1>6 DEF Execute, RunJavaScript
    <2>2. /\ guest'.value = Empty /\ guest'.error = Empty
          /\ script'.stateless => guest'.slot.kind = "none"
      <3>1. CASE Execute(s)
        BY <1>0, <3>1 DEF Execute, Begin, Reset, ClearWords, Memory
      <3>2. CASE RunJavaScript(s)
        BY <3>2 DEF RunJavaScript, Booted, NoOutcome
      <3> QED BY <1>6, <3>1, <3>2
    <2> QED BY <2>1, <2>2 DEF Captures, Recent
  <1>7. ASSUME NEW kind \in {"error", "limit"}, ThrowSync(kind) PROVE Captures'
    <2>1. at' = "done" /\ outcome'.in = n /\ n' = n
      BY <1>7, CutShort DEF ThrowSync, GuestOnly
    <2> QED BY <2>1 DEF Captures, InGuest
  <1>8. CASE SyntaxError
    <2>1. /\ UNCHANGED <<n, outcome, guest.value, guest.error>> /\ at = "body" /\ at' = "jobs"
          /\ guest'.slot = Own("error")
      BY <1>8, SyntaxErrorStep
    <2> QED BY <2>1 DEF Captures, Recent, InGuest, Own
  <1>9. ASSUME NEW job \in Jobs, ByGuest(job) PROVE Captures'
    <2>1. /\ UNCHANGED <<n, script, outcome>> /\ at \in {"body", "jobs"} /\ at' \in {"body", "jobs"}
          /\ Goes(job) \/ HasLeft(job) \/ Settles(job) \/ Continues(job)
      BY <1>9, GuestStep
    <2>2. /\ guest'.value # guest.value => guest'.value.in = n
          /\ guest'.error # guest.error => guest'.error.in = n
          /\ guest'.slot = guest.slot \/ guest'.slot = Final
      BY <2>1 DEF Goes, HasLeft, Settles, Continues, Answer
    <2>3. Final.kind # "none" => Final.in = n
      BY <2>1, FinalFacts DEF Captures, Recent, InGuest
    <2> QED BY <2>1, <2>2, <2>3 DEF Captures, Recent, InGuest
  <1> QED BY <1>1, <1>2, <1>3, <1>4, <1>5, <1>6, <1>7, <1>8, <1>9, NextCases

(***************************************************************************)
(* Pending.                                                                *)
(***************************************************************************)
\* Every action keeps a session's body that has not marked itself done somewhere.
LEMMA PendingKept ==
  ASSUME Types, Queued, Captures, Pending, Next
  PROVE  Pending'
  <1>0. guest \in Memory /\ Elements(<<>>) = {}
    BY EmptyQueue DEF Types
  <1>1. CASE Boot \/ Restore \/ Evict \/ Conclude
    BY <1>1 DEF Pending, Boot, Restore, Evict, Conclude
  <1>2. CASE Evaluate
    BY <1>2 DEF Pending, Evaluate
  <1>3. CASE AskEnd
    BY <1>3 DEF Pending, AskEnd, expectAsync, Mode, InQueue, Places
  <1>4. CASE Tick
    <2>1. /\ guest'.waiting = guest.waiting /\ guest'.ready = guest.ready
          /\ guest'.done = guest.done
          /\ UNCHANGED <<at, n, outcome, script>>
      BY <1>0, <1>4 DEF Tick, Memory
    <2>2. expectAsync' = expectAsync /\ Places(guest)' = Places(guest)
      BY <2>1 DEF expectAsync, Mode, InQueue, Places
    <2>3. at # "done"
      BY <1>4 DEF Tick, InGuest
    <2> QED BY <2>1, <2>2, <2>3 DEF Pending
  <1>5. CASE Trap \/ Interrupted
    <2>1. at' = "done" /\ outcome'.kind = "fuel"
      BY <1>5, CutShort DEF Trap, Interrupted
    <2> QED BY <2>1 DEF Pending
  <1>6. CASE End
    <2>1. /\ at = "end" /\ at' = "done" /\ UNCHANGED <<n, guest, script>>
          /\ outcome'.kind = "unsettled" /\ ~script.stateless => expectAsync /\ ~guest.done
      BY <1>6, EndAnswers
    <2>2. Places(guest) = guest.waiting
      BY <2>1, PlacesBound DEF Queued
    <2> QED BY <2>1, <2>2 DEF Pending
  <1>7. ASSUME NEW s \in Scripts, Execute(s) \/ RunJavaScript(s) PROVE Pending'
    BY <1>7 DEF Pending, Execute, RunJavaScript
  <1>8. ASSUME NEW kind \in {"error", "limit"}, ThrowSync(kind) PROVE Pending'
    <2>1. at' = "done" /\ outcome'.kind = kind
      BY <1>8, CutShort DEF ThrowSync
    <2> QED BY <2>1 DEF Pending
  <1>9. CASE SyntaxError
    <2>1. script'.stateless /\ at' = "jobs"
      BY <1>9, SyntaxErrorStep
    <2>2. ~expectAsync'
      BY <2>1 DEF expectAsync, Mode
    <2> QED BY <2>1, <2>2 DEF Pending
  <1>10. ASSUME NEW job \in Jobs, ByGuest(job) PROVE Pending'
    <2>1. /\ UNCHANGED <<script, n, outcome>> /\ at \in {"body", "jobs"} /\ at' \in {"body", "jobs"}
          /\ Runs(job)
          /\ Goes(job) \/ HasLeft(job) \/ Settles(job) \/ Continues(job)
      BY <1>10, GuestStep
    <2>2. expectAsync' = expectAsync /\ (expectAsync => IsAsync)
      BY <2>1 DEF expectAsync, IsAsync, Mode
    <2>3. n \in Nat /\ n # Detached /\ n # 0
      BY <2>1, Numbers DEF Types, Ids, Detached
    <2>4. ASSUME expectAsync, at' = "jobs", ~guest'.done PROVE n \in Places(guest')
      <3>1. CASE at = "body"
        <4>1. job = n /\ job \in Ids
          BY <2>1, <3>1, RestOnce
        <4> QED BY <2>1, <2>2, <2>3, <2>4, <3>1, <4>1 DEF Goes, HasLeft, Settles, Continues
      <3>2. CASE at = "jobs"
        <4>1. guest.done => guest'.done
          BY <2>1 DEF Goes, HasLeft, Settles, Continues, Answer
        <4>2. n \in Places(guest)
          BY <2>4, <3>2, <4>1 DEF Pending
        <4> QED BY <2>1, <2>2, <2>3, <2>4, <4>2 DEF Goes, HasLeft, Settles, Continues
      <3> QED BY <2>1, <3>1, <3>2
    <2> QED BY <2>1, <2>2, <2>4 DEF Pending, Places, InQueue
  <1> QED BY <1>1, <1>2, <1>3, <1>4, <1>5, <1>6, <1>7, <1>8, <1>9, <1>10, NextCases

(***************************************************************************)
(* Stateless executions.                                                   *)
(***************************************************************************)
\* Every step of the guest's code keeps the stages of a stateless execution.
LEMMA StagesKept ==
  ASSUME Types, Queued, Captures, Stages, script.stateless, NEW job \in Jobs, ByGuest(job)
  PROVE  Stages'
  <1>1. /\ UNCHANGED <<n, script>> /\ at \in {"body", "jobs"} /\ Runs(job)
        /\ Goes(job) \/ HasLeft(job) \/ Settles(job) \/ Continues(job)
        /\ guest.entries \in Nat /\ guest'.entries \in Nat /\ guest.said \in Nat /\ guest'.said \in Nat
        /\ guest.slot \in Slots /\ n \in Ids
    <2>1. guest \in Memory /\ guest' \in Memory
      BY GuestStep DEF Types
    <2> QED BY <2>1, GuestStep DEF Memory, Types
  <1>2. /\ at = "body" => job = n /\ script.parses
        /\ at = "jobs" => job \in Places(guest)
    BY <1>1, RestOnce DEF Runs
  <1>3. job \in Ids => job = n /\ 0 \notin Places(guest)
    BY <1>1, BodyBeforeZero
  <1>4. /\ 0 # Detached /\ 0 \notin Ids /\ n # Detached /\ n # 0
        /\ 0 \in Places(guest) => at = "jobs" /\ n \notin Places(guest)
    BY <1>1, Numbers DEF Queued, Detached, Ids
  <1>5. /\ Running' <=> (at' = "body" \/ n \in Places(guest'))
        /\ Continuing' <=> 0 \in Places(guest')
    BY <1>1 DEF Running, Continuing, Places, InQueue
  <1>6. /\ guest.said <= guest.entries
        /\ guest.value # Empty => guest.value.by = n
        /\ guest.error # Empty => guest.error.by = n
        /\ Running => guest.value = Empty /\ guest.error = Empty /\ guest.slot.kind = "none"
        /\ ~Running /\ ~Continuing => FinalSlot
        /\ ~script.parses => at = "body" \/ (guest.slot.kind = "error" /\ ~Running /\ ~Continuing)
    BY DEF Stages
  <1>7. CASE Goes(job) \/ HasLeft(job)
    <2>1. /\ UNCHANGED <<guest.value, guest.error, guest.slot, guest.said>> /\ guest.entries <= guest'.entries
          /\ Indescribable' = Indescribable
      BY <1>1, <1>7 DEF Goes, HasLeft, Answer, Indescribable
    <2>2. (Running' <=> Running) /\ (Continuing' <=> Continuing)
      <3>1. CASE Goes(job)
        <4>1. CASE at' = at /\ Places(guest') \in {Places(guest), Places(guest) \union {Detached}}
          BY <1>4, <1>5, <4>1 DEF Running, Continuing
        <4>2. CASE at' = "jobs" /\ job \in Ids /\ Places(guest') = Places(guest) \union {job}
          <5>1. job = n /\ 0 \notin Places(guest) /\ 0 \notin Places(guest') /\ n \in Places(guest')
            BY <1>3, <1>4, <4>2
          <5> QED BY <1>1, <1>2, <1>5, <5>1 DEF Running, Continuing
        <4> QED BY <3>1, <4>1, <4>2 DEF Goes
      <3>2. CASE HasLeft(job)
        BY <1>1, <1>2, <1>4, <1>5, <3>2 DEF HasLeft, Running, Continuing
      <3> QED BY <1>7, <3>1, <3>2
    <2>3. FinalSlot => FinalSlot'
      BY <1>1, <2>1 DEF FinalSlot, Slots, Outcomes
    <2>4. ~script'.parses => at' = "body" \/ (guest'.slot.kind = "error" /\ ~Running' /\ ~Continuing')
      BY <1>1, <1>2, <1>6, <2>1, <2>2
    <2> QED BY <1>1, <1>6, <2>1, <2>2, <2>3, <2>4 DEF Stages
  <1>8. CASE Settles(job)
    <2>1. /\ job = n /\ at' = "jobs" /\ guest'.slot = guest.slot /\ guest'.entries = guest.entries
          /\ Places(guest') = (Places(guest) \ {n}) \union {0} /\ guest'.said = guest.entries
          /\ guest'.value # guest.value => guest'.value.by = n
          /\ guest'.error # guest.error => guest'.error.by = n
      BY <1>3, <1>8 DEF Settles
    <2>2. ~Running' /\ Continuing' /\ Running
      BY <1>1, <1>2, <1>4, <1>5, <2>1 DEF Running
    <2>3. script.parses
      BY <1>2, <1>6, <2>2, <1>1
    <2> QED BY <1>1, <1>6, <2>1, <2>2, <2>3 DEF Stages
  <1>9. CASE Continues(job)
    <2>1. /\ job = 0 /\ at' = at /\ guest'.slot = Final /\ Places(guest') = Places(guest) \ {0}
          /\ UNCHANGED <<guest.value, guest.error, guest.said, guest.entries>>
          /\ Indescribable' = Indescribable
      BY <1>9 DEF Continues, Indescribable
    <2>2. at = "jobs" /\ Continuing /\ ~Running
      BY <1>1, <1>2, <1>4, <2>1 DEF Continuing, Running
    <2>3. ~Running' /\ ~Continuing' /\ script.parses
      BY <1>4, <1>5, <1>6, <2>1, <2>2 DEF Running
    <2>4. /\ Indescribable => Final.kind = "none"
          /\ ~Indescribable => Final.kind # "none" /\ Final.logs = guest.entries /\ Final.by = n
      BY <1>6, FinalFacts
    <2>5. FinalSlot'
      BY <1>1, <1>6, <2>1, <2>4 DEF FinalSlot
    <2> QED BY <1>1, <1>6, <2>1, <2>3, <2>5 DEF Stages
  <1> QED BY <1>1, <1>7, <1>8, <1>9

\* Every action keeps a stateless instance to its one script.
LEMMA AloneKept ==
  ASSUME Types, Queued, Captures, Pending, Alone, Next
  PROVE  Alone'
  <1>0. /\ guest \in Memory /\ StatelessIsExact
        /\ InGuest /\ script.stateless => Stages
        /\ at # "idle" => (instance = "stateless" <=> script.stateless)
    BY DEF Alone, Types
  <1>1. CASE Boot \/ Restore \/ Evict \/ Conclude
    BY <1>1 DEF Alone, StatelessIsExact, InGuest, Boot, Restore, Evict, Conclude
  <1>2. CASE Evaluate
    BY <1>2 DEF Alone, StatelessIsExact, Evaluate, Types
  <1>3. CASE AskEnd
    <2>1. UNCHANGED <<guest, n, script>> /\ at = "jobs" /\ at' = "end"
      BY <1>3 DEF AskEnd
    <2>2. (Running' <=> Running) /\ (Continuing' <=> Continuing) /\ (FinalSlot' <=> FinalSlot)
      BY <2>1 DEF Running, Continuing, Places, InQueue, FinalSlot, Indescribable
    <2>3. Stages /\ script.stateless => Stages'
      BY <2>1, <2>2 DEF Stages
    <2> QED BY <1>0, <2>1, <2>3 DEF Alone, StatelessIsExact, InGuest
  <1>4. CASE Tick
    <2>1. /\ guest'.waiting = guest.waiting /\ guest'.ready = guest.ready
          /\ guest'.slot = guest.slot /\ guest'.said = guest.said /\ guest'.entries = guest.entries
          /\ guest'.value = guest.value /\ guest'.error = guest.error
      BY <1>0, <1>4 DEF Tick, Memory
    <2>2. UNCHANGED <<at, n, instance, script>> /\ InGuest /\ at # "done"
      BY <1>4 DEF Tick, InGuest
    <2>3. (Running' <=> Running) /\ (Continuing' <=> Continuing) /\ (FinalSlot' <=> FinalSlot)
      BY <2>1, <2>2 DEF Running, Continuing, Places, InQueue, FinalSlot, Indescribable
    <2>4. Stages => Stages'
      BY <2>1, <2>2, <2>3 DEF Stages
    <2> QED BY <1>0, <2>2, <2>4 DEF Alone, StatelessIsExact
  <1>5. CASE Trap \/ Interrupted
    <2>1. at' = "done" /\ outcome'.kind = "fuel"
      BY <1>5, CutShort DEF Trap, Interrupted
    <2> QED BY <2>1 DEF Alone, StatelessIsExact, InGuest
  <1>6. CASE End
    <2>1. /\ at = "end" /\ at' = "done" /\ UNCHANGED <<instance, n, guest, script>>
          /\ script.stateless => outcome' = TakeOutcome
      BY <1>6, EndAnswers
    <2>2. SUFFICES ASSUME script.stateless PROVE StatelessIsExact'
      BY <1>0, <2>1 DEF Alone, StatelessIsExact, InGuest
    <2>3. Stages /\ Places(guest) = guest.waiting /\ ~Continuing
      BY <1>0, <2>1, <2>2, PlacesBound DEF Queued, InGuest, Continuing
    <2>4. Indescribable' = Indescribable /\ (Running <=> n \in guest.waiting)
      BY <2>1, <2>3 DEF Indescribable, Running
    <2>5. guest.slot.kind # "unsettled"
      BY <1>0 DEF Memory, Slots
    <2>6. CASE Running
      <3>1. outcome' = [Own("unsettled") EXCEPT !.logs = 0]
        BY <2>1, <2>2, <2>3, <2>6 DEF Stages, TakeOutcome
      <3>2. outcome'.kind = "unsettled" /\ outcome'.by = n /\ script.parses
        BY <2>1, <2>3, <2>6, <3>1 DEF Own, Stages
      <3> QED BY <2>1, <2>4, <2>6, <3>2 DEF StatelessIsExact
    <2>7. CASE ~Running
      <3>1. FinalSlot /\ (~script.parses => guest.slot.kind = "error")
        BY <2>1, <2>3, <2>7 DEF Stages
      <3>2. CASE Indescribable
        <4>1. outcome' = [Own("unsettled") EXCEPT !.logs = 0] /\ script.parses
          BY <2>1, <2>2, <3>1, <3>2 DEF FinalSlot, TakeOutcome
        <4>2. outcome'.kind = "unsettled" /\ outcome'.by = n
          BY <4>1 DEF Own
        <4> QED BY <2>1, <2>4, <3>2, <4>1, <4>2 DEF StatelessIsExact
      <3>3. CASE ~Indescribable
        <4>1. /\ outcome' = guest.slot /\ guest.slot.by = n
              /\ guest.slot.logs \in guest.said .. guest.entries
          BY <2>1, <2>2, <3>1, <3>3 DEF FinalSlot, TakeOutcome
        <4> QED BY <2>1, <2>4, <2>5, <2>7, <3>1, <3>3, <4>1 DEF StatelessIsExact
      <3> QED BY <3>2, <3>3
    <2> QED BY <2>6, <2>7
  <1>7. ASSUME NEW s \in Scripts, Execute(s) PROVE Alone'
    BY <1>7 DEF Alone, StatelessIsExact, Execute, Begin
  <1>8. ASSUME NEW s \in Scripts, RunJavaScript(s) PROVE Alone'
    <2>1. /\ guest' = Booted /\ at' = "body" /\ Empty = Booted.value /\ Empty = Booted.error
          /\ Booted.said = 0 /\ Booted.entries = 0 /\ Booted.slot.kind = "none"
      BY <1>8 DEF RunJavaScript, Booted, NoOutcome
    <2> QED BY <2>1 DEF Alone, StatelessIsExact, Stages, Running
  <1>9. ASSUME NEW kind \in {"error", "limit"}, ThrowSync(kind) PROVE Alone'
    <2>1. ~script.stateless /\ UNCHANGED <<script, instance>> /\ at # "idle"
      BY <1>9 DEF ThrowSync, GuestOnly, IsAsync, Mode
    <2> QED BY <1>0, <2>1 DEF Alone, StatelessIsExact
  <1>10. CASE SyntaxError
    <2>1. /\ UNCHANGED <<n, script, guest.value, guest.error, guest.said, guest.entries,
                         guest.waiting, guest.ready>>
          /\ at = "body" /\ at' = "jobs" /\ script.stateless /\ guest'.slot = Own("error")
      BY <1>10, SyntaxErrorStep
    <2>2. Stages /\ Running
      BY <1>0, <2>1 DEF InGuest, Running
    <2>3. ~Running' /\ ~Continuing'
      BY <2>1 DEF Running, Continuing, Queued, Places, InQueue
    <2>4. guest.value = Empty /\ guest.error = Empty /\ guest.said <= guest.entries
      BY <2>2 DEF Stages
    <2>5. ~Indescribable'
      BY <2>1, <2>4 DEF Indescribable, Empty
    <2>6. guest.said \in Nat /\ guest.entries \in Nat
      BY <1>0 DEF Memory
    <2>7. FinalSlot' /\ guest'.slot.kind = "error"
      BY <2>1, <2>4, <2>5, <2>6 DEF FinalSlot, Own
    <2>8. Stages'
      BY <2>1, <2>3, <2>4, <2>7 DEF Stages
    <2> QED BY <2>1, <2>8 DEF Alone, StatelessIsExact
  <1>11. ASSUME NEW job \in Jobs, ByGuest(job) PROVE Alone'
    <2>1. script' = script /\ at \in {"body", "jobs"} /\ at' \in {"body", "jobs"}
      BY <1>11, GuestStep
    <2>2. script.stateless => Stages'
      BY <1>0, <1>11, <2>1, StagesKept DEF InGuest
    <2> QED BY <2>1, <2>2 DEF Alone, StatelessIsExact
  <1> QED BY <1>1, <1>2, <1>3, <1>4, <1>5, <1>6, <1>7, <1>8, <1>9, <1>10, <1>11, NextCases

(***************************************************************************)
(* The invariant.                                                          *)
(***************************************************************************)
\* The invariant holds at first ...
LEMMA InitInv == Init => IInv
  <1> SUFFICES ASSUME Init PROVE IInv
    OBVIOUS
  <1>1. /\ instance = "none" /\ at = "idle" /\ n = 0 /\ used = 0 /\ invalid = FALSE
        /\ guest = Booted /\ meter = FullMeter /\ outcome = NoOutcome /\ snapshot = NoSnapshot
        /\ script \in Scripts
    BY DEF Init, Scripts
  <1>2. Types
    <2>1. FullMeter \in Meters
      BY DEF FullMeter, Meters
    <2>2. NoOutcome \in Outcomes
      BY DEF NoOutcome, Outcomes, Kinds
    <2>3. NoSnapshot \in Snapshots
      BY BootedTyped DEF NoSnapshot, Snapshots
    <2>4. n \in 0 .. MaxExecutions /\ used \in Int
      BY <1>1
    <2>5. invalid \in BOOLEAN
      BY <1>1
    <2>6. guest \in Memory /\ meter \in Meters /\ outcome \in Outcomes /\ snapshot \in Snapshots
      BY <1>1, <2>1, <2>2, <2>3, BootedTyped
    <2> QED BY <1>1, <2>4, <2>5, <2>6 DEF Types
  <1>3. Fuelled
    BY <1>1 DEF Fuelled, FullMeter, InGuest
  <1>4. Rested
    BY <1>1, BootedTyped DEF Rested, NoSnapshot
  <1>5. Captures /\ Pending /\ Alone
    BY <1>1 DEF Captures, Pending, Alone, StatelessIsExact, InGuest
  <1>6. Queued
    BY <1>1, EmptyQueue DEF Queued, OnePlace, InQueue, Places, NoSnapshot, Booted, InGuest
  <1> QED BY <1>2, <1>3, <1>4, <1>5, <1>6 DEF IInv

\* ... and every step keeps it.
LEMMA StepInv == IInv /\ [Next]_vars => IInv'
  <1> SUFFICES ASSUME IInv, [Next]_vars PROVE IInv'
    OBVIOUS
  <1>1. CASE Next
    BY <1>1, TypesKept, FuelledKept, RestedKept, CapturesKept, QueuedKept, PendingKept, AloneKept
       DEF IInv
  <1>2. CASE UNCHANGED vars
    <2>1. Types' /\ Fuelled' /\ Rested'
      BY <1>2 DEF IInv, vars, Types, Fuelled, Rested, InGuest
    <2>2. Captures' /\ Queued'
      BY <1>2 DEF IInv, vars, Captures, Queued, InGuest, Recent, OnePlace, InQueue, Places
    <2>3. Pending' /\ StatelessIsExact'
      BY <1>2 DEF IInv, vars, Pending, Alone, StatelessIsExact, InQueue, Places, expectAsync, Mode, Indescribable
    <2>4. Alone'
      BY <1>2, <2>3 DEF IInv, vars, Alone, Stages, Running, Continuing, FinalSlot, InGuest, InQueue,
                        Places, Indescribable
    <2> QED BY <2>1, <2>2, <2>3, <2>4 DEF IInv
  <1> QED BY <1>1, <1>2

\* Everything above holds in every state of every history of executions.
THEOREM Invariant == Spec => []IInv
  BY InitInv, StepInv, PTL DEF Spec

\* engine.mjs: no snapshot is ever of an instance the backstop has thrown through.
THEOREM StoredAtRest == Spec => []SnapshotIsAtRest
  <1>1. IInv => SnapshotIsAtRest
    BY DEF IInv, Rested, SnapshotIsAtRest
  <1> QED BY <1>1, Invariant, PTL

\* createMeter: what stops an execution for its fuel is fuel it has burnt itself, and at twice
\* its fuel it has stopped; the types and the one place of a body come with it.
THEOREM BoundedExecutions == Spec => []ExecutionsAreBounded
  <1>1. IInv => ExecutionsAreBounded
    <2> SUFFICES ASSUME IInv PROVE ExecutionsAreBounded
      OBVIOUS
    <2>1. guest.value \in Capture /\ guest.error \in Capture /\ guest.entries \in 0 .. MaxEntries
      BY DEF IInv, Types, Memory, Value, Error, Capture
    <2>2. /\ guest.waiting \subseteq 1 .. n /\ ToSet(guest.ready) \subseteq Detached .. n
          /\ guest.waiting \intersect ToSet(guest.ready) = {}
      BY DEF IInv, Queued, OnePlace, InQueue, Elements, ToSet
    <2>3. meter.remaining \in Int /\ meter.remaining <= Fuel
      BY DEF IInv, Types, Meters, Fuelled
    <2>4. TypeOK
      BY <2>1, <2>2, <2>3 DEF IInv, Types, TypeOK
    <2> QED BY <2>4 DEF IInv, Fuelled, ExecutionsAreBounded, FuelIsPerExecution, BackstopHolds
  <1> QED BY <1>1, Invariant, PTL

\* engine.mjs and prelude.mjs: an answer was captured during the execution it answers; "never
\* settled" is said of a script that waits, or of one without a session whose error cannot be
\* described; and without a session the answer is the script's own, its syntax error included,
\* with the output there was when its body settled.
THEOREM ExactAnswers == Spec => []AnswersAreExact
  <1>1. IInv => AnswersAreExact
    <2> SUFFICES ASSUME IInv PROVE UnsettledWaits
      BY DEF IInv, Captures, Alone, AnswersAreExact, ResultIsRecent
    <2>1. ASSUME at = "done", outcome.kind = "unsettled", script.stateless
          PROVE  n \in guest.waiting \/ Indescribable
      BY <2>1 DEF IInv, Types, Alone, StatelessIsExact
    <2> QED BY <2>1 DEF IInv, Pending, UnsettledWaits
  <1> QED BY <1>1, Invariant, PTL

(***************************************************************************)
(* Part two: the transformation of the source, for every set of trees.     *)
(*                                                                         *)
(* Its walks are recursive functions. That such a function is what its     *)
(* definition says needs the trees to be finite: it is shown once, for     *)
(* functions of any set with a height, where a function's value may depend *)
(* on its values lower down. `Step` is what the definition says of a       *)
(* value, given the function.                                              *)
(***************************************************************************)
\* A set of natural numbers that is not empty has a least element.
LEMMA LeastNumber ==
  ASSUME NEW T, T \subseteq Nat, T # {}
  PROVE  \E m \in T : \A k \in T : ~(k < m)
  <1>1. PICK m \in T : \A k \in T : ~(<<k, m>> \in OpToRel(<, Nat))
    BY WFMin, NatLessThanWellFounded
  <1> QED
    BY <1>1 DEF OpToRel

\* A value depends on the values lower down alone.
LooksDown(S, V, high, Step) ==
  \A x \in S : \A f, g \in [S -> V] :
    (\A y \in S : high[y] < high[x] => f[y] = g[y]) => Step[x][f] = Step[x][g]

\* f is as defined below a height.
Below(S, V, high, Step, f, top) ==
  f \in [S -> V] /\ \A x \in S : high[x] < top => f[x] = Step[x][f]

\* There is one, below every height.
LEMMA BelowExists ==
  ASSUME NEW S, NEW V, NEW high \in [S -> Nat], NEW Step \in [S -> [[S -> V] -> V]], V # {},
         LooksDown(S, V, high, Step), NEW top \in Nat
  PROVE  \E f : Below(S, V, high, Step, f, top)
  <1> DEFINE None == {t \in Nat : ~ \E f : Below(S, V, high, Step, f, t)}
  <1>1. SUFFICES ASSUME None # {} PROVE FALSE
    OBVIOUS
  <1>2. PICK t \in None : \A k \in None : ~(k < t)
    BY <1>1, LeastNumber
  <1>3. CASE t = 0
    <2>1. PICK v : v \in V
      OBVIOUS
    <2>2. Below(S, V, high, Step, [x \in S |-> v], t)
      BY <1>3, <2>1 DEF Below
    <2> QED
      BY <2>2
  <1>4. CASE t # 0
    <2>1. t - 1 \in Nat /\ t - 1 < t
      BY <1>4
    <2>2. t - 1 \notin None
      BY <1>2, <2>1
    <2>3. PICK f : Below(S, V, high, Step, f, t - 1)
      BY <2>1, <2>2
    <2> DEFINE g == [x \in S |-> Step[x][f]]
    <2>4. f \in [S -> V] /\ \A x \in S : high[x] < t - 1 => f[x] = Step[x][f]
      BY <2>3 DEF Below
    <2>5. g \in [S -> V] /\ \A x \in S : g[x] = Step[x][f]
      BY <2>4
    <2> HIDE DEF g
    <2>6. \A x \in S : high[x] < t => Step[x][f] = Step[x][g]
      <3> SUFFICES ASSUME NEW x \in S, high[x] < t PROVE Step[x][f] = Step[x][g]
        OBVIOUS
      <3>1. \A y \in S : high[y] < high[x] => f[y] = g[y]
        BY <2>4, <2>5
      <3> QED
        BY <2>4, <2>5, <3>1 DEF LooksDown
    <2>7. Below(S, V, high, Step, g, t)
      BY <2>5, <2>6 DEF Below
    <2> QED
      BY <2>7
  <1> QED
    BY <1>3, <1>4

\* f is as defined.
Defines(S, Step, f) == \A x \in S : f[x] = Step[x][f]

\* Put together they are a function that is as defined everywhere.
LEMMA RecursionExists ==
  ASSUME NEW S, NEW V, NEW high \in [S -> Nat], NEW Step \in [S -> [[S -> V] -> V]], V # {},
         LooksDown(S, V, high, Step)
  PROVE  \E f \in [S -> V] : Defines(S, Step, f)
  <1> DEFINE upTo(t) == CHOOSE f : Below(S, V, high, Step, f, t)
             whole    == [x \in S |-> upTo(high[x] + 1)[x]]
  <1>1. \A t \in Nat : Below(S, V, high, Step, upTo(t), t)
    BY BelowExists
  <1> HIDE DEF upTo
  <1>2. \A t \in Nat : upTo(t) \in [S -> V]
    BY <1>1 DEF Below
  <1>3. whole \in [S -> V] /\ \A x \in S : whole[x] = upTo(high[x] + 1)[x]
    BY <1>2
  <1> HIDE DEF whole
  <1>4. ASSUME NEW f, NEW g, NEW b \in Nat, NEW t \in Nat, b <= t,
               Below(S, V, high, Step, f, b), Below(S, V, high, Step, g, t),
               NEW x \in S, high[x] < b
        PROVE  f[x] = g[x]
    \* By minimality.
    <2> DEFINE Differ == {y \in S : high[y] < b /\ f[y] # g[y]}
               T      == {high[y] : y \in Differ}
    <2>1. SUFFICES ASSUME Differ # {} PROVE FALSE
      BY <1>4
    <2>2. T \subseteq Nat /\ T # {}
      <3>1. PICK y \in Differ : TRUE
        BY <2>1
      <3>2. high[y] \in T
        BY <3>1
      <3>3. T \subseteq Nat
        OBVIOUS
      <3> QED
        BY <3>2, <3>3, Zenon
    <2>3. PICK m \in T : \A k \in T : ~(k < m)
      BY <2>2, LeastNumber
    <2>4. PICK y \in Differ : high[y] = m
      BY <2>3
    <2>5. \A z \in S : high[z] < high[y] => f[z] = g[z]
      <3> SUFFICES ASSUME NEW z \in S, high[z] < high[y], f[z] # g[z] PROVE FALSE
        OBVIOUS
      <3>1. high[z] \in Nat /\ high[y] \in Nat /\ high[y] < b
        BY <2>4
      <3>2. z \in Differ
        BY <3>1
      <3> QED
        BY <2>3, <2>4, <3>2
    <2>6. f \in [S -> V] /\ g \in [S -> V] /\ y \in S
      BY <1>4, <2>4 DEF Below
    <2>7. Step[y][f] = Step[y][g]
      BY <2>5, <2>6 DEF LooksDown
    <2>8. high[y] \in Nat /\ high[y] < b /\ high[y] < t /\ f[y] # g[y]
      BY <1>4, <2>4
    <2> QED
      BY <1>4, <2>6, <2>7, <2>8 DEF Below
  <1>5. \A x \in S : whole[x] = Step[x][whole]
    <2> SUFFICES ASSUME NEW x \in S PROVE whole[x] = Step[x][whole]
      OBVIOUS
    <2> DEFINE g == upTo(high[x] + 1)
    <2>0. high[x] \in Nat /\ high[x] + 1 \in Nat /\ high[x] < high[x] + 1
      OBVIOUS
    <2>1. Below(S, V, high, Step, g, high[x] + 1)
      BY <1>1, <2>0
    <2>2. g \in [S -> V] /\ g[x] = Step[x][g]
      BY <2>0, <2>1 DEF Below
    <2>3. \A y \in S : high[y] < high[x] => whole[y] = g[y]
      <3> SUFFICES ASSUME NEW y \in S, high[y] < high[x] PROVE whole[y] = g[y]
        OBVIOUS
      <3>1. high[y] \in Nat /\ high[y] + 1 \in Nat /\ high[y] + 1 <= high[x] + 1
            /\ high[y] < high[y] + 1
        BY <2>0
      <3> DEFINE f == upTo(high[y] + 1)
      <3>2. Below(S, V, high, Step, f, high[y] + 1)
        BY <1>1, <3>1
      <3> HIDE DEF f, g
      <3>3. f[y] = g[y]
        BY <2>0, <2>1, <3>1, <3>2, <1>4
      <3> USE DEF f, g
      <3> QED
        BY <1>3, <3>3
    <2>4. Step[x][whole] = Step[x][g]
      BY <1>3, <2>2, <2>3 DEF LooksDown
    <2> QED
      BY <1>3, <2>2, <2>4
  <1> QED
    BY <1>3, <1>5 DEF Defines


(***************************************************************************)
(* What the recursive functions of the transformation are.                 *)
(***************************************************************************)
\* The kinds a path is made of.
StatementKinds == {node.kind : node \in Nodes}

\* Of the trees: what is inside a statement is a statement, and lower.
LEMMA Trees ==
  /\ Height \in [Nodes -> Nat]
  /\ \A node \in Nodes : \A i \in DOMAIN node.body :
       node.body[i] \in Nodes /\ Height[node.body[i]] < Height[node]
  BY TreesAssumption DEF Source!NodesAreTrees

\* Of the statements of which something is wrong, there is one with nothing wrong inside it.
LEMMA LowestStatement ==
  ASSUME NEW Wrong, Wrong \subseteq Nodes, Wrong # {}
  PROVE  \E node \in Wrong : \A i \in DOMAIN node.body : node.body[i] \notin Wrong
  <1> DEFINE T == {Height[node] : node \in Wrong}
  <1>1. T \subseteq Nat
    BY Trees
  <1>2. T # {}
    OBVIOUS
  <1>3. PICK m \in T : \A k \in T : ~(k < m)
    BY <1>1, <1>2, LeastNumber
  <1>4. PICK node \in Wrong : Height[node] = m
    BY <1>3
  <1>5. \A p \in Wrong : ~(Height[p] < Height[node])
    BY <1>3, <1>4
  <1> QED
    BY <1>5, Trees

\* The paths from a statement to those inside it, and to itself.
PathsFrom(node, f) ==
  {<<node.kind>>} \union
    UNION {{<<node.kind>> \o path : path \in f[node.body[i]]} : i \in DOMAIN node.body}

\* The paths are sequences of kinds, and those of a statement are what their definition says.
LEMMA PathsAreDefined ==
  /\ Source!PathsOf \in [Nodes -> SUBSET Seq(StatementKinds)]
  /\ \A node \in Nodes : Source!PathsOf[node] = PathsFrom(node, Source!PathsOf)
  <1> DEFINE V    == SUBSET Seq(StatementKinds)
             Step == [node \in Nodes |-> [f \in [Nodes -> V] |-> PathsFrom(node, f)]]
             Defined(f) == f = [node \in Nodes |-> PathsFrom(node, f)]
  <1>1. \A node \in Nodes : \A f \in [Nodes -> V] : PathsFrom(node, f) \in V
    <2> SUFFICES ASSUME NEW node \in Nodes, NEW f \in [Nodes -> V],
                        NEW path \in PathsFrom(node, f)
                 PROVE  path \in Seq(StatementKinds)
      OBVIOUS
    <2>1. node.kind \in StatementKinds
      BY DEF StatementKinds
    <2>2. CASE path = <<node.kind>>
      BY <2>1, <2>2
    <2>3. CASE \E i \in DOMAIN node.body : \E p \in f[node.body[i]] : path = <<node.kind>> \o p
      <3>1. PICK i \in DOMAIN node.body : \E p \in f[node.body[i]] : path = <<node.kind>> \o p
        BY <2>3
      <3>2. PICK p \in f[node.body[i]] : path = <<node.kind>> \o p
        BY <3>1
      <3>3. p \in Seq(StatementKinds)
        BY <3>2, Trees
      <3> QED
        BY <2>1, <3>2, <3>3
    <2> QED
      BY <2>2, <2>3 DEF PathsFrom
  <1>2. Step \in [Nodes -> [[Nodes -> V] -> V]]
    BY <1>1
  <1>3. LooksDown(Nodes, V, Height, Step)
    <2> SUFFICES ASSUME NEW x \in Nodes, NEW f \in [Nodes -> V], NEW g \in [Nodes -> V],
                        \A y \in Nodes : Height[y] < Height[x] => f[y] = g[y]
                 PROVE  Step[x][f] = Step[x][g]
      BY DEF LooksDown
    <2>1. \A i \in DOMAIN x.body : f[x.body[i]] = g[x.body[i]]
      BY Trees
    <2>2. PathsFrom(x, f) = PathsFrom(x, g)
      BY <2>1 DEF PathsFrom
    <2> QED
      BY <2>2
  <1> HIDE DEF V
  <1>4. V # {}
    BY DEF V
  <1>5. PICK f \in [Nodes -> V] : Defines(Nodes, Step, f)
    <2> HIDE DEF Step
    <2> QED
      BY <1>2, <1>3, <1>4, Trees, RecursionExists, Zenon
  <1>6. Defined(f)
    BY <1>5 DEF Defines
  <1>7. Source!PathsOf = CHOOSE g : Defined(g)
    BY Zenon DEF Source!PathsOf, PathsFrom
  <1> HIDE DEF Defined
  <1>8. Defined(Source!PathsOf)
    BY <1>6, <1>7
  <1> USE DEF Defined
  <1>9. \A node \in Nodes : Source!PathsOf[node] = PathsFrom(node, Source!PathsOf)
    BY <1>8
  <1>10. \A node \in Nodes : Source!PathsOf[node] \in V
    <2> DEFINE Wrong == {node \in Nodes : Source!PathsOf[node] \notin V}
    <2>1. SUFFICES ASSUME Wrong # {} PROVE FALSE
      OBVIOUS
    <2>2. PICK node \in Wrong : \A i \in DOMAIN node.body : node.body[i] \notin Wrong
      BY <2>1, LowestStatement
    <2> DEFINE g == [p \in Nodes |-> IF p \in Wrong THEN {} ELSE Source!PathsOf[p]]
    <2>3. g \in [Nodes -> V]
      BY DEF V
    <2>4. \A i \in DOMAIN node.body : g[node.body[i]] = Source!PathsOf[node.body[i]]
      BY <2>2, Trees
    <2>5. node \in Nodes /\ Source!PathsOf[node] \notin V
      BY <2>2
    <2> HIDE DEF g, Wrong
    <2>6. PathsFrom(node, g) = PathsFrom(node, Source!PathsOf)
      BY <2>4 DEF PathsFrom
    <2> QED
      BY <1>1, <1>9, <2>3, <2>5, <2>6
  <1>11. Source!PathsOf \in [Nodes -> V]
    BY <1>8, <1>10
  <1> QED
    BY <1>9, <1>11 DEF V


\* walk of hasTopLevelAwait, of a statement that is inside a function or is not.
WalkFrom(node, f) ==
  [inside \in BOOLEAN |->
    \/ ~inside /\ node.kind \in Source!Awaits
    \/ \E i \in DOMAIN node.body : f[node.body[i]][inside \/ node.kind \in Source!Functions]]

\* The walk is what its definition says.
LEMMA WalkIsDefined ==
  \A node \in Nodes : Source!Walk[node] = WalkFrom(node, Source!Walk)
  <1> DEFINE V    == [BOOLEAN -> BOOLEAN]
             Step == [node \in Nodes |-> [f \in [Nodes -> V] |-> WalkFrom(node, f)]]
             Defined(f) == f = [node \in Nodes |-> WalkFrom(node, f)]
  <1>1. Step \in [Nodes -> [[Nodes -> V] -> V]]
    BY DEF WalkFrom
  <1>2. LooksDown(Nodes, V, Height, Step)
    <2> SUFFICES ASSUME NEW x \in Nodes, NEW f \in [Nodes -> V], NEW g \in [Nodes -> V],
                        \A y \in Nodes : Height[y] < Height[x] => f[y] = g[y]
                 PROVE  Step[x][f] = Step[x][g]
      BY DEF LooksDown
    <2>1. \A i \in DOMAIN x.body : f[x.body[i]] = g[x.body[i]]
      BY Trees
    <2>2. WalkFrom(x, f) = WalkFrom(x, g)
      BY <2>1, Zenon DEF WalkFrom
    <2> QED
      BY <2>2, Zenon
  <1> HIDE DEF V
  <1>3. V # {}
    <2>1. [b \in BOOLEAN |-> TRUE] \in V
      BY DEF V
    <2> QED
      BY <2>1
  <1>4. PICK f \in [Nodes -> V] : Defines(Nodes, Step, f)
    <2> HIDE DEF Step
    <2> QED
      BY <1>1, <1>2, <1>3, Trees, RecursionExists, Zenon
  <1>5. Defined(f)
    BY <1>4 DEF Defines
  <1>6. Source!Walk = CHOOSE g : Defined(g)
    BY Zenon DEF Source!Walk, WalkFrom
  <1> HIDE DEF Defined
  <1>7. Defined(Source!Walk)
    BY <1>5, <1>6
  <1> USE DEF Defined
  <1> QED
    BY <1>7

\* statementHasReturn.
ReturnFrom(node, f) ==
  \/ node.kind = "return"
  \/ node.kind \in Source!Holds /\ \E i \in DOMAIN node.body : f[node.body[i]]

\* The search for a return is what its definition says.
LEMMA ReturnIsDefined ==
  \A node \in Nodes :
    Source!statementHasReturn[node] <=> ReturnFrom(node, Source!statementHasReturn)
  <1> DEFINE Step == [node \in Nodes |-> [f \in [Nodes -> BOOLEAN] |-> ReturnFrom(node, f)]]
             Defined(f) == f = [node \in Nodes |-> ReturnFrom(node, f)]
  <1>1. Step \in [Nodes -> [[Nodes -> BOOLEAN] -> BOOLEAN]]
    BY Zenon DEF ReturnFrom
  <1>2. LooksDown(Nodes, BOOLEAN, Height, Step)
    <2> SUFFICES ASSUME NEW x \in Nodes, NEW f \in [Nodes -> BOOLEAN], NEW g \in [Nodes -> BOOLEAN],
                        \A y \in Nodes : Height[y] < Height[x] => f[y] = g[y]
                 PROVE  Step[x][f] = Step[x][g]
      BY DEF LooksDown
    <2>1. \A i \in DOMAIN x.body : f[x.body[i]] = g[x.body[i]]
      BY Trees
    <2>2. ReturnFrom(x, f) = ReturnFrom(x, g)
      BY <2>1, Zenon DEF ReturnFrom
    <2> QED
      BY <2>2, Zenon
  <1>3. PICK f \in [Nodes -> BOOLEAN] : Defines(Nodes, Step, f)
    <2> HIDE DEF Step
    <2> QED
      BY <1>1, <1>2, Trees, RecursionExists, Zenon
  <1>4. Defined(f)
    BY <1>3 DEF Defines
  <1>5. Source!statementHasReturn = CHOOSE g : Defined(g)
    BY DEF Source!statementHasReturn, ReturnFrom
  <1> HIDE DEF Defined
  <1>6. Defined(Source!statementHasReturn)
    BY <1>4, <1>5
  <1> USE DEF Defined
  <1> QED
    BY <1>6


(***************************************************************************)
(* The walks against the paths.                                            *)
(***************************************************************************)
\* A path to one of these kinds that crosses no function.
Leads(path, kinds) ==
  /\ path[Len(path)] \in kinds
  /\ \A i \in DOMAIN path : path[i] \notin Source!Functions

\* There is one from a statement.
Finds(node, kinds) == \E path \in Source!PathsOf[node] : Leads(path, kinds)

\* A path goes one statement down and on from there, or ends.
LEMMA OneStepDown ==
  ASSUME NEW node \in Nodes, NEW kinds
  PROVE  Finds(node, kinds) <=>
           /\ node.kind \notin Source!Functions
           /\ \/ node.kind \in kinds
              \/ \E i \in DOMAIN node.body : Finds(node.body[i], kinds)
  <1> DEFINE k == node.kind
  <1>1. Source!PathsOf[node] = PathsFrom(node, Source!PathsOf)
    BY PathsAreDefined
  <1>2. \A i \in DOMAIN node.body : \A p \in Source!PathsOf[node.body[i]] :
          p \in Seq(StatementKinds) /\ Len(p) > 0
    <2> SUFFICES ASSUME NEW i \in DOMAIN node.body, NEW p \in Source!PathsOf[node.body[i]]
                 PROVE  p \in Seq(StatementKinds) /\ Len(p) > 0
      OBVIOUS
    <2> DEFINE c == node.body[i]
    <2>1. c \in Nodes
      BY Trees
    <2> HIDE DEF c
    <2>2. p \in Source!PathsOf[c]
      BY DEF c
    <2>3. p \in Seq(StatementKinds)
      BY <2>1, <2>2, PathsAreDefined
    <2>4. p \in PathsFrom(c, Source!PathsOf)
      BY <2>1, <2>2, PathsAreDefined
    <2>5. p = <<c.kind>> \/ \E j \in DOMAIN c.body : \E q \in Source!PathsOf[c.body[j]] : p = <<c.kind>> \o q
      BY <2>4 DEF PathsFrom
    <2>6. \A j \in DOMAIN c.body : \A q \in Source!PathsOf[c.body[j]] : q \in Seq(StatementKinds)
      BY <2>1, Trees, PathsAreDefined
    <2>7. c.kind \in StatementKinds
      BY <2>1 DEF StatementKinds
    <2>8. Len(p) > 0
      <3>1. CASE p = <<c.kind>>
        BY <3>1
      <3>2. CASE \E j \in DOMAIN c.body : \E q \in Source!PathsOf[c.body[j]] : p = <<c.kind>> \o q
        <4>1. PICK q \in Seq(StatementKinds) : p = <<c.kind>> \o q
          BY <2>6, <3>2
        <4> QED
          BY <2>7, <4>1
      <3> QED
        BY <2>5, <3>1, <3>2
    <2> QED
      BY <2>3, <2>8
  <1>3. k \in StatementKinds
    BY DEF StatementKinds
  <1>4. Leads(<<k>>, kinds) <=> k \in kinds /\ k \notin Source!Functions
    BY DEF Leads
  <1>5. ASSUME NEW p \in Seq(StatementKinds), Len(p) > 0
        PROVE  Leads(<<k>> \o p, kinds) <=> k \notin Source!Functions /\ Leads(p, kinds)
    <2> DEFINE path == <<k>> \o p
    <2>1. /\ path \in Seq(StatementKinds) /\ Len(path) = Len(p) + 1
          /\ path[1] = k /\ \A i \in 1 .. Len(p) : path[i + 1] = p[i]
      BY <1>3
    <2>2. path[Len(path)] = p[Len(p)]
      BY <1>5, <2>1
    <2>3. DOMAIN path = 1 .. Len(p) + 1 /\ DOMAIN p = 1 .. Len(p) /\ Len(p) \in Nat
      BY <2>1
    <2> HIDE DEF path
    <2>4. (\A i \in DOMAIN path : path[i] \notin Source!Functions) <=>
            k \notin Source!Functions /\ \A i \in DOMAIN p : p[i] \notin Source!Functions
      <3>1. \A i \in DOMAIN path : i = 1 \/ (i - 1 \in DOMAIN p /\ path[i] = p[i - 1])
        <4> SUFFICES ASSUME NEW i \in 1 .. Len(p) + 1, i # 1
                     PROVE  i - 1 \in DOMAIN p /\ path[i] = p[i - 1]
          BY <2>3
        <4>1. i - 1 \in 1 .. Len(p)
          BY <2>3
        <4>2. path[(i - 1) + 1] = p[i - 1]
          BY <2>1, <4>1
        <4> QED
          BY <2>3, <4>1, <4>2
      <3>2. \A i \in DOMAIN p : i + 1 \in DOMAIN path /\ path[i + 1] = p[i]
        BY <2>1, <2>3
      <3>3. 1 \in DOMAIN path
        BY <2>3
      <3> QED
        BY <2>1, <3>1, <3>2, <3>3
    <2> QED
      BY <2>2, <2>4 DEF Leads, path
  <1>6. Finds(node, kinds) <=>
          \/ Leads(<<k>>, kinds)
          \/ \E i \in DOMAIN node.body : \E p \in Source!PathsOf[node.body[i]] : Leads(<<k>> \o p, kinds)
    <2>1. \A path : path \in Source!PathsOf[node] <=>
            \/ path = <<k>>
            \/ \E i \in DOMAIN node.body : \E p \in Source!PathsOf[node.body[i]] : path = <<k>> \o p
      <3> DEFINE On(i) == {<<k>> \o p : p \in Source!PathsOf[node.body[i]]}
                 Extends(path, i) ==
                   \E p \in Source!PathsOf[node.body[i]] : path = <<k>> \o p
      <3>1. \A path : path \in Source!PathsOf[node] <=>
              path = <<k>> \/ \E i \in DOMAIN node.body : path \in On(i)
        BY <1>1, Zenon DEF PathsFrom
      <3>2. \A i : \A path : path \in On(i) <=> Extends(path, i)
        BY Zenon
      <3> SUFFICES \A path : path \in Source!PathsOf[node] <=>
                     path = <<k>> \/ \E i \in DOMAIN node.body : Extends(path, i)
        BY Zenon
      <3> HIDE DEF On, Extends
      <3> QED
        BY <3>1, <3>2, Zenon
    <2> QED
      BY <2>1, Zenon DEF Finds
  <1>7. \A i \in DOMAIN node.body : \A p \in Source!PathsOf[node.body[i]] :
          Leads(<<k>> \o p, kinds) <=> k \notin Source!Functions /\ Leads(p, kinds)
    BY <1>2, <1>5
  <1> QED
    BY <1>4, <1>6, <1>7 DEF Finds

\* An await is no function: the walk enters a statement to look for one.
LEMMA WalkFindsAwaits ==
  \A node \in Nodes : \A inside \in BOOLEAN :
    Source!Walk[node][inside] <=> ~inside /\ Finds(node, Source!Awaits)
  <1> DEFINE Right(p) == \A inside \in BOOLEAN :
               Source!Walk[p][inside] <=> ~inside /\ Finds(p, Source!Awaits)
             Wrong == {p \in Nodes : ~Right(p)}
  <1>1. SUFFICES ASSUME Wrong # {} PROVE FALSE
    OBVIOUS
  <1>2. PICK node \in Wrong : \A i \in DOMAIN node.body : node.body[i] \notin Wrong
    BY <1>1, LowestStatement
  <1>3. \A i \in DOMAIN node.body : Right(node.body[i])
    BY <1>2, Trees
  <1>4. node \in Nodes /\ ~Right(node)
    BY <1>2
  <1> DEFINE isFunction == node.kind \in Source!Functions
  <1>5. Source!Walk[node] = WalkFrom(node, Source!Walk)
    BY <1>4, WalkIsDefined
  <1>6. \A inside \in BOOLEAN : WalkFrom(node, Source!Walk)[inside] <=>
          \/ ~inside /\ node.kind \in Source!Awaits
          \/ \E i \in DOMAIN node.body : Source!Walk[node.body[i]][inside \/ isFunction]
    BY Zenon DEF WalkFrom
  <1>7. \A inside \in BOOLEAN : \A i \in DOMAIN node.body :
          Source!Walk[node.body[i]][inside \/ isFunction] <=>
            ~(inside \/ isFunction) /\ Finds(node.body[i], Source!Awaits)
    BY <1>3, Zenon
  <1>8. Finds(node, Source!Awaits) <=>
          ~isFunction /\ (node.kind \in Source!Awaits
                          \/ \E i \in DOMAIN node.body : Finds(node.body[i], Source!Awaits))
    BY <1>4, OneStepDown
  <1>9. node.kind \in Source!Awaits => ~isFunction
    BY DEF Source!Awaits, Source!Functions
  <1>10. Right(node)
    <2> HIDE DEF isFunction
    <2> QED
      BY <1>5, <1>6, <1>7, <1>8, <1>9, Zenon
  <1> QED
    BY <1>4, <1>10

\* What holds other statements is no function either: a return found is one the script reaches.
LEMMA ReturnsAreFound ==
  \A node \in Nodes : Source!statementHasReturn[node] => Finds(node, {"return"})
  <1> DEFINE Right(p) == Source!statementHasReturn[p] => Finds(p, {"return"})
             Wrong == {p \in Nodes : ~Right(p)}
  <1>1. SUFFICES ASSUME Wrong # {} PROVE FALSE
    OBVIOUS
  <1>2. PICK node \in Wrong : \A i \in DOMAIN node.body : node.body[i] \notin Wrong
    BY <1>1, LowestStatement
  <1>3. \A i \in DOMAIN node.body : Right(node.body[i])
    BY <1>2, Trees
  <1>4. node \in Nodes /\ ~Right(node)
    BY <1>2
  <1>5. Source!statementHasReturn[node] <=> ReturnFrom(node, Source!statementHasReturn)
    BY <1>4, ReturnIsDefined
  <1>6. Finds(node, {"return"}) <=>
          node.kind \notin Source!Functions
          /\ (node.kind \in {"return"} \/ \E i \in DOMAIN node.body : Finds(node.body[i], {"return"}))
    BY <1>4, OneStepDown
  <1>7. node.kind \in {"return"} \union Source!Holds => node.kind \notin Source!Functions
    BY DEF Source!Holds, Source!Functions
  <1> QED
    BY <1>3, <1>4, <1>5, <1>6, <1>7 DEF ReturnFrom


(***************************************************************************)
(* The theorem.                                                            *)
(***************************************************************************)
\* What the transformation has left, or is about to find.
SourceInv ==
  /\ text \in Sources
  /\ \/ stateless = "pending" /\ repl = Source!Pending
     \/ /\ stateless = Source!transformForAsyncExecution
        /\ repl = Source!transformForRepl

\* A script reaches a kind when one of its own statements does.
LEMMA ReachesFromItsStatements ==
  ASSUME NEW kind
  PROVE  Source!Reaches(kind) <=> \E i \in DOMAIN text.body : Finds(text.body[i], {kind})
  <1>1. \A path : path \in Source!Paths <=>
          \E i \in DOMAIN text.body : path \in Source!PathsOf[text.body[i]]
    BY DEF Source!Paths
  <1> QED
    BY <1>1 DEF Source!Reaches, Finds, Leads

\* hasTopLevelAwait: what it looks for is what the script reaches.
LEMMA AwaitsAreReached ==
  text \in Sources =>
    (Source!hasTopLevelAwait <=> Source!Reaches("await") \/ Source!Reaches("forAwait"))
  <1> SUFFICES ASSUME text \in Sources
               PROVE  Source!hasTopLevelAwait <=> Source!Reaches("await") \/ Source!Reaches("forAwait")
    OBVIOUS
  <1>1. \A i \in DOMAIN text.body : text.body[i] \in Nodes
    BY TreesAssumption DEF Source!ScriptsAreOfNodes
  <1>2. \A i \in DOMAIN text.body :
          Source!Walk[text.body[i]][FALSE] <=> Finds(text.body[i], Source!Awaits)
    BY <1>1, WalkFindsAwaits
  <1>3. \A node : Finds(node, Source!Awaits) <=> Finds(node, {"await"}) \/ Finds(node, {"forAwait"})
    BY DEF Finds, Leads, Source!Awaits
  <1> QED
    BY <1>2, <1>3, ReachesFromItsStatements DEF Source!hasTopLevelAwait

\* hasTopLevelReturn: what it finds the script reaches.
LEMMA ReturnsAreReached ==
  text \in Sources /\ Source!hasTopLevelReturn => Source!Reaches("return")
  <1> SUFFICES ASSUME text \in Sources, Source!hasTopLevelReturn PROVE Source!Reaches("return")
    OBVIOUS
  <1>1. \A i \in DOMAIN text.body : text.body[i] \in Nodes
    BY TreesAssumption DEF Source!ScriptsAreOfNodes
  <1> QED
    BY <1>1, ReturnsAreFound, ReachesFromItsStatements DEF Source!hasTopLevelReturn

\* What it leaves is sound.
LEMMA TransformedIsSound == SourceInv => HoistingIsSound
  <1> SUFFICES ASSUME SourceInv PROVE HoistingIsSound
    OBVIOUS
  <1>1. CASE stateless = "pending" /\ repl = Source!Pending
    BY <1>1 DEF HoistingIsSound, Source!HoistingIsSound, Source!AwaitIsHoisted,
       Source!OwnNamesPersist, Source!RefusedForItsReturn, Source!Pending
  <1>2. CASE stateless = Source!transformForAsyncExecution /\ repl = Source!transformForRepl
    <2>1. Source!hasTopLevelAwait <=> Source!Reaches("await") \/ Source!Reaches("forAwait")
      BY AwaitsAreReached DEF SourceInv
    <2>2. Source!AwaitIsHoisted
      BY <1>2, <2>1 DEF Source!AwaitIsHoisted, Source!transformForRepl
    <2>3. Source!OwnNames = Source!Hoisted
      BY DEF Source!OwnNames, Source!Hoisted, Source!HoistedKinds
    <2>4. Source!OwnNamesPersist
      BY <1>2, <2>3 DEF Source!OwnNamesPersist, Source!Persisting, Source!ConsoleNames,
         Source!transformForRepl
    <2>5. stateless = "illegal" => Source!hasTopLevelReturn
      BY <1>2 DEF Source!transformForAsyncExecution
    <2>6. Source!RefusedForItsReturn
      BY <2>5, ReturnsAreReached DEF SourceInv, Source!RefusedForItsReturn
    <2> QED
      BY <2>2, <2>4, <2>6 DEF HoistingIsSound, Source!HoistingIsSound
  <1> QED
    BY <1>1, <1>2 DEF SourceInv

\* transform.mjs, for every script of every set of trees: a session's script is wrapped exactly when
\* it awaits outside any function of its own, the names its statements declare persist, and what is
\* refused for a return has one.
THEOREM TransformIsSound == Source!Spec => []HoistingIsSound
  <1>1. Source!Init => SourceInv
    BY DEF Source!Init, SourceInv
  <1>2. SourceInv /\ [Source!Next]_(Source!vars) => SourceInv'
    <2> SUFFICES ASSUME SourceInv, [Source!Next]_(Source!vars) PROVE SourceInv'
      OBVIOUS
    <2>1. CASE Source!Next
      <3>1. text' = text /\ stateless' = Source!transformForAsyncExecution /\ repl' = Source!transformForRepl
        BY <2>1 DEF Source!Next, Source!Transform
      <3>2. /\ Source!transformForAsyncExecution' = Source!transformForAsyncExecution
            /\ Source!transformForRepl' = Source!transformForRepl
        BY <3>1 DEF Source!transformForAsyncExecution, Source!transformForRepl,
           Source!tryParseJavaScript, Source!hasTopLevelReturn, Source!hasTopLevelAwait,
           Source!Hoisted, Source!Last, Source!Reaches, Source!Paths
      <3> QED
        BY <3>1, <3>2 DEF SourceInv
    <2>2. CASE UNCHANGED Source!vars
      <3>1. text' = text /\ stateless' = stateless /\ repl' = repl
        BY <2>2 DEF Source!vars
      <3>2. /\ Source!transformForAsyncExecution' = Source!transformForAsyncExecution
            /\ Source!transformForRepl' = Source!transformForRepl
        BY <3>1 DEF Source!transformForAsyncExecution, Source!transformForRepl,
           Source!tryParseJavaScript, Source!hasTopLevelReturn, Source!hasTopLevelAwait,
           Source!Hoisted, Source!Last, Source!Reaches, Source!Paths
      <3> QED
        BY <3>1, <3>2 DEF SourceInv
    <2> QED
      BY <2>1, <2>2
  <1> QED
    BY <1>1, <1>2, TransformedIsSound, PTL DEF Source!Spec

================================================================================
