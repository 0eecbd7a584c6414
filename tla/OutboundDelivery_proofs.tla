------------------------ MODULE OutboundDelivery_proofs ------------------------
(***************************************************************************)
(* Proofs about the delivery of one session, for any set of rows, any      *)
(* number of attempts and faults.  The argument has three layers: the guard *)
(* keeps one drain alive at most; the row that drain works on is one row,   *)
(* unrecorded; so every counter can be compared with that single row.       *)
(***************************************************************************)
EXTENDS OutboundDelivery, FiniteSetTheorems, WellFoundedInduction, TLAPS

(* The drain of a poll never starves for a first row: among finitely many
   stamped rows, or any, one is the oldest.                                 *)
LEMMA OldestIsOneOf ==
  ASSUME stamp \in [Msg -> Nat], NEW rest \in SUBSET Msg, rest # {}
  PROVE  Oldest(rest) \in rest /\ \A n \in rest : stamp[Oldest(rest)] <= stamp[n]
<1> DEFINE R == {pair \in Nat \X Nat : pair[1] < pair[2]}
           T == {stamp[m] : m \in rest}
<1>1. IsWellFoundedOn(R, Nat)
  BY NatLessThanWellFounded, Zenon DEF OpToRel
<1>2. T \subseteq Nat /\ T # {}
  OBVIOUS
<1>3. PICK x \in T : \A y \in T : ~ (<<y, x>> \in R)
  <2> HIDE DEF R, T
  <2> QED
    BY <1>1, <1>2, WFMin
<1>4. \A y \in T : x <= y
  <2> TAKE y \in T
  <2>1. x \in Nat /\ y \in Nat
    BY <1>2, <1>3
  <2>2. ~ (y < x)
    BY <2>1, <1>3
  <2> QED
    BY <2>1, <2>2
<1>5. PICK w \in rest : \A n \in rest : stamp[w] <= stamp[n]
  BY <1>4
<1> QED
  BY <1>5 DEF Oldest

(* A row written later does not change which of the earlier ones is oldest. *)
LEMMA OldestStays ==
  ASSUME NEW rest, \A m \in rest : stamp'[m] = stamp[m]
  PROVE  Oldest(rest)' = Oldest(rest)
BY Zenon DEF Oldest

-----------------------------------------------------------------------------
LEMMA DrainRecords ==
  /\ NoDrain \in Drain
  /\ \A rest \in SUBSET Msg : [pc |-> "sending", todo |-> rest] \in Drain
BY DEF NoDrain, Drain

LEMMA BumpTyped ==
  ASSUME NEW f \in [Msg -> Nat], NEW m
  PROVE  Bump(f, m) \in [Msg -> Nat]
<1>1. Bump(f, m) = [x \in Msg |-> IF x = m THEN f[m] + 1 ELSE f[x]]
  BY DEF Bump
<1>2. \A x \in Msg : (IF x = m THEN f[m] + 1 ELSE f[x]) \in Nat
  OBVIOUS
<1> QED
  BY <1>1, <1>2

LEMMA GoOnTyped ==
  ASSUME DeliveryTypeOK, NEW p \in Poller, NEW rest \in SUBSET Msg, GoOn(p, rest)
  PROVE  /\ drain' \in [Poller -> Drain] /\ inflight' \in BOOLEAN
         /\ question' \subseteq Card /\ sends' \in [Msg -> Nat]
<1>1. sends \in [Msg -> Nat] /\ drain \in [Poller -> Drain] /\ inflight \in BOOLEAN
      /\ question \subseteq Card
  BY DEF DeliveryTypeOK
<1>2. Bump(sends, Oldest(rest)) \in [Msg -> Nat]
  BY <1>1, BumpTyped
<1>3. CASE rest = {}
  BY <1>1, <1>3, DrainRecords DEF GoOn
<1>4. CASE rest # {}
  BY <1>1, <1>2, <1>4, DrainRecords DEF GoOn
<1> QED
  BY <1>3, <1>4

LEMMA RecordTyped ==
  ASSUME DeliveryTypeOK, NEW m, NEW outcome \in {"delivered", "failed"}, Record(m, outcome)
  PROVE  verdict' \in [Msg -> {"none", "delivered", "failed"}]
BY DEF DeliveryTypeOK, Record

LEMMA StampsNat == DeliveryTypeOK => stamp \in [Msg -> Nat]
<1>1. Cardinality(Msg) \in Nat
  BY FS_CardinalityType, RowsAssumption
<1> QED
  BY <1>1 DEF DeliveryTypeOK

(* There is room for one more stamp while a row is unwritten. *)
LEMMA StampFits ==
  ASSUME DeliveryTypeOK, NEW m \in Msg, stamp[m] = 0
  PROVE  Cardinality(Written) + 1 \in 1..Cardinality(Msg)
<1>1. Written \in SUBSET Msg /\ m \notin Written
  BY DEF Written
<1>2. IsFiniteSet(Written) /\ Cardinality(Written) \in Nat
  BY <1>1, FS_Subset, FS_CardinalityType, RowsAssumption
<1>3. Cardinality(Written \cup {m}) = Cardinality(Written) + 1
  BY <1>1, <1>2, FS_AddElement
<1>4. Written \cup {m} \in SUBSET Msg
  BY <1>1
<1>5. Cardinality(Written \cup {m}) <= Cardinality(Msg)
  BY <1>4, FS_Subset, RowsAssumption
<1>6. Cardinality(Msg) \in Nat
  BY FS_CardinalityType, RowsAssumption
<1> QED
  BY <1>2, <1>3, <1>5, <1>6

LEMMA TypeStep == DeliveryTypeOK /\ [DeliveryNext]_vars => DeliveryTypeOK'
<1> SUFFICES ASSUME DeliveryTypeOK, [DeliveryNext]_vars PROVE DeliveryTypeOK'
  OBVIOUS
<1> USE DEF tables, memory, history
<1>1. ASSUME NEW m \in Msg, Write(m) PROVE DeliveryTypeOK'
  <2>1. stamp' \in [Msg -> 0..Cardinality(Msg)]
    <3>1. Cardinality(Written) + 1 \in 0..Cardinality(Msg)
      BY <1>1, StampFits DEF Write
    <3> QED
      BY <1>1, <3>1 DEF Write, DeliveryTypeOK
  <2> QED
    BY <1>1, <2>1 DEF Write, DeliveryTypeOK
<1>2. ASSUME NEW m \in Msg, GateDenies(m) PROVE DeliveryTypeOK'
  BY <1>2 DEF GateDenies, DeliveryTypeOK
<1>3. ASSUME NEW m \in Msg, Click(m) PROVE DeliveryTypeOK'
  BY <1>3, BumpTyped DEF Click, DeliveryTypeOK
<1>4. CASE ContainerTurns
  BY <1>4 DEF ContainerTurns, DeliveryTypeOK
<1>5. ASSUME NEW p \in Poller, Poll(p) PROVE DeliveryTypeOK'
  <2>1. Undelivered \in SUBSET Msg
    BY DEF Undelivered, Written
  <2>2. drain' \in [Poller -> Drain]
    BY <1>5, <2>1, DrainRecords DEF Poll, DeliveryTypeOK
  <2> QED
    BY <1>5, <2>2, BumpTyped DEF Poll, DeliveryTypeOK
<1>6. ASSUME NEW p \in Poller, Arrives(p) PROVE DeliveryTypeOK'
  <2>1. drain' \in [Poller -> Drain]
    BY <1>6 DEF Arrives, DeliveryTypeOK, Drain
  <2> QED
    BY <1>6, <2>1, BumpTyped DEF Arrives, DeliveryTypeOK
<1>7. ASSUME NEW p \in Poller, Returns(p) PROVE DeliveryTypeOK'
  <2>1. drain[p].todo \ {Current(p)} \in SUBSET Msg
    BY DEF DeliveryTypeOK, Drain
  <2>2. /\ drain' \in [Poller -> Drain] /\ inflight' \in BOOLEAN
        /\ question' \subseteq Card /\ sends' \in [Msg -> Nat]
    BY <1>7, <2>1, GoOnTyped DEF Returns
  <2>3. verdict' \in [Msg -> {"none", "delivered", "failed"}]
    BY <1>7, RecordTyped DEF Returns
  <2>4. attempts' \in [Msg -> Nat]
    BY <1>7 DEF Returns, DeliveryTypeOK
  <2> QED
    BY <1>7, <2>2, <2>3, <2>4 DEF Returns, DeliveryTypeOK
<1>8. ASSUME NEW p \in Poller, Throws(p) PROVE DeliveryTypeOK'
  <2>1. drain[p].todo \ {Current(p)} \in SUBSET Msg
    BY DEF DeliveryTypeOK, Drain
  <2>2. /\ drain' \in [Poller -> Drain] /\ inflight' \in BOOLEAN
        /\ question' \subseteq Card /\ sends' \in [Msg -> Nat]
    BY <1>8, <2>1, GoOnTyped DEF Throws
  <2>3. verdict' \in [Msg -> {"none", "delivered", "failed"}]
    BY <1>8, RecordTyped DEF Throws, DeliveryTypeOK
  <2>4. attempts' \in [Msg -> Nat] /\ mishaps' \in [Msg -> Nat]
    BY <1>8, BumpTyped DEF Throws, Missed, DeliveryTypeOK
  <2> QED
    BY <1>8, <2>2, <2>3, <2>4 DEF Throws, DeliveryTypeOK
<1>9. ASSUME NEW p \in Poller, Aborts(p) PROVE DeliveryTypeOK'
  <2>1. /\ drain' \in [Poller -> Drain] /\ inflight' \in BOOLEAN
        /\ question' \subseteq Card /\ sends' \in [Msg -> Nat]
    BY <1>9, GoOnTyped DEF Aborts
  <2>2. attempts' \in [Msg -> Nat] /\ mishaps' \in [Msg -> Nat]
    BY <1>9, BumpTyped DEF Aborts, Missed, DeliveryTypeOK
  <2>3. faults' \in 0..MaxFaults
    BY <1>9, AttemptsAssumption DEF Aborts, Fault, DeliveryTypeOK
  <2> QED
    BY <1>9, <2>1, <2>2, <2>3 DEF Aborts, DeliveryTypeOK
<1>10. CASE HostDies
  <2>1. attempts' \in [Msg -> Nat] /\ mishaps' \in [Msg -> Nat]
    BY <1>10 DEF HostDies, NoneYet, DeliveryTypeOK
  <2>2. drain' \in [Poller -> Drain]
    BY <1>10, DrainRecords DEF HostDies
  <2>3. faults' \in 0..MaxFaults
    BY <1>10, AttemptsAssumption DEF HostDies, Fault, DeliveryTypeOK
  <2> QED
    BY <1>10, <2>1, <2>2, <2>3 DEF HostDies, DeliveryTypeOK
<1>11. CASE HostBoots
  BY <1>11 DEF HostBoots, DeliveryTypeOK
<1>12. CASE UNCHANGED vars
  BY <1>12 DEF vars, DeliveryTypeOK, Undelivered, Written
<1> QED
  BY <1>1, <1>2, <1>3, <1>4, <1>5, <1>6, <1>7, <1>8, <1>9, <1>10, <1>11, <1>12 DEF DeliveryNext

LEMMA TypeInit == DeliveryInit => DeliveryTypeOK
<1> SUFFICES ASSUME DeliveryInit PROVE DeliveryTypeOK
  OBVIOUS
<1>1. Cardinality(Msg) \in Nat
  BY FS_CardinalityType, RowsAssumption
<1>2. NoneYet \in [Msg -> Nat] /\ NoneYet \in [Msg -> 0..Cardinality(Msg)]
  BY <1>1 DEF NoneYet
<1>3. [p \in Poller |-> NoDrain] \in [Poller -> Drain]
  BY DrainRecords
<1>4. 0 \in 0..MaxFaults
  BY AttemptsAssumption
<1> QED
  BY <1>2, <1>3, <1>4 DEF DeliveryInit, DeliveryTypeOK

(* The host's tables and counters keep their types: stamps never run past the
   rows there are, faults stay within their bound.                          *)
THEOREM DeliveryTypeCorrect == DeliverySpec => []DeliveryTypeOK
BY TypeInit, TypeStep, PTL DEF DeliverySpec
-----------------------------------------------------------------------------
(* The row that is on its way now; Arriving are those among them that the
   channel has taken.                                                       *)
OnTheWay == {Current(p) : p \in {q \in Poller : drain[q].pc # "idle"}}

(* What inflightDeliveries is for: one drain at a time, and its rows are
   still without a verdict.                                                 *)
Guarded ==
  /\ \A p \in Poller : drain[p].pc # "idle" => inflight
  /\ \A p, q \in Poller : drain[p].pc # "idle" /\ drain[q].pc # "idle" => p = q
  /\ \A p \in Poller : drain[p].pc # "idle" =>
       drain[p].todo # {} /\ drain[p].todo \subseteq Undelivered

LEMMA OneOnTheWay ==
  ASSUME DeliveryTypeOK, Guarded, NEW p \in Poller, drain[p].pc # "idle"
  PROVE  /\ Current(p) \in drain[p].todo
         /\ Current(p) \in Msg /\ verdict[Current(p)] = "none"
         /\ OnTheWay = {Current(p)}
         /\ Arriving = (IF drain[p].pc = "arrived" THEN {Current(p)} ELSE {})
<1>1. stamp \in [Msg -> Nat] /\ drain[p].todo \in SUBSET Msg
  BY StampsNat DEF DeliveryTypeOK, Drain
<1>2. Current(p) \in drain[p].todo
  BY <1>1, OldestIsOneOf DEF Guarded, Current
<1>3. {q \in Poller : drain[q].pc # "idle"} = {p}
  BY DEF Guarded
<1>4. {q \in Poller : drain[q].pc = "arrived"} = (IF drain[p].pc = "arrived" THEN {p} ELSE {})
  BY DEF Guarded
<1> QED
  BY <1>1, <1>2, <1>3, <1>4 DEF Guarded, Undelivered, OnTheWay, Arriving

LEMMA NothingOnTheWay ==
  ASSUME Guarded, ~inflight
  PROVE  OnTheWay = {} /\ Arriving = {}
<1>1. {q \in Poller : drain[q].pc # "idle"} = {}
  BY DEF Guarded
<1>2. {q \in Poller : drain[q].pc = "arrived"} = {}
  BY DEF Guarded
<1> QED
  BY <1>1, <1>2 DEF OnTheWay, Arriving

(* The drain of p works on `rest` from here on, and on its oldest row. *)
Works(p, rest) ==
  drain' = [drain EXCEPT ![p] = [pc |-> "sending", todo |-> rest]]

LEMMA WorksOn ==
  ASSUME DeliveryTypeOK, NEW p \in Poller, NEW rest \in SUBSET Msg, rest # {},
         \A q \in Poller \ {p} : drain[q].pc = "idle",
         Works(p, rest), stamp' = stamp
  PROVE  /\ OnTheWay' = {Oldest(rest)} /\ Arriving' = {}
         /\ Oldest(rest) \in rest
         /\ \A q \in Poller : drain'[q].pc # "idle" => q = p /\ drain'[q].todo = rest
<1>1. drain' = [q \in Poller |-> IF q = p THEN [pc |-> "sending", todo |-> rest] ELSE drain[q]]
  BY DEF Works, DeliveryTypeOK
<1>2. drain'[p].pc = "sending" /\ drain'[p].todo = rest
      /\ \A q \in Poller \ {p} : drain'[q].pc = "idle"
  BY <1>1
<1>3. {q \in Poller : drain'[q].pc # "idle"} = {p}
  BY <1>2
<1>4. {q \in Poller : drain'[q].pc = "arrived"} = {}
  BY <1>2
<1>5. Current(p)' = Oldest(rest)
  <2>1. Oldest(rest)' = Oldest(rest)
    BY OldestStays
  <2> QED
    BY <1>2, <2>1 DEF Current
<1>6. Oldest(rest) \in rest
  BY StampsNat, OldestIsOneOf
<1> QED
  BY <1>2, <1>3, <1>4, <1>5, <1>6 DEF OnTheWay, Arriving

(* After the last row nothing is on its way. *)
LEMMA Rests ==
  ASSUME DeliveryTypeOK, NEW p \in Poller,
         \A q \in Poller \ {p} : drain[q].pc = "idle",
         drain' = [drain EXCEPT ![p] = NoDrain]
  PROVE  /\ OnTheWay' = {} /\ Arriving' = {}
         /\ \A q \in Poller : drain'[q].pc = "idle"
<1>1. drain' = [q \in Poller |-> IF q = p THEN NoDrain ELSE drain[q]]
  BY DEF DeliveryTypeOK
<1>2. \A q \in Poller : drain'[q].pc = "idle"
  BY <1>1 DEF NoDrain
<1>3. {q \in Poller : drain'[q].pc # "idle"} = {} /\ {q \in Poller : drain'[q].pc = "arrived"} = {}
  BY <1>2
<1> QED
  BY <1>2, <1>3 DEF OnTheWay, Arriving

(* What the next row of a drain, if there is one, changes. *)
Counted ==
  /\ Arriving' = {}
  /\ question' = question \cup (OnTheWay' \cap (Card \ Refused))
  /\ \A m \in Msg : sends'[m] = IF m \in OnTheWay' THEN sends[m] + 1 ELSE sends[m]

LEMMA GoesOn ==
  ASSUME DeliveryTypeOK, Guarded, NEW p \in Poller, drain[p].pc # "idle",
         NEW rest \in SUBSET drain[p].todo, GoOn(p, rest), stamp' = stamp
  PROVE  /\ Counted /\ OnTheWay' \subseteq rest
         /\ \A q \in Poller : drain'[q].pc # "idle" =>
              q = p /\ inflight' /\ drain'[q].todo = rest /\ rest # {}
<1>1. rest \in SUBSET Msg /\ sends \in [Msg -> Nat]
  BY DEF DeliveryTypeOK, Drain
<1>2. \A q \in Poller \ {p} : drain[q].pc = "idle"
  BY DEF Guarded
<1>3. CASE rest = {}
  <2>1. OnTheWay' = {} /\ Arriving' = {} /\ \A q \in Poller : drain'[q].pc = "idle"
    BY <1>2, <1>3, Rests DEF GoOn
  <2> QED
    BY <1>3, <2>1 DEF GoOn, Counted
<1>4. CASE rest # {}
  <2>1. Works(p, rest) /\ inflight' = inflight
    BY <1>4 DEF GoOn, Works
  <2>2. /\ OnTheWay' = {Oldest(rest)} /\ Arriving' = {}
        /\ Oldest(rest) \in rest
        /\ \A q \in Poller : drain'[q].pc # "idle" => q = p /\ drain'[q].todo = rest
    BY <1>1, <1>2, <1>4, <2>1, WorksOn
  <2>3. sends' = [sends EXCEPT ![Oldest(rest)] = sends[Oldest(rest)] + 1]
    BY <1>4 DEF GoOn, Bump
  <2>4. \A m \in Msg : sends'[m] = IF m \in OnTheWay' THEN sends[m] + 1 ELSE sends[m]
    BY <1>1, <2>2, <2>3
  <2>5. question' = question \cup (OnTheWay' \cap (Card \ Refused))
    BY <1>4, <2>2 DEF GoOn
  <2> QED
    BY <1>4, <2>1, <2>2, <2>4, <2>5 DEF Counted, Guarded
<1> QED
  BY <1>3, <1>4

LEMMA Starts ==
  ASSUME DeliveryTypeOK, Guarded, NEW p \in Poller, Poll(p)
  PROVE  /\ Counted /\ OnTheWay = {} /\ Arriving = {} /\ OnTheWay' \subseteq Undelivered
         /\ \A q \in Poller : drain'[q].pc # "idle" =>
              q = p /\ inflight' /\ drain'[q].todo = Undelivered /\ Undelivered # {}
<1>1. Undelivered \in SUBSET Msg /\ Undelivered # {} /\ stamp' = stamp /\ sends \in [Msg -> Nat]
  BY DEF Poll, Undelivered, Written, DeliveryTypeOK
<1>2. \A q \in Poller \ {p} : drain[q].pc = "idle"
  BY DEF Guarded, Poll
<1>3. OnTheWay = {} /\ Arriving = {}
  BY NothingOnTheWay DEF Poll
<1>4. Works(p, Undelivered)
  BY DEF Poll, Works
<1>5. /\ OnTheWay' = {Oldest(Undelivered)} /\ Arriving' = {}
      /\ Oldest(Undelivered) \in Undelivered
      /\ \A q \in Poller : drain'[q].pc # "idle" => q = p /\ drain'[q].todo = Undelivered
  BY <1>1, <1>2, <1>4, WorksOn
<1>6. sends' = [sends EXCEPT ![Oldest(Undelivered)] = sends[Oldest(Undelivered)] + 1]
  BY DEF Poll, Bump
<1>7. \A m \in Msg : sends'[m] = IF m \in OnTheWay' THEN sends[m] + 1 ELSE sends[m]
  BY <1>1, <1>5, <1>6
<1>8. question' = question \cup (OnTheWay' \cap (Card \ Refused))
  BY <1>5 DEF Poll
<1>9. inflight'
  BY DEF Poll
<1> QED
  BY <1>1, <1>3, <1>5, <1>7, <1>8, <1>9 DEF Counted

(* A step that leaves the drains alone, a new row included, leaves the row on
   its way alone.                                                           *)
LEMMA DrainsStay ==
  ASSUME DeliveryTypeOK, Guarded, drain' = drain, \A m \in Written : stamp'[m] = stamp[m]
  PROVE  OnTheWay' = OnTheWay /\ Arriving' = Arriving
<1>1. \A p \in Poller : drain[p].pc # "idle" => Current(p)' = Current(p)
  <2> SUFFICES ASSUME NEW p \in Poller, drain[p].pc # "idle"
               PROVE  Current(p)' = Current(p)
    OBVIOUS
  <2>1. \A m \in drain[p].todo : stamp'[m] = stamp[m]
    BY DEF Guarded, Undelivered
  <2>2. Oldest(drain[p].todo)' = Oldest(drain[p].todo)
    <3> DEFINE rest == drain[p].todo
    <3>1. rest' = rest
      OBVIOUS
    <3>2. \A m \in rest : stamp'[m] = stamp[m]
      BY <2>1
    <3> QED
      BY <3>1, <3>2, Zenon DEF Oldest
  <2> QED
    BY <2>2 DEF Current
<1> QED
  BY <1>1 DEF OnTheWay, Arriving

LEMMA GuardAfter ==
  ASSUME NEW p \in Poller, NEW rest, rest \subseteq Undelivered',
         \A q \in Poller : drain'[q].pc # "idle" =>
           q = p /\ inflight' /\ drain'[q].todo = rest /\ rest # {}
  PROVE  Guarded'
BY DEF Guarded

(* Giving a verdict to the row of p leaves the rest of its drain open. *)
LEMMA RestIsOpen ==
  ASSUME DeliveryTypeOK, Guarded, NEW p \in Poller, drain[p].pc # "idle",
         NEW rest, rest \subseteq drain[p].todo \ {Current(p)}, stamp' = stamp,
         \A m \in Msg \ {Current(p)} : verdict'[m] = verdict[m]
  PROVE  rest \subseteq Undelivered'
BY DEF Guarded, Undelivered, Written

LEMMA RecordOne ==
  ASSUME DeliveryTypeOK, NEW n \in Msg, verdict[n] = "none",
         NEW outcome \in {"delivered", "failed"}, Record(n, outcome)
  PROVE  /\ verdict'[n] = outcome
         /\ \A m \in Msg \ {n} : verdict'[m] = verdict[m]
BY DEF DeliveryTypeOK, Record

(* What each end of a row's turn does: it leaves the channel, at most one row
   gets a verdict, and the drain goes on without it.                        *)
Ended(p) ==
  /\ Counted /\ Guarded'
  /\ Current(p) \notin OnTheWay' /\ OnTheWay' \subseteq Undelivered'
  /\ stamp' = stamp
  /\ \A m \in Msg \ {Current(p)} : verdict'[m] = verdict[m]

LEMMA TurnEnds ==
  ASSUME DeliveryTypeOK, Guarded, NEW p \in Poller, Returns(p) \/ Throws(p) \/ Aborts(p)
  PROVE  drain[p].pc # "idle" /\ Ended(p)
<1>1. drain[p].pc # "idle" /\ stamp' = stamp
  BY DEF Returns, Throws, Aborts
<1>2. Current(p) \in Msg /\ verdict[Current(p)] = "none" /\ Current(p) \in drain[p].todo
  BY <1>1, OneOnTheWay
<1>3. \A m \in Msg \ {Current(p)} : verdict'[m] = verdict[m]
  <2>1. CASE Returns(p)
    BY <1>2, <2>1, RecordOne DEF Returns
  <2>2. CASE Throws(p)
    BY <1>2, <2>2, RecordOne DEF Throws
  <2>3. CASE Aborts(p)
    BY <2>3 DEF Aborts
  <2> QED
    BY <2>1, <2>2, <2>3
<1>4. PICK rest \in SUBSET drain[p].todo : Current(p) \notin rest /\ GoOn(p, rest)
  BY DEF Returns, Throws, Aborts
<1>5. /\ Counted /\ OnTheWay' \subseteq rest
      /\ \A q \in Poller : drain'[q].pc # "idle" =>
           q = p /\ inflight' /\ drain'[q].todo = rest /\ rest # {}
  BY <1>1, <1>4, GoesOn
<1>6. rest \subseteq Undelivered'
  <2>1. rest \subseteq drain[p].todo \ {Current(p)}
    BY <1>4
  <2> QED
    BY <1>1, <1>3, <2>1, RestIsOpen
<1>7. Guarded'
  BY <1>5, <1>6, GuardAfter
<1> QED
  BY <1>1, <1>3, <1>4, <1>5, <1>6, <1>7 DEF Ended

LEMMA GuardStep == DeliveryTypeOK /\ Guarded /\ [DeliveryNext]_vars => Guarded'
<1> SUFFICES ASSUME DeliveryTypeOK, Guarded, [DeliveryNext]_vars PROVE Guarded'
  OBVIOUS
<1> USE DEF tables, memory, history
<1>1. ASSUME NEW m \in Msg, Write(m) PROVE Guarded'
  <2>1. Undelivered \subseteq Undelivered'
    BY <1>1 DEF Write, Undelivered, Written, DeliveryTypeOK
  <2> QED
    BY <1>1, <2>1 DEF Write, Guarded
<1>2. ASSUME drain' = drain, inflight' = inflight, stamp' = stamp, verdict' = verdict
      PROVE  Guarded'
  BY <1>2 DEF Guarded, Undelivered, Written
<1>3. ASSUME NEW p \in Poller, Poll(p) PROVE Guarded'
  <2>1. Undelivered \subseteq Undelivered'
    BY <1>3 DEF Poll, Undelivered, Written
  <2>2. \A q \in Poller : drain'[q].pc # "idle" =>
          q = p /\ inflight' /\ drain'[q].todo = Undelivered /\ Undelivered # {}
    BY <1>3, Starts
  <2> QED
    BY <2>1, <2>2, GuardAfter
<1>4. ASSUME NEW p \in Poller, Arrives(p) PROVE Guarded'
  <2>1. drain' = [q \in Poller |-> IF q = p THEN [drain[p] EXCEPT !.pc = "arrived"] ELSE drain[q]]
    BY <1>4 DEF Arrives, DeliveryTypeOK
  <2>2. drain[p] \in [pc : {"idle", "sending", "arrived"}, todo : SUBSET Msg] /\ drain[p].pc = "sending"
    BY <1>4 DEF Arrives, DeliveryTypeOK, Drain
  <2>3. \A q \in Poller : drain'[q].todo = drain[q].todo /\ (drain'[q].pc # "idle" <=> drain[q].pc # "idle")
    BY <2>1, <2>2
  <2>4. Undelivered' = Undelivered /\ inflight' = inflight
    BY <1>4 DEF Arrives, Undelivered, Written
  <2> QED
    BY <2>3, <2>4 DEF Guarded
<1>5. ASSUME NEW p \in Poller, Returns(p) \/ Throws(p) \/ Aborts(p) PROVE Guarded'
  BY <1>5, TurnEnds DEF Ended
<1>6. CASE HostDies
  BY <1>6 DEF HostDies, NoDrain, Guarded
<1>7. ASSUME NEW m \in Msg, GateDenies(m) \/ Click(m) PROVE Guarded'
  BY <1>2, <1>7 DEF GateDenies, Click
<1>8. CASE ContainerTurns \/ HostBoots \/ UNCHANGED vars
  BY <1>2, <1>8 DEF ContainerTurns, HostBoots, vars
<1> QED
  BY <1>1, <1>3, <1>4, <1>5, <1>6, <1>7, <1>8 DEF DeliveryNext

LEMMA ArrivesMarks ==
  ASSUME DeliveryTypeOK, Guarded, NEW p \in Poller, Arrives(p)
  PROVE  OnTheWay' = OnTheWay /\ Arriving' = {Current(p)}
<1>1. drain' = [q \in Poller |-> IF q = p THEN [drain[p] EXCEPT !.pc = "arrived"] ELSE drain[q]]
  BY DEF Arrives, DeliveryTypeOK
<1>2. drain[p] \in [pc : {"idle", "sending", "arrived"}, todo : SUBSET Msg] /\ drain[p].pc = "sending"
  BY DEF Arrives, DeliveryTypeOK, Drain
<1>3. \A q \in Poller \ {p} : drain[q].pc = "idle"
  BY <1>2 DEF Guarded
<1>4. \A q \in Poller : drain'[q].todo = drain[q].todo /\ (drain'[q].pc # "idle" <=> drain[q].pc # "idle")
  BY <1>1, <1>2
<1>5. \A q \in Poller : Current(q)' = Current(q)
  BY <1>4 DEF Arrives, tables, Current, Oldest
<1>6. {q \in Poller : drain'[q].pc # "idle"} = {q \in Poller : drain[q].pc # "idle"}
  BY <1>4
<1>7. {q \in Poller : drain'[q].pc = "arrived"} = {p}
  BY <1>1, <1>2, <1>3
<1> QED
  BY <1>5, <1>6, <1>7 DEF OnTheWay, Arriving

LEMMA DeathForgets ==
  ASSUME HostDies
  PROVE  OnTheWay' = {} /\ Arriving' = {}
<1>1. \A q \in Poller : drain'[q].pc = "idle"
  BY DEF HostDies, NoDrain
<1>2. {q \in Poller : drain'[q].pc # "idle"} = {} /\ {q \in Poller : drain'[q].pc = "arrived"} = {}
  BY <1>1
<1> QED
  BY <1>2 DEF OnTheWay, Arriving

-----------------------------------------------------------------------------
(* An arrival is recorded, or about to be, or was missed. *)
Settled == {m \in Msg : verdict[m] = "delivered"} \cup Arriving
ArrivalsCounted ==
  \A m \in Msg : seen[m] <= mishaps[m] + (IF m \in Settled THEN 1 ELSE 0)
ArrivalsSeen == \A m \in Settled \ Unrouted : seen[m] > 0

(* The steps that touch neither what has arrived nor what is recorded. *)
LEMMA ArrivalsStay ==
  ASSUME DeliveryTypeOK, Guarded, ArrivalsCounted, ArrivalsSeen, drain' = drain,
         \A m \in Written : stamp'[m] = stamp[m],
         verdict' = verdict, seen' = seen, mishaps' = mishaps
  PROVE  ArrivalsCounted' /\ ArrivalsSeen'
<1>1. Settled' = Settled
  BY DrainsStay DEF Settled
<1> QED
  BY <1>1 DEF ArrivalsCounted, ArrivalsSeen

LEMMA ArrivalsStep ==
  DeliveryTypeOK /\ Guarded /\ ArrivalsCounted /\ ArrivalsSeen /\ [DeliveryNext]_vars
    => ArrivalsCounted' /\ ArrivalsSeen'
<1> SUFFICES ASSUME DeliveryTypeOK, Guarded, ArrivalsCounted, ArrivalsSeen, [DeliveryNext]_vars
             PROVE  ArrivalsCounted' /\ ArrivalsSeen'
  OBVIOUS
<1> USE DEF tables, memory, history
<1>0. seen \in [Msg -> Nat] /\ mishaps \in [Msg -> Nat]
  BY DEF DeliveryTypeOK
<1>1. ASSUME NEW m \in Msg, Write(m) PROVE ArrivalsCounted' /\ ArrivalsSeen'
  <2>1. \A n \in Written : stamp'[n] = stamp[n]
    BY <1>1 DEF Write, Written, DeliveryTypeOK
  <2> QED
    BY <1>1, <2>1, ArrivalsStay DEF Write
<1>2. ASSUME NEW m \in Msg, GateDenies(m) \/ Click(m) PROVE ArrivalsCounted' /\ ArrivalsSeen'
  BY <1>2, ArrivalsStay DEF GateDenies, Click
<1>3. CASE ContainerTurns \/ HostBoots \/ UNCHANGED vars
  BY <1>3, ArrivalsStay DEF ContainerTurns, HostBoots, vars
<1>4. ASSUME NEW p \in Poller, Poll(p) PROVE ArrivalsCounted' /\ ArrivalsSeen'
  <2>1. Settled' = Settled
    BY <1>4, Starts DEF Poll, Settled, Counted
  <2> QED
    BY <1>4, <2>1 DEF Poll, ArrivalsCounted, ArrivalsSeen
<1>5. ASSUME NEW p \in Poller, Arrives(p) PROVE ArrivalsCounted' /\ ArrivalsSeen'
  <2>1. Current(p) \in Msg /\ verdict[Current(p)] = "none" /\ Arriving = {}
        /\ Current(p) \notin Unrouted
    BY <1>5, OneOnTheWay DEF Arrives
  <2>2. Arriving' = {Current(p)}
    BY <1>5, ArrivesMarks
  <2>3. seen' = [seen EXCEPT ![Current(p)] = seen[Current(p)] + 1] /\ mishaps' = mishaps
        /\ verdict' = verdict
    BY <1>5 DEF Arrives, Bump
  <2>4. Current(p) \notin Settled /\ Settled' = Settled \cup {Current(p)}
    BY <2>1, <2>2, <2>3 DEF Settled
  <2>5. seen'[Current(p)] = seen[Current(p)] + 1
        /\ \A m \in Msg \ {Current(p)} : seen'[m] = seen[m]
    BY <1>0, <2>1, <2>3
  <2>6. ArrivalsCounted'
    BY <1>0, <2>1, <2>3, <2>4, <2>5 DEF ArrivalsCounted
  <2>7. ArrivalsSeen'
    BY <1>0, <2>1, <2>4, <2>5 DEF ArrivalsSeen, Settled
  <2> QED
    BY <2>6, <2>7
<1>6. ASSUME NEW p \in Poller, Returns(p) PROVE ArrivalsCounted' /\ ArrivalsSeen'
  <2>1. drain[p].pc # "idle" /\ Ended(p)
    BY <1>6, TurnEnds
  <2>2. /\ Current(p) \in Msg /\ verdict[Current(p)] = "none"
        /\ Arriving = (IF drain[p].pc = "arrived" THEN {Current(p)} ELSE {})
    BY <2>1, OneOnTheWay
  <2>3. verdict'[Current(p)] = "delivered"
    BY <1>6, <2>2, RecordOne DEF Returns
  <2>4. Settled' = Settled \cup {Current(p)}
    BY <2>1, <2>2, <2>3 DEF Settled, Ended, Counted
  <2>5. Current(p) \in Settled \/ Current(p) \in Unrouted
    BY <1>6, <2>2 DEF Returns, Settled
  <2>6. seen' = seen /\ mishaps' = mishaps
    BY <1>6 DEF Returns
  <2>7. ArrivalsCounted'
    BY <1>0, <2>2, <2>4, <2>6 DEF ArrivalsCounted
  <2>8. ArrivalsSeen'
    BY <2>4, <2>5, <2>6 DEF ArrivalsSeen
  <2> QED
    BY <2>7, <2>8
<1>7. ASSUME NEW p \in Poller, Throws(p) \/ Aborts(p) PROVE ArrivalsCounted' /\ ArrivalsSeen'
  <2>1. drain[p].pc # "idle" /\ Ended(p)
    BY <1>7, TurnEnds
  <2>2. /\ Current(p) \in Msg /\ verdict[Current(p)] = "none"
        /\ Arriving = (IF drain[p].pc = "arrived" THEN {Current(p)} ELSE {})
    BY <2>1, OneOnTheWay
  <2>3. verdict'[Current(p)] # "delivered"
    BY <1>7, <2>2, RecordOne DEF Throws, Aborts
  <2>4. Settled' = Settled \ {Current(p)} /\ (Current(p) \in Settled <=> drain[p].pc = "arrived")
    BY <2>1, <2>2, <2>3 DEF Settled, Ended, Counted
  <2>5. seen' = seen /\ Missed(p)
    BY <1>7 DEF Throws, Aborts
  <2>6. ArrivalsCounted'
    BY <1>0, <2>2, <2>4, <2>5 DEF ArrivalsCounted, Missed, Bump
  <2>7. ArrivalsSeen'
    BY <2>4, <2>5 DEF ArrivalsSeen
  <2> QED
    BY <2>6, <2>7
<1>8. CASE HostDies
  <2>3. Arriving' = {}
    BY <1>8, DeathForgets
  <2>4. verdict' = verdict /\ seen' = seen
        /\ \A m \in Msg : mishaps'[m] = IF m \in Arriving THEN mishaps[m] + 1 ELSE mishaps[m]
    BY <1>8 DEF HostDies
  <2>5. ArrivalsCounted'
    BY <1>0, <2>3, <2>4 DEF ArrivalsCounted, Settled
  <2>6. ArrivalsSeen'
    BY <2>3, <2>4 DEF ArrivalsSeen, Settled
  <2> QED
    BY <2>5, <2>6
<1> QED
  BY <1>1, <1>2, <1>3, <1>4, <1>5, <1>6, <1>7, <1>8 DEF DeliveryNext
-----------------------------------------------------------------------------
(* A card on its way is on record already, so its arrival finds it there. *)
Asked ==
  \A c \in Card : /\ answers[c] = 0
                  /\ seen[c] > 0 \/ c \in OnTheWay \ Refused
                  => c \in question

LEMMA AskedStays ==
  ASSUME DeliveryTypeOK, Guarded, Asked, drain' = drain,
         \A m \in Written : stamp'[m] = stamp[m],
         question' = question, seen' = seen, answers' = answers
  PROVE  Asked'
<1>1. OnTheWay' = OnTheWay
  BY DrainsStay
<1> QED
  BY <1>1 DEF Asked

(* Cards leave the record only by a click, which is an answer. *)
LEMMA AskedStep == DeliveryTypeOK /\ Guarded /\ Asked /\ [DeliveryNext]_vars => Asked'
<1> SUFFICES ASSUME DeliveryTypeOK, Guarded, Asked, [DeliveryNext]_vars PROVE Asked'
  OBVIOUS
<1> USE DEF tables, memory, history
<1>0. seen \in [Msg -> Nat] /\ answers \in [Msg -> Nat] /\ Card \subseteq Msg
  BY DEF DeliveryTypeOK, Msg
<1>1. ASSUME NEW m \in Msg, Write(m) PROVE Asked'
  <2>1. \A n \in Written : stamp'[n] = stamp[n]
    BY <1>1 DEF Write, Written, DeliveryTypeOK
  <2> QED
    BY <1>1, <2>1, AskedStays DEF Write
<1>2. ASSUME NEW m \in Msg, GateDenies(m) PROVE Asked'
  BY <1>2, AskedStays DEF GateDenies
<1>3. CASE ContainerTurns \/ HostBoots \/ UNCHANGED vars
  BY <1>3, AskedStays DEF ContainerTurns, HostBoots, vars
<1>4. ASSUME NEW p \in Poller, Poll(p) PROVE Asked'
  <2>1. Counted
    BY <1>4, Starts
  <2> QED
    BY <1>4, <2>1 DEF Poll, Counted, Asked
<1>5. ASSUME NEW p \in Poller, Returns(p) \/ Throws(p) \/ Aborts(p) PROVE Asked'
  <2>1. Counted
    BY <1>5, TurnEnds DEF Ended
  <2>2. seen' = seen /\ answers' = answers
    BY <1>5 DEF Returns, Throws, Aborts
  <2> QED
    BY <2>1, <2>2 DEF Counted, Asked
<1>6. ASSUME NEW p \in Poller, Arrives(p) PROVE Asked'
  <2>1. OnTheWay = {Current(p)} /\ Current(p) \in Msg /\ Current(p) \notin Refused
    BY <1>6, OneOnTheWay DEF Arrives
  <2>2. OnTheWay' = OnTheWay
    BY <1>6, ArrivesMarks
  <2>3. \A m \in Msg \ {Current(p)} : seen'[m] = seen[m]
    BY <1>0, <1>6 DEF Arrives, Bump
  <2>4. question' = question /\ answers' = answers
    BY <1>6 DEF Arrives
  <2> QED
    BY <1>0, <2>1, <2>2, <2>3, <2>4 DEF Asked
<1>7. ASSUME NEW m \in Msg, Click(m) PROVE Asked'
  <2>1. OnTheWay' = OnTheWay
    BY <1>7, DrainsStay DEF Click
  <2>2. answers' = [answers EXCEPT ![m] = answers[m] + 1] /\ question' = question \ {m} /\ seen' = seen
    BY <1>7 DEF Click, Bump
  <2>3. answers'[m] # 0 /\ \A n \in Msg \ {m} : answers'[n] = answers[n]
    BY <1>0, <2>2
  <2> QED
    BY <1>0, <2>1, <2>2, <2>3 DEF Asked
<1>8. CASE HostDies
  <2>3. OnTheWay' = {}
    BY <1>8, DeathForgets
  <2> QED
    BY <1>8, <2>3 DEF HostDies, Asked
<1> QED
  BY <1>1, <1>2, <1>3, <1>4, <1>5, <1>6, <1>7, <1>8 DEF DeliveryNext
-----------------------------------------------------------------------------
(* What the calls made for a row are charged to: the attempts counted since
   the host came up, the call under way, and, per fault, MAX_DELIVERY_ATTEMPTS
   calls at most that a crash or an abandoned drain made the host forget.     *)
UnderWay(m) == IF m \in OnTheWay THEN 1 ELSE 0
Owed(m) == IF attempts[m] < MaxAttempts THEN attempts[m] ELSE 0
Forgotten == MaxAttempts * faults

AttemptsCharged == \A m \in Msg : attempts[m] + UnderWay(m) <= sends[m]
CallsCharged ==
  \A m \in Msg :
    /\ verdict[m] = "none" => sends[m] <= Forgotten + Owed(m) + UnderWay(m)
    /\ sends[m] <= Forgotten + MaxAttempts

LEMMA ForgottenGrows ==
  DeliveryTypeOK => /\ Forgotten \in Nat
                    /\ MaxAttempts * (faults + 1) = Forgotten + MaxAttempts
                    /\ MaxAttempts * (1 + faults) = Forgotten + MaxAttempts
BY AttemptsAssumption DEF DeliveryTypeOK, Forgotten

LEMMA CallsStay ==
  ASSUME DeliveryTypeOK, Guarded, AttemptsCharged, FailedSpentAttempts, CallsCharged,
         drain' = drain, \A m \in Written : stamp'[m] = stamp[m],
         verdict' = verdict, attempts' = attempts, sends' = sends, faults' = faults
  PROVE  AttemptsCharged' /\ FailedSpentAttempts' /\ CallsCharged'
<1>1. \A m \in Msg : UnderWay(m)' = UnderWay(m) /\ Owed(m)' = Owed(m) /\ Forgotten' = Forgotten
  BY DrainsStay DEF UnderWay, Owed, Forgotten
<1> QED
  BY <1>1 DEF AttemptsCharged, FailedSpentAttempts, CallsCharged

LEMMA CallsStep ==
  DeliveryTypeOK /\ Guarded /\ AttemptsCharged /\ FailedSpentAttempts /\ CallsCharged
    /\ [DeliveryNext]_vars
    => AttemptsCharged' /\ FailedSpentAttempts' /\ CallsCharged'
<1> DEFINE Calls == AttemptsCharged /\ FailedSpentAttempts /\ CallsCharged
<1> SUFFICES ASSUME DeliveryTypeOK, Guarded, Calls, [DeliveryNext]_vars PROVE Calls'
  OBVIOUS
<1> USE DEF tables, memory, history
<1>0. /\ sends \in [Msg -> Nat] /\ attempts \in [Msg -> Nat] /\ Forgotten \in Nat
      /\ MaxAttempts \in Nat /\ MaxAttempts > 0
      /\ verdict \in [Msg -> {"none", "delivered", "failed"}]
  BY ForgottenGrows, AttemptsAssumption DEF DeliveryTypeOK
<1>1. ASSUME NEW m \in Msg, Write(m) PROVE Calls'
  <2>1. \A n \in Written : stamp'[n] = stamp[n]
    BY <1>1 DEF Write, Written, DeliveryTypeOK
  <2> QED
    BY <1>1, <2>1, CallsStay DEF Write
<1>2. ASSUME NEW m \in Msg, GateDenies(m) \/ Click(m) PROVE Calls'
  BY <1>2, CallsStay DEF GateDenies, Click
<1>3. CASE ContainerTurns \/ HostBoots \/ UNCHANGED vars
  BY <1>3, CallsStay DEF ContainerTurns, HostBoots, vars
<1>4. ASSUME NEW p \in Poller, Arrives(p) PROVE Calls'
  <2>1. OnTheWay' = OnTheWay
    BY <1>4, ArrivesMarks
  <2> QED
    BY <1>4, <2>1
       DEF Arrives, AttemptsCharged, FailedSpentAttempts, CallsCharged, UnderWay, Owed, Forgotten
<1>5. ASSUME NEW p \in Poller, Poll(p) PROVE Calls'
  <2>1. Counted /\ OnTheWay = {} /\ OnTheWay' \subseteq Undelivered
    BY <1>5, Starts
  <2>2. verdict' = verdict /\ attempts' = attempts /\ Forgotten' = Forgotten
    BY <1>5 DEF Poll, Forgotten
  <2>3. \A m \in Msg : Owed(m)' = Owed(m) /\ Owed(m) \in Nat /\ Owed(m) < MaxAttempts
    BY <1>0, <2>2 DEF Owed
  <2>4. \A m \in Msg : /\ UnderWay(m) = 0 /\ UnderWay(m)' \in {0, 1}
                       /\ sends'[m] = sends[m] + UnderWay(m)'
                       /\ UnderWay(m)' = 1 => verdict[m] = "none"
    BY <1>0, <2>1 DEF Counted, UnderWay, Undelivered
  <2> HIDE DEF UnderWay, Owed, Forgotten
  <2>5. AttemptsCharged'
    BY <1>0, <2>2, <2>4 DEF AttemptsCharged
  <2>6. FailedSpentAttempts'
    BY <1>0, <2>2, <2>4 DEF FailedSpentAttempts
  <2>7. CallsCharged'
    BY <1>0, <2>2, <2>3, <2>4 DEF CallsCharged
  <2> QED
    BY <2>5, <2>6, <2>7
<1>6. ASSUME NEW p \in Poller, Returns(p) \/ Throws(p) \/ Aborts(p) PROVE Calls'
  <2>1. drain[p].pc # "idle" /\ Ended(p)
    BY <1>6, TurnEnds
  <2>2. PICK n \in Msg : n = Current(p) /\ verdict[n] = "none" /\ OnTheWay = {n}
    BY <2>1, OneOnTheWay
  <2>3. /\ UnderWay(n) = 1 /\ UnderWay(n)' = 0
        /\ \A m \in Msg \ {n} : /\ UnderWay(m) = 0 /\ UnderWay(m)' \in {0, 1}
                                /\ UnderWay(m)' = 1 => verdict[m] = "none"
    BY <2>1, <2>2 DEF Ended, UnderWay, Undelivered, Written
  <2>4. \A m \in Msg : sends'[m] = sends[m] + UnderWay(m)'
    BY <1>0, <2>1 DEF Ended, Counted, UnderWay
  <2>5. \A m \in Msg \ {n} : attempts'[m] = attempts[m] /\ verdict'[m] = verdict[m]
    BY <1>0, <1>6, <2>1, <2>2 DEF Returns, Throws, Aborts, Ended, Bump
  <2>6. \/ attempts'[n] = 0 /\ verdict'[n] = "delivered" /\ faults' = faults
        \/ attempts'[n] = 0 /\ verdict'[n] = "failed" /\ faults' = faults
           /\ attempts[n] + 1 >= MaxAttempts
        \/ attempts'[n] = attempts[n] + 1 /\ verdict'[n] = "none" /\ faults' = faults
           /\ attempts[n] + 1 < MaxAttempts
        \/ attempts'[n] = attempts[n] + 1 /\ verdict'[n] = "none" /\ faults' = faults + 1
           /\ attempts[n] + 1 >= MaxAttempts
    <3>1. CASE Returns(p)
      BY <1>0, <2>2, <3>1, RecordOne DEF Returns
    <3>2. CASE Throws(p) /\ Spent(n)
      BY <1>0, <2>2, <3>2, RecordOne DEF Throws, Spent
    <3>3. CASE Throws(p) /\ ~Spent(n)
      BY <1>0, <2>2, <3>3 DEF Throws, Spent, Bump
    <3>4. CASE Aborts(p)
      BY <1>0, <2>2, <3>4 DEF Aborts, Spent, Bump, Fault
    <3> QED
      BY <1>6, <3>1, <3>2, <3>3, <3>4
  <2>7. (faults' = faults /\ Forgotten' = Forgotten)
        \/ (faults' = faults + 1 /\ Forgotten' = Forgotten + MaxAttempts)
    BY <2>6, ForgottenGrows DEF Forgotten
  <2>8. /\ \A m \in Msg : Owed(m) \in Nat /\ Owed(m) < MaxAttempts
        /\ \A m \in Msg \ {n} : Owed(m)' = Owed(m)
        /\ Owed(n) = IF attempts[n] < MaxAttempts THEN attempts[n] ELSE 0
        /\ Owed(n)' = IF attempts'[n] < MaxAttempts THEN attempts'[n] ELSE 0
    BY <1>0, <2>5 DEF Owed
  <2> HIDE DEF UnderWay, Owed, Forgotten
  <2>9. AttemptsCharged'
    BY <1>0, <2>2, <2>3, <2>4, <2>5, <2>6 DEF AttemptsCharged
  <2>10. FailedSpentAttempts'
    <3>1. attempts[n] + 1 <= sends[n]
      BY <2>2, <2>3 DEF AttemptsCharged
    <3>2. \A m \in Msg : sends[m] <= sends'[m]
      BY <1>0, <2>3, <2>4
    <3> QED
      BY <1>0, <2>2, <2>5, <2>6, <2>4, <2>3, <3>1, <3>2 DEF FailedSpentAttempts
  <2>11. CallsCharged'
    <3> SUFFICES ASSUME NEW m \in Msg
                 PROVE  /\ verdict'[m] = "none" => sends'[m] <= Forgotten' + Owed(m)' + UnderWay(m)'
                        /\ sends'[m] <= Forgotten' + MaxAttempts
      BY DEF CallsCharged
    <3>1. CASE m # n
      BY <1>0, <2>3, <2>4, <2>5, <2>7, <2>8, <3>1 DEF CallsCharged
    <3>2. CASE m = n
      <4>1. sends[n] <= Forgotten + Owed(n) + 1 /\ sends'[n] = sends[n]
        BY <1>0, <2>2, <2>3, <2>4 DEF CallsCharged
      <4>2. sends'[n] \in Nat /\ sends'[n] <= Forgotten + MaxAttempts
        BY <1>0, <2>2, <2>8, <4>1
      <4>3. sends'[n] <= Forgotten' + MaxAttempts
        BY <1>0, <2>7, <4>2
      <4>4. CASE verdict'[n] # "none"
        BY <3>2, <4>3, <4>4
      <4>5. CASE attempts'[n] = attempts[n] + 1 /\ faults' = faults /\ attempts[n] + 1 < MaxAttempts
        <5>1. Owed(n) = attempts[n] /\ Owed(n)' = attempts[n] + 1
          BY <1>0, <2>8, <4>5
        <5>2. Forgotten' = Forgotten
          BY <2>7, <4>5 DEF DeliveryTypeOK
        <5>3. sends'[n] <= Forgotten' + Owed(n)' + 0
          BY <1>0, <4>1, <5>1, <5>2
        <5> QED
          BY <2>3, <3>2, <4>3, <5>3
      <4>6. CASE faults' = faults + 1
        <5>1. Forgotten' = Forgotten + MaxAttempts
          BY <2>7, <4>6 DEF DeliveryTypeOK
        <5>2. Owed(n)' \in Nat
          BY <1>0, <2>5, <2>6, <2>8
        <5>3. sends'[n] <= Forgotten' + Owed(n)' + 0
          BY <1>0, <4>2, <5>1, <5>2
        <5> QED
          BY <2>3, <3>2, <4>3, <5>3
      <4> QED
        BY <2>6, <4>4, <4>5, <4>6
    <3> QED
      BY <3>1, <3>2
  <2> QED
    BY <2>9, <2>10, <2>11
<1>7. CASE HostDies
  <2>1. \A m \in Msg : UnderWay(m)' = 0 /\ UnderWay(m) \in {0, 1}
    BY <1>7, DeathForgets DEF UnderWay
  <2>2. \A m \in Msg : attempts'[m] = 0 /\ sends'[m] = sends[m] /\ verdict'[m] = verdict[m]
    BY <1>7 DEF HostDies, NoneYet
  <2>3. Forgotten' = Forgotten + MaxAttempts
    BY <1>7, ForgottenGrows DEF HostDies, Fault, Forgotten
  <2>4. \A m \in Msg : Owed(m) \in Nat /\ Owed(m) < MaxAttempts /\ Owed(m)' = 0
    BY <1>0, <2>2 DEF Owed
  <2> HIDE DEF UnderWay, Owed, Forgotten
  <2>5. AttemptsCharged'
    BY <1>0, <2>1, <2>2 DEF AttemptsCharged
  <2>6. FailedSpentAttempts'
    BY <1>0, <2>2 DEF FailedSpentAttempts
  <2>7. CallsCharged'
    BY <1>0, <2>1, <2>2, <2>3, <2>4 DEF CallsCharged
  <2> QED
    BY <2>5, <2>6, <2>7
<1> QED
  BY <1>1, <1>2, <1>3, <1>4, <1>5, <1>6, <1>7 DEF DeliveryNext
-----------------------------------------------------------------------------
DeliveryInv ==
  /\ DeliveryTypeOK /\ Guarded
  /\ ArrivalsCounted /\ ArrivalsSeen
  /\ Asked
  /\ AttemptsCharged /\ FailedSpentAttempts /\ CallsCharged

LEMMA DeliveryInvInit == DeliveryInit => DeliveryInv
<1> SUFFICES ASSUME DeliveryInit PROVE DeliveryInv
  OBVIOUS
<1>1. DeliveryTypeOK
  BY TypeInit
<1>2. Guarded
  BY DEF DeliveryInit, NoDrain, Guarded
<1>3. OnTheWay = {} /\ Arriving = {}
  BY <1>2, NothingOnTheWay DEF DeliveryInit
<1>4. \A m \in Msg : seen[m] = 0 /\ mishaps[m] = 0 /\ sends[m] = 0 /\ attempts[m] = 0
                     /\ verdict[m] = "none"
  BY DEF DeliveryInit, NoneYet
<1>5. ArrivalsCounted /\ ArrivalsSeen
  BY <1>3, <1>4 DEF ArrivalsCounted, ArrivalsSeen, Settled
<1>6. Asked
  BY <1>3, <1>4 DEF Asked, Msg
<1>7. AttemptsCharged
  BY <1>3, <1>4 DEF AttemptsCharged, UnderWay
<1>8. FailedSpentAttempts
  BY <1>4 DEF FailedSpentAttempts
<1>9. CallsCharged
  <2>1. Forgotten \in Nat /\ MaxAttempts \in Nat /\ MaxAttempts > 0
    BY <1>1, ForgottenGrows, AttemptsAssumption
  <2>2. \A m \in Msg : UnderWay(m) = 0 /\ Owed(m) = 0
    BY <1>3, <1>4, <2>1 DEF UnderWay, Owed
  <2> HIDE DEF Forgotten
  <2> QED
    BY <1>4, <2>1, <2>2 DEF CallsCharged
<1> QED
  BY <1>1, <1>2, <1>5, <1>6, <1>7, <1>8, <1>9 DEF DeliveryInv

LEMMA DeliveryInvHolds == DeliverySpec => []DeliveryInv
<1>1. DeliveryInv /\ [DeliveryNext]_vars => DeliveryInv'
  BY TypeStep, GuardStep, ArrivalsStep, AskedStep, CallsStep DEF DeliveryInv
<1> QED
  BY <1>1, DeliveryInvInit, PTL DEF DeliverySpec

(* The two poll loops never make a duplicate: with the guard one drain is
   alive, and the row it sends has no verdict, so whatever the row has been
   seen before was a missed arrival.                                        *)
THEOREM DuplicatesExplainedHolds == DeliverySpec => []DuplicatesExplained
<1>1. DeliveryInv => DuplicatesExplained
  BY DEF DeliveryInv, DeliveryTypeOK, ArrivalsCounted, DuplicatesExplained
<1> QED
  BY <1>1, DeliveryInvHolds, PTL

(* What is recorded as delivered has arrived, but for unrouted rows. *)
THEOREM DeliveredWasSeenHolds == DeliverySpec => []DeliveredWasSeen
<1>1. DeliveryInv => DeliveredWasSeen
  BY DEF DeliveryInv, ArrivalsSeen, Settled, DeliveredWasSeen
<1> QED
  BY <1>1, DeliveryInvHolds, PTL

(* The question of a card is stored before the card is sent and leaves the
   table only with an answer.                                               *)
THEOREM CardAnswerableHolds == DeliverySpec => []CardAnswerable
<1>1. DeliveryInv => CardAnswerable
  BY DEF DeliveryInv, Asked, CardAnswerable
<1> QED
  BY <1>1, DeliveryInvHolds, PTL

(* Attempts counted in memory are calls made, so no row is given up early. *)
THEOREM FailedSpentAttemptsHolds == DeliverySpec => []FailedSpentAttempts
<1>1. DeliveryInv => FailedSpentAttempts
  BY DEF DeliveryInv
<1> QED
  BY <1>1, DeliveryInvHolds, PTL

(* Each fault forgives MAX_DELIVERY_ATTEMPTS calls at most. *)
THEOREM RetriesBoundedHolds == DeliverySpec => []RetriesBounded
<1>1. DeliveryInv => RetriesBounded
  BY ForgottenGrows DEF DeliveryInv, CallsCharged, RetriesBounded
<1> QED
  BY <1>1, DeliveryInvHolds, PTL
-----------------------------------------------------------------------------
(* The order of arrivals. Stamps grow with the rows, so a row written while a
   drain is under way is younger than all it has left; what is older and open,
   and not among them, is what this drain has already tried.                  *)
StampsGrow == \A m \in Msg : stamp[m] <= Cardinality(Written)
OlderTried ==
  \A p \in Poller : drain[p].pc # "idle" =>
    \A m \in drain[p].todo, n \in Undelivered \ drain[p].todo :
      stamp[n] < stamp[m] => sends[n] > 0

LEMMA StampsGrowStep == DeliveryTypeOK /\ StampsGrow /\ [DeliveryNext]_vars => StampsGrow'
<1> SUFFICES ASSUME DeliveryTypeOK, StampsGrow, [DeliveryNext]_vars PROVE StampsGrow'
  OBVIOUS
<1> USE DEF tables
<1>1. ASSUME NEW m \in Msg, Write(m) PROVE StampsGrow'
  <2>1. IsFiniteSet(Written) /\ m \notin Written /\ stamp \in [Msg -> Nat]
    BY <1>1, StampsNat, FS_Subset, RowsAssumption DEF Write, Written
  <2>2. Cardinality(Written) \in Nat /\ Cardinality(Written \cup {m}) = Cardinality(Written) + 1
    BY <2>1, FS_CardinalityType, FS_AddElement
  <2>3. Written' = Written \cup {m}
    BY <1>1, <2>1, <2>2 DEF Write, Written
  <2> QED
    BY <1>1, <2>1, <2>2, <2>3 DEF Write, StampsGrow
<1>2. ASSUME stamp' = stamp PROVE StampsGrow'
  BY <1>2 DEF StampsGrow, Written
<1> QED
  BY <1>1, <1>2 DEF DeliveryNext, GateDenies, Click, ContainerTurns, Poll, Arrives, Returns, Throws,
                    Aborts, HostDies, HostBoots, vars

(* A drain that goes on has its current row behind it, and that one only. *)
LEMMA GoesOnWithout ==
  ASSUME DeliveryTypeOK, Guarded, NEW p \in Poller, Returns(p) \/ Throws(p) \/ Aborts(p)
  PROVE  \A q \in Poller : drain'[q].pc # "idle" =>
           q = p /\ drain'[q].todo = drain[p].todo \ {Current(p)}
<1>1. drain[p].pc # "idle" /\ stamp' = stamp
  BY DEF Returns, Throws, Aborts
<1>2. PICK rest \in {{}, drain[p].todo \ {Current(p)}} : GoOn(p, rest)
  BY DEF Returns, Throws, Aborts
<1> QED
  BY <1>1, <1>2, GoesOn

LEMMA OlderTriedStep ==
  DeliveryTypeOK /\ Guarded /\ AttemptsCharged /\ StampsGrow /\ OlderTried /\ [DeliveryNext]_vars
    => OlderTried'
<1> SUFFICES ASSUME DeliveryTypeOK, Guarded, AttemptsCharged, StampsGrow, OlderTried,
                    [DeliveryNext]_vars
             PROVE  OlderTried'
  OBVIOUS
<1> USE DEF tables, memory, history
<1>0. /\ sends \in [Msg -> Nat] /\ attempts \in [Msg -> Nat] /\ stamp \in [Msg -> Nat]
      /\ Cardinality(Written) \in Nat
  <2>1. IsFiniteSet(Written)
    BY FS_Subset, RowsAssumption DEF Written
  <2> QED
    BY <2>1, StampsNat, FS_CardinalityType DEF DeliveryTypeOK
<1>1. ASSUME NEW m \in Msg, Write(m) PROVE OlderTried'
  <2>1. /\ stamp'[m] = Cardinality(Written) + 1 /\ stamp[m] = 0
        /\ \A n \in Msg \ {m} : stamp'[n] = stamp[n]
        /\ drain' = drain /\ sends' = sends /\ verdict' = verdict
    BY <1>0, <1>1 DEF Write
  <2>2. \A n \in Msg : stamp[n] <= Cardinality(Written)
    BY DEF StampsGrow
  <2>3. \A p \in Poller : drain[p].pc # "idle" => \A n \in drain[p].todo : n # m /\ n \in Msg
    BY <2>1 DEF Guarded, Undelivered, Written
  <2> SUFFICES ASSUME NEW p \in Poller, drain[p].pc # "idle", NEW x \in drain[p].todo,
                      NEW n \in Undelivered' \ drain[p].todo, stamp'[n] < stamp'[x]
               PROVE  sends[n] > 0
    BY <2>1 DEF OlderTried
  <2>4. n # m
    BY <1>0, <2>1, <2>2, <2>3
  <2>5. n \in Undelivered /\ stamp[n] < stamp[x]
    BY <2>1, <2>3, <2>4 DEF Undelivered, Written
  <2> QED
    BY <2>5 DEF OlderTried
<1>2. ASSUME drain' = drain, sends' = sends, stamp' = stamp, verdict' = verdict
      PROVE  OlderTried'
  BY <1>2 DEF OlderTried, Undelivered, Written
<1>3. ASSUME NEW p \in Poller, Poll(p) PROVE OlderTried'
  <2>1. Undelivered' = Undelivered
    BY <1>3 DEF Poll, Undelivered, Written
  <2>2. \A q \in Poller : drain'[q].pc # "idle" => drain'[q].todo = Undelivered
    BY <1>3, Starts
  <2> QED
    BY <2>1, <2>2 DEF OlderTried
<1>4. ASSUME NEW p \in Poller, Arrives(p) PROVE OlderTried'
  <2>1. drain' = [q \in Poller |-> IF q = p THEN [drain[p] EXCEPT !.pc = "arrived"] ELSE drain[q]]
    BY <1>4 DEF Arrives, DeliveryTypeOK
  <2>2. drain[p] \in [pc : {"idle", "sending", "arrived"}, todo : SUBSET Msg] /\ drain[p].pc = "sending"
    BY <1>4 DEF Arrives, DeliveryTypeOK, Drain
  <2>3. \A q \in Poller : drain'[q].todo = drain[q].todo /\ (drain'[q].pc # "idle" <=> drain[q].pc # "idle")
    BY <2>1, <2>2
  <2>4. Undelivered' = Undelivered /\ sends' = sends /\ stamp' = stamp
    BY <1>4 DEF Arrives, Undelivered, Written
  <2> QED
    BY <2>3, <2>4 DEF OlderTried
<1>5. ASSUME NEW p \in Poller, Returns(p) \/ Throws(p) \/ Aborts(p) PROVE OlderTried'
  <2>1. drain[p].pc # "idle" /\ Ended(p)
    BY <1>5, TurnEnds
  <2>2. \A q \in Poller : drain'[q].pc # "idle" =>
           q = p /\ drain'[q].todo = drain[p].todo \ {Current(p)}
    BY <1>5, GoesOnWithout
  <2>3. sends[Current(p)] > 0 /\ Current(p) \in Msg /\ verdict[Current(p)] = "none"
    <3>1. OnTheWay = {Current(p)} /\ Current(p) \in Msg /\ verdict[Current(p)] = "none"
      BY <2>1, OneOnTheWay
    <3> QED
      BY <1>0, <3>1 DEF AttemptsCharged, UnderWay
  <2>4. \A n \in Msg : sends[n] > 0 => sends'[n] > 0
    BY <1>0, <2>1 DEF Ended, Counted
  <2>5. Undelivered' \subseteq Undelivered /\ stamp' = stamp
    BY <2>1, <2>3 DEF Ended, Undelivered, Written
  <2>6. Undelivered \subseteq Msg
    BY DEF Undelivered, Written
  <2> SUFFICES ASSUME NEW q \in Poller, drain'[q].pc # "idle", NEW x \in drain'[q].todo,
                      NEW n \in Undelivered' \ drain'[q].todo, stamp[n] < stamp[x]
               PROVE  sends'[n] > 0
    BY <2>5 DEF OlderTried
  <2>7. x \in drain[p].todo /\ n \in Undelivered /\ (n = Current(p) \/ n \notin drain[p].todo)
    BY <2>2, <2>5
  <2> QED
    BY <2>1, <2>3, <2>4, <2>6, <2>7 DEF OlderTried
<1>6. CASE HostDies
  BY <1>6 DEF HostDies, NoDrain, OlderTried
<1>7. ASSUME NEW m \in Msg, GateDenies(m) \/ Click(m) PROVE OlderTried'
  BY <1>2, <1>7 DEF GateDenies, Click
<1>8. CASE ContainerTurns \/ HostBoots \/ UNCHANGED vars
  BY <1>2, <1>8 DEF ContainerTurns, HostBoots, vars
<1> QED
  BY <1>1, <1>3, <1>4, <1>5, <1>6, <1>7, <1>8 DEF DeliveryNext

(* Only the channel's taking a row makes it seen, and the row it takes is the
   oldest the drain has left.                                               *)
LEMMA FirstSeen ==
  ASSUME DeliveryTypeOK, Guarded, [DeliveryNext]_vars, NEW m \in Msg, seen[m] = 0, seen'[m] > 0
  PROVE  \E p \in Poller : drain[p].pc = "sending" /\ m = Current(p)
<1> USE DEF tables, memory, history
<1>0. seen \in [Msg -> Nat] /\ seen' # seen
  BY DEF DeliveryTypeOK
<1>1. PICK p \in Poller : Arrives(p)
  BY <1>0 DEF DeliveryNext, Write, GateDenies, Click, ContainerTurns, Poll, Returns, Throws,
              Aborts, HostDies, HostBoots, vars
<1>2. \A n \in Msg \ {Current(p)} : seen'[n] = seen[n]
  BY <1>0, <1>1 DEF Arrives, Bump
<1> QED
  BY <1>1, <1>2 DEF Arrives

OrderInv == StampsGrow /\ OlderTried

LEMMA OrderInvHolds == DeliverySpec => []OrderInv
<1>1. DeliveryInit => OrderInv
  <2> SUFFICES ASSUME DeliveryInit PROVE OrderInv
    OBVIOUS
  <2>1. \A m \in Msg : stamp[m] = 0
    BY DEF DeliveryInit, NoneYet
  <2>2. Cardinality(Written) = 0
    BY <2>1, FS_EmptySet DEF Written
  <2> QED
    BY <2>1, <2>2 DEF DeliveryInit, NoDrain, StampsGrow, OlderTried, OrderInv
<1>2. DeliveryInv /\ OrderInv /\ [DeliveryNext]_vars => OrderInv'
  BY StampsGrowStep, OlderTriedStep DEF DeliveryInv, OrderInv
<1> QED
  BY <1>1, <1>2, DeliveryInvHolds, PTL DEF DeliverySpec

(* Rows arrive in the order they were written, but for rows that have been
   tried: neither the second poll loop, nor a row written during a drain, nor a
   crash lets a younger row overtake one the host has not called for yet.       *)
THEOREM OrderKeptHolds == DeliverySpec => OrderKept
<1> DEFINE InOrder == \A m, n \in Msg :
                        /\ seen[m] = 0 /\ seen'[m] > 0
                        /\ 0 < stamp[n] /\ stamp[n] < stamp[m] /\ verdict[n] = "none"
                        => sends[n] > 0
<1>1. DeliveryInv /\ OrderInv /\ [DeliveryNext]_vars => InOrder
  <2> SUFFICES ASSUME DeliveryInv, OrderInv, [DeliveryNext]_vars, NEW m \in Msg, NEW n \in Msg,
                      seen[m] = 0, seen'[m] > 0,
                      0 < stamp[n], stamp[n] < stamp[m], verdict[n] = "none"
               PROVE  sends[n] > 0
    OBVIOUS
  <2>0. DeliveryTypeOK /\ Guarded /\ stamp \in [Msg -> Nat]
    BY StampsNat DEF DeliveryInv
  <2>1. PICK p \in Poller : drain[p].pc = "sending" /\ m = Current(p)
    BY <2>0, FirstSeen
  <2>2. Current(p) \in drain[p].todo /\ drain[p].todo \in SUBSET Msg
    BY <2>0, <2>1, OneOnTheWay DEF DeliveryTypeOK, Drain
  <2>3. n \notin drain[p].todo
    BY <2>0, <2>1, <2>2, OldestIsOneOf DEF Current
  <2>4. n \in Undelivered
    BY DEF Undelivered, Written
  <2> QED
    BY <2>1, <2>2, <2>3, <2>4 DEF OlderTried, OrderInv
<1> HIDE DEF InOrder
<1>2. DeliverySpec => [][InOrder]_vars
  BY <1>1, DeliveryInvHolds, OrderInvHolds, PTL DEF DeliverySpec
<1> QED
  BY <1>2 DEF OrderKept, InOrder

-----------------------------------------------------------------------------
(* The refinement: every step of the delivery moves each row as Outbox allows,
   or leaves it alone.                                                       *)

(* A row that a drain is on has been called for. *)
LEMMA CalledFor ==
  ASSUME DeliveryTypeOK, Guarded, AttemptsCharged, NEW p \in Poller, drain[p].pc # "idle"
  PROVE  sends[Current(p)] >= attempts[Current(p)] + 1 /\ sends[Current(p)] > 0
<1>1. OnTheWay = {Current(p)} /\ Current(p) \in Msg
  BY OneOnTheWay
<1> QED
  BY <1>1 DEF AttemptsCharged, UnderWay, DeliveryTypeOK

(* The row a drain takes up next is the oldest of those it has left ... *)
LEMMA TakesOldest ==
  ASSUME NEW rest, stamp' = stamp,
         \A q \in Poller : drain'[q].pc # "idle" => drain'[q].todo = rest
  PROVE  OnTheWay' \subseteq {Oldest(rest)}
<1>1. Oldest(rest)' = Oldest(rest)
  BY OldestStays
<1>2. \A q \in Poller : drain'[q].pc # "idle" => Current(q)' = Oldest(rest)'
  BY DEF Current
<1> QED
  BY <1>1, <1>2 DEF OnTheWay

(* ... so that no open row before it in line was never called for. *)
InLine(m) == \A n \in Undelivered : stamp[n] < stamp[m] => sends[n] > 0

LEMMA StartsInLine ==
  ASSUME DeliveryTypeOK, Guarded, NEW p \in Poller, Poll(p), NEW m \in OnTheWay'
  PROVE  InLine(m)
<1>1. Undelivered \in SUBSET Msg /\ Undelivered # {} /\ stamp' = stamp
  BY DEF Poll, Undelivered, Written
<1>2. OnTheWay' \subseteq {Oldest(Undelivered)}
  BY <1>1, Starts, TakesOldest
<1>3. stamp \in [Msg -> Nat] /\ m \in Msg /\ \A n \in Undelivered : stamp[m] <= stamp[n]
  BY <1>1, <1>2, StampsNat, OldestIsOneOf
<1> QED
  BY <1>1, <1>3 DEF InLine

LEMMA GoesOnInLine ==
  ASSUME DeliveryTypeOK, Guarded, AttemptsCharged, OlderTried,
         NEW p \in Poller, Returns(p) \/ Throws(p) \/ Aborts(p), NEW m \in OnTheWay'
  PROVE  InLine(m)
<1> DEFINE rest == drain[p].todo \ {Current(p)}
<1>1. drain[p].pc # "idle" /\ stamp' = stamp /\ rest \in SUBSET Msg /\ stamp \in [Msg -> Nat]
  BY StampsNat DEF Returns, Throws, Aborts, DeliveryTypeOK, Drain
<1>2. \A q \in Poller : drain'[q].pc # "idle" => drain'[q].todo = rest
  BY GoesOnWithout
<1>3. m = Oldest(rest)
  <2> HIDE DEF rest
  <2> QED
    BY <1>1, <1>2, TakesOldest
<1>4. rest # {}
  <2>1. PICK q \in Poller : drain'[q].pc # "idle"
    BY DEF OnTheWay
  <2>2. Guarded'
    BY TurnEnds DEF Ended
  <2> QED
    BY <1>2, <2>1, <2>2 DEF Guarded
<1>5. m \in rest /\ \A n \in rest : stamp[m] <= stamp[n]
  <2> HIDE DEF rest
  <2> QED
    BY <1>1, <1>3, <1>4, OldestIsOneOf
<1>6. sends[Current(p)] > 0
  BY <1>1, CalledFor
<1> SUFFICES ASSUME NEW n \in Undelivered, stamp[n] < stamp[m] PROVE sends[n] > 0
  BY DEF InLine
<1>7. n \in Msg /\ n \notin rest
  BY <1>1, <1>5 DEF Undelivered, Written
<1> QED
  BY <1>1, <1>5, <1>6, <1>7 DEF OlderTried

(* What one step may do to one row, in the variables of the delivery. *)
RowStays(m)  == /\ stamp'[m] = stamp[m] /\ verdict'[m] = verdict[m]
                /\ sends'[m] = sends[m] /\ (seen'[m] > 0 <=> seen[m] > 0)
RowJoins(m)  == /\ stamp[m] = 0 /\ \A n \in Msg : stamp[n] < stamp'[m]
                /\ verdict[m] = "none" /\ verdict'[m] = "none"
                /\ sends'[m] = sends[m] /\ seen'[m] = seen[m]
RowCalled(m) == /\ m \in Undelivered /\ verdict'[m] = "none" /\ InLine(m)
                /\ stamp'[m] = stamp[m] /\ sends'[m] = sends[m] + 1 /\ seen'[m] = seen[m]
RowSeen(m)   == /\ m \in Undelivered /\ verdict'[m] = "none"
                /\ sends[m] > 0 /\ seen'[m] > 0
                /\ stamp'[m] = stamp[m] /\ sends'[m] = sends[m]
RowLeaves(m) == /\ m \in Undelivered
                /\ \/ verdict'[m] = "delivered" /\ (seen[m] > 0 \/ m \in Unrouted)
                   \/ verdict'[m] = "failed" /\ sends[m] >= MaxAttempts
                /\ stamp'[m] = stamp[m] /\ sends'[m] = sends[m] /\ seen'[m] = seen[m]
RowMoves(m) == RowStays(m) \/ RowJoins(m) \/ RowCalled(m) \/ RowSeen(m) \/ RowLeaves(m)

(* Rows that do not exist have no verdict: only what a drain works on gets one. *)
Unwritten == \A m \in Msg : stamp[m] = 0 => verdict[m] = "none"

LEMMA UnwrittenStep == DeliveryTypeOK /\ Guarded /\ Unwritten /\ [DeliveryNext]_vars => Unwritten'
<1> SUFFICES ASSUME DeliveryTypeOK, Guarded, Unwritten, [DeliveryNext]_vars PROVE Unwritten'
  OBVIOUS
<1> USE DEF tables, memory, history
<1>1. ASSUME NEW m \in Msg, Write(m) PROVE Unwritten'
  BY <1>1 DEF Write, Unwritten, DeliveryTypeOK
<1>2. ASSUME NEW p \in Poller, Returns(p) \/ Throws(p) \/ Aborts(p) PROVE Unwritten'
  <2>1. drain[p].pc # "idle" /\ Ended(p)
    BY <1>2, TurnEnds
  <2>2. Current(p) \in Undelivered
    BY <2>1, OneOnTheWay DEF Guarded
  <2> QED
    BY <2>1, <2>2 DEF Ended, Unwritten, Undelivered, Written
<1>3. ASSUME stamp' = stamp, verdict' = verdict PROVE Unwritten'
  BY <1>3 DEF Unwritten
<1> QED
  BY <1>1, <1>2, <1>3 DEF DeliveryNext, GateDenies, Click, ContainerTurns, Poll, Arrives,
                          HostDies, HostBoots, vars

RowInv == DeliveryInv /\ OrderInv /\ Unwritten

LEMMA RowInvHolds == DeliverySpec => []RowInv
<1>1. DeliveryInit => Unwritten
  BY DEF DeliveryInit, Unwritten
<1>2. DeliveryInv /\ Unwritten /\ [DeliveryNext]_vars => Unwritten'
  BY UnwrittenStep DEF DeliveryInv
<1>3. DeliveryInv /\ OrderInv /\ Unwritten => RowInv
  BY DEF RowInv
<1> QED
  BY <1>1, <1>2, <1>3, DeliveryInvHolds, OrderInvHolds, PTL DEF DeliverySpec

LEMMA RowsMove ==
  ASSUME RowInv, [DeliveryNext]_vars, NEW m \in Msg
  PROVE  RowMoves(m)
<1> USE DEF tables, memory, history
<1>0. /\ DeliveryTypeOK /\ Guarded /\ AttemptsCharged /\ ArrivalsSeen
      /\ StampsGrow /\ OlderTried /\ Unwritten
      /\ sends \in [Msg -> Nat] /\ seen \in [Msg -> Nat] /\ stamp \in [Msg -> Nat]
      /\ attempts \in [Msg -> Nat]
      /\ verdict \in [Msg -> {"none", "delivered", "failed"}]
  BY StampsNat DEF RowInv, DeliveryInv, OrderInv, DeliveryTypeOK
<1>1. ASSUME NEW n \in Msg, Write(n) PROVE RowMoves(m)
  <2>1. IsFiniteSet(Written)
    BY FS_Subset, RowsAssumption DEF Written
  <2>2. Cardinality(Written) \in Nat
    BY <2>1, FS_CardinalityType
  <2>3. CASE m = n
    BY <1>0, <1>1, <2>2, <2>3 DEF Write, StampsGrow, Unwritten, RowMoves, RowJoins
  <2>4. CASE m # n
    BY <1>0, <1>1, <2>4 DEF Write, RowMoves, RowStays
  <2> QED
    BY <2>3, <2>4
<1>2. ASSUME stamp' = stamp, verdict' = verdict, sends' = sends, seen' = seen PROVE RowMoves(m)
  BY <1>2 DEF RowMoves, RowStays
<1>3. ASSUME NEW p \in Poller, Poll(p) PROVE RowMoves(m)
  <2>1. Counted /\ OnTheWay' \subseteq Undelivered
    BY <1>0, <1>3, Starts
  <2>2. stamp' = stamp /\ verdict' = verdict /\ seen' = seen
    BY <1>3 DEF Poll
  <2>3. CASE m \in OnTheWay'
    <3>1. InLine(m)
      BY <1>0, <1>3, <2>3, StartsInLine
    <3> QED
      BY <2>1, <2>2, <2>3, <3>1 DEF Counted, RowMoves, RowCalled, Undelivered
  <2>4. CASE m \notin OnTheWay'
    BY <2>1, <2>2, <2>4 DEF Counted, RowMoves, RowStays
  <2> QED
    BY <2>3, <2>4
<1>4. ASSUME NEW p \in Poller, Arrives(p) PROVE RowMoves(m)
  <2>1. drain[p].pc # "idle"
    BY <1>4 DEF Arrives
  <2>2. sends[Current(p)] > 0 /\ Current(p) \in Undelivered /\ Current(p) \in Msg
    BY <1>0, <2>1, CalledFor, OneOnTheWay DEF Guarded
  <2>3. CASE m = Current(p)
    BY <1>0, <1>4, <2>2, <2>3 DEF Arrives, Bump, RowMoves, RowSeen, Undelivered
  <2>4. CASE m # Current(p)
    BY <1>0, <1>4, <2>4 DEF Arrives, Bump, RowMoves, RowStays
  <2> QED
    BY <2>3, <2>4
<1>5. ASSUME NEW p \in Poller, Returns(p) \/ Throws(p) \/ Aborts(p) PROVE RowMoves(m)
  <2>1. drain[p].pc # "idle" /\ Ended(p) /\ seen' = seen
    BY <1>0, <1>5, TurnEnds DEF Returns, Throws, Aborts
  <2>2. /\ Current(p) \in Undelivered /\ Current(p) \in Msg /\ verdict[Current(p)] = "none"
        /\ sends[Current(p)] >= attempts[Current(p)] + 1
    BY <1>0, <2>1, CalledFor, OneOnTheWay DEF Guarded
  <2>3. CASE m = Current(p)
    <3>1. sends'[m] = sends[m] /\ stamp'[m] = stamp[m]
      BY <2>1, <2>3 DEF Ended, Counted
    <3>2. CASE Returns(p)
      <4>1. verdict'[m] = "delivered"
        BY <1>0, <2>2, <2>3, <3>2, RecordOne DEF Returns
      <4>2. seen[m] > 0 \/ m \in Unrouted
        <5>1. CASE drain[p].pc = "arrived"
          <6>1. m \in Settled
            BY <1>0, <2>1, <2>3, <5>1, OneOnTheWay DEF Settled
          <6> QED
            BY <1>0, <6>1 DEF ArrivalsSeen
        <5>2. CASE drain[p].pc # "arrived"
          BY <2>3, <3>2, <5>2 DEF Returns
        <5> QED
          BY <5>1, <5>2
      <4> QED
        BY <2>1, <2>2, <2>3, <3>1, <4>1, <4>2 DEF RowMoves, RowLeaves
    <3>3. CASE Throws(p) /\ Spent(m)
      <4>1. verdict'[m] = "failed"
        BY <1>0, <2>2, <2>3, <3>3, RecordOne DEF Throws
      <4>2. sends[m] >= MaxAttempts
        BY <1>0, <2>2, <2>3, <3>3, AttemptsAssumption DEF Spent
      <4> QED
        BY <2>1, <2>2, <2>3, <3>1, <4>1, <4>2 DEF RowMoves, RowLeaves
    <3>4. CASE (Throws(p) /\ ~Spent(m)) \/ Aborts(p)
      <4>1. verdict' = verdict
        BY <2>3, <3>4 DEF Throws, Aborts
      <4> QED
        BY <2>1, <3>1, <4>1 DEF RowMoves, RowStays
    <3> QED
      BY <1>5, <3>2, <3>3, <3>4
  <2>4. CASE m # Current(p) /\ m \in OnTheWay'
    <3>1. InLine(m)
      BY <1>0, <1>5, <2>4, GoesOnInLine
    <3>2. sends'[m] = sends[m] + 1 /\ stamp'[m] = stamp[m] /\ verdict'[m] = verdict[m]
          /\ m \in Undelivered
      BY <2>1, <2>4 DEF Ended, Counted, Undelivered, Written
    <3> QED
      BY <2>1, <3>1, <3>2 DEF RowMoves, RowCalled, Undelivered
  <2>5. CASE m # Current(p) /\ m \notin OnTheWay'
    BY <2>1, <2>5 DEF Ended, Counted, RowMoves, RowStays
  <2> QED
    BY <2>3, <2>4, <2>5
<1>6. CASE HostDies
  BY <1>2, <1>6 DEF HostDies
<1>7. ASSUME NEW n \in Msg, GateDenies(n) \/ Click(n) PROVE RowMoves(m)
  BY <1>2, <1>7 DEF GateDenies, Click
<1>8. CASE ContainerTurns \/ HostBoots \/ UNCHANGED vars
  BY <1>2, <1>8 DEF ContainerTurns, HostBoots, vars
<1> QED
  BY <1>1, <1>3, <1>4, <1>5, <1>6, <1>7, <1>8 DEF DeliveryNext

(* Such a move is a move of the row in Outbox. *)
LEMMA MoveIsLineMove ==
  ASSUME RowInv, NEW m \in Msg, RowMoves(m)
  PROVE  Line!Stays(m) \/ Line!Joins(m) \/ Line!IsCalled(m) \/ Line!Arrives(m) \/ Line!Leaves(m)
<1>0. /\ stamp \in [Msg -> Nat] /\ verdict \in [Msg -> {"none", "delivered", "failed"}]
      /\ Unwritten
  BY StampsNat DEF RowInv, DeliveryInv, DeliveryTypeOK
<1>1. CASE RowStays(m)
  BY <1>1 DEF RowStays, Line!Stays, Stage
<1>2. CASE RowJoins(m)
  BY <1>0, <1>2 DEF RowJoins, Line!Joins, Stage
<1>3. CASE RowCalled(m)
  BY <1>0, <1>3 DEF RowCalled, InLine, Line!IsCalled, Line!AheadOf, Stage, Undelivered, Written
<1>4. CASE RowSeen(m)
  <2>1. Stage(m) = "open" /\ Stage(m)' = "open"
    BY <1>0, <1>4 DEF RowSeen, Stage, Undelivered, Written
  <2>2. sends[m] > 0 /\ seen'[m] > 0 /\ stamp'[m] = stamp[m] /\ sends'[m] = sends[m]
    BY <1>4 DEF RowSeen
  <2> QED
    BY <2>1, <2>2, Zenon DEF Line!Arrives
<1>5. CASE RowLeaves(m)
  <2>1. Stage(m) = "open" /\ Stage(m)' = verdict'[m]
    BY <1>0, <1>5 DEF RowLeaves, Stage, Undelivered, Written
  <2>2. /\ \/ verdict'[m] = "delivered" /\ (seen[m] > 0 \/ m \in Unrouted)
           \/ verdict'[m] = "failed" /\ sends[m] >= MaxAttempts
        /\ stamp'[m] = stamp[m] /\ sends'[m] = sends[m] /\ seen'[m] = seen[m]
    BY <1>5 DEF RowLeaves
  <2> QED
    BY <2>1, <2>2, Zenon DEF Line!Leaves
<1> QED
  BY <1>1, <1>2, <1>3, <1>4, <1>5 DEF RowMoves

(* The delivery of a session implements Outbox: whatever the two poll loops, the
   channel's errors and the host's crashes do, each row is first called for in
   the order of writing and leaves the line once, and nothing of it is sent
   after that.                                                              *)
THEOREM OutboxImplemented == DeliverySpec => ImplementsOutbox
<1>1. DeliveryInit => Line!Init
  <2> SUFFICES ASSUME DeliveryInit PROVE Line!Init
    OBVIOUS
  <2>1. stamp = NoneYet /\ sends = NoneYet /\ \A m \in Msg : Stage(m) = "absent"
    BY DEF DeliveryInit, NoneYet, Stage
  <2>2. \A m \in Msg : (seen[m] > 0) = FALSE
    BY DEF DeliveryInit, NoneYet
  <2> QED
    BY <2>1, <2>2, Zenon DEF Line!Init, NoneYet
<1>2. RowInv /\ RowInv' /\ [DeliveryNext]_vars => Line!Next
  <2> SUFFICES ASSUME RowInv, RowInv', [DeliveryNext]_vars PROVE Line!Next
    OBVIOUS
  <2>1. /\ stamp' \in [Msg -> 0..Cardinality(Msg)] /\ sends' \in [Msg -> Nat]
        /\ verdict' \in [Msg -> {"none", "delivered", "failed"}]
    BY DEF RowInv, DeliveryInv, DeliveryTypeOK
  <2>2. Cardinality(Msg) \in Nat
    BY FS_CardinalityType, RowsAssumption
  <2>3. stamp' \in [Msg -> Nat]
    BY <2>1, <2>2
  <2>4. \A m \in Msg : Stage(m)' \in Line!Stages
    BY <2>1 DEF Stage, Line!Stages
  <2>5. \A m \in Msg : Line!Stays(m) \/ Line!Joins(m) \/ Line!IsCalled(m)
                        \/ Line!Arrives(m) \/ Line!Leaves(m)
    BY RowsMove, MoveIsLineMove
  <2> QED
    BY <2>1, <2>3, <2>4, <2>5 DEF Line!Next
<1> QED
  BY <1>1, <1>2, RowInvHolds, PTL DEF DeliverySpec, ImplementsOutbox, Line!Spec
==============================================================================
