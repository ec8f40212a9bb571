-------------------------- MODULE EventReportProofs --------------------------
(***************************************************************************)
(* Proofs about the ring buffer and the open reports subscriber, for any   *)
(* size of the buffer, capacity of the channel and number of events.       *)
(***************************************************************************)
EXTENDS EventReport, SequenceTheorems, FiniteSetTheorems, TLAPS

-----------------------------------------------------------------------------
(* The ring buffer. *)

\* The k-th oldest element is the right one of the history.
Right(rb, history, k) == Element(rb, k) = history[Len(history) - rb.count + k + 1]

\* The buffer holds the newest elements of the history.
Holds(rb, history) ==
    /\ rb.count = IF Len(history) <= Size THEN Len(history) ELSE Size
    /\ \A k \in 0 .. rb.count - 1 : Right(rb, history, k)

\* As much of it as is true while the slot of the next element is written.
HoldsRest(rb, history) ==
    /\ rb.count = IF Len(history) <= Size THEN Len(history) ELSE Size
    /\ \A k \in 0 .. rb.count - 1 : k # 0 \/ rb.count < Size => Right(rb, history, k)

LEMMA ModBelow == ASSUME NEW N \in Nat \ {0}, NEW a \in 0 .. N - 1 PROVE a % N = a
  BY SMT

LEMMA ModAbove == ASSUME NEW N \in Nat \ {0}, NEW a \in N .. 2 * N - 1 PROVE a % N = a - N
  BY SMT

Wrapped(a) == IF a < Size THEN a ELSE a - Size

\* Sums of a position and a count wrap around at most once.
LEMMA Wraps ==
    ASSUME NEW start \in Positions, NEW k \in 0 .. Size
    PROVE  (start + k) % Size = Wrapped(start + k) /\ Wrapped(start + k) \in Positions
  <1>1. CASE start + k < Size
    BY <1>1, ModBelow, SizeAssumption DEF Positions, Wrapped
  <1>2. CASE start + k >= Size
    <2> DEFINE sum == start + k
    <2>1. sum \in Size .. 2 * Size - 1
      BY <1>2, SizeAssumption DEF Positions
    <2>2. sum % Size = sum - Size
      <3> HIDE DEF sum
      <3> QED
        BY <2>1, ModAbove, SizeAssumption
    <2> QED
      BY <1>2, <2>1, <2>2, SizeAssumption DEF Positions, Wrapped
  <1> QED
    BY <1>1, <1>2, SizeAssumption DEF Positions

LEMMA ElementIs ==
    ASSUME NEW rb \in Ring, NEW k \in 0 .. Size
    PROVE  Element(rb, k) = rb.data[Wrapped(rb.start + k)]
  BY Wraps DEF Element, Ring

\* The next element goes to one position behind the newest one.
LEMMA SlotIs ==
    ASSUME NEW rb \in Ring
    PROVE  Slot(rb) = Wrapped(rb.start + rb.count) /\ Slot(rb) \in Positions
  <1>1. /\ rb.start \in Positions /\ rb.count \in 0 .. Size
        /\ Wrapped(rb.start + rb.count) \in Positions
    BY Wraps DEF Ring
  <1>2. CASE rb.count < Size
    BY <1>1, <1>2, Wraps DEF Slot
  <1>3. CASE rb.count = Size
    BY <1>1, <1>3, SizeAssumption DEF Slot, Wrapped, Positions
  <1> QED
    BY <1>1, <1>2, <1>3, SizeAssumption

\* Storing leaves all the other elements alone.
LEMMA StoredKeepsRest ==
    ASSUME NEW rb \in Ring, NEW value \in Elements, NEW history \in Seq(Events),
           HoldsRest(rb, history)
    PROVE  /\ Stored(rb, value) \in Ring
           /\ HoldsRest(Stored(rb, value), history)
           /\ Slot(Stored(rb, value)) = Slot(rb)
           /\ Stored(rb, value).data[Slot(rb)] = value
  <1> DEFINE new == Stored(rb, value)
  <1>1. /\ new.start = rb.start /\ new.count = rb.count
        /\ new.data = [rb.data EXCEPT ![Slot(rb)] = value]
        /\ new \in Ring
    BY SlotIs DEF Stored, Ring
  <1>2. /\ rb.start \in Positions /\ rb.count \in 0 .. Size
        /\ DOMAIN rb.data = Positions /\ Slot(rb) \in Positions
    BY SlotIs DEF Ring
  <1>3. ASSUME NEW k \in 0 .. rb.count - 1, k # 0 \/ rb.count < Size
        PROVE  Right(new, history, k)
    <2>1. Right(rb, history, k) /\ k \in 0 .. Size
      BY <1>2, <1>3, SizeAssumption DEF HoldsRest
    <2>2. Wrapped(rb.start + k) # Wrapped(rb.start + rb.count)
      BY <1>2, <1>3, SizeAssumption DEF Wrapped, Positions
    <2>3. Wrapped(rb.start + k) \in Positions
      BY <1>2, <2>1, Wraps
    <2>4. Element(new, k) = Element(rb, k)
      BY <1>1, <1>2, <2>1, <2>2, <2>3, ElementIs, SlotIs
    <2> QED
      BY <1>1, <2>1, <2>4 DEF Right
  <1>4. HoldsRest(new, history)
    BY <1>1, <1>3 DEF HoldsRest
  <1>5. Slot(new) = Slot(rb)
    BY <1>1, SlotIs
  <1> QED
    BY <1>1, <1>2, <1>4, <1>5

\* Once the element is stored, moving the indices makes it the newest.
LEMMA AdvancedHolds ==
    ASSUME NEW rb \in Ring, NEW value \in Events, NEW history \in Seq(Events),
           HoldsRest(rb, history), rb.data[Slot(rb)] = value
    PROVE  Advanced(rb) \in Ring /\ Holds(Advanced(rb), Append(history, value))
  <1> DEFINE new == Advanced(rb)
             longer == Append(history, value)
  <1>1. /\ rb.start \in Positions /\ rb.count \in 0 .. Size
        /\ Len(history) \in Nat /\ Len(longer) = Len(history) + 1
        /\ longer[Len(history) + 1] = value
        /\ \A n \in 1 .. Len(history) : longer[n] = history[n]
        /\ Size \in Nat \ {0}
    BY SizeAssumption DEF Ring
  <1>2. CASE rb.count < Size
    <2>1. /\ new.data = rb.data /\ new.start = rb.start /\ new.count = rb.count + 1
          /\ new \in Ring
      BY <1>1, <1>2 DEF Advanced, Ring
    <2>2. rb.count = Len(history)
      BY <1>1, <1>2 DEF HoldsRest
    <2>3. ASSUME NEW k \in 0 .. new.count - 1 PROVE Right(new, longer, k)
      <3>1. k \in 0 .. Size /\ Element(new, k) = Element(rb, k)
        BY <1>1, <1>2, <2>1 DEF Element
      <3>2. CASE k < rb.count
        <4>1. Right(rb, history, k)
          BY <1>1, <1>2, <3>2 DEF HoldsRest
        <4> QED
          BY <1>1, <2>1, <2>2, <3>1, <3>2, <4>1 DEF Right
      <3>3. CASE k = rb.count
        <4>1. Element(rb, k) = value
          BY <3>1, <3>3, ElementIs, SlotIs
        <4> QED
          BY <1>1, <2>1, <2>2, <3>1, <3>3, <4>1 DEF Right
      <3> QED
        BY <1>1, <2>1, <3>2, <3>3
    <2> QED
      BY <1>1, <1>2, <2>1, <2>2, <2>3 DEF Holds
  <1>3. CASE rb.count = Size
    <2>1. (rb.start + 1) % Size = Wrapped(rb.start + 1) /\ Wrapped(rb.start + 1) \in Positions
      BY <1>1, Wraps
    <2>2. /\ new.data = rb.data /\ new.start = Wrapped(rb.start + 1) /\ new.count = Size
          /\ new \in Ring
      BY <1>1, <1>3, <2>1 DEF Advanced, Ring
    <2>3. Len(history) >= Size
      BY <1>1, <1>3 DEF HoldsRest
    <2>4. ASSUME NEW k \in 0 .. Size - 1 PROVE Right(new, longer, k)
      <3>1. k \in 0 .. Size /\ k + 1 \in 0 .. Size
        BY <1>1
      <3>2. Wrapped(new.start + k) = Wrapped(rb.start + (k + 1))
        BY <1>1, <2>2, <3>1 DEF Wrapped, Positions
      <3>3. Element(new, k) = Element(rb, k + 1)
        BY <2>2, <3>1, <3>2, ElementIs
      <3>4. CASE k + 1 < Size
        <4>1. Right(rb, history, k + 1)
          BY <1>1, <1>3, <3>4 DEF HoldsRest
        <4> QED
          BY <1>1, <1>3, <2>2, <2>3, <3>3, <3>4, <4>1 DEF Right
      <3>5. CASE k + 1 = Size
        <4>1. Element(rb, k + 1) = value
          BY <1>3, <3>1, <3>5, ElementIs, SlotIs
        <4> QED
          BY <1>1, <2>2, <2>3, <3>3, <3>5, <4>1 DEF Right
      <3> QED
        BY <1>1, <3>4, <3>5
    <2> QED
      BY <1>1, <2>2, <2>3, <2>4 DEF Holds
  <1> QED
    BY <1>1, <1>2, <1>3

\* What Values returns of a buffer that holds the newest elements.
LEMMA ValuesAreNewest ==
    ASSUME NEW rb \in Ring, NEW history \in Seq(Events), Holds(rb, history)
    PROVE  Values(rb) = Newest(history)
  <1>1. /\ rb.count \in 0 .. Size /\ Len(history) \in Nat /\ Size \in Nat \ {0}
        /\ rb.count = IF Len(history) <= Size THEN Len(history) ELSE Size
        /\ \A k \in 1 .. rb.count : Element(rb, k - 1) = history[Len(history) - rb.count + k]
    <2>1. rb.count \in 0 .. Size /\ Len(history) \in Nat /\ Size \in Nat \ {0}
      BY SizeAssumption DEF Ring
    <2>2. ASSUME NEW k \in 1 .. rb.count
          PROVE  Element(rb, k - 1) = history[Len(history) - rb.count + k]
      <3>1. Right(rb, history, k - 1)
        BY <2>1 DEF Holds
      <3> QED
        BY <2>1, <3>1 DEF Right
    <2> QED
      BY <2>1, <2>2 DEF Holds
  <1>2. CASE Len(history) <= Size
    BY <1>1, <1>2 DEF Values, Newest
  <1>3. CASE Len(history) > Size
    <2> DEFINE first == Len(history) - Size + 1
               last == SubSeq(history, first, Len(history))
    <2>1. first \in 1 .. Len(history) + 1 /\ Len(history) \in first - 1 .. Len(history)
      BY <1>1, <1>3
    <2>2. /\ last \in Seq(Events) /\ Len(last) = Len(history) - first + 1
          /\ \A k \in 1 .. Len(history) - first + 1 : last[k] = history[first + k - 1]
      <3>1. \A k \in first .. Len(history) : history[k] \in Events
        BY <2>1
      <3>2. first \in Int /\ Len(history) \in Int /\ first <= Len(history)
        BY <1>1, <1>3
      <3> HIDE DEF first
      <3> QED
        BY <3>1, <3>2, SubSeqProperties
    <2>3. Len(last) = Size /\ last = [k \in 1 .. Size |-> last[k]]
      <3> HIDE DEF last
      <3>1. Len(last) = Size
        BY <1>1, <2>2
      <3> QED
        BY <2>2, <3>1
    <2>4. ASSUME NEW k \in 1 .. Size PROVE last[k] = Element(rb, k - 1)
      <3>1. last[k] = history[first + k - 1]
        BY <1>1, <2>2
      <3>2. rb.count = Size
        BY <1>1, <1>3
      <3>3. Element(rb, k - 1) = history[Len(history) - Size + k]
        BY <1>1, <3>2
      <3>4. first + k - 1 = Len(history) - Size + k
        BY <1>1
      <3> QED
        BY <3>1, <3>3, <3>4
    <2>5. Values(rb) = [k \in 1 .. Size |-> last[k]]
      <3> HIDE DEF last
      <3> QED
        BY <1>1, <1>3, <2>4 DEF Values
    <2>6. Newest(history) = last
      BY <1>1, <1>3 DEF Newest
    <2> QED
      BY <2>3, <2>5, <2>6
  <1> QED
    BY <1>1, <1>2, <1>3

-----------------------------------------------------------------------------
(* The inductive invariant. *)

\* The buffer and the event the loop is about to store, is storing or has stored.
RingInv ==
    /\ loop \notin {"storing", "stored"} => Holds(ring, handled)
    /\ HoldsRest(ring, handled)
    /\ loop \in {"store", "storing", "stored"} => event \in Events
    /\ loop = "stored" => ring.data[Slot(ring)] = event

\* How much of the summary is there at each step of pushReport.
SummaryInv ==
    /\ reporter \in {"wait", "get", "stopped"} => summary = <<>>
    /\ reporter = "summary" => Len(summary) < 3
    /\ reporter \in {"values", "read"} => Len(summary) = IF found THEN 0 ELSE 3
    /\ reporter = "write" => Len(summary) = 3

\* Without a flush interval the loop waits while pushReport runs, so that buffer
\* and counters stand still while they are copied.
CopyInv ==
    ~ interval =>
        /\ reporter # "stopped" /\ (loop = "report" <=> reporter # "wait")
        /\ reporter \in {"wait", "get", "values"} => out = <<>>
        /\ reporter = "summary" => Len(out) = IF found THEN ring.count ELSE 0
        /\ reporter = "read" => length = ring.count /\ Len(out) <= ring.count
        /\ reporter = "write" => Len(out) = ring.count
        /\ \A k \in 1 .. Len(out) : out[k] = Element(ring, k - 1)
        /\ \A n \in 1 .. Len(summary) : summary[n] = counters[LoadOrder[n]]

ReportInv == TypeOK /\ RingInv /\ SummaryInv /\ CopyInv /\ EventsAccounted

-----------------------------------------------------------------------------
(* Types. *)

LEMMA LoadOrderTypes ==
    /\ LoadOrder \in Seq(Kinds) /\ Len(LoadOrder) = 3
    /\ \A kind \in Kinds : \E n \in 1 .. 3 : LoadOrder[n] = kind
    /\ \A n \in 1 .. 3 : LoadOrder[n] \in Kinds
    /\ \A n, m \in 1 .. 3 : LoadOrder[n] = LoadOrder[m] => n = m
  BY DEF LoadOrder, Kinds

LEMMA NewRingTypes == NewRing \in Ring /\ Holds(NewRing, <<>>) /\ HoldsRest(NewRing, <<>>)
  <1>1. NewRing \in Ring
    BY SizeAssumption DEF NewRing, Ring, Positions
  <1>2. NewRing.count = 0 /\ Len(<<>>) = 0
    BY DEF NewRing
  <1> QED
    BY <1>1, <1>2, SizeAssumption DEF Holds, HoldsRest

\* A complete summary is one count for each kind.
LEMMA SummaryTypes ==
    ASSUME summary \in Seq(Nat), Len(summary) = 3
    PROVE  /\ Summary \in Counters
           /\ \A n \in 1 .. 3 : Summary[LoadOrder[n]] = summary[n]
  <1>0. ASSUME NEW n \in 1 .. 3 PROVE summary[n] \in Nat
    <2>1. n \in 1 .. Len(summary)
      OBVIOUS
    <2> QED
      BY <2>1, ElementOfSeq
  <1> DEFINE At(kind) == CHOOSE n \in DOMAIN LoadOrder : LoadOrder[n] = kind
  <1>1. DOMAIN LoadOrder = 1 .. 3
    BY LoadOrderTypes
  <1>2. \A kind \in Kinds : At(kind) \in 1 .. 3 /\ LoadOrder[At(kind)] = kind
    BY <1>1, LoadOrderTypes
  <1>3. Summary = [kind \in Kinds |-> summary[At(kind)]]
    BY DEF Summary
  <1> HIDE DEF At
  <1>4. ASSUME NEW n \in 1 .. 3 PROVE LoadOrder[n] \in Kinds /\ At(LoadOrder[n]) = n
    <2>1. LoadOrder[n] \in Kinds
      BY LoadOrderTypes
    <2>2. At(LoadOrder[n]) \in 1 .. 3 /\ LoadOrder[At(LoadOrder[n])] = LoadOrder[n]
      BY <1>2, <2>1
    <2> QED
      BY <2>1, <2>2, LoadOrderTypes
  <1>5. \A kind \in Kinds : summary[At(kind)] \in Nat
    BY <1>0, <1>2
  <1>6. Summary \in Counters
    BY <1>3, <1>5 DEF Counters
  <1>7. \A n \in 1 .. 3 : Summary[LoadOrder[n]] = summary[n]
    BY <1>3, <1>4
  <1> QED
    BY <1>6, <1>7

LEMMA Initial == Init => ReportInv
  <1> SUFFICES ASSUME Init PROVE ReportInv
    OBVIOUS
  <1>1. TypeOK
    <2> USE DEF Init
    <2>1. ring \in Ring /\ counters \in Counters
      BY NewRingTypes DEF NoCounts, Counters
    <2>2. /\ eventChan \in Seq(Events) /\ handled \in Seq(Events)
          /\ out \in Seq(Elements \cup {Zero}) /\ summary \in Seq(Nat)
      OBVIOUS
    <2>3. pushed \in Nat /\ dropped \in Nat /\ faults \in Nat /\ length \in Nat
      OBVIOUS
    <2>4. /\ interval \in BOOLEAN /\ found \in BOOLEAN
          /\ cancelled \in BOOLEAN /\ panicked \in BOOLEAN
      OBVIOUS
    <2>5. loop = "idle" /\ event = None /\ reporter = "wait" /\ report = None
      OBVIOUS
    <2> QED
      BY <2>1, <2>2, <2>3, <2>4, <2>5 DEF TypeOK
  <1>2. RingInv
    BY NewRingTypes DEF Init, RingInv
  <1>3. SummaryInv /\ CopyInv
    BY DEF Init, SummaryInv, CopyInv
  <1>4. EventsAccounted
    BY DEF Init, EventsAccounted, Total, NoCounts, Kinds
  <1> QED
    BY <1>1, <1>2, <1>3, <1>4 DEF ReportInv

\* Storing an element of any kind, torn or not.
LEMMA StoreTypes ==
    ASSUME ReportInv, NEW value \in Elements
    PROVE  Stored(ring, value) \in Ring
  BY StoredKeepsRest DEF ReportInv, RingInv, TypeOK

LEMMA AdvanceTypes ==
    ASSUME ReportInv, loop = "stored"
    PROVE  /\ event \in Events /\ Advanced(ring) \in Ring
           /\ Holds(Advanced(ring), Append(handled, event))
  <1>1. event \in Events
    BY DEF ReportInv, RingInv
  <1> QED
    BY <1>1, AdvancedHolds DEF ReportInv, RingInv, TypeOK

LEMMA ElementTypes ==
    ASSUME NEW rb \in Ring, NEW k \in 0 .. Size
    PROVE  Element(rb, k) \in Elements \cup {Zero}
  BY ElementIs, Wraps DEF Ring

LEMMA LoopTypes == ASSUME ReportInv, Loop PROVE TypeOK'
  <1> USE DEF ReportInv, TypeOK, reportVars, envVars
  <1>1. ASSUME NEW marshals \in BOOLEAN, TakeEvent(marshals) PROVE TypeOK'
    <2>1. Head(eventChan) \in Events /\ Tail(eventChan) \in Seq(Events)
      BY <1>1 DEF TakeEvent
    <2>2. Head(eventChan).kind \in Kinds
      BY <2>1 DEF Events
    <2>3. counters' \in Counters
      BY <1>1, <2>2 DEF TakeEvent, Counters
    <2> QED
      BY <1>1, <2>1, <2>3 DEF TakeEvent
  <1>2. CASE BeginStore
    BY <1>2, StoreTypes, ReportAssumption DEF BeginStore
  <1>3. CASE EndStore
    <2>1. event \in Elements
      BY <1>3, ReportAssumption DEF RingInv, EndStore
    <2> QED
      BY <1>3, <2>1, StoreTypes DEF EndStore
  <1>4. CASE Advance
    BY <1>4, AdvanceTypes DEF Advance
  <1>5. CASE LoopStops
    BY <1>5 DEF LoopStops
  <1> QED
    BY <1>1, <1>2, <1>3, <1>4, <1>5 DEF Loop

\* pushReport returns with its locals gone.
LEMMA ReturnTypes ==
    ASSUME ReportInv, Return, report' \in Report \cup {None} PROVE TypeOK'
  <1> USE DEF ReportInv, TypeOK, Return, Unreported, envVars
  <1>1. /\ found' \in BOOLEAN /\ cancelled' \in BOOLEAN
        /\ panicked' \in BOOLEAN /\ interval' \in BOOLEAN
    OBVIOUS
  <1>2. out' \in Seq(Elements \cup {Zero}) /\ summary' \in Seq(Nat) /\ length' \in Nat
    OBVIOUS
  <1>3. UNCHANGED <<pushed, dropped, eventChan, event, handled, ring, counters, faults>>
    OBVIOUS
  <1>4. loop' \in {"idle", "store", "storing", "stored", "report", "stopped"}
    OBVIOUS
  <1>5. reporter' = "wait"
    OBVIOUS
  <1> QED
    BY <1>1, <1>2, <1>3, <1>4, <1>5

\* An update has its results first, a new report its summary.
LEMMA AfterIs ==
    /\ After("values") = IF found THEN "summary" ELSE "write"
    /\ After("summary") = IF found THEN "write" ELSE "values"
  <1> DEFINE order == Order(found)
  <1>1. /\ order[1] = IF found THEN "values" ELSE "summary"
        /\ order[2] = IF found THEN "summary" ELSE "values"
        /\ order[3] = "write"
    BY DEF Order
  <1> HIDE DEF order
  <1>2. ASSUME NEW step, NEW n \in 1 .. 2, \A k \in 1 .. 2 : order[k] = step <=> k = n
        PROVE  order[1 + CHOOSE k \in 1 .. 2 : order[k] = step] = order[1 + n]
    <2>1. (CHOOSE k \in 1 .. 2 : order[k] = step) = n
      BY <1>2
    <2> QED
      BY <2>1
  <1>3. /\ After("values") = order[1 + CHOOSE k \in 1 .. 2 : order[k] = "values"]
        /\ After("summary") = order[1 + CHOOSE k \in 1 .. 2 : order[k] = "summary"]
    BY DEF After, order
  <1>4. CASE found
    <2>1. /\ \A k \in 1 .. 2 : order[k] = "values" <=> k = 1
          /\ \A k \in 1 .. 2 : order[k] = "summary" <=> k = 2
      BY <1>1, <1>4
    <2> QED
      BY <1>1, <1>2, <1>3, <1>4, <2>1
  <1>5. CASE ~ found
    <2>1. /\ \A k \in 1 .. 2 : order[k] = "values" <=> k = 2
          /\ \A k \in 1 .. 2 : order[k] = "summary" <=> k = 1
      BY <1>1, <1>5
    <2> QED
      BY <1>1, <1>2, <1>3, <1>5, <2>1
  <1> QED
    BY <1>4, <1>5

LEMMA FlushTypes == ASSUME ReportInv, Flush PROVE TypeOK'
  <1> USE DEF ReportInv, TypeOK, Unreported, envVars
  <1>1. CASE Tick \/ FlushStops
    BY <1>1 DEF Tick, FlushStops
  <1>2. CASE Get
    BY <1>2 DEF Get, Order
  <1>3. CASE BeginValues
    BY <1>3 DEF BeginValues, Ring
  <1>4. CASE ReadElement
    <2>1. Len(out) \in 0 .. Size
      BY <1>4, SizeAssumption DEF ReadElement, Ring
    <2>2. Element(ring, Len(out)) \in Elements \cup {Zero}
      BY <2>1, ElementTypes
    <2>3. out' \in Seq(Elements \cup {Zero})
      <3>1. out' = Append(out, Element(ring, Len(out))) \/ out' = out
        BY <1>4 DEF ReadElement
      <3> HIDE DEF ReportInv, TypeOK
      <3>2. out \in Seq(Elements \cup {Zero})
        BY DEF ReportInv, TypeOK
      <3> QED
        BY <2>2, <3>1, <3>2
    <2>4. panicked' \in BOOLEAN
      BY <1>4 DEF ReadElement
    <2> QED
      BY <1>4, <2>3, <2>4 DEF ReadElement, loopVars
  <1>5. CASE EndValues
    BY <1>5, AfterIs DEF EndValues
  <1>6. CASE LoadCounter
    <2>1. Len(summary) + 1 \in 1 .. 3
      BY <1>6 DEF LoadCounter, SummaryInv
    <2>2. LoadOrder[Len(summary) + 1] \in Kinds
      BY <2>1, LoadOrderTypes
    <2>3. counters[LoadOrder[Len(summary) + 1]] \in Nat
      BY <2>2 DEF Counters
    <2>4. summary' \in Seq(Nat)
      BY <1>6, <2>3 DEF LoadCounter
    <2> QED
      BY <1>6, <2>4, AfterIs DEF LoadCounter
  <1>7. CASE Write
    <2>1. Summary \in Counters
      BY <1>7, SummaryTypes DEF Write, SummaryInv
    <2>2. report' \in Report
      BY <1>7, <2>1 DEF Write, Report
    <2> QED
      BY <1>7, <2>2, ReturnTypes DEF Write
  <1>8. CASE CallFails
    BY <1>8, ReturnTypes DEF CallFails
  <1> QED
    BY <1>1, <1>2, <1>3, <1>4, <1>5, <1>6, <1>7, <1>8 DEF Flush

LEMMA EnvironmentTypes ==
    ASSUME ReportInv,
           (\E kind \in PushedKinds : PushEvent(kind)) \/ Cancel \/ DeleteReport \/ Restart
    PROVE  TypeOK'
  <1> USE DEF ReportInv, TypeOK, loopVars, reportVars, envVars
  <1>1. ASSUME NEW kind \in PushedKinds, PushEvent(kind) PROVE TypeOK'
    <2>1. pushed' \in 1 .. MaxEvents /\ kind \in Kinds
      BY <1>1, ReportAssumption DEF PushEvent
    <2>2. [id |-> pushed', kind |-> kind] \in Events
      BY <2>1 DEF Events
    <2>3. eventChan' \in Seq(Events)
      <3>1. \/ eventChan' = Append(eventChan, [id |-> pushed', kind |-> kind])
            \/ eventChan' = eventChan
        BY <1>1 DEF PushEvent
      <3> HIDE DEF ReportInv, TypeOK
      <3>2. eventChan \in Seq(Events)
        BY DEF ReportInv, TypeOK
      <3> QED
        BY <2>2, <3>1, <3>2
    <2>4. dropped' \in Nat /\ pushed' \in Nat
      BY <1>1 DEF PushEvent
    <2> QED
      BY <1>1, <2>3, <2>4 DEF PushEvent
  <1>2. CASE Cancel
    BY <1>2 DEF Cancel
  <1>3. CASE DeleteReport
    BY <1>3 DEF DeleteReport
  <1>4. CASE Restart
    <2> USE <1>4 DEF Restart
    <2>1. ring' \in Ring /\ counters' \in Counters
      BY NewRingTypes DEF NoCounts, Counters
    <2>2. /\ eventChan' \in Seq(Events) /\ handled' \in Seq(Events)
          /\ out' \in Seq(Elements \cup {Zero}) /\ summary' \in Seq(Nat)
      OBVIOUS
    <2>3. pushed' \in Nat /\ dropped' \in Nat /\ faults' \in Nat /\ length' \in Nat
      OBVIOUS
    <2>4. /\ interval' \in BOOLEAN /\ found' \in BOOLEAN
          /\ cancelled' \in BOOLEAN /\ panicked' \in BOOLEAN
      OBVIOUS
    <2>5. loop' = "idle" /\ event' = None /\ reporter' = "wait" /\ report' = report
      OBVIOUS
    <2> QED
      BY <2>1, <2>2, <2>3, <2>4, <2>5
  <1> QED
    BY <1>1, <1>2, <1>3, <1>4

LEMMA TypeStep == ASSUME ReportInv, [Next]_vars PROVE TypeOK'
  <1>1. CASE UNCHANGED vars
    BY <1>1 DEF vars, loopVars, reportVars, envVars, ReportInv, TypeOK
  <1> QED
    BY <1>1, LoopTypes, FlushTypes, EnvironmentTypes DEF Next

-----------------------------------------------------------------------------
(* The buffer. *)

LEMMA HoldsImpliesRest ==
    ASSUME NEW rb, NEW history, Holds(rb, history) PROVE HoldsRest(rb, history)
  BY DEF Holds, HoldsRest

\* Only the event loop and a restart touch the buffer and its history.
LEMMA RingKept ==
    ASSUME ReportInv, UNCHANGED <<ring, handled, event>>,
           loop' = loop \/ (loop' # "storing" /\ loop' # "stored" /\ loop' # "store"
                            /\ loop # "storing" /\ loop # "stored")
    PROVE  RingInv'
  BY DEF ReportInv, RingInv

LEMMA LoopRing == ASSUME ReportInv, Loop PROVE RingInv'
  <1> USE DEF ReportInv
  <1>1. ASSUME NEW marshals \in BOOLEAN, TakeEvent(marshals) PROVE RingInv'
    <2>1. Head(eventChan) \in Events
      BY <1>1 DEF TakeEvent, TypeOK
    <2>2. ring' = ring /\ handled' = handled /\ loop = "idle"
      BY <1>1 DEF TakeEvent
    <2>3. CASE marshals
      BY <1>1, <2>1, <2>2, <2>3 DEF TakeEvent, RingInv
    <2>4. CASE ~ marshals
      BY <1>1, <2>2, <2>4 DEF TakeEvent, RingInv
    <2> QED
      BY <2>3, <2>4
  <1>2. CASE BeginStore
    <2>1. Torn \in Elements
      BY ReportAssumption
    <2>2. HoldsRest(Stored(ring, Torn), handled)
      BY <2>1, StoredKeepsRest DEF RingInv, TypeOK
    <2> QED
      BY <1>2, <2>2 DEF BeginStore, RingInv
  <1>3. CASE EndStore
    <2>1. event \in Events /\ event \in Elements
      BY <1>3, ReportAssumption DEF RingInv, EndStore
    <2>2. /\ HoldsRest(Stored(ring, event), handled)
          /\ Stored(ring, event).data[Slot(Stored(ring, event))] = event
      BY <2>1, StoredKeepsRest DEF RingInv, TypeOK
    <2> QED
      BY <1>3, <2>1, <2>2 DEF EndStore, RingInv
  <1>4. CASE Advance
    <2>1. Holds(Advanced(ring), Append(handled, event))
      BY <1>4, AdvanceTypes DEF Advance
    <2>2. loop' \in {"idle", "report"}
      BY <1>4 DEF Advance
    <2> QED
      BY <1>4, <2>1, <2>2, HoldsImpliesRest DEF Advance, RingInv
  <1>5. CASE LoopStops
    BY <1>5, RingKept DEF LoopStops
  <1> QED
    BY <1>1, <1>2, <1>3, <1>4, <1>5 DEF Loop

LEMMA ReturnKeepsLoop ==
    ASSUME Return
    PROVE  /\ loop' = loop \/ (loop = "report" /\ loop' = "idle")
           /\ UNCHANGED <<ring, handled, event>>
  BY DEF Return, Unreported

LEMMA FlushRing == ASSUME ReportInv, Flush PROVE RingInv'
  <1>1. CASE Write \/ CallFails
    BY <1>1, ReturnKeepsLoop, RingKept DEF Write, CallFails
  <1>2. CASE ~ (Write \/ CallFails)
    <2>1. UNCHANGED <<loop, ring, handled, event>>
      BY <1>2 DEF Flush, Tick, FlushStops, Get, BeginValues, ReadElement, EndValues,
         LoadCounter, Unreported, loopVars
    <2> QED
      BY <2>1, RingKept
  <1> QED
    BY <1>1, <1>2

LEMMA RingStep == ASSUME ReportInv, [Next]_vars PROVE RingInv'
  <1>1. CASE UNCHANGED vars \/ Cancel \/ DeleteReport
    <2>1. UNCHANGED <<loop, ring, handled, event>>
      BY <1>1 DEF vars, loopVars, Cancel, DeleteReport
    <2> QED
      BY <2>1, RingKept
  <1>2. ASSUME NEW kind \in PushedKinds, PushEvent(kind) PROVE RingInv'
    BY <1>2, RingKept DEF PushEvent
  <1>3. CASE Restart
    BY <1>3, NewRingTypes DEF Restart, RingInv
  <1> QED
    BY <1>1, <1>2, <1>3, LoopRing, FlushRing DEF Next

-----------------------------------------------------------------------------
(* The counters. *)

LEMMA Counting ==
    ASSUME counters \in Counters, NEW kind \in Kinds,
           counters' = [counters EXCEPT ![kind] = @ + 1]
    PROVE  Total' = Total + 1 /\ Total \in Nat
  BY DEF Total, Counters, Kinds

LEMMA AccountStep == ASSUME ReportInv, [Next]_vars PROVE EventsAccounted'
  <1> USE DEF ReportInv
  <1>0. /\ eventChan \in Seq(Events) /\ Len(eventChan) \in Nat
        /\ pushed \in Nat /\ dropped \in Nat /\ counters \in Counters /\ Total \in Nat
    BY DEF TypeOK, Counters, Kinds, Total
  <1>1. ASSUME UNCHANGED <<pushed, dropped, eventChan, counters>> PROVE EventsAccounted'
    BY <1>1 DEF EventsAccounted, Total
  <1>2. ASSUME NEW kind \in PushedKinds, PushEvent(kind) PROVE EventsAccounted'
    <2>1. Total' = Total
      BY <1>2 DEF PushEvent, Total
    <2>2. CASE Len(eventChan) < ChanSize
      <3>1. Len(eventChan') = Len(eventChan) + 1
        BY <1>0, <1>2, <2>2 DEF PushEvent
      <3> QED
        BY <1>0, <1>2, <2>1, <2>2, <3>1 DEF PushEvent, EventsAccounted
    <2>3. CASE ~ (Len(eventChan) < ChanSize)
      BY <1>0, <1>2, <2>1, <2>3 DEF PushEvent, EventsAccounted
    <2> QED
      BY <2>2, <2>3
  <1>3. ASSUME NEW marshals \in BOOLEAN, TakeEvent(marshals) PROVE EventsAccounted'
    <2>1. Head(eventChan) \in Events /\ Len(eventChan') = Len(eventChan) - 1
      BY <1>0, <1>3 DEF TakeEvent
    <2>2. Head(eventChan).kind \in Kinds
      BY <2>1 DEF Events
    <2>3. Total' = Total + 1
      BY <1>0, <1>3, <2>2, Counting DEF TakeEvent
    <2>4. pushed' = pushed /\ dropped' = dropped
      BY <1>3 DEF TakeEvent
    <2> QED
      BY <1>0, <2>1, <2>3, <2>4 DEF EventsAccounted
  <1>4. CASE Restart
    BY <1>4 DEF Restart, EventsAccounted, Total, NoCounts, Kinds
  <1>5. CASE Flush
    <2>1. UNCHANGED <<pushed, dropped, eventChan, counters>>
      BY <1>5 DEF Flush, Tick, FlushStops, Get, BeginValues, ReadElement, EndValues,
         LoadCounter, Write, CallFails, Return, Unreported, loopVars
    <2> QED
      BY <1>1, <2>1
  <1>6. CASE BeginStore \/ EndStore \/ Advance \/ LoopStops
    <2>1. UNCHANGED <<pushed, dropped, eventChan, counters>>
      BY <1>6 DEF BeginStore, EndStore, Advance, LoopStops
    <2> QED
      BY <1>1, <2>1
  <1>7. CASE UNCHANGED vars \/ Cancel \/ DeleteReport
    <2>1. UNCHANGED <<pushed, dropped, eventChan, counters>>
      BY <1>7 DEF vars, loopVars, Cancel, DeleteReport
    <2> QED
      BY <1>1, <2>1
  <1> QED
    BY <1>2, <1>3, <1>4, <1>5, <1>6, <1>7 DEF Next, Loop

-----------------------------------------------------------------------------
(* pushReport. *)

\* What an empty sequence is, and one with an element more.
LEMMA Appended ==
    ASSUME NEW S, NEW seq \in Seq(S), NEW e \in S
    PROVE  /\ Len(Append(seq, e)) = Len(seq) + 1 /\ Len(seq) \in Nat
           /\ Append(seq, e)[Len(seq) + 1] = e
           /\ \A n \in 1 .. Len(seq) : Append(seq, e)[n] = seq[n]
           /\ Len(seq) = 0 => seq = <<>>
  BY EmptySeq

\* A step that leaves pushReport and what it copies alone.
LEMMA FlushKept ==
    ASSUME ReportInv, UNCHANGED <<reportVars, interval, ring, counters>>,
           loop' = "report" <=> loop = "report"
    PROVE  SummaryInv' /\ CopyInv'
  <1> USE DEF ReportInv, reportVars
  <1>1. SummaryInv'
    BY DEF SummaryInv
  <1>2. \A k : Element(ring', k) = Element(ring, k)
    OBVIOUS
  <1>3. CopyInv'
    BY <1>2 DEF CopyInv
  <1> QED
    BY <1>1, <1>3

\* While it waits nothing has been copied, whatever the event loop does.
LEMMA NothingCopied ==
    ASSUME reporter = "wait", out = <<>>, summary = <<>>, interval \/ loop # "report"
    PROVE  SummaryInv /\ CopyInv
  <1>1. Len(out) = 0 /\ Len(summary) = 0
    OBVIOUS
  <1> QED
    BY <1>1 DEF SummaryInv, CopyInv

LEMMA LoopCopies == ASSUME ReportInv, Loop PROVE SummaryInv' /\ CopyInv'
  <1> USE DEF ReportInv
  <1>0. CASE interval
    <2>1. UNCHANGED reportVars /\ interval'
      BY <1>0 DEF Loop, TakeEvent, BeginStore, EndStore, Advance, LoopStops, reportVars, envVars
    <2> QED
      BY <1>0, <2>1 DEF SummaryInv, CopyInv, reportVars
  <1>1. CASE ~ interval
    <2>1. loop # "report" /\ ~ interval'
      BY <1>1 DEF Loop, TakeEvent, BeginStore, EndStore, Advance, LoopStops, envVars
    <2>2. reporter = "wait" /\ out = <<>> /\ summary = <<>>
      BY <1>1, <2>1 DEF CopyInv, SummaryInv
    <2>3. CASE Advance
      <3>1. reporter' = "get" /\ out' = <<>> /\ summary' = <<>> /\ loop' = "report"
        BY <1>1, <2>2, <2>3 DEF Advance
      <3>2. Len(out') = 0 /\ Len(summary') = 0
        BY <3>1
      <3> QED
        BY <3>1, <3>2 DEF SummaryInv, CopyInv
    <2>4. CASE ~ Advance
      <3>1. UNCHANGED reportVars /\ loop' # "report"
        BY <2>1, <2>4 DEF Loop, TakeEvent, BeginStore, EndStore, LoopStops
      <3>2. reporter' = "wait" /\ out' = <<>> /\ summary' = <<>>
        BY <2>2, <3>1 DEF reportVars
      <3>3. Len(out') = 0 /\ Len(summary') = 0
        BY <3>2
      <3> QED
        BY <2>1, <3>1, <3>2, <3>3 DEF SummaryInv, CopyInv
    <2> QED
      BY <2>3, <2>4
  <1> QED
    BY <1>0, <1>1

LEMMA FlushCopies == ASSUME ReportInv, Flush PROVE SummaryInv' /\ CopyInv'
  <1> USE DEF ReportInv, Unreported, envVars
  <1>0. /\ out \in Seq(Elements \cup {Zero}) /\ Len(out) \in Nat /\ Len(<<>>) = 0
        /\ summary \in Seq(Nat) /\ Len(summary) \in Nat /\ ring.count \in Nat
    BY SizeAssumption DEF TypeOK, Ring
  <1>1. CASE Write \/ CallFails
    <2>1. /\ reporter' = "wait" /\ out' = <<>> /\ summary' = <<>> /\ interval' = interval
          /\ loop' # "report"
      BY <1>1 DEF Write, CallFails, Return
    <2> QED
      BY <1>0, <2>1 DEF SummaryInv, CopyInv
  <1>2. CASE Tick \/ FlushStops
    <2>1. interval /\ interval' /\ reporter' \in {"get", "stopped"} /\ summary' = <<>>
      BY <1>2 DEF Tick, FlushStops, SummaryInv
    <2> QED
      BY <2>1 DEF SummaryInv, CopyInv
  <1>3. CASE Get
    <2>1. /\ reporter' = IF found' THEN "values" ELSE "summary"
          /\ UNCHANGED <<loop, out, length, summary, ring, counters, interval>>
      BY <1>3 DEF Get, Order
    <2>2. summary = <<>> /\ reporter = "get"
      BY <1>3 DEF Get, SummaryInv
    <2>3. SummaryInv'
      BY <1>0, <2>1, <2>2 DEF SummaryInv
    <2>4. CopyInv'
      BY <1>0, <2>1, <2>2 DEF CopyInv
    <2> QED
      BY <2>3, <2>4
  <1>4. CASE BeginValues
    <2>1. /\ reporter = "values" /\ reporter' = "read" /\ length' = ring.count
          /\ UNCHANGED <<loop, found, out, summary, ring, counters, interval>>
      BY <1>4 DEF BeginValues
    <2>2. SummaryInv'
      BY <2>1 DEF SummaryInv
    <2>3. CopyInv'
      BY <1>0, <2>1 DEF CopyInv
    <2> QED
      BY <2>2, <2>3
  <1>5. CASE ReadElement
    <2>1. /\ reporter = "read" /\ Len(out) < ring.count
          /\ UNCHANGED <<reporter, loop, found, length, summary, ring, counters, interval>>
      BY <1>5 DEF ReadElement, loopVars
    <2>2. SummaryInv'
      BY <2>1 DEF SummaryInv
    <2>3. ASSUME ~ interval PROVE CopyInv'
      <3>1. out' = Append(out, Element(ring, Len(out)))
        BY <1>5, <2>1, <2>3 DEF ReadElement, CopyInv
      <3>2. Element(ring, Len(out)) \in Elements \cup {Zero}
        <4>1. Len(out) \in 0 .. Size /\ ring \in Ring
          BY <1>0, <2>1, SizeAssumption DEF TypeOK, Ring
        <4> QED
          BY <4>1, ElementTypes
      <3>3. /\ Len(out') = Len(out) + 1 /\ out'[Len(out) + 1] = Element(ring, Len(out))
            /\ \A k \in 1 .. Len(out) : out'[k] = out[k]
        BY <1>0, <3>1, <3>2, Appended
      <3>4. ASSUME NEW k \in 1 .. Len(out') PROVE out'[k] = Element(ring', k - 1)
        <4>1. CASE k \in 1 .. Len(out)
          BY <2>1, <2>3, <3>3, <4>1 DEF CopyInv
        <4>2. CASE k = Len(out) + 1
          BY <1>0, <2>1, <3>3, <4>2
        <4> QED
          BY <1>0, <3>3, <4>1, <4>2
      <3> QED
        BY <1>0, <2>1, <2>3, <3>3, <3>4 DEF CopyInv
    <2>4. CASE interval
      <3>1. interval'
        BY <2>1, <2>4
      <3> QED
        BY <2>2, <3>1 DEF CopyInv
    <2> QED
      BY <2>2, <2>3, <2>4
  <1>6. CASE EndValues
    <2>1. /\ reporter = "read" /\ Len(out) >= ring.count
          /\ reporter' = IF found THEN "summary" ELSE "write"
          /\ UNCHANGED <<loop, found, out, length, summary, ring, counters, interval>>
      BY <1>6, AfterIs DEF EndValues
    <2>2. SummaryInv'
      BY <2>1 DEF SummaryInv
    <2>3. CopyInv'
      BY <1>0, <2>1 DEF CopyInv
    <2> QED
      BY <2>2, <2>3
  <1>7. CASE LoadCounter
    <2>1. /\ reporter = "summary" /\ Len(summary) < 3
          /\ summary' = Append(summary, counters[LoadOrder[Len(summary) + 1]])
          /\ UNCHANGED <<loop, found, out, length, ring, counters, interval>>
      BY <1>7 DEF LoadCounter, SummaryInv
    <2>2. counters[LoadOrder[Len(summary) + 1]] \in Nat
      <3>1. Len(summary) + 1 \in 1 .. 3
        BY <1>0, <2>1
      <3>2. LoadOrder[Len(summary) + 1] \in Kinds
        BY <3>1, LoadOrderTypes
      <3> QED
        BY <3>2 DEF TypeOK, Counters
    <2>3. /\ Len(summary') = Len(summary) + 1
          /\ summary'[Len(summary) + 1] = counters[LoadOrder[Len(summary) + 1]]
          /\ \A n \in 1 .. Len(summary) : summary'[n] = summary[n]
      BY <1>0, <2>1, <2>2, Appended
    <2>4. reporter' = IF Len(summary') < 3 THEN "summary"
                      ELSE IF found THEN "write" ELSE "values"
      BY <1>7, AfterIs, LoadOrderTypes DEF LoadCounter
    <2>5. SummaryInv'
      <3>1. reporter' = "values" => ~ found
        BY <2>4
      <3> QED
        BY <1>0, <2>1, <2>3, <2>4, <3>1 DEF SummaryInv
    <2>6. ASSUME ~ interval, NEW n \in 1 .. Len(summary')
          PROVE  summary'[n] = counters'[LoadOrder[n]]
      <3>1. CASE n \in 1 .. Len(summary)
        BY <2>1, <2>3, <2>6, <3>1 DEF CopyInv
      <3>2. CASE n = Len(summary) + 1
        BY <2>1, <2>3, <3>2
      <3> QED
        BY <1>0, <2>3, <3>1, <3>2
    <2>7. ASSUME ~ interval PROVE reporter' = "values" => out' = <<>>
      BY <1>0, <2>1, <2>4, <2>7, EmptySeq DEF CopyInv
    <2>8. CopyInv'
      BY <1>0, <2>1, <2>4, <2>6, <2>7 DEF CopyInv
    <2> QED
      BY <2>5, <2>8
  <1> QED
    BY <1>1, <1>2, <1>3, <1>4, <1>5, <1>6, <1>7 DEF Flush

LEMMA CopyStep == ASSUME ReportInv, [Next]_vars PROVE SummaryInv' /\ CopyInv'
  <1>1. ASSUME UNCHANGED <<reportVars, interval, ring, counters, loop>>
        PROVE  SummaryInv' /\ CopyInv'
    BY <1>1, FlushKept
  <1>2. ASSUME NEW kind \in PushedKinds, PushEvent(kind) PROVE SummaryInv' /\ CopyInv'
    BY <1>1, <1>2 DEF PushEvent, envVars
  <1>3. CASE UNCHANGED vars \/ Cancel \/ DeleteReport
    BY <1>1, <1>3 DEF vars, loopVars, envVars, Cancel, DeleteReport
  <1>4. CASE Restart
    <2>1. /\ reporter' = "wait" /\ out' = <<>> /\ summary' = <<>> /\ loop' = "idle"
          /\ Len(<<>>) = 0
      BY <1>4 DEF Restart
    <2> QED
      BY <2>1 DEF SummaryInv, CopyInv
  <1> QED
    BY <1>2, <1>3, <1>4, LoopCopies, FlushCopies DEF Next

-----------------------------------------------------------------------------
(* Results and counters. *)

\* The events that have been counted and may have left a trace in the buffer.
SeenEvents == {e \in Events : e = event \/ \E n \in DOMAIN handled : handled[n] = e}
Seen(kind) == {e \in SeenEvents : e.kind = kind}
Traces == SeenEvents \cup {Zero, Torn}

\* Nothing but traces of counted events is in the buffer or in a copy of it, the
\* counters keep up with them, and so does the part of a summary loaded later.
CountedInv ==
    /\ loop \notin {"store", "storing", "stored"} => event = None
    /\ \A p \in Positions : ring.data[p] \in Traces
    /\ \A n \in DOMAIN out : out[n] \in Traces
    /\ \A kind \in Kinds :
          IsFiniteSet(Seen(kind)) /\ Cardinality(Seen(kind)) <= counters[kind]
    /\ found /\ reporter \in {"summary", "write"} =>
          \A n \in 1 .. Len(summary) : Cardinality(OfKind(out, LoadOrder[n])) <= summary[n]

\* What a copy has of one kind has been counted.
LEMMA CopyIsCounted ==
    ASSUME CountedInv, NEW kind \in Kinds, counters[kind] \in Nat
    PROVE  Cardinality(OfKind(out, kind)) <= counters[kind]
  <1>1. IsFiniteSet(Seen(kind)) /\ Cardinality(Seen(kind)) <= counters[kind]
    BY DEF CountedInv
  <1>2. OfKind(out, kind) \in SUBSET Seen(kind)
    BY DEF CountedInv, OfKind, Traces, Seen
  <1>3. /\ Cardinality(OfKind(out, kind)) <= Cardinality(Seen(kind))
        /\ Cardinality(OfKind(out, kind)) \in Nat /\ Cardinality(Seen(kind)) \in Nat
    BY <1>1, <1>2, FS_Subset, FS_CardinalityType
  <1> QED
    BY <1>1, <1>3

\* A step that neither stores nor counts, nor fills a report.
LEMMA CountKept ==
    ASSUME CountedInv, UNCHANGED <<event, handled, ring, counters, out>>,
           UNCHANGED summary \/ summary' = <<>>,
           loop' \notin {"store", "storing", "stored"} => event = None,
           found' /\ reporter' \in {"summary", "write"} =>
               \/ summary' = <<>>
               \/ found /\ reporter \in {"summary", "write"}
    PROVE  CountedInv'
  <1>1. SeenEvents' = SeenEvents
    BY DEF SeenEvents
  <1>2. Traces' = Traces /\ \A kind : Seen(kind)' = Seen(kind)
    BY <1>1 DEF Traces, Seen
  <1>3. \A kind : OfKind(out', kind) = OfKind(out, kind)
    OBVIOUS
  <1>4. CASE summary' = <<>>
    <2>1. Len(summary') = 0
      BY <1>4
    <2> QED
      BY <1>2, <2>1 DEF CountedInv
  <1>5. CASE UNCHANGED summary /\ summary # <<>>
    BY <1>2, <1>3, <1>5 DEF CountedInv
  <1> QED
    BY <1>4, <1>5

LEMMA LoopCounts == ASSUME ReportInv, CountedInv, Loop PROVE CountedInv'
  <1> USE DEF ReportInv
  <1>1. ASSUME NEW marshals \in BOOLEAN, TakeEvent(marshals) PROVE CountedInv'
    <2> DEFINE first == Head(eventChan)
    <2>1. first \in Events /\ first.kind \in Kinds
      <3>1. eventChan \in Seq(Events) /\ eventChan # <<>>
        BY <1>1 DEF TakeEvent, TypeOK
      <3>2. first \in Events
        BY <3>1
      <3> QED
        BY <3>2 DEF Events
    <2>2. /\ UNCHANGED <<handled, ring, out, found, reporter, summary>>
          /\ counters' = [counters EXCEPT ![first.kind] = @ + 1]
          /\ loop = "idle" /\ event = None
      BY <1>1 DEF TakeEvent, reportVars, CountedInv
    <2>3. \A kind \in Kinds : counters[kind] \in Nat /\ counters[kind] <= counters'[kind]
      BY <2>1, <2>2 DEF TypeOK, Counters
    <2>4. CASE ~ marshals
      <3>1. UNCHANGED <<event, loop>>
        BY <1>1, <2>4 DEF TakeEvent
      <3>2. Traces' = Traces /\ \A kind : Seen(kind)' = Seen(kind)
        BY <2>2, <3>1 DEF Traces, Seen, SeenEvents
      <3>3. \A kind \in Kinds :
                IsFiniteSet(Seen(kind)') /\ Cardinality(Seen(kind)') <= counters'[kind]
        <4> TAKE kind \in Kinds
        <4>1. IsFiniteSet(Seen(kind)) /\ Cardinality(Seen(kind)) <= counters[kind]
          BY DEF CountedInv
        <4>2. Cardinality(Seen(kind)) \in Nat /\ counters'[kind] \in Nat
          BY <2>1, <2>2, <4>1, FS_CardinalityType DEF TypeOK, Counters
        <4> QED
          BY <2>3, <3>2, <4>1, <4>2
      <3> QED
        BY <2>2, <3>1, <3>2, <3>3 DEF CountedInv
    <2>5. CASE marshals
      <3>1. event' = first /\ loop' = "store"
        BY <1>1, <2>5 DEF TakeEvent
      <3>2. SeenEvents' = SeenEvents \cup {first}
        BY <2>1, <2>2, <3>1, ReportAssumption DEF SeenEvents
      <3>3. \A kind \in Kinds :
                IsFiniteSet(Seen(kind)') /\ Cardinality(Seen(kind)') <= counters'[kind]
        <4> TAKE kind \in Kinds
        <4>1. IsFiniteSet(Seen(kind)) /\ Cardinality(Seen(kind)) <= counters[kind]
          BY DEF CountedInv
        <4>2. Cardinality(Seen(kind)) \in Nat /\ counters'[kind] \in Nat
          BY <2>1, <2>2, <4>1, FS_CardinalityType DEF TypeOK, Counters
        <4>3. CASE first.kind = kind
          <5>1. Seen(kind)' = Seen(kind) \cup {first}
            BY <3>2, <4>3 DEF Seen
          <5>2. counters'[kind] = counters[kind] + 1
            BY <2>2, <4>3 DEF TypeOK, Counters
          <5>3. /\ IsFiniteSet(Seen(kind)')
                /\ \/ Cardinality(Seen(kind)') = Cardinality(Seen(kind))
                   \/ Cardinality(Seen(kind)') = Cardinality(Seen(kind)) + 1
            BY <4>1, <5>1, FS_AddElement
          <5>4. counters[kind] \in Nat
            BY <2>3
          <5> QED
            BY <4>1, <4>2, <5>2, <5>3, <5>4
        <4>4. CASE first.kind # kind
          <5>1. Seen(kind)' = Seen(kind)
            BY <3>2, <4>4 DEF Seen
          <5> QED
            BY <2>3, <4>1, <4>2, <5>1
        <4> QED
          BY <4>3, <4>4
      <3>4. Traces \in SUBSET Traces'
        BY <3>2 DEF Traces
      <3>5. /\ \A p \in Positions : ring'.data[p] \in Traces'
            /\ \A n \in DOMAIN out' : out'[n] \in Traces'
        BY <2>2, <3>4 DEF CountedInv
      <3>6. found' /\ reporter' \in {"summary", "write"} =>
                \A n \in 1 .. Len(summary') :
                    Cardinality(OfKind(out', LoadOrder[n])) <= summary'[n]
        BY <2>2 DEF CountedInv
      <3> QED
        BY <3>1, <3>3, <3>5, <3>6 DEF CountedInv
    <2> QED
      BY <2>4, <2>5
  <1>2. ASSUME NEW value, value \in SeenEvents \cup {Torn}, ring' = Stored(ring, value),
               UNCHANGED <<event, handled, counters, reportVars>>,
               loop' \in {"storing", "stored"}
        PROVE  CountedInv'
    <2>1. Traces' = Traces /\ \A kind : Seen(kind)' = Seen(kind)
      BY <1>2 DEF Traces, Seen, SeenEvents
    <2>2. \A p \in Positions : ring'.data[p] \in {value, ring.data[p]}
      BY <1>2 DEF Stored, TypeOK, Ring
    <2>3. \A p \in Positions : ring'.data[p] \in Traces
      BY <1>2, <2>2 DEF CountedInv, Traces
    <2> QED
      BY <1>2, <2>1, <2>3 DEF CountedInv, reportVars
  <1>3. CASE BeginStore
    BY <1>2, <1>3 DEF BeginStore
  <1>4. CASE EndStore
    <2>1. event \in SeenEvents
      BY <1>4 DEF EndStore, RingInv, SeenEvents
    <2> QED
      BY <1>2, <1>4, <2>1 DEF EndStore
  <1>5. CASE Advance
    <2>1. event \in Events /\ handled \in Seq(Events)
      BY <1>5 DEF Advance, RingInv, TypeOK
    <2>2. handled' = Append(handled, event) /\ event' = None
      BY <1>5 DEF Advance
    <2>3. \A e : (\E n \in DOMAIN handled' : handled'[n] = e)
                    <=> e = event \/ \E n \in DOMAIN handled : handled[n] = e
      BY <2>1, <2>2
    <2>4. SeenEvents' = SeenEvents
      BY <2>2, <2>3, ReportAssumption DEF SeenEvents
    <2>5. Traces' = Traces /\ \A kind : Seen(kind)' = Seen(kind)
      BY <2>4 DEF Traces, Seen
    <2>6. ring'.data = ring.data
      BY <1>5 DEF Advance, Advanced, TypeOK, Ring
    <2>7. /\ UNCHANGED <<counters, out, found, summary>>
          /\ reporter' \in {reporter, "get"} /\ loop' \notin {"store", "storing", "stored"}
      BY <1>5 DEF Advance
    <2> QED
      BY <2>2, <2>5, <2>6, <2>7 DEF CountedInv
  <1>6. CASE LoopStops
    BY <1>6, CountKept DEF LoopStops, reportVars, CountedInv
  <1> QED
    BY <1>1, <1>3, <1>4, <1>5, <1>6 DEF Loop

LEMMA FlushCounts == ASSUME ReportInv, CountedInv, Flush PROVE CountedInv'
  <1> USE DEF ReportInv, Unreported
  <1>0. /\ out \in Seq(Elements \cup {Zero}) /\ Len(out) \in Nat
        /\ summary \in Seq(Nat) /\ Len(summary) \in Nat /\ ring.count \in 0 .. Size
    BY DEF TypeOK, Ring
  <1>1. CASE Write \/ CallFails
    <2>1. /\ UNCHANGED <<event, handled, ring, counters>>
          /\ reporter' = "wait" /\ out' = <<>>
          /\ loop' \in {loop, "idle"} /\ (loop' # loop => loop = "report")
      BY <1>1 DEF Write, CallFails, Return
    <2>2. Traces' = Traces /\ \A kind : Seen(kind)' = Seen(kind)
      BY <2>1 DEF Traces, Seen, SeenEvents
    <2>3. DOMAIN out' = {}
      BY <2>1
    <2> QED
      BY <2>1, <2>2, <2>3 DEF CountedInv
  <1>2. CASE Tick \/ FlushStops
    BY <1>2, CountKept DEF Tick, FlushStops, CountedInv
  <1>3. CASE Get
    <2>1. summary = <<>>
      BY <1>3 DEF Get, SummaryInv
    <2> QED
      BY <1>3, <2>1, CountKept DEF Get, CountedInv
  <1>4. CASE BeginValues
    BY <1>4, CountKept DEF BeginValues, CountedInv
  <1>5. CASE ReadElement
    <2>1. /\ UNCHANGED <<event, handled, ring, counters, loop, reporter>> /\ reporter = "read"
      BY <1>5 DEF ReadElement, loopVars
    <2>2. Traces' = Traces /\ \A kind : Seen(kind)' = Seen(kind)
      BY <2>1 DEF Traces, Seen, SeenEvents
    <2>3. \A n \in DOMAIN out' : out'[n] \in Traces
      <3>1. Element(ring, Len(out)) \in Traces
        <4>1. Len(out) \in 0 .. Size /\ ring \in Ring
          BY <1>0, <1>5, SizeAssumption DEF ReadElement, TypeOK
        <4>2. Wrapped(ring.start + Len(out)) \in Positions
          BY <4>1, Wraps DEF Ring
        <4> QED
          BY <4>1, <4>2, ElementIs DEF CountedInv
      <3>2. out' \in {out, Append(out, Element(ring, Len(out)))}
        BY <1>5 DEF ReadElement
      <3> QED
        BY <1>0, <3>1, <3>2 DEF CountedInv
    <2> QED
      BY <2>1, <2>2, <2>3 DEF CountedInv
  <1>6. CASE EndValues
    <2>1. found => summary = <<>>
      BY <1>0, <1>6, EmptySeq DEF EndValues, SummaryInv
    <2> QED
      BY <1>6, <2>1, CountKept DEF EndValues, CountedInv
  <1>7. CASE LoadCounter
    <2> DEFINE kind == LoadOrder[Len(summary) + 1]
    <2>1. /\ reporter = "summary" /\ Len(summary) < 3
          /\ summary' = Append(summary, counters[kind])
          /\ UNCHANGED <<loop, found, out, event, handled, ring, counters>>
      BY <1>7 DEF LoadCounter, SummaryInv
    <2>2. kind \in Kinds /\ counters[kind] \in Nat
      <3>1. Len(summary) + 1 \in 1 .. 3
        BY <1>0, <2>1
      <3>2. kind \in Kinds
        BY <3>1, LoadOrderTypes
      <3> QED
        BY <3>2 DEF TypeOK, Counters
    <2>3. Traces' = Traces /\ \A k : Seen(k)' = Seen(k)
      BY <2>1 DEF Traces, Seen, SeenEvents
    <2>4. Cardinality(OfKind(out, kind)) <= counters[kind]
      BY <2>2, CopyIsCounted
    <2>5. /\ Len(summary') = Len(summary) + 1
          /\ summary'[Len(summary) + 1] = counters[kind]
          /\ \A n \in 1 .. Len(summary) : summary'[n] = summary[n]
      BY <1>0, <2>1, <2>2, Appended
    <2>6. ASSUME found, NEW n \in 1 .. Len(summary')
          PROVE  Cardinality(OfKind(out, LoadOrder[n])) <= summary'[n]
      <3>1. CASE n \in 1 .. Len(summary)
        BY <2>1, <2>5, <2>6, <3>1 DEF CountedInv
      <3>2. CASE n = Len(summary) + 1
        BY <2>4, <2>5, <3>2
      <3> QED
        BY <1>0, <2>5, <3>1, <3>2
    <2> QED
      BY <2>1, <2>3, <2>6 DEF CountedInv
  <1> QED
    BY <1>1, <1>2, <1>3, <1>4, <1>5, <1>6, <1>7 DEF Flush

LEMMA CountStep == ASSUME ReportInv, CountedInv, [Next]_vars PROVE CountedInv'
  <1>1. CASE UNCHANGED vars \/ Cancel \/ DeleteReport
    BY <1>1, CountKept DEF vars, loopVars, reportVars, Cancel, DeleteReport, CountedInv
  <1>2. ASSUME NEW kind \in PushedKinds, PushEvent(kind) PROVE CountedInv'
    BY <1>2, CountKept DEF PushEvent, reportVars, CountedInv
  <1>3. CASE Restart
    <2>1. /\ event' = None /\ handled' = <<>> /\ ring' = NewRing /\ counters' = NoCounts
          /\ out' = <<>> /\ found' = FALSE
      BY <1>3 DEF Restart
    <2>2. DOMAIN handled' = {} /\ DOMAIN out' = {}
      BY <2>1
    <2>3. SeenEvents' = {}
      BY <2>1, <2>2, ReportAssumption DEF SeenEvents
    <2>4. \A kind \in Kinds : Seen(kind)' = {} /\ counters'[kind] = 0
      BY <2>1, <2>3 DEF Seen, NoCounts
    <2>5. \A kind \in Kinds :
              IsFiniteSet(Seen(kind)') /\ Cardinality(Seen(kind)') <= counters'[kind]
      BY <2>4, FS_EmptySet
    <2>6. \A p \in Positions : ring'.data[p] \in Traces'
      BY <2>1 DEF NewRing, Traces
    <2> QED
      BY <2>1, <2>2, <2>5, <2>6 DEF CountedInv
  <1> QED
    BY <1>1, <1>2, <1>3, LoopCounts, FlushCounts DEF Next

LEMMA InitCounts == Init => CountedInv
  <1> SUFFICES ASSUME Init PROVE CountedInv
    OBVIOUS
  <1>1. SeenEvents = {}
    <2>1. event = None /\ DOMAIN handled = {}
      BY DEF Init
    <2> QED
      BY <2>1, ReportAssumption DEF SeenEvents
  <1>2. \A kind \in Kinds : Seen(kind) = {} /\ counters[kind] = 0
    BY <1>1 DEF Init, Seen, NoCounts
  <1>3. \A kind \in Kinds : IsFiniteSet(Seen(kind)) /\ Cardinality(Seen(kind)) <= counters[kind]
    BY <1>2, FS_EmptySet
  <1>4. \A p \in Positions : ring.data[p] \in Traces
    BY DEF Init, NewRing, Traces
  <1>5. event = None /\ DOMAIN out = {} /\ found = FALSE
    BY DEF Init
  <1> QED
    BY <1>3, <1>4, <1>5 DEF CountedInv

-----------------------------------------------------------------------------
(* The theorems. *)

THEOREM ReportSound == Spec => []ReportInv
  <1>1. ReportInv /\ [Next]_vars => ReportInv'
    <2> SUFFICES ASSUME ReportInv, [Next]_vars PROVE ReportInv'
      OBVIOUS
    <2> QED
      BY TypeStep, RingStep, CopyStep, AccountStep DEF ReportInv
  <1> QED
    BY <1>1, Initial, PTL DEF Spec

\* The types of the subscriber, its buffer and its report.
THEOREM ReportTypeCorrect == Spec => []TypeOK
  <1>1. ReportInv => TypeOK
    BY DEF ReportInv
  <1> QED
    BY <1>1, ReportSound, PTL

\* Through any number of wraps of a buffer of any size, between two stores
\* Values returns the newest of the events stored.
THEOREM RingIsSound == Spec => []RingHoldsNewest
  <1>1. ReportInv => RingHoldsNewest
    BY ValuesAreNewest DEF ReportInv, RingInv, TypeOK, RingHoldsNewest
  <1> QED
    BY <1>1, ReportSound, PTL

\* Every event pushed was dropped at the channel, is queued or was counted.
THEOREM NoneLost == Spec => []EventsAccounted
  <1>1. ReportInv => EventsAccounted
    BY DEF ReportInv
  <1> QED
    BY <1>1, ReportSound, PTL

\* Without a flush interval the slice Values fills is the buffer, and the
\* summary the counters, when the report is written.
LEMMA CopiesAreExact ==
    ASSUME ReportInv, ~ interval, reporter = "write"
    PROVE  out = Newest(handled) /\ Summary = counters
  <1> USE DEF ReportInv
  <1>1. /\ out \in Seq(Elements \cup {Zero}) /\ Len(out) = ring.count
        /\ \A k \in 1 .. Len(out) : out[k] = Element(ring, k - 1)
        /\ loop = "report"
    BY DEF TypeOK, CopyInv
  <1>2. out = Values(ring)
    <2>1. out = [k \in 1 .. Len(out) |-> out[k]]
      BY <1>1
    <2> QED
      BY <1>1, <2>1 DEF Values
  <1>3. Values(ring) = Newest(handled)
    BY <1>1, ValuesAreNewest DEF RingInv, TypeOK
  <1>4. /\ Summary \in Counters /\ counters \in Counters
        /\ \A n \in 1 .. 3 : Summary[LoadOrder[n]] = counters[LoadOrder[n]]
    <2>1. summary \in Seq(Nat) /\ Len(summary) = 3
      BY DEF TypeOK, SummaryInv
    <2>2. \A n \in 1 .. 3 : summary[n] = counters[LoadOrder[n]]
      BY <2>1 DEF CopyInv
    <2> QED
      BY <2>1, <2>2, SummaryTypes DEF TypeOK
  <1>5. \A kind \in Kinds : Summary[kind] = counters[kind]
    BY <1>4, LoadOrderTypes
  <1>6. Summary = counters
    BY <1>4, <1>5 DEF Counters
  <1> QED
    BY <1>2, <1>3, <1>6

\* No other step changes a report, except to delete it.
LEMMA OnlyWriteReports == ASSUME [Next]_vars, ~ Write PROVE report' \in {report, None}
  BY DEF Next, vars, PushEvent, Loop, TakeEvent, BeginStore, EndStore, Advance,
     LoopStops, Flush, Tick, FlushStops, Get, BeginValues, ReadElement, EndValues,
     LoadCounter, CallFails, Cancel, DeleteReport, Restart

\* Without a flush interval every report written is exact.
THEOREM ReportsAreExact == Spec => ReportIsExact
  <1> DEFINE Exact == ~ interval /\ report' \notin {report, None} =>
                          report'.results = Newest(handled) /\ report'.summary = counters
  <1>1. ASSUME ReportInv, [Next]_vars PROVE Exact
    <2>1. CASE Write
      <3>1. report' = [results |-> out, summary |-> Summary] /\ reporter = "write"
        BY <2>1 DEF Write
      <3> QED
        BY <1>1, <3>1, CopiesAreExact
    <2>2. CASE ~ Write
      BY <1>1, <2>2, OnlyWriteReports
    <2> QED
      BY <2>1, <2>2
  <1>2. ASSUME ReportInv, [Next]_vars PROVE [Exact]_vars
    BY <1>1, <1>2
  <1> QED
    BY <1>2, ReportSound, PTL DEF Spec, ReportIsExact

\* Whatever the event loop does between the copies that an update makes, the summary
\* is never smaller than the number of distinct results of each kind in the report.
THEOREM UpdatesAreCounted == Spec => UpdateCountsItsResults
  <1> DEFINE Counted ==
        report' \notin {report, None} /\ found =>
            \A kind \in Kinds :
                Cardinality(OfKind(report'.results, kind)) <= report'.summary[kind]
  <1>1. ASSUME ReportInv, CountedInv, [Next]_vars PROVE Counted
    <2>1. CASE Write
      <3>1. report' = [results |-> out, summary |-> Summary] /\ reporter = "write"
        BY <2>1 DEF Write
      <3>2. summary \in Seq(Nat) /\ Len(summary) = 3
        BY <1>1, <3>1 DEF ReportInv, TypeOK, SummaryInv
      <3>3. ASSUME found, NEW kind \in Kinds
            PROVE  Cardinality(OfKind(out, kind)) <= Summary[kind]
        <4>1. PICK n \in 1 .. 3 : LoadOrder[n] = kind
          BY LoadOrderTypes
        <4>2. Cardinality(OfKind(out, LoadOrder[n])) <= summary[n]
          BY <1>1, <3>1, <3>2, <3>3 DEF CountedInv
        <4>3. Summary[LoadOrder[n]] = summary[n]
          BY <3>2, SummaryTypes
        <4> QED
          BY <4>1, <4>2, <4>3
      <3> QED
        BY <3>1, <3>3
    <2>2. CASE ~ Write
      BY <1>1, <2>2, OnlyWriteReports
    <2> QED
      BY <2>1, <2>2
  <1>2. ASSUME ReportInv, CountedInv, [Next]_vars PROVE [Counted]_vars
    BY <1>1, <1>2
  <1>3. Spec => []CountedInv
    BY CountStep, InitCounts, ReportSound, PTL DEF Spec
  <1> QED
    BY <1>2, <1>3, ReportSound, PTL DEF Spec, UpdateCountsItsResults
===============================================================================
