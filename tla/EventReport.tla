------------------------------ MODULE EventReport ------------------------------
(***************************************************************************)
(* The open reports subscriber of pkg/events/openreports.go.  Requests     *)
(* push events without blocking into a bounded channel; the event loop     *)
(* counts them and stores them in the ring buffer; pushReport copies       *)
(* buffer and counters into a report on the API server.  Without a flush   *)
(* interval the event loop itself calls pushReport after each event; with  *)
(* one, a flush worker calls it on every tick, and the two goroutines      *)
(* share the buffer without a lock.                                        *)
(*                                                                         *)
(* Storing an element is a data race with a reader, so it takes two steps  *)
(* between which the slot holds Torn, any mixture of the old and the new   *)
(* element; Values reads count, start and one slot at each turn of its     *)
(* loop, as the code does.                                                 *)
(***************************************************************************)
EXTENDS RingBuffer, FiniteSets

CONSTANTS
    ChanSize,     \* capacity of eventChan (50 in the code)
    PushedKinds,  \* the kinds of events the front ends push
    Torn,         \* a slot that is being written
    None,         \* no event, no report
    MaxEvents,    \* bound: events pushed
    MaxFaults     \* bound: deletions of the report and restarts

\* The counters, in the order pushReport and newReport load them.
LoadOrder == <<"Errored", "Allowed", "Denied">>
Kinds == {"Errored", "Allowed", "Denied"}

Events == [id : 1 .. MaxEvents, kind : Kinds]
Counters == [Kinds -> Nat]
Report == [results : Seq(Elements \cup {Zero}), summary : Counters]

ASSUME ReportAssumption ==
    /\ ChanSize \in Nat /\ MaxEvents \in Nat
    /\ PushedKinds \subseteq Kinds
    /\ Elements = Events \cup {Torn}
    /\ None \notin Events /\ None \notin Report

VARIABLES
    interval,   \* TRUE if there is a flush interval
    pushed,     \* how many events the front ends have pushed
    dropped,    \* how many of them found the channel full
    eventChan,  \* eventChan
    loop,       \* where the event loop is
    event,      \* the event it handles
    handled,    \* the events it has stored, since the process started
    ring,       \* results
    counters,   \* allowed, denied, errored
    reporter,   \* where pushReport is
    found,      \* whether Get found the report
    out,        \* the slice Values fills
    length,     \* the length Values gave it
    summary,    \* the counters loaded so far
    report,     \* the report on the API server
    cancelled,  \* the context is done
    panicked,   \* the process died of an index out of range
    faults      \* deletions of the report and restarts so far

loopVars == <<eventChan, loop, event, handled, ring, counters>>
reportVars == <<reporter, found, out, length, summary>>
envVars == <<interval, cancelled, panicked, faults>>
vars == <<pushed, dropped, loopVars, reportVars, report, envVars>>

NoCounts == [kind \in Kinds |-> 0]

TypeOK ==
    /\ interval \in BOOLEAN
    /\ pushed \in Nat /\ dropped \in Nat /\ faults \in Nat
    /\ eventChan \in Seq(Events)
    /\ loop \in {"idle", "store", "storing", "stored", "report", "stopped"}
    /\ event \in Events \cup {None}
    /\ handled \in Seq(Events)
    /\ ring \in Ring
    /\ counters \in Counters
    /\ reporter \in {"wait", "get", "values", "read", "summary", "write", "stopped"}
    /\ found \in BOOLEAN
    /\ out \in Seq(Elements \cup {Zero})
    /\ length \in Nat
    /\ summary \in Seq(Nat)
    /\ report \in Report \cup {None}
    /\ cancelled \in BOOLEAN /\ panicked \in BOOLEAN

\* NewOpenreportsSubscriber
Init ==
    /\ interval \in BOOLEAN
    /\ eventChan = <<>>
    /\ loop = "idle" /\ event = None /\ handled = <<>>
    /\ ring = NewRing
    /\ counters = NoCounts
    /\ reporter = "wait" /\ found = FALSE
    /\ out = <<>> /\ length = 0 /\ summary = <<>>
    /\ pushed = 0 /\ dropped = 0
    /\ report = None
    /\ cancelled = FALSE /\ panicked = FALSE /\ faults = 0

-----------------------------------------------------------------------------
(* Push, from any number of requests: a full channel drops the event. *)

PushEvent(kind) ==
    /\ ~ panicked /\ pushed < MaxEvents
    /\ pushed' = pushed + 1
    /\ IF Len(eventChan) < ChanSize
       THEN /\ eventChan' = Append(eventChan, [id |-> pushed', kind |-> kind])
            /\ UNCHANGED dropped
       ELSE dropped' = dropped + 1 /\ UNCHANGED eventChan
    /\ UNCHANGED <<loop, event, handled, ring, counters, reportVars, report, envVars>>

-----------------------------------------------------------------------------
(* The event loop.  After a cancellation its select may still take events.   *)

\* Fault: the request is marshalled first, so that a failure is not counted.
TakeEventMarshalFirst(marshals) ==
    /\ loop = "idle" /\ ~ panicked
    /\ eventChan # <<>>
    /\ eventChan' = Tail(eventChan)
    /\ IF marshals
       THEN /\ counters' = [counters EXCEPT ![Head(eventChan).kind] = @ + 1]
            /\ event' = Head(eventChan) /\ loop' = "store"
       ELSE UNCHANGED <<event, loop, counters>>
    /\ UNCHANGED <<pushed, dropped, handled, ring, reportVars, report, envVars>>

\* newReportResult counts the event before it marshals the request, which may
\* fail and leaves the event counted and without a result.
TakeEvent(marshals) ==
    /\ loop = "idle" /\ ~ panicked
    /\ eventChan # <<>>
    /\ eventChan' = Tail(eventChan)
    /\ counters' = [counters EXCEPT ![Head(eventChan).kind] = @ + 1]
    /\ IF marshals
       THEN event' = Head(eventChan) /\ loop' = "store"
       ELSE UNCHANGED <<event, loop>>
    /\ UNCHANGED <<pushed, dropped, handled, ring, reportVars, report, envVars>>

BeginStore ==
    /\ loop = "store" /\ ~ panicked
    /\ ring' = Stored(ring, Torn)
    /\ loop' = "storing"
    /\ UNCHANGED <<pushed, dropped, eventChan, event, handled, counters>>
    /\ UNCHANGED <<reportVars, report, envVars>>

EndStore ==
    /\ loop = "storing" /\ ~ panicked
    /\ ring' = Stored(ring, event)
    /\ loop' = "stored"
    /\ UNCHANGED <<pushed, dropped, eventChan, event, handled, counters>>
    /\ UNCHANGED <<reportVars, report, envVars>>

\* The indices move; without a flush interval the loop goes on to pushReport.
Advance ==
    /\ loop = "stored" /\ ~ panicked
    /\ ring' = Advanced(ring)
    /\ handled' = Append(handled, event)
    /\ event' = None
    /\ IF interval THEN loop' = "idle" /\ UNCHANGED reporter
       ELSE loop' = "report" /\ reporter' = "get"
    /\ UNCHANGED <<pushed, dropped, eventChan, counters>>
    /\ UNCHANGED <<found, out, length, summary, report, envVars>>

LoopStops ==
    /\ loop = "idle" /\ cancelled /\ ~ panicked
    /\ loop' = "stopped"
    /\ UNCHANGED <<pushed, dropped, eventChan, event, handled, ring, counters>>
    /\ UNCHANGED <<reportVars, report, envVars>>

Loop ==
    \/ \E marshals \in BOOLEAN : TakeEvent(marshals)
    \/ BeginStore \/ EndStore \/ Advance \/ LoopStops

-----------------------------------------------------------------------------
(* pushReport, in the event loop or in the flush worker. *)

Unreported == <<pushed, dropped, eventChan, event, handled, ring, counters, envVars>>

Tick ==
    /\ interval /\ reporter = "wait" /\ ~ panicked
    /\ reporter' = "get"
    /\ UNCHANGED <<Unreported, loop, found, out, length, summary, report>>

FlushStops ==
    /\ interval /\ reporter = "wait" /\ cancelled /\ ~ panicked
    /\ reporter' = "stopped"
    /\ UNCHANGED <<Unreported, loop, found, out, length, summary, report>>

\* pushReport returns to the loop that called it.
Return ==
    /\ reporter' = "wait"
    /\ found' = FALSE
    /\ out' = <<>> /\ length' = 0 /\ summary' = <<>>
    /\ loop' = IF loop = "report" THEN "idle" ELSE loop
    /\ UNCHANGED Unreported

\* Fault: the flush worker ends with its first failed call.
CallFailsAndStops ==
    /\ reporter \in {"get", "write"} /\ ~ panicked
    /\ reporter' = "stopped"
    /\ UNCHANGED <<Unreported, loop, found, out, length, summary, report>>

\* An API call fails, because the context is done or for any other reason.
CallFails ==
    /\ reporter \in {"get", "write"} /\ ~ panicked
    /\ Return
    /\ UNCHANGED report

\* A report that is there gets its results first; newReport, for one that is
\* not, evaluates the summary first.
\* Fault: both fill in the summary first.
OrderOfNewReport(isUpdate) == <<"summary", "values", "write">>

Order(isUpdate) == IF isUpdate THEN <<"values", "summary", "write">>
                               ELSE <<"summary", "values", "write">>

After(step) == LET order == Order(found) IN
    order[1 + CHOOSE n \in 1 .. 2 : order[n] = step]

Get ==
    /\ reporter = "get" /\ ~ panicked /\ ~ cancelled
    /\ found' = (report # None)
    /\ reporter' = Order(found')[1]
    /\ UNCHANGED <<Unreported, loop, out, length, summary, report>>

\* Values makes a slice as long as count is now.
BeginValues ==
    /\ reporter = "values" /\ ~ panicked
    /\ length' = ring.count
    /\ reporter' = "read"
    /\ UNCHANGED <<Unreported, loop, found, out, summary, report>>

\* A turn of its loop: the condition reads count again, and assigning behind the
\* end of the slice is a run-time panic.
ReadElement ==
    /\ reporter = "read" /\ ~ panicked
    /\ Len(out) < ring.count
    /\ IF Len(out) < length
       THEN out' = Append(out, Element(ring, Len(out))) /\ UNCHANGED panicked
       ELSE panicked' = TRUE /\ UNCHANGED out
    /\ UNCHANGED <<pushed, dropped, loopVars, reporter, found, length, summary>>
    /\ UNCHANGED <<report, interval, cancelled, faults>>

EndValues ==
    /\ reporter = "read" /\ ~ panicked
    /\ Len(out) >= ring.count
    /\ reporter' = After("values")
    /\ UNCHANGED <<Unreported, loop, found, out, length, summary, report>>

LoadCounter ==
    /\ reporter = "summary" /\ ~ panicked
    /\ summary' = Append(summary, counters[LoadOrder[Len(summary) + 1]])
    /\ reporter' = IF Len(summary') < Len(LoadOrder) THEN "summary" ELSE After("summary")
    /\ UNCHANGED <<Unreported, loop, found, out, length, report>>

Summary == [kind \in Kinds |-> summary[CHOOSE n \in DOMAIN LoadOrder : LoadOrder[n] = kind]]

\* Update fails on a report that is gone, Create on one that is there.
Write ==
    /\ reporter = "write" /\ ~ panicked /\ ~ cancelled
    /\ found <=> report # None
    /\ report' = [results |-> out, summary |-> Summary]
    /\ Return

Flush ==
    \/ Tick \/ FlushStops
    \/ Get \/ BeginValues \/ ReadElement \/ EndValues \/ LoadCounter
    \/ Write \/ CallFails

-----------------------------------------------------------------------------
(* The environment. *)

Cancel ==
    /\ ~ cancelled /\ ~ panicked
    /\ cancelled' = TRUE
    /\ UNCHANGED <<pushed, dropped, loopVars, reportVars, report, interval, panicked, faults>>

DeleteReport ==
    /\ report # None /\ faults < MaxFaults
    /\ report' = None
    /\ faults' = faults + 1
    /\ UNCHANGED <<pushed, dropped, loopVars, reportVars, interval, cancelled, panicked>>

\* A new process in the same pod writes to the report of the old one.
Restart ==
    /\ faults < MaxFaults
    /\ faults' = faults + 1
    /\ eventChan' = <<>>
    /\ loop' = "idle" /\ event' = None /\ handled' = <<>>
    /\ ring' = NewRing
    /\ counters' = NoCounts
    /\ reporter' = "wait" /\ found' = FALSE
    /\ out' = <<>> /\ length' = 0 /\ summary' = <<>>
    /\ pushed' = 0 /\ dropped' = 0
    /\ UNCHANGED <<interval, report>>
    /\ cancelled' = FALSE /\ panicked' = FALSE

Next ==
    \/ \E kind \in PushedKinds : PushEvent(kind)
    \/ Loop \/ Flush
    \/ Cancel \/ DeleteReport \/ Restart

\* The goroutines run, ticks keep coming, and an API call that is retried for
\* ever succeeds.  Nothing obliges a request to come.
Spec ==
    /\ Init /\ [][Next]_vars
    /\ WF_vars(Loop)
    /\ WF_vars(Flush) /\ SF_vars(Get) /\ SF_vars(Write)

-----------------------------------------------------------------------------
\* Between two stores the buffer holds the newest of the events the loop has
\* stored, oldest first, through every wrap around.
RingHoldsNewest ==
    loop \notin {"storing", "stored"} => Values(ring) = Newest(handled)

Total == counters["Errored"] + counters["Allowed"] + counters["Denied"]

\* No event is lost between the channel and the counters: what was pushed was
\* dropped at the channel, is queued or has been counted, whether or not its
\* request could be marshalled.
EventsAccounted == pushed = dropped + Len(eventChan) + Total

OfKind(results, kind) ==
    {result \in {results[n] : n \in DOMAIN results} \ {Zero, Torn} : result.kind = kind}

\* An update of the report reads the results before the counters, and the loop
\* counts an event before it stores it: however the two goroutines interleave, the
\* summary is never smaller than the number of distinct results of each kind in the
\* report.  Distinct, because a buffer that is overwritten behind the copy may show
\* it one result twice; not equal, because the loop may count on after the copy and
\* the buffer forgets what the counters do not.
UpdateCountsItsResults ==
    [][report' \notin {report, None} /\ found =>
        \A kind \in Kinds :
            Cardinality(OfKind(report'.results, kind)) <= report'.summary[kind]]_vars

\* Without a flush interval a report that is written is exact: the newest events
\* and all that were counted.
ReportIsExact ==
    [][~ interval /\ report' \notin {report, None} =>
        report'.results = Newest(handled) /\ report'.summary = counters]_vars

\* With a flush interval the report catches up with the events once no more of
\* them come, whatever calls failed before, unless the process ends.
ReportCatchesUp ==
    <>[](\/ ~ interval \/ cancelled \/ panicked
         \/ /\ report # None
            /\ report.results = Newest(handled) /\ report.summary = counters)

\* openreports.go, line 39: the buffer needs no mutex because in all cases events
\* are processed serially.  The flush worker reads it while the loop writes.
ValuesInBounds == ~ panicked
===============================================================================
