---------------------------- MODULE DeliveryJournal ----------------------------
(***************************************************************************)
(* The journal of the notifications about worker restarts                  *)
(* (bot/src/persistence/worker-restart-alert-repository.ts), what the      *)
(* notification service writes to it, and what the control routes read     *)
(* from it: pages, a summary and trends per destination.  The repository   *)
(* exists in memory and in Postgres, and each computes its answers in its  *)
(* own way.                                                                *)
(*                                                                         *)
(* Time goes on by Step units; Day, Week, MaxWindow and Cooldown are in     *)
(* those units, too.                                                       *)
(* RestartAlerts models when alerts are saved and destinations notified.   *)
(***************************************************************************)
EXTENDS Integers, Sequences, FiniteSets, SequencesExt

CONSTANTS
  Keys,             \* the alerts' dedupe keys
  Names,            \* the destinations' names, in their order
  Types,            \* of notifications
  Deployments,      \* [store : {"postgres", "memory"}, sinks : {"routed", "legacy"}]:
                    \* the repository, and named destinations or only sinks
  Outcomes,         \* of the named destinations' deliveries, of the four statuses
  Queries,          \* of the client: [from, to, destination, severity, status]; -1: by default
  Cooldown,         \* of a legacy sink
  Day, Week, MaxWindow,       \* Day <= Week <= MaxWindow
  Enough,           \* deliveries in the longer window that make a trend (5)
  PageSize, MaxPage,          \* asked for, and the most a page holds (200)
  MaxOffset,                  \* the largest offset (50,000)
  Step, MaxClock, MaxEvents, MaxIds \* bounds of the model

VARIABLES
  service,   \* one of the Deployments, for good
  alerts,    \* the alerts' rows, by dedupe key
  ids,       \* alert ids given out
  events,    \* the events' rows, in the order they were recorded
  counter,   \* eventTimeCounter of the running control service
  clock,
  read       \* a client that reads the journal page by page

vars == <<service, alerts, ids, events, counter, clock, read>>

-----------------------------------------------------------------------------
Destination == ToSet(Names)
Sink == "webhook"    \* the legacy external sink

Alert == [id : 0..MaxIds, severity : {"warning", "critical"}, status : {"none", "open", "resolved"}]
NoAlert == [id |-> 0, severity |-> "warning", status |-> "none"]

(* An event that is a notification; other events have no scope and reach no *)
(* answer below.  Legacy sinks and a dispatch that threw leave the          *)
(* destination out.                                                         *)
DeliveryEvent ==
  [alert : 1..MaxIds, scope : {"internal", "external"}, destination : Destination \cup {"none"},
   sink : Destination \cup {Sink, "log", "none"}, type : Types,
   status : {"sent", "failed", "suppressed", "skipped"}, at : Nat]

NoQuery == [from |-> -1, to |-> -1, destination |-> {}, severity |-> {}, status |-> {}]
NoRead == [pc |-> "idle", query |-> NoQuery, offset |-> 0, seen |-> {}, expected |-> {},
           past |-> FALSE, disturbed |-> FALSE, repeated |-> FALSE]

Init ==
  /\ service \in Deployments
  /\ alerts = [key \in Keys |-> NoAlert] /\ ids = 0
  /\ events = <<>> /\ counter = 0 /\ clock = 0
  /\ read = NoRead

-----------------------------------------------------------------------------
(* load and its kin: the stored alert with an id *)
Stored(id) == \E key \in Keys : alerts[key].id = id
AlertOf(id) == alerts[CHOOSE key \in Keys : alerts[key].id = id]

(* events.alert_id references alerts.id *)
Referenced(id) == \E i \in DOMAIN events : events[i].alert = id

(* save puts the row in the place of the one with its dedupe key, whose id  *)
(* it replaces; Postgres refuses to replace an id that events refer to.     *)
Save(key, alert) ==
  /\ alert.status # "none" /\ alert.id # 0
  /\ alert.id \in {alerts[key].id, ids + 1}
  /\ service.store = "postgres" /\ alert.id # alerts[key].id => ~Referenced(alerts[key].id)
  /\ alerts' = [alerts EXCEPT ![key] = alert]
  /\ ids' = IF alert.id > ids THEN alert.id ELSE ids
  /\ read' = [read EXCEPT !.disturbed = @ \/ alert.id # alerts[key].id
                                          \/ alert.severity # alerts[key].severity]
  /\ UNCHANGED <<service, events, counter, clock>>

-----------------------------------------------------------------------------
(* The events about an alert, and their order: latest first (listEvents) *)
EventsOf(id) == {i \in DOMAIN events : events[i].alert = id}
Newer(i, j) ==
  \/ events[i].at > events[j].at
  \/ events[i].at = events[j].at /\ i > j

(* latestNotificationEvents, destinationKey, buildNotificationSummary: some *)
(* destination's latest external notification was sent                      *)
Group(e) == IF e.destination # "none" THEN e.destination ELSE e.sink
ExternallyNotified(id) ==
  LET external == {i \in EventsOf(id) : events[i].scope = "external"}
  IN  \E i \in external :
        /\ events[i].status = "sent"
        /\ \A j \in external : Newer(j, i) => Group(events[j]) # Group(events[i])

(* shouldNotifyExternally *)
Notifies(type, alert) ==
  CASE type = "alert_acknowledged" -> FALSE
    [] type = "alert_resolved" -> ExternallyNotified(alert.id)
    [] OTHER -> alert.severity = "critical"

Notification(alert, scope, destination, sink, type, status, at) ==
  [alert |-> alert.id, scope |-> scope, destination |-> destination, sink |-> sink,
   type |-> type, status |-> status, at |-> at]

(* recordEvent; Postgres refuses an event whose alert is gone.  The alert   *)
(* is the dispatcher's copy and may have been replaced since.               *)
Record(e) ==
  /\ Len(events) < MaxEvents
  /\ service.store = "postgres" => Stored(e.alert)
  /\ events' = Append(events, e)
  /\ UNCHANGED <<service, alerts, ids, clock, read>>

(* recordNotificationEvent stamps ever later than the clock, so that "rapid *)
(* successive events never share identical ISO timestamps"; a restart       *)
(* begins again.                                                            *)
Stamped(alert, scope, destination, sink, type, status) ==
  /\ counter' = counter + 1
  /\ Record(Notification(alert, scope, destination, sink, type, status, clock + counter'))

(* The structured log is told of every notification. *)
DispatchInternal(alert, type) == Stamped(alert, "internal", "none", "log", type, "sent")

(* A named destination is sent the payload in its format, once, or is       *)
(* passed over.                                                             *)
DispatchRouted(alert, type, destination, status) ==
  /\ service.sinks = "routed"
  /\ Stamped(alert, "external", destination, destination, type, status)

(* Without named destinations the external sink is used; its events carry   *)
(* no destination.                                                          *)
LegacyCooling(alert, type) ==
  LET earlier == {i \in EventsOf(alert.id) : events[i].sink = Sink /\ events[i].type = type}
  IN  \E i \in earlier :
        (\A j \in earlier \ {i} : Newer(i, j)) /\ clock - events[i].at < Cooldown

DispatchLegacy(alert, type, status) ==
  /\ service.sinks = "legacy"
  /\ status \in IF ~Notifies(type, alert) THEN {"skipped"}
                ELSE IF LegacyCooling(alert, type) THEN {"suppressed"} ELSE {"sent", "failed"}
  /\ Stamped(alert, "external", "none", Sink, type, status)

(* A dispatch that threw is recorded by the alert service. *)
DispatchFailed(alert, type) ==
  /\ Record(Notification(alert, "external", "none", "none", type, "failed", clock))
  /\ UNCHANGED counter

Restart ==
  /\ service.store = "postgres" /\ counter > 0
  /\ counter' = 0
  /\ UNCHANGED <<service, alerts, ids, events, clock, read>>

(* The bound: time stands still at MaxClock. *)
Tick ==
  /\ clock < MaxClock
  /\ clock' = clock + Step
  /\ UNCHANGED <<service, alerts, ids, events, counter, read>>

-----------------------------------------------------------------------------
(* buildDeliveryFilters: the window of a query ends now, or where it says,  *)
(* and is refused when it is backward or too long.                          *)
Default == -1
Filters(query, window) ==
  LET to == IF query.to = Default THEN clock ELSE query.to
  IN  [to |-> to, from |-> IF query.from = Default THEN to - window ELSE query.from,
       destination |-> query.destination, severity |-> query.severity, status |-> query.status]
Refused(f) == f.from > f.to \/ f.to - f.from > MaxWindow

(* matchesDeliveryFilterValue *)
Passes(wanted, value) == wanted = {} \/ value \in wanted

InWindow(f, e) == f.from <= e.at /\ e.at <= f.to

(* collectDeliveryRows: the events about an alert that is still there.  The *)
(* severity is the alert's by now.                                          *)
MemoryRows(f) ==
  {i \in DOMAIN events :
     LET e == events[i]
     IN  /\ e.scope = "external" /\ e.destination # "none"
         /\ Passes(f.destination, e.destination) /\ Passes(f.status, e.status)
         /\ InWindow(f, e)
         /\ Stored(e.alert) /\ Passes(f.severity, AlertOf(e.alert).severity)}

(* Mutant: the window's end is left out. *)
PostgresRowsHalfOpen(f) ==
  {i \in DOMAIN events :
     LET e == events[i]
     IN  /\ e.scope = "external" /\ Stored(e.alert)
         /\ Passes(f.destination, e.destination) /\ Passes(f.status, e.status)
         /\ Passes(f.severity, AlertOf(e.alert).severity)
         /\ f.from <= e.at /\ e.at < f.to}

(* The join of events and alerts under buildDeliveryWhereClause: events     *)
(* without a destination are rows, too.                                     *)
PostgresRows(f) ==
  {i \in DOMAIN events :
     LET e == events[i]
     IN  /\ e.scope = "external" /\ Stored(e.alert)
         /\ Passes(f.destination, e.destination) /\ Passes(f.status, e.status)
         /\ Passes(f.severity, AlertOf(e.alert).severity)
         /\ InWindow(f, e)}

-----------------------------------------------------------------------------
(* The rows between two places in an order, the first of all being 1.  An   *)
(* answer is the set of its rows: the order they come in is their own.      *)
Place(rows, row, Precedes(_, _)) == 1 + Cardinality({other \in rows : Precedes(other, row)})
Slice(rows, first, last, Precedes(_, _)) == {row \in rows : Place(rows, row, Precedes) \in first..last}

(* listDeliveryJournal, after normalizeDeliveryFilters *)
Clamped(limit) == Min({Max({limit, 1}), MaxPage})

MemoryPage(f, limit, offset) ==
  LET rows == MemoryRows(f)
      end == offset + Clamped(limit)
  IN  [rows |-> Slice(rows, offset + 1, end, Newer),
       total |-> Cardinality(rows), more |-> end < Cardinality(rows)]

(* The total comes with the rows: past the last one it is 0. *)
PostgresPage(f, limit, offset) ==
  LET rows == PostgresRows(f)
      end == offset + Clamped(limit)
      total == IF offset < Cardinality(rows) THEN Cardinality(rows) ELSE 0
  IN  [rows |-> Slice(rows, offset + 1, end, Newer), total |-> total, more |-> end < total]

Page(f, limit, offset) ==
  IF service.store = "memory" THEN MemoryPage(f, limit, offset) ELSE PostgresPage(f, limit, offset)

-----------------------------------------------------------------------------
(* The counts over some rows, and when they were last attempted *)
Latest(rows) == IF rows = {} THEN Default ELSE Max({events[i].at : i \in rows})
Having(rows, status) == {i \in rows : events[i].status = status}
Count(rows, status) == Cardinality(Having(rows, status))

(* deriveDeliveryHealthHint *)
HealthHint(rows) ==
  LET failed == Count(rows, "failed")
      sent == Count(rows, "sent")
  IN  CASE failed > 0 /\ sent = 0 -> "failing"
        [] failed > 0 /\ sent > 0 -> "degraded"
        [] failed = 0 /\ sent > 0 -> "healthy"
        [] OTHER -> "idle"

Rank(name) == IF name \in Destination THEN CHOOSE n \in DOMAIN Names : Names[n] = name
              ELSE Len(Names) + 1

(* Latest first, then by name *)
Before(l, r) ==
  \/ l.order > r.order
  \/ l.order = r.order /\ Rank(l.name) < Rank(r.name)

(* summarizeDeliveryJournal: one row per destination, with its alerts that  *)
(* are not resolved                                                         *)
ForDestination(rows, name) == {i \in rows : events[i].destination = name}
DestinationsOf(rows) == {events[i].destination : i \in rows}
SummaryRow(rows, name) ==
  LET mine == ForDestination(rows, name)
      open == {id \in {events[i].alert : i \in mine} : AlertOf(id).status # "resolved"}
  IN  [name |-> name, order |-> Latest(mine), total |-> Cardinality(mine),
       sent |-> Count(mine, "sent"), failed |-> Count(mine, "failed"),
       suppressed |-> Count(mine, "suppressed"), skipped |-> Count(mine, "skipped"),
       lastSent |-> Latest(Having(mine, "sent")), lastFailed |-> Latest(Having(mine, "failed")),
       open |-> Cardinality(open), health |-> HealthHint(mine)]
SummaryRows(rows) == {SummaryRow(rows, name) : name \in DestinationsOf(rows)}

MemorySummary(f) ==
  [total |-> Cardinality(MemoryRows(f)), destinations |-> SummaryRows(MemoryRows(f))]

(* The total is summed over the groups: the destinations, and the rows      *)
(* without one.                                                             *)
Groups == Append(Names, "none")
SumOfGroups(rows) ==
  LET sum[n \in 0..Len(Groups)] ==
        IF n = 0 THEN 0 ELSE sum[n - 1] + Cardinality(ForDestination(rows, Groups[n]))
  IN  sum[Len(Groups)]
PostgresSummary(f) ==
  [total |-> SumOfGroups(PostgresRows(f)), destinations |-> SummaryRows(PostgresRows(f))]

-----------------------------------------------------------------------------
(* summarizeDeliveryTrends: the latest day next to the latest week, both up *)
(* to a reference time, no severity asked for                               *)
TrendFilters(end) ==
  [to |-> end, from |-> end - Week, destination |-> {}, severity |-> {}, status |-> {}]
CurrentOf(rows, end) == {i \in rows : events[i].at >= end - Day}

(* toDailyEquivalent, rounding halves up; a change against it *)
Daily(n) == (2 * n + 7) \div 14
Delta(current, comparison, status) == Count(current, status) - Daily(Count(comparison, status))

(* A status's share of the deliveries rises by at least `percent` points. *)
RateRises(current, comparison, status, percent) ==
  LET t == Cardinality(current)
      u == Cardinality(comparison)
  IN  100 * (Count(current, status) * u - Count(comparison, status) * t) >= percent * t * u
RateFalls(current, comparison, status, percent) ==
  LET t == Cardinality(current)
      u == Cardinality(comparison)
  IN  100 * (Count(comparison, status) * t - Count(current, status) * u) >= percent * t * u
AnyFall(current, comparison, status) == ~RateRises(current, comparison, status, 0)

(* describeTrendHint *)
Worsening(current, comparison) ==
  /\ Count(current, "failed") >= 2
  /\ \/ Delta(current, comparison, "failed") >= 2
     \/ RateRises(current, comparison, "failed", 15)
     \/ HealthHint(current) = "failing"

Improving(current, comparison) ==
  /\ Count(current, "sent") > 0
  /\ \/ /\ Count(current, "failed") = 0
        /\ \/ Delta(current, comparison, "failed") <= -1
           \/ RateFalls(current, comparison, "failed", 5)
           \/ Delta(current, comparison, "suppressed") < 0
           \/ AnyFall(current, comparison, "suppressed")
     \/ /\ Delta(current, comparison, "failed") <= -1
        /\ RateFalls(current, comparison, "failed", 5)
        /\ HealthHint(comparison) # "healthy"

Drifting(current, comparison) ==
  \E status \in {"failed", "suppressed"} :
    Delta(current, comparison, status) >= 1 \/ RateRises(current, comparison, status, 10)

TrendHint(current, comparison) ==
  CASE Cardinality(comparison) < Enough -> "insufficient_data"
    [] Cardinality(comparison) >= Enough /\ current = {} -> "inactive"
    [] OTHER -> IF Worsening(current, comparison) THEN "worsening"
                ELSE IF Improving(current, comparison) THEN "improving"
                ELSE IF Drifting(current, comparison) THEN "worsening" ELSE "stable"

(* What a destination is sorted by: its latest delivery of the day, or of   *)
(* the week if there is none today.  In memory destinations without a       *)
(* delivery today tie at the epoch; in Postgres they go by the week's.      *)
LatestToday(current) == Latest(current)
LatestAtAll(current, comparison) == IF current # {} THEN Latest(current) ELSE Latest(comparison)

TrendRow(rows, end, name, weekly) ==
  LET comparison == ForDestination(rows, name)
      current == CurrentOf(comparison, end)
  IN  [name |-> name,
       order |-> IF weekly THEN LatestAtAll(current, comparison) ELSE LatestToday(current),
       hint |-> TrendHint(current, comparison),
       current |-> HealthHint(current), comparison |-> HealthHint(comparison),
       failures |-> Delta(current, comparison, "failed"),
       volume |-> Cardinality(current) - Daily(Cardinality(comparison))]
TrendRows(rows, end, weekly) == {TrendRow(rows, end, name, weekly) : name \in DestinationsOf(rows)}
Limited(rows, limit) ==
  [total |-> Cardinality(rows), more |-> Cardinality(rows) > limit,
   destinations |-> Slice(rows, 1, limit, Before)]

MemoryTrends(end, limit) ==
  Limited(TrendRows(MemoryRows(TrendFilters(end)), end, FALSE), limit)
PostgresTrends(end, limit) ==
  Limited(TrendRows(PostgresRows(TrendFilters(end)), end, TRUE), limit)

-----------------------------------------------------------------------------
(* A client of the route reads page after page, while there is more; the    *)
(* window of a query without an end moves along with the clock.  `expected` *)
(* (for a history) are the deliveries recorded by then.                     *)
Recorded(f) ==
  IF service.store = "memory" THEN MemoryRows(f)
  ELSE {i \in DOMAIN events :
          LET e == events[i]
          IN  /\ e.scope = "external" /\ InWindow(f, e)
              /\ Passes(f.destination, e.destination) /\ Passes(f.status, e.status)
              /\ Stored(e.alert) => Passes(f.severity, AlertOf(e.alert).severity)}

BeginRead(query) ==
  /\ read.pc = "idle" /\ ~Refused(Filters(query, Week))
  /\ read' = [NoRead EXCEPT !.pc = "reading", !.query = query,
                !.past = query.to # Default /\ query.to < clock,
                !.expected = Recorded(Filters(query, Week))]
  /\ UNCHANGED <<service, alerts, ids, events, counter, clock>>

ReadPage ==
  /\ read.pc = "reading"
  /\ LET f == Filters(read.query, Week)
         page == Page(f, PageSize, Min({read.offset, MaxOffset}))
     IN  /\ ~Refused(f)
         /\ read' = [read EXCEPT
              !.pc = IF page.more THEN "reading" ELSE "done",
              !.offset = @ + PageSize, !.seen = @ \cup page.rows,
              !.repeated = @ \/ page.rows \cap read.seen # {},
              !.expected = IF page.more THEN @ ELSE {i \in @ : InWindow(f, events[i])}]
  /\ UNCHANGED <<service, alerts, ids, events, counter, clock>>

-----------------------------------------------------------------------------
(* The copy of the alert a dispatch holds: stored, or gone by now *)
Copies == [id : 1..ids, severity : {"warning", "critical"}]
Dispatched(alert, type) ==
  \/ DispatchInternal(alert, type)
  \/ \E name \in Destination, status \in Outcomes :
       DispatchRouted(alert, type, name, status)
  \/ \E status \in {"sent", "failed", "suppressed", "skipped"} : DispatchLegacy(alert, type, status)
  \/ DispatchFailed(alert, type)

Next ==
  \/ \E key \in Keys, alert \in Alert : Save(key, alert)
  \/ \E alert \in Copies, type \in Types : Dispatched(alert, type)
  \/ Restart \/ Tick
  \/ \E query \in Queries : BeginRead(query)
  \/ ReadPage

Spec == Init /\ [][Next]_vars

-----------------------------------------------------------------------------
(* Whoever reads the journal to its last page has seen every delivery that  *)
(* was recorded when the reading began (and is not too old by its end),     *)
(* though deliveries are recorded, the window moves and the control service *)
(* restarts between the pages; and no delivery twice, if the window had     *)
(* ended before and no more is recorded than an offset can skip.  Only an   *)
(* alert that changes its severity or its id in the meantime may move       *)
(* deliveries between the pages.                                            *)
ReadsWhole ==
  read.pc = "done" /\ ~read.disturbed =>
    /\ read.expected \subseteq read.seen
    /\ read.past /\ Len(events) <= MaxOffset => ~read.repeated

(* Memory and Postgres answer alike, once every notification names its      *)
(* destination: each page, the summary and the trends.  Past the end the    *)
(* totals differ, and the trends of quiet destinations come in another      *)
(* order.                                                                   *)
StoresAgree ==
  LET named == \A i \in DOMAIN events :
                 events[i].scope = "external" => events[i].destination # "none"
      queries == {[from |-> clock - n, to |-> clock, destination |-> {}, severity |-> s, status |-> {}] :
                    n \in {Day, Week}, s \in {{}, {"critical"}}}
  IN  named => \A f \in queries :
        /\ \A offset \in 0..(Cardinality(MemoryRows(f)) - 1) :
             MemoryPage(f, PageSize, offset) = PostgresPage(f, PageSize, offset)
        /\ MemorySummary(f) = PostgresSummary(f)
        /\ LET Content(trends) == {[row EXCEPT !.order = 0] : row \in trends.destinations}
               memory == MemoryTrends(clock, Len(Names))
               postgres == PostgresTrends(clock, Len(Names))
           IN  Content(memory) = Content(postgres)
=============================================================================
