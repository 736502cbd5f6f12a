----------------------------- MODULE EventTracer -----------------------------
(***************************************************************************)
(* The event tracer (trace/event_tracer.cpp, and the macros of             *)
(* trace/trace_event.h that call it).  Threads that trace push events on a *)
(* queue, a writer thread moves them to the file, and startTracing() and   *)
(* stopTracing(), called by one thread at a time, begin and end a session  *)
(* with a file of its own.                                                 *)
(*                                                                         *)
(* An event is a number with the session in which its timestamp was taken; *)
(* its fields and its format are left out.  A call site keeps, in a static *)
(* variable, the pointer GetCategoryEnabled() returned the first time.     *)
(***************************************************************************)
EXTENDS Naturals, Sequences, FiniteSets

CONSTANTS
  TracingThreads,
  Categories,        \* the categories of events; each has one call site
  Wildcard,          \* per pattern that ends in '*', the categories it matches
  MaxSessions,       \* bound on the successful calls of startTracing()
  MaxEvents          \* bound on the events that get past the test of their category

ASSUME EventTracerAssumption ==
  /\ IsFiniteSet(TracingThreads) /\ IsFiniteSet(Categories) /\ "none" \notin Categories
  /\ MaxSessions \in Nat /\ MaxEvents \in Nat

Sessions == 1 .. MaxSessions
Patterns == Categories \cup DOMAIN Wildcard

VARIABLES
  g_mutex_held,           \* is the writer between its predicate and its sleep, with g_mutex?
  g_event_queue,
  g_enabled_categories,
  g_tracing_enabled,
  g_shutdown_requested,
  g_custom,               \* are custom callbacks installed?
  writer,                 \* what the writer thread is doing
  batch,                  \* the events it has drained
  sessions,               \* how often tracing has been started
  trace_file,             \* per session, the events in its file
  file_open, footer,      \* is the file open, and the sessions whose file has been finished
  stopping,               \* how far stopTracing() is
  catstatic,              \* per call site, the byte its static pointer refers to
  looking,                \* per thread, the category it has to look up under g_mutex
  tracing,                \* per thread, the event it is adding
  traced,                 \* how many events have been started
  pushed                  \* history: the events pushed while their session was enabled, in order

queueVars == <<g_mutex_held, g_event_queue, writer, batch>>
sessionVars == <<g_enabled_categories, g_tracing_enabled, g_shutdown_requested, sessions, file_open, footer, stopping>>
siteVars == <<g_custom, catstatic, looking>>
historyVars == <<traced, pushed>>
tracerVars == <<queueVars, sessionVars, siteVars, trace_file, tracing, historyVars>>

NoCategory == "none"
NotTracing == [at |-> "idle", event |-> 0, session |-> 0]

TracerInit ==
  /\ g_mutex_held = FALSE /\ g_event_queue = <<>>
  /\ g_enabled_categories = {}
  /\ g_tracing_enabled = FALSE /\ g_shutdown_requested = FALSE
  /\ g_custom = FALSE
  /\ writer = "none" /\ batch = <<>>
  /\ sessions = 0
  /\ trace_file = [s \in Sessions |-> <<>>]
  /\ file_open = FALSE /\ footer = {}
  /\ stopping = "no"
  /\ catstatic = [c \in Categories |-> "unset"]
  /\ looking = [t \in TracingThreads |-> NoCategory]
  /\ tracing = [t \in TracingThreads |-> NotTracing]
  /\ traced = 0 /\ pushed = [s \in Sessions |-> <<>>]

-----------------------------------------------------------------------------
(* TRACE_EVENT, GetCategoryEnabled() and AddTraceEvent() *)

\* Custom callbacks are to be installed before any tracing begins.
SetupEventTracer ==
  /\ sessions = 0 /\ ~g_custom
  /\ \A c \in Categories : catstatic[c] = "unset"
  /\ \A t \in TracingThreads : tracing[t] = NotTracing
  /\ g_custom' = TRUE
  /\ UNCHANGED <<queueVars, sessionVars, catstatic, looking, trace_file, tracing, historyVars>>

\* An empty set enables everything; else a category is named or matched by a wildcard.
CategoryEnabled(c) ==
  \/ g_enabled_categories = {}
  \/ c \in g_enabled_categories
  \/ \E p \in g_enabled_categories \cap DOMAIN Wildcard : c \in Wildcard[p]

\* The call site keeps the byte that GetCategoryEnabled() pointed to, and goes on if it is set.
UseByte(t, c, byte) ==
  /\ catstatic' = [catstatic EXCEPT ![c] = byte]
  /\ IF byte = "enabled"
     THEN traced' = traced + 1 /\ tracing' = [tracing EXCEPT ![t] = [@ EXCEPT !.at = "add", !.event = traced + 1]]
     ELSE UNCHANGED <<traced, tracing>>

\* The macro with the answer it has, or that GetCategoryEnabled() gives without the lock ...
TraceMacro(t, c) ==
  /\ tracing[t] = NotTracing /\ looking[t] = NoCategory /\ traced < MaxEvents
  /\ catstatic[c] # "unset" \/ g_custom \/ ~g_tracing_enabled
  /\ UseByte(t, c, CASE catstatic[c] # "unset" -> catstatic[c]
                     [] g_custom               -> "enabled"
                     [] OTHER                  -> "disabled")
  /\ UNCHANGED <<queueVars, sessionVars, g_custom, looking, trace_file, pushed>>

\* ... or tracing is on, and it goes for the lock ...
GetCategoryEnabled(t, c) ==
  /\ tracing[t] = NotTracing /\ looking[t] = NoCategory /\ traced < MaxEvents
  /\ catstatic[c] = "unset" /\ ~g_custom /\ g_tracing_enabled
  /\ looking' = [looking EXCEPT ![t] = c]
  /\ UNCHANGED <<queueVars, sessionVars, g_custom, catstatic, trace_file, tracing, historyVars>>

\* ... to look at the categories, which may be those of a later session, or none, by then.
LookUpCategory(t) ==
  LET c == looking[t] IN
  /\ c # NoCategory /\ ~g_mutex_held /\ traced < MaxEvents
  /\ UseByte(t, c, IF CategoryEnabled(c) THEN "enabled" ELSE "disabled")
  /\ looking' = [looking EXCEPT ![t] = NoCategory]
  /\ UNCHANGED <<queueVars, sessionVars, g_custom, trace_file, pushed>>

\* AddTraceEvent() up to the lock: nothing to do if a custom callback takes the event or
\* tracing is off, else the event is built with its timestamp.
AddTraceEvent(t) ==
  /\ tracing[t].at = "add"
  /\ tracing' = [tracing EXCEPT ![t] =
       IF g_custom \/ ~g_tracing_enabled THEN NotTracing ELSE [@ EXCEPT !.at = "push", !.session = sessions]]
  /\ UNCHANGED <<queueVars, sessionVars, siteVars, trace_file, historyVars>>

PushEvent(t) ==
  /\ tracing[t].at = "push" /\ ~g_mutex_held
  /\ LET e == [event |-> tracing[t].event, session |-> tracing[t].session] IN
     /\ g_event_queue' = Append(g_event_queue, e)
     /\ pushed' = IF g_tracing_enabled /\ sessions = e.session
                  THEN [pushed EXCEPT ![sessions] = Append(@, e)] ELSE pushed
  /\ tracing' = [tracing EXCEPT ![t].at = "notify"]
  /\ UNCHANGED <<g_mutex_held, writer, batch, sessionVars, siteVars, trace_file, traced>>

NotifyWriter == writer' = IF writer = "asleep" THEN "test" ELSE writer

AddNotify(t) ==
  /\ tracing[t].at = "notify"
  /\ NotifyWriter
  /\ tracing' = [tracing EXCEPT ![t] = NotTracing]
  /\ UNCHANGED <<g_mutex_held, g_event_queue, batch, sessionVars, siteVars, trace_file, historyVars>>

-----------------------------------------------------------------------------
(* WriterThreadFunc() *)

\* The predicate of the wait, evaluated under g_mutex: the queue is drained into the batch ...
WriterDrain ==
  /\ writer = "test"
  /\ g_event_queue # <<>> \/ g_shutdown_requested
  /\ batch' = batch \o g_event_queue
  /\ g_event_queue' = <<>>
  /\ writer' = "write"
  /\ UNCHANGED <<g_mutex_held, sessionVars, siteVars, trace_file, tracing, historyVars>>

\* ... or the thread goes to sleep, and gives up g_mutex only when it is asleep.
WriterTest ==
  /\ writer = "test"
  /\ g_event_queue = <<>> /\ ~g_shutdown_requested
  /\ g_mutex_held' = TRUE
  /\ writer' = "sleep"
  /\ UNCHANGED <<g_event_queue, batch, sessionVars, siteVars, trace_file, tracing, historyVars>>

WriterSleep ==
  /\ writer = "sleep"
  /\ g_mutex_held' = FALSE
  /\ writer' = "asleep"
  /\ UNCHANGED <<g_event_queue, batch, sessionVars, siteVars, trace_file, tracing, historyVars>>

WriterWrite ==
  /\ writer = "write"
  /\ trace_file' = IF file_open THEN [trace_file EXCEPT ![sessions] = @ \o batch] ELSE trace_file
  /\ batch' = <<>>
  /\ writer' = IF g_shutdown_requested THEN "check" ELSE "test"
  /\ UNCHANGED <<g_mutex_held, g_event_queue, sessionVars, siteVars, tracing, historyVars>>

\* Mutant of WriterCheck: the thread ends without a look at the queue.
WriterCheckFlagOnly ==
  /\ writer = "check" /\ writer' = "done"
  /\ UNCHANGED <<g_mutex_held, g_event_queue, batch, sessionVars, siteVars, trace_file, tracing, historyVars>>

WriterCheck ==
  /\ writer = "check"
  /\ writer' = IF g_event_queue = <<>> THEN "done" ELSE "test"
  /\ UNCHANGED <<g_mutex_held, g_event_queue, batch, sessionVars, siteVars, trace_file, tracing, historyVars>>

-----------------------------------------------------------------------------
(* StartTracing() and StopTracing() *)

\* Under g_mutex.  A second start, and a file that cannot be opened, change nothing.
StartTracing(categories) ==
  /\ stopping = "no" /\ ~g_mutex_held
  /\ ~g_tracing_enabled
  /\ sessions < MaxSessions
  /\ sessions' = sessions + 1
  /\ file_open' = TRUE
  /\ g_enabled_categories' = categories
  /\ g_shutdown_requested' = FALSE
  /\ g_tracing_enabled' = TRUE
  /\ writer' = "test"
  /\ UNCHANGED <<g_mutex_held, g_event_queue, batch, footer, stopping, siteVars, trace_file, tracing, historyVars>>

StopDisable ==
  /\ stopping = "no" /\ sessions > 0
  /\ g_tracing_enabled' = FALSE
  /\ stopping' = "request"
  /\ UNCHANGED <<queueVars, g_enabled_categories, g_shutdown_requested, sessions, file_open, footer, siteVars,
                 trace_file, tracing, historyVars>>

StopRequest ==
  /\ stopping = "request" /\ ~g_mutex_held
  /\ g_shutdown_requested' = TRUE
  /\ stopping' = "notify"
  /\ UNCHANGED <<queueVars, g_enabled_categories, g_tracing_enabled, sessions, file_open, footer, siteVars,
                 trace_file, tracing, historyVars>>

StopNotify ==
  /\ stopping = "notify"
  /\ NotifyWriter
  /\ stopping' = "join"
  /\ UNCHANGED <<g_mutex_held, g_event_queue, batch, g_enabled_categories, g_tracing_enabled, g_shutdown_requested,
                 sessions, file_open, footer, siteVars, trace_file, tracing, historyVars>>

\* A stop without a session finds no thread to join and no open file.
StopClose ==
  /\ stopping = "join" /\ ~g_mutex_held
  /\ writer \in {"none", "done"}
  /\ writer' = "none"
  /\ footer' = IF file_open THEN footer \cup {sessions} ELSE footer
  /\ file_open' = FALSE
  /\ g_enabled_categories' = {}
  /\ stopping' = "no"
  /\ UNCHANGED <<g_mutex_held, g_event_queue, batch, g_tracing_enabled, g_shutdown_requested, sessions, siteVars,
                 trace_file, tracing, historyVars>>

-----------------------------------------------------------------------------
Adding(t) == LookUpCategory(t) \/ AddTraceEvent(t) \/ PushEvent(t) \/ AddNotify(t)
Writer == WriterDrain \/ WriterTest \/ WriterSleep \/ WriterWrite \/ WriterCheck
Stopping == StopRequest \/ StopNotify \/ StopClose

TracerNext ==
  \/ SetupEventTracer
  \/ \E t \in TracingThreads : Adding(t) \/ \E c \in Categories : TraceMacro(t, c) \/ GetCategoryEnabled(t, c)
  \/ Writer
  \/ \E categories \in SUBSET Patterns : StartTracing(categories)
  \/ StopDisable \/ Stopping

TracerSpec == TracerInit /\ [][TracerNext]_tracerVars

\* The threads run on.
TracerFairness ==
  /\ \A t \in TracingThreads : WF_tracerVars(Adding(t))
  /\ WF_tracerVars(Writer)
  /\ WF_tracerVars(Stopping)

-----------------------------------------------------------------------------
(* Properties *)

\* The file q of session s has the events p: all of them, nothing twice, in their order, and
\* before any other event of the session.
HasEvents(q, p, s) ==
  /\ \A i, j \in DOMAIN q : q[i] = q[j] => i = j
  /\ \A k \in DOMAIN p : \E i \in DOMAIN q : q[i] = p[k]
  /\ \A k, l \in DOMAIN p : \A i, j \in DOMAIN q : q[i] = p[k] /\ q[j] = p[l] /\ k < l => i < j
  /\ \A l \in DOMAIN p : \A i, j \in DOMAIN q :
       q[j] = p[l] /\ i < j /\ q[i].session = s => \E k \in DOMAIN p : q[i] = p[k]

\* When stopTracing() has finished a file, the file holds every event that was pushed before the
\* stop began, each once and in the order of the pushes, whatever else it holds.
TraceComplete == \A s \in footer : HasEvents(trace_file[s], pushed[s], s)

\* stopTracing() returns: the writer thread does not miss the notification.
TracingStops == stopping # "no" ~> stopping = "no"

\* The documentation of startTracing(): an event whose category is enabled throughout its
\* macro's run is traced.
EnabledCategoriesTraced ==
  \A c \in Categories : catstatic[c] = "disabled" => ~(g_tracing_enabled /\ CategoryEnabled(c))
=============================================================================
