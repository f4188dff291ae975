------------------------------ MODULE DbRefresh ------------------------------
(* Keeping the database chunks up to date: SetupTier2's first introspection,   *)
(* the Refresher with its four kinds of trigger (internal/db/refresh.go) and   *)
(* the Postgres listener with its reconnects (internal/db/listen.go).  A set   *)
(* of chunks is the version of the schema it was read from.                    *)
EXTENDS Naturals

CONSTANTS Sources,     \* goroutines that refresh: ticker, SIGHUP, listener, tool
          Tick, Notify, Tool,
          MaxSchema,   \* bound: versions of the schema
          MaxBackoff,  \* reconnect delays, as doublings of the first
          None         \* the refresher's mutex is free

SourcesAssumption ==
  {Tick, Notify, Tool} \subseteq Sources /\ Notify # Tool /\ None \notin Sources

VARIABLES
  schema,    \* the version of the database's schema
  trigger,   \* the event trigger that notifies is installed
  interval,  \* Options.ReindexInterval > 0
  phase,     \* SetupTier2: "setup", "on", "off" (failed), "cancelled"
  swapped,   \* the version last handed to the swap callback
  holder,    \* who holds Refresher.mu
  at,        \* where each source is: idle, waiting, reading, swapping
  seen,      \* what a source has read
  conn,      \* where the listener is
  alive,     \* its connection is up
  queue,     \* notifications sent to it and not received
  backoff,   \* its next delay
  missed     \* history: a change that no notification or refresh will bring

refresher == <<phase, swapped, holder, at, seen>>
listener  == <<conn, alive, queue, backoff>>
vars == <<schema, trigger, interval, refresher, listener, missed>>

Heard == conn \in {"listening", "debounce", "refreshing"} /\ alive
Smaller(x, y) == IF x < y THEN x ELSE y

Init ==
  /\ schema = 1 /\ swapped = 0
  /\ trigger \in BOOLEAN /\ interval \in BOOLEAN
  /\ phase = "setup"
  /\ holder = None
  /\ at = [s \in Sources |-> "idle"]
  /\ seen = [s \in Sources |-> 0]
  /\ conn = "off" /\ alive = FALSE /\ queue = 0 /\ backoff = 0
  /\ missed = FALSE

-----------------------------------------------------------------------------
(* The database.                                                              *)

SchemaChange ==
  /\ schema < MaxSchema
  /\ schema' = schema + 1
  /\ IF trigger /\ Heard
       THEN queue' = queue + 1 /\ UNCHANGED missed
       ELSE missed' = TRUE /\ UNCHANGED queue
  /\ UNCHANGED <<trigger, interval, refresher, conn, alive, backoff>>

InstallTrigger ==
  /\ ~trigger /\ trigger' = TRUE
  /\ UNCHANGED <<schema, interval, refresher, listener, missed>>

-----------------------------------------------------------------------------
(* SetupTier2: introspect, swap, then start the goroutines.                   *)

Setup(listen) ==
  /\ phase = "setup"
  /\ phase' = "on"
  /\ swapped' = schema /\ missed' = FALSE
  /\ conn' = IF listen THEN "connect" ELSE "off"
  /\ UNCHANGED <<schema, trigger, interval, holder, at, seen, alive, queue, backoff>>

\* An unreachable database, or KEN_DB_STARTUP_TIMEOUT.
SetupFails ==
  /\ phase = "setup"
  /\ phase' = "off"
  /\ UNCHANGED <<schema, trigger, interval, swapped, holder, at, seen, listener, missed>>

-----------------------------------------------------------------------------
(* Refresh and TryRefresh.                                                    *)

\* Refresh waits for the mutex; the listener's goroutine asks in OnNotify.
Ask(s) ==
  /\ phase = "on" /\ at[s] = "idle"
  /\ s \notin {Notify, Tool}
  /\ s = Tick => interval
  /\ at' = [at EXCEPT ![s] = "waiting"]
  /\ UNCHANGED <<schema, trigger, interval, phase, swapped, holder, seen, listener, missed>>

Acquire_Unlocked(s) ==                          \* mutant: no mutex
  /\ at[s] = "waiting"
  /\ at' = [at EXCEPT ![s] = "reading"]
  /\ UNCHANGED <<schema, trigger, interval, phase, swapped, holder, seen, listener, missed>>
Acquire(s) ==
  /\ at[s] = "waiting" /\ holder = None
  /\ holder' = s
  /\ at' = [at EXCEPT ![s] = "reading"]
  /\ UNCHANGED <<schema, trigger, interval, phase, swapped, seen, listener, missed>>

\* TryRefresh takes a free mutex, and returns ErrReindexInProgress otherwise.
TryRefresh ==
  /\ phase = "on" /\ at[Tool] = "idle" /\ holder = None
  /\ holder' = Tool
  /\ at' = [at EXCEPT ![Tool] = "reading"]
  /\ UNCHANGED <<schema, trigger, interval, phase, swapped, seen, listener, missed>>

\* doRefresh: IndexSchema, and the swap if it succeeds.  What was missed so
\* far is in what it reads.
Introspect(s) ==
  /\ at[s] = "reading"
  /\ seen' = [seen EXCEPT ![s] = schema]
  /\ at' = [at EXCEPT ![s] = "swapping"]
  /\ missed' = FALSE
  /\ UNCHANGED <<schema, trigger, interval, phase, swapped, holder, listener>>

IntrospectFails(s) ==
  /\ at[s] = "reading"
  /\ at' = [at EXCEPT ![s] = "idle"]
  /\ holder' = None
  /\ missed' = (missed \/ swapped # schema)
  /\ UNCHANGED <<schema, trigger, interval, phase, swapped, seen, listener>>

Swap(s) ==
  /\ at[s] = "swapping"
  /\ swapped' = seen[s]
  /\ at' = [at EXCEPT ![s] = "idle"]
  /\ holder' = None
  /\ UNCHANGED <<schema, trigger, interval, phase, seen, listener, missed>>

-----------------------------------------------------------------------------
(* The listener.                                                              *)

\* runOnce ends with an error: Run waits, and doubles the delay for the next
\* time.  A session that got as far as LISTEN resets it.
Fails(listened) ==
  /\ conn' = "backoff" /\ alive' = FALSE /\ queue' = 0
  /\ backoff' = IF listened THEN 0 ELSE backoff

Connect ==
  /\ conn = "connect" /\ phase = "on"
  /\ \/ conn' = "check" /\ alive' = TRUE /\ UNCHANGED <<queue, backoff>>
     \/ Fails(FALSE)
  /\ UNCHANGED <<schema, trigger, interval, refresher, missed>>

\* The trigger is looked for, and while it is missing looked for again on a
\* ticker; LISTEN follows.
CheckTrigger ==
  /\ conn \in {"check", "poll"} /\ phase = "on"
  /\ \/ /\ alive
        /\ conn' = IF trigger THEN "listening" ELSE "poll"
        /\ UNCHANGED <<alive, queue, backoff>>
     \/ Fails(FALSE)
  /\ UNCHANGED <<schema, trigger, interval, refresher, missed>>

Receive ==
  /\ conn = "listening" /\ alive /\ queue > 0 /\ phase = "on"
  /\ queue' = queue - 1
  /\ conn' = "debounce"
  /\ UNCHANGED <<schema, trigger, interval, refresher, alive, backoff, missed>>

\* drainDebounce: more notifications within the window join the batch.
Drain ==
  /\ conn = "debounce" /\ alive /\ queue > 0
  /\ queue' = queue - 1
  /\ UNCHANGED <<schema, trigger, interval, refresher, conn, alive, backoff, missed>>

\* The window closes, or the connection drops: refresh either way.
OnNotify ==
  /\ conn = "debounce"
  /\ conn' = "refreshing"
  /\ at' = [at EXCEPT ![Notify] = "waiting"]
  /\ UNCHANGED <<schema, trigger, interval, phase, swapped, holder, seen, alive,
                 queue, backoff, missed>>

Notified ==
  /\ conn = "refreshing" /\ at[Notify] = "idle"
  /\ conn' = "listening"
  /\ UNCHANGED <<schema, trigger, interval, refresher, alive, queue, backoff, missed>>

\* The connection drops; what was queued for it is gone.
Drop ==
  /\ alive /\ alive' = FALSE
  /\ queue' = 0
  /\ missed' = (missed \/ queue > 0)
  /\ UNCHANGED <<schema, trigger, interval, refresher, conn, backoff>>

WaitFails ==
  /\ conn = "listening" /\ ~alive /\ phase = "on"
  /\ Fails(TRUE)
  /\ UNCHANGED <<schema, trigger, interval, refresher, missed>>

\* time.After(backoff), then the delay doubles up to its cap.
Reconnect ==
  /\ conn = "backoff" /\ phase = "on"
  /\ conn' = "connect"
  /\ backoff' = Smaller(backoff + 1, MaxBackoff)
  /\ UNCHANGED <<schema, trigger, interval, refresher, alive, queue, missed>>

\* The context is cancelled: the loops end, a refresh under way fails.
Cancel ==
  /\ phase = "on" /\ phase' = "cancelled"
  /\ UNCHANGED <<schema, trigger, interval, swapped, holder, at, seen, listener, missed>>

-----------------------------------------------------------------------------
RefreshStep(s) == Acquire(s) \/ Introspect(s) \/ IntrospectFails(s) \/ Swap(s)
ListenStep == \/ Connect \/ CheckTrigger \/ Receive \/ Drain \/ OnNotify
              \/ Notified \/ WaitFails \/ Reconnect

Next ==
  \/ SchemaChange \/ InstallTrigger \/ Drop \/ Cancel
  \/ \E listen \in BOOLEAN : Setup(listen)
  \/ SetupFails
  \/ \E s \in Sources : Ask(s) \/ RefreshStep(s)
  \/ TryRefresh
  \/ ListenStep

Spec == Init /\ [][Next]_vars

-----------------------------------------------------------------------------
(* Properties.                                                                *)

(* While the listener listens and nothing is under way, the chunks are those  *)
(* of the present schema, unless a change came while nobody listened or its   *)
(* introspection failed: those wait for another trigger, for the listener     *)
(* does not refresh when it reconnects (Listener.Run).                        *)
ListenerIsFresh ==
  /\ conn = "listening" /\ queue = 0 /\ ~missed
  /\ \A s \in Sources : at[s] = "idle"
  => swapped = schema
=============================================================================
