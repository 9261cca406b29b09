---------------------------- MODULE CalendarSync ----------------------------
(***************************************************************************)
(* Google Calendar events: the syncToken listings of the adapter           *)
(* (integrations/google-calendar/google-calendar-event-provider.ts), the   *)
(* push notifications that the webhook route turns into runs of the sync   *)
(* engine, the worker's own runs, and the rows of canonical_events.        *)
(*                                                                         *)
(* No row is ever deleted: a deleted event has to arrive as a cancelled    *)
(* one.  Google keeps such a tombstone for some weeks; then it is purged,  *)
(* and the syncTokens from before the deletion are answered with 410.      *)
(*                                                                         *)
(* Google is external.  Change n of the calendar sets one event's last     *)
(* change to n; a token is a position among the changes.  A notification   *)
(* carries a message number and no data; it may be late or never arrive,   *)
(* and a repeated one stops at its idempotency key (WebhookIngestion).     *)
(*                                                                         *)
(* The lock lets one run at a time through (SyncLock); of a run only the   *)
(* steps that meet Google or the tables of this module are kept.           *)
(***************************************************************************)
EXTENDS Integers, FiniteSets

CONSTANTS
  Events,      \* ids of calendar events
  PageSize,    \* MAX_RESULTS
  MaxChanges,  \* bound: changes of the calendar
  MaxFailures  \* bound: runs that fail, die or have their token rejected out of turn

ASSUME PageSizeAssumption == PageSize \in Nat \ {0}
ASSUME BoundsAssumption   == {MaxChanges, MaxFailures} \subseteq Nat

VARIABLES
  head,      \* Google: number of changes so far
  event,     \* Google: status of each event, "none" before it exists
  changed,   \* Google: the last change of each event
  times,     \* Google: which of its times each event carries
  oldest,    \* Google: tokens before this position are gone
  poke,      \* message n: not sent, under way, being handled, or processed in webhook_events
  row,       \* canonical_events: status and version of each event
  token,     \* sync_cursors: the syncToken, or NoToken
  sync,      \* the run in progress
  failures,  \* how many runs have failed
  unserved,  \* history: messages processed although their run was skipped or failed
  missed     \* history: events purged before their row was cancelled

google == <<head, event, changed, times, oldest>>
vars   == <<google, poke, row, token, sync, failures, unserved, missed>>

NoToken   == -1
Positions == 0 .. MaxChanges
Tokens    == Positions \cup {NoToken}
Messages  == 1 .. MaxChanges
Nobody    == 0   \* a run that no message started: the worker's

\* A status left out stands for confirmed; tentative is one more status like it.
Statuses == {"confirmed", "cancelled"}

\* start and end; originalStartTime only; or neither.
Times == {"start", "original", "neither"}

NoRow  == [status |-> "none", version |-> 0]
NoPage == [e \in Events |-> NoRow]

Idle == [pc |-> "idle", by |-> Nobody, mode |-> "incremental", from |-> 0, asOf |-> NoToken,
         todo |-> {}, page |-> NoPage, nextCursor |-> NoToken]

Rows == [Events -> [status : Statuses, version : Positions] \cup {NoRow}]

TypeOK ==
  /\ head \in Positions
  /\ event \in [Events -> Statuses \cup {"none", "purged"}]
  /\ changed \in [Events -> Positions]
  /\ times \in [Events -> Times]
  /\ oldest \in Positions
  /\ poke \in [Messages -> {"unsent", "sent", "handled", "processed"}]
  /\ row \in Rows
  /\ token \in Tokens
  /\ sync \in [pc : {"idle", "fetch", "persist"}, by : Messages \cup {Nobody},
               mode : {"incremental", "full"}, from : Positions, asOf : Tokens,
               todo : SUBSET Events, page : Rows, nextCursor : Tokens]
  /\ failures \in 0 .. MaxFailures
  /\ unserved \subseteq Messages
  /\ missed \subseteq Events

Init ==
  /\ head = 0
  /\ event = [e \in Events |-> "none"]
  /\ changed = [e \in Events |-> 0]
  /\ times = [e \in Events |-> "start"]
  /\ oldest = 0
  /\ poke = [n \in Messages |-> "unsent"]
  /\ row = NoPage
  /\ token = NoToken
  /\ sync = Idle
  /\ failures = 0
  /\ unserved = {}
  /\ missed = {}

(***************************************************************************)
(* The adapter                                                             *)
(***************************************************************************)

\* Mutant of Listed: showDeleted is left out of the request.
ListedLive(e) == event[e] = "confirmed"

\* singleEvents and showDeleted, on full and incremental listings alike.
Listed(e) == event[e] \in Statuses

Opening == sync.asOf = NoToken
AsOf    == IF Opening THEN head ELSE sync.asOf
Due     == {e \in IF Opening THEN Events ELSE sync.todo :
              Listed(e) /\ (sync.mode = "incremental" => changed[e] > sync.from)}

\* Mutant of Usable: no fallback to originalStartTime.
UsableStart(e) == times[e] = "start"

\* normalize takes originalStartTime where start or end is missing; validate
\* refuses an event that has neither.
Usable(e) == times[e] \in {"start", "original"}

Normalized(e) == [status |-> event[e], version |-> changed[e]]

\* Mutant of NextCursor: the token is taken when the last page is asked for.
TokenOfNow(last) == IF last THEN head ELSE NoToken

\* nextSyncToken comes with the last page.
NextCursor(last) == IF last THEN AsOf ELSE NoToken

\* A page of a listing whose token, if it has one, Google still knows.
FetchPage ==
  /\ sync.pc = "fetch"
  /\ sync.mode = "incremental" => sync.from >= oldest
  /\ \E es \in SUBSET Due :
       /\ Cardinality(es) <= PageSize
       /\ es = {} => Due = {}
       /\ sync' = [sync EXCEPT
            !.pc = "persist",
            !.asOf = AsOf,
            !.todo = Due \ es,
            !.page = [e \in Events |-> IF e \in es /\ Usable(e) THEN Normalized(e) ELSE NoRow],
            !.nextCursor = NextCursor(Due = es)]
  /\ UNCHANGED <<google, poke, row, token, failures, unserved, missed>>

(***************************************************************************)
(* The engine                                                              *)
(***************************************************************************)

\* Mutant of From: the token goes into the full listing too.
FromToken(mode) == token

From(mode) == IF mode = "incremental" THEN token ELSE 0

\* The run of message n, or of the worker.  Without a token, or with one that
\* the engine takes for stale, it lists everything.
Open(n) ==
  /\ sync.pc = "idle"
  /\ \E mode \in {"incremental", "full"} :
       /\ mode = "incremental" => token # NoToken
       /\ sync' = [Idle EXCEPT !.pc = "fetch", !.by = n, !.mode = mode,
                               !.from = From(mode)]

WorkerRun ==
  /\ Open(Nobody)
  /\ UNCHANGED <<google, poke, row, token, failures, unserved, missed>>

\* When a run ends its message is marked processed: the route ignores the result.
Processed == IF sync.by = Nobody THEN poke ELSE [poke EXCEPT ![sync.by] = "processed"]

PersistPage ==
  /\ sync.pc = "persist"
  /\ row' = [e \in Events |-> IF sync.page[e] # NoRow THEN sync.page[e] ELSE row[e]]
  /\ token' = IF sync.nextCursor # NoToken THEN sync.nextCursor ELSE token
  /\ IF sync.todo # {}
       THEN /\ sync' = [sync EXCEPT !.pc = "fetch", !.page = NoPage]
            /\ UNCHANGED poke
       ELSE sync' = Idle /\ poke' = Processed
  /\ UNCHANGED <<google, failures, unserved, missed>>

\* 410 Gone: InvalidCursorError, so the engine clears the cursor and lists
\* everything.  Google may also give up a token before its time.
FallBack ==
  /\ sync.pc = "fetch" /\ sync.mode = "incremental"
  /\ \/ sync.from < oldest /\ UNCHANGED failures
     \/ failures < MaxFailures /\ failures' = failures + 1
  /\ token' = NoToken
  /\ sync' = [Idle EXCEPT !.pc = "fetch", !.by = sync.by, !.mode = "full"]
  /\ UNCHANGED <<google, poke, row, unserved, missed>>

\* Any other error ends the run; its message is processed like any other.
Fail ==
  /\ sync.pc # "idle"
  /\ failures < MaxFailures
  /\ failures' = failures + 1
  /\ sync' = Idle
  /\ poke' = Processed
  /\ unserved' = unserved \cup ({sync.by} \ {Nobody})
  /\ UNCHANGED <<google, row, token, missed>>

\* The process dies: its message stays behind as received, and Google, which
\* had no answer, may send it again.
Die ==
  /\ sync.pc # "idle"
  /\ failures < MaxFailures
  /\ failures' = failures + 1
  /\ sync' = Idle
  /\ poke' \in {poke} \cup {[poke EXCEPT ![n] = "sent"] : n \in {sync.by} \ {Nobody}}
  /\ UNCHANGED <<google, row, token, unserved, missed>>

(***************************************************************************)
(* The webhook route                                                       *)
(***************************************************************************)

\* Mutant of WhileRunning: the run is not awaited.
NotAwaited == "processed"

WhileRunning == "handled"

\* ingest() calls syncEngine.run, which gets the lock, and waits for it.  Without a
\* configured calendar the message is processed at once and no run starts, which
\* leaves what a run leaves that fails before it has fetched anything.
HandlePoke(n) ==
  /\ poke[n] = "sent"
  /\ Open(n)
  /\ poke' = [poke EXCEPT ![n] = WhileRunning]
  /\ UNCHANGED <<google, row, token, failures, unserved, missed>>

\* run() answers 'skipped', and the message is marked processed all the same.
SkipPoke(n) ==
  /\ poke[n] = "sent"
  /\ sync.pc # "idle"
  /\ poke' = [poke EXCEPT ![n] = "processed"]
  /\ unserved' = unserved \cup {n}
  /\ UNCHANGED <<google, row, token, sync, failures, missed>>

(***************************************************************************)
(* Google                                                                  *)
(***************************************************************************)

\* Change number head + 1, announced on the channel.  A notification that is
\* lost is one that stays under way.
Change(e, status, t) ==
  /\ head < MaxChanges
  /\ head' = head + 1
  /\ event' = [event EXCEPT ![e] = status]
  /\ changed' = [changed EXCEPT ![e] = head + 1]
  /\ times' = [times EXCEPT ![e] = t]
  /\ poke' = [poke EXCEPT ![head + 1] = "sent"]
  /\ UNCHANGED <<oldest, row, token, sync, failures, unserved, missed>>

\* An event is created, moved, edited or restored.
Put(e) ==
  /\ event[e] # "purged"
  /\ Change(e, "confirmed", "start")

Cancel(e) ==
  /\ event[e] = "confirmed"
  /\ \E t \in Times : Change(e, "cancelled", t)

\* Weeks after, and never under a listing that began before.
Purge(e) ==
  /\ event[e] = "cancelled"
  /\ sync.pc = "idle"
  /\ event' = [event EXCEPT ![e] = "purged"]
  /\ oldest' = IF changed[e] > oldest THEN changed[e] ELSE oldest
  /\ missed' = IF row[e].status = "cancelled" THEN missed ELSE missed \cup {e}
  /\ UNCHANGED <<head, changed, times, poke, row, token, sync, failures, unserved>>

RunStep == FetchPage \/ PersistPage \/ FallBack

Next ==
  \/ WorkerRun
  \/ RunStep
  \/ Fail
  \/ Die
  \/ \E n \in Messages : HandlePoke(n) \/ SkipPoke(n)
  \/ \E e \in Events : Put(e) \/ Cancel(e) \/ Purge(e)

Spec == Init /\ [][Next]_vars

\* The worker ticks for ever and a run goes on until it ends.  Nothing is
\* assumed of the notifications.
FairSpec == Spec /\ WF_vars(WorkerRun) /\ WF_vars(RunStep)

(***************************************************************************)
(* Properties                                                              *)
(***************************************************************************)

Gone(e) == event[e] \in {"cancelled", "purged"}

\* A deleted event stays behind the token as a confirmed row for two reasons
\* only: its tombstone carried no time at all and was refused, or it was purged
\* before a run had fetched it and the full listing after the 410 had nothing to
\* say of it.
ZombieRowsExplained ==
  \A e \in Events :
    row[e].status = "confirmed" /\ Gone(e) /\ changed[e] <= token =>
      times[e] = "neither" \/ e \in missed

\* A notification marked processed has been acted on: the token has reached the
\* change it announced, or is gone.  It has not where its run was skipped under
\* another run's lock or failed, which the ledger does not show.  Nor would it have
\* where the calendar is not configured or its listing is longer than
\* maxPagesPerRun: here a run that fails stands for either.
PokesServed ==
  \A n \in Messages :
    poke[n] = "processed" /\ n \notin unserved => token >= n \/ token = NoToken

\* The events whose row ought to follow.
Followed(e) == times[e] # "neither" /\ e \notin missed

Reflected(e) ==
  IF Gone(e) THEN row[e].status \in {"none", "cancelled"}
  ELSE event[e] = "confirmed" => row[e] = Normalized(e)

\* Notifications lost, skipped or failed, the worker's ticks bring every row that
\* can follow level with the calendar, and keep it so.
EventuallyReflected == <>[](\A e \in Events : Followed(e) => Reflected(e))

=============================================================================
