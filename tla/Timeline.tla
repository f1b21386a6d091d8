------------------------------- MODULE Timeline -------------------------------
(***************************************************************************)
(* The timeline of one job, and one browser that watches it.               *)
(*                                                                         *)
(* Whatever happens to a job is a row of job_events, numbered in order.    *)
(* Those who write one also tell the browsers, each in its own way: the    *)
(* agent's reports, an expiry and the watcher read the rows back and       *)
(* publish the last of them; a note of the relay is published as it is,    *)
(* without its number (internal/relay/server.go, watcher.go, expiry.go).   *)
(* A browser subscribes, is sent the rows so far, and then what the        *)
(* subscription holds; it leaves out a number it has shown                 *)
(* (web/app/jobs/[id]/live.tsx).                                           *)
(***************************************************************************)
EXTENDS Naturals, Sequences, FiniteSets

CONSTANTS
  Reporter,  \* goroutines that report: the agent's connection, the expiry sweep
  Noter,     \* goroutines that leave a note
  Watcher,   \* the goroutine that asks the server how it is
  MaxRows,   \* bound: rows written
  MaxFeed    \* room of a subscription, 32 in the code

ASSUME TimelineAssumption ==
  /\ Reporter \cap Noter = {} /\ Watcher \notin Reporter \cup Noter
  /\ MaxRows \in Nat /\ MaxFeed \in Nat

VARIABLES
  job,      \* its state, as far as the watcher goes by it
  rows,     \* job_events: the writer of each
  writing,  \* per goroutine: the statement it is at, and what it publishes
  found,    \* Watcher: the job as it was listed
  known,    \* seen[id]: the answer before
  feed,     \* the subscription's channel
  browser,  \* "away", "subscribed", "live"
  since,    \* handleJobEvents: the last number sent from the rows
  seen,     \* numbers the page has shown; 0 for whatever came without
  shown,    \* history: how often the page showed a row
  passed,     \* history: rows a full channel, or another's publishing, passed over
  stale     \* history: rows of the watcher after the one that ended the job

page == <<browser, since, seen, shown, feed>>
timelineVars == <<job, rows, writing, found, known, page, passed, stale>>

Writer == Reporter \cup Noter \cup {Watcher}
JobState == {"waiting", "joining", "ended"}

TimelineTypeOK ==
  /\ job \in JobState /\ rows \in Seq(Writer) /\ Len(rows) <= MaxRows
  /\ writing \in [Writer -> [at : {"rest", "ask", "row", "read", "publish"}, row : 0 .. MaxRows,
                             last : 0 .. MaxRows]]
  /\ found \in JobState /\ known \in {"never", "up", "down"}
  /\ feed \in Seq([row : 1 .. MaxRows, id : 0 .. MaxRows]) /\ Len(feed) <= MaxFeed
  /\ browser \in {"away", "subscribed", "live"} /\ since \in 0 .. MaxRows
  /\ seen \subseteq 0 .. MaxRows /\ shown \in [1 .. MaxRows -> Nat]
  /\ passed \subseteq 1 .. MaxRows /\ stale \in Nat

AtRest == [at |-> "rest", row |-> 0, last |-> 0]

TimelineInit ==
  /\ job = "waiting" /\ rows = <<>>
  /\ writing = [w \in Writer |-> AtRest]
  /\ found = "waiting" /\ known = "never"
  /\ feed = <<>> /\ browser = "away" /\ since = 0 /\ seen = {}
  /\ shown = [i \in 1 .. MaxRows |-> 0] /\ passed = {} /\ stale = 0

-----------------------------------------------------------------------------
(* Those who write.                                                        *)

Finishes(w) == writing' = [writing EXCEPT ![w] = AtRest]
Now(w, at) == writing' = [writing EXCEPT ![w].at = at]

\* AppendEvent; the number is the place.
AppendEvent(w, next) ==
  /\ Len(rows) < MaxRows
  /\ rows' = Append(rows, w)
  /\ writing' = [writing EXCEPT ![w] = [at |-> next, row |-> Len(rows) + 1, last |-> 0]]

\* handleAgentMessage (ApplyStatus), sweepExpiredJobs (FinishJob).  Nothing is
\* reported of a job that is over.
Reports(w) ==
  /\ writing[w].at = "rest" /\ job # "ended" /\ job' \in JobState \ {job}
  /\ AppendEvent(w, "read")
  /\ UNCHANGED <<found, known, page, passed, stale>>

\* note.
Notes(w) ==
  /\ writing[w].at = "rest" /\ AppendEvent(w, "publish")
  /\ UNCHANGED <<job, found, known, page, passed, stale>>

\* Events, and the last of them; if they cannot be read, nothing is published.
ReadsBack(w) ==
  /\ writing[w].at = "read"
  /\ \/ /\ writing' = [writing EXCEPT ![w].at = "publish", ![w].last = Len(rows)]
        /\ passed' = IF writing[w].row = Len(rows) THEN passed ELSE passed \cup {writing[w].row}
     \/ Finishes(w) /\ passed' = passed \cup {writing[w].row}
  /\ UNCHANGED <<job, rows, found, known, page, stale>>

\* Mutant: a row is published as it was made.
PublishAsMade(w) ==
  /\ writing[w].at = "publish" /\ Finishes(w)
  /\ IF browser = "away" THEN UNCHANGED <<feed, passed>>
     ELSE IF Len(feed) < MaxFeed
     THEN feed' = Append(feed, [row |-> writing[w].row, id |-> 0]) /\ UNCHANGED passed
     ELSE passed' = passed \cup {writing[w].row} /\ UNCHANGED feed
  /\ UNCHANGED <<job, rows, found, known, browser, since, seen, shown, stale>>

\* Hub.Publish: whoever is not reading is passed over.
Publish(w) ==
  LET what == IF w \in Noter THEN [row |-> writing[w].row, id |-> 0]
              ELSE [row |-> writing[w].last, id |-> writing[w].last]
  IN /\ writing[w].at = "publish" /\ Finishes(w)
     /\ IF browser = "away" THEN UNCHANGED <<feed, passed>>
        ELSE IF Len(feed) < MaxFeed THEN feed' = Append(feed, what) /\ UNCHANGED passed
        ELSE passed' = passed \cup {what.row} /\ UNCHANGED feed
     /\ UNCHANGED <<job, rows, found, known, browser, since, seen, shown, stale>>

-----------------------------------------------------------------------------
(* The watcher.                                                            *)

\* Mutant: the jobs are those of the sweep before.
ListsJobsOfBefore ==
  /\ writing[Watcher].at = "rest" /\ Now(Watcher, "ask")
  /\ found' = IF job = "ended" THEN found ELSE job
  /\ UNCHANGED <<job, rows, known, page, passed, stale>>

\* sweep: the jobs that are not over; those that are, are forgotten.
ListsJobs ==
  /\ writing[Watcher].at = "rest"
  /\ IF job = "ended" THEN known' = "never" /\ UNCHANGED <<writing, found>>
     ELSE Now(Watcher, "ask") /\ found' = job /\ UNCHANGED known
  /\ UNCHANGED <<job, rows, page, passed, stale>>

\* waitingForRestart, of the job as it was listed.
IsFlip(answer) == known # "never" /\ answer # known /\ found = "waiting"

\* applyStatus; the answer took up to three seconds.  (What it tells the agent
\* is in RelayJobs.)
AppliesStatus(answer) ==
  /\ writing[Watcher].at = "ask" /\ known' = answer
  /\ IF IsFlip(answer) THEN Now(Watcher, "row") ELSE Finishes(Watcher)
  /\ UNCHANGED <<job, rows, found, page, passed, stale>>

WatcherNotes ==
  /\ writing[Watcher].at = "row" /\ AppendEvent(Watcher, "read")
  /\ stale' = IF job = "ended" THEN stale + 1 ELSE stale
  /\ UNCHANGED <<job, found, known, page, passed>>

-----------------------------------------------------------------------------
(* The one who watches.                                                    *)

Subscribes ==
  /\ browser = "away" /\ browser' = "subscribed" /\ feed' = <<>> /\ since' = 0
  /\ passed' = {}
  /\ UNCHANGED <<job, rows, writing, found, known, seen, shown, stale>>

\* The page shows what it has not seen the number of.
Shows(sent) ==
  LET new == {e \in sent : e.id \notin seen}
  IN /\ seen' = seen \cup {e.id : e \in new}
     /\ shown' = [i \in 1 .. MaxRows |->
                    IF \E e \in new : e.row = i THEN shown[i] + 1 ELSE shown[i]]

\* The rows so far.
SendsHistory ==
  /\ browser = "subscribed" /\ browser' = "live" /\ since' = Len(rows)
  /\ Shows({[row |-> i, id |-> i] : i \in 1 .. Len(rows)})
  /\ UNCHANGED <<job, rows, writing, found, known, feed, passed, stale>>

\* "Duplicates are filtered by id".
SendsLive ==
  /\ browser = "live" /\ feed # <<>> /\ feed' = Tail(feed)
  /\ LET e == Head(feed)
     IN IF e.id # 0 /\ e.id <= since THEN UNCHANGED <<seen, shown>> ELSE Shows({e})
  /\ UNCHANGED <<job, rows, writing, found, known, browser, since, passed, stale>>

\* The connection breaks; the browser opens another, and the page stays.
BreaksOff ==
  /\ browser # "away" /\ browser' = "away" /\ feed' = <<>>
  /\ UNCHANGED <<job, rows, writing, found, known, since, seen, shown, passed, stale>>

TimelineNext ==
  \/ \E w \in Reporter : Reports(w)
  \/ \E w \in Noter : Notes(w)
  \/ \E w \in Writer : ReadsBack(w) \/ Publish(w)
  \/ ListsJobs \/ WatcherNotes
  \/ \E answer \in {"up", "down"} : AppliesStatus(answer)
  \/ Subscribes \/ SendsHistory \/ SendsLive \/ BreaksOff

TimelineSpec == TimelineInit /\ [][TimelineNext]_timelineVars

-----------------------------------------------------------------------------
(* What the page can be trusted with.                                      *)

Numbered(i) == rows[i] \notin Noter
Settled == browser = "live" /\ feed = <<>> /\ \A w \in Writer : writing[w].at \notin {"read", "publish"}

\* "Nothing that happens in between is missed" (handleJobEvents): what has a
\* number is on a page that has caught up, once, unless the channel was full or
\* another writer's row was published in its place; and nothing is there more
\* than twice.
PageIsWhole ==
  \A i \in 1 .. Len(rows) :
    /\ shown[i] <= (IF Numbered(i) THEN 1 ELSE 2)
    /\ (Settled /\ Numbered(i) /\ i \notin passed) => shown[i] = 1

\* The list of jobs a sweep works from may be older than a job's end, but the
\* next list has not got the job: the watcher says one thing too many at most.
WatcherFallsSilent == stale <= 1

\* internal/relay/server.go:720-721: "Duplicates are filtered by id below."
DuplicatesAreFiltered == \A i \in 1 .. Len(rows) : shown[i] <= 1

=============================================================================
