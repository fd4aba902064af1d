----------------------------- MODULE Dashboard -----------------------------
(***************************************************************************)
(* The task table of the dashboard: rows polled over HTTP and statuses     *)
(* changed by the events of the stream, against tasks that keep moving     *)
(* (backend/app/events, api/events.py, queue/state.py; frontend/src/       *)
(* context/SSEContext.tsx, hooks/usePolling.ts, pages/Tasks.tsx).          *)
(*                                                                         *)
(* Events are lost while the stream is down; the ones received are         *)
(* buffered and flushed into a bounded list, newest first, which is        *)
(* applied to the rows.  A poll reads the tasks one by one.                *)
(***************************************************************************)
EXTENDS Lifecycle, Naturals, FiniteSetsExt, SequencesExt

CONSTANTS
  Task,        \* tasks that fit on the page
  Filters,     \* the status filters chosen from: sets of statuses
  FeedSize,    \* length of the event list (500 in the code)
  MaxMoves,    \* bound: status changes
  MaxTurns,    \* bound: changes of the filter
  MaxDrops,    \* bound: lost connections of the stream
  MaxErrors,   \* bound: polls that fail
  Absent       \* not in the table

ASSUME DashAssumption ==
  /\ FeedSize \in Nat \ {0}
  /\ {MaxMoves, MaxTurns, MaxDrops, MaxErrors} \subseteq Nat
  /\ Filters # {}

VARIABLES
  status,     \* the status in ts:task:{id}; "NONE" before its submission
  age,        \* how often it has changed
  stream,     \* the EventSource: open or closed
  wire,       \* events published and not yet received
  buffer,     \* bufferRef.current
  deferred,   \* has React an updater of setEvents still to run?
  feed,       \* events, newest first
  filter,     \* statusFilter
  requests,   \* listTasks requests under way
  polled,     \* polledData.items
  view,       \* tasks, the rows shown: their status
  turns, drops, errors

store   == <<status, age>>
events  == <<stream, wire, buffer, deferred, feed>>
polling == <<filter, requests, polled>>
counts  == <<turns, drops, errors>>
vars == <<status, age, stream, wire, buffer, deferred, feed, filter, requests,
          polled, view, turns, drops, errors>>

-----------------------------------------------------------------------------
(* The value space.                                                        *)

Statuses == {m[1] : m \in Moves} \cup {m[2] : m \in Moves}

(* An event as the page reads it; a task as a poll found it.               *)
Event == [task: Task, shows: Statuses \cup {Unmapped}]
Item  == [status: Statuses, age: Nat]

Request == [filter: Filters, stage: {"sent", "reading"}, left: SUBSET Task,
            got: [Task -> Item \cup {Absent}]]

ASSUME AbsentAssumption == Absent \notin Statuses \cup Item \cup {Unmapped}

Submitted == {t \in Task : status[t] # "NONE"}

(* A request that has not been served yet.                                 *)
Asked(f) ==
  [filter |-> f, stage |-> "sent", left |-> {}, got |-> [t \in Task |-> Absent]]

(* The page is mounted: the stream is being opened, the first request sent.*)
Init ==
  /\ status = [t \in Task |-> "NONE"]
  /\ age = [t \in Task |-> 0]
  /\ stream = "closed"
  /\ wire = <<>> /\ buffer = <<>> /\ feed = <<>>
  /\ deferred = FALSE
  /\ filter \in Filters
  /\ requests = {Asked(filter)}
  /\ polled = [t \in Task |-> Absent]
  /\ view = [t \in Task |-> Absent]
  /\ turns = 0 /\ drops = 0 /\ errors = 0

-----------------------------------------------------------------------------
(* The stream: PUBLISH reaches who is subscribed, and nobody else.  An     *)
(* event that stands for no status is sent like any other.                 *)

Published(t, s) ==
  IF stream = "open" /\ s # NoEvent
  THEN Append(wire, [task |-> t, shows |-> s])
  ELSE wire

Move(t) ==
  /\ SumFunction(age) < MaxMoves
  /\ \E m \in Moves :
       /\ status[t] = m[1]
       /\ status' = [status EXCEPT ![t] = m[2]]
       /\ wire' = Published(t, m[3])
  /\ age' = [age EXCEPT ![t] = @ + 1]
  /\ UNCHANGED <<stream, buffer, deferred, feed, polling, view, counts>>

(* EventSource connects, and reconnects by itself.                         *)
Connect ==
  /\ stream = "closed"
  /\ stream' = "open"
  /\ UNCHANGED <<store, wire, buffer, deferred, feed, polling, view, counts>>

Disconnect ==
  /\ stream = "open"
  /\ drops < MaxDrops
  /\ stream' = "closed"
  /\ wire' = <<>>
  /\ drops' = drops + 1
  /\ UNCHANGED <<store, buffer, deferred, feed, polling, view, turns, errors>>

-----------------------------------------------------------------------------
(* SSEContext.                                                             *)

Receive ==
  /\ wire # <<>>
  /\ buffer' = Append(buffer, Head(wire))
  /\ wire' = Tail(wire)
  /\ UNCHANGED <<store, stream, deferred, feed, polling, view, counts>>

(* The updater: what is in the buffer when it runs goes before the list.   *)
Merged_Unbounded == Reverse(buffer) \o feed
Merged ==
  LET all == Reverse(buffer) \o feed
  IN  SubSeq(all, 1, IF Len(all) < FeedSize THEN Len(all) ELSE FeedSize)

(* The events in the list that set the status of the row of t.             *)
About(list, t) == {i \in DOMAIN list : list[i].task = t /\ list[i].shows # Unmapped}

(* Tasks.tsx goes through the whole list, newest first, and sets the       *)
(* status of each row it finds: the oldest event about a row comes last.   *)
Applied(list) ==
  [t \in Task |-> IF view[t] = Absent \/ About(list, t) = {} THEN view[t]
                  ELSE list[Max(About(list, t))].shows]

(* React runs the updater inside setEvents when nothing else is pending on *)
(* the component, and keeps it for the next render otherwise.  The buffer  *)
(* is emptied right after setEvents either way.                            *)
Flush ==
  /\ buffer # <<>> /\ ~deferred
  /\ \/ /\ feed' = Merged
        /\ view' = Applied(feed')
        /\ UNCHANGED deferred
     \/ /\ deferred' = TRUE
        /\ UNCHANGED <<feed, view>>
  /\ buffer' = <<>>
  /\ UNCHANGED <<store, stream, wire, polling, counts>>

(* The updater runs late: on events received since, which it reverses      *)
(* where they are.                                                         *)
Render ==
  /\ deferred
  /\ deferred' = FALSE
  /\ feed' = Merged
  /\ buffer' = Reverse(buffer)
  /\ view' = Applied(feed')
  /\ UNCHANGED <<store, stream, wire, polling, counts>>

-----------------------------------------------------------------------------
(* usePolling, and list_tasks on the server.                               *)

(* fetchData returns at once while a request is active.                    *)
Free_Always == TRUE
Free == requests = {}

(* A round of the interval.                                                *)
Poll ==
  /\ Free
  /\ requests' = requests \cup {Asked(filter)}
  /\ UNCHANGED <<store, events, filter, polled, view, counts>>

(* Another filter: fetchData is called for it, and returns if a request of *)
(* the filter before is active.                                            *)
Turn(f) ==
  /\ f # filter
  /\ turns < MaxTurns
  /\ filter' = f
  /\ requests' = IF Free THEN requests \cup {Asked(f)} ELSE requests
  /\ turns' = turns + 1
  /\ UNCHANGED <<store, events, polled, view, drops, errors>>

(* SMEMBERS ts:tasks:all, then one HGET per member.                        *)
Members(r) ==
  /\ r.stage = "sent"
  /\ requests' = (requests \ {r}) \cup {[r EXCEPT !.stage = "reading", !.left = Submitted]}
  /\ UNCHANGED <<store, events, filter, polled, view, counts>>

Found(t, f) ==
  IF status[t] \in f THEN [status |-> status[t], age |-> age[t]] ELSE Absent

Read(r, t) ==
  /\ t \in r.left
  /\ requests' = (requests \ {r}) \cup
       {[r EXCEPT !.left = @ \ {t}, !.got[t] = Found(t, r.filter)]}
  /\ UNCHANGED <<store, events, filter, polled, view, counts>>

(* The rows are replaced by the ones of the answer.                        *)
Rows(got) ==
  [t \in Task |-> IF got[t] = Absent THEN Absent ELSE got[t].status]

Answer(r) ==
  /\ r.stage = "reading" /\ r.left = {}
  /\ polled' = r.got
  /\ view' = Rows(r.got)
  /\ requests' = requests \ {r}
  /\ UNCHANGED <<store, events, filter, counts>>

(* The finally block clears the active request when it has failed, too.    *)
Cleared_OnSuccess(r) == (requests \ {r}) \cup {[r EXCEPT !.stage = "failed"]}
Cleared(r) == requests \ {r}

Fail(r) ==
  /\ errors < MaxErrors
  /\ errors' = errors + 1
  /\ requests' = Cleared(r)
  /\ UNCHANGED <<store, events, filter, polled, view, turns, drops>>

-----------------------------------------------------------------------------
Serve(r) == Members(r) \/ (\E t \in Task : Read(r, t)) \/ Answer(r)

Browser == Receive \/ Flush \/ Render \/ Poll \/ \E r \in requests : Serve(r)

Next ==
  \/ Browser \/ Connect \/ Disconnect
  \/ \E t \in Task : Move(t)
  \/ \E f \in Filters : Turn(f)
  \/ \E r \in requests : Fail(r)

Spec == Init /\ [][Next]_vars

(* Timers fire, React renders, EventSource reconnects, and a request is    *)
(* answered or fails: fetch has no time limit of its own.                  *)
Fairness ==
  /\ WF_vars(Receive) /\ WF_vars(Flush) /\ WF_vars(Render) /\ WF_vars(Connect)
  /\ WF_vars(Poll)
  /\ WF_vars(\E r \in requests : Serve(r))

FairSpec == Spec /\ Fairness

-----------------------------------------------------------------------------
(* Properties.                                                             *)

(* Types.  The list of events keeps its bound, and a request is at a stage *)
(* from which it can be served or fail.                                    *)
DashTypeOK ==
  /\ status \in [Task -> Statuses]
  /\ age \in [Task -> Nat]
  /\ stream \in {"open", "closed"}
  /\ wire \in Seq(Event) /\ buffer \in Seq(Event) /\ feed \in Seq(Event)
  /\ Len(feed) <= FeedSize
  /\ deferred \in BOOLEAN
  /\ filter \in Filters
  /\ requests \subseteq Request
  /\ polled \in [Task -> Item \cup {Absent}]
  /\ view \in [Task -> Statuses \cup {Absent}]

(* An answer never takes a row back to an older state of its task, however *)
(* polls, failures and changes of the filter alternate.                    *)
PollsInOrder ==
  [][\A t \in Task : polled[t] # Absent /\ polled'[t] # Absent =>
       polled[t].age <= polled'[t].age]_vars

(* Once the tasks and the filter come to rest, the table shows what Redis  *)
(* holds, and keeps showing it: events that were lost, doubled or applied  *)
(* in the wrong order, and answers to another filter, are put right by the *)
(* polling.                                                                *)
ViewCatchesUp ==
  <>[](view = [t \in Task |-> IF status[t] \in filter THEN status[t] ELSE Absent])

-----------------------------------------------------------------------------
(* What a comment states and the page does not keep.                       *)

(* Applying the events leaves a row at the status of the newest event      *)
(* about it ("Apply SSE mutations instantly", Tasks.tsx:56).               *)
RowsFollowEvents ==
  [][feed' # feed => \A t \in Task : view'[t] # Absent /\ About(feed', t) # {} =>
       view'[t] = feed'[Min(About(feed', t))].shows]_vars
=============================================================================
