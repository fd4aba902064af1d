-------------------------- MODULE DashboardProofs --------------------------
(***************************************************************************)
(* Proofs about Dashboard: its types, and answers that never go back, for  *)
(* every number of tasks, every set of filters and every length of the     *)
(* event list.                                                             *)
(***************************************************************************)
EXTENDS Dashboard, SequenceTheorems, WellFoundedInduction, TLAPS

(* What a request has read so far is no newer than the store and no older  *)
(* than the rows of the last answer; there is at most one request.         *)
NotNewer(found, t) == found # Absent => found.age <= age[t]

PollInv ==
  /\ \A r, s \in requests : r = s
  /\ \A t \in Task : NotNewer(polled[t], t)
  /\ \A r \in requests, t \in Task :
       /\ NotNewer(r.got[t], t)
       /\ r.got[t] # Absent /\ polled[t] # Absent => polled[t].age <= r.got[t].age

DashInv == DashTypeOK /\ PollInv

-----------------------------------------------------------------------------
(* A move goes to a status, and the event it publishes shows one.          *)
LEMMA MoveTypes ==
  ASSUME NEW m \in Moves
  PROVE  /\ m[1] \in Statuses /\ m[2] \in Statuses
         /\ m[3] # NoEvent => m[3] \in Statuses \cup {Unmapped}
<1>1. m[1] \in Statuses /\ m[2] \in Statuses
  BY DEF Statuses
<1>2. {"QUEUED", "RUNNING", "COMPLETED", "RETRYING", "DLQ", "CANCELLED"} \subseteq Statuses
  <2>1. /\ <<"NONE", "QUEUED", "QUEUED">> \in Moves
        /\ <<"QUEUED", "RUNNING", "RUNNING">> \in Moves
        /\ <<"RUNNING", "COMPLETED", "COMPLETED">> \in Moves
        /\ <<"RUNNING", "RETRYING", "RETRYING">> \in Moves
        /\ <<"RUNNING", "DLQ", "DLQ">> \in Moves
        /\ <<"RUNNING", "CANCELLED", "CANCELLED">> \in Moves
    BY DEF Moves, ScriptMoves, RequestMoves
  <2>2. QED  BY <2>1 DEF Statuses
<1>3. m[3] \in {"QUEUED", "RUNNING", "COMPLETED", "RETRYING", "DLQ", "CANCELLED",
              NoEvent, Unmapped}
  <2>1. CASE m \in ScriptMoves
    BY <2>1, SMTT(30) DEF ScriptMoves
  <2>2. CASE m \in {<<s, "CANCELLED", "CANCELLED">> :
                      s \in {"PENDING", "QUEUED", "RETRYING", "RUNNING", "COMPLETED", "DLQ"}}
    BY <2>2
  <2>3. CASE m = <<"DLQ", "QUEUED", NoEvent>>
    BY <2>3
  <2>4. QED  BY <2>1, <2>2, <2>3 DEF Moves, RequestMoves
<1>4. QED  BY <1>1, <1>2, <1>3

(* A bounded set of positions that is not empty has a last one.            *)
LEMMA LastExists ==
  ASSUME NEW n \in Nat, NEW S, S \subseteq 1..n, S # {}
  PROVE  Max(S) \in S
<1> DEFINE T == {n - i : i \in S}
<1>1. T \subseteq Nat /\ T # {}
  <2>1. \A i \in S : n - i \in Nat
    OBVIOUS
  <2>2. T \subseteq Nat
    BY <2>1
  <2>3. PICK i \in S : TRUE
    OBVIOUS
  <2>4. n - i \in T
    BY <2>3
  <2>5. QED  BY <2>2, <2>4
<1>2. PICK x \in T : \A y \in T : ~(<<y, x>> \in OpToRel(<, Nat))
  BY <1>1, NatLessThanWellFounded, WFMin
<1>3. \A y \in T : ~(y < x)
  BY <1>1, <1>2 DEF OpToRel
<1>4. PICK i \in S : x = n - i
  BY <1>2
<1>5. \A j \in S : i >= j
  BY <1>3, <1>4
<1>6. QED  BY <1>4, <1>5 DEF Max

(* Reversing keeps a sequence a sequence of the same things.               *)
LEMMA ReverseType ==
  ASSUME NEW S, NEW s \in Seq(S)
  PROVE  Reverse(s) \in Seq(S)
<1>1. Len(s) \in Nat /\ \A i \in 1..Len(s) : s[i] \in S
  OBVIOUS
<1>2. Reverse(s) = [i \in 1..Len(s) |-> s[(Len(s) - i) + 1]]
  BY DEF Reverse
<1>3. \A i \in 1..Len(s) : s[(Len(s) - i) + 1] \in S
  BY <1>1
<1>4. QED  BY <1>1, <1>2, <1>3

(* The updater leaves at most FeedSize events in the list.                 *)
LEMMA MergedType ==
  ASSUME DashTypeOK
  PROVE  Merged \in Seq(Event) /\ Len(Merged) <= FeedSize
<1> DEFINE all == Reverse(buffer) \o feed
           n == IF Len(all) < FeedSize THEN Len(all) ELSE FeedSize
<1>1. Reverse(buffer) \in Seq(Event) /\ feed \in Seq(Event)
  BY ReverseType DEF DashTypeOK
<1>2. all \in Seq(Event)
  BY <1>1, ConcatProperties
<1>3. n \in Nat /\ n <= Len(all) /\ n <= FeedSize
  BY <1>2, DashAssumption
<1>4. \A i \in 1..n : all[i] \in Event
  BY <1>2, <1>3
<1>5. /\ SubSeq(all, 1, n) \in Seq(Event)
      /\ Len(SubSeq(all, 1, n)) = IF 1 <= n THEN n - 1 + 1 ELSE 0
  <2>1. 1 \in Int /\ n \in Int
    BY <1>3
  <2>2. QED  BY <1>4, <2>1, SubSeqProperties
<1>6. Merged = SubSeq(all, 1, n)
  BY DEF Merged
<1>7. QED  BY <1>3, <1>5, <1>6

(* Applying events leaves each row at a status.                            *)
LEMMA AppliedType ==
  ASSUME DashTypeOK, NEW list \in Seq(Event)
  PROVE  Applied(list) \in [Task -> Statuses \cup {Absent}]
<1>1. ASSUME NEW t \in Task
      PROVE  Applied(list)[t] \in Statuses \cup {Absent}
  <2> DEFINE about == About(list, t)
  <2>1. view[t] \in Statuses \cup {Absent}
    BY DEF DashTypeOK
  <2>2. CASE view[t] = Absent \/ about = {}
    BY <2>1, <2>2 DEF Applied
  <2>3. CASE view[t] # Absent /\ about # {}
    <3>1. about \subseteq 1..Len(list) /\ Len(list) \in Nat
      BY DEF About
    <3>2. Max(about) \in about
      BY <2>3, <3>1, LastExists
    <3>3. list[Max(about)] \in Event
      BY <3>1, <3>2
    <3>4. list[Max(about)].shows \in Statuses
      BY <3>2, <3>3 DEF Event, About
    <3>5. Applied(list)[t] = list[Max(about)].shows
      BY <2>3 DEF Applied
    <3>6. QED  BY <3>4, <3>5
  <2>4. QED  BY <2>2, <2>3
<1>2. QED  BY <1>1 DEF Applied

-----------------------------------------------------------------------------
(* The page has just been mounted.                                         *)
LEMMA DashInit == Init => DashInv
<1> SUFFICES ASSUME Init PROVE DashInv  OBVIOUS
<1> USE DEF Init
<1>1. "NONE" \in Statuses
  <2>1. <<"NONE", "QUEUED", "QUEUED">> \in Moves
    BY DEF Moves, ScriptMoves
  <2>2. QED  BY <2>1 DEF Statuses
<1>2. Asked(filter) \in Request
  BY DEF Asked, Request
<1>3. DashTypeOK
  <2>1. <<>> \in Seq(Event) /\ Len(<<>>) = 0
    BY EmptySeq
  <2>2. requests \subseteq Request
    BY <1>2
  <2>3. status \in [Task -> Statuses] /\ age \in [Task -> Nat]
    BY <1>1
  <2>4. polled \in [Task -> Item \cup {Absent}] /\ view \in [Task -> Statuses \cup {Absent}]
    OBVIOUS
  <2>5. Len(feed) <= FeedSize
    BY <2>1, DashAssumption
  <2>6. QED  BY <2>1, <2>2, <2>3, <2>4, <2>5 DEF DashTypeOK
<1>4. PollInv
  BY DEF PollInv, NotNewer, Asked
<1>5. QED  BY <1>3, <1>4 DEF DashInv

(* Steps that leave the store, the requests and the last answer alone.     *)
LEMMA EventStep ==
  ASSUME DashInv, Connect \/ Disconnect \/ Receive \/ Flush \/ Render \/ UNCHANGED vars
  PROVE  DashInv'
<1> USE DEF DashInv, DashTypeOK
<1>1. UNCHANGED <<status, age, filter, requests, polled>>
  BY DEF Connect, Disconnect, Receive, Flush, Render, store, polling, vars
<1>2. PollInv'
  BY <1>1 DEF PollInv, NotNewer
<1>3. Reverse(buffer) \in Seq(Event) /\ <<>> \in Seq(Event)
  BY ReverseType, EmptySeq
<1>4. Merged \in Seq(Event) /\ Len(Merged) <= FeedSize
  BY MergedType
<1>5. Applied(Merged) \in [Task -> Statuses \cup {Absent}]
  BY <1>4, AppliedType
<1>6. CASE Receive
  <2>1. Head(wire) \in Event /\ Tail(wire) \in Seq(Event)
    BY <1>6, HeadTailProperties DEF Receive
  <2>2. Append(buffer, Head(wire)) \in Seq(Event)
    BY <2>1
  <2>3. DashTypeOK' /\ view' = view
    BY <1>1, <1>6, <2>1, <2>2 DEF Receive, store, polling
  <2>4. QED  BY <1>2, <2>3
<1>7. CASE Flush
  <2>1. \/ feed' = Merged /\ view' = Applied(Merged) /\ UNCHANGED deferred
        \/ deferred' = TRUE /\ UNCHANGED <<feed, view>>
    BY <1>7 DEF Flush
  <2>2. buffer' = <<>> /\ UNCHANGED <<stream, wire>>
    BY <1>7 DEF Flush
  <2>3. DashTypeOK'
    BY <1>1, <1>3, <1>4, <1>5, <2>1, <2>2
  <2>4. QED  BY <1>2, <2>3
<1>8. CASE Render
  <2>1. /\ feed' = Merged /\ view' = Applied(Merged) /\ deferred' = FALSE
        /\ buffer' = Reverse(buffer) /\ UNCHANGED <<stream, wire>>
    BY <1>8 DEF Render
  <2>2. DashTypeOK'
    BY <1>1, <1>3, <1>4, <1>5, <2>1
  <2>3. QED  BY <1>2, <2>2
<1>9. CASE Connect \/ Disconnect \/ UNCHANGED vars
  <2>1. /\ stream' \in {"open", "closed"} /\ wire' \in Seq(Event)
        /\ UNCHANGED <<buffer, deferred, feed, view>>
    BY <1>3, <1>9 DEF Connect, Disconnect, vars
  <2>2. DashTypeOK'
    BY <1>1, <2>1
  <2>3. QED  BY <1>2, <2>2
<1>10. QED  BY <1>6, <1>7, <1>8, <1>9

(* A task moves: the store only gets newer.                                *)
LEMMA MoveStep ==
  ASSUME DashInv, NEW t \in Task, Move(t)
  PROVE  DashInv'
<1> USE DEF DashInv, DashTypeOK
<1>1. PICK m \in Moves : /\ status' = [status EXCEPT ![t] = m[2]]
                        /\ wire' = Published(t, m[3])
  BY DEF Move
<1>2. /\ age' = [age EXCEPT ![t] = @ + 1]
      /\ UNCHANGED <<stream, buffer, deferred, feed, filter, requests, polled, view>>
  BY DEF Move, polling
<1>3. m[2] \in Statuses /\ (m[3] # NoEvent => m[3] \in Statuses \cup {Unmapped})
  BY MoveTypes
<1>4. wire' \in Seq(Event)
  <2>1. CASE stream = "open" /\ m[3] # NoEvent
    <3>1. [task |-> t, shows |-> m[3]] \in Event
      BY <1>3, <2>1 DEF Event
    <3>2. wire' = Append(wire, [task |-> t, shows |-> m[3]])
      BY <1>1, <2>1 DEF Published
    <3>3. QED  BY <3>1, <3>2
  <2>2. CASE ~(stream = "open" /\ m[3] # NoEvent)
    BY <1>1, <2>2 DEF Published
  <2>3. QED  BY <2>1, <2>2
<1>5. DashTypeOK'
  BY <1>1, <1>2, <1>3, <1>4
<1>6. \A u \in Task : age[u] <= age'[u]
  BY <1>2
<1>7. \A u \in Task, i \in Item \cup {Absent} : NotNewer(i, u) => NotNewer(i, u)'
  <2>1. SUFFICES ASSUME NEW u \in Task, NEW i \in Item, i.age <= age[u]
                 PROVE  i.age <= age'[u]
    BY DEF NotNewer
  <2>2. i.age \in Nat /\ age[u] \in Nat /\ age'[u] \in Nat
    BY <1>5 DEF Item
  <2>3. QED  BY <1>6, <2>1, <2>2
<1>8. PollInv'
  <2>1. \A u \in Task : NotNewer(polled[u], u)'
    BY <1>2, <1>7 DEF PollInv, NotNewer
  <2>2. \A r \in requests, u \in Task : NotNewer(r.got[u], u)'
    <3>1. \A r \in requests, u \in Task : r.got[u] \in Item \cup {Absent}
      BY DEF Request
    <3>2. QED  BY <1>2, <1>7, <3>1 DEF PollInv, NotNewer
  <2>3. QED  BY <1>2, <2>1, <2>2 DEF PollInv, NotNewer
<1>9. QED  BY <1>5, <1>8

-----------------------------------------------------------------------------
(* Requests: the only request is asked, served, answered or lost.          *)
LEMMA AskStep ==
  ASSUME DashInv, Poll \/ \E f \in Filters : Turn(f)
  PROVE  DashInv'
<1> USE DEF DashInv, DashTypeOK
<1>1. /\ filter' \in Filters
      /\ \/ requests = {} /\ requests' = {Asked(filter')}
         \/ requests' = requests
      /\ UNCHANGED <<status, age, stream, wire, buffer, deferred, feed, polled, view>>
  BY DEF Poll, Turn, Free, store, events
<1>2. Asked(filter') \in Request
  BY <1>1 DEF Asked, Request
<1>3. DashTypeOK'
  BY <1>1, <1>2
<1>4. PollInv'
  <2>1. CASE requests' = requests
    BY <1>1, <2>1 DEF PollInv, NotNewer
  <2>2. CASE requests' = {Asked(filter')}
    <3>1. \A r \in requests', t \in Task : r.got[t] = Absent
      BY <2>2 DEF Asked
    <3>2. QED  BY <1>1, <2>2, <3>1 DEF PollInv, NotNewer
  <2>3. QED  BY <1>1, <2>1, <2>2
<1>5. QED  BY <1>3, <1>4

(* The request is served, answered or lost; an answer moves no row back.   *)
LEMMA ServeStep ==
  ASSUME DashInv, NEW r \in requests, Serve(r) \/ Fail(r)
  PROVE  DashInv' /\ \A t \in Task :
           polled[t] # Absent /\ polled'[t] # Absent => polled[t].age <= polled'[t].age
<1> DEFINE InOrder == \A t \in Task :
             polled[t] # Absent /\ polled'[t] # Absent => polled[t].age <= polled'[t].age
<1> USE DEF DashInv, DashTypeOK
<1>1. r \in Request /\ requests = {r} /\ requests \ {r} = {}
  BY DEF PollInv
<1>2. \A t \in Task : polled[t] # Absent => polled[t].age <= polled[t].age
  BY DEF Item
<1>3. CASE Members(r)
  <2> DEFINE s == [r EXCEPT !.stage = "reading", !.left = Submitted]
  <2>1. /\ requests' = {s}
        /\ UNCHANGED <<status, age, stream, wire, buffer, deferred, feed, filter, polled, view>>
    BY <1>1, <1>3 DEF Members, store, events
  <2>2. s \in Request /\ s.got = r.got
    BY <1>1 DEF Request, Submitted
  <2>3. DashTypeOK' /\ InOrder
    BY <1>2, <2>1, <2>2
  <2>4. PollInv'
    BY <1>1, <2>1, <2>2 DEF PollInv, NotNewer
  <2>5. QED  BY <2>3, <2>4
<1>4. ASSUME NEW t \in Task, Read(r, t)
      PROVE  DashInv' /\ InOrder
  <2> DEFINE s == [r EXCEPT !.left = @ \ {t}, !.got[t] = Found(t, r.filter)]
  <2>1. /\ requests' = {s}
        /\ UNCHANGED <<status, age, stream, wire, buffer, deferred, feed, filter, polled, view>>
    BY <1>1, <1>4 DEF Read, store, events
  <2>2. Found(t, r.filter) \in Item \cup {Absent}
    BY DEF Found, Item
  <2>3. s \in Request /\ s.got = [r.got EXCEPT ![t] = Found(t, r.filter)]
    BY <1>1, <2>2 DEF Request
  <2>4. DashTypeOK' /\ InOrder
    BY <1>2, <2>1, <2>3
  <2>5. Found(t, r.filter) # Absent => Found(t, r.filter).age = age[t]
    BY DEF Found
  <2>6. \A u \in Task : r.got[u] \in Item \cup {Absent}
    BY <1>1 DEF Request
  <2>7. \A u \in Task : NotNewer(s.got[u], u)
    BY <1>1, <2>3, <2>5 DEF PollInv, NotNewer, Request
  <2>8. \A u \in Task : s.got[u] # Absent /\ polled[u] # Absent =>
                          polled[u].age <= s.got[u].age
    BY <1>1, <2>3, <2>5 DEF PollInv, NotNewer, Request
  <2>9. PollInv'
    BY <2>1, <2>7, <2>8 DEF PollInv, NotNewer
  <2>10. QED  BY <2>4, <2>9
<1>5. CASE Answer(r)
  <2>1. /\ requests' = {} /\ polled' = r.got /\ view' = Rows(r.got)
        /\ UNCHANGED <<status, age, stream, wire, buffer, deferred, feed, filter>>
    BY <1>1, <1>5 DEF Answer, store, events
  <2>2. r.got \in [Task -> Item \cup {Absent}]
    BY <1>1 DEF Request
  <2>3. \A t \in Task : /\ Rows(r.got)[t] \in Statuses \cup {Absent}
                        /\ Rows(r.got)[t] = Absent <=> r.got[t] = Absent
    BY <2>2, AbsentAssumption DEF Rows, Item
  <2>4. Rows(r.got) \in [Task -> Statuses \cup {Absent}]
    BY <2>3 DEF Rows
  <2>5. DashTypeOK'
    BY <2>1, <2>2, <2>3, <2>4
  <2>6. PollInv' /\ InOrder
    BY <2>1 DEF PollInv, NotNewer
  <2>7. QED  BY <2>5, <2>6
<1>6. CASE Fail(r)
  <2>1. /\ requests' = {}
        /\ UNCHANGED <<status, age, stream, wire, buffer, deferred, feed, filter, polled, view>>
    BY <1>1, <1>6 DEF Fail, Cleared, store, events
  <2>2. DashTypeOK' /\ InOrder
    BY <1>2, <2>1
  <2>3. PollInv'
    BY <2>1 DEF PollInv, NotNewer
  <2>4. QED  BY <2>2, <2>3
<1>7. QED  BY <1>3, <1>4, <1>5, <1>6 DEF Serve

-----------------------------------------------------------------------------
(* The rows of the last answer, except for ServeStep, stay as they are.    *)
LEMMA DashStep ==
  ASSUME DashInv, [Next]_vars
  PROVE  DashInv' /\ \A t \in Task :
           polled[t] # Absent /\ polled'[t] # Absent => polled[t].age <= polled'[t].age
<1>1. CASE \E r \in requests : Serve(r) \/ Fail(r)
  BY <1>1, ServeStep
<1>2. CASE Poll \/ \E f \in Filters : Turn(f)
  <2>1. DashInv' /\ polled' = polled
    BY <1>2, AskStep DEF Poll, Turn
  <2>2. QED  BY <2>1 DEF DashInv, DashTypeOK, Item
<1>3. CASE \E t \in Task : Move(t)
  <2>1. DashInv' /\ polled' = polled
    BY <1>3, MoveStep DEF Move, polling
  <2>2. QED  BY <2>1 DEF DashInv, DashTypeOK, Item
<1>4. CASE Connect \/ Disconnect \/ Receive \/ Flush \/ Render \/ UNCHANGED vars
  <2>1. DashInv' /\ polled' = polled
    BY <1>4, EventStep DEF Connect, Disconnect, Receive, Flush, Render, polling, vars
  <2>2. QED  BY <2>1 DEF DashInv, DashTypeOK, Item
<1>5. QED  BY <1>1, <1>2, <1>3, <1>4 DEF Next, Browser

(* The inductive invariant of the dashboard.                               *)
THEOREM DashInvariant == Spec => []DashInv
<1>1. DashInv /\ [Next]_vars => DashInv'
  BY DashStep
<1>2. QED  BY <1>1, DashInit, PTL DEF Spec

(* Type correctness, the bound of the event list included.                 *)
THEOREM DashTypes == Spec => []DashTypeOK
<1>1. DashInv => DashTypeOK
  BY DEF DashInv
<1>2. QED  BY <1>1, DashInvariant, PTL

(* No answer takes a row back in time: see PollsInOrder.                   *)
THEOREM AnswersInOrder == Spec => PollsInOrder
<1>1. DashInv /\ [Next]_vars =>
        [\A t \in Task : polled[t] # Absent /\ polled'[t] # Absent =>
           polled[t].age <= polled'[t].age]_vars
  BY DashStep
<1>2. QED  BY <1>1, DashInvariant, PTL DEF PollsInOrder, Spec
=============================================================================
