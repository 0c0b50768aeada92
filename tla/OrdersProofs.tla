---------------------------- MODULE OrdersProofs ----------------------------
(***************************************************************************)
(* Proofs about Orders for every set of orders and requests.  Whatever the *)
(* interleaving and the failures, the state is well typed, the recorded    *)
(* history has no gap and nothing stored or cached was invented.  With     *)
(* requests one at a time, any of which may die, the events replay to the  *)
(* row, the columns agree, cache and subscribers lag only after a death,   *)
(* and the service implements OrderLifecycle.                              *)
(***************************************************************************)
EXTENDS Orders, TLAPS

(* A handler that moves to its next step, finishes or dies keeps every       *)
(* request well typed.                                                        *)
LEMMA HandlerMoves ==
    ASSUME RequestsOK, NEW r \in Requests, NEW s \in Stage, NEW f \in {"done", "failed"},
           \/ Advance(r, s) /\ req[r].stage \notin Idle
           \/ req' = [req EXCEPT ![r] = Closed(f)]
    PROVE  RequestsOK'
<1> USE DEF RequestsOK, Request
<1>1. CASE Advance(r, s) /\ req[r].stage \notin Idle
  BY <1>1 DEF Advance
<1>2. CASE req' = [req EXCEPT ![r] = Closed(f)]
  <2>1. Closed(f) \in Request /\ Closed(f).stage \in Idle
    BY DEF Closed, NoRequest, NoRow, Row, Stage, Idle
  <2>2. QED
    BY <1>2, <2>1
<1>3. QED
  BY <1>1, <1>2

(* Appending to the event list of an order keeps the tables well typed.      *)
LEMMA EventRecorded ==
    ASSUME TablesOK, NEW o \in OrderIds, NEW from \in Status \cup {"absent"},
           NEW to \in Status \cup {"absent"}, RecordEvent(o, from, to)
    PROVE  events' \in [OrderIds -> Seq(Event)]
<1>1. [from |-> from, to |-> to] \in Event
  BY DEF Event
<1>2. QED
  BY <1>1 DEF TablesOK, RecordEvent

(* Every step of every handler preserves the types.                          *)
LEMMA TypeStep == TypeOK /\ [Next]_vars => TypeOK'
<1> SUFFICES ASSUME TypeOK, [Next]_vars PROVE TypeOK'
  OBVIOUS
<1> USE DEF TypeOK
<1>0. /\ {"inserted", "confirmed", "published", "read", "committed", "invalidated",
          "missed", "loaded", "returning", "returned"} \subseteq Stage \ Idle
      /\ Idle = {"new", "done", "failed"}
  BY DEF Stage, Idle
<1>s. /\ {"pending", "confirmed", "cancelled"} \subseteq Status
      /\ Returnable \subseteq Status
      /\ NoRow \in Row /\ Miss \in StatusDoc
      /\ Status \subseteq Channel /\ {"created", "return_initiated"} \subseteq Channel
  BY DEF Status, Returnable, NoRow, Row, Miss, StatusDoc, Channel
<1>1. ASSUME NEW r \in Requests, NEW o \in OrderIds, CreateInsert(r, o) PROVE TypeOK'
  <2> USE DEF CreateInsert
  <2>1. [status |-> "pending", payment |-> "authorized", closed |-> FALSE] \in Row
    BY DEF Row, Status, Payment
  <2>2. TablesOK'
    BY <1>1, <1>s, <2>1, EventRecorded DEF TablesOK
  <2>3. [NoRequest EXCEPT !.stage = "inserted", !.order = o] \in Request
    BY <1>0, <1>s DEF NoRequest, Request
  <2>4. QED
    BY <1>1, <2>2, <2>3 DEF RequestsOK, NoRequest
<1>2. ASSUME NEW r \in Requests, NEW o \in OrderIds, NEW t \in Status,
             TransitionRead(r, o, t)
      PROVE TypeOK'
  <2> USE DEF TransitionRead
  <2>1. [stage |-> "read", order |-> o, target |-> t, seen |-> rows[o]] \in Request
    BY <1>0 DEF TablesOK, Request
  <2>2. QED
    BY <1>2, <2>1 DEF RequestsOK, TablesOK
<1>3. ASSUME NEW r \in Requests, NEW o \in OrderIds, NEW t \in Status,
             TransitionRejected(r, o, t)
      PROVE TypeOK'
  BY <1>3, <1>0, HandlerMoves DEF TransitionRejected, Finish, TablesOK
<1>4. ASSUME NEW r \in Requests, NEW o \in OrderIds, StatusCacheHit(r, o) PROVE TypeOK'
  BY <1>4, <1>0, HandlerMoves DEF StatusCacheHit, Finish, TablesOK
<1>5. ASSUME NEW r \in Requests, NEW o \in OrderIds, StatusCacheMiss(r, o) PROVE TypeOK'
  <2>1. [NoRequest EXCEPT !.stage = "missed", !.order = o] \in Request
    BY <1>0, <1>s DEF NoRequest, Request
  <2>2. QED
    BY <1>5, <2>1 DEF StatusCacheMiss, RequestsOK, TablesOK, NoRequest
<1>6. ASSUME NEW r \in Requests, NEW o \in OrderIds, ReturnRead(r, o) PROVE TypeOK'
  <2>1. [NoRequest EXCEPT !.stage = "returning", !.order = o, !.seen = rows[o]] \in Request
    BY <1>0, <1>s DEF NoRequest, Request, TablesOK
  <2>2. QED
    BY <1>6, <2>1 DEF ReturnRead, RequestsOK, TablesOK, NoRequest
<1>7. ASSUME NEW r \in Requests, CreateConfirm(r) PROVE TypeOK'
  <2>1. req[r].order \in OrderIds /\ req[r].stage \notin Idle
    BY <1>7, <1>0 DEF CreateConfirm, RequestsOK
  <2>2. rows' \in [OrderIds -> Row]
    BY <1>7, <2>1, <1>s DEF CreateConfirm, TablesOK, Row, Payment
  <2>3. TablesOK'
    BY <1>7, <2>1, <2>2, <1>s, EventRecorded DEF CreateConfirm, TablesOK
  <2>4. QED
    BY <1>7, <2>1, <2>3, <1>0, HandlerMoves DEF CreateConfirm
<1>8. ASSUME NEW r \in Requests, CreatePublish(r) PROVE TypeOK'
  BY <1>8, <1>0, <1>s, HandlerMoves DEF CreatePublish, TablesOK
<1>9. ASSUME NEW r \in Requests, CreateFillCache(r) PROVE TypeOK'
  <2>1. [status |-> "confirmed", payment |-> "captured"] \in StatusDoc
    BY DEF StatusDoc, Status, Payment
  <2>2. QED
    BY <1>9, <2>1, <1>0, HandlerMoves DEF CreateFillCache, Finish, TablesOK
<1>10. ASSUME NEW r \in Requests, TransitionCommit(r) PROVE TypeOK'
  <2>1. req[r].order \in OrderIds /\ req[r].stage \notin Idle
    BY <1>10, <1>0 DEF TransitionCommit, RequestsOK
  <2>2. /\ req[r].target \in Status \cup {"absent"}
        /\ req[r].seen \in Row
    BY DEF RequestsOK, Request
  <2>3. RowAfter(rows[req[r].order], req[r].seen, req[r].target) \in Row
    BY <2>1, <2>2 DEF RowAfter, TablesOK, Row, Payment, Terminal
  <2>4. req[r].seen.status \in Status \cup {"absent"}
    BY <2>2 DEF Row
  <2>5. TablesOK'
    BY <1>10, <2>1, <2>2, <2>3, <2>4, EventRecorded DEF TransitionCommit, TablesOK
  <2>6. QED
    BY <1>10, <2>1, <2>5, <1>0, HandlerMoves DEF TransitionCommit
<1>11. ASSUME NEW r \in Requests, TransitionInvalidate(r) PROVE TypeOK'
  BY <1>11, <1>0, <1>s, HandlerMoves DEF TransitionInvalidate, TablesOK
<1>12. ASSUME NEW r \in Requests, TransitionPublish(r) PROVE TypeOK'
  BY <1>12, <1>0, <1>s, HandlerMoves DEF TransitionPublish, TablesOK, RequestsOK, Request, Finish
<1>13. ASSUME NEW r \in Requests, StatusLoad(r) PROVE TypeOK'
  <2>1. req[r].order \in OrderIds /\ rows[req[r].order] \in Row
    BY <1>13, <1>0 DEF StatusLoad, TablesOK, RequestsOK
  <2>2. [req[r] EXCEPT !.stage = "loaded", !.seen = rows[req[r].order]] \in Request
    BY <2>1, <1>0 DEF RequestsOK, Request
  <2>3. req' = [req EXCEPT ![r] = [req[r] EXCEPT !.stage = "loaded",
                                                !.seen = rows[req[r].order]]]
    BY <1>13 DEF StatusLoad, RequestsOK, Request
  <2>4. RequestsOK'
    BY <2>1, <2>2, <2>3 DEF RequestsOK, Request
  <2>5. QED
    BY <1>13, <2>4 DEF StatusLoad, TablesOK
<1>14. ASSUME NEW r \in Requests, StatusFillCache(r) PROVE TypeOK'
  <2>1. StatusOut(req[r].seen) \in StatusDoc
    BY DEF StatusOut, StatusDoc, Row, RequestsOK, Request
  <2>2. QED
    BY <1>14, <2>1, <1>0, HandlerMoves DEF StatusFillCache, Finish, TablesOK
<1>15. ASSUME NEW r \in Requests, ReturnCommit(r) PROVE TypeOK'
  <2>1. /\ req[r].order \in OrderIds /\ req[r].stage \notin Idle
        /\ req[r].seen.status \in Status \cup {"absent"}
    BY <1>15, <1>0 DEF ReturnCommit, RequestsOK, Request, Row
  <2>2. TablesOK'
    BY <1>15, <2>1, EventRecorded DEF ReturnCommit, TablesOK
  <2>3. QED
    BY <1>15, <2>1, <2>2, <1>0, HandlerMoves DEF ReturnCommit
<1>16. ASSUME NEW r \in Requests, ReturnPublish(r) PROVE TypeOK'
  BY <1>16, <1>0, <1>s, HandlerMoves DEF ReturnPublish, Finish, TablesOK
<1>17. ASSUME NEW r \in Requests, Fail(r) PROVE TypeOK'
  BY <1>17, <1>0, HandlerMoves DEF Fail, TablesOK
<1>18. ASSUME NEW o \in OrderIds, Expire(o) PROVE TypeOK'
  BY <1>18, <1>s DEF Expire, TablesOK, RequestsOK
<1>19. CASE UNCHANGED vars
  BY <1>19 DEF vars, TablesOK, RequestsOK
<1>20. QED
  BY <1>1, <1>2, <1>3, <1>4, <1>5, <1>6, <1>7, <1>8, <1>9, <1>10, <1>11, <1>12, <1>13,
     <1>14, <1>15, <1>16, <1>17, <1>18, <1>19 DEF Next, Start, Continue

(* Every state of the order service is well typed.                           *)
THEOREM TypeCorrect == Spec => []TypeOK
<1>1. Init => TypeOK
  BY DEF Init, TypeOK, TablesOK, RequestsOK, Request, NoRequest, NoRow, Row, Miss,
         StatusDoc, Stage, Idle
<1>2. QED
  BY <1>1, TypeStep, PTL DEF Spec

-----------------------------------------------------------------------------
(* The recorded history, under any interleaving and any failure.            *)

(* What a handler holds in memory was committed before it read it.          *)
Witnessed(h) ==
    /\ h.stage \notin Idle => Known(h.order)
    /\ h.stage = "inserted" => Reached(h.order, "pending")
    /\ h.stage \in {"confirmed", "published"} => Reached(h.order, "confirmed")
    /\ h.stage \in {"read", "loaded", "returning"} =>
           /\ h.seen.status \in Status
           /\ Reached(h.order, h.seen.status)
           /\ h.seen.payment = "refunded" => Reached(h.order, "cancelled")
    /\ h.stage = "read" => <<h.seen.status, h.target>> \in VALID_TRANSITIONS
    /\ h.stage = "returning" => h.seen.status \in Returnable

HandlersWitnessed == \A r \in Requests : Witnessed(req[r])

(* An order that is not stored has no events.                                *)
UnknownIsBlank == \A o \in OrderIds : ~Known(o) => events[o] = << >>

HistoryInv ==
    TypeOK /\ HistoryHasNoGap /\ NothingInvented /\ HandlersWitnessed /\ UnknownIsBlank

(* Recording an event forgets nothing and enters its target status.          *)
LEMMA HistoryGrows ==
    ASSUME TypeOK, NEW o \in OrderIds, NEW from, NEW to, RecordEvent(o, from, to)
    PROVE  /\ \A p \in OrderIds, s \in Status : Reached(p, s) => Reached(p, s)'
           /\ Reached(o, to)'
<1> DEFINE e == [from |-> from, to |-> to]
<1>1. /\ events' = [events EXCEPT ![o] = Append(@, e)]
      /\ events \in [OrderIds -> Seq(Event)]
  BY DEF RecordEvent, TypeOK, TablesOK
<1>2. /\ DOMAIN Append(events[o], e) = 1..(Len(events[o]) + 1)
      /\ DOMAIN events[o] = 1..Len(events[o]) /\ Len(events[o]) \in Nat
      /\ \A i \in DOMAIN events[o] : Append(events[o], e)[i] = events[o][i]
      /\ Append(events[o], e)[Len(events[o]) + 1] = e
  BY <1>1
<1>3. /\ events'[o] = Append(events[o], e)
      /\ \A p \in OrderIds : p # o => events'[p] = events[p]
  BY <1>1
<1>4. ASSUME NEW p \in OrderIds, NEW s \in Status, Reached(p, s) PROVE Reached(p, s)'
  <2>1. CASE p # o
    BY <1>3, <1>4, <2>1 DEF Reached
  <2>2. CASE p = o
    <3>1. PICK i \in DOMAIN events[o] : events[o][i].to = s
      BY <1>4, <2>2 DEF Reached
    <3>2. i \in DOMAIN events'[o] /\ events'[o][i].to = s
      BY <3>1, <1>2, <1>3
    <3>3. QED
      BY <3>2, <2>2 DEF Reached
  <2>3. QED
    BY <2>1, <2>2
<1>5. Reached(o, to)'
  <2>1. Len(events[o]) + 1 \in DOMAIN events'[o] /\ events'[o][Len(events[o]) + 1].to = to
    BY <1>2, <1>3
  <2>2. QED
    BY <2>1 DEF Reached
<1>6. QED
  BY <1>4, <1>5

(* An event that leaves a status the history entered opens no gap.           *)
LEMMA NoGapOpened ==
    ASSUME TypeOK, HistoryHasNoGap, NEW o \in OrderIds, NEW from, NEW to,
           RecordEvent(o, from, to),
           \/ from = "absent" /\ to = "pending" /\ events[o] = << >>
           \/ /\ from # "absent" /\ Reached(o, from)
              /\ \/ <<from, to>> \in VALID_TRANSITIONS
                 \/ from = to /\ to \in Returnable
    PROVE  HistoryHasNoGap'
<1> DEFINE e == [from |-> from, to |-> to]
           n == Len(events[o])
<1>1. /\ events' = [events EXCEPT ![o] = Append(@, e)]
      /\ events \in [OrderIds -> Seq(Event)]
  BY DEF RecordEvent, TypeOK, TablesOK
<1>2. /\ DOMAIN Append(events[o], e) = 1..(n + 1)
      /\ DOMAIN events[o] = 1..n /\ n \in Nat
      /\ \A i \in DOMAIN events[o] : Append(events[o], e)[i] = events[o][i]
      /\ Append(events[o], e)[n + 1] = e
  BY <1>1
<1>3. /\ events'[o] = Append(events[o], e)
      /\ \A p \in OrderIds : p # o => events'[p] = events[p]
  BY <1>1
<1> HIDE DEF n
<1> SUFFICES ASSUME NEW p \in OrderIds, NEW i \in DOMAIN events'[p]
             PROVE  LET f == events'[p][i] IN
                    IF f.from = "absent" THEN i = 1 /\ f.to = "pending"
                    ELSE /\ \E j \in 1..(i - 1) : events'[p][j].to = f.from
                         /\ \/ <<f.from, f.to>> \in VALID_TRANSITIONS
                            \/ f.from = f.to /\ f.to \in Returnable
  BY DEF HistoryHasNoGap
<1>4. CASE p # o
  BY <1>4, <1>3 DEF HistoryHasNoGap
<1>5. CASE p = o /\ i \in DOMAIN events[o]
  <2>1. /\ events'[p][i] = events[o][i]
        /\ \A j \in 1..(i - 1) : events'[p][j] = events[o][j]
    BY <1>5, <1>2, <1>3
  <2>2. QED
    BY <1>5, <2>1 DEF HistoryHasNoGap
<1>6. CASE p = o /\ i = n + 1
  <2>1. events'[p][i] = e
    BY <1>6, <1>2, <1>3
  <2>2. CASE from = "absent"
    <3>1. events[o] = << >> /\ to = "pending"
      BY <2>2
    <3>2. n = 0
      BY <3>1 DEF n
    <3>3. QED
      BY <2>1, <2>2, <3>1, <3>2, <1>6
  <2>3. CASE from # "absent"
    <3>1. PICK j \in DOMAIN events[o] : events[o][j].to = from
      BY <2>3 DEF Reached
    <3>2. j \in 1..(i - 1) /\ events'[p][j].to = from
      BY <3>1, <1>2, <1>3, <1>6
    <3>3. QED
      BY <2>1, <2>3, <3>2
  <2>4. QED
    BY <2>2, <2>3
<1>7. QED
  BY <1>4, <1>5, <1>6, <1>2, <1>3

(* No order disappears and no history is forgotten.                          *)
Grows ==
    \A o \in OrderIds :
        /\ Known(o) => Known(o)'
        /\ \A s \in Status : Reached(o, s) => Reached(o, s)'

(* What was witnessed for one handler stays witnessed when another moves.     *)
LEMMA OthersStayWitnessed ==
    ASSUME TypeOK, HandlersWitnessed, Grows, NEW r \in Requests,
           \A q \in Requests : q # r => req'[q] = req[q],
           Witnessed(req[r])'
    PROVE  HandlersWitnessed'
<1> SUFFICES ASSUME NEW q \in Requests PROVE Witnessed(req[q])'
  BY DEF HandlersWitnessed
<1>1. CASE q = r
  BY <1>1
<1>2. CASE q # r
  <2>1. req'[q] = req[q] /\ Witnessed(req[q])
    BY <1>2 DEF HandlersWitnessed
  <2>2. req[q].stage \notin Idle => req[q].order \in OrderIds
    BY DEF TypeOK, RequestsOK
  <2>3. {"pending", "confirmed", "cancelled"} \subseteq Status
        /\ {"inserted", "confirmed", "published", "read", "loaded", "returning"}
               \cap Idle = {}
    BY DEF Status, Idle
  <2>4. QED
    BY <2>1, <2>2, <2>3 DEF Witnessed, Grows, Known, Reached
<1>3. QED
  BY <1>1, <1>2

(* A step that changes neither rows nor events, and caches only witnessed      *)
(* documents, keeps the tables within the invariant.                          *)
LEMMA QuietTables ==
    ASSUME HistoryInv, UNCHANGED <<rows, events>>,
           \A o \in OrderIds :
               \/ cache'[o] \in {cache[o], Miss}
               \/ /\ Reached(o, cache'[o].status)
                  /\ cache'[o].payment = "refunded" => Reached(o, "cancelled")
    PROVE  HistoryHasNoGap' /\ NothingInvented' /\ UnknownIsBlank' /\ Grows
<1> USE DEF HistoryInv
<1>1. HistoryHasNoGap'
  BY DEF HistoryHasNoGap
<1>2. NothingInvented'
  BY DEF NothingInvented, Known, Reached, Miss
<1>3. UnknownIsBlank'
  BY DEF UnknownIsBlank, Known
<1>4. Grows
  BY DEF Grows, Known, Reached
<1>5. QED
  BY <1>1, <1>2, <1>3, <1>4

(* Such a step preserves the invariant if its handler's memory is witnessed.   *)
LEMMA QuietStep ==
    ASSUME HistoryInv, TypeOK', NEW r \in Requests,
           UNCHANGED <<rows, events>>,
           \A o \in OrderIds :
               \/ cache'[o] \in {cache[o], Miss}
               \/ /\ Reached(o, cache'[o].status)
                  /\ cache'[o].payment = "refunded" => Reached(o, "cancelled"),
           \A q \in Requests : q # r => req'[q] = req[q],
           Witnessed(req[r])'
    PROVE  HistoryInv'
BY QuietTables, OthersStayWitnessed DEF HistoryInv

(* Every status the history entered is a status of the state machine.          *)
LEMMA ReachedIsStatus ==
    ASSUME HistoryHasNoGap, NEW o \in OrderIds, NEW s, Reached(o, s)
    PROVE  s \in Status
<1>1. PICK i \in DOMAIN events[o] : events[o][i].to = s
  BY DEF Reached
<1>2. QED
  BY <1>1 DEF HistoryHasNoGap, VALID_TRANSITIONS, Returnable, Status

(* A commit that records an event preserves the invariant if the event opens   *)
(* no gap, the row it stores is witnessed and so is its handler's memory.       *)
LEMMA CommitStep ==
    ASSUME HistoryInv, TypeOK', NEW r \in Requests, NEW o \in OrderIds,
           NEW from, NEW to \in Status, NEW row \in Row,
           RecordEvent(o, from, to),
           rows' = [rows EXCEPT ![o] = row], row.status \in Status,
           Reached(o, row.status)',
           row.payment = "refunded" => rows[o].payment = "refunded" \/ to = "cancelled",
           row.closed => rows[o].closed \/ to \in {"closed", "cancelled"},
           UNCHANGED cache,
           \/ from = "absent" /\ to = "pending" /\ events[o] = << >>
           \/ /\ from # "absent" /\ Reached(o, from)
              /\ \/ <<from, to>> \in VALID_TRANSITIONS
                 \/ from = to /\ to \in Returnable,
           \A q \in Requests : q # r => req'[q] = req[q],
           Witnessed(req[r])'
    PROVE  HistoryInv'
<1> USE DEF HistoryInv
<1>1. HistoryHasNoGap'
  BY NoGapOpened
<1>2. /\ \A p \in OrderIds, s \in Status : Reached(p, s) => Reached(p, s)'
      /\ Reached(o, to)'
  BY HistoryGrows
<1>3. /\ rows'[o] = row
      /\ \A p \in OrderIds : p # o => rows'[p] = rows[p]
      /\ "absent" \notin Status /\ "closed" \in Status /\ "cancelled" \in Status
  BY DEF TypeOK, TablesOK, Status
<1>4. Grows
  BY <1>2, <1>3 DEF Grows, Known
<1>5. HandlersWitnessed'
  BY <1>4, OthersStayWitnessed
<1>6. UnknownIsBlank'
  <2> SUFFICES ASSUME NEW p \in OrderIds, ~Known(p)' PROVE events'[p] = << >>
    BY DEF UnknownIsBlank
  <2>1. p # o /\ ~Known(p)
    BY <1>3 DEF Known
  <2>2. events'[p] = events[p]
    BY <2>1 DEF RecordEvent, TypeOK, TablesOK
  <2>3. QED
    BY <2>1, <2>2 DEF UnknownIsBlank
<1>7. NothingInvented'
  <2> SUFFICES ASSUME NEW p \in OrderIds
               PROVE  /\ Known(p)' => Reached(p, rows[p].status)'
                      /\ cache'[p] # Miss => Reached(p, cache[p].status)'
                      /\ "refunded" \in {rows'[p].payment, cache'[p].payment} =>
                            Reached(p, "cancelled")'
                      /\ rows'[p].closed =>
                            Reached(p, "closed")' \/ Reached(p, "cancelled")'
    BY DEF NothingInvented
  <2>1. /\ cache'[p] # Miss => cache[p].status \in Status /\ Reached(p, cache[p].status)
        /\ cache'[p].payment = "refunded" => Reached(p, "cancelled")
    <3>1. cache[p] # Miss => cache[p].status \in Status
      BY ReachedIsStatus DEF NothingInvented
    <3>2. QED
      BY <3>1 DEF NothingInvented
  <2>2. cache'[p] # Miss => Reached(p, cache[p].status)'
    BY <2>1, <1>2 DEF Reached
  <2>3. cache'[p].payment = "refunded" => Reached(p, "cancelled")'
    BY <2>1, <1>2, <1>3
  <2>p. /\ Known(p) => rows[p].status \in Status /\ Reached(p, rows[p].status)
        /\ rows[p].payment = "refunded" => Reached(p, "cancelled")'
        /\ rows[p].closed => Reached(p, "closed")' \/ Reached(p, "cancelled")'
    BY <1>2, <1>3, ReachedIsStatus DEF NothingInvented
  <2>4. CASE p # o
    <3>1. Known(p)' => Reached(p, rows[p].status)'
      BY <2>4, <2>p, <1>2, <1>3 DEF Known, Reached
    <3>2. QED
      BY <2>4, <2>2, <2>3, <2>p, <3>1, <1>3
  <2>5. CASE p = o
    <3>1. /\ rows'[p] = row
          /\ to = "cancelled" => Reached(p, "cancelled")'
          /\ to = "closed" => Reached(p, "closed")'
      BY <2>5, <1>2, <1>3
    <3>2. QED
      BY <2>5, <2>2, <2>3, <2>p, <3>1
  <2>6. QED
    BY <2>4, <2>5
<1>8. QED
  BY <1>1, <1>5, <1>6, <1>7

(* Every step of every handler preserves the history invariant.               *)
LEMMA HistoryStep == HistoryInv /\ [Next]_vars => HistoryInv'
<1> SUFFICES ASSUME HistoryInv, [Next]_vars PROVE HistoryInv'
  OBVIOUS
<1>t. TypeOK /\ TypeOK' /\ HandlersWitnessed /\ NothingInvented
  BY TypeStep DEF HistoryInv
<1>i. /\ req \in [Requests -> Request]
      /\ rows \in [OrderIds -> Row]
      /\ \A r \in Requests : Witnessed(req[r])
      /\ \A r \in Requests : req[r].stage \notin Idle => req[r].order \in OrderIds
      /\ Idle = {"new", "done", "failed"}
      /\ {"pending", "confirmed", "cancelled", "closed"} \subseteq Status
      /\ "absent" \notin Status
  BY <1>t DEF TypeOK, TablesOK, RequestsOK, HandlersWitnessed, Idle, Status
<1>c. \A f \in {"done", "failed"} : Closed(f).stage = f
  BY DEF Closed, NoRequest
<1>1. ASSUME NEW r \in Requests, NEW o \in OrderIds, CreateInsert(r, o) PROVE HistoryInv'
  <2> DEFINE row == [status |-> "pending", payment |-> "authorized", closed |-> FALSE]
  <2>1. /\ RecordEvent(o, "absent", "pending") /\ rows' = [rows EXCEPT ![o] = row]
        /\ events[o] = << >>
    BY <1>1 DEF CreateInsert, HistoryInv, UnknownIsBlank
  <2>2. row \in Row
    BY DEF Row, Status, Payment
  <2>3. Reached(o, "pending")'
    BY <2>1, <1>t, HistoryGrows
  <2>4. req'[r].stage = "inserted" /\ req'[r].order = o /\ rows'[o] = row
    BY <1>1, <1>i DEF CreateInsert, NoRequest
  <2>5. Witnessed(req[r])'
    BY <2>3, <2>4, <1>i DEF Witnessed, Known, Reached
  <2> HIDE DEF row
  <2>6. row.status = "pending" /\ row.payment # "refunded" /\ ~row.closed
    BY DEF row
  <2>7. \A q \in Requests : q # r => req'[q] = req[q]
    BY <1>1, <1>i DEF CreateInsert
  <2>8. UNCHANGED cache
    BY <1>1 DEF CreateInsert
  <2>9. QED
    BY <2>1, <2>2, <2>3, <2>5, <2>6, <2>7, <2>8, <1>t, <1>i, CommitStep
<1>2. ASSUME NEW r \in Requests, NEW o \in OrderIds, NEW t \in Status,
             TransitionRead(r, o, t)
      PROVE HistoryInv'
  <2>1. Witnessed(req[r])'
    <3>1. /\ req'[r] = [stage |-> "read", order |-> o, target |-> t, seen |-> rows[o]]
          /\ Known(o) /\ <<rows[o].status, t>> \in VALID_TRANSITIONS /\ rows' = rows
          /\ events' = events
      BY <1>2, <1>i DEF TransitionRead, AssertTransition
    <3>2. /\ Reached(o, rows[o].status)
          /\ rows[o].payment = "refunded" => Reached(o, "cancelled")
          /\ rows[o].status \in Status
      BY <3>1, <1>t, <1>i DEF NothingInvented, Row, Known
    <3>3. QED
      BY <3>1, <3>2 DEF Witnessed, Known, Reached
  <2>2. QED
    BY <1>2, <2>1, <1>t, <1>i, QuietStep DEF TransitionRead
<1>3. ASSUME NEW r \in Requests, NEW o \in OrderIds, NEW t \in Status,
             TransitionRejected(r, o, t)
      PROVE HistoryInv'
  <2>1. Witnessed(req[r])'
    BY <1>3, <1>i, <1>c DEF TransitionRejected, Finish, Witnessed
  <2>2. QED
    BY <1>3, <2>1, <1>t, <1>i, QuietStep DEF TransitionRejected, Finish
<1>4. ASSUME NEW r \in Requests, NEW o \in OrderIds, StatusCacheHit(r, o) PROVE HistoryInv'
  <2>1. Witnessed(req[r])'
    BY <1>4, <1>i, <1>c DEF StatusCacheHit, Finish, Witnessed
  <2>2. QED
    BY <1>4, <2>1, <1>t, <1>i, QuietStep DEF StatusCacheHit, Finish
<1>5. ASSUME NEW r \in Requests, NEW o \in OrderIds, StatusCacheMiss(r, o) PROVE HistoryInv'
  <2>1. Witnessed(req[r])'
    BY <1>5, <1>i DEF StatusCacheMiss, NoRequest, Witnessed, Known
  <2>2. QED
    BY <1>5, <2>1, <1>t, <1>i, QuietStep DEF StatusCacheMiss
<1>6. ASSUME NEW r \in Requests, NEW o \in OrderIds, ReturnRead(r, o) PROVE HistoryInv'
  <2>1. Witnessed(req[r])'
    <3>1. /\ req'[r].stage = "returning" /\ req'[r].order = o /\ req'[r].seen = rows[o]
          /\ rows[o].status \in Returnable /\ rows' = rows /\ events' = events
      BY <1>6, <1>i DEF ReturnRead, NoRequest
    <3>2. rows[o].status \in Status /\ Known(o)
      BY <3>1 DEF Returnable, Status, Known
    <3>3. /\ Reached(o, rows[o].status)
          /\ rows[o].payment = "refunded" => Reached(o, "cancelled")
      BY <3>2, <1>t DEF NothingInvented
    <3>4. QED
      BY <3>1, <3>2, <3>3 DEF Witnessed, Known, Reached
  <2>2. QED
    BY <1>6, <2>1, <1>t, <1>i, QuietStep DEF ReturnRead
<1>7. ASSUME NEW r \in Requests, CreateConfirm(r) PROVE HistoryInv'
  <2>0. PICK o \in OrderIds, row \in Row :
           /\ o = req[r].order
           /\ row = [rows[o] EXCEPT !.status = "confirmed", !.payment = "captured"]
    <3>1. PICK o \in OrderIds : o = req[r].order
      BY <1>7, <1>i DEF CreateConfirm
    <3>2. PICK row : row = [rows[o] EXCEPT !.status = "confirmed", !.payment = "captured"]
      OBVIOUS
    <3>3. row \in Row
      <4>1. rows[o] \in Row
        BY <1>i
      <4> QED BY <1>i, <3>2, <4>1 DEF Row, Payment
    <3> QED BY <3>1, <3>2, <3>3
  <2>1. /\ RecordEvent(o, "pending", "confirmed")
        /\ o \in OrderIds /\ Known(o) /\ Reached(o, "pending")
    BY <1>7, <2>0, <1>i DEF CreateConfirm, Witnessed
  <2>2. rows' = [rows EXCEPT ![o] = row]
    BY <1>7, <1>i, <2>0, <2>1 DEF CreateConfirm, Row
  <2>3. row \in Row /\ rows'[o] = row /\ row.status = "confirmed"
        /\ row.payment = "captured" /\ row.closed = rows[o].closed
    BY <2>0, <2>1, <2>2, <1>i DEF Row, Payment
  <2>4. Reached(o, "confirmed")'
    BY <2>1, <1>t, HistoryGrows
  <2>5. Witnessed(req[r])'
    <3>1. req'[r].stage = "confirmed" /\ req'[r].order = o
      BY <1>7, <2>0, <1>i DEF CreateConfirm, Advance, Request
    <3>2. QED
      BY <3>1, <2>3, <2>4 DEF Witnessed, Known, Reached
  <2>6. <<"pending", "confirmed">> \in VALID_TRANSITIONS
    BY DEF VALID_TRANSITIONS
  <2>7. /\ \A q \in Requests : q # r => req'[q] = req[q]
        /\ UNCHANGED cache
    BY <1>7, <1>i DEF CreateConfirm, Advance
  <2>8. QED
    BY <2>1, <2>2, <2>3, <2>4, <2>5, <2>6, <2>7, <1>t, <1>i, CommitStep
<1>8. ASSUME NEW r \in Requests, CreatePublish(r) PROVE HistoryInv'
  <2>1. Witnessed(req[r])'
    BY ZenonT(60), <1>8, <1>i DEF CreatePublish, Advance, Request, Witnessed, Known, Reached
  <2>2. QED
    BY <1>8, <2>1, <1>t, <1>i, QuietStep DEF CreatePublish, Advance
<1>9. ASSUME NEW r \in Requests, CreateFillCache(r) PROVE HistoryInv'
  <2>0. PICK o \in OrderIds : o = req[r].order
    BY <1>9, <1>i DEF CreateFillCache
  <2>1. Reached(o, "confirmed")
    BY <1>9, <2>0, <1>i DEF CreateFillCache, Witnessed
  <2>2. \A p \in OrderIds :
           \/ cache'[p] \in {cache[p], Miss}
           \/ /\ Reached(p, cache'[p].status)
              /\ cache'[p].payment = "refunded" => Reached(p, "cancelled")
    BY <1>9, <1>t, <2>0, <2>1 DEF CreateFillCache, TypeOK, TablesOK
  <2>3. Witnessed(req[r])'
    BY <1>9, <1>i, <1>c DEF CreateFillCache, Finish, Witnessed
  <2>4. QED
    BY <1>9, <2>2, <2>3, <1>t, <1>i, QuietStep DEF CreateFillCache, Finish
<1>10. ASSUME NEW r \in Requests, TransitionCommit(r) PROVE HistoryInv'
  <2>0. PICK o \in OrderIds, seen \in Row, target \in Status \cup {"absent"}, row \in Row :
           /\ o = req[r].order /\ seen = req[r].seen /\ target = req[r].target
           /\ row = RowAfter(rows[o], seen, target)
    <3>1. req[r].order \in OrderIds /\ req[r].seen \in Row
          /\ req[r].target \in Status \cup {"absent"}
      BY <1>10, <1>i DEF TransitionCommit, Request
    <3>2. RowAfter(rows[req[r].order], req[r].seen, req[r].target) \in Row
      BY <3>1, <1>i DEF RowAfter, Row, Payment, Terminal
    <3>3. QED
      BY <3>1, <3>2
  <2>1. /\ RecordEvent(o, seen.status, target)
        /\ o \in OrderIds /\ Known(o) /\ Reached(o, seen.status)
        /\ <<seen.status, target>> \in VALID_TRANSITIONS
        /\ rows' = [rows EXCEPT ![o] = row]
        /\ UNCHANGED cache
    BY <1>10, <2>0, <1>i DEF TransitionCommit, Witnessed
  <2>2. target \in Status /\ seen.status # "absent"
    BY <2>1 DEF VALID_TRANSITIONS, Status
  <2>3. /\ row \in Row /\ row.status = target
        /\ row.payment = "refunded" => rows[o].payment = "refunded" \/ target = "cancelled"
        /\ row.closed => rows[o].closed \/ target \in {"closed", "cancelled"}
    BY <2>0, <2>1, <2>2, <1>i DEF RowAfter, Row, Payment, Terminal
  <2>4. Reached(o, target)'
    BY <2>1, <1>t, HistoryGrows
  <2>5. Witnessed(req[r])'
    <3>1. req'[r].stage = "committed" /\ req'[r].order = o
      BY <1>10, <2>0, <1>i DEF TransitionCommit, Advance, Request
    <3>2. rows'[o].status # "absent"
      BY <2>1, <2>2, <2>3, <1>i
    <3>3. QED
      BY <3>1, <3>2 DEF Witnessed, Known
  <2>6. \A q \in Requests : q # r => req'[q] = req[q]
    BY <1>10, <1>i DEF TransitionCommit, Advance
  <2>7. QED
    BY <2>1, <2>2, <2>3, <2>4, <2>5, <2>6, <1>t, <1>i, CommitStep
<1>11. ASSUME NEW r \in Requests, TransitionInvalidate(r) PROVE HistoryInv'
  <2>1. Witnessed(req[r])'
    BY <1>11, <1>i DEF TransitionInvalidate, Advance, Request, Witnessed, Known
  <2>2. \A o \in OrderIds : cache'[o] \in {cache[o], Miss}
    BY <1>11, <1>t DEF TransitionInvalidate, TypeOK, TablesOK
  <2>3. QED
    BY <1>11, <2>1, <2>2, <1>t, <1>i, QuietStep DEF TransitionInvalidate, Advance
<1>12. ASSUME NEW r \in Requests, TransitionPublish(r) PROVE HistoryInv'
  <2>1. Witnessed(req[r])'
    BY <1>12, <1>i, <1>c DEF TransitionPublish, Finish, Witnessed
  <2>2. QED
    BY <1>12, <2>1, <1>t, <1>i, QuietStep DEF TransitionPublish, Finish
<1>13. ASSUME NEW r \in Requests, StatusLoad(r) PROVE HistoryInv'
  <2>0. PICK o \in OrderIds : o = req[r].order
    BY <1>13, <1>i DEF StatusLoad
  <2>1. /\ req'[r].stage = "loaded" /\ req'[r].order = o /\ req'[r].seen = rows[o]
        /\ Known(o)
    BY <1>13, <2>0, <1>i DEF StatusLoad, Request, Witnessed
  <2>2. /\ rows[o].status \in Status
        /\ Reached(o, rows[o].status)
        /\ rows[o].payment = "refunded" => Reached(o, "cancelled")
    BY <2>1, <1>t, <1>i DEF NothingInvented, Known, Row
  <2>3. Witnessed(req[r])'
    BY <1>13, <2>1, <2>2 DEF StatusLoad, Witnessed, Known, Reached
  <2>4. QED
    BY <1>13, <2>3, <1>t, <1>i, QuietStep DEF StatusLoad
<1>14. ASSUME NEW r \in Requests, StatusFillCache(r) PROVE HistoryInv'
  <2>0. PICK o \in OrderIds, doc \in {StatusOut(req[r].seen)} :
           o = req[r].order /\ doc = StatusOut(req[r].seen)
    BY <1>14, <1>i DEF StatusFillCache
  <2>1. /\ Reached(o, doc.status)
        /\ doc.payment = "refunded" => Reached(o, "cancelled")
    BY <1>14, <2>0, <1>i DEF StatusFillCache, StatusOut, Witnessed
  <2>2. \A p \in OrderIds :
           \/ cache'[p] \in {cache[p], Miss}
           \/ /\ Reached(p, cache'[p].status)
              /\ cache'[p].payment = "refunded" => Reached(p, "cancelled")
    BY <1>14, <1>t, <2>0, <2>1 DEF StatusFillCache, TypeOK, TablesOK
  <2>3. Witnessed(req[r])'
    BY <1>14, <1>i, <1>c DEF StatusFillCache, Finish, Witnessed
  <2>4. QED
    BY <1>14, <2>2, <2>3, <1>t, <1>i, QuietStep DEF StatusFillCache, Finish
<1>15. ASSUME NEW r \in Requests, ReturnCommit(r) PROVE HistoryInv'
  <2>0. PICK o \in OrderIds, row \in Row, seen \in Row :
           o = req[r].order /\ row = rows[o] /\ seen = req[r].seen
    BY <1>15, <1>i DEF ReturnCommit, Request
  <2>1. /\ RecordEvent(o, seen.status, seen.status) /\ Known(o)
        /\ Reached(o, seen.status) /\ seen.status \in Returnable
        /\ seen.status \in Status /\ seen.status # "absent"
        /\ rows' = [rows EXCEPT ![o] = row]
        /\ UNCHANGED <<rows, cache>>
    BY <1>15, <2>0, <1>i DEF ReturnCommit, Witnessed
  <2>2. row.status \in Status /\ Reached(o, row.status)'
    <3>1. row.status \in Status /\ Reached(o, row.status)
      BY <2>0, <2>1, <1>t DEF Known, NothingInvented, Row
    <3>2. QED
      BY <3>1, <2>1, <1>t, HistoryGrows
  <2>3. Witnessed(req[r])'
    <3>1. req'[r].stage = "returned" /\ req'[r].order = o
      BY <1>15, <2>0, <1>i DEF ReturnCommit, Advance, Request
    <3>2. QED
      BY <3>1, <2>1 DEF Witnessed, Known
  <2>4. \A q \in Requests : q # r => req'[q] = req[q]
    BY <1>15, <1>i DEF ReturnCommit, Advance
  <2>5. QED
    BY <2>0, <2>1, <2>2, <2>3, <2>4, <1>t, CommitStep
<1>16. ASSUME NEW r \in Requests, ReturnPublish(r) PROVE HistoryInv'
  <2>1. Witnessed(req[r])'
    BY <1>16, <1>i, <1>c DEF ReturnPublish, Finish, Witnessed
  <2>2. QED
    BY <1>16, <2>1, <1>t, <1>i, QuietStep DEF ReturnPublish, Finish
<1>17. ASSUME NEW r \in Requests, Fail(r) PROVE HistoryInv'
  <2>1. Witnessed(req[r])'
    BY <1>17, <1>i, <1>c DEF Fail, Witnessed
  <2>2. QED
    BY <1>17, <2>1, <1>t, <1>i, QuietStep DEF Fail
<1>18. ASSUME NEW o \in OrderIds, Expire(o) PROVE HistoryInv'
  <2>1. \A p \in OrderIds : cache'[p] \in {cache[p], Miss}
    BY <1>18, <1>t DEF Expire, TypeOK, TablesOK
  <2>2. HistoryHasNoGap' /\ NothingInvented' /\ UnknownIsBlank'
    BY <1>18, <2>1, QuietTables DEF Expire
  <2>3. HandlersWitnessed'
    BY <1>18, <1>t DEF Expire, HandlersWitnessed, Witnessed, Known, Reached
  <2>4. QED
    BY <1>t, <2>2, <2>3 DEF HistoryInv
<1>19. CASE UNCHANGED vars
  <2>1. HistoryHasNoGap' /\ NothingInvented' /\ UnknownIsBlank'
    BY <1>19, QuietTables DEF vars
  <2>2. HandlersWitnessed'
    BY <1>19, <1>t DEF vars, HandlersWitnessed, Witnessed, Known, Reached
  <2>3. QED
    BY <1>t, <2>1, <2>2 DEF HistoryInv
<1>20. QED
  BY <1>1, <1>2, <1>3, <1>4, <1>5, <1>6, <1>7, <1>8, <1>9, <1>10, <1>11, <1>12, <1>13,
     <1>14, <1>15, <1>16, <1>17, <1>18, <1>19 DEF Next, Start, Continue

LEMMA HistoryInit == Init => HistoryInv
<1> SUFFICES ASSUME Init PROVE HistoryInv
  OBVIOUS
<1>1. TypeOK
  BY DEF Init, TypeOK, TablesOK, RequestsOK, Request, NoRequest, NoRow, Row, Miss,
         StatusDoc, Stage, Idle
<1>2. HistoryHasNoGap /\ NothingInvented /\ UnknownIsBlank
  BY DEF Init, HistoryHasNoGap, NothingInvented, UnknownIsBlank, Known, NoRow, Miss
<1>3. HandlersWitnessed
  BY DEF Init, HandlersWitnessed, Witnessed, NoRequest, Idle
<1>4. QED
  BY <1>1, <1>2, <1>3 DEF HistoryInv

(* Under any interleaving of any number of requests, and whichever of them     *)
(* die, the recorded history of an order never has a gap.                      *)
THEOREM NoGapInHistory == Spec => []HistoryHasNoGap
<1>1. HistoryInv => HistoryHasNoGap
  BY DEF HistoryInv
<1>2. QED
  BY HistoryInit, HistoryStep, <1>1, PTL DEF Spec

(* Under any interleaving, the stored status, the cached status, a refund and  *)
(* closed_at are each backed by a recorded event.                              *)
THEOREM StoreIsBacked == Spec => []NothingInvented
<1>1. HistoryInv => NothingInvented
  BY DEF HistoryInv
<1>2. QED
  BY HistoryInit, HistoryStep, <1>1, PTL DEF Spec

-----------------------------------------------------------------------------
(* Requests one at a time (Overlap FALSE), any of which may die.             *)

(* What the handler in flight remembers still holds, because nothing ran       *)
(* since it looked.                                                            *)
Current(h) ==
    LET row == rows[h.order] IN
    /\ h.stage = "inserted" => row.status = "pending" /\ cache[h.order] = Miss
    /\ h.stage \in {"confirmed", "published"} =>
           row.status = "confirmed" /\ row.payment = "captured"
    /\ h.stage \in {"read", "loaded", "returning"} => h.seen = row
    /\ h.stage \in {"committed", "invalidated"} => row.status = h.target
    /\ h.stage = "returned" => row.status \in Returnable

HandlersCurrent == \A r \in Requests : Current(req[r])

OneInFlight ==
    \A r, q \in Requests : req[r].stage \notin Idle /\ req[q].stage \notin Idle => r = q

NoneDied == \A r \in Requests : req[r].stage # "failed"

InFlight(o, stages) == \E r \in Requests : req[r].order = o /\ req[r].stage \in stages

CacheFollows ==
    NoneDied => \A o \in OrderIds :
        cache[o] \in {Miss, StatusOut(rows[o])} \/ InFlight(o, {"committed"})

Told(o) ==
    \/ announced[o] = rows[o].status
    \/ announced[o] = "created" /\ rows[o].status = "confirmed"
    \/ announced[o] = "return_initiated" /\ rows[o].status \in Returnable

SubscribersFollow ==
    NoneDied => \A o \in OrderIds :
        Told(o) \/ InFlight(o, {"inserted", "confirmed", "committed", "invalidated"})

KnownIsRecorded == \A o \in OrderIds : Known(o) => events[o] # << >>

SerialInv ==
    /\ HistoryInv
    /\ OneInFlight
    /\ HandlersCurrent
    /\ KnownIsRecorded
    /\ AuditTrailReplays
    /\ ColumnsAgree
    /\ CacheFollows
    /\ SubscribersFollow

(* While a handler takes a step the others are idle, so a handler whose       *)
(* memory is current is the only one to look at.                             *)
LEMMA OthersAreIdle ==
    ASSUME SerialInv, ~Overlap, NEW r \in Requests,
           MayStart(r) \/ req[r].stage \notin Idle
    PROVE  \A q \in Requests : q # r => req[q].stage \in Idle
BY DEF SerialInv, OneInFlight, MayStart

(* The handler that steps is the only one whose memory has to be current.       *)
LEMMA OneHandlerMoves ==
    ASSUME SerialInv, ~Overlap, NEW r \in Requests,
           MayStart(r) \/ req[r].stage \notin Idle,
           \A q \in Requests : q # r => req'[q] = req[q],
           Current(req[r])'
    PROVE  OneInFlight' /\ HandlersCurrent'
<1>1. \A q \in Requests : q # r => req'[q].stage \in Idle
  BY OthersAreIdle
<1>2. OneInFlight'
  BY <1>1 DEF OneInFlight
<1>3. \A q \in Requests : q # r => Current(req[q])'
  BY <1>1 DEF Current, Idle
<1>4. QED
  BY <1>2, <1>3 DEF HandlersCurrent

(* Rows and events that do not move keep what relates them.                   *)
LEMMA TablesKept ==
    ASSUME SerialInv, UNCHANGED <<rows, events>>
    PROVE  KnownIsRecorded' /\ AuditTrailReplays' /\ ColumnsAgree'
<1>1. KnownIsRecorded'
  BY DEF SerialInv, KnownIsRecorded, Known
<1>2. AuditTrailReplays'
  BY DEF SerialInv, AuditTrailReplays, Known
<1>3. ColumnsAgree'
  BY DEF SerialInv, ColumnsAgree
<1>4. QED
  BY <1>1, <1>2, <1>3

(* The cache keeps following the rows if every order it did not follow, or     *)
(* no longer follows, is the one a commit is in flight for.                     *)
LEMMA CacheStep ==
    ASSUME CacheFollows, NEW r \in Requests, req[r].stage # "failed",
           \A q \in Requests : q # r => req'[q] = req[q],
           \A o \in OrderIds :
               \/ cache'[o] \in {Miss, StatusOut(rows'[o])}
               \/ req'[r].order = o /\ req'[r].stage = "committed"
               \/ /\ cache'[o] = cache[o] /\ rows'[o] = rows[o]
                  /\ req[r].order # o \/ req[r].stage # "committed"
    PROVE  CacheFollows'
<1> SUFFICES ASSUME NoneDied', NEW o \in OrderIds
             PROVE  cache'[o] \in {Miss, StatusOut(rows'[o])} \/ InFlight(o, {"committed"})'
  BY DEF CacheFollows, StatusOut
<1>1. cache[o] \in {Miss, StatusOut(rows[o])} \/ InFlight(o, {"committed"})
  <2>1. NoneDied
    BY DEF NoneDied
  <2>2. QED
    BY <2>1 DEF CacheFollows
<1>2. CASE cache'[o] \in {Miss, StatusOut(rows'[o])}
  BY <1>2
<1>3. CASE req'[r].order = o /\ req'[r].stage = "committed"
  BY <1>3 DEF InFlight
<1>4. CASE /\ cache'[o] = cache[o] /\ rows'[o] = rows[o]
           /\ req[r].order # o \/ req[r].stage # "committed"
  <2>1. CASE cache[o] \in {Miss, StatusOut(rows[o])}
    BY <1>4, <2>1
  <2>2. CASE InFlight(o, {"committed"})
    <3>1. PICK q \in Requests : req[q].order = o /\ req[q].stage = "committed"
      BY <2>2 DEF InFlight
    <3>2. req'[q] = req[q]
      BY <1>4, <3>1
    <3>3. QED
      BY <3>1, <3>2 DEF InFlight
  <2>3. QED
    BY <1>1, <2>1, <2>2
<1>5. QED
  BY <1>2, <1>3, <1>4

(* The stages between a commit and its message.                               *)
Untold == {"inserted", "confirmed", "committed", "invalidated"}

(* Likewise for the messages: what no subscriber was told yet is what a        *)
(* request in flight is about to announce.                                      *)
LEMMA SubscribersStep ==
    ASSUME SubscribersFollow, NEW r \in Requests, req[r].stage # "failed",
           \A q \in Requests : q # r => req'[q] = req[q],
           \A o \in OrderIds :
               \/ Told(o)'
               \/ req'[r].order = o /\ req'[r].stage \in Untold
               \/ /\ Told(o) => Told(o)'
                  /\ req[r].order # o \/ req[r].stage \notin Untold
    PROVE  SubscribersFollow'
<1> SUFFICES ASSUME NoneDied', NEW o \in OrderIds
             PROVE  Told(o)' \/ InFlight(o, Untold)'
  BY DEF SubscribersFollow, Told, Untold
<1>1. Told(o) \/ InFlight(o, Untold)
  <2>1. NoneDied
    BY DEF NoneDied
  <2>2. QED
    BY <2>1 DEF SubscribersFollow, Untold
<1>2. CASE Told(o)'
  BY <1>2
<1>3. CASE req'[r].order = o /\ req'[r].stage \in Untold
  BY <1>3 DEF InFlight, Untold
<1>4. CASE /\ Told(o) => Told(o)'
           /\ req[r].order # o \/ req[r].stage \notin Untold
  <2>1. CASE Told(o)
    BY <1>4, <2>1
  <2>2. CASE InFlight(o, Untold)
    <3>1. PICK q \in Requests : req[q].order = o /\ req[q].stage \in Untold
      BY <2>2 DEF InFlight
    <3>2. req'[q] = req[q]
      BY <1>4, <3>1
    <3>3. QED
      BY <3>1, <3>2 DEF InFlight, Untold
  <2>3. QED
    BY <1>1, <2>1, <2>2
<1>5. QED
  BY <1>2, <1>3, <1>4

(* An event that leaves the status of the last one, recorded with the row it    *)
(* leads to, keeps the trail replaying to the row.                              *)
LEMMA TrailExtended ==
    ASSUME SerialInv, NEW o \in OrderIds, NEW from, NEW to \in Status,
           RecordEvent(o, from, to),
           Known(o) => from = rows[o].status,
           rows'[o].status = to,
           \A p \in OrderIds : p # o => rows'[p] = rows[p]
    PROVE  KnownIsRecorded' /\ AuditTrailReplays'
<1> DEFINE e == [from |-> from, to |-> to]
           n == Len(events[o])
<1>1. /\ events' = [events EXCEPT ![o] = Append(@, e)]
      /\ events \in [OrderIds -> Seq(Event)]
  BY DEF RecordEvent, SerialInv, HistoryInv, TypeOK, TablesOK
<1>2. /\ DOMAIN Append(events[o], e) = 1..(n + 1)
      /\ Len(Append(events[o], e)) = n + 1
      /\ DOMAIN events[o] = 1..n /\ n \in Nat
      /\ \A i \in DOMAIN events[o] : Append(events[o], e)[i] = events[o][i]
      /\ Append(events[o], e)[n + 1] = e
  BY <1>1
<1>e. /\ Append(events[o], e) # << >>
      /\ events[o] = << >> => n = 0
      /\ n = 0 => events[o] = << >>
  BY SMTT(45), <1>1, <1>2
<1>3. /\ events'[o] = Append(events[o], e)
      /\ \A p \in OrderIds : p # o => events'[p] = events[p]
  BY <1>1
<1>4. /\ \A i \in DOMAIN events[o] \ {1} : events[o][i].from = events[o][i - 1].to
      /\ Known(o) => n # 0 /\ events[o][n].to = from
      /\ ~Known(o) => n = 0
  <2>1. /\ \A i \in DOMAIN events[o] \ {1} : events[o][i].from = events[o][i - 1].to
        /\ Known(o) => events[o][n].to = rows[o].status
    BY DEF SerialInv, AuditTrailReplays
  <2>2. Known(o) => events[o] # << >>
    BY DEF SerialInv, KnownIsRecorded
  <2>3. ~Known(o) => events[o] = << >>
    BY DEF SerialInv, HistoryInv, UnknownIsBlank
  <2> HIDE DEF n, e
  <2>4. QED
    BY <2>1, <2>2, <2>3, <1>2, <1>e
<1> HIDE DEF n, e
<1>5. KnownIsRecorded'
  BY <1>e, <1>3 DEF SerialInv, KnownIsRecorded, Known
<1>6. AuditTrailReplays'
  <2> SUFFICES ASSUME NEW p \in OrderIds
               PROVE  /\ \A i \in DOMAIN events'[p] \ {1} :
                             events'[p][i].from = events'[p][i - 1].to
                      /\ rows'[p].status # "absent" =>
                             events'[p][Len(events'[p])].to = rows'[p].status
    BY DEF AuditTrailReplays, Known
  <2>1. CASE p # o
    BY <2>1, <1>3 DEF SerialInv, AuditTrailReplays, Known
  <2>2. CASE p = o
    <3>1. e.from = from /\ e.to = to
      BY DEF e
    <3>2. events'[p][Len(events'[p])].to = rows'[p].status
      BY <2>2, <3>1, <1>2, <1>3
    <3>3. ASSUME NEW i \in DOMAIN events'[p] \ {1}
          PROVE  events'[p][i].from = events'[p][i - 1].to
      <4>1. CASE i \in DOMAIN events[o]
        <5>1. i - 1 \in DOMAIN events[o]
          BY <4>1, <3>3, <1>2
        <5>2. QED
          BY <4>1, <5>1, <2>2, <1>2, <1>3, <1>4, <3>3
      <4>2. CASE i = n + 1
        <5>1. n # 0
          BY <4>2, <3>3
        <5>2. Known(o) /\ n \in DOMAIN events[o] /\ i - 1 = n
          BY <4>2, <5>1, <1>2, <1>4
        <5>3. QED
          BY <4>2, <5>2, <2>2, <3>1, <1>2, <1>3, <1>4
      <4>3. QED
        BY <4>1, <4>2, <2>2, <1>2, <1>3, <3>3
    <3>4. QED
      BY <3>2, <3>3
  <2>3. QED
    BY <2>1, <2>2
<1>7. QED
  BY <1>5, <1>6

(* The row the second transaction of create_order stores.                      *)
LEMMA ConfirmedRow ==
    ASSUME TypeOK, NEW r \in Requests, CreateConfirm(r)
    PROVE  \E o \in OrderIds, row \in Row :
              /\ o = req[r].order /\ rows' = [rows EXCEPT ![o] = row]
              /\ row.status = "confirmed" /\ row.payment = "captured"
              /\ row.closed = rows[o].closed
<1>1. req[r].order \in OrderIds /\ rows \in [OrderIds -> Row]
  BY DEF CreateConfirm, TypeOK, TablesOK, RequestsOK, Idle
<1>2. PICK o \in OrderIds, row \in Row :
         /\ o = req[r].order
         /\ row = [rows[o] EXCEPT !.status = "confirmed", !.payment = "captured"]
  BY <1>1 DEF Row, Status, Payment
<1>3. rows' = [rows EXCEPT ![o] = row]
  BY <1>1, <1>2 DEF CreateConfirm, Row
<1>4. row.status = "confirmed" /\ row.payment = "captured" /\ row.closed = rows[o].closed
  BY <1>1, <1>2 DEF Row
<1>5. QED
  BY <1>2, <1>3, <1>4

(* With requests one at a time every step of every handler preserves the       *)
(* serial invariant.                                                            *)
LEMMA SerialStep == ~Overlap /\ SerialInv /\ [Next]_vars => SerialInv'
<1> SUFFICES ASSUME ~Overlap, SerialInv, [Next]_vars PROVE SerialInv'
  OBVIOUS
<1>h. HistoryInv'
  BY HistoryStep DEF SerialInv
<1>i. /\ req \in [Requests -> Request] /\ rows \in [OrderIds -> Row]
      /\ cache \in [OrderIds -> StatusDoc] /\ announced \in [OrderIds -> Channel \cup {"absent"}]
      /\ \A r \in Requests : req[r].stage \notin Idle => req[r].order \in OrderIds
      /\ \A r \in Requests : Current(req[r]) /\ Witnessed(req[r])
      /\ Idle = {"new", "done", "failed"}
      /\ CacheFollows /\ SubscribersFollow /\ ColumnsAgree
  BY DEF SerialInv, HistoryInv, TypeOK, TablesOK, RequestsOK, HandlersCurrent,
         HandlersWitnessed, Idle
<1>c. \A f \in {"done", "failed"} : Closed(f).stage = f
  BY DEF Closed, NoRequest
(* A request that starts, or is answered at once: the tables stay.             *)
<1>s. ASSUME NEW r \in Requests, MayStart(r), NEW h, req' = [req EXCEPT ![r] = h],
             Current(h)', UNCHANGED <<rows, events, cache, announced>>
      PROVE  SerialInv'
  <2>1. /\ \A q \in Requests : q # r => req'[q] = req[q]
        /\ req'[r] = h /\ req[r].stage = "new"
    BY <1>s, <1>i DEF MayStart
  <2>2. Current(req[r])'
    BY <1>s, <2>1 DEF Current
  <2>3. OneInFlight' /\ HandlersCurrent'
    BY <1>s, <2>1, <2>2, OneHandlerMoves
  <2>4. KnownIsRecorded' /\ AuditTrailReplays' /\ ColumnsAgree'
    BY <1>s, TablesKept
  <2>5. CacheFollows'
    BY <1>s, <1>i, <2>1, CacheStep
  <2>6. SubscribersFollow'
    BY <1>s, <1>i, <2>1, SubscribersStep DEF Told, Untold
  <2>7. QED
    BY <1>h, <2>3, <2>4, <2>5, <2>6 DEF SerialInv
<1>1. ASSUME NEW r \in Requests, NEW o \in OrderIds, CreateInsert(r, o) PROVE SerialInv'
  <2> DEFINE row == [status |-> "pending", payment |-> "authorized", closed |-> FALSE]
             h == [NoRequest EXCEPT !.stage = "inserted", !.order = o]
  <2>1. /\ MayStart(r) /\ ~Known(o) /\ rows' = [rows EXCEPT ![o] = row]
        /\ RecordEvent(o, "absent", "pending") /\ req' = [req EXCEPT ![r] = h]
        /\ UNCHANGED <<cache, announced>>
    BY <1>1 DEF CreateInsert
  <2>2. h.stage = "inserted" /\ h.order = o
    BY DEF NoRequest
  <2>3. row.status = "pending" /\ row.payment = "authorized" /\ ~row.closed
    OBVIOUS
  <2> HIDE DEF row, h
  <2>4. /\ rows'[o] = row /\ \A p \in OrderIds : p # o => rows'[p] = rows[p]
        /\ req'[r] = h /\ \A q \in Requests : q # r => req'[q] = req[q]
        /\ req[r].stage = "new"
    BY <2>1, <1>i DEF MayStart
  <2>5. cache[o] = Miss
    <3>1. events[o] = << >>
      BY <2>1 DEF SerialInv, HistoryInv, UnknownIsBlank
    <3>2. \A s : ~Reached(o, s)
      BY <3>1 DEF Reached
    <3>3. QED
      BY <3>2 DEF SerialInv, HistoryInv, NothingInvented
  <2>6. Current(req[r])'
    BY <2>1, <2>2, <2>3, <2>4, <2>5 DEF Current
  <2>7. OneInFlight' /\ HandlersCurrent'
    BY <2>1, <2>4, <2>6, OneHandlerMoves
  <2>8. KnownIsRecorded' /\ AuditTrailReplays'
    BY <2>1, <2>3, <2>4, TrailExtended DEF Status
  <2>9. ColumnsAgree'
    BY <2>3, <2>4, <1>i DEF ColumnsAgree, Terminal
  <2>10. CacheFollows'
    <3>1. \A p \in OrderIds : cache'[p] = cache[p] /\ (p # o => rows'[p] = rows[p])
      BY <2>1, <2>4
    <3>2. QED
      BY <3>1, <2>1, <2>4, <2>5, <1>i, CacheStep
  <2>11. SubscribersFollow'
    <3>1. req'[r].order = o /\ req'[r].stage \in Untold
      BY <2>2, <2>4 DEF Untold
    <3>2. \A p \in OrderIds : p # o => (Told(p) => Told(p)')
      BY <2>1, <2>4 DEF Told
    <3>3. req[r].stage \notin Untold
      BY <2>4 DEF Untold
    <3>4. QED
      BY <3>1, <3>2, <3>3, <2>4, <1>i, SubscribersStep
  <2>12. QED
    BY <1>h, <2>7, <2>8, <2>9, <2>10, <2>11 DEF SerialInv
<1>2. ASSUME NEW r \in Requests, NEW o \in OrderIds, NEW t \in Status,
             TransitionRead(r, o, t)
      PROVE SerialInv'
  <2> DEFINE h == [stage |-> "read", order |-> o, target |-> t, seen |-> rows[o]]
  <2>1. Current(h)'
    BY <1>2 DEF TransitionRead, Current
  <2> HIDE DEF h
  <2>2. QED
    BY <1>2, <2>1, <1>s DEF TransitionRead, h
<1>3. ASSUME NEW r \in Requests, NEW o \in OrderIds, NEW t \in Status,
             TransitionRejected(r, o, t)
      PROVE SerialInv'
  <2>1. Current(Closed("done"))'
    BY <1>c DEF Current
  <2>2. QED
    BY <1>3, <2>1, <1>s DEF TransitionRejected, Finish
<1>4. ASSUME NEW r \in Requests, NEW o \in OrderIds, StatusCacheHit(r, o) PROVE SerialInv'
  <2>1. Current(Closed("done"))'
    BY <1>c DEF Current
  <2>2. QED
    BY <1>4, <2>1, <1>s DEF StatusCacheHit, Finish
<1>5. ASSUME NEW r \in Requests, NEW o \in OrderIds, StatusCacheMiss(r, o) PROVE SerialInv'
  <2> DEFINE h == [NoRequest EXCEPT !.stage = "missed", !.order = o]
  <2>1. Current(h)'
    BY DEF NoRequest, Current
  <2> HIDE DEF h
  <2>2. QED
    BY <1>5, <2>1, <1>s DEF StatusCacheMiss, h
<1>6. ASSUME NEW r \in Requests, NEW o \in OrderIds, ReturnRead(r, o) PROVE SerialInv'
  <2> DEFINE h == [NoRequest EXCEPT !.stage = "returning", !.order = o, !.seen = rows[o]]
  <2>1. Current(h)'
    BY <1>6 DEF ReturnRead, NoRequest, Current
  <2> HIDE DEF h
  <2>2. QED
    BY <1>6, <2>1, <1>s DEF ReturnRead, h
<1>7. ASSUME NEW r \in Requests, CreateConfirm(r) PROVE SerialInv'
  <2>1. PICK o \in OrderIds, row \in Row :
           /\ o = req[r].order /\ rows' = [rows EXCEPT ![o] = row]
           /\ row.status = "confirmed" /\ row.payment = "captured"
           /\ row.closed = rows[o].closed
    BY <1>7, ConfirmedRow DEF SerialInv, HistoryInv
  <2>2. /\ req[r].stage = "inserted" /\ RecordEvent(o, "pending", "confirmed")
        /\ req' = [req EXCEPT ![r].stage = "confirmed"] /\ UNCHANGED <<cache, announced>>
    BY <1>7, <2>1 DEF CreateConfirm, Advance
  <2>3. rows[o].status = "pending" /\ cache[o] = Miss
    BY <2>1, <2>2, <1>i DEF Current
  <2>4. /\ rows'[o] = row /\ \A p \in OrderIds : p # o => rows'[p] = rows[p]
        /\ req'[r].stage = "confirmed" /\ req'[r].order = o
        /\ \A q \in Requests : q # r => req'[q] = req[q]
    BY <2>1, <2>2, <1>i DEF Request
  <2>5. Current(req[r])'
    BY <2>1, <2>4 DEF Current
  <2>6. OneInFlight' /\ HandlersCurrent'
    BY <2>2, <2>4, <2>5, <1>i, OneHandlerMoves
  <2>7. KnownIsRecorded' /\ AuditTrailReplays'
    BY <2>1, <2>2, <2>3, <2>4, TrailExtended DEF Status
  <2>8. ColumnsAgree'
    <3>1. ~rows[o].closed
      BY <2>3, <1>i DEF ColumnsAgree, Terminal
    <3>2. QED
      BY <3>1, <2>1, <2>4, <1>i DEF ColumnsAgree, Terminal
  <2>9. CacheFollows'
    <3>1. \A p \in OrderIds : cache'[p] = cache[p] /\ (p # o => rows'[p] = rows[p])
      BY <2>2, <2>4
    <3>2. QED
      BY <3>1, <2>2, <2>3, <2>4, <1>i, CacheStep
  <2>10. SubscribersFollow'
    <3>1. \A p \in OrderIds : p # o => (Told(p) => Told(p)') /\ req[r].order # p
      BY <2>1, <2>2, <2>4 DEF Told
    <3>2. req'[r].order = o /\ req'[r].stage \in Untold
      BY <2>4 DEF Untold
    <3>3. QED
      BY <3>1, <3>2, <2>2, <2>4, <1>i, SubscribersStep
  <2>11. QED
    BY <1>h, <2>6, <2>7, <2>8, <2>9, <2>10 DEF SerialInv
<1>8. ASSUME NEW r \in Requests, CreatePublish(r) PROVE SerialInv'
  <2>1. PICK o \in OrderIds : o = req[r].order
    BY <1>8, <1>i DEF CreatePublish
  <2>2. /\ req[r].stage = "confirmed" /\ announced' = [announced EXCEPT ![o] = "created"]
        /\ req' = [req EXCEPT ![r].stage = "published"] /\ UNCHANGED <<rows, events, cache>>
    BY <1>8, <2>1 DEF CreatePublish, Advance
  <2>3. rows[o].status = "confirmed" /\ rows[o].payment = "captured"
    BY <2>1, <2>2, <1>i DEF Current
  <2>4. /\ req'[r].stage = "published" /\ req'[r].order = o
        /\ \A q \in Requests : q # r => req'[q] = req[q]
        /\ announced'[o] = "created"
        /\ \A p \in OrderIds : p # o => announced'[p] = announced[p]
    BY <2>1, <2>2, <1>i DEF Request
  <2>5. Current(req[r])'
    BY <2>2, <2>3, <2>4 DEF Current
  <2>6. OneInFlight' /\ HandlersCurrent'
    BY <2>2, <2>4, <2>5, <1>i, OneHandlerMoves
  <2>7. KnownIsRecorded' /\ AuditTrailReplays' /\ ColumnsAgree'
    BY <2>2, TablesKept
  <2>8. CacheFollows'
    BY <2>2, <2>4, <1>i, CacheStep
  <2>9. SubscribersFollow'
    <3>1. Told(o)' /\ \A p \in OrderIds : p # o => (Told(p) => Told(p)') /\ req[r].order # p
      BY <2>1, <2>2, <2>3, <2>4 DEF Told
    <3>2. QED
      BY <3>1, <2>2, <2>4, <1>i, SubscribersStep
  <2>10. QED
    BY <1>h, <2>6, <2>7, <2>8, <2>9 DEF SerialInv
<1>9. ASSUME NEW r \in Requests, CreateFillCache(r) PROVE SerialInv'
  <2>1. PICK o \in OrderIds : o = req[r].order
    BY <1>9, <1>i DEF CreateFillCache
  <2> DEFINE doc == [status |-> "confirmed", payment |-> "captured"]
  <2>2. /\ req[r].stage = "published" /\ cache' = [cache EXCEPT ![o] = doc]
        /\ req' = [req EXCEPT ![r] = Closed("done")] /\ UNCHANGED <<rows, events, announced>>
    BY <1>9, <2>1 DEF CreateFillCache, Finish
  <2>3. doc = StatusOut(rows[o])
    <3>1. rows[o].status = "confirmed" /\ rows[o].payment = "captured"
      BY <2>1, <2>2, <1>i DEF Current
    <3>2. QED
      BY <3>1 DEF StatusOut
  <2> HIDE DEF doc
  <2>4. /\ req'[r].stage = "done" /\ \A q \in Requests : q # r => req'[q] = req[q]
        /\ cache'[o] = StatusOut(rows'[o])
        /\ \A p \in OrderIds : p # o => cache'[p] = cache[p]
    BY <2>2, <2>3, <1>i, <1>c
  <2>5. Current(req[r])'
    BY <2>4 DEF Current
  <2>6. OneInFlight' /\ HandlersCurrent'
    BY <2>2, <2>4, <2>5, <1>i, OneHandlerMoves
  <2>7. KnownIsRecorded' /\ AuditTrailReplays' /\ ColumnsAgree'
    BY <2>2, TablesKept
  <2>8. CacheFollows'
    BY <2>1, <2>2, <2>4, <1>i, CacheStep
  <2>9. SubscribersFollow'
    BY <2>2, <2>4, <1>i, SubscribersStep DEF Told, Untold
  <2>10. QED
    BY <1>h, <2>6, <2>7, <2>8, <2>9 DEF SerialInv
<1>10. ASSUME NEW r \in Requests, TransitionCommit(r) PROVE SerialInv'
  <2>1. PICK o \in OrderIds, t \in Status, row \in Row :
           /\ o = req[r].order /\ t = req[r].target /\ req[r].seen = rows[o]
           /\ row = RowAfter(rows[o], rows[o], t) /\ rows' = [rows EXCEPT ![o] = row]
           /\ <<rows[o].status, t>> \in VALID_TRANSITIONS
    <3>1. /\ req[r].order \in OrderIds /\ req[r].seen = rows[req[r].order]
          /\ <<req[r].seen.status, req[r].target>> \in VALID_TRANSITIONS
      BY <1>10, <1>i DEF TransitionCommit, Current, Witnessed
    <3>2. req[r].target \in Status
      BY <3>1 DEF VALID_TRANSITIONS, Status
    <3>3. RowAfter(rows[req[r].order], rows[req[r].order], req[r].target) \in Row
      BY <3>1, <3>2, <1>i DEF RowAfter, Row, Payment, Terminal
    <3>4. QED
      BY <1>10, <3>1, <3>2, <3>3 DEF TransitionCommit
  <2>2. /\ req[r].stage = "read" /\ RecordEvent(o, rows[o].status, t)
        /\ req' = [req EXCEPT ![r].stage = "committed"] /\ UNCHANGED <<cache, announced>>
    BY <1>10, <2>1 DEF TransitionCommit, Advance
  <2>3. /\ rows'[o] = row /\ \A p \in OrderIds : p # o => rows'[p] = rows[p]
        /\ req'[r].stage = "committed" /\ req'[r].order = o /\ req'[r].target = t
        /\ \A q \in Requests : q # r => req'[q] = req[q]
    BY <2>1, <2>2, <1>i DEF Request
  <2>4. row.status = t
    BY <2>1 DEF RowAfter
  <2>5. Current(req[r])'
    BY <2>3, <2>4 DEF Current
  <2>6. OneInFlight' /\ HandlersCurrent'
    BY <2>2, <2>3, <2>5, <1>i, OneHandlerMoves
  <2>7. KnownIsRecorded' /\ AuditTrailReplays'
    BY <2>2, <2>3, <2>4, TrailExtended
  <2>8. ColumnsAgree'
    <3>1. /\ rows[o].status \notin Terminal /\ t # "pending"
          /\ "cancelled" \in Terminal
      BY <2>1 DEF VALID_TRANSITIONS, Terminal
    <3>2. ~rows[o].closed /\ rows[o].payment # "refunded"
      BY <3>1, <1>i DEF ColumnsAgree
    <3>3. /\ row.payment = "refunded" <=> t = "cancelled"
          /\ row.closed <=> t \in Terminal
      BY <3>2, <2>1 DEF RowAfter
    <3>4. QED
      BY <3>1, <3>3, <2>3, <2>4, <1>i DEF ColumnsAgree
  <2>9. CacheFollows'
    <3>1. \A p \in OrderIds :
             p # o => cache'[p] = cache[p] /\ rows'[p] = rows[p] /\ req[r].order # p
      BY <2>1, <2>2, <2>3
    <3>2. QED
      BY <3>1, <2>2, <2>3, <1>i, CacheStep
  <2>10. SubscribersFollow'
    <3>1. \A p \in OrderIds : p # o => (Told(p) => Told(p)') /\ req[r].order # p
      BY <2>1, <2>2, <2>3 DEF Told
    <3>2. req'[r].order = o /\ req'[r].stage \in Untold
      BY <2>3 DEF Untold
    <3>3. QED
      BY <3>1, <3>2, <2>2, <2>3, <1>i, SubscribersStep
  <2>11. QED
    BY <1>h, <2>6, <2>7, <2>8, <2>9, <2>10 DEF SerialInv
<1>11. ASSUME NEW r \in Requests, TransitionInvalidate(r) PROVE SerialInv'
  <2>1. PICK o \in OrderIds : o = req[r].order
    BY <1>11, <1>i DEF TransitionInvalidate
  <2>2. /\ req[r].stage = "committed" /\ cache' = [cache EXCEPT ![o] = Miss]
        /\ req' = [req EXCEPT ![r].stage = "invalidated"]
        /\ UNCHANGED <<rows, events, announced>>
    BY <1>11, <2>1 DEF TransitionInvalidate, Advance
  <2>3. /\ req'[r].stage = "invalidated" /\ req'[r].order = o
        /\ req'[r].target = req[r].target
        /\ \A q \in Requests : q # r => req'[q] = req[q]
        /\ cache'[o] = Miss /\ \A p \in OrderIds : p # o => cache'[p] = cache[p]
    BY <2>1, <2>2, <1>i DEF Request
  <2>4. Current(req[r])'
    <3>1. rows[o].status = req[r].target
      BY <2>1, <2>2, <1>i DEF Current
    <3>2. QED
      BY <3>1, <2>2, <2>3 DEF Current
  <2>5. OneInFlight' /\ HandlersCurrent'
    BY <2>2, <2>3, <2>4, <1>i, OneHandlerMoves
  <2>6. KnownIsRecorded' /\ AuditTrailReplays' /\ ColumnsAgree'
    BY <2>2, TablesKept
  <2>7. CacheFollows'
    <3>1. \A p \in OrderIds : p # o => cache'[p] = cache[p] /\ rows'[p] = rows[p]
                                      /\ req[r].order # p
      BY <2>1, <2>2, <2>3
    <3>2. QED
      BY <3>1, <2>2, <2>3, <1>i, CacheStep
  <2>8. SubscribersFollow'
    <3>1. \A p \in OrderIds : (Told(p) => Told(p)') /\ (p # o => req[r].order # p)
      BY <2>1, <2>2 DEF Told
    <3>2. req'[r].order = o /\ req'[r].stage \in Untold
      BY <2>3 DEF Untold
    <3>3. QED
      BY <3>1, <3>2, <2>2, <2>3, <1>i, SubscribersStep
  <2>9. QED
    BY <1>h, <2>5, <2>6, <2>7, <2>8 DEF SerialInv
<1>12. ASSUME NEW r \in Requests, TransitionPublish(r) PROVE SerialInv'
  <2>1. PICK o \in OrderIds : o = req[r].order
    BY <1>12, <1>i DEF TransitionPublish
  <2>2. /\ req[r].stage = "invalidated"
        /\ announced' = [announced EXCEPT ![o] = req[r].target]
        /\ req' = [req EXCEPT ![r] = Closed("done")] /\ UNCHANGED <<rows, events, cache>>
    BY <1>12, <2>1 DEF TransitionPublish, Finish
  <2>3. /\ req'[r].stage = "done" /\ \A q \in Requests : q # r => req'[q] = req[q]
        /\ announced'[o] = req[r].target
        /\ \A p \in OrderIds : p # o => announced'[p] = announced[p]
    BY <2>2, <1>i, <1>c
  <2>4. Current(req[r])'
    BY <2>3 DEF Current
  <2>5. OneInFlight' /\ HandlersCurrent'
    BY <2>2, <2>3, <2>4, <1>i, OneHandlerMoves
  <2>6. KnownIsRecorded' /\ AuditTrailReplays' /\ ColumnsAgree'
    BY <2>2, TablesKept
  <2>7. CacheFollows'
    BY <2>2, <2>3, <1>i, CacheStep
  <2>8. SubscribersFollow'
    <3>1. rows[o].status = req[r].target
      BY <2>1, <2>2, <1>i DEF Current
    <3>2. Told(o)' /\ \A p \in OrderIds : p # o => (Told(p) => Told(p)') /\ req[r].order # p
      BY <3>1, <2>1, <2>2, <2>3 DEF Told
    <3>3. QED
      BY <3>2, <2>2, <2>3, <1>i, SubscribersStep
  <2>9. QED
    BY <1>h, <2>5, <2>6, <2>7, <2>8 DEF SerialInv
<1>13. ASSUME NEW r \in Requests, StatusLoad(r) PROVE SerialInv'
  <2>1. PICK o \in OrderIds : o = req[r].order
    BY <1>13, <1>i DEF StatusLoad
  <2>2. /\ req[r].stage = "missed"
        /\ req' = [req EXCEPT ![r].stage = "loaded", ![r].seen = rows[o]]
        /\ UNCHANGED <<rows, events, cache, announced>>
    BY <1>13, <2>1 DEF StatusLoad
  <2>3. /\ req'[r].stage = "loaded" /\ req'[r].order = o /\ req'[r].seen = rows'[o]
        /\ \A q \in Requests : q # r => req'[q] = req[q]
    BY <2>1, <2>2, <1>i DEF Request
  <2>4. Current(req[r])'
    BY <2>3 DEF Current
  <2>5. OneInFlight' /\ HandlersCurrent'
    BY <2>2, <2>3, <2>4, <1>i, OneHandlerMoves
  <2>6. KnownIsRecorded' /\ AuditTrailReplays' /\ ColumnsAgree'
    BY <2>2, TablesKept
  <2>7. CacheFollows'
    BY <2>2, <2>3, <1>i, CacheStep
  <2>8. SubscribersFollow'
    BY <2>2, <2>3, <1>i, SubscribersStep DEF Told, Untold
  <2>9. QED
    BY <1>h, <2>5, <2>6, <2>7, <2>8 DEF SerialInv
<1>14. ASSUME NEW r \in Requests, StatusFillCache(r) PROVE SerialInv'
  <2>1. PICK o \in OrderIds : o = req[r].order
    BY <1>14, <1>i DEF StatusFillCache
  <2>2. /\ req[r].stage = "loaded" /\ cache' = [cache EXCEPT ![o] = StatusOut(req[r].seen)]
        /\ req' = [req EXCEPT ![r] = Closed("done")] /\ UNCHANGED <<rows, events, announced>>
    BY <1>14, <2>1 DEF StatusFillCache, Finish
  <2>3. req[r].seen = rows[o]
    BY <2>1, <2>2, <1>i DEF Current
  <2>4. /\ req'[r].stage = "done" /\ \A q \in Requests : q # r => req'[q] = req[q]
        /\ cache'[o] = StatusOut(rows'[o])
        /\ \A p \in OrderIds : p # o => cache'[p] = cache[p]
    BY <2>2, <2>3, <1>i, <1>c
  <2>5. Current(req[r])'
    BY <2>4 DEF Current
  <2>6. OneInFlight' /\ HandlersCurrent'
    BY <2>2, <2>4, <2>5, <1>i, OneHandlerMoves
  <2>7. KnownIsRecorded' /\ AuditTrailReplays' /\ ColumnsAgree'
    BY <2>2, TablesKept
  <2>8. CacheFollows'
    BY <2>1, <2>2, <2>4, <1>i, CacheStep
  <2>9. SubscribersFollow'
    BY <2>2, <2>4, <1>i, SubscribersStep DEF Told, Untold
  <2>10. QED
    BY <1>h, <2>6, <2>7, <2>8, <2>9 DEF SerialInv
<1>15. ASSUME NEW r \in Requests, ReturnCommit(r) PROVE SerialInv'
  <2>1. PICK o \in OrderIds, t \in Returnable :
           o = req[r].order /\ req[r].seen = rows[o] /\ rows[o].status = t
    BY <1>15, <1>i DEF ReturnCommit, Current, Witnessed
  <2>2. /\ req[r].stage = "returning" /\ RecordEvent(o, t, t)
        /\ req' = [req EXCEPT ![r].stage = "returned"] /\ UNCHANGED <<rows, cache, announced>>
    BY <1>15, <2>1 DEF ReturnCommit, Advance
  <2>3. /\ req'[r].stage = "returned" /\ req'[r].order = o
        /\ \A q \in Requests : q # r => req'[q] = req[q]
    BY <2>1, <2>2, <1>i DEF Request
  <2>4. Current(req[r])'
    BY <2>1, <2>2, <2>3 DEF Current
  <2>5. OneInFlight' /\ HandlersCurrent'
    BY <2>2, <2>3, <2>4, <1>i, OneHandlerMoves
  <2>6. KnownIsRecorded' /\ AuditTrailReplays'
    BY <2>1, <2>2, TrailExtended DEF Returnable, Status
  <2>7. ColumnsAgree'
    BY <2>2, <1>i DEF ColumnsAgree
  <2>8. CacheFollows'
    BY <2>2, <2>3, <1>i, CacheStep
  <2>9. SubscribersFollow'
    BY <2>2, <2>3, <1>i, SubscribersStep DEF Told, Untold
  <2>10. QED
    BY <1>h, <2>5, <2>6, <2>7, <2>8, <2>9 DEF SerialInv
<1>16. ASSUME NEW r \in Requests, ReturnPublish(r) PROVE SerialInv'
  <2>1. PICK o \in OrderIds : o = req[r].order
    BY <1>16, <1>i DEF ReturnPublish
  <2>2. /\ req[r].stage = "returned"
        /\ announced' = [announced EXCEPT ![o] = "return_initiated"]
        /\ req' = [req EXCEPT ![r] = Closed("done")] /\ UNCHANGED <<rows, events, cache>>
    BY <1>16, <2>1 DEF ReturnPublish, Finish
  <2>3. /\ req'[r].stage = "done" /\ \A q \in Requests : q # r => req'[q] = req[q]
        /\ announced'[o] = "return_initiated"
        /\ \A p \in OrderIds : p # o => announced'[p] = announced[p]
    BY <2>2, <1>i, <1>c
  <2>4. Current(req[r])'
    BY <2>3 DEF Current
  <2>5. OneInFlight' /\ HandlersCurrent'
    BY <2>2, <2>3, <2>4, <1>i, OneHandlerMoves
  <2>6. KnownIsRecorded' /\ AuditTrailReplays' /\ ColumnsAgree'
    BY <2>2, TablesKept
  <2>7. CacheFollows'
    BY <2>2, <2>3, <1>i, CacheStep
  <2>8. SubscribersFollow'
    <3>1. rows[o].status \in Returnable
      BY <2>1, <2>2, <1>i DEF Current
    <3>2. Told(o)' /\ \A p \in OrderIds : p # o => (Told(p) => Told(p)') /\ req[r].order # p
      BY <3>1, <2>1, <2>2, <2>3 DEF Told
    <3>3. QED
      BY <3>2, <2>2, <2>3, <1>i, SubscribersStep
  <2>9. QED
    BY <1>h, <2>5, <2>6, <2>7, <2>8 DEF SerialInv
<1>17. ASSUME NEW r \in Requests, Fail(r) PROVE SerialInv'
  <2>1. /\ req[r].stage \notin Idle /\ req' = [req EXCEPT ![r] = Closed("failed")]
        /\ UNCHANGED <<rows, events, cache, announced>>
    BY <1>17 DEF Fail
  <2>2. /\ req'[r].stage = "failed" /\ \A q \in Requests : q # r => req'[q] = req[q]
    BY <2>1, <1>i, <1>c
  <2>3. Current(req[r])'
    BY <2>2 DEF Current
  <2>4. OneInFlight' /\ HandlersCurrent'
    BY <2>1, <2>2, <2>3, OneHandlerMoves
  <2>5. KnownIsRecorded' /\ AuditTrailReplays' /\ ColumnsAgree'
    BY <2>1, TablesKept
  <2>6. ~NoneDied'
    BY <2>2 DEF NoneDied
  <2>7. QED
    BY <1>h, <2>4, <2>5, <2>6 DEF SerialInv, CacheFollows, SubscribersFollow
<1>18. ASSUME NEW o \in OrderIds, Expire(o) PROVE SerialInv'
  <2>1. /\ cache' = [cache EXCEPT ![o] = Miss] /\ UNCHANGED <<rows, events, announced, req>>
    BY <1>18 DEF Expire
  <2>2. OneInFlight' /\ HandlersCurrent'
    <3>1. \A p \in OrderIds : cache'[p] \in {cache[p], Miss}
      BY <2>1, <1>i
    <3>2. HandlersCurrent'
      BY <2>1, <3>1, <1>i DEF HandlersCurrent, Current
    <3>3. QED
      BY <2>1, <3>2 DEF SerialInv, OneInFlight
  <2>3. KnownIsRecorded' /\ AuditTrailReplays' /\ ColumnsAgree'
    BY <2>1, TablesKept
  <2>4. CacheFollows'
    <3>1. \A p \in OrderIds : cache'[p] \in {cache[p], Miss}
      BY <2>1, <1>i
    <3>2. QED
      BY <2>1, <3>1, <1>i DEF CacheFollows, NoneDied, InFlight
  <2>5. SubscribersFollow'
    BY <2>1, <1>i DEF SubscribersFollow, NoneDied, InFlight, Told
  <2>6. QED
    BY <1>h, <2>2, <2>3, <2>4, <2>5 DEF SerialInv
<1>19. CASE UNCHANGED vars
  <2>1. UNCHANGED <<rows, events, cache, announced, req>>
    BY <1>19 DEF vars
  <2>2. OneInFlight' /\ HandlersCurrent'
    BY <2>1 DEF SerialInv, OneInFlight, HandlersCurrent, Current
  <2>3. KnownIsRecorded' /\ AuditTrailReplays' /\ ColumnsAgree'
    BY <2>1, TablesKept
  <2>4. CacheFollows' /\ SubscribersFollow'
    BY <2>1, <1>i DEF CacheFollows, SubscribersFollow, NoneDied, InFlight, Told
  <2>5. QED
    BY <1>h, <2>2, <2>3, <2>4 DEF SerialInv
<1>20. QED
  BY <1>1, <1>2, <1>3, <1>4, <1>5, <1>6, <1>7, <1>8, <1>9, <1>10, <1>11, <1>12, <1>13,
     <1>14, <1>15, <1>16, <1>17, <1>18, <1>19 DEF Next, Start, Continue

(* Nothing has happened in the initial state.                                   *)
LEMMA SerialInit == Init => SerialInv
<1> SUFFICES ASSUME Init PROVE SerialInv
  OBVIOUS
<1> USE DEF Init
<1>1. HistoryInv
  BY HistoryInit
<1>2. \A r \in Requests : req[r].stage = "new"
  BY DEF NoRequest
<1>3. OneInFlight /\ HandlersCurrent
  BY <1>2 DEF OneInFlight, Idle, HandlersCurrent, Current
<1>4. \A o \in OrderIds :
         /\ events[o] = << >> /\ cache[o] = Miss /\ announced[o] = "absent"
         /\ rows[o].status = "absent" /\ rows[o].payment = "none" /\ ~rows[o].closed
  BY DEF NoRow
<1>5. KnownIsRecorded /\ AuditTrailReplays /\ ColumnsAgree
  BY <1>4 DEF KnownIsRecorded, AuditTrailReplays, ColumnsAgree, Known, Terminal
<1>6. CacheFollows /\ SubscribersFollow
  BY <1>4 DEF CacheFollows, SubscribersFollow, Told
<1>7. QED
  BY <1>1, <1>3, <1>5, <1>6 DEF SerialInv

(* The serial invariant holds of every behaviour without overlap.               *)
LEMMA SerialInvHolds == ~Overlap /\ Spec => []SerialInv
<1>1. ASSUME ~Overlap PROVE SerialInv /\ [Next]_vars => SerialInv'
  BY <1>1, SerialStep
<1>2. ASSUME ~Overlap PROVE Spec => []SerialInv
  BY <1>1, <1>2, SerialInit, PTL DEF Spec
<1>3. QED
  BY <1>2

(* What the serial invariant says in the words of the properties.              *)
LEMMA SerialConsequences ==
    SerialInv => AuditTrailReplays /\ ColumnsAgree /\ StaleOnlyAfterFailure
                 /\ SubscribersUpToDate
<1> SUFFICES ASSUME SerialInv
             PROVE  StaleOnlyAfterFailure /\ SubscribersUpToDate
  BY DEF SerialInv
<1>1. StaleOnlyAfterFailure
  BY DEF SerialInv, CacheFollows, NoneDied, InFlight, StaleOnlyAfterFailure
<1>2. SubscribersUpToDate
  BY DEF SerialInv, SubscribersFollow, NoneDied, InFlight, Told, SubscribersUpToDate
<1>3. QED
  BY <1>1, <1>2

(* With requests one at a time, whichever of them die, the events of an order  *)
(* replay to its row (transition_order records what it read).                  *)
THEOREM TrailReplays == ~Overlap /\ Spec => []AuditTrailReplays
BY SerialInvHolds, SerialConsequences, PTL

(* With requests one at a time the three columns of an order agree.            *)
THEOREM ColumnsStayTogether == ~Overlap /\ Spec => []ColumnsAgree
BY SerialInvHolds, SerialConsequences, PTL

(* With requests one at a time the cached status differs from the row only     *)
(* while a request runs or after one died.                                      *)
THEOREM StaleOnlyIfDied == ~Overlap /\ Spec => []StaleOnlyAfterFailure
BY SerialInvHolds, SerialConsequences, PTL

(* With requests one at a time the last message about an order tells its       *)
(* status, unless a request runs or died.                                       *)
THEOREM SubscribersKnow == ~Overlap /\ Spec => []SubscribersUpToDate
BY SerialInvHolds, SerialConsequences, PTL

-----------------------------------------------------------------------------
(* The order lifecycle, implemented step by step.                            *)

(* A function that changes at one argument only.                              *)
LEMMA OneArgumentChanges ==
    ASSUME NEW S, NEW o \in S, NEW v, NEW f, NEW g,
           f = [p \in S |-> f[p]], g = [p \in S |-> g[p]],
           g[o] = v, \A p \in S : p # o => g[p] = f[p]
    PROVE  g = [f EXCEPT ![o] = v]
OBVIOUS

(* The two functions the lifecycle speaks of.                                 *)
StatusOf == [o \in OrderIds |-> rows[o].status]

PaymentOf == [o \in OrderIds |-> rows[o].payment]

(* One row changes: the lifecycle's two functions change at that order.       *)
LEMMA StatusMoves ==
    ASSUME SerialInv, NEW o \in OrderIds, NEW row, rows' = [rows EXCEPT ![o] = row]
    PROVE  /\ StatusOf' = [StatusOf EXCEPT ![o] = row.status]
           /\ PaymentOf' = [PaymentOf EXCEPT ![o] = row.payment]
<1>1. /\ rows'[o] = row /\ \A p \in OrderIds : p # o => rows'[p] = rows[p]
  BY DEF SerialInv, HistoryInv, TypeOK, TablesOK
<1>2. /\ StatusOf = [p \in OrderIds |-> StatusOf[p]]
      /\ StatusOf' = [p \in OrderIds |-> StatusOf'[p]]
      /\ PaymentOf = [p \in OrderIds |-> PaymentOf[p]]
      /\ PaymentOf' = [p \in OrderIds |-> PaymentOf'[p]]
  BY DEF StatusOf, PaymentOf
<1>3. /\ StatusOf'[o] = row.status /\ PaymentOf'[o] = row.payment
      /\ \A p \in OrderIds : p # o =>
            StatusOf'[p] = StatusOf[p] /\ PaymentOf'[p] = PaymentOf[p]
  BY <1>1 DEF StatusOf, PaymentOf
<1>4. StatusOf' = [StatusOf EXCEPT ![o] = row.status]
  BY <1>2, <1>3, OneArgumentChanges
<1>5. PaymentOf' = [PaymentOf EXCEPT ![o] = row.payment]
  BY <1>2, <1>3, OneArgumentChanges
<1>6. QED
  BY <1>4, <1>5

(* Every step of the service is a step of the lifecycle or leaves it alone.    *)
LEMMA LifecycleStep ==
    SerialInv /\ [Next]_vars => [Lifecycle!Next]_(Lifecycle!vars)
<1> SUFFICES ASSUME SerialInv, [Next]_vars
             PROVE  [Lifecycle!Next]_(Lifecycle!vars)
  OBVIOUS
<1>i. /\ \A r \in Requests : req[r].stage \notin Idle => req[r].order \in OrderIds
      /\ \A r \in Requests : Current(req[r]) /\ Witnessed(req[r])
      /\ Idle = {"new", "done", "failed"}
      /\ ColumnsAgree
  BY DEF SerialInv, HistoryInv, TypeOK, RequestsOK, HandlersCurrent, HandlersWitnessed, Idle
<1>1. ASSUME NEW r \in Requests, NEW o \in OrderIds, CreateInsert(r, o)
      PROVE  Lifecycle!Next
  <2> DEFINE row == [status |-> "pending", payment |-> "authorized", closed |-> FALSE]
  <2>0. rows' = [rows EXCEPT ![o] = row]
    BY <1>1 DEF CreateInsert
  <2>r. row.status = "pending" /\ row.payment = "authorized"
    OBVIOUS
  <2> HIDE DEF row
  <2>1. /\ StatusOf' = [StatusOf EXCEPT ![o] = row.status]
        /\ PaymentOf' = [PaymentOf EXCEPT ![o] = row.payment]
    BY <2>0, StatusMoves
  <2>2. /\ StatusOf' = [StatusOf EXCEPT ![o] = "pending"]
        /\ PaymentOf' = [PaymentOf EXCEPT ![o] = "authorized"]
    BY <2>1, <2>r
  <2>3. StatusOf[o] = "absent"
    BY <1>1 DEF CreateInsert, Known, StatusOf
  <2>4. Lifecycle!Place(o)
    BY <2>2, <2>3 DEF Lifecycle!Place, StatusOf, PaymentOf
  <2>5. QED
    BY <2>4 DEF Lifecycle!Next
<1>2. ASSUME NEW r \in Requests, CreateConfirm(r)
      PROVE  Lifecycle!Next
  <2>1. PICK o \in OrderIds, row \in Row :
           /\ o = req[r].order /\ rows' = [rows EXCEPT ![o] = row]
           /\ row.status = "confirmed" /\ row.payment = "captured"
    BY <1>2, ConfirmedRow DEF SerialInv, HistoryInv
  <2>2. StatusOf[o] = "pending"
    BY <1>2, <2>1, <1>i DEF CreateConfirm, Current, StatusOf
  <2>3. /\ StatusOf' = [StatusOf EXCEPT ![o] = "confirmed"]
        /\ PaymentOf' = [PaymentOf EXCEPT ![o] = "captured"]
    <3>1. /\ StatusOf' = [StatusOf EXCEPT ![o] = row.status]
          /\ PaymentOf' = [PaymentOf EXCEPT ![o] = row.payment]
      BY <2>1, StatusMoves
    <3>2. QED
      BY <2>1, <3>1
  <2>4. Lifecycle!Capture(o)
    BY <2>2, <2>3 DEF Lifecycle!Capture, StatusOf, PaymentOf
  <2>5. QED
    BY <2>4 DEF Lifecycle!Next
<1>3. ASSUME NEW r \in Requests, TransitionCommit(r)
      PROVE  Lifecycle!Next
  <2>1. PICK o \in OrderIds, t \in {req[r].target} : o = req[r].order
    BY <1>3, <1>i DEF TransitionCommit
  <2>2. /\ req[r].seen = rows[o] /\ <<rows[o].status, t>> \in VALID_TRANSITIONS
    BY <1>3, <2>1, <1>i DEF TransitionCommit, Current, Witnessed
  <2>3. PICK row : row = RowAfter(rows[o], rows[o], t) /\ rows' = [rows EXCEPT ![o] = row]
    BY <1>3, <2>1, <2>2 DEF TransitionCommit
  <2>4. rows[o].payment # "refunded"
    BY <2>2, <1>i DEF ColumnsAgree, VALID_TRANSITIONS
  <2>5. /\ row.status = t
        /\ row.payment = IF t = "cancelled" THEN "refunded" ELSE rows[o].payment
    BY <2>3, <2>4 DEF RowAfter
  <2>s. /\ StatusOf' = [StatusOf EXCEPT ![o] = t]
        /\ PaymentOf' = [PaymentOf EXCEPT ![o] = row.payment]
        /\ StatusOf[o] = rows[o].status
    <3>1. /\ StatusOf' = [StatusOf EXCEPT ![o] = row.status]
          /\ PaymentOf' = [PaymentOf EXCEPT ![o] = row.payment]
      BY <2>3, StatusMoves
    <3>2. StatusOf[o] = rows[o].status
      BY DEF StatusOf
    <3>3. QED
      BY <2>5, <3>1, <3>2
  <2>6. CASE t = "cancelled"
    <3>1. PaymentOf' = [PaymentOf EXCEPT ![o] = "refunded"]
      BY <2>s, <2>5, <2>6
    <3>2. Lifecycle!Cancel(o)
      BY <2>2, <2>s, <2>6, <3>1 DEF Lifecycle!Cancel, StatusOf, PaymentOf
    <3>3. QED
      BY <3>2 DEF Lifecycle!Next
  <2>7. CASE t # "cancelled"
    <3>1. PaymentOf' = PaymentOf
      <4>1. PaymentOf[o] = row.payment
        BY <2>5, <2>7 DEF PaymentOf
      <4>2. PaymentOf = [p \in OrderIds |-> PaymentOf[p]]
        BY DEF PaymentOf
      <4>3. QED
        BY <2>s, <4>1, <4>2
    <3>2. Lifecycle!Advance(o, t)
      BY <2>2, <2>s, <2>7, <3>1 DEF Lifecycle!Advance, StatusOf, PaymentOf
    <3>3. t \in {edge[2] : edge \in VALID_TRANSITIONS}
      <4>1. PICK edge \in VALID_TRANSITIONS : edge = <<rows[o].status, t>>
        BY <2>2
      <4>2. QED
        BY <4>1
    <3>4. QED
      BY <3>2, <3>3 DEF Lifecycle!Next
  <2>8. QED
    BY <2>6, <2>7
<1>4. CASE UNCHANGED rows
  BY <1>4 DEF Lifecycle!vars
<1>5. QED
  BY <1>1, <1>2, <1>3, <1>4
  DEF Next, Start, Continue, TransitionRead, TransitionRejected, StatusCacheHit,
      StatusCacheMiss, ReturnRead, CreatePublish, CreateFillCache, TransitionInvalidate,
      TransitionPublish, StatusLoad, StatusFillCache, ReturnCommit, ReturnPublish, Fail,
      Expire, vars

(* With requests one at a time the order service implements the order          *)
(* lifecycle: every commit is one legal step, status and payment together.     *)
THEOREM LifecycleImplemented == ~Overlap /\ Spec => ImplementsLifecycle
<1>1. Init => Lifecycle!Init
  BY DEF Init, NoRow, Lifecycle!Init
<1>2. QED
  BY <1>1, SerialInvHolds, LifecycleStep, PTL DEF Spec, ImplementsLifecycle, Lifecycle!Spec
=============================================================================
