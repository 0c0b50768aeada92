--------------------------- MODULE PeripheryProofs ---------------------------
(***************************************************************************)
(* Proofs about those who live off the services of Periphery, for every    *)
(* set of messages, readers, workers, streams, goods and purchases: the    *)
(* notification log holds the messages in order; a report that was shown   *)
(* is kept and the reports go forward; seeded products are priced and      *)
(* seeded employees assigned; the terminal counts no order twice and runs  *)
(* no stray stream; the simulator's counters are what it did.              *)
(***************************************************************************)
EXTENDS Periphery, Sequences, FiniteSetTheorems, SequenceTheorems, TLAPS

-----------------------------------------------------------------------------
(* Sequences of numbers.                                                       *)

Ordered(s) == \A i, j \in DOMAIN s : i < j => s[i] < s[j]

LEMMA NothingInEmpty == Notices!ToSet(<<>>) = {} /\ Ordered(<<>>) /\ <<>> \in Seq(Nat)
BY DEF Notices!ToSet, Ordered

LEMMA Appended ==
  ASSUME NEW s \in Seq(Nat), NEW x \in Nat
  PROVE  /\ Append(s, x) \in Seq(Nat)
         /\ Notices!ToSet(Append(s, x)) = Notices!ToSet(s) \cup {x}
         /\ Ordered(s) /\ (\A y \in Notices!ToSet(s) : y < x) => Ordered(Append(s, x))
<1> DEFINE t == Append(s, x)
<1>1. /\ t \in Seq(Nat) /\ Len(s) \in Nat /\ Len(t) = Len(s) + 1
      /\ DOMAIN t = 1..Len(s) + 1 /\ DOMAIN s = 1..Len(s)
      /\ \A i \in 1..Len(s) : t[i] = s[i]
      /\ t[Len(s) + 1] = x
      /\ \A i \in 1..Len(s) : s[i] \in Nat
  OBVIOUS
<1> HIDE DEF t
<1>2. Notices!ToSet(t) = Notices!ToSet(s) \cup {x}
  <2>1. \A i \in DOMAIN t : t[i] \in Notices!ToSet(s) \cup {x}
    BY <1>1 DEF Notices!ToSet
  <2>2. \A i \in DOMAIN s : s[i] \in Notices!ToSet(t)
    BY <1>1 DEF Notices!ToSet
  <2>3. x \in Notices!ToSet(t)
    BY <1>1 DEF Notices!ToSet
  <2> QED BY <2>1, <2>2, <2>3 DEF Notices!ToSet
<1>3. ASSUME Ordered(s), \A y \in Notices!ToSet(s) : y < x PROVE Ordered(t)
  <2>1. \A i \in 1..Len(s) : s[i] < x
    BY <1>1, <1>3 DEF Notices!ToSet
  <2> SUFFICES ASSUME NEW i \in 1..Len(s) + 1, NEW j \in 1..Len(s) + 1, i < j
               PROVE  t[i] < t[j]
    BY <1>1 DEF Ordered
  <2>2. i \in 1..Len(s) /\ t[i] = s[i]
    BY <1>1
  <2>3. CASE j = Len(s) + 1
    BY <1>1, <2>1, <2>2, <2>3
  <2>4. CASE j # Len(s) + 1
    <3>0. Len(s) \in Nat
      BY <1>1
    <3>1. j \in 1..Len(s)
      BY <2>4, <3>0
    <3> QED BY <1>1, <1>3, <2>2, <3>1 DEF Ordered
  <2> QED BY <2>3, <2>4
<1> QED BY <1>1, <1>2, <1>3 DEF t

LEMMA HeadTaken ==
  ASSUME NEW s \in Seq(Nat), s # <<>>
  PROVE  /\ Head(s) \in Nat /\ Tail(s) \in Seq(Nat)
         /\ Notices!ToSet(s) = {Head(s)} \cup Notices!ToSet(Tail(s))
         /\ Ordered(s) => Ordered(Tail(s)) /\ \A y \in Notices!ToSet(Tail(s)) : Head(s) < y
<1> DEFINE t == Tail(s)
<1>1. /\ t \in Seq(Nat) /\ Len(s) \in Nat /\ Len(s) > 0 /\ Len(t) = Len(s) - 1
      /\ DOMAIN t = 1..Len(s) - 1 /\ DOMAIN s = 1..Len(s)
      /\ \A i \in 1..Len(s) - 1 : t[i] = s[i + 1]
      /\ Head(s) = s[1] /\ \A i \in 1..Len(s) : s[i] \in Nat
  BY HeadTailProperties, EmptySeq
<1> HIDE DEF t
<1>4. ASSUME NEW i \in DOMAIN t PROVE i + 1 \in DOMAIN s /\ t[i] = s[i + 1] /\ 1 < i + 1 /\ i \in Nat
  <2>1. Len(s) \in Nat /\ i \in 1..Len(s) - 1
    BY <1>1, <1>4
  <2>2. i \in Nat /\ i + 1 \in 1..Len(s) /\ 1 < i + 1
    BY <2>1
  <2> QED BY <1>1, <2>1, <2>2
<1>5. 1 \in DOMAIN s
  BY <1>1
<1>2. Notices!ToSet(s) = {Head(s)} \cup Notices!ToSet(t)
  <2>1. ASSUME NEW i \in DOMAIN s PROVE s[i] \in {Head(s)} \cup Notices!ToSet(t)
    <3>1. CASE i = 1
      BY <1>1, <3>1
    <3>2. CASE i # 1
      <4>1. i - 1 \in DOMAIN t /\ (i - 1) + 1 = i
        BY <1>1, <2>1, <3>2
      <4>2. t[i - 1] = s[i]
        BY <1>4, <4>1
      <4> QED BY <4>1, <4>2 DEF Notices!ToSet
    <3> QED BY <3>1, <3>2
  <2>2. \A i \in DOMAIN t : t[i] \in Notices!ToSet(s)
    BY <1>4 DEF Notices!ToSet
  <2>3. Head(s) \in Notices!ToSet(s)
    BY <1>1 DEF Notices!ToSet
  <2> QED BY <2>1, <2>2, <2>3 DEF Notices!ToSet
<1>3. ASSUME Ordered(s) PROVE Ordered(t) /\ \A y \in Notices!ToSet(t) : Head(s) < y
  <2>1. \A i \in DOMAIN t : s[1] < t[i]
    BY <1>3, <1>4, <1>5 DEF Ordered
  <2>2. \A y \in Notices!ToSet(t) : Head(s) < y
    BY <1>1, <2>1 DEF Notices!ToSet
  <2>3. ASSUME NEW i \in DOMAIN t, NEW j \in DOMAIN t, i < j PROVE t[i] < t[j]
    <3>1. i + 1 < j + 1
      BY <1>4, <2>3
    <3> QED BY <1>3, <1>4, <3>1 DEF Ordered
  <2> QED BY <2>2, <2>3 DEF Ordered
<1> QED BY <1>1, <1>2, <1>3 DEF t

-----------------------------------------------------------------------------
(* The notification log.                                                       *)

LogTypes ==
    /\ sent \in 0..Messages /\ starts \in 0..Restarts /\ message \in 0..sent
    /\ loop \in {"down", "starting", "listening", "logging", "dead"}
    /\ logged \in Seq(Nat) /\ pending \in Seq(Nat) /\ excused \subseteq Nat

(* What is written was published before what is being written, and that before *)
(* what waits in the subscription.                                             *)
LogInOrder ==
    /\ Ordered(logged) /\ Ordered(pending)
    /\ \A x \in Notices!ToSet(logged), y \in Notices!ToSet(pending) : x < y
    /\ message # 0 => /\ \A x \in Notices!ToSet(logged) : x < message
                      /\ \A y \in Notices!ToSet(pending) : message < y

Accounted ==
    1..sent = Notices!ToSet(logged) \cup Notices!ToSet(pending) \cup excused
              \cup ({message} \ {0})

LogInv ==
    /\ LogTypes /\ LogInOrder /\ Accounted
    /\ message # 0 <=> loop = "logging"
    /\ ~Notices!Subscribed => pending = <<>>

LEMMA LogConstants == Messages \in Nat /\ Restarts \in Nat
BY PeripheryAssumption DEF Notices!NotificationAssumption

LEMMA LogNumbers ==
  ASSUME LogTypes
  PROVE  /\ sent \in Nat /\ sent <= Messages /\ message \in Nat /\ message <= sent
         /\ 1..sent \subseteq Nat
BY LogConstants DEF LogTypes

LEMMA LogFacts ==
  ASSUME LogInv
  PROVE  Notices!TypeOK /\ Notices!LogFollowsMessages
BY DEF LogInv, LogTypes, LogInOrder, Accounted, Ordered, Notices!TypeOK,
       Notices!LogFollowsMessages

LEMMA LogBegins == Notices!Init => LogInv
<1> SUFFICES ASSUME Notices!Init PROVE LogInv
  OBVIOUS
<1>1. LogTypes
  BY LogConstants, NothingInEmpty DEF Notices!Init, LogTypes
<1>2. LogInOrder
  BY NothingInEmpty DEF Notices!Init, LogInOrder
<1>3. Accounted
  <2>1. 1..0 = {}
    OBVIOUS
  <2> QED BY <2>1, NothingInEmpty DEF Notices!Init, Accounted
<1> QED BY <1>1, <1>2, <1>3 DEF LogInv, Notices!Init, Notices!Subscribed

LEMMA LogPublish ==
  ASSUME LogInv, Notices!Publish
  PROVE  LogInv'
<1> DEFINE n == sent + 1
<1>1. /\ sent \in Nat /\ n \in Nat /\ sent' = n /\ n \in 0..Messages
      /\ 1..n = (1..sent) \cup {n} /\ \A x \in 1..sent : x < n
      /\ message' = message /\ logged' = logged /\ starts' = starts /\ loop' = loop
      /\ message \in 0..n
  <2>1. /\ sent < Messages /\ sent' = n
        /\ message' = message /\ logged' = logged /\ starts' = starts /\ loop' = loop
    BY DEF Notices!Publish
  <2>2. sent \in Nat /\ message \in Nat /\ message <= sent
    BY LogNumbers DEF LogInv
  <2> QED BY <2>1, <2>2, LogConstants
<1>2. /\ \A x \in Notices!ToSet(logged) \cup Notices!ToSet(pending) : x < n
      /\ message # 0 => message < n
  BY <1>1 DEF LogInv, Accounted
<1> HIDE DEF n
<1>3. CASE Notices!Subscribed
  <2>1. pending' = Append(pending, n) /\ excused' = excused
    BY <1>3 DEF Notices!Publish, n
  <2>2. /\ pending' \in Seq(Nat) /\ Ordered(pending')
        /\ Notices!ToSet(pending') = Notices!ToSet(pending) \cup {n}
    BY <1>1, <1>2, <2>1, Appended DEF LogInv, LogTypes, LogInOrder
  <2>3. LogTypes'
    BY <1>1, <2>1, <2>2 DEF LogInv, LogTypes
  <2>4. LogInOrder'
    <3>1. Notices!ToSet(pending)' = Notices!ToSet(pending) \cup {n}
      BY <2>2 DEF Notices!ToSet
    <3>2. Notices!ToSet(logged)' = Notices!ToSet(logged)
      BY <1>1 DEF Notices!ToSet
    <3>3. Ordered(logged)' /\ Ordered(pending)'
      BY <1>1, <2>2 DEF LogInv, LogInOrder, Ordered
    <3> QED BY <1>1, <1>2, <3>1, <3>2, <3>3 DEF LogInv, LogInOrder
  <2>5. Accounted'
    BY <1>1, <2>1, <2>2 DEF LogInv, Accounted, Notices!ToSet
  <2> QED BY <1>1, <1>3, <2>3, <2>4, <2>5 DEF LogInv, Notices!Subscribed
<1>4. CASE ~Notices!Subscribed
  <2>1. pending' = pending /\ excused' = excused \cup {n}
    BY <1>4 DEF Notices!Publish, n
  <2>2. LogTypes'
    BY <1>1, <2>1 DEF LogInv, LogTypes
  <2>3. LogInOrder'
    BY <1>1, <2>1 DEF LogInv, LogInOrder, Ordered, Notices!ToSet
  <2>4. Accounted'
    BY <1>1, <2>1 DEF LogInv, Accounted, Notices!ToSet
  <2> QED BY <1>1, <1>4, <2>1, <2>2, <2>3, <2>4 DEF LogInv, Notices!Subscribed
<1> QED BY <1>3, <1>4

LEMMA LogTake ==
  ASSUME LogInv, Notices!Take
  PROVE  LogInv'
<1>1. /\ pending \in Seq(Nat) /\ pending # <<>> /\ loop' = "logging" /\ loop = "listening"
      /\ message = 0 /\ message' = Head(pending) /\ pending' = Tail(pending)
      /\ logged' = logged /\ sent' = sent /\ starts' = starts /\ excused' = excused
  BY DEF LogInv, LogTypes, Notices!Take
<1>2. /\ message' \in Nat /\ pending' \in Seq(Nat) /\ Ordered(pending')
      /\ Notices!ToSet(pending) = {message'} \cup Notices!ToSet(pending')
      /\ \A y \in Notices!ToSet(pending') : message' < y
  BY <1>1, HeadTaken DEF LogInv, LogInOrder
<1>3. /\ Notices!ToSet(pending)' = Notices!ToSet(pending')
      /\ Notices!ToSet(logged)' = Notices!ToSet(logged)
      /\ Ordered(logged)' = Ordered(logged) /\ Ordered(pending)' = Ordered(pending')
  BY <1>1 DEF Notices!ToSet, Ordered
<1>4. message' \in 1..sent
  BY <1>2 DEF LogInv, Accounted
<1>5. LogTypes'
  BY <1>1, <1>2, <1>4 DEF LogInv, LogTypes
<1>6. LogInOrder'
  BY <1>1, <1>2, <1>3 DEF LogInv, LogInOrder
<1>7. Accounted'
  BY <1>1, <1>2, <1>3, <1>4 DEF LogInv, Accounted
<1>8. message' # 0
  BY <1>4
<1> QED BY <1>1, <1>5, <1>6, <1>7, <1>8 DEF LogInv, Notices!Subscribed

(* The log with the message that was being written, if there was one.          *)
LEMMA LogWritten ==
  ASSUME LogInv, message # 0
  PROVE  /\ Append(logged, message) \in Seq(Nat) /\ Ordered(Append(logged, message))
         /\ Notices!ToSet(Append(logged, message)) = Notices!ToSet(logged) \cup {message}
         /\ \A x \in Notices!ToSet(logged) \cup {message}, y \in Notices!ToSet(pending) : x < y
<1>1. logged \in Seq(Nat) /\ message \in Nat
  BY LogConstants DEF LogInv, LogTypes
<1> QED BY <1>1, Appended DEF LogInv, LogInOrder

LEMMA LogLog ==
  ASSUME LogInv, Notices!Log \/ Notices!LogFails
  PROVE  LogInv'
<1>1. /\ loop = "logging" /\ message # 0 /\ message' = 0 /\ loop' = "listening"
      /\ pending' = pending /\ sent' = sent /\ starts' = starts
      /\ \/ logged' = Append(logged, message) /\ excused' = excused
         \/ logged' \in {logged, Append(logged, message)} /\ excused' = excused \cup {message}
  <2>1. CASE Notices!Log
    BY <2>1 DEF LogInv, Notices!Log
  <2>2. CASE Notices!LogFails
    BY <2>2 DEF LogInv, Notices!LogFails
  <2> QED BY <2>1, <2>2
<1>2. /\ logged' \in Seq(Nat) /\ Ordered(logged')
      /\ \A x \in Notices!ToSet(logged'), y \in Notices!ToSet(pending) : x < y
      /\ Notices!ToSet(logged') \cup excused' = Notices!ToSet(logged) \cup excused \cup {message}
      /\ excused' \subseteq Nat
  BY <1>1, LogWritten, LogNumbers DEF LogInv, LogInOrder, LogTypes
<1>3. /\ Notices!ToSet(pending)' = Notices!ToSet(pending)
      /\ Notices!ToSet(logged)' = Notices!ToSet(logged')
      /\ Ordered(logged)' = Ordered(logged') /\ Ordered(pending)' = Ordered(pending)
  BY <1>1 DEF Notices!ToSet, Ordered
<1>5. LogTypes'
  BY <1>1, <1>2, LogConstants DEF LogInv, LogTypes
<1>6. LogInOrder'
  BY <1>1, <1>2, <1>3 DEF LogInv, LogInOrder
<1>7. Accounted'
  BY <1>1, <1>2, <1>3 DEF LogInv, Accounted
<1> QED BY <1>1, <1>5, <1>6, <1>7 DEF LogInv, Notices!Subscribed

LEMMA LogCutOff ==
  ASSUME LogInv, Notices!Disconnected \/ Notices!Stop
  PROVE  LogInv'
<1>1. /\ message' = 0 /\ loop' \in {"dead", "down"} /\ pending' = <<>>
      /\ sent' = sent /\ starts' = starts
      /\ excused' = excused \cup Notices!ToSet(pending) \cup ({message} \ {0})
      /\ logged' = logged \/ (message # 0 /\ logged' = Append(logged, message))
  <2>1. CASE Notices!Disconnected
    BY <2>1 DEF Notices!Disconnected, Notices!CutOff
  <2>2. CASE Notices!Stop
    BY <2>2 DEF Notices!Stop, Notices!CutOff
  <2> QED BY <2>1, <2>2
<1>2. /\ logged' \in Seq(Nat) /\ Ordered(logged')
      /\ Notices!ToSet(logged') \subseteq Notices!ToSet(logged) \cup ({message} \ {0})
      /\ Notices!ToSet(logged) \subseteq Notices!ToSet(logged')
  BY <1>1, LogWritten DEF LogInv, LogInOrder, LogTypes
<1>3. /\ Notices!ToSet(pending)' = {} /\ Ordered(pending)' /\ pending' \in Seq(Nat)
      /\ Notices!ToSet(logged)' = Notices!ToSet(logged')
      /\ Ordered(logged)' = Ordered(logged')
  BY <1>1, NothingInEmpty DEF Notices!ToSet, Ordered
<1>4. excused' \subseteq Nat
  <2>1. Notices!ToSet(pending) \cup ({message} \ {0}) \subseteq 1..sent
    BY DEF LogInv, Accounted
  <2> QED BY <1>1, <2>1, LogNumbers DEF LogInv, LogTypes
<1>5. LogTypes'
  BY <1>1, <1>2, <1>3, <1>4, LogConstants DEF LogInv, LogTypes
<1>6. LogInOrder'
  BY <1>1, <1>2, <1>3 DEF LogInOrder
<1>7. Accounted'
  BY <1>1, <1>2, <1>3 DEF LogInv, Accounted
<1> QED BY <1>1, <1>5, <1>6, <1>7 DEF LogInv

LEMMA LogStep ==
  ASSUME LogInv, [Notices!Next]_noticesVars
  PROVE  LogInv'
<1>1. CASE Notices!Start \/ Notices!Subscribe \/ UNCHANGED noticesVars
  <2>1. /\ sent' = sent /\ message' = message /\ logged' = logged /\ pending' = pending
        /\ excused' = excused
    BY <1>1 DEF Notices!Start, Notices!Subscribe, noticesVars
  <2>2. /\ LogTypes' /\ (message # 0 <=> loop = "logging")'
        /\ (~Notices!Subscribed => pending = <<>>)'
    BY <1>1, <2>1, LogConstants
    DEF LogInv, LogTypes, Notices!Start, Notices!Subscribe, noticesVars, Notices!Subscribed
  <2>3. LogInOrder' /\ Accounted'
    BY <2>1 DEF LogInv, LogInOrder, Accounted, Ordered, Notices!ToSet
  <2> QED BY <2>2, <2>3 DEF LogInv
<1> QED BY <1>1, LogPublish, LogTake, LogLog, LogCutOff DEF Notices!Next

(* Through restarts, failures, a connection that breaks and a shutdown in the   *)
(* middle of an insert, the collection holds messages in the order in which     *)
(* they were published, and none is missing without a reason                     *)
(* (redis_subscriber_loop).                                                      *)
THEOREM LogIsInOrder == PeripherySpec => []LogFollowsMessages
<1>1. PeripheryInit => LogInv
  BY LogBegins DEF PeripheryInit
<1>2. LogInv /\ [PeripheryNext]_peripheryVars => LogInv'
  <2>1. [PeripheryNext]_peripheryVars => [Notices!Next]_noticesVars
    BY DEF PeripheryNext, Others, peripheryVars, noticesVars
  <2> QED BY <2>1, LogStep
<1>3. LogInv => LogFollowsMessages
  BY LogFacts DEF LogFollowsMessages
<1> QED BY <1>1, <1>2, <1>3, PTL DEF PeripherySpec

-----------------------------------------------------------------------------
(* The terminal's order rate.                                                  *)

Worker == [stage : {"new", "pinging", "fetching", "posting", "done"}, count : 0..Page,
           at : 0..Arrivals, answered : BOOLEAN]

BoardTypes ==
    /\ arrived \in 0..Arrivals /\ truth \in 0..Arrivals
    /\ counted \in 0..Page /\ rise \in 0..Page /\ newer \in Int /\ muddled \in BOOLEAN
    /\ worker \in [Workers -> Worker]

(* What the first page holds of n orders.                                      *)
FirstPage(n) == Board!Min({n, Page})

(* A snapshot that was answered holds the first page of the orders there were. *)
BoardInv ==
    /\ BoardTypes
    /\ \A w \in Workers : worker[w].answered => worker[w].count = FirstPage(worker[w].at)
    /\ ~muddled => counted = FirstPage(truth) /\ rise <= newer

LEMMA BoardConstants == Arrivals \in Nat /\ Page \in Nat
BY PeripheryAssumption DEF Board!DashboardAssumption

LEMMA SmallerOfTwo ==
  ASSUME NEW a \in Int, NEW b \in Int
  PROVE  Board!Min({a, b}) = (IF a <= b THEN a ELSE b)
<1> DEFINE m == IF a <= b THEN a ELSE b
<1>1. m \in {a, b} /\ \A y \in {a, b} : m <= y
  OBVIOUS
<1>2. \A x \in {a, b} : (\A y \in {a, b} : x <= y) => x = m
  OBVIOUS
<1> HIDE DEF m
<1>3. Board!Min({a, b}) = m
  BY <1>1, <1>2 DEF Board!Min
<1> QED BY <1>3 DEF m

LEMMA LargerOfTwo ==
  ASSUME NEW a \in Int, NEW b \in Int
  PROVE  Board!Max({a, b}) = (IF a <= b THEN b ELSE a)
<1> DEFINE m == IF a <= b THEN b ELSE a
<1>1. m \in {a, b} /\ \A y \in {a, b} : m >= y
  OBVIOUS
<1>2. \A x \in {a, b} : (\A y \in {a, b} : x >= y) => x = m
  OBVIOUS
<1> HIDE DEF m
<1>3. Board!Max({a, b}) = m
  BY <1>1, <1>2 DEF Board!Max
<1> QED BY <1>3 DEF m

(* More orders make the first page no longer than by as many.                  *)
LEMMA PageGrowsSlowly ==
  ASSUME NEW n \in Nat, NEW m \in Nat
  PROVE  /\ FirstPage(n) \in 0..Page
         /\ m <= n => Board!Max({FirstPage(n) - FirstPage(m), 0}) <= n - m
<1>1. /\ FirstPage(n) = IF n <= Page THEN n ELSE Page
      /\ FirstPage(m) = IF m <= Page THEN m ELSE Page
  BY SmallerOfTwo, BoardConstants DEF FirstPage
<1>2. FirstPage(n) - FirstPage(m) \in Int
  BY <1>1, BoardConstants
<1>3. Board!Max({FirstPage(n) - FirstPage(m), 0})
        = IF FirstPage(n) - FirstPage(m) <= 0 THEN 0 ELSE FirstPage(n) - FirstPage(m)
  BY <1>2, LargerOfTwo
<1> QED BY <1>1, <1>3, BoardConstants

LEMMA BoardFacts ==
  ASSUME BoardInv
  PROVE  Board!TypeOK /\ Board!NoOrderCountedTwice
BY DEF BoardInv, BoardTypes, Worker, Board!TypeOK, Board!NoOrderCountedTwice

LEMMA BoardBegins == Board!Init => BoardInv
<1> SUFFICES ASSUME Board!Init PROVE BoardInv
  OBVIOUS
<1>1. BoardTypes
  <2>1. 0 \in 0..Arrivals /\ 0 \in 0..Page
    BY BoardConstants
  <2> DEFINE fresh == [stage |-> "new", count |-> 0, at |-> 0, answered |-> FALSE]
  <2>2. fresh \in Worker
    BY <2>1 DEF Worker
  <2>3. worker = [w \in Workers |-> fresh]
    BY DEF Board!Init
  <2> HIDE DEF fresh
  <2>4. worker \in [Workers -> Worker]
    BY <2>2, <2>3
  <2>5. arrived = 0 /\ counted = 0 /\ rise = 0 /\ truth = 0 /\ newer = 0 /\ muddled = FALSE
    BY DEF Board!Init
  <2>6. muddled \in BOOLEAN
    BY <2>5, Zenon
  <2>8. newer \in Int
    BY <2>5
  <2>7. arrived \in 0..Arrivals /\ truth \in 0..Arrivals /\ counted \in 0..Page /\ rise \in 0..Page
    BY <2>1, <2>5
  <2> QED BY <2>4, <2>6, <2>7, <2>8 DEF BoardTypes
<1>2. FirstPage(0) = 0
  BY SmallerOfTwo, BoardConstants DEF FirstPage
<1> QED BY <1>1, <1>2 DEF Board!Init, BoardInv

LEMMA BoardFetch ==
  ASSUME BoardInv, NEW w \in Workers, Board!Fetch(w)
  PROVE  BoardInv'
<1>1. PICK ok \in BOOLEAN :
          worker' = [worker EXCEPT ![w] =
              [stage |-> "posting", at |-> arrived, answered |-> ok,
               count |-> IF ok THEN FirstPage(arrived) ELSE 0]]
  BY DEF Board!Fetch, FirstPage
<1>2. /\ arrived' = arrived /\ counted' = counted /\ rise' = rise /\ newer' = newer
      /\ truth' = truth /\ muddled' = muddled
  BY DEF Board!Fetch
<1>3. arrived \in 0..Arrivals /\ arrived \in Nat /\ FirstPage(arrived) \in 0..Page
  <2>1. arrived \in 0..Arrivals /\ arrived \in Nat
    BY BoardConstants DEF BoardInv, BoardTypes
  <2> QED BY <2>1, PageGrowsSlowly
<1> DEFINE snapshot == [stage |-> "posting", at |-> arrived, answered |-> ok,
                        count |-> IF ok THEN FirstPage(arrived) ELSE 0]
<1>4. snapshot \in Worker /\ (snapshot.answered => snapshot.count = FirstPage(snapshot.at))
  BY <1>3, BoardConstants DEF Worker
<1> HIDE DEF snapshot
<1>5. worker' = [worker EXCEPT ![w] = snapshot]
  BY <1>1 DEF snapshot
<1> QED BY <1>2, <1>4, <1>5 DEF BoardInv, BoardTypes, FirstPage

LEMMA BoardPost ==
  ASSUME BoardInv, NEW w \in Workers, Board!Post(w)
  PROVE  BoardInv'
<1> DEFINE count == worker[w].count
           at == worker[w].at
<1>1. /\ count \in 0..Page /\ at \in 0..Arrivals /\ at \in Nat /\ truth \in Nat
      /\ worker[w] \in Worker
  BY BoardConstants DEF BoardInv, BoardTypes, Worker
<1>2. worker' \in [Workers -> Worker]
      /\ \A v \in Workers : /\ worker'[v].answered = worker[v].answered
                            /\ worker'[v].count = worker[v].count
                            /\ worker'[v].at = worker[v].at
  BY <1>1 DEF BoardInv, BoardTypes, Worker, Board!Post
<1>3. CASE UNCHANGED <<counted, rise, newer, truth, muddled>>
  BY <1>2, <1>3 DEF BoardInv, BoardTypes, FirstPage, Board!Post
<1>4. CASE /\ rise' = Board!Rise(count) /\ counted' = count
           /\ newer' = at - truth /\ truth' = at
           /\ muddled' = (muddled \/ ~worker[w].answered \/ at < truth)
  <2>1. rise' = Board!Max({count - counted, 0}) /\ count - counted \in Int
        /\ counted \in 0..Page
    BY <1>1, <1>4, BoardConstants DEF Board!Rise, BoardInv, BoardTypes
  <2>2. rise' \in 0..Page
    <3>1. rise' = IF count - counted <= 0 THEN 0 ELSE count - counted
      BY <2>1, LargerOfTwo
    <3> QED BY <1>1, <2>1, <3>1, BoardConstants
  <2>3. ASSUME ~muddled' PROVE counted' = FirstPage(truth') /\ rise' <= newer'
    <3>0. ~muddled /\ worker[w].answered /\ ~(at < truth)
      BY <1>4, <2>3, Zenon
    <3>1. /\ counted = FirstPage(truth) /\ count = FirstPage(at) /\ truth <= at
      BY <1>1, <3>0 DEF BoardInv
    <3>2. Board!Max({FirstPage(at) - FirstPage(truth), 0}) <= at - truth
      BY <1>1, <3>1, PageGrowsSlowly
    <3> QED BY <1>4, <2>1, <3>1, <3>2
  <2>4. newer' \in Int /\ muddled' \in BOOLEAN /\ counted' \in 0..Page /\ truth' \in 0..Arrivals
        /\ arrived' = arrived
    BY <1>1, <1>4 DEF Board!Post
  <2>5. BoardTypes'
    BY <1>2, <2>2, <2>4 DEF BoardInv, BoardTypes
  <2>6. \A v \in Workers : worker'[v].answered => worker'[v].count = FirstPage(worker'[v].at)
    BY <1>2 DEF BoardInv
  <2> QED BY <2>3, <2>5, <2>6 DEF BoardInv, FirstPage
<1> QED BY <1>3, <1>4 DEF Board!Post

LEMMA BoardStep ==
  ASSUME BoardInv, [Board!Next]_boardVars
  PROVE  BoardInv'
<1>1. CASE Board!Arrive
  <2>1. arrived' \in 0..Arrivals
    BY <1>1, BoardConstants DEF BoardInv, BoardTypes, Board!Arrive
  <2> QED BY <1>1, <2>1 DEF BoardInv, BoardTypes, FirstPage, Board!Arrive
<1>2. ASSUME NEW w \in Workers, Board!Refresh(w) \/ Board!Ping(w) PROVE BoardInv'
  <2>1. PICK stage \in {"pinging", "fetching", "posting"} :
            worker' = [worker EXCEPT ![w].stage = stage]
    BY <1>2 DEF Board!Refresh, Board!Ping
  <2>2. worker' \in [Workers -> Worker]
        /\ \A v \in Workers : /\ worker'[v].answered = worker[v].answered
                              /\ worker'[v].count = worker[v].count
                              /\ worker'[v].at = worker[v].at
    BY <2>1 DEF BoardInv, BoardTypes, Worker
  <2>3. UNCHANGED <<arrived, counted, rise, truth, newer, muddled>>
    BY <1>2 DEF Board!Refresh, Board!Ping
  <2> QED BY <2>2, <2>3 DEF BoardInv, BoardTypes, FirstPage
<1>3. CASE UNCHANGED boardVars
  BY <1>3 DEF boardVars, BoardInv, BoardTypes, FirstPage
<1> QED BY <1>1, <1>2, <1>3, BoardFetch, BoardPost DEF Board!Next

-----------------------------------------------------------------------------
(* The terminal's log view.                                                    *)

Unread(s) == thread[s].stage \in {"started", "opened"}

LogViewTypes ==
    /\ selected \in Streams \cup {None} /\ process \in Streams \cup {None}
    /\ alive \subseteq Streams
    /\ stopping \in BOOLEAN /\ stop \in BOOLEAN /\ hasty \in BOOLEAN
    /\ thread \in [Streams -> [stage : LogView!Stage, of : Streams \cup {None}]]

(* Unless selections were hasty, only the selected stream may still open its    *)
(* process, the attribute refers to that process or to none, and what runs is   *)
(* what the attribute refers to; so stop() leaves nothing behind.               *)
LogViewInv ==
    /\ LogViewTypes
    /\ ~hasty /\ ~stopping => /\ \A s \in Streams : Unread(s) => s = selected
                              /\ alive \subseteq {selected} /\ alive \subseteq {process}
    /\ ~hasty /\ stopping => /\ \A s \in Streams : ~Unread(s)
                             /\ alive = {}

LEMMA LogViewFacts ==
  ASSUME LogViewInv
  PROVE  LogView!TypeOK /\ LogView!NoStrayStreams
BY DEF LogViewInv, LogViewTypes, LogView!TypeOK, LogView!NoStrayStreams

LEMMA LogViewBegins == LogView!Init => LogViewInv
<1> SUFFICES ASSUME LogView!Init PROVE LogViewInv
  OBVIOUS
<1>1. [stage |-> "new", of |-> None] \in [stage : LogView!Stage, of : Streams \cup {None}]
  BY DEF LogView!Stage
<1>2. LogViewTypes
  BY <1>1 DEF LogView!Init, LogViewTypes
<1> QED BY <1>2 DEF LogView!Init, LogViewInv, Unread

LEMMA LogViewInterface ==
  ASSUME LogViewInv, LogView!Stop \/ \E s \in Streams : LogView!Start(s)
  PROVE  LogViewInv'
<1>1. CASE LogView!Stop
  BY <1>1 DEF LogView!Stop, LogView!Unread, LogViewInv, LogViewTypes, Unread
<1>2. ASSUME NEW s \in Streams, LogView!Start(s) PROVE LogViewInv'
  <2>1. \A q \in Streams : thread'[q] = IF q = s THEN [thread[s] EXCEPT !.stage = "started"]
                                        ELSE thread[q]
    BY <1>2 DEF LogView!Start, LogView!Move, LogViewInv, LogViewTypes
  <2>4. thread' \in [Streams -> [stage : LogView!Stage, of : Streams \cup {None}]]
    BY <1>2 DEF LogView!Start, LogView!Move, LogViewInv, LogViewTypes, LogView!Stage
  <2>2. LogViewTypes'
    BY <1>2, <2>4 DEF LogView!Start, LogViewInv, LogViewTypes
  <2>3. \A q \in Streams : q # s => Unread(q)' = Unread(q)
    BY <2>1 DEF Unread
  <2> QED BY <1>2, <2>2, <2>3 DEF LogView!Start, LogViewInv
<1> QED BY <1>1, <1>2

(* What one thread does.                                                       *)
LEMMA LogViewThread ==
  ASSUME LogViewInv, NEW s \in Streams,
         \/ LogView!Open(s) \/ LogView!OpenFails(s) \/ LogView!Attach(s) \/ LogView!Read(s)
         \/ LogView!Show(s) \/ LogView!EndOfFile(s) \/ LogView!LeaveThread(s)
  PROVE  LogViewInv'
<1>1. /\ selected' = selected /\ stopping' = stopping /\ stop' = stop /\ hasty' = hasty
      /\ \E stage \in LogView!Stage, of \in Streams \cup {None} :
             /\ thread' = [thread EXCEPT ![s] = [stage |-> stage, of |-> of]]
             /\ stage = "opened" => thread[s].stage = "started"
             /\ stage # "started"
  <2>1. thread[s] \in [stage : LogView!Stage, of : Streams \cup {None}]
        /\ process \in Streams \cup {None}
    BY DEF LogViewInv, LogViewTypes
  <2>2. ASSUME NEW stage \in LogView!Stage, LogView!Move(s, stage)
        PROVE  thread' = [thread EXCEPT ![s] = [stage |-> stage, of |-> thread[s].of]]
               /\ thread[s].of \in Streams \cup {None}
    <3>1. [thread[s] EXCEPT !.stage = stage] = [stage |-> stage, of |-> thread[s].of]
      BY <2>1
    <3>2. thread' = [thread EXCEPT ![s] = [thread[s] EXCEPT !.stage = stage]]
      BY <2>2 DEF LogView!Move
    <3> QED BY <2>1, <3>1, <3>2
  <2>3. {"opened", "over", "reading", "leaving", "showing"} \subseteq LogView!Stage
    BY DEF LogView!Stage
  <2>4. /\ selected' = selected /\ stopping' = stopping /\ stop' = stop /\ hasty' = hasty
    BY DEF LogView!Open, LogView!OpenFails, LogView!Attach, LogView!Read, LogView!Show,
           LogView!EndOfFile, LogView!LeaveThread
  <2>5. CASE LogView!Open(s)
    BY <2>2, <2>3, <2>4, <2>5 DEF LogView!Open
  <2>6. CASE LogView!Attach(s)
    BY <2>1, <2>3, <2>4, <2>6 DEF LogView!Attach
  <2>7. CASE \/ LogView!OpenFails(s) \/ LogView!Read(s) \/ LogView!Show(s)
             \/ LogView!EndOfFile(s) \/ LogView!LeaveThread(s)
    <3>1. PICK stage \in {"over", "reading", "leaving", "showing"} : LogView!Move(s, stage)
      BY <2>7 DEF LogView!OpenFails, LogView!Read, LogView!Show, LogView!EndOfFile, LogView!LeaveThread
    <3> QED BY <2>2, <2>3, <2>4, <3>1
  <2> QED BY <2>5, <2>6, <2>7
<1>2. \A q \in Streams : Unread(q)' => Unread(q)
  BY <1>1 DEF Unread, LogViewInv, LogViewTypes
<1>3. thread' \in [Streams -> [stage : LogView!Stage, of : Streams \cup {None}]]
  BY <1>1 DEF LogViewInv, LogViewTypes
<1>4. CASE LogView!Open(s)
  <2>1. Unread(s) /\ alive' = alive \cup {s} /\ process' = s
    BY <1>4 DEF Unread, LogView!Open
  <2> QED BY <1>1, <1>2, <1>3, <2>1 DEF LogViewInv, LogViewTypes
<1>5. CASE alive' \in {alive, alive \ {process}} /\ process' = process
  BY <1>1, <1>2, <1>3, <1>5 DEF LogViewInv, LogViewTypes
<1> QED BY <1>4, <1>5 DEF LogView!OpenFails, LogView!Attach, LogView!Read, LogView!Show,
     LogView!EndOfFile, LogView!LeaveThread

LEMMA LogViewStep ==
  ASSUME LogViewInv, [LogView!Next]_logViewVars
  PROVE  LogViewInv'
<1>1. CASE UNCHANGED logViewVars
  BY <1>1 DEF logViewVars, LogViewInv, LogViewTypes, Unread
<1> QED BY <1>1, LogViewInterface, LogViewThread DEF LogView!Next

(* The terminal: the order rate counts no order twice until a snapshot lacks    *)
(* its orders or comes out of order (_update_rate), and no log process outlives *)
(* its selection unless services are selected faster than their threads begin   *)
(* to read (DockerLogTailer.stop and _run).                                      *)
THEOREM TerminalStaysSound == PeripherySpec => []TerminalIsSound
<1>1. PeripheryInit => BoardInv /\ LogViewInv
  BY BoardBegins, LogViewBegins DEF PeripheryInit
<1>2. BoardInv /\ LogViewInv /\ [PeripheryNext]_peripheryVars => BoardInv' /\ LogViewInv'
  <2>1. [PeripheryNext]_peripheryVars => [Board!Next]_boardVars /\ [LogView!Next]_logViewVars
    BY DEF PeripheryNext, Others, peripheryVars, boardVars, logViewVars
  <2> QED BY <2>1, BoardStep, LogViewStep
<1>3. BoardInv /\ LogViewInv => TerminalIsSound
  BY BoardFacts, LogViewFacts DEF TerminalIsSound
<1> QED BY <1>1, <1>2, <1>3, PTL DEF PeripherySpec

-----------------------------------------------------------------------------
(* The reports.                                                                *)

ReaderStage == {"new", "missed", "fetched", "cached", "done", "failed"}

ReportTypes ==
    /\ total \in 1..Total /\ report \in 0..total /\ snapshots \subseteq 1..total
    /\ overtaken \in BOOLEAN /\ unsaved \in BOOLEAN
    /\ reader \in [Readers -> [stage : ReaderStage, number : 0..total]]

(* Whoever is past the owner holds one of its numbers.                         *)
Informed ==
    \A r \in Readers : reader[r].stage \in {"fetched", "cached", "done"} => reader[r].number # 0

About(n) == \E q \in Readers : reader[q].stage = "cached" /\ reader[q].number = n

Kept(n) == n \in snapshots \/ About(n)

(* A report that may be shown is kept; so what was shown is.                   *)
ReportKept ==
    ~unsaved => /\ report # 0 => Kept(report)
                /\ \A r \in Readers : reader[r].stage = "done" => Kept(reader[r].number)

NotOlder(n) ==
    /\ \A m \in snapshots : m <= n
    /\ \A q \in Readers : reader[q].stage = "cached" => reader[q].number <= n

(* Unless one handler overtook another, one fetches at a time, and neither what *)
(* it holds nor what is cached is older than what was saved or is about to be.  *)
Forward ==
    ~overtaken =>
        /\ \A q, r \in Reports!Fetching : q = r
        /\ \A r \in Readers : reader[r].stage = "fetched" => NotOlder(reader[r].number)
        /\ report # 0 => NotOlder(report)

ReportsInv == ReportTypes /\ Informed /\ ReportKept /\ Forward

LEMMA ReportsFacts ==
  ASSUME ReportsInv
  PROVE  Reports!TypeOK /\ Reports!ShownIsKept
<1>1. 1..total \subseteq 1..Total /\ 0..total \subseteq 0..Total /\ total \in 0..Total
  BY PeripheryAssumption DEF Reports!ReportingAssumption, ReportsInv, ReportTypes
<1>2. Reports!TypeOK
  BY <1>1 DEF ReportsInv, ReportTypes, ReaderStage, Reports!TypeOK
<1>3. Reports!ShownIsKept
  BY DEF ReportsInv, ReportKept, Kept, About, Reports!ShownIsKept
<1> QED BY <1>2, <1>3

LEMMA ReportsBegin == Reports!Init => ReportsInv
<1> SUFFICES ASSUME Reports!Init PROVE ReportsInv
  OBVIOUS
<1>1. Total \in Nat \ {0}
  BY PeripheryAssumption DEF Reports!ReportingAssumption
<1> DEFINE fresh == [stage |-> "new", number |-> 0]
<1>2. fresh \in [stage : ReaderStage, number : 0..1] /\ fresh.stage = "new"
  BY DEF ReaderStage
<1>3. reader = [r \in Readers |-> fresh] /\ total = 1 /\ report = 0 /\ snapshots = {}
      /\ overtaken = FALSE /\ unsaved = FALSE
  BY DEF Reports!Init
<1> HIDE DEF fresh
<1>4. reader \in [Readers -> [stage : ReaderStage, number : 0..1]]
      /\ \A r \in Readers : reader[r].stage = "new"
  BY <1>2, <1>3
<1>5. 1 \in 1..Total /\ 0 \in 0..1
  BY <1>1
<1>6. ReportTypes
  BY <1>3, <1>4, <1>5 DEF ReportTypes
<1>7. Informed
  BY <1>4 DEF Informed
<1>8. ReportKept
  BY <1>3, <1>4 DEF ReportKept
<1>9. Forward
  BY <1>3, <1>4 DEF Forward, Reports!Fetching
<1> QED BY <1>6, <1>7, <1>8, <1>9 DEF ReportsInv

(* What moving one handler on leaves of the others.                            *)
LEMMA ReaderMoved ==
  ASSUME ReportTypes, NEW r \in Readers, NEW stage \in ReaderStage, NEW number \in 0..total,
         Reports!Move(r, stage, number)
  PROVE  /\ reader' \in [Readers -> [stage : ReaderStage, number : 0..total]]
         /\ reader'[r].stage = stage /\ reader'[r].number = number
         /\ \A q \in Readers : q # r => reader'[q] = reader[q]
BY DEF ReportTypes, Reports!Move

LEMMA ReportsAround ==
  ASSUME ReportsInv, Reports!Grow \/ Reports!Expires \/ UNCHANGED reportsVars
  PROVE  ReportsInv'
<1>1. /\ total' \in {total, total + 1} /\ total' \in 1..Total /\ report' \in {0, report}
      /\ snapshots' = snapshots /\ reader' = reader
      /\ overtaken' = overtaken /\ unsaved' = unsaved
  BY PeripheryAssumption
  DEF Reports!ReportingAssumption, ReportsInv, ReportTypes, Reports!Grow, Reports!Expires, reportsVars
<1>2. /\ 1..total \subseteq 1..total' /\ 0..total \subseteq 0..total' /\ 0 \in 0..total
  BY <1>1 DEF ReportsInv, ReportTypes
<1>3. ReportTypes'
  <2>1. reader' \in [Readers -> [stage : ReaderStage, number : 0..total']]
    BY <1>1, <1>2 DEF ReportsInv, ReportTypes
  <2> QED BY <1>1, <1>2, <2>1 DEF ReportsInv, ReportTypes
<1>4. Informed' /\ ReportKept' /\ Forward'
  BY <1>1 DEF ReportsInv, Informed, ReportKept, Kept, About, Forward, NotOlder, Reports!Fetching
<1> QED BY <1>3, <1>4 DEF ReportsInv

LEMMA ReportsLook ==
  ASSUME ReportsInv, NEW r \in Readers, Reports!Look(r)
  PROVE  ReportsInv'
<1>1. /\ reader[r].stage = "new" /\ total' = total /\ report' = report
      /\ snapshots' = snapshots /\ unsaved' = unsaved
      /\ \/ report # 0 /\ Reports!Move(r, "done", report) /\ overtaken' = overtaken
         \/ /\ report = 0 /\ Reports!Move(r, "missed", 0)
            /\ overtaken' = (overtaken \/ Reports!Fetching # {})
  BY DEF Reports!Look
<1>2. PICK stage \in {"done", "missed"} :
          /\ reader' \in [Readers -> [stage : ReaderStage, number : 0..total]]
          /\ reader'[r].stage = stage /\ reader'[r].number = report
          /\ stage = "done" <=> report # 0
          /\ \A q \in Readers : q # r => reader'[q] = reader[q]
  <2>1. report \in 0..total /\ 0 \in 0..total /\ {"done", "missed"} \subseteq ReaderStage
    BY DEF ReportsInv, ReportTypes, ReaderStage
  <2> QED BY <1>1, <2>1, ReaderMoved DEF ReportsInv
<1>3. ReportTypes'
  BY <1>1, <1>2, Zenon DEF ReportsInv, ReportTypes
<1>4. Informed'
  BY <1>2 DEF ReportsInv, Informed
<1>5. \A n : About(n)' = About(n)
  BY <1>1, <1>2 DEF About
<1>6. ReportKept'
  BY <1>1, <1>2, <1>5 DEF ReportsInv, ReportKept, Kept
<1>7. \A n : NotOlder(n)' = NotOlder(n)
  BY <1>1, <1>2 DEF NotOlder
<1>8. ASSUME ~overtaken' PROVE \A p, q \in Reports!Fetching' : p = q
  <2>1. ~overtaken
    BY <1>1, <1>8
  <2>2. CASE report # 0
    <3>1. Reports!Fetching' \subseteq Reports!Fetching
      BY <1>2, <2>2 DEF Reports!Fetching
    <3> QED BY <2>1, <3>1 DEF ReportsInv, Forward
  <2>3. CASE report = 0
    <3>1. Reports!Fetching = {}
      BY <1>1, <1>8, <2>3
    <3>2. Reports!Fetching' \subseteq {r}
      BY <1>2, <3>1 DEF Reports!Fetching
    <3> QED BY <3>2
  <2> QED BY <2>2, <2>3
<1>9. Forward'
  <2>1. ~overtaken' => ~overtaken
    BY <1>1
  <2>2. \A q \in Readers : reader'[q].stage = "fetched" => reader[q] = reader'[q]
    BY <1>2
  <2> QED BY <1>1, <1>7, <1>8, <2>1, <2>2 DEF ReportsInv, Forward
<1> QED BY <1>3, <1>4, <1>6, <1>9 DEF ReportsInv

LEMMA ReportsFetch ==
  ASSUME ReportsInv, NEW r \in Readers, Reports!Fetch(r)
  PROVE  ReportsInv'
<1>1. /\ reader[r].stage = "missed" /\ total' = total /\ report' = report
      /\ snapshots' = snapshots /\ unsaved' = unsaved /\ overtaken' = overtaken
      /\ total \in 1..Total /\ total \in 0..total /\ total # 0
  BY PeripheryAssumption DEF Reports!ReportingAssumption, Reports!Fetch, ReportsInv, ReportTypes
<1>2. /\ reader' \in [Readers -> [stage : ReaderStage, number : 0..total]]
      /\ reader'[r].stage = "fetched" /\ reader'[r].number = total
      /\ \A q \in Readers : q # r => reader'[q] = reader[q]
  BY <1>1, ReaderMoved DEF ReportsInv, Reports!Fetch, ReaderStage
<1>3. ReportTypes'
  BY <1>1, <1>2, Zenon DEF ReportsInv, ReportTypes
<1>4. Informed'
  BY <1>1, <1>2 DEF ReportsInv, Informed
<1>5. \A n : About(n)' = About(n)
  BY <1>1, <1>2 DEF About
<1>6. ReportKept'
  BY <1>1, <1>2, <1>5 DEF ReportsInv, ReportKept, Kept
<1>7. \A n : NotOlder(n)' = NotOlder(n)
  BY <1>1, <1>2 DEF NotOlder
<1>8. NotOlder(total)
  <2>1. \A q \in Readers : reader[q].number \in 0..total
    BY DEF ReportsInv, ReportTypes
  <2> QED BY <1>1, <2>1 DEF ReportsInv, ReportTypes, NotOlder
<1>9. Reports!Fetching' \subseteq Reports!Fetching
  BY <1>1, <1>2 DEF Reports!Fetching
<1>10. Forward'
  BY <1>1, <1>2, <1>7, <1>8, <1>9 DEF ReportsInv, Forward
<1> QED BY <1>3, <1>4, <1>6, <1>10 DEF ReportsInv

LEMMA ReportsFail ==
  ASSUME ReportsInv, NEW r \in Readers, Reports!FetchFails(r) \/ Reports!Die(r)
  PROVE  ReportsInv'
<1>1. /\ reader[r].stage \in {"missed", "fetched", "cached"} /\ total' = total /\ report' = report
      /\ snapshots' = snapshots /\ overtaken' = overtaken
      /\ unsaved' = (unsaved \/ reader[r].stage = "cached")
      /\ \E number \in {0, reader[r].number} : Reports!Move(r, "failed", number)
  <2>1. CASE Reports!FetchFails(r)
    <3>1. unsaved' = unsaved /\ reader[r].stage = "missed" /\ unsaved \in BOOLEAN
      BY <2>1 DEF Reports!FetchFails, ReportsInv, ReportTypes
    <3>2. unsaved' = (unsaved \/ reader[r].stage = "cached")
      BY <3>1
    <3> QED BY <2>1, <3>1, <3>2 DEF Reports!FetchFails
  <2>2. CASE Reports!Die(r)
    BY <2>2 DEF Reports!Die
  <2> QED BY <2>1, <2>2
<1>2. /\ reader' \in [Readers -> [stage : ReaderStage, number : 0..total]]
      /\ reader'[r].stage = "failed"
      /\ \A q \in Readers : q # r => reader'[q] = reader[q]
  <2>1. 0 \in 0..total /\ reader[r].number \in 0..total /\ "failed" \in ReaderStage
    BY DEF ReportsInv, ReportTypes, ReaderStage
  <2> QED BY <1>1, <2>1, ReaderMoved DEF ReportsInv
<1>3. ReportTypes'
  <2>1. unsaved' \in BOOLEAN
    BY <1>1
  <2> QED BY <1>1, <1>2, <2>1, Zenon DEF ReportsInv, ReportTypes
<1>4. Informed'
  BY <1>1, <1>2 DEF ReportsInv, Informed
<1>5. ReportKept'
  <2>1. SUFFICES ASSUME ~unsaved' PROVE ReportKept'
    BY DEF ReportKept
  <2>2. ~unsaved /\ reader[r].stage # "cached"
    BY <1>1, <2>1
  <2>3. \A n : About(n)' = About(n)
    BY <1>2, <2>2 DEF About
  <2> QED BY <1>1, <1>2, <2>2, <2>3 DEF ReportsInv, ReportKept, Kept
<1>6. \A n : NotOlder(n) => NotOlder(n)'
  BY <1>1, <1>2 DEF NotOlder
<1>7. Reports!Fetching' \subseteq Reports!Fetching
  BY <1>1, <1>2 DEF Reports!Fetching
<1>8. Forward'
  BY <1>1, <1>2, <1>6, <1>7 DEF ReportsInv, Forward
<1> QED BY <1>3, <1>4, <1>5, <1>8 DEF ReportsInv

LEMMA ReportsCache ==
  ASSUME ReportsInv, NEW r \in Readers, Reports!Cache(r)
  PROVE  ReportsInv'
<1>0. PICK number : number = reader[r].number
  OBVIOUS
<1>1. /\ reader[r].stage = "fetched" /\ total' = total /\ report' = number
      /\ snapshots' = snapshots /\ overtaken' = overtaken /\ unsaved' = unsaved
      /\ number \in 0..total /\ number # 0 /\ number \in Nat
  BY <1>0 DEF Reports!Cache, ReportsInv, ReportTypes, Informed
<1>2. /\ reader' \in [Readers -> [stage : ReaderStage, number : 0..total]]
      /\ reader'[r].stage = "cached" /\ reader'[r].number = number
      /\ \A q \in Readers : q # r => reader'[q] = reader[q]
  BY <1>0, <1>1, ReaderMoved DEF ReportsInv, Reports!Cache, ReaderStage
<1>3. ReportTypes'
  BY <1>1, <1>2, Zenon DEF ReportsInv, ReportTypes
<1>4. Informed'
  BY <1>1, <1>2 DEF ReportsInv, Informed
<1>5. \A n : About(n) => About(n)'
  BY <1>1, <1>2 DEF About
<1>6. About(number)'
  BY <1>2 DEF About
<1>7. ReportKept'
  BY <1>1, <1>2, <1>5, <1>6 DEF ReportsInv, ReportKept, Kept
<1>8. Forward'
  <2>1. SUFFICES ASSUME ~overtaken
                 PROVE  /\ \A p, q \in Reports!Fetching' : p = q
                        /\ \A q \in Readers : reader'[q].stage # "fetched"
                        /\ NotOlder(report)'
    BY <1>1 DEF Forward
  <2>2. \A q \in Reports!Fetching : q = r
    BY <1>1, <2>1 DEF ReportsInv, Forward, Reports!Fetching
  <2>3. Reports!Fetching' = {}
    BY <1>1, <1>2, <2>2 DEF Reports!Fetching
  <2>4. NotOlder(number)
    BY <1>0, <1>1, <2>1 DEF ReportsInv, Forward
  <2>5. NotOlder(report)'
    BY <1>1, <1>2, <2>4 DEF NotOlder
  <2> QED BY <2>3, <2>5 DEF Reports!Fetching
<1> QED BY <1>3, <1>4, <1>7, <1>8 DEF ReportsInv

LEMMA ReportsSave ==
  ASSUME ReportsInv, NEW r \in Readers, Reports!Save(r)
  PROVE  ReportsInv'
<1>0. PICK number : number = reader[r].number
  OBVIOUS
<1>1. /\ reader[r].stage = "cached" /\ total' = total /\ report' = report
      /\ snapshots' = snapshots \cup {number} /\ overtaken' = overtaken /\ unsaved' = unsaved
      /\ number \in 0..total /\ number # 0 /\ number \in 1..total
  BY <1>0 DEF Reports!Save, ReportsInv, ReportTypes, Informed
<1>2. /\ reader' \in [Readers -> [stage : ReaderStage, number : 0..total]]
      /\ reader'[r].stage = "done" /\ reader'[r].number = number
      /\ \A q \in Readers : q # r => reader'[q] = reader[q]
  BY <1>0, <1>1, ReaderMoved DEF ReportsInv, Reports!Save, ReaderStage
<1>3. ReportTypes'
  BY <1>1, <1>2, Zenon DEF ReportsInv, ReportTypes
<1>4. Informed'
  BY <1>1, <1>2 DEF ReportsInv, Informed
<1>5. \A n : Kept(n) => Kept(n)'
  BY <1>0, <1>1, <1>2 DEF Kept, About
<1>6. Kept(number)'
  BY <1>1 DEF Kept
<1>7. ReportKept'
  BY <1>1, <1>2, <1>5, <1>6 DEF ReportsInv, ReportKept
<1>8. \A n : NotOlder(n) => NotOlder(n)'
  BY <1>0, <1>1, <1>2 DEF NotOlder
<1>9. Reports!Fetching' \subseteq Reports!Fetching
  BY <1>1, <1>2 DEF Reports!Fetching
<1>10. Forward'
  BY <1>1, <1>2, <1>8, <1>9 DEF ReportsInv, Forward
<1> QED BY <1>3, <1>4, <1>7, <1>10 DEF ReportsInv

LEMMA ReportsStep ==
  ASSUME ReportsInv, [Reports!Next]_reportsVars
  PROVE  ReportsInv'
BY ReportsAround, ReportsLook, ReportsFetch, ReportsFail, ReportsCache, ReportsSave
   DEF Reports!Next

(* Whatever a dashboard was shown is kept or about to be kept, unless a handler *)
(* died between Redis and MongoDB (_save_snapshot); and until one handler       *)
(* overtakes another, no cached report is older than a saved one                *)
(* (get_sales_summary, get_inventory_summary).                                   *)
THEOREM ReportsStaySound == PeripherySpec => ReportsAreSound
<1>1. PeripheryInit => ReportsInv
  BY ReportsBegin DEF PeripheryInit
<1>2. [PeripheryNext]_peripheryVars => [Reports!Next]_reportsVars
  BY DEF PeripheryNext, Others, peripheryVars, reportsVars
<1>3. ReportsInv /\ [PeripheryNext]_peripheryVars => ReportsInv'
  BY <1>2, ReportsStep
<1>4. ReportsInv /\ ReportsInv' /\ [PeripheryNext]_peripheryVars
        => [(report' # 0 /\ ~overtaken') => \A n \in snapshots : report' >= n]_Reports!vars
  <2> SUFFICES ASSUME ReportsInv, ReportsInv', [Reports!Next]_reportsVars,
                      report' # 0, ~overtaken', NEW n \in snapshots
               PROVE  report' >= n \/ UNCHANGED reportsVars
    BY <1>2 DEF Reports!vars, reportsVars
  <2>1. CASE Reports!Next
    <3>1. snapshots \subseteq snapshots'
      BY <2>1 DEF Reports!Next, Reports!Grow, Reports!Expires, Reports!Look, Reports!Fetch,
         Reports!FetchFails, Reports!Cache, Reports!Save, Reports!Die
    <3>2. n <= report'
      BY <3>1 DEF ReportsInv, Forward, NotOlder
    <3>3. n \in Nat /\ report' \in Nat
      BY PeripheryAssumption DEF Reports!ReportingAssumption, ReportsInv, ReportTypes
    <3> QED BY <3>2, <3>3
  <2> QED BY <2>1
<1>5. ReportsInv => Reports!TypeOK /\ Reports!ShownIsKept
  BY ReportsFacts
<1> QED BY <1>1, <1>3, <1>4, <1>5, PTL
        DEF PeripherySpec, ReportsAreSound, Reports!ReportsGoForward

-----------------------------------------------------------------------------
(* The seed scripts.                                                           *)

Items == Goods \cup Centers \cup Staff \cup (Centers \X Goods)

ScriptRun == [stage : Seed!Stage, todo : SUBSET Items, item : Goods \cup {None}, knows : BOOLEAN]

SeedTypes ==
    /\ products \subseteq Goods /\ prices \subseteq Goods /\ centers \subseteq Centers
    /\ stocked \in [Centers -> [Goods -> Nat]] /\ department \in BOOLEAN
    /\ staff \in [Staff -> {"absent", "assigned", "unassigned"}]
    /\ seeder \in [Seeders -> ScriptRun]
    /\ cut \in BOOLEAN /\ refused \in BOOLEAN

(* A run holds a product from the moment it was created until it is priced.     *)
HoldsProduct == \A s \in Seeders : seeder[s].item # None <=> seeder[s].stage = "pricing"

(* Unless the department or its list was refused, it exists when the list is     *)
(* asked for, and is known when employees are hired.                             *)
KnowsDepartment ==
    ~refused => \A s \in Seeders : /\ seeder[s].stage = "listing" => department
                                   /\ seeder[s].stage = "staff" => seeder[s].knows

SeedInv ==
    /\ SeedTypes /\ HoldsProduct /\ KnowsDepartment
    /\ Seed!ProductsArePriced /\ Seed!StaffIsAssigned

LEMMA SeedBegins == Seed!Init => SeedInv
<1> SUFFICES ASSUME Seed!Init PROVE SeedInv
  OBVIOUS
<1> DEFINE fresh == [stage |-> "new", todo |-> {}, item |-> None, knows |-> FALSE]
<1>1. fresh \in ScriptRun /\ fresh.stage = "new" /\ fresh.item = None
  BY DEF ScriptRun, Seed!Stage
<1>2. seeder = [s \in Seeders |-> fresh]
  BY DEF Seed!Init, Seed!Run
<1> HIDE DEF fresh
<1>3. seeder \in [Seeders -> ScriptRun]
      /\ \A s \in Seeders : seeder[s].stage = "new" /\ seeder[s].item = None
  BY <1>1, <1>2
<1>4. stocked \in [Centers -> [Goods -> Nat]] /\ staff \in [Staff -> {"absent", "assigned", "unassigned"}]
      /\ \A e \in Staff : staff[e] = "absent"
  BY DEF Seed!Init
<1>5. cut = FALSE /\ refused = FALSE /\ department = FALSE /\ products = {} /\ prices = {}
      /\ centers = {}
  BY DEF Seed!Init
<1>6. SeedTypes
  BY <1>3, <1>4, <1>5 DEF SeedTypes
<1> QED BY <1>3, <1>4, <1>5, <1>6
        DEF SeedInv, HoldsProduct, KnowsDepartment, Seed!ProductsArePriced, Seed!StaffIsAssigned

LEMMA FreshRun ==
  ASSUME NEW stage \in Seed!Stage, NEW todo \in SUBSET Items
  PROVE  /\ Seed!Run(stage, todo) \in ScriptRun /\ Seed!Run(stage, todo).stage = stage
         /\ Seed!Run(stage, todo).item = None /\ Seed!Run(stage, todo).knows = FALSE
BY DEF Seed!Run, ScriptRun

LEMMA RunSet ==
  ASSUME SeedTypes, NEW s \in Seeders, NEW run \in ScriptRun, Seed!Set(s, run)
  PROVE  /\ seeder' \in [Seeders -> ScriptRun] /\ seeder'[s] = run
         /\ \A q \in Seeders : q # s => seeder'[q] = seeder[q]
BY DEF SeedTypes, Seed!Set

(* A step of a run that holds no product before or after.                      *)
LEMMA ProductsApart ==
  ASSUME SeedInv, NEW s \in Seeders, NEW run \in ScriptRun, Seed!Set(s, run),
         UNCHANGED <<products, prices, cut>>,
         seeder[s].stage # "pricing", run.stage # "pricing", run.item = None
  PROVE  HoldsProduct' /\ Seed!ProductsArePriced'
<1>1. /\ seeder'[s] = run /\ \A q \in Seeders : q # s => seeder'[q] = seeder[q]
      /\ seeder[s].item = None
  BY RunSet DEF SeedInv, HoldsProduct
<1>2. HoldsProduct'
  BY <1>1 DEF SeedInv, HoldsProduct
<1>3. Seed!ProductsArePriced'
  <2> SUFFICES ASSUME ~cut, NEW g \in products \ prices
               PROVE  \E q \in Seeders : seeder'[q].item = g
    BY DEF Seed!ProductsArePriced
  <2>1. PICK q \in Seeders : seeder[q].item = g
    BY DEF SeedInv, Seed!ProductsArePriced
  <2>2. g # None
    BY PeripheryAssumption DEF Seed!SeedingAssumption, SeedInv, SeedTypes
  <2> QED BY <1>1, <2>1, <2>2
<1> QED BY <1>2, <1>3

(* A step of a run that hires nobody.                                          *)
LEMMA StaffApart ==
  ASSUME SeedInv, NEW s \in Seeders, NEW run \in ScriptRun, Seed!Set(s, run),
         staff' = staff, department => department', refused => refused',
         run.stage = "listing" => refused' \/ department',
         run.stage = "staff" => refused' \/ run.knows
  PROVE  KnowsDepartment' /\ Seed!StaffIsAssigned'
<1>1. seeder'[s] = run /\ \A q \in Seeders : q # s => seeder'[q] = seeder[q]
  BY RunSet DEF SeedInv
<1> QED BY <1>1 DEF SeedInv, KnowsDepartment, Seed!StaffIsAssigned

LEMMA SeedTypesKept ==
  ASSUME SeedInv, NEW s \in Seeders, NEW run \in ScriptRun, Seed!Set(s, run),
         products' \subseteq Goods, prices' \subseteq Goods, centers' \subseteq Centers,
         stocked' \in [Centers -> [Goods -> Nat]],
         staff' \in [Staff -> {"absent", "assigned", "unassigned"}],
         department' \in BOOLEAN, cut' \in BOOLEAN, refused' \in BOOLEAN
  PROVE  SeedTypes'
BY RunSet DEF SeedInv, SeedTypes

(* The run with an item less to do.                                            *)
LEMMA RunDone ==
  ASSUME SeedInv, NEW s \in Seeders, NEW item
  PROVE  /\ Seed!Done(s, item) \in ScriptRun /\ Seed!Done(s, item).stage = seeder[s].stage
         /\ Seed!Done(s, item).item = seeder[s].item /\ Seed!Done(s, item).knows = seeder[s].knows
<1>1. seeder[s] \in ScriptRun
  BY DEF SeedInv, SeedTypes
<1> QED BY <1>1 DEF Seed!Done, ScriptRun

LEMMA ProductCreated ==
  ASSUME SeedInv, NEW s \in Seeders, NEW g \in Goods, Seed!CreateProduct(s, g)
  PROVE  SeedInv'
<1>1. PICK run : run = [Seed!Done(s, g) EXCEPT !.stage = "pricing", !.item = g]
  OBVIOUS
<1>2. run \in ScriptRun /\ run.stage = "pricing" /\ run.item = g
  BY <1>1, RunDone DEF ScriptRun, Seed!Stage
<1>3. /\ seeder[s].stage = "catalog" /\ products' = products \cup {g} /\ Seed!Set(s, run)
      /\ UNCHANGED <<prices, centers, stocked, department, staff, cut, refused>>
  BY <1>1 DEF Seed!CreateProduct
<1>4. SeedTypes'
  BY <1>2, <1>3, SeedTypesKept DEF SeedInv, SeedTypes
<1>5. KnowsDepartment' /\ Seed!StaffIsAssigned'
  BY <1>2, <1>3, StaffApart
<1>6. /\ seeder'[s] = run /\ \A q \in Seeders : q # s => seeder'[q] = seeder[q]
      /\ seeder[s].item = None /\ None \notin Goods
  BY <1>2, <1>3, RunSet, PeripheryAssumption DEF Seed!SeedingAssumption, SeedInv, HoldsProduct
<1>7. HoldsProduct'
  BY <1>2, <1>6 DEF SeedInv, HoldsProduct
<1>8. Seed!ProductsArePriced'
  <2> SUFFICES ASSUME ~cut, NEW h \in products' \ prices
               PROVE  \E q \in Seeders : seeder'[q].item = h
    BY <1>3 DEF Seed!ProductsArePriced
  <2>1. CASE h = g
    BY <1>2, <1>6, <2>1
  <2>2. CASE h # g
    <3>1. PICK q \in Seeders : seeder[q].item = h
      BY <1>3, <2>2 DEF SeedInv, Seed!ProductsArePriced
    <3>2. h # None
      BY <1>3, <1>6, <2>2 DEF SeedInv, SeedTypes
    <3> QED BY <1>6, <3>1, <3>2
  <2> QED BY <2>1, <2>2
<1> QED BY <1>4, <1>5, <1>7, <1>8 DEF SeedInv

LEMMA PricingCreated ==
  ASSUME SeedInv, NEW s \in Seeders, Seed!CreatePricing(s)
  PROVE  SeedInv'
<1>1. PICK run : run = [seeder[s] EXCEPT !.stage = "catalog", !.item = None]
  OBVIOUS
<1>2. run \in ScriptRun /\ run.stage = "catalog" /\ run.item = None
  BY <1>1 DEF ScriptRun, Seed!Stage, SeedInv, SeedTypes
<1>3. /\ seeder[s].stage = "pricing" /\ prices' = prices \cup {seeder[s].item}
      /\ Seed!Set(s, run)
      /\ UNCHANGED <<products, centers, stocked, department, staff, cut, refused>>
  BY <1>1 DEF Seed!CreatePricing
<1>4. seeder[s].item \in Goods
  BY <1>3 DEF SeedInv, SeedTypes, ScriptRun, HoldsProduct
<1>5. SeedTypes'
  BY <1>2, <1>3, <1>4, SeedTypesKept DEF SeedInv, SeedTypes
<1>6. KnowsDepartment' /\ Seed!StaffIsAssigned'
  BY <1>2, <1>3, StaffApart
<1>7. seeder'[s] = run /\ \A q \in Seeders : q # s => seeder'[q] = seeder[q]
  BY <1>2, <1>3, RunSet DEF SeedInv
<1>8. HoldsProduct'
  BY <1>2, <1>7 DEF SeedInv, HoldsProduct
<1>9. Seed!ProductsArePriced'
  BY <1>3, <1>7 DEF SeedInv, Seed!ProductsArePriced
<1> QED BY <1>5, <1>6, <1>8, <1>9 DEF SeedInv

LEMMA CatalogIsCut ==
  ASSUME SeedInv, NEW s \in Seeders, Seed!CatalogCut(s)
  PROVE  SeedInv'
<1>1. PICK run : run = Seed!Run("cut", {})
  OBVIOUS
<1>2. run \in ScriptRun /\ run.stage = "cut" /\ run.item = None
  <2>1. "cut" \in Seed!Stage
    BY DEF Seed!Stage
  <2> QED BY <1>1, <2>1, FreshRun
<1>3. /\ Seed!Set(s, run) /\ cut' = TRUE
      /\ UNCHANGED <<products, prices, centers, stocked, department, staff, refused>>
  BY <1>1 DEF Seed!CatalogCut, Seed!services
<1>4. cut' \in BOOLEAN
  BY <1>3, Zenon
<1>5. SeedTypes'
  BY <1>2, <1>3, <1>4, SeedTypesKept DEF SeedInv, SeedTypes
<1>6. KnowsDepartment' /\ Seed!StaffIsAssigned'
  BY <1>2, <1>3, StaffApart
<1>7. seeder'[s] = run /\ \A q \in Seeders : q # s => seeder'[q] = seeder[q]
  BY <1>2, <1>3, RunSet DEF SeedInv
<1>8. HoldsProduct'
  BY <1>2, <1>7 DEF SeedInv, HoldsProduct
<1> QED BY <1>3, <1>5, <1>6, <1>8 DEF SeedInv, Seed!ProductsArePriced

LEMMA DepartmentSeeded ==
  ASSUME SeedInv, NEW s \in Seeders, Seed!SeedDepartment(s)
  PROVE  SeedInv'
<1>1. "listing" \in Seed!Stage
  BY DEF Seed!Stage
<1>2. PICK run \in ScriptRun :
          /\ Seed!Set(s, run) /\ run.stage = "listing" /\ run.item = None
          /\ \/ department' = TRUE /\ refused' = refused
             \/ refused' = (refused \/ ~department) /\ department' = department
  <2>1. Seed!Run("listing", {}) \in ScriptRun /\ Seed!Run("listing", {}).stage = "listing"
        /\ Seed!Run("listing", {}).item = None
    BY <1>1, FreshRun
  <2> DEFINE known == [Seed!Run("listing", {}) EXCEPT !.knows = ~department]
  <2>2. known \in ScriptRun /\ known.stage = "listing" /\ known.item = None
    BY <2>1 DEF ScriptRun
  <2> HIDE DEF known
  <2>3. CASE department' = TRUE /\ Seed!Set(s, known) /\ refused' = refused
    BY <2>2, <2>3
  <2>4. CASE /\ Seed!Set(s, Seed!Run("listing", {})) /\ refused' = (refused \/ ~department)
             /\ department' = department
    BY <2>1, <2>4
  <2> QED BY <2>3, <2>4 DEF Seed!SeedDepartment, known
<1>3. /\ seeder[s].stage = "centers"
      /\ UNCHANGED <<products, prices, centers, stocked, staff, cut>>
  BY DEF Seed!SeedDepartment
<1>4. /\ department' \in BOOLEAN /\ refused' \in BOOLEAN
      /\ (department => department') /\ (refused => refused') /\ (refused' \/ department')
  <2>1. department \in BOOLEAN /\ refused \in BOOLEAN
    BY DEF SeedInv, SeedTypes
  <2> QED BY <1>2, <2>1
<1>5. SeedTypes'
  BY <1>2, <1>3, <1>4, SeedTypesKept DEF SeedInv, SeedTypes
<1>6. KnowsDepartment' /\ Seed!StaffIsAssigned'
  BY <1>2, <1>3, <1>4, StaffApart
<1>7. HoldsProduct' /\ Seed!ProductsArePriced'
  BY <1>2, <1>3, ProductsApart
<1> QED BY <1>5, <1>6, <1>7 DEF SeedInv

LEMMA DepartmentsListed ==
  ASSUME SeedInv, NEW s \in Seeders, Seed!ListDepartments(s)
  PROVE  SeedInv'
<1>0. seeder[s] \in ScriptRun /\ seeder[s].stage = "listing" /\ seeder[s].item = None
  BY DEF SeedInv, SeedTypes, HoldsProduct, Seed!ListDepartments
<1>1. "staff" \in Seed!Stage /\ Staff \in SUBSET Items
  BY DEF Seed!Stage, Items
<1>2. PICK run \in ScriptRun :
          /\ Seed!Set(s, run) /\ run.stage = "staff" /\ run.item = None
          /\ \/ run.knows = (seeder[s].knows \/ department) /\ refused' = refused
             \/ refused' = TRUE
  <2> DEFINE known == [seeder[s] EXCEPT !.stage = "staff", !.todo = Staff,
                                        !.knows = seeder[s].knows \/ department]
             unknown == [seeder[s] EXCEPT !.stage = "staff", !.todo = Staff]
  <2>1. known \in ScriptRun /\ known.stage = "staff" /\ known.item = None
        /\ known.knows = (seeder[s].knows \/ department)
    BY <1>0, <1>1 DEF ScriptRun
  <2>2. unknown \in ScriptRun /\ unknown.stage = "staff" /\ unknown.item = None
    BY <1>0, <1>1 DEF ScriptRun
  <2>3. \/ Seed!Set(s, known) /\ refused' = refused
        \/ Seed!Set(s, unknown) /\ refused' = TRUE
    BY DEF Seed!ListDepartments
  <2> HIDE DEF known, unknown
  <2> QED BY <2>1, <2>2, <2>3
<1>3. UNCHANGED <<products, prices, centers, stocked, department, staff, cut>>
  BY DEF Seed!ListDepartments, Seed!services
<1>4. refused' \in BOOLEAN /\ (refused => refused') /\ (refused' \/ run.knows)
  <2>1. refused \in BOOLEAN /\ (refused \/ department)
    BY <1>0 DEF SeedInv, SeedTypes, KnowsDepartment
  <2> QED BY <1>2, <2>1
<1>5. SeedTypes'
  BY <1>2, <1>3, <1>4, SeedTypesKept DEF SeedInv, SeedTypes
<1>6. KnowsDepartment' /\ Seed!StaffIsAssigned'
  BY <1>2, <1>3, <1>4, StaffApart
<1>7. HoldsProduct' /\ Seed!ProductsArePriced'
  BY <1>0, <1>2, <1>3, ProductsApart
<1> QED BY <1>5, <1>6, <1>7 DEF SeedInv

LEMMA EmployeeSeeded ==
  ASSUME SeedInv, NEW s \in Seeders, NEW e \in Staff, Seed!SeedEmployee(s, e)
  PROVE  SeedInv'
<1>1. PICK run \in ScriptRun :
          Seed!Set(s, run) /\ run.stage = "staff" /\ run.item = None /\ run.knows = seeder[s].knows
  BY RunDone DEF Seed!SeedEmployee, SeedInv, HoldsProduct
<1>2. /\ seeder[s].stage = "staff"
      /\ UNCHANGED <<products, prices, centers, stocked, department, cut, refused>>
      /\ \/ staff' = staff
         \/ staff' = [staff EXCEPT ![e] = IF seeder[s].knows THEN "assigned" ELSE "unassigned"]
  BY DEF Seed!SeedEmployee
<1>3. staff' \in [Staff -> {"absent", "assigned", "unassigned"}]
  BY <1>2 DEF SeedInv, SeedTypes
<1>4. SeedTypes'
  BY <1>1, <1>2, <1>3, SeedTypesKept DEF SeedInv, SeedTypes
<1>5. HoldsProduct' /\ Seed!ProductsArePriced'
  BY <1>1, <1>2, ProductsApart
<1>6. seeder'[s] = run /\ \A q \in Seeders : q # s => seeder'[q] = seeder[q]
  BY <1>1, RunSet DEF SeedInv
<1>7. KnowsDepartment'
  BY <1>1, <1>2, <1>6 DEF SeedInv, KnowsDepartment
<1>8. Seed!StaffIsAssigned'
  <2>1. ~refused => seeder[s].knows
    BY <1>2 DEF SeedInv, KnowsDepartment
  <2>2. staff \in [Staff -> {"absent", "assigned", "unassigned"}]
    BY DEF SeedInv, SeedTypes
  <2> QED BY <1>2, <2>1, <2>2 DEF SeedInv, Seed!StaffIsAssigned
<1> QED BY <1>4, <1>5, <1>7, <1>8 DEF SeedInv

(* A run begins, ends or goes on to its next list.                             *)
LEMMA RunGoesOn ==
  ASSUME SeedInv, NEW s \in Seeders,
         \/ Seed!SeedCatalog(s) \/ Seed!CatalogDone(s) \/ Seed!SeedAll(s) \/ Seed!ListStock(s)
         \/ Seed!SeedAllDone(s) \/ Seed!SeedAllCut(s)
  PROVE  SeedInv'
<1>1. /\ seeder[s].stage # "pricing"
      /\ UNCHANGED <<products, prices, centers, stocked, department, staff, cut, refused>>
      /\ \E stage \in {"catalog", "done", "centers", "stock", "cut"},
            todo \in {Goods \ products, Goods, {}, Centers, centers \X products} :
                Seed!Set(s, Seed!Run(stage, todo))
  <2>1. CASE Seed!SeedCatalog(s)
    <3>1. Goods \ {} = Goods
      OBVIOUS
    <3> QED BY <2>1, <3>1 DEF Seed!SeedCatalog, Seed!services
  <2>2. CASE \/ Seed!CatalogDone(s) \/ Seed!SeedAll(s) \/ Seed!ListStock(s)
             \/ Seed!SeedAllDone(s) \/ Seed!SeedAllCut(s)
    BY <2>2 DEF Seed!CatalogDone, Seed!SeedAll, Seed!ListStock, Seed!SeedAllDone,
                Seed!SeedAllCut, Seed!services
  <2> QED BY <2>1, <2>2
<1>2. PICK stage \in {"catalog", "done", "centers", "stock", "cut"},
           todo \in {Goods \ products, Goods, {}, Centers, centers \X products} :
               Seed!Set(s, Seed!Run(stage, todo))
  BY <1>1
<1>3. stage \in Seed!Stage /\ todo \in SUBSET Items
  BY DEF Seed!Stage, Items, SeedInv, SeedTypes
<1>4. PICK run \in ScriptRun : Seed!Set(s, run) /\ run.stage = stage /\ run.item = None
  BY <1>2, <1>3, FreshRun
<1>5. SeedTypes'
  BY <1>1, <1>4, SeedTypesKept DEF SeedInv, SeedTypes
<1>6. KnowsDepartment' /\ Seed!StaffIsAssigned'
  BY <1>1, <1>4, StaffApart
<1>7. HoldsProduct' /\ Seed!ProductsArePriced'
  BY <1>1, <1>4, ProductsApart
<1> QED BY <1>5, <1>6, <1>7 DEF SeedInv

LEMMA CenterOrStockSeeded ==
  ASSUME SeedInv, NEW s \in Seeders, NEW c \in Centers,
         Seed!SeedCenter(s, c) \/ \E g \in Goods : Seed!SeedStock(s, c, g)
  PROVE  SeedInv'
<1>1. /\ seeder[s].stage \in {"centers", "stock"}
      /\ UNCHANGED <<products, prices, department, staff, cut, refused>>
      /\ \E item : Seed!Set(s, Seed!Done(s, item))
  BY DEF Seed!SeedCenter, Seed!SeedStock
<1>2. centers' \subseteq Centers /\ stocked' \in [Centers -> [Goods -> Nat]]
  <2>1. centers \subseteq Centers /\ stocked \in [Centers -> [Goods -> Nat]]
    BY DEF SeedInv, SeedTypes
  <2>2. CASE Seed!SeedCenter(s, c)
    BY <2>1, <2>2 DEF Seed!SeedCenter
  <2>3. ASSUME NEW g \in Goods, Seed!SeedStock(s, c, g)
        PROVE  centers' \subseteq Centers /\ stocked' \in [Centers -> [Goods -> Nat]]
    <3>1. stocked' \in {stocked, [stocked EXCEPT ![c] = [stocked[c] EXCEPT ![g] = stocked[c][g] + 1]]}
          /\ centers' = centers
      BY <2>3 DEF Seed!SeedStock
    <3>2. [stocked[c] EXCEPT ![g] = stocked[c][g] + 1] \in [Goods -> Nat]
      BY <2>1
    <3> QED BY <2>1, <3>1, <3>2
  <2> QED BY <2>2, <2>3
<1>3. PICK run \in ScriptRun :
          Seed!Set(s, run) /\ run.stage = seeder[s].stage /\ run.item = None
  BY <1>1, RunDone DEF SeedInv, HoldsProduct
<1>4. SeedTypes'
  BY <1>1, <1>2, <1>3, SeedTypesKept DEF SeedInv, SeedTypes
<1>5. KnowsDepartment' /\ Seed!StaffIsAssigned'
  BY <1>1, <1>3, StaffApart
<1>6. HoldsProduct' /\ Seed!ProductsArePriced'
  BY <1>1, <1>3, ProductsApart
<1> QED BY <1>4, <1>5, <1>6 DEF SeedInv

LEMMA SeedStep ==
  ASSUME SeedInv, [Seed!Next]_seedVars
  PROVE  SeedInv'
<1>1. CASE UNCHANGED seedVars
  BY <1>1 DEF seedVars, SeedInv, SeedTypes, HoldsProduct, KnowsDepartment,
     Seed!ProductsArePriced, Seed!StaffIsAssigned
<1> QED BY <1>1, ProductCreated, PricingCreated, CatalogIsCut, DepartmentSeeded,
     DepartmentsListed, EmployeeSeeded, RunGoesOn, CenterOrStockSeeded DEF Seed!Next

(* However often the scripts are run, side by side and cut off, a product that   *)
(* was created gets its price unless a run of seed.py was cut off, and nobody is *)
(* hired without the department unless it or its list was refused                *)
(* (seed_catalog, seed_departments, seed_employees).                              *)
THEOREM SeedsStayWhole == PeripherySpec => []SeedsAreWhole
<1>1. PeripheryInit => SeedInv
  BY SeedBegins DEF PeripheryInit
<1>2. SeedInv /\ [PeripheryNext]_peripheryVars => SeedInv'
  <2>1. [PeripheryNext]_peripheryVars => [Seed!Next]_seedVars
    BY DEF PeripheryNext, Others, peripheryVars, seedVars
  <2> QED BY <2>1, SeedStep
<1>3. SeedInv => SeedsAreWhole
  BY DEF SeedInv, SeedTypes, ScriptRun, Seed!TypeOK, SeedsAreWhole
<1> QED BY <1>1, <1>2, <1>3, PTL DEF PeripherySpec

-----------------------------------------------------------------------------
(* The customer simulator.                                                     *)

(* What the loop holds; a pass of the pipeline is under way while it pages or   *)
(* patches.                                                                     *)
LoopOK(x) ==
    /\ x \in [stage : Buyer!Stage, round : 0..2, pass : 0..4,
              offset : {x.offset}, batch : {x.batch}]
    /\ x.stage \in {"paging", "patching"} => x.pass # 0

(* The orders at the order service, and those that were placed and counted.     *)
Market ==
    /\ status \in [Purchases -> Buyer!OrderStatus] /\ listing \in Seq(Purchases)
    /\ Buyer!ToSet(listing) = {o \in Purchases : status[o] # "absent"}
    /\ mine \subseteq Buyer!ToSet(listing) /\ placed \in Nat
    /\ placed <= Cardinality(mine) /\ (~unanswered => placed = Cardinality(mine))

Clientele ==
    /\ customers \in Nat /\ registered \in Nat /\ customers <= registered
    /\ registered <= People /\ (~unanswered => customers = registered)

(* Nothing is known of the catalog before it was asked for.                     *)
KnownGoods ==
    /\ skus \subseteq Goods
    /\ sim.stage \in {"off", "starting"} => skus = {}
    /\ sim.stage = "over" => Cardinality(skus) < FewGoods

BuyerInv == LoopOK(sim) /\ unanswered \in BOOLEAN /\ Market /\ Clientele /\ KnownGoods

LEMMA BuyerConstants ==
  /\ IsFiniteSet(Goods) /\ IsFiniteSet(Purchases) /\ FewGoods \in Nat \ {0} /\ People \in Nat
BY PeripheryAssumption DEF Buyer!CustomerSimulatorAssumption, Buyer!IsFiniteSet, IsFiniteSet

LEMMA BuyerCardinality == \A S : Buyer!Cardinality(S) = Cardinality(S)
BY DEF Buyer!Cardinality, Cardinality

LEMMA BuyerFacts ==
  ASSUME BuyerInv
  PROVE  Buyer!TypeOK /\ Buyer!CountsWhatItDid /\ Buyer!EndsOfSmallCatalog
<1>1. {customers, registered} \subseteq 0..People
  BY BuyerConstants DEF BuyerInv, Clientele
<1>2. Buyer!TypeOK
  BY <1>1 DEF BuyerInv, LoopOK, Market, KnownGoods, Buyer!TypeOK
<1>3. Buyer!CountsWhatItDid
  BY BuyerCardinality DEF BuyerInv, Market, Clientele, Buyer!CountsWhatItDid
<1>4. Buyer!EndsOfSmallCatalog
  BY BuyerCardinality DEF BuyerInv, KnownGoods, Buyer!EndsOfSmallCatalog
<1> QED BY <1>2, <1>3, <1>4

LEMMA PipelineFacts ==
  /\ \A i \in 1..5 : Buyer!Pipeline[i] \in Buyer!OrderStatus /\ Buyer!Pipeline[i] # "absent"
  /\ {"confirmed", "cancelled", "absent"} \subseteq Buyer!OrderStatus
<1>1. /\ DOMAIN Buyer!Pipeline = 1..5 /\ Buyer!Pipeline[1] = "confirmed"
      /\ \A i \in 1..5 : Buyer!Pipeline[i] # "absent"
  BY DEF Buyer!Pipeline
<1>2. \A i \in 1..5 : Buyer!Pipeline[i] \in Buyer!ToSet(Buyer!Pipeline)
  BY <1>1 DEF Buyer!ToSet
<1>3. 1 \in 1..5
  OBVIOUS
<1> QED BY <1>1, <1>2, <1>3 DEF Buyer!OrderStatus

LEMMA BuyerBegins == Buyer!Init => BuyerInv
<1> SUFFICES ASSUME Buyer!Init PROVE BuyerInv
  OBVIOUS
<1>1. Cardinality({}) = 0
  BY FS_EmptySet
<1>2. LoopOK(sim)
  BY DEF Buyer!Init, Buyer!Loop, Buyer!Stage, LoopOK
<1>3. /\ status = [o \in Purchases |-> "absent"] /\ listing = <<>> /\ mine = {} /\ placed = 0
      /\ unanswered = FALSE /\ customers = 0 /\ registered = 0 /\ skus = {}
      /\ sim.stage = "off"
  BY DEF Buyer!Init, Buyer!Loop
<1>4. Market
  <2>1. Buyer!ToSet(listing) = {}
    BY <1>3 DEF Buyer!ToSet
  <2> QED BY <1>1, <1>3, <2>1, PipelineFacts DEF Market
<1>5. Clientele /\ KnownGoods
  BY <1>3, BuyerConstants DEF Clientele, KnownGoods
<1>6. unanswered \in BOOLEAN
  BY <1>3, Zenon
<1> QED BY <1>2, <1>4, <1>5, <1>6 DEF BuyerInv

LEMMA Prepended ==
  ASSUME NEW S, NEW s \in Seq(S), NEW x \in S
  PROVE  <<x>> \o s \in Seq(S) /\ Buyer!ToSet(<<x>> \o s) = {x} \cup Buyer!ToSet(s)
<1> DEFINE all == <<x>> \o s
<1>1. <<x>> \in Seq(S) /\ Len(<<x>>) = 1 /\ <<x>>[1] = x /\ Len(s) \in Nat
  OBVIOUS
<1>2. /\ all \in Seq(S) /\ Len(all) = Len(s) + 1
      /\ \A i \in 1..Len(s) + 1 : all[i] = IF i <= 1 THEN x ELSE s[i - 1]
  <2>1. /\ all \in Seq(S) /\ Len(all) = 1 + Len(s)
        /\ \A i \in 1..1 + Len(s) : all[i] = IF i <= 1 THEN <<x>>[i] ELSE s[i - 1]
    BY <1>1, ConcatProperties
  <2> QED BY <1>1, <2>1
<1>3. DOMAIN all = 1..Len(s) + 1 /\ DOMAIN s = 1..Len(s)
  BY <1>2, LenProperties
<1> HIDE DEF all
<1>4. \A i \in DOMAIN all : all[i] \in {x} \cup Buyer!ToSet(s)
  <2> SUFFICES ASSUME NEW i \in 1..Len(s) + 1, i # 1 PROVE all[i] \in Buyer!ToSet(s)
    BY <1>1, <1>2, <1>3
  <2>1. i - 1 \in 1..Len(s) /\ all[i] = s[i - 1]
    BY <1>1, <1>2
  <2> QED BY <1>3, <2>1 DEF Buyer!ToSet
<1>5. x \in Buyer!ToSet(all)
  <2>1. 1 \in DOMAIN all /\ all[1] = x
    BY <1>1, <1>2, <1>3
  <2> QED BY <2>1 DEF Buyer!ToSet
<1>6. \A i \in DOMAIN s : s[i] \in Buyer!ToSet(all)
  <2> SUFFICES ASSUME NEW i \in 1..Len(s) PROVE s[i] \in Buyer!ToSet(all)
    BY <1>3
  <2>1. i + 1 \in DOMAIN all /\ (i + 1) - 1 = i /\ ~(i + 1 <= 1)
    BY <1>1, <1>3
  <2>2. all[i + 1] = s[i]
    BY <1>2, <1>3, <2>1
  <2> QED BY <2>1, <2>2 DEF Buyer!ToSet
<1>7. Buyer!ToSet(all) = {x} \cup Buyer!ToSet(s)
  BY <1>4, <1>5, <1>6 DEF Buyer!ToSet
<1> QED BY <1>2, <1>7 DEF all

LEMMA MineIsFinite ==
  ASSUME Market
  PROVE  mine \subseteq Purchases /\ IsFiniteSet(mine) /\ Cardinality(mine) \in Nat
<1>1. mine \subseteq Purchases
  BY DEF Market
<1> QED BY <1>1, BuyerConstants, FS_Subset, FS_CardinalityType

(* An order arrives, of another client or of the simulator, which counts it if  *)
(* it is told.                                                                  *)
LEMMA MarketArrives ==
  ASSUME Market, NEW o \in Purchases, Buyer!Arrives(o), unanswered \in BOOLEAN,
         \/ mine' = mine /\ placed' = placed /\ unanswered' = unanswered
         \/ /\ mine' = mine \cup {o}
            /\ \/ placed' = placed + 1 /\ unanswered' = unanswered
               \/ placed' = placed /\ unanswered' = TRUE
  PROVE  Market'
<1>1. /\ status[o] = "absent" /\ status' = [status EXCEPT ![o] = "confirmed"]
      /\ listing' = <<o>> \o listing
  BY DEF Buyer!Arrives
<1>2. listing' \in Seq(Purchases) /\ Buyer!ToSet(listing') = {o} \cup Buyer!ToSet(listing)
  BY <1>1, Prepended DEF Market
<1>3. status' \in [Purchases -> Buyer!OrderStatus]
      /\ {p \in Purchases : status'[p] # "absent"} = {o} \cup {p \in Purchases : status[p] # "absent"}
  BY <1>1, PipelineFacts DEF Market
<1>4. Buyer!ToSet(listing)' = Buyer!ToSet(listing')
  BY DEF Buyer!ToSet
<1>5. o \notin mine /\ mine' \subseteq Buyer!ToSet(listing')
  BY <1>1, <1>2 DEF Market
<1>6. /\ IsFiniteSet(mine) /\ Cardinality(mine) \in Nat
      /\ Cardinality(mine \cup {o}) = Cardinality(mine) + 1
  BY <1>5, MineIsFinite, FS_AddElement
<1>7. placed' \in Nat /\ placed' <= Cardinality(mine')
      /\ (~unanswered' => placed' = Cardinality(mine'))
  <2>1. /\ placed \in Nat /\ placed <= Cardinality(mine)
        /\ (~unanswered => placed = Cardinality(mine))
    BY DEF Market
  <2>2. CASE mine' = mine /\ placed' = placed /\ unanswered' = unanswered
    BY <2>1, <2>2
  <2>3. CASE mine' = mine \cup {o} /\ placed' = placed + 1 /\ unanswered' = unanswered
    <3>1. Cardinality(mine') = Cardinality(mine) + 1
      BY <1>6, <2>3
    <3> QED BY <1>6, <2>1, <2>3, <3>1
  <2>4. CASE mine' = mine \cup {o} /\ placed' = placed /\ unanswered' = TRUE
    <3>1. Cardinality(mine') = Cardinality(mine) + 1
      BY <1>6, <2>4
    <3> QED BY <1>6, <2>1, <2>4, <3>1
  <2> QED BY <2>2, <2>3, <2>4
<1> QED BY <1>2, <1>3, <1>4, <1>5, <1>7 DEF Market

LEMMA MarketAround ==
  ASSUME Market, UNCHANGED <<listing, mine, placed>>, unanswered => unanswered',
         \/ status' = status
         \/ \E o \in Purchases, next \in Buyer!OrderStatus :
                /\ status[o] # "absent" /\ next # "absent"
                /\ status' = [status EXCEPT ![o] = next]
  PROVE  Market'
<1>1. status' \in [Purchases -> Buyer!OrderStatus]
      /\ {p \in Purchases : status'[p] # "absent"} = {p \in Purchases : status[p] # "absent"}
  BY DEF Market
<1>2. Buyer!ToSet(listing)' = Buyer!ToSet(listing)
  BY DEF Buyer!ToSet
<1> QED BY <1>1, <1>2 DEF Market

LEMMA LoopStages ==
  /\ {"off", "starting", "shopping", "ordering", "paging", "patching", "resting", "over"}
        = Buyer!Stage
  /\ Buyer!Min(Buyer!Passes) = 1 /\ Buyer!Max(Buyer!Passes) = 4
<1>1. /\ 1 \in 1..4 /\ 4 \in 1..4 /\ \A y \in 1..4 : 1 <= y /\ 4 >= y
      /\ \A x \in 1..4 : (\A y \in 1..4 : x <= y) => x = 1
      /\ \A x \in 1..4 : (\A y \in 1..4 : x >= y) => x = 4
  OBVIOUS
<1>2. Buyer!Min(Buyer!Passes) = 1
  BY <1>1 DEF Buyer!Min, Buyer!Passes
<1>3. Buyer!Max(Buyer!Passes) = 4
  BY <1>1 DEF Buyer!Max, Buyer!Passes
<1> QED BY <1>2, <1>3 DEF Buyer!Stage

(* The loop in another stage, in another pass or round, with other pages.       *)
LEMMA LoopTo ==
  ASSUME NEW x, LoopOK(x), NEW stage \in Buyer!Stage, stage \in {"paging", "patching"} => x.pass # 0
  PROVE  LoopOK([x EXCEPT !.stage = stage]) /\ [x EXCEPT !.stage = stage].stage = stage
<1> DEFINE y == [x EXCEPT !.stage = stage]
<1>1. /\ y \in [stage : Buyer!Stage, round : 0..2, pass : 0..4,
                offset : {y.offset}, batch : {y.batch}]
      /\ y.stage = stage /\ y.pass = x.pass
  BY DEF LoopOK
<1> HIDE DEF y
<1>2. LoopOK(y)
  BY <1>1 DEF LoopOK
<1> QED BY <1>1, <1>2 DEF y

LEMMA LoopToPass ==
  ASSUME NEW x, LoopOK(x), NEW stage \in Buyer!Stage, NEW pass \in 0..4,
         stage \in {"paging", "patching"} => pass # 0
  PROVE  LoopOK([x EXCEPT !.stage = stage, !.pass = pass])
         /\ [x EXCEPT !.stage = stage, !.pass = pass].stage = stage
<1> DEFINE y == [x EXCEPT !.stage = stage, !.pass = pass]
<1>1. /\ y \in [stage : Buyer!Stage, round : 0..2, pass : 0..4,
                offset : {y.offset}, batch : {y.batch}]
      /\ y.stage = stage /\ y.pass = pass
  BY DEF LoopOK
<1> HIDE DEF y
<1>2. LoopOK(y)
  BY <1>1 DEF LoopOK
<1> QED BY <1>1, <1>2 DEF y

LEMMA LoopPages ==
  ASSUME NEW x, LoopOK(x), NEW pass \in 1..4
  PROVE  LoopOK([x EXCEPT !.stage = "paging", !.pass = pass])
         /\ [x EXCEPT !.stage = "paging", !.pass = pass].stage = "paging"
<1>1. PICK p \in 0..4 : p = pass /\ p # 0
  OBVIOUS
<1>2. PICK stage \in Buyer!Stage : stage = "paging"
  BY LoopStages
<1>3. LoopOK([x EXCEPT !.stage = stage, !.pass = p])
      /\ [x EXCEPT !.stage = stage, !.pass = p].stage = stage
  BY <1>1, LoopToPass
<1> QED BY <1>1, <1>2, <1>3

LEMMA LoopToRound ==
  ASSUME NEW x, LoopOK(x), NEW round \in 0..2
  PROVE  LoopOK([x EXCEPT !.stage = "shopping", !.round = round])
         /\ [x EXCEPT !.stage = "shopping", !.round = round].stage = "shopping"
<1> DEFINE y == [x EXCEPT !.stage = "shopping", !.round = round]
<1>1. /\ y \in [stage : Buyer!Stage, round : 0..2, pass : 0..4,
                offset : {y.offset}, batch : {y.batch}]
      /\ y.stage = "shopping"
  BY LoopStages DEF LoopOK
<1> HIDE DEF y
<1>2. LoopOK(y)
  BY <1>1 DEF LoopOK
<1> QED BY <1>1, <1>2 DEF y

LEMMA LoopToBatch ==
  ASSUME NEW x, LoopOK(x), NEW batch, NEW y, y = [x EXCEPT !.batch = batch]
  PROVE  LoopOK(y) /\ y.stage = x.stage
<1>1. x \in [stage : Buyer!Stage, round : 0..2, pass : 0..4, offset : {x.offset}, batch : {x.batch}]
      /\ (x.stage \in {"paging", "patching"} => x.pass # 0)
  BY DEF LoopOK
<1>2. /\ y \in [stage : Buyer!Stage, round : 0..2, pass : 0..4,
                offset : {y.offset}, batch : {y.batch}]
      /\ y.stage = x.stage /\ y.pass = x.pass
  BY <1>1
<1> QED BY <1>1, <1>2 DEF LoopOK

LEMMA ShoppingEnds ==
  ASSUME LoopOK(sim)
  PROVE  LoopOK(Buyer!AfterShopping) /\ Buyer!AfterShopping.stage \in {"paging", "resting"}
<1>1. "paging" \in Buyer!Stage /\ "resting" \in Buyer!Stage /\ 1 \in 0..4 /\ 0 \in 0..2
  BY LoopStages
<1>2. LoopOK([sim EXCEPT !.stage = "paging", !.pass = 1])
      /\ [sim EXCEPT !.stage = "paging", !.pass = 1].stage = "paging"
  <2>1. PICK pass \in 1..4 : pass = 1
    BY <1>1
  <2>2. LoopOK([sim EXCEPT !.stage = "paging", !.pass = pass])
        /\ [sim EXCEPT !.stage = "paging", !.pass = pass].stage = "paging"
    BY <1>1, <2>1, LoopPages
  <2> QED BY <2>1, <2>2
<1>3. LoopOK([sim EXCEPT !.stage = "resting"]) /\ [sim EXCEPT !.stage = "resting"].stage = "resting"
  BY <1>1, LoopTo
<1> QED BY <1>2, <1>3, LoopStages DEF Buyer!AfterShopping

(* Steps of the loop alone.                                                    *)
LEMMA LoopAlone ==
  ASSUME BuyerInv, UNCHANGED <<status, listing, mine, skus, customers, registered, placed, unanswered>>,
         LoopOK(sim)', sim'.stage \in {"off", "starting"} => skus = {},
         sim'.stage = "over" => Cardinality(skus) < FewGoods
  PROVE  BuyerInv'
<1>1. Market'
  BY MarketAround DEF BuyerInv
<1> QED BY <1>1 DEF BuyerInv, Clientele, KnownGoods

LEMMA LoopSteps ==
  ASSUME BuyerInv,
         \/ Buyer!StartSimulator \/ Buyer!PlaceNothing \/ Buyer!DrawWholesale
         \/ (\E i \in 1..4 : Buyer!FetchPage(i)) \/ Buyer!FetchPageFails \/ Buyer!PatchFails
         \/ Buyer!NextPass \/ Buyer!Rest
  PROVE  BuyerInv'
<1>1. UNCHANGED <<status, listing, mine, skus, customers, registered, placed, unanswered>>
  BY DEF Buyer!StartSimulator, Buyer!PlaceNothing, Buyer!DrawWholesale, Buyer!FetchPage,
     Buyer!FetchPageFails, Buyer!PatchFails, Buyer!NextPass, Buyer!Rest, Buyer!counters
<1>2. /\ LoopOK(sim) /\ 0 \in 0..2 /\ 0 \in 0..4 /\ sim.pass \in 0..4 /\ sim.round \in 0..2
      /\ sim.stage \in Buyer!Stage
      /\ sim.stage \in {"paging", "patching"} => sim.pass # 0
      /\ sim.stage = "off" => skus = {}
  BY DEF BuyerInv, LoopOK, KnownGoods
<1>3. CASE Buyer!StartSimulator
  <2>1. sim' = [sim EXCEPT !.stage = "starting"] /\ "starting" \in Buyer!Stage /\ sim.stage = "off"
    BY <1>3, LoopStages DEF Buyer!StartSimulator, Buyer!Go
  <2>2. LoopOK(sim') /\ sim'.stage = "starting"
    BY <1>2, <2>1, LoopTo
  <2> QED BY <1>1, <1>2, <2>1, <2>2, LoopAlone DEF LoopOK
<1>4. CASE Buyer!PlaceNothing
  BY <1>1, <1>2, <1>4, ShoppingEnds, LoopAlone DEF Buyer!PlaceNothing, LoopOK
<1>5. CASE Buyer!DrawWholesale
  <2>1. sim' = [sim EXCEPT !.stage = "over"] /\ "over" \in Buyer!Stage
        /\ Cardinality(skus) < FewGoods
    BY <1>5, LoopStages, BuyerCardinality
    DEF Buyer!DrawWholesale, Buyer!WholesaleImpossible, Buyer!Go
  <2>2. LoopOK(sim') /\ sim'.stage = "over"
    BY <1>2, <2>1, LoopTo
  <2> QED BY <1>1, <2>1, <2>2, LoopAlone DEF LoopOK
<1>6. ASSUME NEW i \in 1..4, Buyer!FetchPage(i) PROVE BuyerInv'
  <2> DEFINE page == SubSeq(Buyer!Listed, sim.offset + 1,
                            Buyer!Min({sim.offset + PageSize, Len(Buyer!Listed)}))
             stage == IF Len(page) < PageSize THEN "patching" ELSE "paging"
             batch == sim.batch \o page
             offset == IF Len(page) < PageSize THEN 0 ELSE sim.offset + PageSize
  <2>1. /\ sim' = [sim EXCEPT !.batch = batch, !.stage = stage, !.offset = offset]
        /\ sim.stage = "paging"
    BY <1>6 DEF Buyer!FetchPage
  <2>2. stage \in {"paging", "patching"}
    OBVIOUS
  <2> HIDE DEF batch, stage, offset
  <2>3. sim \in [stage : Buyer!Stage, round : 0..2, pass : 0..4,
                 offset : {sim.offset}, batch : {sim.batch}]
        /\ stage \in Buyer!Stage /\ sim.pass # 0
    BY <1>2, <2>1, <2>2, LoopStages DEF LoopOK
  <2>4. /\ sim' \in [stage : Buyer!Stage, round : 0..2, pass : 0..4,
                     offset : {sim'.offset}, batch : {sim'.batch}]
        /\ sim'.stage = stage /\ sim'.pass = sim.pass
    BY <2>1, <2>3
  <2>5. LoopOK(sim')
    BY <2>3, <2>4 DEF LoopOK
  <2> QED BY <1>1, <2>2, <2>4, <2>5, LoopAlone DEF LoopOK
<1>7. CASE Buyer!FetchPageFails
  <2>1. sim' = [sim EXCEPT !.stage = "patching", !.offset = 0] /\ sim.stage = "paging"
    BY <1>7 DEF Buyer!FetchPageFails
  <2>2. sim \in [stage : Buyer!Stage, round : 0..2, pass : 0..4,
                 offset : {sim.offset}, batch : {sim.batch}]
        /\ "patching" \in Buyer!Stage /\ sim.pass # 0
    BY <1>2, <2>1, LoopStages DEF LoopOK
  <2>3. /\ sim' \in [stage : Buyer!Stage, round : 0..2, pass : 0..4,
                     offset : {sim'.offset}, batch : {sim'.batch}]
        /\ sim'.stage = "patching" /\ sim'.pass = sim.pass
    BY <2>1, <2>2
  <2>4. LoopOK(sim')
    BY <2>2, <2>3 DEF LoopOK
  <2> QED BY <1>1, <2>3, <2>4, LoopAlone DEF LoopOK
<1>8. CASE Buyer!PatchFails
  <2>1. PICK batch : sim' = [sim EXCEPT !.batch = batch] /\ sim.stage = "patching"
    BY <1>8 DEF Buyer!PatchFails
  <2>2. LoopOK(sim') /\ sim'.stage = "patching"
    BY <1>2, <2>1, LoopToBatch
  <2> QED BY <1>1, <2>2, LoopAlone DEF LoopOK
<1>9. CASE Buyer!NextPass
  <2>1. CASE sim.pass = 4 /\ sim' = [sim EXCEPT !.stage = "resting", !.pass = 0]
    <3>1. "resting" \in Buyer!Stage
      BY LoopStages
    <3>2. LoopOK(sim') /\ sim'.stage = "resting"
      <4>1. LoopOK(sim) /\ 0 \in 0..4 /\ "resting" \notin {"paging", "patching"}
        BY <1>2
      <4>2. LoopOK([sim EXCEPT !.stage = "resting", !.pass = 0])
            /\ [sim EXCEPT !.stage = "resting", !.pass = 0].stage = "resting"
        BY <3>1, <4>1, LoopToPass
      <4> QED BY <2>1, <4>2
    <3> QED BY <1>1, <3>2, LoopAlone DEF LoopOK
  <2>2. CASE sim.pass # 4 /\ sim' = [sim EXCEPT !.stage = "paging", !.pass = sim.pass + 1]
    <3>1. PICK pass \in 1..4 : pass = sim.pass + 1
      BY <1>2, <2>2
    <3>2. LoopOK(sim') /\ sim'.stage = "paging"
      BY <1>2, <2>2, <3>1, LoopPages
    <3> QED BY <1>1, <3>2, LoopAlone DEF LoopOK
  <2> QED BY <1>9, <2>1, <2>2, LoopStages DEF Buyer!NextPass
<1>10. CASE Buyer!Rest
  <2>1. PICK round : round = (sim.round + 1) % 3 /\ sim' = [sim EXCEPT !.stage = "shopping", !.round = round]
    BY <1>10 DEF Buyer!Rest
  <2>2. round \in 0..2 /\ "shopping" \in Buyer!Stage
    <3>1. CASE sim.round = 0
      BY <2>1, <3>1, LoopStages
    <3>2. CASE sim.round = 1
      BY <2>1, <3>2, LoopStages
    <3>3. CASE sim.round = 2
      BY <2>1, <3>3, LoopStages
    <3> QED BY <1>2, <3>1, <3>2, <3>3
  <2>3. LoopOK(sim') /\ sim'.stage = "shopping"
    BY <1>2, <2>1, <2>2, LoopToRound
  <2> QED BY <1>1, <2>3, LoopAlone DEF LoopOK
<1> QED BY <1>3, <1>4, <1>5, <1>6, <1>7, <1>8, <1>9, <1>10

(* Other clients, and the simulator's patch of an order that is still where it   *)
(* found it.                                                                     *)
LEMMA OrdersMove ==
  ASSUME BuyerInv, NEW o \in Purchases,
         \/ Buyer!OtherOrder(o) \/ Buyer!OtherCancel(o) \/ Buyer!OtherPatch(o)
         \/ Buyer!Patch(o)
  PROVE  BuyerInv'
<1>1. UNCHANGED <<mine, skus, customers, registered, placed, unanswered>>
  BY DEF Buyer!OtherOrder, Buyer!OtherCancel, Buyer!OtherPatch, Buyer!Patch, Buyer!counters
<1>2. LoopOK(sim') /\ sim'.stage = sim.stage
  <2>1. PICK batch : sim' \in {sim, [sim EXCEPT !.batch = batch]}
    BY DEF Buyer!OtherOrder, Buyer!OtherCancel, Buyer!OtherPatch, Buyer!Patch
  <2>2. LoopOK(sim)
    BY DEF BuyerInv
  <2>3. CASE sim' = sim
    BY <2>2, <2>3
  <2>4. CASE sim' = [sim EXCEPT !.batch = batch]
    BY <2>2, <2>4, LoopToBatch
  <2> QED BY <2>1, <2>3, <2>4
<1>3. Market'
  <2>1. CASE Buyer!OtherOrder(o)
    BY <1>1, <2>1, MarketArrives DEF BuyerInv, Buyer!OtherOrder
  <2>2. CASE Buyer!OtherCancel(o)
    <3>1. /\ listing' = listing /\ status[o] # "absent"
          /\ status' = [status EXCEPT ![o] = "cancelled"]
      BY <2>2 DEF Buyer!OtherCancel
    <3> QED BY <1>1, <3>1, PipelineFacts, MarketAround DEF BuyerInv
  <2>3. CASE Buyer!Patch(o)
    <3>1. listing' = listing /\ sim.pass \in 1..4
      BY <2>3 DEF Buyer!Patch, BuyerInv, LoopOK
    <3>2. CASE status' = status
      BY <1>1, <3>1, <3>2, MarketAround DEF BuyerInv
    <3>3. CASE /\ status[o] = Buyer!Pipeline[sim.pass]
               /\ status' = [status EXCEPT ![o] = Buyer!Pipeline[sim.pass + 1]]
      <4>1. sim.pass \in 1..5 /\ sim.pass + 1 \in 1..5
        BY <3>1
      <4>2. PICK next \in Buyer!OrderStatus : next = Buyer!Pipeline[sim.pass + 1] /\ next # "absent"
        BY <4>1, PipelineFacts
      <4>3. status[o] # "absent" /\ status' = [status EXCEPT ![o] = next]
        BY <3>3, <4>1, <4>2, PipelineFacts
      <4> QED BY <1>1, <3>1, <4>2, <4>3, MarketAround DEF BuyerInv
    <3> QED BY <2>3, <3>2, <3>3 DEF Buyer!Patch, Buyer!From
  <2>4. CASE Buyer!OtherPatch(o)
    <3>1. PICK i \in 1..4 : /\ listing' = listing /\ status[o] = Buyer!Pipeline[i]
                            /\ status' = [status EXCEPT ![o] = Buyer!Pipeline[i + 1]]
      BY <2>4 DEF Buyer!OtherPatch
    <3>2. i \in 1..5 /\ i + 1 \in 1..5
      BY <3>1
    <3>3. PICK next \in Buyer!OrderStatus : next = Buyer!Pipeline[i + 1] /\ next # "absent"
      BY <3>2, PipelineFacts
    <3>4. status[o] # "absent" /\ status' = [status EXCEPT ![o] = next]
      BY <3>1, <3>2, <3>3, PipelineFacts
    <3> QED BY <1>1, <3>1, <3>3, <3>4, MarketAround DEF BuyerInv
  <2> QED BY <2>1, <2>2, <2>3, <2>4
<1> QED BY <1>1, <1>2, <1>3 DEF BuyerInv, LoopOK, Clientele, KnownGoods

LEMMA CatalogRefreshed ==
  ASSUME BuyerInv, Buyer!RefreshCatalog
  PROVE  BuyerInv'
<1>1. /\ UNCHANGED <<status, listing, mine, customers, registered, placed, unanswered>>
      /\ skus' \subseteq Goods /\ skus \subseteq Goods
      /\ sim.stage = "starting" => skus = {}
  BY DEF Buyer!RefreshCatalog, BuyerInv, KnownGoods
<1>2. Market'
  BY <1>1, MarketAround DEF BuyerInv
<1>3. /\ sim' \in {[sim EXCEPT !.stage = "shopping"], Buyer!AfterShopping, sim,
                   [sim EXCEPT !.stage = "over"]}
      /\ sim' = sim => sim.stage = "shopping"
      /\ sim' = [sim EXCEPT !.stage = "over"] => skus' = {}
  <2>1. /\ [sim EXCEPT !.stage = "over"].stage = "over"
        /\ [sim EXCEPT !.stage = "shopping"].stage = "shopping"
        /\ Buyer!AfterShopping.stage \notin {"over", "starting"}
    <3>1. LoopOK(sim) /\ {"over", "shopping"} \subseteq Buyer!Stage
      BY LoopStages DEF BuyerInv
    <3> QED BY <3>1, LoopTo, ShoppingEnds
  <2>2. sim.stage \in {"starting", "shopping"}
    BY DEF Buyer!RefreshCatalog
  <2>3. CASE \E some \in SUBSET Goods :
                  /\ skus' = some
                  /\ sim' = IF sim.stage = "starting" THEN [sim EXCEPT !.stage = "shopping"]
                            ELSE IF some = {} THEN Buyer!AfterShopping ELSE sim
    BY <2>1, <2>2, <2>3
  <2>4. CASE /\ sim' = IF sim.stage = "starting" THEN [sim EXCEPT !.stage = "over"]
                       ELSE Buyer!AfterShopping
             /\ skus' = skus
    BY <1>1, <2>1, <2>2, <2>4
  <2> QED BY <2>3, <2>4 DEF Buyer!RefreshCatalog
<1>4. LoopOK(sim') /\ sim'.stage \in {"shopping", "paging", "resting", "over"}
      /\ (sim'.stage = "over" => skus' = {})
  <2>1. LoopOK(sim) /\ {"over", "shopping"} \subseteq Buyer!Stage
    BY LoopStages DEF BuyerInv
  <2>2. /\ LoopOK([sim EXCEPT !.stage = "over"]) /\ [sim EXCEPT !.stage = "over"].stage = "over"
        /\ LoopOK([sim EXCEPT !.stage = "shopping"])
        /\ [sim EXCEPT !.stage = "shopping"].stage = "shopping"
    BY <2>1, LoopTo
  <2> QED BY <1>3, <2>1, <2>2, ShoppingEnds
<1>5. Cardinality({}) = 0 /\ 0 < FewGoods
  BY FS_EmptySet, BuyerConstants
<1>6. KnownGoods'
  BY <1>1, <1>4, <1>5 DEF KnownGoods
<1> QED BY <1>1, <1>2, <1>4, <1>6 DEF BuyerInv, LoopOK, Clientele

LEMMA CustomerPicked ==
  ASSUME BuyerInv, Buyer!PickCustomer
  PROVE  BuyerInv'
<1>1. UNCHANGED <<status, listing, mine, skus, placed>>
  BY DEF Buyer!PickCustomer
<1>2. sim' \in {[sim EXCEPT !.stage = "ordering"], Buyer!AfterShopping}
  BY DEF Buyer!PickCustomer, Buyer!Go
<1>3. LoopOK(sim') /\ sim'.stage \in {"ordering", "paging", "resting"}
  <2>1. LoopOK(sim) /\ "ordering" \in Buyer!Stage
    BY LoopStages DEF BuyerInv
  <2>2. LoopOK([sim EXCEPT !.stage = "ordering"])
        /\ [sim EXCEPT !.stage = "ordering"].stage = "ordering"
    BY <2>1, LoopTo
  <2> QED BY <1>2, <2>1, <2>2, ShoppingEnds
<1>4. /\ \/ customers' = customers /\ registered' = registered /\ unanswered' = unanswered
         \/ /\ registered < People /\ registered' = registered + 1
            /\ \/ customers' = customers + 1 /\ unanswered' = unanswered
               \/ customers' = customers /\ unanswered' = TRUE
  BY DEF Buyer!PickCustomer
<1>5. Clientele' /\ unanswered' \in BOOLEAN /\ (unanswered => unanswered')
  <2>1. /\ customers \in Nat /\ registered \in Nat /\ customers <= registered
        /\ registered <= People /\ (~unanswered => customers = registered) /\ People \in Nat
        /\ unanswered \in BOOLEAN
    BY BuyerConstants DEF BuyerInv, Clientele
  <2>2. CASE customers' = customers /\ registered' = registered /\ unanswered' = unanswered
    BY <2>1, <2>2 DEF Clientele
  <2>3. CASE /\ registered < People /\ registered' = registered + 1
             /\ customers' = customers + 1 /\ unanswered' = unanswered
    BY <2>1, <2>3 DEF Clientele
  <2>4. CASE /\ registered < People /\ registered' = registered + 1
             /\ customers' = customers /\ unanswered' = TRUE
    BY <2>1, <2>4 DEF Clientele
  <2> QED BY <1>4, <2>2, <2>3, <2>4
<1>6. Market'
  BY <1>1, <1>5, MarketAround DEF BuyerInv
<1> QED BY <1>1, <1>3, <1>5, <1>6 DEF BuyerInv, LoopOK, KnownGoods

LEMMA OrderPlaced ==
  ASSUME BuyerInv, NEW o \in Purchases, Buyer!PlaceOrder(o)
  PROVE  BuyerInv'
<1>1. /\ Buyer!Arrives(o) /\ mine' = mine \cup {o} /\ sim' = Buyer!AfterShopping
      /\ UNCHANGED <<skus, customers, registered>>
      /\ \/ placed' = placed + 1 /\ unanswered' = unanswered
         \/ placed' = placed /\ unanswered' = TRUE
  BY DEF Buyer!PlaceOrder
<1>2. LoopOK(sim') /\ sim'.stage \in {"paging", "resting"}
  BY <1>1, ShoppingEnds DEF BuyerInv
<1>3. Market'
  BY <1>1, MarketArrives DEF BuyerInv
<1>4. unanswered' \in BOOLEAN /\ (unanswered => unanswered')
  <2>1. unanswered \in BOOLEAN
    BY DEF BuyerInv
  <2>2. CASE unanswered' = unanswered
    BY <2>1, <2>2
  <2>3. CASE unanswered' = TRUE
    BY <2>3
  <2> QED BY <1>1, <2>2, <2>3
<1> QED BY <1>1, <1>2, <1>3, <1>4 DEF BuyerInv, LoopOK, Clientele, KnownGoods

LEMMA BuyerStep ==
  ASSUME BuyerInv, [Buyer!Next]_buyerVars
  PROVE  BuyerInv'
<1>1. CASE UNCHANGED buyerVars
  BY <1>1, LoopAlone DEF buyerVars, BuyerInv, LoopOK, KnownGoods
<1> QED BY <1>1, LoopSteps, OrdersMove, CatalogRefreshed, CustomerPicked, OrderPlaced
     DEF Buyer!Next, Buyer!Step

(* The simulator's counters are the orders and customers that exist because of    *)
(* it, less only those whose answers were lost (place_order, _pick_customer), and  *)
(* nothing but a small or missing catalog ends its loop (run_loop).                *)
THEOREM BuyerStaysSound == PeripherySpec => []BuyerIsSound
<1>1. PeripheryInit => BuyerInv
  BY BuyerBegins DEF PeripheryInit
<1>2. BuyerInv /\ [PeripheryNext]_peripheryVars => BuyerInv'
  <2>1. [PeripheryNext]_peripheryVars => [Buyer!Next]_buyerVars
    BY DEF PeripheryNext, Others, peripheryVars, buyerVars
  <2> QED BY <2>1, BuyerStep
<1>3. BuyerInv => BuyerIsSound
  BY BuyerFacts DEF BuyerIsSound
<1> QED BY <1>1, <1>2, <1>3, PTL DEF PeripherySpec
=============================================================================
