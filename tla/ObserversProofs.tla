--------------------------- MODULE ObserversProofs ---------------------------
(***************************************************************************)
(* Proofs about the gateway, the event hub and the start of a deployment   *)
(* of Observers.  The gateway, for every limit and every finite set of     *)
(* requests: the limiter never lets through more than the limit, and no    *)
(* request is carried out twice.  The hub, for every set of orders and     *)
(* sockets and every capacity: no client is sent an activity twice or      *)
(* misses one of the history, and an order is announced again only if it   *)
(* was forgotten.  The start, for every set of services and any number of  *)
(* faults: a committed schema is what its revisions create, and nothing    *)
(* starts before what it depends on has its schema.                        *)
(***************************************************************************)
EXTENDS Observers, FiniteSetTheorems, SequenceTheorems, WellFoundedInduction, TLAPS

LEMMA ProxyCardinality == \A S : Proxy!Cardinality(S) = Cardinality(S)
BY DEF Proxy!Cardinality, Cardinality

-----------------------------------------------------------------------------
(* The gateway.                                                                *)

(* The handlers that made the key and have not yet given it an expiry.         *)
Makers == {c \in Calls : call[c] = "first"}

(* The requests the limiter has decided to let through.                        *)
Granted == passed \cup Makers

(* A maker is alone, and its key cannot expire under it: so whoever is granted *)
(* was counted by the very key that is there now.                              *)
GatewayInv ==
    /\ Proxy!TypeOK
    /\ \A c, d \in Makers : c = d
    /\ Makers # {} => count > 0 /\ ~expires
    /\ count = 0 => passed = {} /\ ~expires
    /\ \A c \in passed : call[c] \in {"forwarding", "answered", "unavailable"}
    /\ Cardinality(Granted) <= Limit
    /\ Cardinality(Granted) <= count
    /\ Proxy!CarriedOutOnce

LEMMA GatewayConstants == IsFiniteSet(Calls) /\ Limit \in Nat \ {0}
<1>1. Proxy!GatewayAssumption
  BY ObserversAssumption
<1> QED BY <1>1 DEF Proxy!GatewayAssumption, Proxy!IsFiniteSet, IsFiniteSet

LEMMA GatewayInit == Proxy!Init => GatewayInv
<1> SUFFICES ASSUME Proxy!Init PROVE GatewayInv
  OBVIOUS
<1>1. Makers = {} /\ Granted = {}
  BY DEF Proxy!Init, Makers, Granted
<1>2. Cardinality(Granted) = 0
  BY <1>1, FS_EmptySet
<1>3. Proxy!TypeOK
  BY DEF Proxy!Init, Proxy!TypeOK, Proxy!Stage
<1>4. Proxy!CarriedOutOnce
  BY DEF Proxy!Init, Proxy!CarriedOutOnce
<1> QED BY <1>1, <1>2, <1>3, <1>4, GatewayConstants DEF GatewayInv, Proxy!Init

LEMMA GrantedFinite ==
  ASSUME Proxy!TypeOK
  PROVE  IsFiniteSet(Granted) /\ Cardinality(Granted) \in Nat
<1>1. Granted \in SUBSET Calls
  BY DEF Granted, Makers, Proxy!TypeOK
<1> QED BY <1>1, GatewayConstants, FS_Subset, FS_CardinalityType

(* What moves a handler without a maker, the counter or the key.               *)
LEMMA GatewayQuiet ==
  ASSUME GatewayInv, Proxy!TypeOK', Proxy!CarriedOutOnce',
         UNCHANGED <<count, expires, passed>>, Makers' \subseteq Makers,
         \A c \in passed : call'[c] \in {"forwarding", "answered", "unavailable"}
  PROVE  GatewayInv'
<1>1. Granted' \in SUBSET Granted
  BY DEF Granted
<1>2. Cardinality(Granted') <= Cardinality(Granted) /\ Cardinality(Granted') \in Nat
  BY <1>1, GrantedFinite, FS_Subset, FS_CardinalityType DEF GatewayInv
<1>3. /\ Cardinality(Granted) \in Nat /\ Limit \in Nat /\ count \in Nat
  BY GrantedFinite, GatewayConstants DEF GatewayInv, Proxy!TypeOK
<1>4. Cardinality(Granted)' = Cardinality(Granted')
  OBVIOUS
<1> QED BY <1>2, <1>3, <1>4 DEF GatewayInv

LEMMA GatewayTyped == GatewayInv /\ Proxy!Next => Proxy!TypeOK'
<1> SUFFICES ASSUME GatewayInv, Proxy!Next PROVE Proxy!TypeOK'
  OBVIOUS
<1> USE DEF GatewayInv, Proxy!TypeOK, Proxy!Stage
<1>1. ASSUME NEW c \in Calls, Proxy!Route(c) PROVE Proxy!TypeOK'
  BY <1>1 DEF Proxy!Route, Proxy!Move
<1>2. ASSUME NEW c \in Calls, Proxy!Incr(c) PROVE Proxy!TypeOK'
  BY <1>2 DEF Proxy!Incr, Proxy!LetThrough, Proxy!Move, Proxy!Allows
<1>3. ASSUME NEW c \in Calls, Proxy!Expire(c) PROVE Proxy!TypeOK'
  BY <1>3 DEF Proxy!Expire, Proxy!LetThrough, Proxy!Move
<1>4. ASSUME NEW c \in Calls, Proxy!Die(c) PROVE Proxy!TypeOK'
  BY <1>4 DEF Proxy!Die, Proxy!Move
<1>5. ASSUME NEW c \in Calls, Proxy!Execute(c) PROVE Proxy!TypeOK'
  BY <1>5 DEF Proxy!Execute
<1>6. ASSUME NEW c \in Calls, Proxy!Answer(c) PROVE Proxy!TypeOK'
  BY <1>6 DEF Proxy!Answer, Proxy!Move
<1>7. ASSUME NEW c \in Calls, Proxy!TimeOut(c) PROVE Proxy!TypeOK'
  BY <1>7 DEF Proxy!TimeOut, Proxy!Move
<1>8. CASE Proxy!WindowEnds
  BY <1>8 DEF Proxy!WindowEnds
<1> QED BY <1>1, <1>2, <1>3, <1>4, <1>5, <1>6, <1>7, <1>8 DEF Proxy!Next

LEMMA CarriedOnce == GatewayInv /\ Proxy!Next => Proxy!CarriedOutOnce'
<1> SUFFICES ASSUME GatewayInv, Proxy!Next PROVE Proxy!CarriedOutOnce'
  OBVIOUS
<1> USE DEF GatewayInv, Proxy!TypeOK, Proxy!Stage, Proxy!CarriedOutOnce
<1>1. ASSUME NEW c \in Calls, Proxy!Route(c) PROVE Proxy!CarriedOutOnce'
  BY <1>1 DEF Proxy!Route, Proxy!Move
<1>2. ASSUME NEW c \in Calls, Proxy!Incr(c) PROVE Proxy!CarriedOutOnce'
  BY <1>2 DEF Proxy!Incr, Proxy!LetThrough, Proxy!Move, Proxy!Allows
<1>3. ASSUME NEW c \in Calls, Proxy!Expire(c) PROVE Proxy!CarriedOutOnce'
  BY <1>3 DEF Proxy!Expire, Proxy!LetThrough, Proxy!Move
<1>4. ASSUME NEW c \in Calls, Proxy!Die(c) PROVE Proxy!CarriedOutOnce'
  BY <1>4 DEF Proxy!Die, Proxy!Move
<1>5. ASSUME NEW c \in Calls, Proxy!Execute(c) PROVE Proxy!CarriedOutOnce'
  BY <1>5 DEF Proxy!Execute
<1>6. ASSUME NEW c \in Calls, Proxy!Answer(c) PROVE Proxy!CarriedOutOnce'
  BY <1>6 DEF Proxy!Answer, Proxy!Move
<1>7. ASSUME NEW c \in Calls, Proxy!TimeOut(c) PROVE Proxy!CarriedOutOnce'
  BY <1>7 DEF Proxy!TimeOut, Proxy!Move
<1>8. CASE Proxy!WindowEnds
  BY <1>8 DEF Proxy!WindowEnds
<1> QED BY <1>1, <1>2, <1>3, <1>4, <1>5, <1>6, <1>7, <1>8 DEF Proxy!Next

(* The three ways INCR may end, and EXPIRE.                                      *)
LEMMA LimiterStep ==
  ASSUME GatewayInv, Proxy!TypeOK', Proxy!CarriedOutOnce',
         NEW c \in Calls, Proxy!Incr(c) \/ Proxy!Expire(c)
  PROVE  GatewayInv'
<1> USE DEF Proxy!Move
<1>t. /\ call \in [Calls -> Proxy!Stage] /\ passed \subseteq Calls /\ count \in Nat
      /\ Cardinality(Granted) \in Nat /\ IsFiniteSet(Granted)
      /\ Limit \in Nat /\ Limit > 0 /\ Makers \subseteq Calls
  BY GrantedFinite, GatewayConstants DEF GatewayInv, Proxy!TypeOK, Makers
<1>c. Cardinality(Granted)' = Cardinality(Granted')
  OBVIOUS
<1>1. CASE Proxy!Incr(c) /\ count = 0
  <2>1. passed' = {} /\ Makers = {} /\ Makers' = {c} /\ count' = 1 /\ ~expires'
    <3>1. Makers = {} /\ passed = {}
      BY <1>1, <1>t DEF GatewayInv
    <3>2. Makers' = {c}
      BY <1>1, <1>t, <3>1 DEF Proxy!Incr, Makers
    <3>3. ~expires
      BY <1>1 DEF GatewayInv
    <3> QED BY <1>1, <3>1, <3>2, <3>3 DEF Proxy!Incr
  <2>2. Granted' = {c} /\ Cardinality(Granted') = 1
    BY <2>1, FS_Singleton DEF Granted
  <2> QED BY <1>t, <1>c, <2>1, <2>2 DEF GatewayInv
<1>2. CASE Proxy!Incr(c) /\ count # 0 /\ Proxy!Allows(count + 1)
  <2>1. /\ count' = count + 1 /\ count + 1 <= Limit /\ UNCHANGED expires
        /\ passed' = passed \cup {c} /\ call' = [call EXCEPT ![c] = "forwarding"]
        /\ call[c] = "routed"
    BY <1>2, <1>t DEF Proxy!Incr, Proxy!Allows, Proxy!LetThrough
  <2>2. Makers' = Makers
    BY <2>1, <1>t DEF Makers
  <2>3. Granted' = Granted \cup {c}
    BY <2>1, <2>2 DEF Granted
  <2>4. Cardinality(Granted') <= Cardinality(Granted) + 1 /\ Cardinality(Granted') \in Nat
    <3>1. PICK some : some = Granted
      OBVIOUS
    <3>2. /\ Cardinality(some \cup {c})
                = IF c \in some THEN Cardinality(some) ELSE Cardinality(some) + 1
          /\ Cardinality(some) \in Nat
      BY <1>t, <3>1, FS_AddElement
    <3>3. Granted' = some \cup {c}
      BY <2>3, <3>1
    <3>4. Cardinality(some \cup {c}) \in Nat /\ Cardinality(some \cup {c}) <= Cardinality(some) + 1
      BY <3>2
    <3> QED BY <3>1, <3>3, <3>4
  <2>5. \A d \in passed' : call'[d] \in {"forwarding", "answered", "unavailable"}
    BY <1>t, <2>1 DEF GatewayInv
  <2>6. Cardinality(Granted)' <= Limit /\ Cardinality(Granted)' <= count'
    BY <1>t, <1>c, <2>1, <2>4 DEF GatewayInv
  <2> QED BY <1>t, <2>1, <2>2, <2>5, <2>6 DEF GatewayInv
<1>3. CASE Proxy!Incr(c) /\ count # 0 /\ ~Proxy!Allows(count + 1)
  <2>1. /\ count' = count + 1 /\ UNCHANGED <<expires, passed>>
        /\ call' = [call EXCEPT ![c] = "refused"] /\ call[c] = "routed"
    BY <1>3, <1>t DEF Proxy!Incr
  <2>2. Makers' = Makers /\ Granted' = Granted
    BY <2>1, <1>t DEF Makers, Granted
  <2>3. \A d \in passed' : call'[d] \in {"forwarding", "answered", "unavailable"}
    BY <1>t, <2>1 DEF GatewayInv
  <2>4. Cardinality(Granted)' <= Limit /\ Cardinality(Granted)' <= count'
    BY <1>t, <1>c, <2>1, <2>2 DEF GatewayInv
  <2> QED BY <1>t, <2>1, <2>2, <2>3, <2>4 DEF GatewayInv
<1>4. CASE Proxy!Expire(c)
  <2>1. /\ UNCHANGED count /\ passed' = passed \cup {c} /\ c \in Makers
        /\ call' = [call EXCEPT ![c] = "forwarding"]
    BY <1>4 DEF Proxy!Expire, Proxy!LetThrough, Makers
  <2>2. Makers = {c} /\ count > 0
    BY <2>1 DEF GatewayInv
  <2>3. Makers' = {}
    BY <2>1, <2>2, <1>t DEF Makers
  <2>4. Granted' = Granted
    BY <2>1, <2>2, <2>3 DEF Granted
  <2>5. \A d \in passed' : call'[d] \in {"forwarding", "answered", "unavailable"}
    BY <1>t, <2>1 DEF GatewayInv
  <2>6. Cardinality(Granted)' <= Limit /\ Cardinality(Granted)' <= count'
    BY <1>c, <2>1, <2>4 DEF GatewayInv
  <2> QED BY <1>t, <2>1, <2>2, <2>3, <2>5, <2>6 DEF GatewayInv
<1> QED BY <1>1, <1>2, <1>3, <1>4

LEMMA GatewayStep == GatewayInv /\ [Proxy!Next]_proxyVars => GatewayInv'
<1> SUFFICES ASSUME GatewayInv, [Proxy!Next]_proxyVars PROVE GatewayInv'
  OBVIOUS
<1>u. CASE UNCHANGED proxyVars
  <2>1. UNCHANGED <<Makers, Granted>> /\ Cardinality(Granted)' = Cardinality(Granted)
    BY <1>u DEF proxyVars, Makers, Granted
  <2> QED BY <1>u, <2>1 DEF proxyVars, GatewayInv, Proxy!TypeOK, Proxy!CarriedOutOnce
<1>n. CASE Proxy!Next
  <2>t. Proxy!TypeOK' /\ Proxy!CarriedOutOnce'
    BY <1>n, GatewayTyped, CarriedOnce
  <2>c. /\ call \in [Calls -> Proxy!Stage] /\ passed \subseteq Calls
        /\ \A c \in passed : call[c] \in {"forwarding", "answered", "unavailable"}
    BY DEF GatewayInv, Proxy!TypeOK
  <2>1. ASSUME NEW c \in Calls,
               \/ Proxy!Route(c) \/ Proxy!Die(c) \/ Proxy!Answer(c) \/ Proxy!TimeOut(c)
        PROVE  GatewayInv'
    <3>1. UNCHANGED <<count, expires, passed>>
      BY <2>1 DEF Proxy!Route, Proxy!Die, Proxy!Answer, Proxy!TimeOut
    <3>2. Makers' \subseteq Makers
      BY <2>1, <2>c DEF Proxy!Route, Proxy!Die, Proxy!Answer, Proxy!TimeOut, Proxy!Move, Makers
    <3>3. \A d \in passed : call'[d] \in {"forwarding", "answered", "unavailable"}
      BY <2>1, <2>c DEF Proxy!Route, Proxy!Die, Proxy!Answer, Proxy!TimeOut, Proxy!Move
    <3> QED BY <2>t, <3>1, <3>2, <3>3, GatewayQuiet
  <2>2. ASSUME NEW c \in Calls, Proxy!Execute(c) PROVE GatewayInv'
    <3>1. UNCHANGED <<count, expires, passed, call>>
      BY <2>2 DEF Proxy!Execute
    <3>2. Makers' = Makers
      BY <3>1 DEF Makers
    <3> QED BY <2>t, <2>c, <3>1, <3>2, GatewayQuiet
  <2>3. ASSUME NEW c \in Calls, Proxy!Incr(c) \/ Proxy!Expire(c) PROVE GatewayInv'
    BY <2>t, <2>3, LimiterStep
  <2>4. CASE Proxy!WindowEnds
    <3>1. Makers' = {} /\ passed' = {} /\ count' = 0 /\ ~expires'
      BY <2>4 DEF Proxy!WindowEnds, GatewayInv, Makers
    <3>2. Granted' = {} /\ Cardinality(Granted)' = 0
      BY <3>1, FS_EmptySet DEF Granted
    <3> QED BY <2>t, <3>1, <3>2, GatewayConstants DEF GatewayInv
  <2> QED BY <1>n, <2>1, <2>2, <2>3, <2>4 DEF Proxy!Next
<1> QED BY <1>u, <1>n

(* However the handlers of concurrent requests interleave and die, no more than the     *)
(* limit get through while the counter lives (_rate_limit), and a request is carried     *)
(* out at most once (proxy_request).                                                       *)
THEOREM ProxyStaysSound == ObserversSpec => []ProxyIsSound
<1>1. ObserversInit => GatewayInv
  BY GatewayInit DEF ObserversInit
<1>2. GatewayInv /\ [ObserversNext]_observersVars => GatewayInv'
  <2>1. [ObserversNext]_observersVars => [Proxy!Next]_proxyVars
    BY DEF ObserversNext, observersVars
  <2> QED BY <2>1, GatewayStep
<1>3. GatewayInv => ProxyIsSound
  <2> SUFFICES ASSUME GatewayInv PROVE ProxyIsSound
    OBVIOUS
  <2>1. passed \in SUBSET Granted
    BY DEF Granted
  <2>2. Cardinality(passed) <= Cardinality(Granted) /\ Cardinality(passed) \in Nat
    BY <2>1, GrantedFinite, FS_Subset, FS_CardinalityType DEF GatewayInv
  <2>3. Cardinality(passed) <= Limit
    BY <2>2, GrantedFinite, GatewayConstants DEF GatewayInv
  <2> QED BY <2>3, ProxyCardinality DEF GatewayInv, ProxyIsSound, Proxy!LimitHolds
<1> QED BY <1>1, <1>2, <1>3, PTL DEF ObserversSpec

-----------------------------------------------------------------------------
(* The event hub: first the helpers on sequences and sets it is built from.    *)

LEMMA HubConstants ==
  /\ History \in Nat /\ Recent \in Nat /\ SeenKept \in Nat /\ SeenLimit \in Nat /\ Pulses \in Nat
  /\ SeenKept <= SeenLimit /\ None \notin Sales
<1>1. Hub!EventHubAssumption
  BY ObserversAssumption
<1> QED BY <1>1 DEF Hub!EventHubAssumption

LEMMA HubCardinality == \A S : Hub!Cardinality(S) = Cardinality(S)
BY DEF Hub!Cardinality, Cardinality

LEMMA LeastNumber ==
  ASSUME NEW S \in SUBSET Nat, S # {}
  PROVE  Hub!Min(S) \in S /\ \A n \in S : Hub!Min(S) <= n
<1>1. PICK m \in S : \A n \in S : ~(<<n, m>> \in OpToRel(<, Nat))
  <2> HIDE DEF OpToRel
  <2> QED BY NatLessThanWellFounded, WFMin
<1>2. \A n \in S : m <= n
  <2> TAKE n \in S
  <2>1. m \in Nat /\ n \in Nat
    OBVIOUS
  <2>2. n < m => <<n, m>> \in OpToRel(<, Nat)
    BY <2>1 DEF OpToRel
  <2>3. ~(n < m)
    BY <1>1, <2>2, Zenon
  <2> QED BY <2>1, <2>3
<1> QED BY <1>2 DEF Hub!Min

LEMMA LesserOfTwo ==
  ASSUME NEW m \in Nat, NEW n \in Nat
  PROVE  Hub!Min({m, n}) = IF m <= n THEN m ELSE n
<1>1. {m, n} \in SUBSET Nat /\ {m, n} # {}
  OBVIOUS
<1>2. Hub!Min({m, n}) \in {m, n} /\ \A i \in {m, n} : Hub!Min({m, n}) <= i
  BY <1>1, LeastNumber
<1> QED BY <1>2

(* What is shown is the beginning of what there is.                              *)
LEMMA ShortenedFacts ==
  ASSUME NEW S, NEW s \in Seq(S), NEW n \in Nat
  PROVE  /\ Hub!Shortened(s, n) \in Seq(S)
         /\ Len(Hub!Shortened(s, n)) <= n
         /\ Hub!ToSet(Hub!Shortened(s, n)) \subseteq Hub!ToSet(s)
<1>1. PICK m \in Nat : m = (IF n <= Len(s) THEN n ELSE Len(s))
  OBVIOUS
<1>2. Hub!Shortened(s, n) = SubSeq(s, 1, m)
  BY <1>1, LesserOfTwo DEF Hub!Shortened
<1>3. m <= n /\ m <= Len(s)
  BY <1>1
<1>4. /\ SubSeq(s, 1, m) \in Seq(S) /\ Len(SubSeq(s, 1, m)) = m
      /\ \A i \in 1..m : SubSeq(s, 1, m)[i] = s[i]
  BY <1>3
<1> QED BY <1>2, <1>3, <1>4 DEF Hub!ToSet

LEMMA PutInFront ==
  ASSUME NEW S, NEW s \in Seq(S), NEW x \in S
  PROVE  /\ <<x>> \o s \in Seq(S)
         /\ Hub!ToSet(<<x>> \o s) = {x} \cup Hub!ToSet(s)
         /\ Hub!IsInjective(s) /\ x \notin Hub!ToSet(s) => Hub!IsInjective(<<x>> \o s)
<1> DEFINE all == <<x>> \o s
<1>1. /\ all \in Seq(S) /\ Len(all) = Len(s) + 1 /\ all[1] = x
      /\ \A i \in 1..Len(s) : all[i + 1] = s[i]
  OBVIOUS
<1>2. \A i \in 2..Len(s) + 1 : i - 1 \in 1..Len(s) /\ all[i] = s[i - 1]
  BY <1>1
<1> HIDE DEF all
<1>3. DOMAIN all = 1..Len(s) + 1 /\ DOMAIN s = 1..Len(s) /\ Len(s) \in Nat
  BY <1>1
<1>4. Hub!ToSet(all) = {x} \cup Hub!ToSet(s)
  <2>1. ASSUME NEW i \in 1..Len(s) + 1 PROVE all[i] \in {x} \cup Hub!ToSet(s)
    <3>1. CASE i = 1
      BY <1>1, <3>1
    <3>2. CASE i \in 2..Len(s) + 1
      <4>1. i - 1 \in DOMAIN s /\ all[i] = s[i - 1]
        BY <1>2, <1>3, <3>2
      <4> QED BY <4>1 DEF Hub!ToSet
    <3> QED BY <1>3, <3>1, <3>2
  <2>2. x \in Hub!ToSet(all)
    BY <1>1, <1>3 DEF Hub!ToSet
  <2>3. ASSUME NEW i \in 1..Len(s) PROVE s[i] \in Hub!ToSet(all)
    <3>1. i + 1 \in DOMAIN all /\ all[i + 1] = s[i]
      BY <1>1, <1>3
    <3> QED BY <3>1 DEF Hub!ToSet
  <2>4. Hub!ToSet(all) \subseteq {x} \cup Hub!ToSet(s)
    <3> HIDE DEF Hub!ToSet
    <3>1. Hub!ToSet(all) = {all[i] : i \in 1..Len(s) + 1}
      BY <1>3 DEF Hub!ToSet
    <3> QED BY <2>1, <3>1
  <2>5. Hub!ToSet(s) \subseteq Hub!ToSet(all)
    <3>1. Hub!ToSet(s) = {s[i] : i \in 1..Len(s)}
      BY <1>3 DEF Hub!ToSet
    <3> QED BY <2>3, <3>1
  <2> QED BY <2>2, <2>4, <2>5
<1>5. ASSUME Hub!IsInjective(s), x \notin Hub!ToSet(s) PROVE Hub!IsInjective(all)
  <2>1. SUFFICES ASSUME NEW i \in 1..Len(s) + 1, NEW j \in 1..Len(s) + 1, all[i] = all[j]
                 PROVE  i = j
    BY <1>3 DEF Hub!IsInjective
  <2>2. \A n \in 1..Len(s) : s[n] # x
    BY <1>3, <1>5 DEF Hub!ToSet
  <2>3. CASE i = 1 \/ j = 1
    BY <1>1, <1>2, <1>3, <2>1, <2>2, <2>3
  <2>4. CASE i # 1 /\ j # 1
    <3>1. i - 1 \in DOMAIN s /\ j - 1 \in DOMAIN s /\ s[i - 1] = s[j - 1]
      BY <1>2, <1>3, <2>1, <2>4
    <3>2. i - 1 = j - 1
      BY <1>5, <3>1 DEF Hub!IsInjective
    <3> QED BY <3>2, <1>3
  <2> QED BY <2>3, <2>4
<1> QED BY <1>1, <1>4, <1>5 DEF all

(* Trimming keeps the set of seen orders within its limit and invents nothing.   *)
LEMMA TrimmedFacts ==
  ASSUME NEW known, IsFiniteSet(known), NEW kept \in Hub!Trimmed(known)
  PROVE  kept \subseteq known /\ IsFiniteSet(kept) /\ Cardinality(kept) <= SeenLimit
<1>n. Cardinality(known) \in Nat
  BY FS_CardinalityType
<1>1. CASE Hub!Cardinality(known) > SeenLimit
  <2>1. kept \in {s \in SUBSET known : Hub!Cardinality(s) = SeenKept}
    BY <1>1 DEF Hub!Trimmed, Hub!kSubset
  <2>2. kept \in SUBSET known /\ Cardinality(kept) = SeenKept
    BY <2>1, HubCardinality
  <2>3. IsFiniteSet(kept)
    BY <2>2, FS_Subset
  <2> QED BY <2>2, <2>3, HubConstants
<1>2. CASE ~(Hub!Cardinality(known) > SeenLimit)
  <2>1. kept = known
    BY <1>2 DEF Hub!Trimmed
  <2>2. ~(Cardinality(known) > SeenLimit)
    BY <1>2, HubCardinality
  <2> QED BY <1>n, <2>1, <2>2, HubConstants
<1> QED BY <1>1, <1>2

(* A loop of the hub.                                                              *)
HubTask ==
    [stage : Hub!Stage, page : Seq(Sales), number : Nat, to : SUBSET Clients,
     dead : SUBSET Clients]

Quiet(h) == h.stage # "sending" /\ h.number = 0 /\ h.to = {} /\ h.dead = {}

LoopOK(h) ==
    /\ h \in HubTask
    /\ h.stage # "sending" => Quiet(h)
    /\ h.stage = "sending" => h.number > 0
    /\ h.stage = "fetching" => h.page # << >>

HubTypes ==
    /\ Hub!TypeOK
    /\ orders \in Seq(Sales) /\ inbox \in Seq(Sales) /\ activity \in Seq(Nat)
    /\ task \in [Hub!Tasks -> HubTask] /\ emitted \in Nat
    /\ received \in [Clients -> SUBSET Nat]
    /\ seen \subseteq Sales /\ IsFiniteSet(seen) /\ forgotten \subseteq Sales

(* An activity is sent by one loop only.                                            *)
Loops ==
    /\ \A t \in Hub!Tasks : LoopOK(task[t])
    /\ \A t, u \in Hub!Tasks : task[t].number > 0 /\ task[t].number = task[u].number => t = u

(* A socket that failed was closed, and one that never connected is in no audience.  *)
Sockets ==
    /\ \A t \in Hub!Tasks, c \in Clients :
           /\ c \in task[t].dead => socket[c] = "closed"
           /\ c \in task[t].to => socket[c] # "new"
    /\ \A c \in clients : socket[c] # "new"

NoneTwice ==
    /\ doubled = {}
    /\ \A c \in Clients, t \in Hub!Tasks : c \in task[t].to => task[t].number \notin received[c]

NoneMissed ==
    \A c \in clients, n \in Nat :
        socket[c] = "open" /\ n \in Hub!ToSet(activity) =>
            n \in received[c] \/ \E t \in Hub!Tasks : task[t].number = n /\ c \in task[t].to

Remembered ==
    \A o \in Sales : /\ told[o] > 0 => o \in seen \cup forgotten
                     /\ told[o] > 1 => o \in forgotten

HubInv == HubTypes /\ Loops /\ Sockets /\ NoneTwice /\ NoneMissed /\ Remembered

LEMMA NoTaskQuiet == Quiet(Hub!NoTask) /\ Hub!NoTask \in HubTask
BY DEF Hub!NoTask, Quiet, HubTask, Hub!Stage

LEMMA HubInit == Hub!Init => HubInv
<1> SUFFICES ASSUME Hub!Init PROVE HubInv
  OBVIOUS
<1>1. \A t \in Hub!Tasks : /\ task[t] \in HubTask /\ Quiet(task[t]) /\ task[t].stage # "fetching"
  <2> TAKE t \in Hub!Tasks
  <2>1. PICK stage \in {"starting", "waiting"} :
            task[t] = [stage |-> stage, page |-> << >>, number |-> 0, to |-> {}, dead |-> {}]
    BY DEF Hub!Init, Hub!NoTask
  <2>2. << >> \in Seq(Sales)
    OBVIOUS
  <2> QED BY <2>1, <2>2 DEF HubTask, Quiet, Hub!Stage
<1>2. /\ IsFiniteSet(seen) /\ Cardinality(seen) = 0 /\ Hub!Cardinality(seen) <= SeenLimit
  BY FS_EmptySet, HubCardinality, HubConstants DEF Hub!Init
<1>3. /\ Hub!ToSet(orders) = {} /\ Hub!ToSet(activity) = {} /\ Hub!IsInjective(orders)
      /\ Len(activity) = 0 /\ orders \in Seq(Sales) /\ inbox \in Seq(Sales)
      /\ activity \in Seq(Nat)
  BY DEF Hub!Init, Hub!ToSet, Hub!IsInjective
<1>4. Hub!TypeOK
  BY <1>1, <1>2, <1>3, HubConstants DEF Hub!Init, Hub!TypeOK, HubTask, Quiet
<1>5. HubTypes
  <2>1. task \in [Hub!Tasks -> HubTask]
    BY <1>1 DEF Hub!Init
  <2>2. received \in [Clients -> SUBSET Nat] /\ emitted \in Nat /\ seen = {} /\ forgotten = {}
    BY DEF Hub!Init
  <2> QED BY <1>2, <1>3, <1>4, <2>1, <2>2 DEF HubTypes
<1>6. Loops /\ Sockets /\ NoneTwice
  BY <1>1 DEF Loops, Sockets, NoneTwice, LoopOK, Quiet, Hub!Init
<1>7. NoneMissed /\ Remembered
  BY DEF NoneMissed, Remembered, Hub!Init
<1> QED BY <1>5, <1>6, <1>7 DEF HubInv

(* A loop goes on without sending: what was sent and what is remembered stays.       *)
LEMMA LoopMoves ==
  ASSUME HubInv, NEW t \in Hub!Tasks, task[t].stage # "sending",
         NEW h \in HubTask, Quiet(h), h.stage = "fetching" => h.page # << >>,
         task' = [task EXCEPT ![t] = h], inbox' \in Seq(Sales),
         UNCHANGED <<orders, published, socket, clients, activity, seen, emitted, told, received,
                     doubled, forgotten>>
  PROVE  HubInv'
<1>1. /\ task \in [Hub!Tasks -> HubTask] /\ Quiet(task[t]) /\ emitted \in Nat
      /\ \A u \in Hub!Tasks : task[u].stage \in Hub!Stage /\ task[u].number <= emitted
  BY DEF HubInv, HubTypes, Loops, LoopOK, Hub!TypeOK
<1>2. /\ task' \in [Hub!Tasks -> HubTask] /\ task'[t] = h
      /\ \A u \in Hub!Tasks : u # t => task'[u] = task[u]
  BY <1>1
<1>3. h.stage \in Hub!Stage /\ h.number <= emitted
  BY <1>1 DEF HubTask, Quiet
<1>4. \A u \in Hub!Tasks : task'[u].number = task[u].number /\ task'[u].to = task[u].to
                           /\ task'[u].dead = task[u].dead
  BY <1>1, <1>2 DEF Quiet
<1>5. HubTypes'
  <2>1. Hub!TypeOK'
    BY <1>1, <1>2, <1>3 DEF HubInv, HubTypes, Hub!TypeOK
  <2> QED BY <1>2, <2>1 DEF HubInv, HubTypes
<1>6. Loops'
  <2>1. LoopOK(h)
    BY DEF LoopOK, Quiet
  <2>2. \A u \in Hub!Tasks : LoopOK(task'[u])
    BY <1>2, <2>1 DEF HubInv, Loops
  <2>3. \A u, v \in Hub!Tasks :
            task'[u].number > 0 /\ task'[u].number = task'[v].number => u = v
    BY <1>4 DEF HubInv, Loops
  <2>4. \A u \in Hub!Tasks : LoopOK(task[u])'
    BY <2>2 DEF LoopOK, Quiet
  <2> QED BY <2>3, <2>4 DEF Loops
<1>7. Sockets' /\ NoneTwice'
  BY <1>4 DEF HubInv, Sockets, NoneTwice
<1>8. NoneMissed'
  <2>1. Hub!ToSet(activity)' = Hub!ToSet(activity)
    BY DEF Hub!ToSet
  <2> QED BY <1>4, <2>1 DEF HubInv, NoneMissed
<1>9. Remembered'
  BY DEF HubInv, Remembered
<1> QED BY <1>5, <1>6, <1>7, <1>8, <1>9 DEF HubInv

(* The order service, and a socket that comes or goes.                                *)
LEMMA OutsideMoves ==
  ASSUME HubInv, \E o \in Sales : Hub!Place(o) \/ Hub!Publish(o)
  PROVE  HubInv'
<1>0. /\ orders \in Seq(Sales) /\ inbox \in Seq(Sales) /\ published \subseteq Sales
      /\ Hub!IsInjective(orders)
  BY DEF HubInv, HubTypes, Hub!TypeOK
<1>1. PICK o \in Sales : Hub!Place(o) \/ Hub!Publish(o)
  OBVIOUS
<1>2. UNCHANGED <<task, socket, clients, activity, seen, emitted, told, received, doubled,
                  forgotten>>
  BY <1>1 DEF Hub!Place, Hub!Publish, Hub!hub, Hub!log
<1>3. /\ orders' \in Seq(Sales) /\ Hub!IsInjective(orders') /\ Hub!ToSet(orders') \subseteq Sales
      /\ inbox' \in Seq(Sales) /\ published' \subseteq Sales
  <2>1. CASE Hub!Place(o)
    <3>1. /\ orders' = <<o>> \o orders /\ o \notin Hub!ToSet(orders)
          /\ inbox' = inbox /\ published' = published
      BY <2>1 DEF Hub!Place
    <3>2. Hub!ToSet(orders) \subseteq Sales
      BY <1>0 DEF Hub!ToSet
    <3> QED BY <1>0, <3>1, <3>2, PutInFront
  <2>2. CASE Hub!Publish(o)
    <3>1. /\ orders' = orders /\ published' = published \cup {o}
          /\ inbox' = inbox \/ inbox' = Append(inbox, o)
      BY <2>2 DEF Hub!Publish
    <3>2. Append(inbox, o) \in Seq(Sales)
      BY <1>0
    <3>3. Hub!ToSet(orders) \subseteq Sales
      BY <1>0 DEF Hub!ToSet
    <3> QED BY <1>0, <3>1, <3>2, <3>3
  <2> QED BY <1>1, <2>1, <2>2
<1>4. /\ Hub!IsInjective(orders)' /\ Hub!ToSet(orders)' \subseteq Sales
      /\ Hub!ToSet(activity)' = Hub!ToSet(activity)
  BY <1>2, <1>3 DEF Hub!IsInjective, Hub!ToSet
<1>5. Hub!TypeOK'
  BY <1>2, <1>3, <1>4 DEF HubInv, HubTypes, Hub!TypeOK
<1>6. HubTypes'
  BY <1>2, <1>3, <1>5 DEF HubInv, HubTypes
<1>7. Loops' /\ Sockets' /\ NoneTwice' /\ Remembered'
  BY <1>2 DEF HubInv, Loops, LoopOK, Quiet, Sockets, NoneTwice, Remembered
<1>8. NoneMissed'
  BY <1>2, <1>4 DEF HubInv, NoneMissed
<1> QED BY <1>6, <1>7, <1>8 DEF HubInv

LEMMA SocketMoves ==
  ASSUME HubInv, NEW c \in Clients, Hub!Connect(c) \/ Hub!Leave(c) \/ Hub!Disconnect(c)
  PROVE  HubInv'
<1>0. /\ socket \in [Clients -> {"new", "open", "closed"}] /\ clients \subseteq Clients
      /\ received \in [Clients -> SUBSET Nat] /\ activity \in Seq(Nat)
      /\ \A d \in Clients : received[d] \subseteq 1..emitted
      /\ Hub!ToSet(activity) \subseteq 1..emitted
  BY DEF HubInv, HubTypes, Hub!TypeOK
<1>1. UNCHANGED <<orders, published, inbox, task, activity, seen, emitted, told, doubled, forgotten>>
  BY DEF Hub!Connect, Hub!Leave, Hub!Disconnect, Hub!hub, Hub!log
<1>2. /\ Hub!IsInjective(orders)' = Hub!IsInjective(orders)
      /\ Hub!ToSet(orders)' = Hub!ToSet(orders) /\ Hub!ToSet(activity)' = Hub!ToSet(activity)
  BY <1>1 DEF Hub!IsInjective, Hub!ToSet
<1>3. Loops' /\ Remembered'
  BY <1>1 DEF HubInv, Loops, LoopOK, Quiet, Remembered
<1>4. ASSUME socket' \in [Clients -> {"new", "open", "closed"}], clients' \subseteq Clients,
             received' \in [Clients -> SUBSET Nat],
             \A d \in Clients : received'[d] \subseteq 1..emitted
      PROVE  HubTypes'
  <2>1. Hub!TypeOK'
    BY <1>1, <1>2, <1>4 DEF HubInv, HubTypes, Hub!TypeOK
  <2> QED BY <1>1, <1>4, <2>1 DEF HubInv, HubTypes
<1>5. CASE Hub!Connect(c)
  <2>1. /\ socket[c] = "new" /\ socket' = [socket EXCEPT ![c] = "open"]
        /\ clients' = clients \cup {c}
        /\ received' = [received EXCEPT ![c] = Hub!ToSet(activity)]
    BY <1>5 DEF Hub!Connect
  <2>2. \A d \in Clients : received'[d] = IF d = c THEN Hub!ToSet(activity) ELSE received[d]
    BY <1>0, <2>1
  <2>3. \A d \in Clients : socket'[d] = IF d = c THEN "open" ELSE socket[d]
    BY <1>0, <2>1
  <2>4. \A u \in Hub!Tasks : c \notin task[u].to /\ c \notin task[u].dead
    BY <2>1 DEF HubInv, Sockets
  <2>5. HubTypes'
    <3>1. Hub!ToSet(activity) \subseteq Nat
      BY <1>0 DEF HubInv, HubTypes
    <3> QED BY <1>0, <1>4, <2>1, <2>2, <3>1
  <2>6. Sockets'
    BY <1>1, <2>1, <2>3, <2>4, <1>0 DEF HubInv, Sockets
  <2>7. NoneTwice'
    BY <1>1, <2>2, <2>4 DEF HubInv, NoneTwice
  <2>8. NoneMissed'
    <3> SUFFICES ASSUME NEW d \in clients', NEW n \in Nat,
                        socket'[d] = "open", n \in Hub!ToSet(activity)
                 PROVE  n \in received'[d] \/ \E u \in Hub!Tasks : task'[u].number = n
                                                               /\ d \in task'[u].to
      BY <1>2 DEF NoneMissed
    <3>1. CASE d = c
      BY <2>2, <3>1
    <3>2. CASE d # c
      BY <1>0, <1>1, <2>1, <2>2, <2>3, <3>2 DEF HubInv, NoneMissed
    <3> QED BY <3>1, <3>2
  <2> QED BY <1>3, <2>5, <2>6, <2>7, <2>8 DEF HubInv
<1>6. CASE Hub!Leave(c) \/ Hub!Disconnect(c)
  <2>1. /\ clients' \subseteq clients /\ UNCHANGED received
        /\ socket' \in [Clients -> {"new", "open", "closed"}]
        /\ \A d \in Clients : /\ socket'[d] = "open" => socket[d] = "open"
                              /\ socket[d] = "closed" => socket'[d] = "closed"
                              /\ socket'[d] = "new" => socket[d] = "new"
    BY <1>0, <1>6 DEF Hub!Leave, Hub!Disconnect, Hub!hub, Hub!log
  <2>2. HubTypes'
    BY <1>0, <1>4, <2>1
  <2>3. Sockets'
    BY <1>0, <1>1, <2>1 DEF HubInv, Sockets
  <2>4. NoneTwice' /\ NoneMissed'
    BY <1>0, <1>1, <1>2, <2>1 DEF HubInv, NoneTwice, NoneMissed
  <2> QED BY <1>3, <2>2, <2>3, <2>4 DEF HubInv
<1> QED BY <1>5, <1>6

(* A loop sends to one client of its audience.                                           *)
LEMMA SendStep ==
  ASSUME HubInv, NEW t \in Hub!Tasks, NEW c \in Clients, Hub!Send(t, c)
  PROVE  HubInv'
<1>0. /\ socket \in [Clients -> {"new", "open", "closed"}] /\ clients \subseteq Clients
      /\ received \in [Clients -> SUBSET Nat] /\ emitted \in Nat
      /\ \A d \in Clients : received[d] \subseteq 1..emitted
      /\ task \in [Hub!Tasks -> HubTask]
      /\ \A u \in Hub!Tasks : task[u].stage \in Hub!Stage /\ task[u].number <= emitted
  BY DEF HubInv, HubTypes, Hub!TypeOK
<1>1. /\ task[t].stage = "sending" /\ c \in task[t].to /\ task[t].number > 0
      /\ UNCHANGED <<orders, published, inbox, socket, clients, activity, seen, emitted, told,
                     forgotten>>
  BY DEF Hub!Send, HubInv, Loops, LoopOK
<1>2. PICK n : n = task[t].number
  OBVIOUS
<1>3. n \in 1..emitted /\ n \in Nat
  BY <1>0, <1>1, <1>2 DEF HubTask
<1>4. n \notin received[c]
  BY <1>1, <1>2 DEF HubInv, NoneTwice
<1>5. PICK h \in HubTask :
          /\ task' = [task EXCEPT ![t] = h]
          /\ h.stage = "sending" /\ h.number = n /\ h.to = task[t].to \ {c}
          /\ h.page = task[t].page
          /\ h.dead = IF socket[c] = "open" THEN task[t].dead ELSE task[t].dead \cup {c}
  <2>1. PICK k : k = task[t]
    OBVIOUS
  <2>2. k \in HubTask /\ k.stage = "sending" /\ k.number = n
    BY <1>0, <1>1, <1>2, <2>1
  <2>3. CASE socket[c] = "open"
    <3>1. task' = [task EXCEPT ![t] = [k EXCEPT !.to = k.to \ {c}]]
      BY <1>0, <2>1, <2>3 DEF Hub!Send
    <3>2. [k EXCEPT !.to = k.to \ {c}] \in HubTask
      BY <2>2 DEF HubTask
    <3> QED BY <2>1, <2>2, <2>3, <3>1, <3>2 DEF HubTask
  <2>4. CASE socket[c] # "open"
    <3>1. task' = [task EXCEPT ![t] = [k EXCEPT !.to = k.to \ {c}, !.dead = k.dead \cup {c}]]
      BY <1>0, <2>1, <2>4 DEF Hub!Send
    <3>2. [k EXCEPT !.to = k.to \ {c}, !.dead = k.dead \cup {c}] \in HubTask
      BY <2>2 DEF HubTask
    <3> QED BY <2>1, <2>2, <2>4, <3>1, <3>2 DEF HubTask
  <2> QED BY <2>3, <2>4
<1>6. /\ task' \in [Hub!Tasks -> HubTask] /\ task'[t] = h
      /\ \A u \in Hub!Tasks : u # t => task'[u] = task[u]
  BY <1>0, <1>5
<1>7. /\ received' \in [Clients -> SUBSET Nat] /\ doubled' = {}
      /\ \A d \in Clients : received'[d] =
             IF d = c /\ socket[c] = "open" THEN received[d] \cup {n} ELSE received[d]
  <2>1. CASE socket[c] = "open"
    <3>1. received' = [received EXCEPT ![c] = received[c] \cup {n}] /\ doubled' = doubled
      BY <1>2, <1>4, <2>1 DEF Hub!Send
    <3> QED BY <1>0, <1>3, <2>1, <3>1 DEF HubInv, NoneTwice
  <2>2. CASE socket[c] # "open"
    <3>1. received' = received /\ doubled' = doubled
      BY <2>2 DEF Hub!Send
    <3> QED BY <1>0, <2>2, <3>1 DEF HubInv, NoneTwice
  <2> QED BY <2>1, <2>2
<1>8. \A u \in Hub!Tasks : task'[u].number = task[u].number /\ task'[u].to \subseteq task[u].to
  BY <1>2, <1>5, <1>6
<1>9. /\ Hub!IsInjective(orders)' = Hub!IsInjective(orders)
      /\ Hub!ToSet(orders)' = Hub!ToSet(orders) /\ Hub!ToSet(activity)' = Hub!ToSet(activity)
  BY <1>1 DEF Hub!IsInjective, Hub!ToSet
<1>10. HubTypes'
  <2>1. \A d \in Clients : received'[d] \subseteq 1..emitted
    BY <1>0, <1>3, <1>7
  <2>2. \A u \in Hub!Tasks : task'[u].stage \in Hub!Stage /\ task'[u].number <= emitted
    BY <1>0, <1>6, <1>8 DEF HubTask
  <2>3. Hub!TypeOK'
    BY <1>1, <1>7, <1>9, <2>1, <2>2 DEF HubInv, HubTypes, Hub!TypeOK
  <2> QED BY <1>1, <1>6, <1>7, <2>3 DEF HubInv, HubTypes
<1>11. Loops'
  <2>1. LoopOK(h)
    BY <1>3, <1>5 DEF LoopOK
  <2>2. \A u \in Hub!Tasks : LoopOK(task'[u])
    BY <1>6, <2>1 DEF HubInv, Loops
  <2>3. \A u \in Hub!Tasks : LoopOK(task[u])'
    BY <2>2 DEF LoopOK, Quiet
  <2> QED BY <1>8, <2>3 DEF HubInv, Loops
<1>12. Sockets'
  <2>1. socket[c] # "open" => socket[c] = "closed"
    BY <1>0, <1>1 DEF HubInv, Sockets
  <2>2. \A u \in Hub!Tasks : task'[u].dead \subseteq task[u].dead \cup
                                 (IF socket[c] = "open" THEN {} ELSE {c})
    BY <1>5, <1>6
  <2> QED BY <1>1, <1>8, <2>1, <2>2 DEF HubInv, Sockets
<1>13. NoneTwice'
  <2> SUFFICES ASSUME NEW d \in Clients, NEW u \in Hub!Tasks, d \in task'[u].to
               PROVE  task'[u].number \notin received'[d]
    BY <1>7 DEF NoneTwice
  <2>1. d \in task[u].to /\ task[u].number \notin received[d]
    BY <1>8 DEF HubInv, NoneTwice
  <2>2. CASE d = c
    <3>1. u # t
      BY <1>5, <1>6, <2>2
    <3>2. task[u].number # n
      BY <1>1, <1>2, <3>1 DEF HubInv, Loops
    <3> QED BY <1>7, <1>8, <2>1, <3>2
  <2>3. CASE d # c
    BY <1>7, <1>8, <2>1, <2>3
  <2> QED BY <2>2, <2>3
<1>14. NoneMissed'
  <2> SUFFICES ASSUME NEW d \in clients, NEW m \in Nat,
                      socket[d] = "open", m \in Hub!ToSet(activity)
               PROVE  m \in received'[d] \/ \E u \in Hub!Tasks : task'[u].number = m
                                                             /\ d \in task'[u].to
    BY <1>1, <1>9 DEF NoneMissed
  <2>1. d \in Clients
    BY <1>0
  <2>2. CASE m \in received[d]
    BY <1>7, <2>1, <2>2
  <2>3. CASE \E u \in Hub!Tasks : task[u].number = m /\ d \in task[u].to
    <3>1. PICK u \in Hub!Tasks : task[u].number = m /\ d \in task[u].to
      BY <2>3
    <3>2. CASE u = t /\ d = c
      BY <1>2, <1>7, <2>1, <3>1, <3>2
    <3>3. CASE u = t /\ d # c
      BY <1>2, <1>5, <1>6, <3>1, <3>3
    <3>4. CASE u # t
      BY <1>6, <3>1, <3>4
    <3> QED BY <3>2, <3>3, <3>4
  <2> QED BY <2>2, <2>3 DEF HubInv, NoneMissed
<1>15. Remembered'
  BY <1>1 DEF HubInv, Remembered
<1> QED BY <1>10, <1>11, <1>12, <1>13, <1>14, <1>15 DEF HubInv

(* A loop that has sent to all drops the sockets that failed.                             *)
LEMMA SentStep ==
  ASSUME HubInv, NEW t \in Hub!Tasks, Hub!Sent(t)
  PROVE  HubInv'
<1>0. /\ clients \subseteq Clients /\ emitted \in Nat
      /\ task \in [Hub!Tasks -> HubTask]
      /\ \A u \in Hub!Tasks : task[u].stage \in Hub!Stage /\ task[u].number <= emitted
  BY DEF HubInv, HubTypes, Hub!TypeOK
<1>1. /\ task[t].to = {} /\ clients' = clients \ task[t].dead
      /\ UNCHANGED <<orders, published, inbox, socket, activity, seen, emitted, told, received,
                     doubled, forgotten>>
  BY DEF Hub!Sent, Hub!log
<1>2. PICK h \in HubTask : task' = [task EXCEPT ![t] = h] /\ Quiet(h) /\ h.stage # "fetching"
  <2>1. PICK page \in Seq(Sales) : page = task[t].page
    BY <1>0 DEF HubTask
  <2>2. PICK stage \in {"emitting", "waiting"} :
            task' = [task EXCEPT ![t] = [Hub!NoTask EXCEPT !.stage = stage, !.page = page]]
    BY <2>1 DEF Hub!Sent
  <2>3. [Hub!NoTask EXCEPT !.stage = stage, !.page = page] \in HubTask
    BY DEF Hub!NoTask, HubTask, Hub!Stage
  <2> QED BY <2>2, <2>3 DEF Hub!NoTask, Quiet
<1>3. /\ task' \in [Hub!Tasks -> HubTask] /\ task'[t] = h
      /\ \A u \in Hub!Tasks : u # t => task'[u] = task[u]
  BY <1>0, <1>2
<1>4. /\ Hub!IsInjective(orders)' = Hub!IsInjective(orders)
      /\ Hub!ToSet(orders)' = Hub!ToSet(orders) /\ Hub!ToSet(activity)' = Hub!ToSet(activity)
  BY <1>1 DEF Hub!IsInjective, Hub!ToSet
<1>5. HubTypes'
  <2>1. \A u \in Hub!Tasks : task'[u].stage \in Hub!Stage /\ task'[u].number <= emitted
    BY <1>0, <1>2, <1>3 DEF HubTask, Quiet
  <2>2. clients' \subseteq Clients
    BY <1>0, <1>1
  <2>3. Hub!TypeOK'
    BY <1>1, <1>4, <2>1, <2>2 DEF HubInv, HubTypes, Hub!TypeOK
  <2> QED BY <1>1, <1>3, <2>2, <2>3 DEF HubInv, HubTypes
<1>6. Loops'
  <2>1. LoopOK(h)
    BY <1>2 DEF LoopOK, Quiet
  <2>2. \A u \in Hub!Tasks : LoopOK(task'[u])
    BY <1>3, <2>1 DEF HubInv, Loops
  <2>3. \A u \in Hub!Tasks : LoopOK(task[u])'
    BY <2>2 DEF LoopOK, Quiet
  <2>4. h.number = 0
    BY <1>2 DEF Quiet
  <2>5. \A u, v \in Hub!Tasks :
            task'[u].number > 0 /\ task'[u].number = task'[v].number => u = v
    BY <1>3, <2>4 DEF HubInv, Loops
  <2> QED BY <2>3, <2>5 DEF Loops
<1>7. \A u \in Hub!Tasks : /\ task'[u].to \subseteq task[u].to /\ task'[u].dead \subseteq task[u].dead
                           /\ task'[u].to # {} => task'[u] = task[u]
  BY <1>2, <1>3 DEF Quiet
<1>8. Sockets' /\ NoneTwice'
  BY <1>1, <1>7 DEF HubInv, Sockets, NoneTwice
<1>9. NoneMissed'
  <2> SUFFICES ASSUME NEW d \in clients', NEW m \in Nat,
                      socket[d] = "open", m \in Hub!ToSet(activity), m \notin received[d]
               PROVE  \E u \in Hub!Tasks : task'[u].number = m /\ d \in task'[u].to
    BY <1>1, <1>4 DEF NoneMissed
  <2>1. PICK u \in Hub!Tasks : task[u].number = m /\ d \in task[u].to
    BY <1>1 DEF HubInv, NoneMissed
  <2>2. u # t
    BY <1>1, <2>1
  <2> QED BY <1>3, <2>1, <2>2
<1>10. Remembered'
  BY <1>1 DEF HubInv, Remembered
<1> QED BY <1>5, <1>6, <1>8, <1>9, <1>10 DEF HubInv

(* A loop that was not sending begins to broadcast an activity about order o, or a pulse.  *)
LEMMA BroadcastStep ==
  ASSUME HubInv, NEW t \in Hub!Tasks, task[t].stage # "sending",
         NEW o \in Sales \cup {None}, NEW page \in Seq(Sales), Hub!Broadcast(t, o, page),
         o \notin seen,
         UNCHANGED <<orders, published, socket, clients, received, doubled>>,
         inbox' \in Seq(Sales),
         seen' \subseteq Sales, IsFiniteSet(seen'), Cardinality(seen') <= SeenLimit,
         forgotten' \subseteq Sales, forgotten \subseteq forgotten',
         seen \cup (Sales \cap {o}) \subseteq seen' \cup forgotten'
  PROVE  HubInv'
<1>0. /\ clients \subseteq Clients /\ emitted \in Nat
      /\ task \in [Hub!Tasks -> HubTask] /\ activity \in Seq(Nat)
      /\ received \in [Clients -> SUBSET Nat]
      /\ told \in [Sales \cup {None} -> Nat]
      /\ \A u \in Hub!Tasks : task[u].stage \in Hub!Stage /\ task[u].number <= emitted
      /\ \A c \in Clients : received[c] \subseteq 1..emitted
      /\ Hub!ToSet(activity) \subseteq 1..emitted
  BY DEF HubInv, HubTypes, Hub!TypeOK
<1>c. History \in Nat /\ None \notin Sales
  BY HubConstants
<1>1. PICK n \in Nat : n = emitted + 1
  BY <1>0
<1>2. /\ emitted' = n /\ told' = [told EXCEPT ![o] = @ + 1]
      /\ activity' = Hub!Shortened(<<n>> \o activity, History)
  BY <1>1 DEF Hub!Broadcast
<1>3. PICK h \in HubTask :
          /\ task' = [task EXCEPT ![t] = h]
          /\ h.stage = "sending" /\ h.number = n /\ h.to = clients /\ h.dead = {}
  <2>1. task' = [task EXCEPT ![t] = [stage |-> "sending", page |-> page, number |-> n,
                                     to |-> clients, dead |-> {}]]
    BY <1>1 DEF Hub!Broadcast
  <2>2. [stage |-> "sending", page |-> page, number |-> n, to |-> clients, dead |-> {}] \in HubTask
    BY <1>0 DEF HubTask, Hub!Stage
  <2> QED BY <2>1, <2>2
<1>4. /\ task' \in [Hub!Tasks -> HubTask] /\ task'[t] = h
      /\ \A u \in Hub!Tasks : u # t => task'[u] = task[u]
  BY <1>0, <1>3
<1>5. /\ activity' \in Seq(Nat) /\ Len(activity') <= History
      /\ Hub!ToSet(activity') \subseteq {n} \cup Hub!ToSet(activity)
  <2>1. PICK all : all = <<n>> \o activity
    OBVIOUS
  <2>2. all \in Seq(Nat) /\ Hub!ToSet(all) = {n} \cup Hub!ToSet(activity)
    BY <1>0, <2>1, PutInFront
  <2>3. /\ Hub!Shortened(all, History) \in Seq(Nat) /\ Len(Hub!Shortened(all, History)) <= History
        /\ Hub!ToSet(Hub!Shortened(all, History)) \subseteq Hub!ToSet(all)
    BY <1>c, <2>2, ShortenedFacts
  <2> QED BY <1>2, <2>1, <2>2, <2>3
<1>6. \A i \in 1..emitted : i \in 1..n /\ i # n
  BY <1>0, <1>1
<1>7. /\ Hub!IsInjective(orders)' = Hub!IsInjective(orders)
      /\ Hub!ToSet(orders)' = Hub!ToSet(orders) /\ Hub!ToSet(activity)' = Hub!ToSet(activity')
  BY DEF Hub!IsInjective, Hub!ToSet
<1>8. /\ told' \in [Sales \cup {None} -> Nat]
      /\ \A s \in Sales : told'[s] = IF s = o THEN told[s] + 1 ELSE told[s]
  BY <1>0, <1>2
<1>9. HubTypes'
  <2>1. \A u \in Hub!Tasks : task'[u].stage \in Hub!Stage /\ task'[u].number <= n
    <3>1. h.stage \in Hub!Stage /\ h.number <= n
      BY <1>3 DEF Hub!Stage
    <3>2. \A u \in Hub!Tasks : task[u].number <= n
      BY <1>0, <1>1 DEF HubTask
    <3> QED BY <1>0, <1>4, <3>1, <3>2
  <2>2. Hub!ToSet(activity)' \subseteq 1..n
    <3>1. n \in 1..n
      BY <1>0, <1>1
    <3> QED BY <1>0, <1>5, <1>6, <1>7, <3>1
  <2>3. Hub!Cardinality(seen') <= SeenLimit /\ Hub!Cardinality(seen)' = Hub!Cardinality(seen')
    BY HubCardinality DEF Hub!Cardinality
  <2>4. \A c \in Clients : received[c] \subseteq 1..n
    BY <1>0, <1>6
  <2>5. Hub!TypeOK'
    BY <1>2, <1>5, <1>7, <1>8, <2>1, <2>2, <2>3, <2>4 DEF HubInv, HubTypes, Hub!TypeOK
  <2> QED BY <1>0, <1>1, <1>2, <1>4, <1>5, <2>5 DEF HubInv, HubTypes
<1>10. Loops'
  <2>1. LoopOK(h) /\ n > 0
    BY <1>0, <1>1, <1>3 DEF LoopOK
  <2>2. \A u \in Hub!Tasks : LoopOK(task'[u])
    BY <1>4, <2>1 DEF HubInv, Loops
  <2>3. \A u \in Hub!Tasks : LoopOK(task[u])'
    BY <2>2 DEF LoopOK, Quiet
  <2>4. \A u \in Hub!Tasks : task[u].number # n
    BY <1>0, <1>1 DEF HubTask
  <2>5. \A u, v \in Hub!Tasks :
            task'[u].number > 0 /\ task'[u].number = task'[v].number => u = v
    BY <1>3, <1>4, <2>4 DEF HubInv, Loops
  <2> QED BY <2>3, <2>5 DEF Loops
<1>11. Sockets'
  BY <1>3, <1>4 DEF HubInv, Sockets
<1>12. NoneTwice'
  <2>1. \A c \in Clients : n \notin received[c]
    BY <1>0, <1>6
  <2> QED BY <1>3, <1>4, <2>1 DEF HubInv, NoneTwice
<1>13. NoneMissed'
  <2> SUFFICES ASSUME NEW d \in clients, NEW m \in Nat,
                      socket[d] = "open", m \in Hub!ToSet(activity'), m \notin received[d]
               PROVE  \E u \in Hub!Tasks : task'[u].number = m /\ d \in task'[u].to
    BY <1>7 DEF NoneMissed
  <2>1. CASE m = n
    BY <1>3, <1>4, <2>1
  <2>2. CASE m # n
    <3>1. PICK u \in Hub!Tasks : task[u].number = m /\ d \in task[u].to
      BY <1>5, <2>2 DEF HubInv, NoneMissed
    <3>2. u # t
      BY <3>1 DEF HubInv, Loops, LoopOK, Quiet
    <3> QED BY <1>4, <3>1, <3>2
  <2> QED BY <2>1, <2>2
<1>14. Remembered'
  <2> SUFFICES ASSUME NEW s \in Sales
               PROVE  /\ told'[s] > 0 => s \in seen' \cup forgotten'
                      /\ told'[s] > 1 => s \in forgotten'
    BY DEF Remembered
  <2>1. told[s] \in Nat
    BY <1>0
  <2>2. CASE s = o
    <3>1. told'[s] > 1 => told[s] > 0
      BY <1>8, <2>1, <2>2
    <3> QED BY <2>2, <3>1 DEF HubInv, Remembered
  <2>3. CASE s # o
    BY <1>8, <2>3 DEF HubInv, Remembered
  <2> QED BY <2>2, <2>3
<1> QED BY <1>9, <1>10, <1>11, <1>12, <1>13, <1>14 DEF HubInv

LEMMA AnnounceStep ==
  ASSUME HubInv, NEW t \in Hub!Tasks, task[t].stage # "sending",
         NEW o \in Sales, NEW page \in Seq(Sales), Hub!Announce(t, o, page),
         Hub!Unseen(o), inbox' \in Seq(Sales)
  PROVE  HubInv'
<1>0. seen \subseteq Sales /\ IsFiniteSet(seen) /\ forgotten \subseteq Sales
  BY DEF HubInv, HubTypes
<1>1. PICK known : known = seen \cup {o}
  OBVIOUS
<1>2. IsFiniteSet(known)
  BY <1>0, <1>1, FS_AddElement
<1>3. PICK kept \in Hub!Trimmed(known) :
          seen' = kept /\ forgotten' = forgotten \cup (known \ kept)
  BY <1>1 DEF Hub!Announce
<1>4. kept \subseteq known /\ IsFiniteSet(kept) /\ Cardinality(kept) <= SeenLimit
  BY <1>2, <1>3, TrimmedFacts
<1>5. /\ Hub!Broadcast(t, o, page)
      /\ UNCHANGED <<orders, published, socket, clients, received, doubled>>
  BY DEF Hub!Announce
<1>6. o \notin seen
  BY DEF Hub!Unseen
<1>7. /\ seen' \subseteq Sales /\ IsFiniteSet(seen') /\ Cardinality(seen') <= SeenLimit
      /\ forgotten' \subseteq Sales /\ forgotten \subseteq forgotten'
      /\ seen \cup (Sales \cap {o}) \subseteq seen' \cup forgotten'
  BY <1>0, <1>1, <1>3, <1>4
<1> QED BY <1>5, <1>6, <1>7, BroadcastStep

(* The steps of the three loops that announce nothing.                                       *)
LEMMA QuietSteps ==
  ASSUME HubInv, \/ Hub!Subscribe \/ Hub!TakeMessage \/ Hub!FetchFails \/ Hub!ListenerDies
                 \/ Hub!Poll \/ Hub!PollFails
  PROVE  HubInv'
<1>0. /\ orders \in Seq(Sales) /\ inbox \in Seq(Sales) /\ task \in [Hub!Tasks -> HubTask]
      /\ \A t \in Hub!Tasks : LoopOK(task[t])
  BY DEF HubInv, HubTypes, Loops
<1>t. "listener" \in Hub!Tasks /\ "poller" \in Hub!Tasks
  BY DEF Hub!Tasks
<1> USE DEF Hub!hub, Hub!log
<1>1. CASE Hub!Subscribe \/ Hub!ListenerDies
  <2>1. PICK k : k = task["listener"]
    OBVIOUS
  <2>2. PICK stage \in {"waiting", "dead"} :
            task' = [task EXCEPT !["listener"] = [k EXCEPT !.stage = stage]]
    BY <1>0, <1>1, <1>t, <2>1 DEF Hub!Subscribe, Hub!ListenerDies
  <2>3. PICK h : h = [k EXCEPT !.stage = stage]
    OBVIOUS
  <2>4. k \in HubTask /\ LoopOK(k) /\ k.stage # "sending"
    BY <1>0, <1>1, <1>t, <2>1 DEF Hub!Subscribe, Hub!ListenerDies
  <2>5. h \in HubTask /\ Quiet(h) /\ h.stage # "fetching"
    BY <2>3, <2>4 DEF HubTask, Quiet, LoopOK, Hub!Stage
  <2>6. /\ inbox' \in Seq(Sales)
        /\ UNCHANGED <<orders, published, socket, clients, activity, seen, emitted, told,
                       received, doubled, forgotten>>
    <3>1. << >> \in Seq(Sales)
      OBVIOUS
    <3>2. inbox' = inbox \/ inbox' = << >>
      BY <1>1 DEF Hub!Subscribe, Hub!ListenerDies
    <3> QED BY <1>0, <1>1, <3>1, <3>2 DEF Hub!Subscribe, Hub!ListenerDies
  <2> QED BY <1>t, <2>1, <2>2, <2>3, <2>4, <2>5, <2>6, LoopMoves
<1>2. CASE Hub!TakeMessage
  <2>1. PICK h : h = [Hub!NoTask EXCEPT !.stage = "fetching", !.page = <<Head(inbox)>>]
    OBVIOUS
  <2>2. /\ inbox # << >> /\ inbox' = Tail(inbox) /\ task["listener"].stage = "waiting"
        /\ task' = [task EXCEPT !["listener"] = h]
        /\ UNCHANGED <<orders, published, socket, clients, activity, seen, emitted, told,
                       received, doubled, forgotten>>
    BY <1>2, <2>1 DEF Hub!TakeMessage
  <2>3. Head(inbox) \in Sales /\ Tail(inbox) \in Seq(Sales)
    BY <1>0, <2>2
  <2>4. <<Head(inbox)>> \in Seq(Sales) /\ <<Head(inbox)>> # << >>
    BY <2>3
  <2>5. h \in HubTask /\ Quiet(h) /\ h.page # << >>
    BY <2>1, <2>4 DEF Hub!NoTask, HubTask, Quiet, Hub!Stage
  <2> QED BY <1>t, <2>2, <2>3, <2>5, LoopMoves
<1>3. CASE Hub!FetchFails
  <2>1. /\ task["listener"].stage = "fetching"
        /\ task' = [task EXCEPT !["listener"] = Hub!NoTask]
        /\ UNCHANGED <<orders, published, inbox, socket, clients, activity, seen, emitted, told,
                       received, doubled, forgotten>>
    BY <1>3 DEF Hub!FetchFails
  <2>2. Hub!NoTask.stage = "waiting"
    BY DEF Hub!NoTask
  <2> QED BY <1>0, <1>t, <2>1, <2>2, NoTaskQuiet, LoopMoves
<1>4. CASE Hub!Poll
  <2>1. PICK page : page = Hub!Shortened(orders, Recent)
    OBVIOUS
  <2>2. page \in Seq(Sales)
    BY <1>0, <2>1, HubConstants, ShortenedFacts
  <2>3. PICK h : h = [Hub!NoTask EXCEPT !.stage = "emitting", !.page = page]
    OBVIOUS
  <2>4. /\ task["poller"].stage = "waiting" /\ task' = [task EXCEPT !["poller"] = h]
        /\ UNCHANGED <<orders, published, inbox, socket, clients, activity, seen, emitted, told,
                       received, doubled, forgotten>>
    BY <1>4, <2>1, <2>3 DEF Hub!Poll
  <2>5. h \in HubTask /\ Quiet(h) /\ h.stage # "fetching"
    BY <2>2, <2>3 DEF Hub!NoTask, HubTask, Quiet, Hub!Stage
  <2> QED BY <1>0, <1>t, <2>4, <2>5, LoopMoves
<1>5. CASE Hub!PollFails
  <2>1. PICK h : h = task["poller"]
    OBVIOUS
  <2>2. /\ task["poller"].stage = "waiting"
        /\ UNCHANGED <<orders, published, inbox, task, socket, clients, activity, seen, emitted,
                       told, received, doubled, forgotten>>
    BY <1>5 DEF Hub!PollFails, Hub!vars, Hub!log
  <2>3. h \in HubTask /\ Quiet(h) /\ h.stage # "fetching"
    BY <1>0, <1>t, <2>1, <2>2 DEF LoopOK
  <2>4. task' = [task EXCEPT !["poller"] = h]
    BY <1>0, <1>t, <2>1, <2>2
  <2> QED BY <1>0, <1>t, <2>2, <2>3, <2>4, LoopMoves
<1> QED BY <1>1, <1>2, <1>3, <1>4, <1>5

(* The steps that may announce.                                                                *)
LEMMA AnnouncingSteps ==
  ASSUME HubInv, Hub!Fetched \/ Hub!EmitPolled \/ Hub!Pulse
  PROVE  HubInv'
<1>0. /\ inbox \in Seq(Sales) /\ task \in [Hub!Tasks -> HubTask]
      /\ \A t \in Hub!Tasks : LoopOK(task[t])
      /\ seen \subseteq Sales /\ IsFiniteSet(seen) /\ forgotten \subseteq Sales
      /\ Cardinality(seen) <= SeenLimit
  BY HubCardinality DEF HubInv, HubTypes, Loops, Hub!TypeOK
<1>t. "listener" \in Hub!Tasks /\ "poller" \in Hub!Tasks /\ "extras" \in Hub!Tasks
  BY DEF Hub!Tasks
<1>q. Hub!NoTask.stage = "waiting"
  BY DEF Hub!NoTask
<1>e. << >> \in Seq(Sales)
  OBVIOUS
<1>1. CASE Hub!Fetched
  <2>1. PICK o : o = Head(task["listener"].page)
    OBVIOUS
  <2>2. o \in Sales
    <3>1. task["listener"].page \in Seq(Sales) /\ task["listener"].page # << >>
      BY <1>0, <1>1, <1>t DEF Hub!Fetched, HubTask, LoopOK
    <3> QED BY <2>1, <3>1
  <2>3. /\ task["listener"].stage = "fetching" /\ inbox' = inbox
        /\ IF Hub!Unseen(o) THEN Hub!Announce("listener", o, << >>)
           ELSE /\ task' = [task EXCEPT !["listener"] = Hub!NoTask]
                /\ UNCHANGED <<orders, published, socket, Hub!hub>>
    BY <1>1, <2>1 DEF Hub!Fetched
  <2>4. CASE Hub!Unseen(o)
    BY <1>0, <1>t, <1>e, <2>2, <2>3, <2>4, AnnounceStep
  <2>5. CASE ~Hub!Unseen(o)
    <3>1. /\ task' = [task EXCEPT !["listener"] = Hub!NoTask]
          /\ UNCHANGED <<orders, published, socket, clients, activity, seen, emitted, told,
                         received, doubled, forgotten>>
      BY <2>3, <2>5 DEF Hub!hub, Hub!log
    <3> QED BY <1>0, <1>t, <1>q, <2>3, <3>1, NoTaskQuiet, LoopMoves
  <2> QED BY <2>4, <2>5
<1>2. CASE Hub!EmitPolled
  <2>1. PICK page \in Seq(Sales) : page = task["poller"].page
    BY <1>0, <1>t DEF HubTask
  <2>2. PICK fresh \in SUBSET (1..Len(page)) :
            fresh = {i \in 1..Len(page) : Hub!Unseen(page[i])}
    OBVIOUS
  <2>3. /\ task["poller"].stage = "emitting" /\ inbox' = inbox
        /\ IF fresh # {}
           THEN Hub!Announce("poller", page[Hub!Min(fresh)],
                             SubSeq(page, Hub!Min(fresh) + 1, Len(page)))
           ELSE /\ task' = [task EXCEPT !["poller"] = Hub!NoTask]
                /\ UNCHANGED <<orders, published, socket, Hub!hub>>
    BY <1>2, <2>1, <2>2 DEF Hub!EmitPolled
  <2>4. CASE fresh # {}
    <3>1. fresh \in SUBSET Nat
      OBVIOUS
    <3>2. PICK first \in fresh : first = Hub!Min(fresh)
      BY <2>4, <3>1, LeastNumber
    <3>3. /\ page[first] \in Sales /\ Hub!Unseen(page[first])
          /\ SubSeq(page, first + 1, Len(page)) \in Seq(Sales)
      BY <2>2
    <3>4. Hub!Announce("poller", page[first], SubSeq(page, first + 1, Len(page)))
      BY <2>3, <2>4, <3>2
    <3> QED BY <1>0, <1>t, <2>3, <3>3, <3>4, AnnounceStep
  <2>5. CASE fresh = {}
    <3>1. /\ task' = [task EXCEPT !["poller"] = Hub!NoTask]
          /\ UNCHANGED <<orders, published, socket, clients, activity, seen, emitted, told,
                         received, doubled, forgotten>>
      BY <2>3, <2>5 DEF Hub!hub, Hub!log
    <3> QED BY <1>0, <1>t, <1>q, <2>3, <3>1, NoTaskQuiet, LoopMoves
  <2> QED BY <2>4, <2>5
<1>3. CASE Hub!Pulse
  <2>1. /\ task["extras"].stage = "waiting" /\ Hub!Broadcast("extras", None, << >>)
        /\ UNCHANGED <<orders, published, inbox, socket, clients, seen, received, doubled,
                       forgotten>>
    BY <1>3 DEF Hub!Pulse
  <2>2. None \notin seen /\ Sales \cap {None} = {}
    BY <1>0, HubConstants
  <2>3. /\ seen' \subseteq Sales /\ IsFiniteSet(seen') /\ Cardinality(seen') <= SeenLimit
        /\ forgotten' \subseteq Sales /\ forgotten \subseteq forgotten'
        /\ seen \cup (Sales \cap {None}) \subseteq seen' \cup forgotten'
    BY <1>0, <2>1, <2>2
  <2> QED BY <1>0, <1>t, <1>e, <2>1, <2>2, <2>3, BroadcastStep
<1> QED BY <1>1, <1>2, <1>3

LEMMA HubStep == HubInv /\ [Hub!Next]_hubVars => HubInv'
<1> SUFFICES ASSUME HubInv, [Hub!Next]_hubVars PROVE HubInv'
  OBVIOUS
<1>u. CASE UNCHANGED hubVars
  <2>1. /\ Hub!IsInjective(orders)' = Hub!IsInjective(orders)
        /\ Hub!ToSet(orders)' = Hub!ToSet(orders) /\ Hub!ToSet(activity)' = Hub!ToSet(activity)
        /\ Hub!Cardinality(seen)' = Hub!Cardinality(seen)
    BY <1>u DEF hubVars, Hub!IsInjective, Hub!ToSet, Hub!Cardinality
  <2>2. HubTypes'
    BY <1>u, <2>1 DEF hubVars, HubInv, HubTypes, Hub!TypeOK
  <2>3. Loops' /\ Sockets' /\ NoneTwice' /\ Remembered'
    BY <1>u DEF hubVars, HubInv, Loops, LoopOK, Quiet, Sockets, NoneTwice, Remembered
  <2>4. NoneMissed'
    BY <1>u, <2>1 DEF hubVars, HubInv, NoneMissed
  <2> QED BY <2>2, <2>3, <2>4 DEF HubInv
<1>n. CASE Hub!Next
  <2>1. CASE \E o \in Sales : Hub!Place(o) \/ Hub!Publish(o)
    BY <2>1, OutsideMoves
  <2>2. CASE \E c \in Clients : Hub!Connect(c) \/ Hub!Leave(c) \/ Hub!Disconnect(c)
    BY <2>2, SocketMoves
  <2>3. CASE \E t \in Hub!Tasks : Hub!Advance(t)
    BY <2>3, SendStep, SentStep DEF Hub!Advance
  <2>4. CASE \/ Hub!Subscribe \/ Hub!TakeMessage \/ Hub!FetchFails \/ Hub!ListenerDies
             \/ Hub!Poll \/ Hub!PollFails
    BY <2>4, QuietSteps
  <2>5. CASE Hub!Fetched \/ Hub!EmitPolled \/ Hub!Pulse
    BY <2>5, AnnouncingSteps
  <2> QED BY <1>n, <2>1, <2>2, <2>3, <2>4, <2>5 DEF Hub!Next
<1> QED BY <1>u, <1>n

(* However the three loops broadcast while sockets come and go, a connected client gets     *)
(* every activity of the history once and none twice (connect, broadcast), and an order is    *)
(* announced again only if trimming dropped it (emit_order, _trim_seen).                        *)
THEOREM HubStaysSound == ObserversSpec => []HubIsSound
<1>1. ObserversInit => HubInv
  BY HubInit DEF ObserversInit
<1>2. HubInv /\ [ObserversNext]_observersVars => HubInv'
  <2>1. [ObserversNext]_observersVars => [Hub!Next]_hubVars
    BY DEF ObserversNext, observersVars
  <2> QED BY <2>1, HubStep
<1>3. HubInv => HubIsSound
  <2> SUFFICES ASSUME HubInv PROVE HubIsSound
    OBVIOUS
  <2>1. Hub!TypeOK /\ emitted \in Nat /\ clients \subseteq Clients
    BY DEF HubInv, HubTypes, Hub!TypeOK
  <2>2. Hub!EveryActivityOnce
    <3> SUFFICES ASSUME NEW c \in clients, socket[c] = "open", NEW n \in 1..emitted
                 PROVE  /\ c \notin doubled /\ (n \in received[c] => Hub!Owed(c, n) = {})
                        /\ n \in Hub!ToSet(activity) =>
                               n \in received[c] \/ Hub!Owed(c, n) # {}
      BY DEF Hub!EveryActivityOnce
    <3>1. c \notin doubled /\ (n \in received[c] => Hub!Owed(c, n) = {})
      BY <2>1 DEF HubInv, NoneTwice, Hub!Owed
    <3>2. n \in Hub!ToSet(activity) => n \in received[c] \/ Hub!Owed(c, n) # {}
      BY <2>1 DEF HubInv, NoneMissed, Hub!Owed
    <3> QED BY <3>1, <3>2
  <2>3. Hub!AnnouncedOnce
    BY DEF HubInv, Remembered, Hub!AnnouncedOnce
  <2> QED BY <2>1, <2>2, <2>3 DEF HubIsSound
<1> QED BY <1>1, <1>2, <1>3, PTL DEF ObserversSpec

-----------------------------------------------------------------------------
(* Deployments.  The revisions first.                                          *)

RevisionIds == {"base", "001", "002"}

(* A sequence of statements.                                                   *)
Script(q) == q \in Seq(Startup!Created(q))

(* What the statements of a revision are, and those that take it back.          *)
Creates(x) == x.do \in {"type", "table", "row"} /\ x.name \notin {"schema", "alembic_version"}

Removes(x) ==
    x.do \in {"drop", "drop_schema", "stamp"} /\ (x.do = "stamp" => x.name \in RevisionIds)

(* A first revision: it creates things of different names, and its downgrade ends with *)
(* the schema.                                                                          *)
Sane(r) ==
    /\ Script(r.up) /\ Script(r.down)
    /\ \A x \in Startup!Created(r.up) : Creates(x)
    /\ \A x, y \in Startup!Created(r.up) : x.name = y.name => x = y
    /\ (\A x \in Startup!Created(r.down) : Removes(x)) /\ r.down # <<>>
    /\ r.down[Len(r.down)] = Startup!DropSchema

LEMMA Creations ==
  /\ \A name : Startup!Enum(name).name = name /\ Startup!Enum(name).do = "type"
  /\ \A name, needs : /\ Startup!Table(name, needs).name = name
                      /\ Startup!Table(name, needs).do = "table"
  /\ \A name, table : /\ Startup!Row(name, table).name = name
                      /\ Startup!Row(name, table).do = "row"
BY DEF Startup!Enum, Startup!Table, Startup!Row

LEMMA Drops ==
  ASSUME NEW name
  PROVE  /\ Startup!Drop(name).do = "drop" /\ Startup!Drop(name).name = name
         /\ Startup!DropSchema.do = "drop_schema"
         /\ Startup!Stamp(name).do = "stamp" /\ Startup!Stamp(name).name = name
BY DEF Startup!Drop, Startup!DropSchema, Startup!Stamp

(* The statements of a script that is written out.                              *)
LEMMA Two ==
  ASSUME NEW a, NEW b
  PROVE  /\ Startup!Created(<<a, b>>) = {a, b}
         /\ <<a, b>> \in Seq({a, b})
<1>1. DOMAIN <<a, b>> = {1, 2}
  OBVIOUS
<1> QED BY <1>1 DEF Startup!Created

LEMMA Three ==
  ASSUME NEW a, NEW b, NEW c
  PROVE  /\ Startup!Created(<<a, b, c>>) = {a, b, c}
         /\ <<a, b, c>> \in Seq({a, b, c})
<1>1. DOMAIN <<a, b, c>> = {1, 2, 3}
  OBVIOUS
<1> QED BY <1>1 DEF Startup!Created

LEMMA Four ==
  ASSUME NEW a, NEW b, NEW c, NEW d
  PROVE  /\ Startup!Created(<<a, b, c, d>>) = {a, b, c, d}
         /\ <<a, b, c, d>> \in Seq({a, b, c, d})
<1>1. DOMAIN <<a, b, c, d>> = {1, 2, 3, 4}
  OBVIOUS
<1> QED BY <1>1 DEF Startup!Created

LEMMA Five ==
  ASSUME NEW a, NEW b, NEW c, NEW d, NEW e
  PROVE  /\ Startup!Created(<<a, b, c, d, e>>) = {a, b, c, d, e}
         /\ <<a, b, c, d, e>> \in Seq({a, b, c, d, e})
<1>1. DOMAIN <<a, b, c, d, e>> = {1, 2, 3, 4, 5}
  OBVIOUS
<1> QED BY <1>1 DEF Startup!Created

LEMMA Six ==
  ASSUME NEW a, NEW b, NEW c, NEW d, NEW e, NEW f
  PROVE  /\ Startup!Created(<<a, b, c, d, e, f>>) = {a, b, c, d, e, f}
         /\ <<a, b, c, d, e, f>> \in Seq({a, b, c, d, e, f})
<1>1. DOMAIN <<a, b, c, d, e, f>> = {1, 2, 3, 4, 5, 6}
  OBVIOUS
<1> QED BY <1>1 DEF Startup!Created

LEMMA Seven ==
  ASSUME NEW a, NEW b, NEW c, NEW d, NEW e, NEW f, NEW g
  PROVE  /\ Startup!Created(<<a, b, c, d, e, f, g>>) = {a, b, c, d, e, f, g}
         /\ <<a, b, c, d, e, f, g>> \in Seq({a, b, c, d, e, f, g})
<1>1. DOMAIN <<a, b, c, d, e, f, g>> = {1, 2, 3, 4, 5, 6, 7}
  OBVIOUS
<1> QED BY <1>1 DEF Startup!Created

LEMMA Eight ==
  ASSUME NEW a, NEW b, NEW c, NEW d, NEW e, NEW f, NEW g, NEW h
  PROVE  /\ Startup!Created(<<a, b, c, d, e, f, g, h>>) = {a, b, c, d, e, f, g, h}
         /\ <<a, b, c, d, e, f, g, h>> \in Seq({a, b, c, d, e, f, g, h})
<1>1. DOMAIN <<a, b, c, d, e, f, g, h>> = {1, 2, 3, 4, 5, 6, 7, 8}
  OBVIOUS
<1> QED BY <1>1 DEF Startup!Created

LEMMA OrdersSane == Sane(Startup!OrdersSchema)
<1> DEFINE r == Startup!OrdersSchema
<1>1. \A x \in Startup!Created(r.up) : Creates(x)
  BY Six, Creations DEF Creates, Startup!OrdersSchema
<1>2. \A x, y \in Startup!Created(r.up) : x.name = y.name => x = y
  BY Six, Creations DEF Startup!OrdersSchema
<1>3. Script(r.up) /\ Script(r.down)
  BY Six, Seven DEF Startup!OrdersSchema, Script
<1>4. r.down # <<>> /\ r.down[Len(r.down)] = Startup!DropSchema
  BY DEF Startup!OrdersSchema
<1>5. \A x \in Startup!Created(r.down) : Removes(x)
  BY Seven, Drops DEF Removes, Startup!OrdersSchema
<1> QED BY <1>1, <1>2, <1>3, <1>4, <1>5 DEF Sane

LEMMA CustomersSane == Sane(Startup!CustomersSchema)
<1> DEFINE r == Startup!CustomersSchema
<1>1. \A x \in Startup!Created(r.up) : Creates(x)
  BY Seven, Creations DEF Creates, Startup!CustomersSchema, Startup!CustomersTables
<1>2. \A x, y \in Startup!Created(r.up) : x.name = y.name => x = y
  BY Seven, Creations DEF Startup!CustomersSchema, Startup!CustomersTables
<1>3. Script(r.up) /\ Script(r.down)
  BY Seven, Eight DEF Startup!CustomersSchema, Startup!CustomersTables, Script
<1>4. r.down # <<>> /\ r.down[Len(r.down)] = Startup!DropSchema
  BY DEF Startup!CustomersSchema
<1>5. \A x \in Startup!Created(r.down) : Removes(x)
  BY Eight, Drops DEF Removes, Startup!CustomersSchema
<1> QED BY <1>1, <1>2, <1>3, <1>4, <1>5 DEF Sane

LEMMA ProductsSane == Sane(Startup!ProductsSchema)
<1> DEFINE r == Startup!ProductsSchema
<1>1. \A x \in Startup!Created(r.up) : Creates(x)
  BY Four, Creations DEF Creates, Startup!ProductsSchema
<1>2. \A x, y \in Startup!Created(r.up) : x.name = y.name => x = y
  BY Four, Creations DEF Startup!ProductsSchema
<1>3. Script(r.up) /\ Script(r.down)
  BY Four, Five DEF Startup!ProductsSchema, Script
<1>4. r.down # <<>> /\ r.down[Len(r.down)] = Startup!DropSchema
  BY DEF Startup!ProductsSchema
<1>5. \A x \in Startup!Created(r.down) : Removes(x)
  BY Five, Drops DEF Removes, Startup!ProductsSchema
<1> QED BY <1>1, <1>2, <1>3, <1>4, <1>5 DEF Sane

LEMMA InventorySane == Sane(Startup!InventorySchema)
<1> DEFINE r == Startup!InventorySchema
<1>1. \A x \in Startup!Created(r.up) : Creates(x)
  BY Six, Creations DEF Creates, Startup!InventorySchema, Startup!InventoryTables
<1>2. \A x, y \in Startup!Created(r.up) : x.name = y.name => x = y
  BY Six, Creations DEF Startup!InventorySchema, Startup!InventoryTables
<1>3. Script(r.up) /\ Script(r.down)
  BY Six, Seven DEF Startup!InventorySchema, Startup!InventoryTables, Script
<1>4. r.down # <<>> /\ r.down[Len(r.down)] = Startup!DropSchema
  BY DEF Startup!InventorySchema
<1>5. \A x \in Startup!Created(r.down) : Removes(x)
  BY Seven, Drops DEF Removes, Startup!InventorySchema
<1> QED BY <1>1, <1>2, <1>3, <1>4, <1>5 DEF Sane

LEMMA FulfillmentSane == Sane(Startup!FulfillmentSchema)
<1> DEFINE r == Startup!FulfillmentSchema
<1>1. \A x \in Startup!Created(r.up) : Creates(x)
  BY Three, Creations DEF Creates, Startup!FulfillmentSchema
<1>2. \A x, y \in Startup!Created(r.up) : x.name = y.name => x = y
  BY Three, Creations DEF Startup!FulfillmentSchema
<1>3. Script(r.up) /\ Script(r.down)
  BY Three, Four DEF Startup!FulfillmentSchema, Script
<1>4. r.down # <<>> /\ r.down[Len(r.down)] = Startup!DropSchema
  BY DEF Startup!FulfillmentSchema
<1>5. \A x \in Startup!Created(r.down) : Removes(x)
  BY Four, Drops DEF Removes, Startup!FulfillmentSchema
<1> QED BY <1>1, <1>2, <1>3, <1>4, <1>5 DEF Sane

LEMMA ShippingSane == Sane(Startup!ShippingSchema)
<1> DEFINE r == Startup!ShippingSchema
<1>1. \A x \in Startup!Created(r.up) : Creates(x)
  BY Three, Creations DEF Creates, Startup!ShippingSchema
<1>2. \A x, y \in Startup!Created(r.up) : x.name = y.name => x = y
  BY Three, Creations DEF Startup!ShippingSchema
<1>3. Script(r.up) /\ Script(r.down)
  BY Three, Four DEF Startup!ShippingSchema, Script
<1>4. r.down # <<>> /\ r.down[Len(r.down)] = Startup!DropSchema
  BY DEF Startup!ShippingSchema
<1>5. \A x \in Startup!Created(r.down) : Removes(x)
  BY Four, Drops DEF Removes, Startup!ShippingSchema
<1> QED BY <1>1, <1>2, <1>3, <1>4, <1>5 DEF Sane

LEMMA PaymentsSane == Sane(Startup!PaymentsSchema)
<1> DEFINE r == Startup!PaymentsSchema
<1>1. \A x \in Startup!Created(r.up) : Creates(x)
  BY Two, Creations DEF Creates, Startup!PaymentsSchema
<1>2. \A x, y \in Startup!Created(r.up) : x.name = y.name => x = y
  BY Two, Creations DEF Startup!PaymentsSchema
<1>3. Script(r.up) /\ Script(r.down)
  BY Two, Three DEF Startup!PaymentsSchema, Script
<1>4. r.down # <<>> /\ r.down[Len(r.down)] = Startup!DropSchema
  BY DEF Startup!PaymentsSchema
<1>5. \A x \in Startup!Created(r.down) : Removes(x)
  BY Three, Drops DEF Removes, Startup!PaymentsSchema
<1> QED BY <1>1, <1>2, <1>3, <1>4, <1>5 DEF Sane

LEMMA TaxSane == Sane(Startup!TaxSchema)
<1> DEFINE r == Startup!TaxSchema
<1>1. \A x \in Startup!Created(r.up) : Creates(x)
  BY Six, Creations DEF Creates, Startup!TaxSchema
<1>2. \A x, y \in Startup!Created(r.up) : x.name = y.name => x = y
  BY Six, Creations DEF Startup!TaxSchema
<1>3. Script(r.up) /\ Script(r.down)
  BY Six, Four DEF Startup!TaxSchema, Script
<1>4. r.down # <<>> /\ r.down[Len(r.down)] = Startup!DropSchema
  BY DEF Startup!TaxSchema
<1>5. \A x \in Startup!Created(r.down) : Removes(x)
  BY Four, Drops DEF Removes, Startup!TaxSchema
<1> QED BY <1>1, <1>2, <1>3, <1>4, <1>5 DEF Sane

LEMMA SuppliersSane == Sane(Startup!SuppliersSchema)
<1> DEFINE r == Startup!SuppliersSchema
<1>1. \A x \in Startup!Created(r.up) : Creates(x)
  BY Four, Creations DEF Creates, Startup!SuppliersSchema
<1>2. \A x, y \in Startup!Created(r.up) : x.name = y.name => x = y
  BY Four, Creations DEF Startup!SuppliersSchema
<1>3. Script(r.up) /\ Script(r.down)
  BY Four, Five DEF Startup!SuppliersSchema, Script
<1>4. r.down # <<>> /\ r.down[Len(r.down)] = Startup!DropSchema
  BY DEF Startup!SuppliersSchema
<1>5. \A x \in Startup!Created(r.down) : Removes(x)
  BY Five, Drops DEF Removes, Startup!SuppliersSchema
<1> QED BY <1>1, <1>2, <1>3, <1>4, <1>5 DEF Sane

LEMMA AccountingSane == Sane(Startup!AccountingSchema)
<1> DEFINE r == Startup!AccountingSchema
<1>1. \A x \in Startup!Created(r.up) : Creates(x)
  BY Four, Creations DEF Creates, Startup!AccountingSchema
<1>2. \A x, y \in Startup!Created(r.up) : x.name = y.name => x = y
  BY Four, Creations DEF Startup!AccountingSchema
<1>3. Script(r.up) /\ Script(r.down)
  BY Four, Five DEF Startup!AccountingSchema, Script
<1>4. r.down # <<>> /\ r.down[Len(r.down)] = Startup!DropSchema
  BY DEF Startup!AccountingSchema
<1>5. \A x \in Startup!Created(r.down) : Removes(x)
  BY Five, Drops DEF Removes, Startup!AccountingSchema
<1> QED BY <1>1, <1>2, <1>3, <1>4, <1>5 DEF Sane

LEMMA PayrollSane == Sane(Startup!PayrollSchema)
<1> DEFINE r == Startup!PayrollSchema
<1>1. \A x \in Startup!Created(r.up) : Creates(x)
  BY Six, Creations DEF Creates, Startup!PayrollSchema, Startup!PayrollTables
<1>2. \A x, y \in Startup!Created(r.up) : x.name = y.name => x = y
  BY Six, Creations DEF Startup!PayrollSchema, Startup!PayrollTables
<1>3. Script(r.up) /\ Script(r.down)
  BY Six, Seven DEF Startup!PayrollSchema, Startup!PayrollTables, Script
<1>4. r.down # <<>> /\ r.down[Len(r.down)] = Startup!DropSchema
  BY DEF Startup!PayrollSchema
<1>5. \A x \in Startup!Created(r.down) : Removes(x)
  BY Seven, Drops DEF Removes, Startup!PayrollSchema
<1> QED BY <1>1, <1>2, <1>3, <1>4, <1>5 DEF Sane

(* The second revision of supplier_service: its downgrade drops what it created and *)
(* leaves the first alone.                                                           *)
LEMMA InvoicesSane ==
  LET r == Startup!InvoicesSchema
      first == Startup!Created(Startup!SuppliersSchema.up)
               \cup {Startup!Namespace, Startup!VersionTable}
  IN  /\ Script(r.up) /\ Script(r.down) /\ r.down # <<>>
      /\ \A x \in Startup!Created(r.up) :
            Creates(x) /\ Startup!Drop(x.name) \in Startup!Created(r.down)
      /\ \A x, y \in Startup!Created(r.up) : x.name = y.name => x = y
      /\ \A d \in Startup!Created(r.down) : d.do = "drop" /\ d = Startup!Drop(d.name)
      /\ \A x \in first, y \in Startup!Created(r.up) : x.name # y.name
      /\ \A x \in first, d \in Startup!Created(r.down) : x.name # d.name /\ d.name \notin x.needs
<1> DEFINE r == Startup!InvoicesSchema
           first == Startup!Created(Startup!SuppliersSchema.up)
               \cup {Startup!Namespace, Startup!VersionTable}
<1>1. Script(r.up) /\ Script(r.down) /\ r.down # <<>>
  BY Six DEF Script, Startup!InvoicesSchema, Startup!InvoicesTables, Startup!InvoicesDown
<1>2. \A x \in Startup!Created(r.up) : Creates(x)
  BY Six, Creations DEF Creates, Startup!InvoicesSchema, Startup!InvoicesTables
<1>3. \A x, y \in Startup!Created(r.up) : x.name = y.name => x = y
  BY Six, Creations DEF Startup!InvoicesSchema, Startup!InvoicesTables
<1>4. \A x \in Startup!Created(r.up) : Startup!Drop(x.name) \in Startup!Created(r.down)
  BY Six, Creations DEF Startup!InvoicesSchema, Startup!InvoicesTables, Startup!InvoicesDown
<1>5. \A d \in Startup!Created(r.down) : d.do = "drop" /\ d = Startup!Drop(d.name)
  BY Six, Drops DEF Startup!InvoicesSchema, Startup!InvoicesDown
<1>6. \A x \in first, y \in Startup!Created(r.up) : x.name # y.name
  <2>1. \A x \in first : x.name \in {"po_status", "suppliers", "purchase_orders", "po_line_items",
                                     "schema", "alembic_version"}
    BY Four, Creations DEF Startup!SuppliersSchema, Startup!Namespace, Startup!VersionTable
  <2>2. \A y \in Startup!Created(r.up) : y.name \notin
             {"po_status", "suppliers", "purchase_orders", "po_line_items", "schema", "alembic_version"}
    BY Six, Creations DEF Startup!InvoicesSchema, Startup!InvoicesTables
  <2> QED BY <2>1, <2>2
<1>7. \A x \in first, d \in Startup!Created(r.down) : x.name # d.name /\ d.name \notin x.needs
  <2>1. \A x \in first : {x.name} \cup x.needs \subseteq
             {"po_status", "suppliers", "purchase_orders", "po_line_items", "schema", "alembic_version"}
    BY Four DEF Startup!SuppliersSchema, Startup!Namespace, Startup!VersionTable,
       Startup!Enum, Startup!Table
  <2>2. \A d \in Startup!Created(r.down) : d.name \notin
             {"po_status", "suppliers", "purchase_orders", "po_line_items", "schema", "alembic_version"}
    BY Six, Drops DEF Startup!InvoicesSchema, Startup!InvoicesDown
  <2> QED BY <2>1, <2>2
<1> QED BY <1>1, <1>2, <1>3, <1>4, <1>5, <1>6, <1>7

(* A service has no revision, a sane one, or is the one with two.                *)
LEMMA RevisionsOf ==
  ASSUME NEW s
  PROVE  \/ Startup!Revisions(s) = <<>>
         \/ \E r : Sane(r) /\ Startup!Revisions(s) = <<r>>
         \/ s = "supplier_service"
            /\ Startup!Revisions(s) = <<Startup!SuppliersSchema, Startup!InvoicesSchema>>
BY OrdersSane, CustomersSane, ProductsSane, InventorySane, FulfillmentSane, ShippingSane,
   PaymentsSane, TaxSane, AccountingSane, PayrollSane DEF Startup!Revisions

-----------------------------------------------------------------------------
(* Scripts.                                                                      *)

LEMMA ScriptBegins ==
  ASSUME NEW q, Script(q), q # <<>>
  PROVE  /\ q[1] \in Startup!Created(q) /\ Script(Tail(q)) /\ Len(Tail(q)) = Len(q) - 1
         /\ Len(q) \in Nat \ {0} /\ (Len(q) = 1 <=> Tail(q) = <<>>)
         /\ Startup!Created(q) = {q[1]} \cup Startup!Created(Tail(q))
         /\ Tail(q) # <<>> => Tail(q)[Len(Tail(q))] = q[Len(q)]
         /\ Len(q) > 2 => Tail(q)[Len(Tail(q)) - 1] = q[Len(q) - 1]
<1> DEFINE S == Startup!Created(q)
           t == Tail(q)
<1>1. /\ t \in Seq(S) /\ Len(q) \in Nat /\ Len(q) > 0 /\ Len(t) = Len(q) - 1
      /\ DOMAIN t = 1..Len(q) - 1 /\ DOMAIN q = 1..Len(q)
      /\ \A i \in 1..Len(q) - 1 : t[i] = q[i + 1]
      /\ (t = <<>> <=> Len(t) = 0)
  <2>1. q \in Seq(S)
    BY DEF Script
  <2>2. t \in Seq(S) /\ Len(t) = Len(q) - 1 /\ \A i \in 1..Len(t) : t[i] = q[i + 1]
    BY <2>1, HeadTailProperties
  <2>3. Len(q) \in Nat /\ Len(q) > 0 /\ DOMAIN q = 1..Len(q)
    BY <2>1, EmptySeq
  <2>4. t = <<>> <=> Len(t) = 0
    <3> HIDE DEF t
    <3> QED BY <2>2, EmptySeq
  <2>5. DOMAIN t = 1..Len(t)
    <3> HIDE DEF t
    <3> QED BY <2>2
  <2> QED BY <2>2, <2>3, <2>4, <2>5
<1> HIDE DEF t
<1>2. q[1] \in S
  BY <1>1 DEF Startup!Created
<1>3. S = {q[1]} \cup Startup!Created(t)
  <2>1. ASSUME NEW i \in DOMAIN q PROVE q[i] \in {q[1]} \cup Startup!Created(t)
    <3>1. CASE i = 1
      BY <3>1
    <3>2. CASE i # 1
      <4>1. i - 1 \in DOMAIN t /\ (i - 1) + 1 = i
        BY <1>1, <2>1, <3>2
      <4>2. t[i - 1] = q[i]
        BY <1>1, <4>1
      <4> QED BY <4>1, <4>2 DEF Startup!Created
    <3> QED BY <3>1, <3>2
  <2>2. ASSUME NEW i \in DOMAIN t PROVE t[i] \in S
    <3>1. i + 1 \in DOMAIN q /\ t[i] = q[i + 1]
      BY <1>1, <2>2
    <3> QED BY <3>1 DEF Startup!Created
  <2> QED BY <1>2, <2>1, <2>2 DEF Startup!Created
<1>4. Script(t)
  <2>1. \A i \in 1..Len(t) : t[i] \in Startup!Created(t)
    BY <1>1 DEF Startup!Created
  <2> QED BY <1>1, <2>1 DEF Script
<1>5. t # <<>> => t[Len(t)] = q[Len(q)]
  BY <1>1
<1>6. Len(q) > 2 => t[Len(t) - 1] = q[Len(q) - 1]
  BY <1>1
<1> QED BY <1>1, <1>2, <1>3, <1>4, <1>5, <1>6 DEF t

LEMMA ScriptsJoin ==
  ASSUME NEW p, NEW q, Script(p), Script(q)
  PROVE  /\ Script(p \o q) /\ Startup!Created(p \o q) = Startup!Created(p) \cup Startup!Created(q)
         /\ Len(p \o q) = Len(p) + Len(q) /\ Len(p) \in Nat /\ Len(q) \in Nat
         /\ \A i \in 1..Len(q) : (p \o q)[Len(p) + i] = q[i]
<1> DEFINE S == Startup!Created(p) \cup Startup!Created(q)
           t == p \o q
<1>1. p \in Seq(S) /\ q \in Seq(S)
  BY DEF Script
<1>2. /\ t \in Seq(S) /\ Len(p) \in Nat /\ Len(q) \in Nat /\ Len(t) = Len(p) + Len(q)
      /\ DOMAIN t = 1..Len(p) + Len(q) /\ DOMAIN p = 1..Len(p) /\ DOMAIN q = 1..Len(q)
      /\ \A i \in 1..Len(p) + Len(q) : t[i] = IF i <= Len(p) THEN p[i] ELSE q[i - Len(p)]
  BY <1>1, ConcatProperties
<1> HIDE DEF t
<1>3. \A i \in 1..Len(p) : t[i] = p[i] /\ i \in DOMAIN t
  BY <1>2
<1>4. \A i \in 1..Len(q) : t[Len(p) + i] = q[i] /\ Len(p) + i \in DOMAIN t
  <2> TAKE i \in 1..Len(q)
  <2>1. Len(p) + i \in 1..Len(p) + Len(q) /\ ~(Len(p) + i <= Len(p)) /\ (Len(p) + i) - Len(p) = i
    BY <1>2
  <2> QED BY <1>2, <2>1
<1>5. S \subseteq Startup!Created(t)
  <2>1. \A i \in DOMAIN p : p[i] \in Startup!Created(t)
    BY <1>2, <1>3 DEF Startup!Created
  <2>2. \A i \in DOMAIN q : q[i] \in Startup!Created(t)
    BY <1>2, <1>4 DEF Startup!Created
  <2> QED BY <2>1, <2>2 DEF Startup!Created
<1>6. Startup!Created(t) \subseteq S
  BY <1>2 DEF Startup!Created
<1>7. Script(t)
  BY <1>2, <1>5, <1>6 DEF Script
<1> QED BY <1>2, <1>4, <1>5, <1>6, <1>7 DEF t

LEMMA ScriptEnds ==
  ASSUME NEW q, NEW x, Script(q)
  PROVE  /\ Script(Append(q, x)) /\ Startup!Created(Append(q, x)) = Startup!Created(q) \cup {x}
         /\ Append(q, x) # <<>> /\ Len(Append(q, x)) = Len(q) + 1 /\ Len(q) \in Nat
         /\ Append(q, x)[Len(q) + 1] = x /\ Len(q) > 0 => Append(q, x)[Len(q)] = q[Len(q)]
         /\ Append(q, x)[Len(Append(q, x))] = x
<1> DEFINE S == Startup!Created(q) \cup {x}
           t == Append(q, x)
<1>1. q \in Seq(S)
  BY DEF Script
<1>2. /\ t \in Seq(S) /\ Len(q) \in Nat /\ Len(t) = Len(q) + 1 /\ t # <<>>
      /\ DOMAIN t = 1..Len(q) + 1 /\ DOMAIN q = 1..Len(q)
      /\ \A i \in 1..Len(q) : t[i] = q[i]
      /\ t[Len(q) + 1] = x
  BY <1>1, AppendProperties
<1> HIDE DEF t
<1>3. S \subseteq Startup!Created(t)
  <2>1. \A i \in DOMAIN q : t[i] = q[i] /\ i \in DOMAIN t
    BY <1>2
  <2>2. Len(q) + 1 \in DOMAIN t
    BY <1>2
  <2> QED BY <1>2, <2>1, <2>2 DEF Startup!Created
<1>4. Startup!Created(t) \subseteq S
  BY <1>2 DEF Startup!Created
<1>5. Script(t)
  BY <1>2, <1>3, <1>4 DEF Script
<1>6. Len(q) > 0 => t[Len(q)] = q[Len(q)]
  BY <1>2
<1> QED BY <1>2, <1>3, <1>4, <1>5, <1>6 DEF t

(* Scripts in a row. *)
LEMMA FlattenNone == ASSUME NEW q, Len(q) = 0, q = <<>> PROVE Startup!FlattenSeq(q) = <<>>
BY DEF Startup!FlattenSeq

LEMMA FlattenOne ==
  ASSUME NEW q, Len(q) = 1
  PROVE  Startup!FlattenSeq(q) = q[1]
<1> DEFINE Is(f) == f = [i \in 1..1 |-> IF i = 1 THEN q[i] ELSE f[i - 1] \o q[i]]
<1>1. Startup!FlattenSeq(q) = (CHOOSE f : Is(f))[1]
  BY DEF Startup!FlattenSeq
<1>2. Is([i \in 1..1 |-> q[i]])
  OBVIOUS
<1>3. Is(CHOOSE f : Is(f))
  <2> HIDE DEF Is
  <2> QED BY <1>2
<1> QED BY <1>1, <1>3

LEMMA FlattenTwo ==
  ASSUME NEW q, Len(q) = 2
  PROVE  Startup!FlattenSeq(q) = q[1] \o q[2]
<1> DEFINE Is(f) == f = [i \in 1..2 |-> IF i = 1 THEN q[i] ELSE f[i - 1] \o q[i]]
           c == CHOOSE f : Is(f)
<1>1. Startup!FlattenSeq(q) = c[2]
  BY DEF Startup!FlattenSeq
<1>2. Is([i \in 1..2 |-> IF i = 1 THEN q[1] ELSE q[1] \o q[2]])
  OBVIOUS
<1>3. Is(c)
  <2> HIDE DEF Is
  <2> QED BY <1>2
<1> HIDE DEF c
<1>4. c[1] = q[1] /\ c[2] = c[1] \o q[2]
  BY <1>3
<1> QED BY <1>1, <1>4

-----------------------------------------------------------------------------
(* What the revisions of a service create, and what up- and downgrades are made of. *)

Newest(s) == Len(Startup!Revisions(s))

Fixed == {Startup!Namespace, Startup!VersionTable}

All(s) == Startup!Objects(s, Newest(s)) \cup Fixed

LEMMA Stamps ==
  /\ Startup!RevisionId(0) = "base" /\ Startup!RevisionId(1) = "001" /\ Startup!RevisionId(2) = "002"
  /\ \A n \in 0..2 : Startup!Number(Startup!RevisionId(n)) = n /\ Startup!RevisionId(n) \in RevisionIds
  /\ \A n \in 0..2 : Startup!RevisionId(n) = "base" <=> n = 0
<1>1. /\ Startup!RevisionId(0) = "base" /\ Startup!RevisionId(1) = "001"
      /\ Startup!RevisionId(2) = "002"
  BY DEF Startup!RevisionId
<1>2. \A m, n \in 0..2 : Startup!RevisionId(m) = Startup!RevisionId(n) => m = n
  BY <1>1
<1>3. ASSUME NEW n \in 0..2 PROVE Startup!Number(Startup!RevisionId(n)) = n
  BY <1>2 DEF Startup!Number
<1>4. \A n \in 0..2 : Startup!RevisionId(n) \in RevisionIds
  BY <1>1 DEF RevisionIds
<1> QED BY <1>1, <1>2, <1>3, <1>4

LEMMA ObjectsOf ==
  ASSUME NEW s
  PROVE  /\ Startup!Objects(s, 0) = {}
         /\ Startup!Objects(s, 1) = Startup!Created(Startup!Revisions(s)[1].up)
         /\ Startup!Objects(s, 2) = Startup!Created(Startup!Revisions(s)[1].up)
                                    \cup Startup!Created(Startup!Revisions(s)[2].up)
<1>1. 1..0 = {} /\ 1..1 = {1} /\ 1..2 = {1, 2}
  OBVIOUS
<1> QED BY <1>1 DEF Startup!Objects

(* Objects of different names, none of them fixed. *)
Whole(s) ==
    /\ \A x \in Startup!Objects(s, Newest(s)) : Creates(x)
    /\ \A x, y \in All(s) : x.name = y.name => x = y

(* An upgrade from revision n. *)
Upward(s, n, q) ==
    /\ Script(q)
    /\ \A x \in Startup!Created(q) :
          x \in Startup!Objects(s, Newest(s)) \/ \E id \in RevisionIds : x = Startup!Stamp(id)
    /\ Startup!Objects(s, n) \cup Startup!Created(q)
          \subseteq Startup!Objects(s, Newest(s)) \cup {Startup!Stamp(id) : id \in RevisionIds}
    /\ Startup!Objects(s, Newest(s)) \subseteq Startup!Objects(s, n) \cup Startup!Created(q)
    /\ q = <<>> => n = Newest(s)
    /\ q # <<>> => q[Len(q)] = Startup!Stamp(Startup!RevisionId(Newest(s)))

(* A downgrade that ends in base, and one that ends in the first of two revisions. *)
ToBase(q) ==
    /\ Script(q) /\ \A x \in Startup!Created(q) : Removes(x)
    /\ q # <<>> /\ q[Len(q)] = Startup!Stamp("base")
    /\ Len(q) > 1 => q[Len(q) - 1] = Startup!DropSchema

ToFirst(q) ==
    /\ Script(q)
    /\ \A x \in Startup!Created(q) :
          x = Startup!Stamp("001") \/ x \in Startup!Created(Startup!InvoicesSchema.down)
    /\ q # <<>> => q[Len(q)] = Startup!Stamp("001")

LEMMA FixedNames ==
  /\ Startup!Namespace.name = "schema" /\ Startup!VersionTable.name = "alembic_version"
  /\ Startup!Namespace.do = "namespace" /\ Startup!VersionTable.do = "table"
BY DEF Startup!Namespace, Startup!VersionTable

LEMMA NoneMigrates == ~Startup!Migrates("none")
BY DEF Startup!Migrates, Startup!Revisions

LEMMA OneRevision ==
  ASSUME NEW s, NEW r, Sane(r), Startup!Revisions(s) = <<r>>
  PROVE  /\ Newest(s) = 1 /\ Startup!Migrates(s) /\ Whole(s)
         /\ \A n \in 0..1 : Upward(s, n, Startup!Upgrades(s, n))
         /\ ToBase(Startup!Downgrades(s, 1, 0)) /\ Len(Startup!Downgrades(s, 1, 0)) > 1
<1>1. Newest(s) = 1 /\ Startup!Revisions(s)[1] = r /\ Startup!Migrates(s)
  BY DEF Newest, Startup!Migrates
<1>2. Startup!Objects(s, 1) = Startup!Created(r.up) /\ Startup!Objects(s, 0) = {}
  BY <1>1, ObjectsOf
<1>3. Whole(s)
  BY <1>1, <1>2, FixedNames DEF Whole, All, Sane, Creates, Fixed
<1>4. Upward(s, 1, Startup!Upgrades(s, 1))
  <2>1. Startup!Upgrades(s, 1) = <<>>
    BY <1>1, FlattenNone DEF Startup!Upgrades, Newest
  <2>2. Startup!Created(<<>>) = {} /\ Script(<<>>)
    BY DEF Startup!Created, Script
  <2> QED BY <1>1, <2>1, <2>2 DEF Upward
<1>5. Upward(s, 0, Startup!Upgrades(s, 0))
  <2> DEFINE q == Append(r.up, Startup!Stamp("001"))
  <2>1. Startup!Upgrades(s, 0) = q
    BY <1>1, Stamps, FlattenOne DEF Startup!Upgrades, Newest
  <2>2. Script(q) /\ Startup!Created(q) = Startup!Created(r.up) \cup {Startup!Stamp("001")}
        /\ q # <<>> /\ q[Len(q)] = Startup!Stamp("001")
    BY ScriptEnds DEF Sane
  <2>3. "001" \in RevisionIds
    BY DEF RevisionIds
  <2> HIDE DEF q
  <2> QED BY <1>1, <1>2, <2>1, <2>2, <2>3, Stamps DEF Upward
<1>6. ToBase(Startup!Downgrades(s, 1, 0)) /\ Len(Startup!Downgrades(s, 1, 0)) > 1
  <2> DEFINE q == Append(r.down, Startup!Stamp("base"))
  <2>1. Startup!Downgrades(s, 1, 0) = q
    BY <1>1, Stamps, FlattenOne DEF Startup!Downgrades
  <2>2. /\ Script(q) /\ Startup!Created(q) = Startup!Created(r.down) \cup {Startup!Stamp("base")}
        /\ q # <<>> /\ q[Len(q)] = Startup!Stamp("base") /\ Len(q) = Len(r.down) + 1
        /\ Len(r.down) \in Nat /\ (Len(r.down) > 0 => q[Len(r.down)] = r.down[Len(r.down)])
    BY ScriptEnds DEF Sane
  <2>3. Len(r.down) > 0
    BY EmptySeq DEF Sane, Script
  <2>4. Removes(Startup!Stamp("base"))
    BY Drops DEF Removes, RevisionIds
  <2> HIDE DEF q
  <2>5. q[Len(q) - 1] = Startup!DropSchema /\ Len(q) > 1
    BY <2>2, <2>3 DEF Sane
  <2> QED BY <2>1, <2>2, <2>4, <2>5 DEF ToBase, Sane
<1> QED
  <2>1. \A n \in 0..1 : n = 0 \/ n = 1
    OBVIOUS
  <2> QED BY <1>1, <1>3, <1>4, <1>5, <1>6, <2>1

LEMMA TwoRevisions ==
  ASSUME NEW s,
         Startup!Revisions(s) = <<Startup!SuppliersSchema, Startup!InvoicesSchema>>
  PROVE  /\ Newest(s) = 2 /\ Startup!Migrates(s) /\ Whole(s)
         /\ \A n \in 0..2 : Upward(s, n, Startup!Upgrades(s, n))
         /\ \A n \in 1..2 : LET q == Startup!Downgrades(s, n, 0) IN ToBase(q) /\ Len(q) > 1
         /\ LET q == Startup!Downgrades(s, 2, 1) IN ToFirst(q) /\ q # <<>>
               /\ \A d \in Startup!Created(Startup!InvoicesSchema.down) : d \in Startup!Created(q)
<1> DEFINE r1 == Startup!SuppliersSchema
           r2 == Startup!InvoicesSchema
           u1 == Append(r1.up, Startup!Stamp("001"))
           u2 == Append(r2.up, Startup!Stamp("002"))
           d1 == Append(r1.down, Startup!Stamp("base"))
           d2 == Append(r2.down, Startup!Stamp("001"))
<1>1. /\ Newest(s) = 2 /\ Startup!Migrates(s)
      /\ Startup!Revisions(s)[1] = r1 /\ Startup!Revisions(s)[2] = r2
  BY DEF Newest, Startup!Migrates
<1>2. Sane(r1)
  BY SuppliersSane
<1>3. /\ Startup!Objects(s, 0) = {} /\ Startup!Objects(s, 1) = Startup!Created(r1.up)
      /\ Startup!Objects(s, 2) = Startup!Created(r1.up) \cup Startup!Created(r2.up)
  BY <1>1, ObjectsOf
<1>4. Whole(s)
  <2>1. \A x \in Startup!Objects(s, 2) : Creates(x)
    BY <1>2, <1>3, InvoicesSane DEF Sane
  <2>2. \A x, y \in Startup!Objects(s, 2) : x.name = y.name => x = y
    <3>1. \A x, y \in Startup!Created(r1.up) : x.name = y.name => x = y
      BY <1>2 DEF Sane
    <3>2. \A x, y \in Startup!Created(r2.up) : x.name = y.name => x = y
      BY InvoicesSane
    <3>3. \A x \in Startup!Created(r1.up), y \in Startup!Created(r2.up) : x.name # y.name
      BY InvoicesSane
    <3> HIDE DEF r1, r2
    <3> QED BY <1>3, <3>1, <3>2, <3>3
  <2> QED BY <1>1, <2>1, <2>2, FixedNames DEF Whole, All, Creates, Fixed
<1>u. /\ Script(u1) /\ Startup!Created(u1) = Startup!Created(r1.up) \cup {Startup!Stamp("001")}
      /\ Script(u2) /\ Startup!Created(u2) = Startup!Created(r2.up) \cup {Startup!Stamp("002")}
      /\ u2 # <<>> /\ u2[Len(u2)] = Startup!Stamp("002")
  BY <1>2, InvoicesSane, ScriptEnds DEF Sane
<1>d. /\ Script(d1) /\ Startup!Created(d1) = Startup!Created(r1.down) \cup {Startup!Stamp("base")}
      /\ d1 # <<>> /\ d1[Len(d1)] = Startup!Stamp("base")
      /\ Script(d2) /\ Startup!Created(d2) = Startup!Created(r2.down) \cup {Startup!Stamp("001")}
      /\ d2 # <<>> /\ d2[Len(d2)] = Startup!Stamp("001")
  BY <1>2, InvoicesSane, ScriptEnds DEF Sane
<1>e. Len(d1) > 1 /\ Len(d1) \in Nat /\ d1[Len(d1) - 1] = Startup!DropSchema
  <2>1. /\ Len(d1) = Len(r1.down) + 1 /\ Len(r1.down) \in Nat
        /\ (Len(r1.down) > 0 => d1[Len(r1.down)] = r1.down[Len(r1.down)])
    BY <1>2, ScriptEnds DEF Sane
  <2>2. Len(r1.down) > 0 /\ r1.down[Len(r1.down)] = Startup!DropSchema
    BY <1>2, EmptySeq DEF Sane, Script
  <2> HIDE DEF d1, r1
  <2> QED BY <2>1, <2>2
<1>i. /\ "001" \in RevisionIds /\ "002" \in RevisionIds
      /\ Removes(Startup!Stamp("base")) /\ Removes(Startup!Stamp("001"))
  BY Drops DEF RevisionIds, Removes
<1>5. Upward(s, 2, Startup!Upgrades(s, 2))
  <2>1. Startup!Upgrades(s, 2) = <<>>
    BY <1>1, FlattenNone DEF Startup!Upgrades, Newest
  <2>2. Startup!Created(<<>>) = {} /\ Script(<<>>)
    BY DEF Startup!Created, Script
  <2> QED BY <1>1, <2>1, <2>2 DEF Upward
<1>6. Upward(s, 1, Startup!Upgrades(s, 1))
  <2>1. Startup!Upgrades(s, 1) = u2
    BY <1>1, Stamps, FlattenOne DEF Startup!Upgrades, Newest
  <2> HIDE DEF u2, u1, r1, r2
  <2> QED BY <1>1, <1>3, <1>u, <1>i, <2>1, Stamps DEF Upward
<1>7. Upward(s, 0, Startup!Upgrades(s, 0))
  <2> DEFINE q == u1 \o u2
  <2>1. Startup!Upgrades(s, 0) = q
    <3> DEFINE p == [i \in 1..2 - 0 |->
                       Append(Startup!Revisions(s)[0 + i].up, Startup!Stamp(Startup!RevisionId(0 + i)))]
    <3>1. Startup!Upgrades(s, 0) = Startup!FlattenSeq(p)
      BY <1>1 DEF Startup!Upgrades, Newest
    <3>2. Len(p) = 2 /\ p[1] = u1 /\ p[2] = u2
      BY <1>1, Stamps
    <3> HIDE DEF p
    <3> QED BY <3>1, <3>2, FlattenTwo
  <2>2. /\ Script(q) /\ Startup!Created(q) = Startup!Created(u1) \cup Startup!Created(u2)
        /\ Len(q) = Len(u1) + Len(u2) /\ Len(u1) \in Nat /\ Len(u2) \in Nat
        /\ \A i \in 1..Len(u2) : q[Len(u1) + i] = u2[i]
    <3> HIDE DEF u1, u2
    <3> QED BY <1>u, ScriptsJoin
  <2> HIDE DEF q, u1, u2, r1, r2
  <2>3. Len(u2) > 0
    BY <1>u, EmptySeq DEF Script
  <2>4. q[Len(q)] = Startup!Stamp("002") /\ q # <<>>
    BY <1>u, <2>2, <2>3
  <2> QED BY <1>1, <1>3, <1>u, <1>i, <2>1, <2>2, <2>4, Stamps DEF Upward
<1>8. LET q == Startup!Downgrades(s, 1, 0) IN ToBase(q) /\ Len(q) > 1
  <2>1. Startup!Downgrades(s, 1, 0) = d1
    BY <1>1, Stamps, FlattenOne DEF Startup!Downgrades
  <2>2. \A x \in Startup!Created(r1.down) : Removes(x)
    BY <1>2 DEF Sane
  <2> HIDE DEF d1, r1
  <2> QED BY <1>d, <1>e, <1>i, <2>1, <2>2 DEF ToBase
<1>9. LET q == Startup!Downgrades(s, 2, 0) IN ToBase(q) /\ Len(q) > 1
  <2> DEFINE q == d2 \o d1
  <2>1. Startup!Downgrades(s, 2, 0) = q
    <3> DEFINE p == [i \in 1..2 - 0 |->
                       Append(Startup!Revisions(s)[2 + 1 - i].down,
                              Startup!Stamp(Startup!RevisionId(2 - i)))]
    <3>1. Startup!Downgrades(s, 2, 0) = Startup!FlattenSeq(p)
      BY <1>1 DEF Startup!Downgrades
    <3>2. Len(p) = 2 /\ p[1] = d2 /\ p[2] = d1
      BY <1>1, Stamps
    <3> HIDE DEF p
    <3> QED BY <3>1, <3>2, FlattenTwo
  <2>2. /\ Script(q) /\ Startup!Created(q) = Startup!Created(d2) \cup Startup!Created(d1)
        /\ Len(q) = Len(d2) + Len(d1) /\ Len(d1) \in Nat /\ Len(d2) \in Nat
        /\ \A i \in 1..Len(d1) : q[Len(d2) + i] = d1[i]
    <3> HIDE DEF d1, d2
    <3> QED BY <1>d, ScriptsJoin
  <2>3. \A x \in Startup!Created(r1.down) : Removes(x)
    BY <1>2 DEF Sane
  <2>4. \A x \in Startup!Created(r2.down) : Removes(x)
    BY InvoicesSane DEF Removes
  <2> HIDE DEF q, d1, d2, r1, r2
  <2>5. q[Len(q)] = Startup!Stamp("base") /\ q # <<>> /\ Len(q) > 1
    BY <1>d, <1>e, <2>2
  <2>6. q[Len(q) - 1] = Startup!DropSchema
    <3>1. Len(d1) - 1 \in 1..Len(d1) /\ Len(q) - 1 = Len(d2) + (Len(d1) - 1)
      BY <1>e, <2>2
    <3> QED BY <1>e, <2>2, <3>1
  <2> QED BY <1>d, <1>i, <2>1, <2>2, <2>3, <2>4, <2>5, <2>6 DEF ToBase
<1>10. LET q == Startup!Downgrades(s, 2, 1) IN ToFirst(q) /\ q # <<>>
             /\ \A d \in Startup!Created(r2.down) : d \in Startup!Created(q)
  <2>1. Startup!Downgrades(s, 2, 1) = d2
    BY <1>1, Stamps, FlattenOne DEF Startup!Downgrades
  <2> HIDE DEF d2
  <2> QED BY <1>d, <2>1 DEF ToFirst
<1> HIDE DEF r1, r2
<1>11. \A n \in 0..2 : n = 0 \/ n = 1 \/ n = 2
  OBVIOUS
<1>12. \A n \in 1..2 : n = 1 \/ n = 2
  OBVIOUS
<1> QED BY <1>1, <1>4, <1>5, <1>6, <1>7, <1>8, <1>9, <1>10, <1>11, <1>12 DEF r1, r2

-----------------------------------------------------------------------------
(* The inductive invariant.                                                    *)

Db(x) == x \in [objects : {x.objects}, revision : {x.revision}]

(* A migration under way: the draft with what is left to do is the whole schema,  *)
(* and the newest revision is the last that is recorded.                           *)
Upgrading(s, q, x) ==
    /\ Script(q)
    /\ \A y \in Startup!Created(q) :
          y \in Startup!Objects(s, Newest(s)) \/ \E id \in RevisionIds : y = Startup!Stamp(id)
    /\ Fixed \subseteq x.objects /\ x.objects \subseteq All(s)
    /\ Startup!Objects(s, Newest(s)) \subseteq x.objects \cup Startup!Created(q)
    /\ q = <<>> => x.revision = Startup!RevisionId(Newest(s))
    /\ q # <<>> => q[Len(q)] = Startup!Stamp(Startup!RevisionId(Newest(s)))

(* A downgrade to base loses alembic_version before its last statement.            *)
Doomed(q, x) == ToBase(q) /\ (Len(q) = 1 => x.objects = {})

(* What the first of the two revisions created.                                    *)
Core == Startup!Created(Startup!SuppliersSchema.up) \cup Fixed

(* A downgrade to the first revision leaves that alone, and will have dropped the rest. *)
Returning(q, x) ==
    /\ ToFirst(q) /\ Core \subseteq x.objects
    /\ \A y \in x.objects : y \in Core \/ Startup!Drop(y.name) \in Startup!Created(q)
    /\ q = <<>> => x.revision = "001"

(* A statement of an upgrade, of a downgrade to base, and of one to the first revision. *)
LEMMA UpgradeGoesOn ==
  ASSUME NEW s, NEW q, NEW x, Whole(s), Db(x), Upgrading(s, q, x), q # <<>>
  PROVE  Upgrading(s, Tail(q), Startup!Execute(x, q[1])) /\ Db(Startup!Execute(x, q[1]))
<1> DEFINE y == q[1]
           t == Tail(q)
           e == Startup!Execute(x, y)
<1>1. /\ y \in Startup!Created(q) /\ Script(t)
      /\ Startup!Created(q) = {y} \cup Startup!Created(t)
      /\ Len(q) = 1 <=> t = <<>>
      /\ t # <<>> => t[Len(t)] = q[Len(q)]
  BY ScriptBegins DEF Upgrading
<1>2. CASE y \in Startup!Objects(s, Newest(s))
  <2>1. Creates(y) /\ y \in All(s)
    BY <1>2 DEF Whole, All
  <2>2. e = IF y.name \in Startup!Names(x) THEN x ELSE [x EXCEPT !.objects = @ \cup {y}]
    BY <2>1 DEF Startup!Execute, Creates
  <2>3. Db(e) /\ e.revision = x.revision /\ e.objects = x.objects \cup {y}
    <3>1. CASE y.name \in Startup!Names(x)
      <4>1. PICK z \in x.objects : z.name = y.name
        BY <3>1 DEF Startup!Names
      <4>2. z = y
        BY <2>1, <4>1 DEF Whole, Upgrading
      <4> QED BY <2>2, <3>1, <4>1, <4>2
    <3>2. CASE y.name \notin Startup!Names(x)
      BY <2>2, <3>2 DEF Db
    <3> QED BY <3>1, <3>2
  <2>4. t # <<>>
    <3>1. CASE t = <<>>
      <4>1. y = Startup!Stamp(Startup!RevisionId(Newest(s)))
        BY <1>1, <3>1 DEF Upgrading
      <4>2. y.do = "stamp"
        BY <4>1, Drops
      <4> QED BY <2>1, <4>2 DEF Creates
    <3> QED BY <3>1
  <2> HIDE DEF y, t, e
  <2> QED BY <1>1, <2>1, <2>3, <2>4 DEF Upgrading, y, t, e
<1>3. CASE y \notin Startup!Objects(s, Newest(s))
  <2>1. PICK id \in RevisionIds : y = Startup!Stamp(id)
    BY <1>1, <1>3 DEF Upgrading
  <2>2. y.do = "stamp" /\ y.name = id
    BY <2>1, Drops
  <2>3. e = [x EXCEPT !.revision = id]
    BY <2>2 DEF Startup!Execute
  <2>4. Db(e) /\ e.objects = x.objects /\ e.revision = id
    BY <2>3 DEF Db
  <2>5. t = <<>> => id = Startup!RevisionId(Newest(s))
    <3>1. ASSUME t = <<>> PROVE y = Startup!Stamp(Startup!RevisionId(Newest(s)))
      BY <1>1, <3>1 DEF Upgrading
    <3> QED BY <2>2, <3>1, Drops
  <2> HIDE DEF y, t, e
  <2> QED BY <1>1, <1>3, <2>4, <2>5 DEF Upgrading, y, t, e
<1> QED BY <1>2, <1>3

LEMMA DoomedGoesOn ==
  ASSUME NEW q, NEW x, Db(x), Doomed(q, x), ~Startup!Refused(x, q[1])
  PROVE  Doomed(Tail(q), Startup!Execute(x, q[1])) /\ Db(Startup!Execute(x, q[1]))
<1> DEFINE y == q[1]
           t == Tail(q)
           e == Startup!Execute(x, y)
<1>1. /\ y \in Startup!Created(q) /\ Script(t) /\ Len(t) = Len(q) - 1 /\ Len(q) \in Nat \ {0}
      /\ Startup!Created(q) = {y} \cup Startup!Created(t)
      /\ Len(q) = 1 <=> t = <<>>
      /\ t # <<>> => t[Len(t)] = q[Len(q)]
      /\ Len(q) > 2 => t[Len(t) - 1] = q[Len(q) - 1]
  BY ScriptBegins DEF Doomed, ToBase
<1>2. Removes(y)
  BY <1>1 DEF Doomed, ToBase
<1>3. Len(q) # 1
  <2>1. ASSUME Len(q) = 1 PROVE FALSE
    <3>1. y = Startup!Stamp("base") /\ x.objects = {}
      BY <2>1 DEF Doomed, ToBase
    <3>2. y.do = "stamp"
      BY <3>1, Drops
    <3>3. "alembic_version" \notin Startup!Names(x)
      BY <3>1 DEF Startup!Names
    <3> QED BY <3>2, <3>3 DEF Startup!Refused
  <2> QED BY <2>1
<1>4. Db(e)
  <2>1. CASE y.do = "drop"
    BY <2>1 DEF Startup!Execute, Db
  <2>2. CASE y.do = "drop_schema"
    BY <2>2 DEF Startup!Execute, Db
  <2>3. CASE y.do = "stamp"
    BY <2>3 DEF Startup!Execute, Db
  <2> QED BY <1>2, <2>1, <2>2, <2>3 DEF Removes
<1>5. Len(q) = 2 => e.objects = {}
  <2>1. ASSUME Len(q) = 2 PROVE y = Startup!DropSchema
    BY <2>1 DEF Doomed, ToBase
  <2>2. Startup!DropSchema.do = "drop_schema"
    BY Drops
  <2>3. y.do = "drop_schema" => e.objects = {}
    BY DEF Startup!Execute, Db
  <2> QED BY <2>1, <2>2, <2>3
<1> HIDE DEF y, t, e
<1>6. Len(t) > 1 => t[Len(t) - 1] = Startup!DropSchema
  BY <1>1 DEF Doomed, ToBase
<1> QED BY <1>1, <1>3, <1>4, <1>5, <1>6 DEF Doomed, ToBase, y, t, e

LEMMA ReturnGoesOn ==
  ASSUME NEW q, NEW x, Db(x), Returning(q, x), q # <<>>
  PROVE  Returning(Tail(q), Startup!Execute(x, q[1])) /\ Db(Startup!Execute(x, q[1]))
<1> DEFINE y == q[1]
           t == Tail(q)
           e == Startup!Execute(x, y)
<1>1. /\ y \in Startup!Created(q) /\ Script(t)
      /\ Startup!Created(q) = {y} \cup Startup!Created(t)
      /\ Len(q) = 1 <=> t = <<>>
      /\ t # <<>> => t[Len(t)] = q[Len(q)]
  BY ScriptBegins DEF Returning, ToFirst
<1>t. ToFirst(t)
  BY <1>1 DEF Returning, ToFirst
<1>2. CASE y = Startup!Stamp("001")
  <2>1. y.do = "stamp" /\ y.name = "001"
    BY <1>2, Drops
  <2>2. e = [x EXCEPT !.revision = "001"]
    BY <2>1 DEF Startup!Execute
  <2>3. Db(e) /\ e.objects = x.objects /\ e.revision = "001"
    BY <2>2 DEF Db
  <2>4. \A z : Startup!Drop(z.name) # y
    BY <2>1, Drops
  <2> HIDE DEF y, t, e
  <2> QED BY <1>1, <1>t, <2>3, <2>4 DEF Returning, y, t, e
<1>3. CASE y # Startup!Stamp("001")
  <2>1. y \in Startup!Created(Startup!InvoicesSchema.down)
    BY <1>1, <1>3 DEF Returning, ToFirst
  <2>2. /\ y.do = "drop" /\ y = Startup!Drop(y.name)
        /\ \A z \in Core : z.name # y.name /\ y.name \notin z.needs
    BY <2>1, InvoicesSane DEF Core, Fixed
  <2>3. e = [x EXCEPT !.objects = Startup!Without(@, y.name)]
    BY <2>2 DEF Startup!Execute
  <2>4. /\ Db(e) /\ e.revision = x.revision
        /\ e.objects = {o \in x.objects : o.name # y.name /\ y.name \notin o.needs}
    BY <2>3 DEF Db, Startup!Without
  <2>5. t # <<>>
    BY <1>1, <1>3 DEF Returning, ToFirst
  <2> HIDE DEF e
  <2>6. Core \subseteq e.objects
    BY <2>2, <2>4 DEF Returning
  <2>7. \A z \in e.objects : z \in Core \/ Startup!Drop(z.name) \in Startup!Created(t)
    <3> TAKE z \in e.objects
    <3>1. z \in x.objects /\ z.name # y.name
      BY <2>4
    <3>2. Startup!Drop(z.name) # y
      BY <3>1, Drops
    <3> QED BY <1>1, <3>1, <3>2 DEF Returning
  <2> QED BY <1>t, <2>4, <2>5, <2>6, <2>7 DEF Returning, e
<1> QED BY <1>2, <1>3

Kept(c) ==
    /\ c \in [stage : Startup!Stage, todo : {c.todo}, draft : {c.draft}, asked : {c.asked},
              bad : {c.bad}, report : Startup!Report]
    /\ Db(c.draft)

Based(s) == Startup!Migrates(s) => schema[s].revision # "base"

(* How far a container may have come.                                           *)
Fit(s, c) ==
    /\ Kept(c)
    /\ c.asked \in 0..Len(Startup!Asks(s))
    /\ c.report # "none" => c.stage = "serving"
    /\ c.stage \in {"connecting", "migrating"} => Startup!Migrates(s)
    /\ c.stage = "connecting" => Startup!Namespace \in schema[s].objects
    /\ c.stage = "migrating" => operator.service # s /\ Upgrading(s, c.todo, c.draft)
    /\ c.stage \in {"migrated", "serving"} => Based(s)
    /\ c.stage # "created" => \A d \in Startup!DependsOn(s) \cap deployment : Based(d)

(* A committed schema is at one of the revisions.                               *)
Full(s, x) ==
    /\ Db(x)
    /\ \E n \in 0..Newest(s) :
        /\ x.revision = Startup!RevisionId(n)
        /\ x.objects \ Fixed = Startup!Objects(s, n)
        /\ n > 0 => Fixed \subseteq x.objects

(* What an operator is doing.                                                   *)
Undoing(o) ==
    /\ o \in [service : {o.service}, todo : {o.todo}, draft : {o.draft}] /\ Db(o.draft)
    /\ o # Startup!Rest =>
          /\ o.service \in deployment
          /\ \/ Doomed(o.todo, o.draft)
             \/ /\ Startup!Revisions(o.service)
                        = <<Startup!SuppliersSchema, Startup!InvoicesSchema>>
                /\ Returning(o.todo, o.draft)

StartupInv ==
    /\ deployment \in Deployments /\ up \subseteq Startup!Stores /\ faults \in 0..Faults
    /\ schema = [s \in deployment |-> schema[s]]
    /\ container = [s \in deployment |-> container[s]]
    /\ \A s \in deployment : Full(s, schema[s]) /\ Fit(s, container[s])
    /\ Undoing(operator)

LEMMA MigratesHow ==
  ASSUME NEW s, Startup!Migrates(s)
  PROVE  /\ Newest(s) \in 1..2 /\ Whole(s) /\ s # "none"
         /\ \A n \in 0..Newest(s) : Upward(s, n, Startup!Upgrades(s, n))
         /\ \A n \in 1..Newest(s) : LET q == Startup!Downgrades(s, n, 0) IN ToBase(q) /\ Len(q) > 1
         /\ Newest(s) = 2 =>
               Startup!Revisions(s) = <<Startup!SuppliersSchema, Startup!InvoicesSchema>>
<1>1. s # "none"
  BY NoneMigrates
<1>2. CASE \E r : Sane(r) /\ Startup!Revisions(s) = <<r>>
  <2>1. PICK r : Sane(r) /\ Startup!Revisions(s) = <<r>>
    BY <1>2
  <2>2. \A n \in 1..1 : n = 1
    OBVIOUS
  <2> QED BY <1>1, <2>1, <2>2, OneRevision
<1>3. CASE Startup!Revisions(s) = <<Startup!SuppliersSchema, Startup!InvoicesSchema>>
  BY <1>1, <1>3, TwoRevisions
<1> QED BY <1>2, <1>3, RevisionsOf DEF Startup!Migrates

LEMMA NewestOf ==
  ASSUME NEW s
  PROVE  Newest(s) \in 0..2 /\ (Newest(s) = 0 <=> ~Startup!Migrates(s))
<1>1. ~Startup!Migrates(s) => Newest(s) = 0
  BY DEF Startup!Migrates, Newest
<1> QED BY <1>1, MigratesHow

(* A schema that is as it should be has a revision of its number.               *)
LEMMA FullNumber ==
  ASSUME NEW s, NEW x, Full(s, x)
  PROVE  LET n == Startup!Number(x.revision) IN
         /\ n \in 0..Newest(s) /\ x.revision = Startup!RevisionId(n)
         /\ x.objects \ Fixed = Startup!Objects(s, n) /\ (n > 0 => Fixed \subseteq x.objects)
         /\ (x.revision = "base" <=> n = 0)
<1>1. PICK n \in 0..Newest(s) :
        /\ x.revision = Startup!RevisionId(n)
        /\ x.objects \ Fixed = Startup!Objects(s, n)
        /\ n > 0 => Fixed \subseteq x.objects
  BY DEF Full
<1>2. n \in 0..2
  BY NewestOf
<1>3. Startup!Number(x.revision) = n /\ (x.revision = "base" <=> n = 0)
  BY <1>1, <1>2, Stamps
<1> QED BY <1>1, <1>3

LEMMA RestIs ==
  /\ Undoing(Startup!Rest) /\ Startup!Rest.service = "none" /\ Startup!Rest.todo = <<>>
BY DEF Startup!Rest, Undoing, Startup!Nothing, Db

(* What else may happen while a container stays as it is.                        *)
LEMMA StillFit ==
  ASSUME UNCHANGED deployment, NEW s \in deployment, NEW c, Fit(s, c),
         \A d \in deployment :
            /\ schema[d].revision # "base" => schema'[d].revision # "base"
            /\ Startup!Namespace \in schema[d].objects => Startup!Namespace \in schema'[d].objects,
         c.stage = "migrating" => operator'.service # s
  PROVE  Fit(s, c)'
<1>1. \A d \in deployment : Based(d) => Based(d)'
  BY DEF Based
<1>3. c.stage \in {"migrated", "serving"} => Based(s)'
  BY <1>1 DEF Fit
<1>4. c.stage # "created" => \A d \in Startup!DependsOn(s) \cap deployment : Based(d)'
  BY <1>1 DEF Fit
<1>5. c.stage = "connecting" => Startup!Namespace \in schema'[s].objects
  BY DEF Fit
<1>6. Kept(c)' /\ (c.stage = "migrating" => Upgrading(s, c.todo, c.draft)')
  BY DEF Fit, Kept, Db, Upgrading
<1> QED BY <1>3, <1>4, <1>5, <1>6 DEF Fit

(* A container goes on, and nothing else happens.                               *)
LEMMA ContainerGoesOn ==
  ASSUME StartupInv, NEW s \in deployment, NEW c, Fit(s, c),
         container' = [container EXCEPT ![s] = c], faults' \in 0..Faults,
         UNCHANGED <<deployment, up, schema, operator>>
  PROVE  StartupInv'
<1>1. \A t \in deployment : container'[t] = IF t = s THEN c ELSE container[t]
  BY DEF StartupInv
<1>2. ASSUME NEW t \in deployment PROVE Fit(t, container[t])'
  <2>1. PICK e : e = container'[t]
    OBVIOUS
  <2>2. Fit(t, e)
    BY <1>1, <2>1 DEF StartupInv
  <2>3. e.stage = "migrating" => operator'.service # t
    BY <2>2 DEF Fit
  <2>4. Fit(t, e)'
    BY <2>2, <2>3, StillFit
  <2> QED BY <2>1, <2>4
<1>3. container' = [t \in deployment' |-> container'[t]]
  BY DEF StartupInv
<1>4. \A t \in deployment : Full(t, schema[t])'
  BY DEF StartupInv, Full, Db
<1>5. Undoing(operator)'
  BY DEF StartupInv, Undoing, Db
<1>6. schema' = [t \in deployment' |-> schema'[t]]
  BY DEF StartupInv
<1> QED BY <1>2, <1>3, <1>4, <1>5, <1>6 DEF StartupInv

(* The operator goes on, or a store, and nothing else happens.                  *)
LEMMA OperatorGoesOn ==
  ASSUME StartupInv, Undoing(operator)', faults' \in 0..Faults, up' \subseteq Startup!Stores,
         operator'.service \in {operator.service, "none"}
            \/ container[operator'.service].stage # "migrating",
         UNCHANGED <<deployment, schema, container>>
  PROVE  StartupInv'
<1>1. ASSUME NEW t \in deployment PROVE Fit(t, container[t])'
  <2>1. PICK e : e = container[t]
    OBVIOUS
  <2>2. Fit(t, e)
    BY <2>1 DEF StartupInv
  <2>3. e.stage = "migrating" => operator'.service # t
    <3>1. e.stage = "migrating" => operator.service # t /\ Startup!Migrates(t)
      BY <2>2 DEF Fit
    <3> QED BY <2>1, <3>1, NoneMigrates
  <2>4. Fit(t, e)'
    BY <2>2, <2>3, StillFit
  <2> QED BY <2>1, <2>4
<1>2. \A t \in deployment : Full(t, schema[t])'
  BY DEF StartupInv, Full, Db
<1> QED BY <1>1, <1>2 DEF StartupInv

-----------------------------------------------------------------------------
(* The steps.                                                                   *)

LEMMA StagesAre ==
  /\ {"booting", "connecting", "migrating", "migrated", "serving", "exited", "created"}
        \subseteq Startup!Stage
  /\ {"none", "ok", "degraded"} \subseteq Startup!Report
BY DEF Startup!Stage, Startup!Report

LEMMA Fresh ==
  ASSUME NEW stage \in Startup!Stage
  PROVE  LET c == Startup!Container(stage) IN
         /\ Kept(c) /\ c.stage = stage /\ c.asked = 0 /\ c.report = "none"
BY StagesAre DEF Startup!Container, Kept, Db, Startup!Nothing

LEMMA AskedFrom == ASSUME NEW s PROVE Len(Startup!Asks(s)) \in Nat
BY DEF Startup!Asks, Startup!GatewayAsks, Startup!CustomerAsks, Startup!ProductAsks,
   Startup!OrderAsks, Startup!InventoryAsks, Startup!FulfillmentAsks, Startup!ShippingAsks,
   Startup!PaymentAsks, Startup!TaxAsks, Startup!SupplierAsks, Startup!AccountingAsks,
   Startup!PayrollAsks, Startup!NotificationAsks, Startup!ReportingAsks

(* A container that starts again has what it had.                               *)
LEMMA Exits ==
  ASSUME NEW s, NEW c, Fit(s, c), c.stage # "created"
  PROVE  Fit(s, Startup!Container("exited"))
<1>1. PICK x : x = Startup!Container("exited")
  OBVIOUS
<1>2. Kept(x) /\ x.stage = "exited" /\ x.asked = 0 /\ x.report = "none"
  BY <1>1, StagesAre, Fresh
<1>3. 0 \in 0..Len(Startup!Asks(s))
  BY AskedFrom
<1> QED BY <1>1, <1>2, <1>3 DEF Fit

LEMMA StageMoves ==
  ASSUME NEW c, Kept(c), NEW stage \in Startup!Stage
  PROVE  LET d == [c EXCEPT !.stage = stage] IN
         /\ Kept(d) /\ d.stage = stage /\ d.todo = c.todo /\ d.draft = c.draft
         /\ d.asked = c.asked /\ d.report = c.report
BY DEF Kept

LEMMA HealthyServes ==
  ASSUME StartupInv, NEW d \in deployment, Startup!Healthy(d)
  PROVE  Based(d)
<1>1. CASE d \in Startup!Stores
  <2>1. ~Startup!Migrates(d)
    BY <1>1 DEF Startup!Stores, Startup!Migrates, Startup!Revisions
  <2> QED BY <2>1 DEF Based
<1>2. CASE d \notin Startup!Stores
  <2>1. container[d].report # "none" /\ Fit(d, container[d])
    BY <1>2 DEF Startup!Healthy, StartupInv
  <2>2. container[d].stage = "serving"
    BY <2>1 DEF Fit
  <2> QED BY <2>1, <2>2 DEF Fit
<1> QED BY <1>1, <1>2

LEMMA ContainerSteps ==
  ASSUME StartupInv, NEW s \in deployment,
         \/ Startup!Start(s) \/ Startup!Restart(s) \/ Startup!Serve(s) \/ Startup!Break(s)
         \/ Startup!Die(s) \/ Startup!Ask(s) \/ Startup!Answer(s)
  PROVE  StartupInv'
<1> DEFINE c == container[s]
<1>1. /\ Fit(s, c) /\ Kept(c) /\ faults \in Nat /\ Faults \in Nat /\ faults \in 0..Faults
  BY ObserversAssumption DEF StartupInv, Fit, Startup!StartupAssumption
<1>2. CASE Startup!Start(s)
  <2>1. PICK d : d = [c EXCEPT !.stage = "booting"]
    OBVIOUS
  <2>2. container' = [container EXCEPT ![s] = d] /\ c.stage = "created"
    BY <1>2, <2>1 DEF Startup!Start
  <2>3. /\ Kept(d) /\ d.stage = "booting" /\ d.asked = c.asked /\ d.report = c.report
    BY <1>1, <2>1, StageMoves, StagesAre
  <2>4. \A e \in Startup!DependsOn(s) \cap deployment : Based(e)
    BY <1>2, HealthyServes DEF Startup!Start
  <2>5. Fit(s, d)
    BY <1>1, <2>2, <2>3, <2>4 DEF Fit
  <2>6. UNCHANGED <<deployment, up, faults, schema, operator>>
    BY <1>2 DEF Startup!Start
  <2> QED BY <1>1, <2>2, <2>5, <2>6, ContainerGoesOn
<1>3. CASE Startup!Restart(s)
  <2>1. PICK d : d = [c EXCEPT !.stage = "booting"]
    OBVIOUS
  <2>2. container' = [container EXCEPT ![s] = d] /\ c.stage = "exited"
    BY <1>3, <2>1 DEF Startup!Restart
  <2>3. /\ Kept(d) /\ d.stage = "booting" /\ d.asked = c.asked /\ d.report = c.report
    BY <1>1, <2>1, StageMoves, StagesAre
  <2>4. Fit(s, d)
    BY <1>1, <2>2, <2>3 DEF Fit
  <2>5. UNCHANGED <<deployment, up, faults, schema, operator>>
    BY <1>3 DEF Startup!Restart
  <2> QED BY <1>1, <2>2, <2>4, <2>5, ContainerGoesOn
<1>4. CASE Startup!Serve(s)
  <2>1. PICK d : d = [c EXCEPT !.stage = "serving"]
    OBVIOUS
  <2>2. /\ container' = [container EXCEPT ![s] = d]
        /\ c.stage = IF Startup!Migrates(s) THEN "migrated" ELSE "booting"
    BY <1>4, <2>1 DEF Startup!Serve
  <2>3. /\ Kept(d) /\ d.stage = "serving" /\ d.asked = c.asked /\ d.report = c.report
    BY <1>1, <2>1, StageMoves, StagesAre
  <2>4. Based(s)
    BY <1>1, <2>2 DEF Fit, Based
  <2>5. Fit(s, d)
    BY <1>1, <2>2, <2>3, <2>4 DEF Fit
  <2>6. UNCHANGED <<deployment, up, faults, schema, operator>>
    BY <1>4 DEF Startup!Serve
  <2> QED BY <1>1, <2>2, <2>5, <2>6, ContainerGoesOn
<1>5. CASE Startup!Break(s)
  <2>1. PICK d : d = Startup!Container("exited")
    OBVIOUS
  <2>2. /\ container' = [container EXCEPT ![s] = d] /\ c.stage # "created"
        /\ UNCHANGED <<deployment, up, faults, schema, operator>>
    BY <1>5, <2>1 DEF Startup!Break
  <2>3. Fit(s, d)
    <3>1. PICK e : e = c
      OBVIOUS
    <3> QED BY <1>1, <2>1, <2>2, <3>1, Exits
  <2> QED BY <1>1, <2>2, <2>3, ContainerGoesOn
<1>6. CASE Startup!Die(s)
  <2>1. PICK d : d = Startup!Container("exited")
    OBVIOUS
  <2>2. /\ container' = [container EXCEPT ![s] = d] /\ c.stage # "created"
        /\ faults' \in 0..Faults /\ UNCHANGED <<deployment, up, schema, operator>>
    BY <1>1, <1>6, <2>1 DEF Startup!Die
  <2>3. Fit(s, d)
    <3>1. PICK e : e = c
      OBVIOUS
    <3> QED BY <1>1, <2>1, <2>2, <3>1, Exits
  <2> QED BY <1>1, <2>2, <2>3, ContainerGoesOn
<1>7. CASE Startup!Ask(s)
  <2>1. PICK bad : bad = (c.bad \/ Startup!Asks(s)[c.asked + 1] \notin up)
    OBVIOUS
  <2>2. PICK d : d = [c EXCEPT !.asked = c.asked + 1, !.bad = bad]
    OBVIOUS
  <2>3. /\ container' = [container EXCEPT ![s] = d] /\ c.stage = "serving"
        /\ c.asked < Len(Startup!Asks(s))
        /\ UNCHANGED <<deployment, up, faults, schema, operator>>
    BY <1>7, <2>1, <2>2 DEF Startup!Ask
  <2>4. /\ Kept(d) /\ d.stage = c.stage /\ d.asked = c.asked + 1 /\ d.report = c.report
    BY <1>1, <2>2 DEF Kept
  <2>5. d.asked \in 0..Len(Startup!Asks(s))
    BY <1>1, <2>3, <2>4, AskedFrom DEF Fit
  <2>6. Fit(s, d)
    BY <1>1, <2>3, <2>4, <2>5 DEF Fit
  <2> QED BY <1>1, <2>3, <2>6, ContainerGoesOn
<1>8. CASE Startup!Answer(s)
  <2>1. PICK report \in Startup!Report : report = IF c.bad THEN "degraded" ELSE "ok"
    BY StagesAre
  <2>2. PICK d : d = [c EXCEPT !.asked = 0, !.bad = FALSE, !.report = report]
    OBVIOUS
  <2>3. /\ container' = [container EXCEPT ![s] = d] /\ c.stage = "serving"
        /\ UNCHANGED <<deployment, up, faults, schema, operator>>
    BY <1>8, <2>1, <2>2 DEF Startup!Answer
  <2>4. /\ Kept(d) /\ d.stage = c.stage /\ d.asked = 0 /\ d.report = report
    BY <1>1, <2>1, <2>2 DEF Kept
  <2>5. d.asked \in 0..Len(Startup!Asks(s))
    BY <2>4, AskedFrom
  <2>6. Fit(s, d)
    BY <1>1, <2>3, <2>4, <2>5 DEF Fit
  <2> QED BY <1>1, <2>3, <2>6, ContainerGoesOn
<1> QED BY <1>2, <1>3, <1>4, <1>5, <1>6, <1>7, <1>8

LEMMA MigrationSteps ==
  ASSUME StartupInv, NEW s \in deployment, Startup!BeginUpgrade(s) \/ Startup!Upgrade(s)
  PROVE  StartupInv'
<1> DEFINE c == container[s]
<1>1. /\ Fit(s, c) /\ Kept(c) /\ faults \in 0..Faults /\ Full(s, schema[s])
      /\ c.stage \in {"connecting", "migrating"} /\ Startup!Migrates(s) /\ Whole(s)
      /\ Newest(s) \in 1..2
  <2>1. Fit(s, c) /\ faults \in 0..Faults /\ Full(s, schema[s])
    BY DEF StartupInv
  <2>2. c.stage \in {"connecting", "migrating"}
    BY DEF Startup!BeginUpgrade, Startup!Upgrade
  <2>3. Startup!Migrates(s) /\ Kept(c)
    BY <2>1, <2>2 DEF Fit
  <2> QED BY <2>1, <2>2, <2>3, MigratesHow
<1>2. CASE Startup!BeginUpgrade(s)
  <2> DEFINE db == schema[s]
             n == Startup!Number(db.revision)
  <2>1. PICK q, x : q = Startup!Upgrades(s, n) /\ x = Startup!Execute(db, Startup!VersionTable)
    OBVIOUS
  <2>2. PICK d : d = [c EXCEPT !.stage = "migrating", !.todo = q, !.draft = x]
    OBVIOUS
  <2>3. /\ container' = [container EXCEPT ![s] = d] /\ c.stage = "connecting"
        /\ operator.service # s
        /\ UNCHANGED <<deployment, up, faults, schema, operator>>
    BY <1>2, <2>1, <2>2 DEF Startup!BeginUpgrade
  <2>4. /\ n \in 0..Newest(s) /\ db.revision = Startup!RevisionId(n) /\ Db(db)
        /\ db.objects \ Fixed = Startup!Objects(s, n) /\ (n > 0 => Fixed \subseteq db.objects)
        /\ Startup!Namespace \in db.objects
    BY <1>1, <2>3, FullNumber DEF Fit, Full
  <2>5. Upward(s, n, q)
    BY <1>1, <2>1, <2>4, MigratesHow
  <2>6. Startup!Objects(s, n) \subseteq Startup!Objects(s, Newest(s))
    <3>1. 1..n \subseteq 1..Newest(s)
      BY <1>1, <2>4
    <3> HIDE DEF n
    <3> QED BY <3>1 DEF Startup!Objects
  <2>7. Db(x) /\ x.revision = db.revision /\ x.objects = db.objects \cup {Startup!VersionTable}
    <3>1. x = IF Startup!VersionTable.name \in Startup!Names(db) THEN db
              ELSE [db EXCEPT !.objects = @ \cup {Startup!VersionTable}]
      BY <2>1, FixedNames DEF Startup!Execute
    <3>2. CASE Startup!VersionTable.name \in Startup!Names(db)
      <4>1. PICK z \in db.objects : z.name = Startup!VersionTable.name
        BY <3>2 DEF Startup!Names
      <4>2. z \in All(s) /\ Startup!VersionTable \in All(s)
        BY <2>4, <2>6, <4>1 DEF All, Fixed
      <4>3. z = Startup!VersionTable
        BY <1>1, <4>1, <4>2 DEF Whole
      <4> QED BY <2>4, <3>1, <3>2, <4>1, <4>3
    <3>3. CASE Startup!VersionTable.name \notin Startup!Names(db)
      BY <2>4, <3>1, <3>3 DEF Db
    <3> QED BY <3>2, <3>3
  <2>8. Upgrading(s, q, x)
    <3>1. Fixed \subseteq x.objects /\ x.objects \subseteq All(s)
      BY <2>4, <2>6, <2>7 DEF All, Fixed
    <3>2. Startup!Objects(s, n) \subseteq x.objects
      BY <2>4, <2>7
    <3> QED BY <2>4, <2>5, <2>7, <3>1, <3>2 DEF Upward, Upgrading
  <2>9. /\ Kept(d) /\ d.stage = "migrating" /\ d.todo = q /\ d.draft = x
        /\ d.asked = c.asked /\ d.report = c.report
    BY <1>1, <2>2, <2>7, StagesAre DEF Kept
  <2>10. Fit(s, d)
    BY <1>1, <2>3, <2>8, <2>9 DEF Fit
  <2> QED BY <1>1, <2>3, <2>10, ContainerGoesOn
<1>3. CASE Startup!Upgrade(s)
  <2>1. PICK q, x : q = c.todo /\ x = c.draft
    OBVIOUS
  <2>2. PICK t, y : t = Tail(q) /\ y = Startup!Execute(x, q[1])
    OBVIOUS
  <2>3. PICK d : d = [c EXCEPT !.todo = t, !.draft = y]
    OBVIOUS
  <2>4. /\ container' = [container EXCEPT ![s] = d] /\ c.stage = "migrating" /\ q # <<>>
        /\ UNCHANGED <<deployment, up, faults, schema, operator>>
    BY <1>3, <2>1, <2>2, <2>3 DEF Startup!Upgrade
  <2>5. Upgrading(s, q, x) /\ operator.service # s
    BY <1>1, <2>1, <2>4 DEF Fit
  <2>6. Db(x)
    BY <1>1, <2>1 DEF Kept
  <2>7. Upgrading(s, t, y) /\ Db(y)
    BY <1>1, <2>2, <2>4, <2>5, <2>6, UpgradeGoesOn
  <2>8. /\ Kept(d) /\ d.stage = "migrating" /\ d.todo = t /\ d.draft = y
        /\ d.asked = c.asked /\ d.report = c.report
    BY <1>1, <2>3, <2>4, <2>7 DEF Kept
  <2>9. Fit(s, d)
    BY <1>1, <2>4, <2>5, <2>7, <2>8 DEF Fit
  <2> QED BY <1>1, <2>4, <2>9, ContainerGoesOn
<1> QED BY <1>2, <1>3

(* A schema that is committed.                                                  *)
LEMMA SchemaGoesOn ==
  ASSUME StartupInv, NEW s \in deployment, NEW x, Full(s, x),
         schema' = [schema EXCEPT ![s] = x],
         schema[s].revision # "base" => x.revision # "base",
         Startup!Namespace \in schema[s].objects => Startup!Namespace \in x.objects,
         NEW c, Fit(s, c)', container' = [container EXCEPT ![s] = c],
         operator'.service \in {operator.service, "none"}, Undoing(operator)',
         UNCHANGED <<deployment, up, faults>>
  PROVE  StartupInv'
<1>1. /\ \A t \in deployment : container'[t] = IF t = s THEN c ELSE container[t]
      /\ \A t \in deployment : schema'[t] = IF t = s THEN x ELSE schema[t]
  BY DEF StartupInv
<1>2. ASSUME NEW t \in deployment PROVE Fit(t, container[t])'
  <2>1. CASE t = s
    <3>1. PICK e : e = container'[t]
      OBVIOUS
    <3>2. e = c
      BY <1>1, <2>1, <3>1
    <3>3. Fit(t, e)'
      BY <2>1, <3>2
    <3> QED BY <3>1, <3>3
  <2>2. CASE t # s
    <3>1. PICK e : e = container'[t]
      OBVIOUS
    <3>2. e = container[t]
      BY <1>1, <2>2, <3>1
    <3>3. Fit(t, e)
      BY <3>2 DEF StartupInv
    <3>4. e.stage = "migrating" => operator'.service # t
      BY <3>3, NoneMigrates DEF Fit
    <3>5. \A d \in deployment :
            /\ schema[d].revision # "base" => schema'[d].revision # "base"
            /\ Startup!Namespace \in schema[d].objects => Startup!Namespace \in schema'[d].objects
      BY <1>1
    <3>6. Fit(t, e)'
      BY <3>3, <3>4, <3>5, StillFit
    <3> QED BY <3>1, <3>6
  <2> QED BY <2>1, <2>2
<1>3. \A t \in deployment : Full(t, schema[t])'
  <2>1. ASSUME NEW t \in deployment PROVE Full(t, schema'[t])
    <3>1. PICK e : e = schema'[t]
      OBVIOUS
    <3>2. Full(t, e)
      BY <1>1, <3>1 DEF StartupInv
    <3> QED BY <3>1, <3>2
  <2> QED BY <2>1 DEF Full, Db
<1>4. /\ container' = [t \in deployment' |-> container'[t]]
      /\ schema' = [t \in deployment' |-> schema'[t]]
  BY DEF StartupInv
<1> QED BY <1>2, <1>3, <1>4 DEF StartupInv

LEMMA NamespaceStep ==
  ASSUME StartupInv, NEW s \in deployment, Startup!CreateNamespace(s)
  PROVE  StartupInv'
<1> DEFINE db == schema[s]
<1>1. Fit(s, container[s]) /\ Full(s, db) /\ Db(db)
  BY DEF StartupInv, Full
<1>2. PICK x : x = [db EXCEPT !.objects = IF "schema" \in Startup!Names(db) THEN @
                                          ELSE @ \cup {Startup!Namespace}]
  OBVIOUS
<1>3. PICK c : c = [container[s] EXCEPT !.stage = "connecting"]
  OBVIOUS
<1>4. /\ schema' = [schema EXCEPT ![s] = x]
      /\ container' = [container EXCEPT ![s] = c] /\ container[s].stage = "booting"
      /\ Startup!Migrates(s) /\ UNCHANGED <<deployment, up, faults, operator>>
  BY <1>2, <1>3 DEF Startup!CreateNamespace
<1>5. Whole(s) /\ Newest(s) \in 1..2
  BY <1>4, MigratesHow
<1>6. PICK n \in 0..Newest(s) :
        /\ db.revision = Startup!RevisionId(n)
        /\ db.objects \ Fixed = Startup!Objects(s, n)
        /\ n > 0 => Fixed \subseteq db.objects
  BY <1>1 DEF Full
<1>7. Db(x) /\ x.revision = db.revision /\ x.objects = db.objects \cup {Startup!Namespace}
  <2>1. CASE "schema" \in Startup!Names(db)
    <3>1. PICK z \in db.objects : z.name = "schema"
      BY <2>1 DEF Startup!Names
    <3>2. z \in Fixed
      <4>1. ASSUME z \notin Fixed PROVE FALSE
        <5>1. z \in Startup!Objects(s, n)
          BY <1>6, <3>1, <4>1
        <5>2. Startup!Objects(s, n) \subseteq Startup!Objects(s, Newest(s))
          <6>1. 1..n \subseteq 1..Newest(s)
            BY <1>5, <1>6
          <6> QED BY <6>1 DEF Startup!Objects
        <5> QED BY <1>5, <3>1, <5>1, <5>2 DEF Whole, Creates
      <4> QED BY <4>1
    <3>3. z = Startup!Namespace
      BY <3>1, <3>2, FixedNames DEF Fixed
    <3>4. x = [db EXCEPT !.objects = db.objects]
      BY <1>2, <2>1
    <3> QED BY <1>1, <3>1, <3>3, <3>4 DEF Db
  <2>2. CASE "schema" \notin Startup!Names(db)
    <3>1. x = [db EXCEPT !.objects = db.objects \cup {Startup!Namespace}]
      BY <1>2, <2>2
    <3> QED BY <1>1, <3>1 DEF Db
  <2> QED BY <2>1, <2>2
<1>8. Full(s, x)
  <2>1. x.objects \ Fixed = Startup!Objects(s, n)
    BY <1>6, <1>7 DEF Fixed
  <2>2. n > 0 => Fixed \subseteq x.objects
    BY <1>6, <1>7
  <2> QED BY <1>6, <1>7, <2>1, <2>2 DEF Full
<1>9. Fit(s, c)'
  <2>1. /\ Kept(c) /\ c.stage = "connecting" /\ c.asked = container[s].asked
        /\ c.report = container[s].report
    BY <1>1, <1>3, StageMoves, StagesAre DEF Fit
  <2>2. schema'[s] = x /\ \A d \in deployment : schema'[d].revision = schema[d].revision
    BY <1>4, <1>7 DEF StartupInv
  <2>3. \A d \in deployment : Based(d) => Based(d)'
    BY <2>2 DEF Based
  <2>4. \A d \in Startup!DependsOn(s) \cap deployment : Based(d)'
    BY <1>1, <1>4, <2>3 DEF Fit
  <2>5. Startup!Namespace \in schema'[s].objects
    BY <1>7, <2>2
  <2>6. Kept(c)'
    BY <2>1 DEF Kept, Db
  <2>7. c.asked \in 0..Len(Startup!Asks(s)) /\ c.report = "none"
    BY <1>1, <1>4, <2>1 DEF Fit
  <2> QED BY <1>4, <2>1, <2>4, <2>5, <2>6, <2>7 DEF Fit
<1>10. Undoing(operator)'
  BY <1>4 DEF StartupInv, Undoing, Db
<1> QED BY <1>4, <1>7, <1>8, <1>9, <1>10, SchemaGoesOn

LEMMA CommitStep ==
  ASSUME StartupInv, NEW s \in deployment, Startup!Commit(s)
  PROVE  StartupInv'
<1>1. Fit(s, container[s]) /\ Full(s, schema[s])
  BY DEF StartupInv
<1>2. PICK x : x = container[s].draft
  OBVIOUS
<1>3. PICK c : c = Startup!Container("migrated")
  OBVIOUS
<1>4. /\ schema' = [schema EXCEPT ![s] = x]
      /\ container' = [container EXCEPT ![s] = c]
      /\ container[s].stage = "migrating" /\ container[s].todo = <<>>
      /\ UNCHANGED <<deployment, up, faults, operator>>
  BY <1>2, <1>3 DEF Startup!Commit
<1>5. /\ Upgrading(s, <<>>, x) /\ Db(x) /\ Startup!Migrates(s)
  BY <1>1, <1>2, <1>4 DEF Fit, Kept
<1>6. Newest(s) \in 1..2 /\ Whole(s)
  BY <1>5, MigratesHow
<1>7. /\ x.revision = Startup!RevisionId(Newest(s)) /\ x.revision # "base"
      /\ Fixed \subseteq x.objects /\ x.objects \ Fixed = Startup!Objects(s, Newest(s))
  <2>1. x.revision = Startup!RevisionId(Newest(s)) /\ Fixed \subseteq x.objects
    BY <1>5 DEF Upgrading
  <2>2. x.revision # "base"
    <3>1. Newest(s) \in 0..2 /\ Newest(s) # 0
      BY <1>6
    <3> QED BY <2>1, <3>1, Stamps
  <2>3. \A y \in Startup!Objects(s, Newest(s)) : y \notin Fixed
    BY <1>6, FixedNames DEF Whole, Creates, Fixed
  <2>4. Startup!Created(<<>>) = {}
    BY DEF Startup!Created
  <2>5. x.objects \ Fixed = Startup!Objects(s, Newest(s))
    BY <1>5, <2>3, <2>4 DEF Upgrading, All
  <2> QED BY <2>1, <2>2, <2>5
<1>8. Full(s, x)
  <2>1. Newest(s) \in 0..Newest(s)
    BY <1>6
  <2> QED BY <1>5, <1>7, <2>1 DEF Full
<1>9. Fit(s, c)'
  <2>1. Kept(c) /\ c.stage = "migrated" /\ c.asked = 0 /\ c.report = "none"
    BY <1>3, Fresh, StagesAre
  <2>2. \A d \in deployment : schema'[d] = IF d = s THEN x ELSE schema[d]
    BY <1>4 DEF StartupInv
  <2>3. \A d \in deployment : Based(d) => Based(d)'
    BY <1>7, <2>2 DEF Based
  <2>4. \A d \in Startup!DependsOn(s) \cap deployment : Based(d)'
    BY <1>1, <1>4, <2>3 DEF Fit
  <2>5. Based(s)'
    BY <1>7, <2>2 DEF Based
  <2>6. Kept(c)'
    BY <2>1 DEF Kept, Db
  <2>7. c.asked \in 0..Len(Startup!Asks(s))
    BY <2>1, AskedFrom
  <2> QED BY <1>4, <2>1, <2>4, <2>5, <2>6, <2>7 DEF Fit
<1>10. Undoing(operator)'
  BY <1>4 DEF StartupInv, Undoing, Db
<1>11. Startup!Namespace \in x.objects
  BY <1>7 DEF Fixed
<1> QED BY <1>4, <1>7, <1>8, <1>9, <1>10, <1>11, SchemaGoesOn

(* The operator takes back what is committed, statement by statement.           *)
LEMMA DowngradeStep ==
  ASSUME StartupInv, NEW s \in deployment, NEW target \in 0..1, Startup!Downgrade(s, target)
  PROVE  StartupInv'
<1> DEFINE db == schema[s]
           n == Startup!Number(db.revision)
<1>1. Fit(s, container[s]) /\ Full(s, db) /\ Db(db) /\ faults \in 0..Faults /\ Faults \in Nat
  BY ObserversAssumption DEF StartupInv, Full, Startup!StartupAssumption
<1>2. PICK q : q = Startup!Downgrades(s, n, target)
  OBVIOUS
<1>3. PICK o : o = [service |-> s, draft |-> db, todo |-> q]
  OBVIOUS
<1>4. /\ operator' = o /\ operator = Startup!Rest /\ container[s].stage = "serving"
      /\ target < n /\ faults' = faults + 1 /\ faults < Faults
      /\ UNCHANGED <<deployment, up, schema, container>>
  BY <1>2, <1>3 DEF Startup!Downgrade
<1>5. /\ n \in 0..Newest(s) /\ db.revision = Startup!RevisionId(n)
      /\ db.objects \ Fixed = Startup!Objects(s, n) /\ (n > 0 => Fixed \subseteq db.objects)
  BY <1>1, FullNumber
<1> HIDE DEF n, db
<1>6. Newest(s) \in 0..2 /\ n > 0 /\ n \in 1..Newest(s)
  BY <1>4, <1>5, NewestOf
<1>7. Startup!Migrates(s)
  BY <1>6, NewestOf
<1>8. CASE target = 0
  <2>1. ToBase(q) /\ Len(q) > 1
    <3>1. q = Startup!Downgrades(s, n, 0)
      BY <1>2, <1>8 DEF n, db
    <3> QED BY <1>6, <1>7, <3>1, MigratesHow
  <2>2. Doomed(q, db)
    <3>1. Len(q) \in Nat
      BY <2>1, ScriptBegins DEF ToBase
    <3> DEFINE length == Len(q)
    <3>2. length \in Nat /\ length > 1
      BY <2>1, <3>1
    <3> HIDE DEF length
    <3>3. length # 1
      BY <3>2
    <3> QED BY <2>1, <3>3 DEF Doomed, length
  <2>3. Undoing(o)
    BY <1>1, <1>3, <2>2 DEF Undoing
  <2>4. Undoing(operator)'
    BY <1>4, <2>3 DEF Undoing, Db
  <2>5. faults' \in 0..Faults /\ container[operator'.service].stage # "migrating"
    BY <1>1, <1>3, <1>4
  <2> QED BY <1>4, <2>4, <2>5, OperatorGoesOn DEF StartupInv
<1>9. CASE target = 1
  <2>1. n = 2 /\ Newest(s) = 2
    BY <1>4, <1>6, <1>9
  <2>2. Startup!Revisions(s) = <<Startup!SuppliersSchema, Startup!InvoicesSchema>>
    BY <1>7, <2>1, MigratesHow
  <2>3. /\ ToFirst(q) /\ q # <<>>
        /\ \A d \in Startup!Created(Startup!InvoicesSchema.down) : d \in Startup!Created(q)
    <3>1. q = Startup!Downgrades(s, 2, 1)
      BY <1>2, <1>9, <2>1 DEF n, db
    <3> QED BY <2>2, <3>1, TwoRevisions
  <2>4. /\ db.objects \ Fixed = Startup!Created(Startup!SuppliersSchema.up)
                               \cup Startup!Created(Startup!InvoicesSchema.up)
        /\ Fixed \subseteq db.objects
    <3>1. /\ Startup!Revisions(s)[1] = Startup!SuppliersSchema
          /\ Startup!Revisions(s)[2] = Startup!InvoicesSchema
      BY <2>2
    <3> QED BY <1>5, <2>1, <3>1, ObjectsOf
  <2>5. \A y \in db.objects : y \in Core \/ Startup!Drop(y.name) \in Startup!Created(q)
    BY <2>3, <2>4, InvoicesSane DEF Core
  <2>6. Core \subseteq db.objects
    BY <2>4 DEF Core
  <2>7. Undoing(o)
    BY <1>1, <1>3, <2>2, <2>3, <2>5, <2>6 DEF Undoing, Returning
  <2>8. Undoing(operator)'
    BY <1>4, <2>7 DEF Undoing, Db
  <2>9. faults' \in 0..Faults /\ container[operator'.service].stage # "migrating"
    BY <1>1, <1>3, <1>4
  <2> QED BY <1>4, <2>8, <2>9, OperatorGoesOn DEF StartupInv
<1> QED
  <2>1. target = 0 \/ target = 1
    OBVIOUS
  <2> QED BY <1>8, <1>9, <2>1

LEMMA CommandUnderway ==
  ASSUME StartupInv, operator # Startup!Rest
  PROVE  /\ operator.service \in deployment /\ Db(operator.draft)
         /\ operator \in [service : {operator.service}, todo : {operator.todo},
                          draft : {operator.draft}]
         /\ \/ Doomed(operator.todo, operator.draft)
            \/ /\ Startup!Revisions(operator.service)
                        = <<Startup!SuppliersSchema, Startup!InvoicesSchema>>
               /\ Returning(operator.todo, operator.draft)
BY DEF StartupInv, Undoing

LEMMA ContinueStep ==
  ASSUME StartupInv, Startup!Continue
  PROVE  StartupInv'
<1>1. PICK q, x : q = operator.todo /\ x = operator.draft
  OBVIOUS
<1>2. PICK t, y : t = Tail(q) /\ y = Startup!Execute(x, q[1])
  OBVIOUS
<1>3. PICK o : o = [operator EXCEPT !.todo = t, !.draft = y]
  OBVIOUS
<1>4. /\ operator' = o /\ q # <<>> /\ ~Startup!Refused(x, q[1])
      /\ UNCHANGED <<deployment, up, faults, schema, container>>
  BY <1>1, <1>2, <1>3 DEF Startup!Continue
<1>5. operator # Startup!Rest
  BY <1>1, <1>4, RestIs
<1>6. /\ operator.service \in deployment /\ Db(x)
      /\ operator \in [service : {operator.service}, todo : {q}, draft : {x}]
      /\ \/ Doomed(q, x)
         \/ /\ Startup!Revisions(operator.service)
                    = <<Startup!SuppliersSchema, Startup!InvoicesSchema>>
            /\ Returning(q, x)
  BY <1>1, <1>5, CommandUnderway
<1>7. /\ o.service = operator.service /\ o.todo = t /\ o.draft = y
      /\ o \in [service : {o.service}, todo : {o.todo}, draft : {o.draft}]
  BY <1>3, <1>6
<1>8. Db(y) /\ (Doomed(q, x) => Doomed(t, y)) /\ (Returning(q, x) => Returning(t, y))
  BY <1>2, <1>4, <1>6, DoomedGoesOn, ReturnGoesOn
<1>9. Undoing(o)
  BY <1>6, <1>7, <1>8 DEF Undoing
<1>10. Undoing(operator)'
  BY <1>4, <1>9 DEF Undoing, Db
<1> QED BY <1>4, <1>7, <1>10, OperatorGoesOn DEF StartupInv

LEMMA EndsAtRest ==
  ASSUME StartupInv, operator' = Startup!Rest, faults' \in 0..Faults, up' \subseteq Startup!Stores,
         UNCHANGED <<deployment, schema, container>>
  PROVE  StartupInv'
<1>1. Undoing(operator)'
  BY RestIs DEF Undoing, Db
<1> QED BY <1>1, RestIs, OperatorGoesOn

(* Only the way back to the first of two revisions is ever committed.           *)
LEMMA CommitDowngradeStep ==
  ASSUME StartupInv, Startup!CommitDowngrade
  PROVE  StartupInv'
<1>1. PICK s, x : s = operator.service /\ x = operator.draft
  OBVIOUS
<1>2. /\ schema' = [schema EXCEPT ![s] = x] /\ operator' = Startup!Rest
      /\ operator # Startup!Rest /\ operator.todo = <<>>
      /\ UNCHANGED <<deployment, up, faults, container>>
  BY <1>1 DEF Startup!CommitDowngrade
<1>3. /\ s \in deployment /\ Db(x) /\ Returning(<<>>, x)
      /\ Startup!Revisions(s) = <<Startup!SuppliersSchema, Startup!InvoicesSchema>>
  BY <1>1, <1>2, CommandUnderway DEF Doomed, ToBase
<1>4. Newest(s) = 2 /\ Whole(s) /\ Startup!Objects(s, 1) = Startup!Created(Startup!SuppliersSchema.up)
  BY <1>3, TwoRevisions, ObjectsOf
<1>5. x.objects = Core /\ x.revision = "001"
  <2>1. Startup!Created(<<>>) = {}
    BY DEF Startup!Created
  <2> QED BY <1>3, <2>1 DEF Returning
<1>6. Full(s, x)
  <2>1. \A y \in Startup!Created(Startup!SuppliersSchema.up) : y \notin Fixed
    BY SuppliersSane, FixedNames DEF Sane, Creates, Fixed
  <2>2. x.objects \ Fixed = Startup!Objects(s, 1) /\ Fixed \subseteq x.objects
    BY <1>4, <1>5, <2>1 DEF Core
  <2>3. 1 \in 0..Newest(s)
    BY <1>4
  <2> QED BY <1>3, <1>5, <2>2, <2>3, Stamps DEF Full
<1>7. PICK c : c = container[s]
  OBVIOUS
<1>8. container' = [container EXCEPT ![s] = c]
  BY <1>2, <1>3, <1>7 DEF StartupInv
<1>9. Fit(s, c)'
  <2>1. Fit(s, c)
    BY <1>3, <1>7 DEF StartupInv
  <2>2. c.stage = "migrating" => operator'.service # s
    BY <1>2, <1>3, RestIs, NoneMigrates, TwoRevisions
  <2>3. \A d \in deployment :
            /\ schema[d].revision # "base" => schema'[d].revision # "base"
            /\ Startup!Namespace \in schema[d].objects => Startup!Namespace \in schema'[d].objects
    <3>1. \A d \in deployment : schema'[d] = IF d = s THEN x ELSE schema[d]
      BY <1>2 DEF StartupInv
    <3>2. Startup!Namespace \in x.objects /\ x.revision # "base"
      BY <1>5 DEF Core, Fixed
    <3> QED BY <3>1, <3>2
  <2> QED BY <1>2, <1>3, <2>1, <2>2, <2>3, StillFit
<1>10. Undoing(operator)'
  BY <1>2, RestIs DEF Undoing, Db
<1>11. Startup!Namespace \in x.objects /\ x.revision # "base"
  BY <1>5 DEF Core, Fixed
<1> QED BY <1>2, <1>3, <1>6, <1>8, <1>9, <1>10, <1>11, RestIs, SchemaGoesOn

LEMMA StoreSteps ==
  ASSUME StartupInv, NEW d \in Startup!Stores, Startup!GoAway(d) \/ Startup!ComeBack(d)
  PROVE  StartupInv'
<1>1. faults \in 0..Faults /\ Faults \in Nat /\ up \subseteq Startup!Stores
  BY ObserversAssumption DEF StartupInv, Startup!StartupAssumption
<1>2. /\ faults' \in 0..Faults /\ up' \subseteq Startup!Stores
      /\ UNCHANGED <<deployment, schema, container>>
      /\ operator' = Startup!Rest \/ operator' = operator
  BY <1>1 DEF Startup!GoAway, Startup!ComeBack
<1>3. CASE operator' = Startup!Rest
  BY <1>2, <1>3, EndsAtRest
<1>4. CASE operator' = operator
  <2>1. Undoing(operator)'
    BY <1>2, <1>4 DEF StartupInv, Undoing, Db
  <2> QED BY <1>2, <1>4, <2>1, OperatorGoesOn
<1> QED BY <1>2, <1>3, <1>4

LEMMA StartupStep == StartupInv /\ [Startup!Next]_startupVars => StartupInv'
<1> SUFFICES ASSUME StartupInv, [Startup!Next]_startupVars PROVE StartupInv'
  OBVIOUS
<1>1. ASSUME NEW s \in deployment, Startup!Progress(s) PROVE StartupInv'
  BY <1>1, ContainerSteps, MigrationSteps, NamespaceStep, CommitStep DEF Startup!Progress
<1>2. ASSUME NEW s \in deployment, Startup!Die(s) PROVE StartupInv'
  BY <1>2, ContainerSteps
<1>3. ASSUME NEW s \in deployment, NEW target \in 0..1, Startup!Downgrade(s, target)
      PROVE  StartupInv'
  BY <1>3, DowngradeStep
<1>4. ASSUME NEW d \in Startup!Stores, Startup!GoAway(d) \/ Startup!ComeBack(d) PROVE StartupInv'
  BY <1>4, StoreSteps
<1>5. CASE Startup!Command
  <2>1. CASE Startup!Rollback
    BY <2>1, EndsAtRest DEF Startup!Rollback, StartupInv
  <2> QED BY <1>5, <2>1, ContinueStep, CommitDowngradeStep DEF Startup!Command
<1>6. CASE UNCHANGED startupVars
  <2>1. UNCHANGED <<deployment, up, faults, schema, container, operator>>
    BY <1>6 DEF startupVars
  <2>2. Undoing(operator)'
    BY <2>1 DEF StartupInv, Undoing, Db
  <2>3. faults' \in 0..Faults /\ up' \subseteq Startup!Stores
    BY <2>1 DEF StartupInv
  <2> QED BY <2>1, <2>2, <2>3, OperatorGoesOn
<1> QED BY <1>1, <1>2, <1>3, <1>4, <1>5, <1>6 DEF Startup!Next

LEMMA StartupBegins == Startup!Init => StartupInv
<1> SUFFICES ASSUME Startup!Init PROVE StartupInv
  OBVIOUS
<1>1. /\ schema = [s \in deployment |-> Startup!Nothing]
      /\ container = [s \in deployment |-> Startup!Container("created")]
      /\ operator = Startup!Rest /\ faults = 0 /\ up = Startup!Stores
      /\ deployment \in Deployments /\ Faults \in Nat
  BY ObserversAssumption DEF Startup!Init, Startup!StartupAssumption
<1>2. \A s \in deployment : schema[s] = Startup!Nothing /\ container[s] = Startup!Container("created")
  BY <1>1
<1>3. ASSUME NEW s \in deployment PROVE Full(s, Startup!Nothing)
  <2>1. /\ Db(Startup!Nothing) /\ Startup!Nothing.objects = {}
        /\ Startup!Nothing.revision = "base"
    BY DEF Startup!Nothing, Db
  <2>2. Startup!Objects(s, 0) = {} /\ 0 \in 0..Newest(s) /\ ~(0 > 0)
    BY ObjectsOf, NewestOf
  <2> QED BY <2>1, <2>2, Stamps DEF Full
<1>4. ASSUME NEW s \in deployment PROVE Fit(s, Startup!Container("created"))
  <2>1. PICK c : c = Startup!Container("created")
    OBVIOUS
  <2>2. Kept(c) /\ c.stage = "created" /\ c.asked = 0 /\ c.report = "none"
    BY <2>1, Fresh, StagesAre
  <2>3. 0 \in 0..Len(Startup!Asks(s))
    BY AskedFrom
  <2> QED BY <2>1, <2>2, <2>3 DEF Fit
<1>5. Undoing(operator)
  BY <1>1, RestIs
<1>6. 0 \in 0..Faults
  BY <1>1
<1> QED BY <1>1, <1>2, <1>3, <1>4, <1>5, <1>6 DEF StartupInv

LEMMA StartupHolds ==
  StartupInv => Startup!TypeOK /\ Startup!SchemaFollowsRevision /\ Startup!DependenciesCameFirst
<1> SUFFICES ASSUME StartupInv
    PROVE Startup!TypeOK /\ Startup!SchemaFollowsRevision /\ Startup!DependenciesCameFirst
  OBVIOUS
<1>1. ASSUME NEW s \in deployment
      PROVE  LET n == Startup!Number(schema[s].revision) IN
             /\ n \in 0..Newest(s) /\ schema[s].revision = Startup!RevisionId(n)
             /\ schema[s].objects \ Fixed = Startup!Objects(s, n)
             /\ (n > 0 => Fixed \subseteq schema[s].objects)
  BY FullNumber DEF StartupInv
<1>2. Startup!SchemaFollowsRevision
  BY <1>1 DEF Startup!SchemaFollowsRevision, Fixed
<1>3. Startup!DependenciesCameFirst
  <2> SUFFICES ASSUME NEW s \in deployment, container[s].stage # "created",
                      NEW d \in (Startup!DependsOn(s) \cup {s}) \cap deployment,
                      ~(d = s /\ container[s].stage # "serving"), Startup!Migrates(d)
               PROVE  schema[d].revision # "base"
    BY DEF Startup!DependenciesCameFirst
  <2>1. Fit(s, container[s])
    BY DEF StartupInv
  <2>2. Based(d)
    BY <2>1 DEF Fit
  <2> QED BY <2>2 DEF Based
<1>4. Startup!TypeOK
  <2>1. ASSUME NEW s \in deployment
        PROVE  /\ container[s].stage \in Startup!Stage
               /\ container[s].report \in Startup!Report
               /\ container[s].asked \in 0..Len(Startup!Asks(s))
               /\ container[s].report # "none" => container[s].stage = "serving"
    BY DEF StartupInv, Fit, Kept
  <2>2. ASSUME NEW s \in deployment
        PROVE  schema[s].revision \in {Startup!RevisionId(n) : n \in 0..Len(Startup!Revisions(s))}
    BY <1>1 DEF Newest
  <2>3. operator.service \in deployment \cup {"none"}
    BY RestIs DEF StartupInv, Undoing
  <2> QED BY <2>1, <2>2, <2>3 DEF StartupInv, Startup!TypeOK
<1> QED BY <1>2, <1>3, <1>4

(* However often stores and containers fail while services come up, a committed   *)
(* schema holds what the revisions up to its own create, and a service that was     *)
(* started finds the schemas of those it depends on: a migration is one transaction *)
(* (env.py), and a downgrade to base is undone with the table it would record it in  *)
(* (downgrade).                                                                        *)
THEOREM StartupStaysSound == ObserversSpec => []StartupIsSound
<1>1. ObserversInit => StartupInv
  BY StartupBegins DEF ObserversInit
<1>2. StartupInv /\ [ObserversNext]_observersVars => StartupInv'
  <2> SUFFICES ASSUME StartupInv, [ObserversNext]_observersVars PROVE StartupInv'
    OBVIOUS
  <2>1. CASE Startup!Next
    BY <2>1, StartupStep
  <2>2. CASE UNCHANGED startupVars
    BY <2>2, StartupStep
  <2> QED BY <2>1, <2>2 DEF ObserversNext, observersVars
<1>3. StartupInv => StartupIsSound
  BY StartupHolds DEF StartupIsSound
<1> QED BY <1>1, <1>2, <1>3, PTL DEF ObserversSpec
=============================================================================
