-------------------------- MODULE NetworkFeedProofs ---------------------------
(***************************************************************************)
(* That a network is never read twice within the floor, that what is shown *)
(* is of the network chosen and that an ATIS is read from no older feed    *)
(* than the times allow, for all times, back-offs and bounds.              *)
(***************************************************************************)
EXTENDS NetworkFeed, WellFoundedInduction, TLAPS

Networks == OnlineNetworks \cup {None}
Requests == SUBSET [network : OnlineNetworks, age : 0..Timeout, current : BOOLEAN]
Waiters == [network : OnlineNetworks, age : 0..AtisWait]

FeedTyped == set \in Settings /\ svc \in Services /\ requests \in Requests /\ quiet \in 0..Floor

\* What the service remembers of the last request is what the networks saw of it, up to the
\* floor: no settings, failure or switch of network makes it look older.
FloorIsKnown == quiet = IF svc.lastStart < Floor THEN svc.lastStart ELSE Floor

\* A feed that is held is of the network chosen.
HeldIsChosen == svc.snapshot # None => svc.snapshot = set.network

\* The service's state is of the network chosen, or nothing has been read yet.  At most one
\* request is on its way, the one last started, and the service waits for one only while it is.
OneRead(st, s, rs) ==
  /\ s.network # st.network => rs = {} /\ s.snapshot = None /\ ~s.inFlight
  /\ \A r \in rs : r.age = s.lastStart /\ \A t \in rs : r = t
  /\ s.inFlight => s.retry = 0 /\ \E r \in rs : r.current /\ r.network = st.network

\* How old a feed is when the read after its second failure is due.
KeptFor == StaleAfter + Backoff[2]

\* A feed still held has not failed so often that the next failure could leave it be; the next
\* read comes while it is still fit for an ATIS, and a waiter has a timer for it or came after
\* the request it waits for.
HeldIsFit(st, s, rs) ==
  s.snapshot # None =>
    /\ s.lastOk # None
    /\ ~NetworkChosen(st) => s.atisWaiters = {}
    /\ (\E r \in rs : r.current) => s.inFlight
    /\ s.failures >= 2 => s.lastOk + s.retry >= StaleAfter
    /\ ~s.inFlight => /\ s.retry = 0 \/ s.lastOk + s.retry < KeptFor
                      /\ s.lastStart + s.retry >= Floor \/ s.lastOk <= s.lastStart
    /\ s.inFlight => \A w \in s.atisWaiters : s.lastOk <= KeptFor + s.lastStart
                                              \/ w.age <= s.lastStart

\* Whoever waits for a read while none is out has a timer that ends it in time.
WaitIsTimed(s) ==
  s.snapshot # None /\ s.atisWaiters # {} /\ ~s.inFlight =>
    s.timer # None /\ s.lastOk + s.timer <= KeptFor

FInv ==
  /\ FeedTyped /\ FloorIsKnown /\ HeldIsChosen /\ OnlyTheChosenIsShown
  /\ OneRead(set, svc, requests) /\ HeldIsFit(set, svc, requests) /\ WaitIsTimed(svc)

-----------------------------------------------------------------------------
(* Numbers.                                                                *)

LEMMA MaxOfTwo ==
  ASSUME NEW a \in Nat, NEW b \in Nat
  PROVE  Max({a, b}) \in {a, b} /\ Max({a, b}) >= a /\ Max({a, b}) >= b
<1>1. \E x \in {a, b} : \A y \in {a, b} : x >= y
  OBVIOUS
<1>2. Max({a, b}) \in {a, b} /\ \A y \in {a, b} : Max({a, b}) >= y
  BY <1>1 DEF Max
<1> QED
  BY <1>2

LEMMA MinOfTwo ==
  ASSUME NEW a \in Nat, NEW b \in Nat
  PROVE  /\ Min({a, b}) \in {a, b}
         /\ Min({a, b}) <= a /\ Min({a, b}) <= b
<1>1. \E x \in {a, b} : \A y \in {a, b} : x <= y
  OBVIOUS
<1>2. Min({a, b}) \in {a, b} /\ \A y \in {a, b} : Min({a, b}) <= y
  BY <1>1 DEF Min
<1> QED
  BY <1>2

LEMMA Least ==
  ASSUME NEW T, T \subseteq Nat, T # {}
  PROVE  \E x \in T : \A y \in T : x <= y
<1>1. \E x \in T : \A y \in T : ~(<<y, x>> \in OpToRel(<, Nat))
  BY NatLessThanWellFounded, WFMin
<1>2. PICK x \in T : \A y \in T : ~(<<y, x>> \in OpToRel(<, Nat))
  BY <1>1
<1>3. \A y \in T : ~(y < x)
  BY <1>2 DEF OpToRel
<1> QED
  BY <1>3

LEMMA OldestBounds ==
  /\ Oldest \in Nat /\ Oldest >= KeptFor + Timeout /\ Oldest >= AtisFresh
  /\ KeptFor \in Nat /\ KeptFor >= StaleAfter
<1>1. /\ StaleAfter \in Nat /\ Backoff[2] \in Nat /\ Timeout \in Nat /\ AtisFresh \in Nat
  BY FeedAssumption
<1> DEFINE kept == StaleAfter + Backoff[2] + Timeout
<1>2. kept \in Nat
  BY <1>1
<1>3. Oldest = Max({kept, AtisFresh})
  BY DEF Oldest
<1>4. kept = KeptFor + Timeout /\ KeptFor \in Nat /\ KeptFor >= StaleAfter
  BY <1>1 DEF KeptFor
<1> HIDE DEF kept
<1>5. Oldest \in {kept, AtisFresh} /\ Oldest >= kept /\ Oldest >= AtisFresh
  BY <1>1, <1>2, <1>3, MaxOfTwo
<1> QED
  BY <1>1, <1>2, <1>4, <1>5

\* No step of the back-off and no interval is longer than Longest.
LEMMA LongestBounds ==
  /\ Longest \in Nat /\ Longest >= SlowInterval
  /\ \A i \in 1..Len(Backoff) : Backoff[i] \in 0..Longest
<1> DEFINE Upto(k) == {Backoff[i] : i \in 1..k} \cup {SlowInterval}
           Tops(k) == \E x \in Upto(k) : \A y \in Upto(k) : x >= y
           bad == {k \in 0..Len(Backoff) : ~Tops(k)}
<1>1. /\ Len(Backoff) \in Nat /\ SlowInterval \in Nat
      /\ \A i \in 1..Len(Backoff) : Backoff[i] \in Nat
  BY FeedAssumption
<1> HIDE DEF Tops
<1>2. bad = {}
  <2> SUFFICES ASSUME bad # {} PROVE FALSE
    OBVIOUS
  <2>1. bad \subseteq Nat
    BY <1>1
  <2>2. \E k \in bad : \A j \in bad : k <= j
    BY <2>1, Least
  <2>3. PICK k \in bad : \A j \in bad : k <= j
    BY <2>2
  <2>4. k \in 0..Len(Backoff) /\ ~Tops(k)
    OBVIOUS
  <2>5. k # 0
    <3>1. Upto(0) = {SlowInterval}
      OBVIOUS
    <3> QED
      BY <1>1, <2>4, <3>1 DEF Tops
  <2>6. k - 1 \in 0..Len(Backoff) /\ k \in 1..Len(Backoff) /\ ~(k <= k - 1)
    BY <1>1, <2>4, <2>5
  <2>7. Tops(k - 1)
    BY <2>3, <2>6
  <2>8. Upto(k) = Upto(k - 1) \cup {Backoff[k]}
    <3>1. 1..k = 1..(k - 1) \cup {k}
      BY <1>1, <2>6
    <3> QED
      BY <3>1
  <2>9. Upto(k - 1) \subseteq Nat /\ Backoff[k] \in Nat
    BY <1>1, <2>6
  <2> HIDE DEF Upto
  <2>10. PICK m \in Upto(k - 1) : \A y \in Upto(k - 1) : m >= y
    BY <2>7 DEF Tops
  <2>11. CASE m >= Backoff[k]
    BY <2>4, <2>8, <2>10, <2>11 DEF Tops
  <2>12. CASE ~(m >= Backoff[k])
    <3>1. \A y \in Upto(k) : Backoff[k] >= y
      BY <2>8, <2>9, <2>10, <2>12
    <3> QED
      BY <2>4, <2>8, <3>1 DEF Tops
  <2> QED
    BY <2>11, <2>12
<1>3. Tops(Len(Backoff))
  BY <1>1, <1>2
<1>4. DOMAIN Backoff = 1..Len(Backoff)
  BY FeedAssumption
<1>5. Longest = Max(Upto(Len(Backoff)))
  BY <1>4 DEF Longest
<1>6. /\ Upto(Len(Backoff)) \subseteq Nat /\ SlowInterval \in Upto(Len(Backoff))
      /\ \A i \in 1..Len(Backoff) : Backoff[i] \in Upto(Len(Backoff))
  BY <1>1
<1> HIDE DEF Upto
<1>7. Longest \in Upto(Len(Backoff)) /\ \A y \in Upto(Len(Backoff)) : Longest >= y
  BY <1>3, <1>5 DEF Max, Tops
<1> QED
  BY <1>1, <1>6, <1>7

\* A step of the back-off, whatever the number of failures.
LEMMA BackoffBounds ==
  ASSUME NEW failures \in 0..Len(Backoff)
  PROVE  /\ Min({failures + 1, Len(Backoff)}) \in 1..Len(Backoff)
         /\ Min({failures + 1, Len(Backoff)}) <= failures + 1
         /\ Backoff[Min({failures + 1, Len(Backoff)})] \in 0..Longest
<1> DEFINE n == Min({failures + 1, Len(Backoff)})
<1>1. Len(Backoff) \in Nat /\ Len(Backoff) >= 2 /\ failures + 1 \in Nat
  BY FeedAssumption
<1>2. n \in {failures + 1, Len(Backoff)} /\ n <= Len(Backoff) /\ n <= failures + 1
  BY <1>1, MinOfTwo
<1>3. n \in 1..Len(Backoff)
  BY <1>1, <1>2
<1> HIDE DEF n
<1>4. Backoff[n] \in 0..Longest
  BY <1>3, LongestBounds
<1> QED
  BY <1>2, <1>3, <1>4 DEF n

LEMMA LeftBounds ==
  ASSUME NEW interval \in Nat, NEW age \in Nat
  PROVE  /\ Left(interval, age) \in 0..interval
         /\ Left(interval, age) = 0 => age >= interval
         /\ age < interval => Left(interval, age) + age = interval
BY DEF Left

\* Nothing is due before the floor has passed, nor before the back-off has; and a read that is
\* not the slow one waits for no more than the one or the other.
LEMMA DueBounds ==
  ASSUME NEW s \in Services, NEW kind
  PROVE  /\ Due(s, kind) \in 0..Longest /\ Due(s, kind) >= s.retry
         /\ Due(s, kind) = 0 => s.lastStart >= Floor /\ s.retry = 0
         /\ kind # "slow" => \/ Due(s, kind) = s.retry
                             \/ s.lastStart + Due(s, kind) = Floor
<1> DEFINE interval == IF kind = "slow" THEN SlowInterval ELSE Floor
           left == Left(interval, s.lastStart)
<1>1. /\ interval \in Nat /\ interval >= Floor /\ interval <= SlowInterval /\ Floor \in Nat
      /\ SlowInterval \in Nat
  BY FeedAssumption
<1>2. s.lastStart \in Nat /\ s.retry \in 0..Longest /\ Longest \in Nat /\ Longest >= SlowInterval
  BY FeedAssumption, LongestBounds DEF Services
<1>3. /\ left \in 0..interval /\ (left = 0 => s.lastStart >= interval)
      /\ s.lastStart < interval => left + s.lastStart = interval
  BY <1>1, <1>2, LeftBounds
<1>4. Due(s, kind) = Max({left, s.retry})
  BY DEF Due
<1>5. kind # "slow" => interval = Floor
  OBVIOUS
<1>6. left > 0 => s.lastStart < interval
  BY <1>1, <1>2 DEF Left
<1> HIDE DEF interval, left
<1>7. /\ Max({left, s.retry}) \in {left, s.retry} /\ Max({left, s.retry}) >= left
      /\ Max({left, s.retry}) >= s.retry
  BY <1>1, <1>2, <1>3, MaxOfTwo
<1>8. Due(s, kind) \in 0..Longest /\ Due(s, kind) >= s.retry
  BY <1>1, <1>2, <1>3, <1>4, <1>7
<1>9. Due(s, kind) = 0 => s.lastStart >= Floor /\ s.retry = 0
  BY <1>1, <1>2, <1>3, <1>4, <1>7
<1>10. kind # "slow" => Due(s, kind) = s.retry \/ s.lastStart + Due(s, kind) = Floor
  BY <1>1, <1>2, <1>3, <1>4, <1>5, <1>6, <1>7
<1> QED
  BY <1>8, <1>9, <1>10

-----------------------------------------------------------------------------
(* The poll step.                                                          *)

LEMMA OfNetworkFields ==
  ASSUME NEW s \in Services, NEW n \in Networks
  PROVE  /\ OfNetwork(s, n) \in Services /\ OfNetwork(s, n).network = n
         /\ OfNetwork(s, n).lastStart = s.lastStart
         /\ OfNetwork(s, n).snapshot = s.snapshot /\ OfNetwork(s, n).traffic = s.traffic
         /\ OfNetwork(s, n).lastOk = s.lastOk /\ OfNetwork(s, n).atisWaiters = s.atisWaiters
         /\ s.network = n => OfNetwork(s, n) = s
         /\ s.network # n => ~OfNetwork(s, n).inFlight
<1>1. Len(Backoff) \in Nat /\ 0 \in 0..Len(Backoff) /\ 0 \in 0..Longest
  BY FeedAssumption, LongestBounds
<1>2. CASE s.network = n
  BY <1>2 DEF OfNetwork
<1>3. CASE s.network # n
  <2> DEFINE t == [s EXCEPT !.network = n, !.inFlight = FALSE, !.failures = 0, !.retry = 0]
  <2>1. OfNetwork(s, n) = t
    BY <1>3 DEF OfNetwork
  <2>2. /\ t \in Services /\ t.network = n /\ t.lastStart = s.lastStart
        /\ t.snapshot = s.snapshot /\ t.traffic = s.traffic
        /\ t.lastOk = s.lastOk /\ t.atisWaiters = s.atisWaiters /\ ~t.inFlight
    BY ZenonT(60), <1>1 DEF Services, Networks
  <2> QED
    BY <1>3, <2>1, <2>2
<1> QED
  BY <1>2, <1>3

\* What a tick does to the service's fields: p is the service for the network chosen.
LEMMA TickFields ==
  ASSUME NEW s \in Services, NEW st \in Settings, NEW p, p = OfNetwork(s, st.network),
         NEW kind, kind = wanted(st, s)
  PROVE  /\ tick(st, s) \in Services /\ tick(st, s).network = st.network
         /\ tick(st, s).snapshot = s.snapshot /\ tick(st, s).traffic = s.traffic
         /\ tick(st, s).lastOk = s.lastOk /\ tick(st, s).atisWaiters = s.atisWaiters
         /\ tick(st, s).failures = p.failures /\ tick(st, s).retry = p.retry
         /\ Idles(st, s) => /\ tick(st, s).lastStart = s.lastStart
                            /\ tick(st, s).inFlight = p.inFlight
                            /\ kind # "none" /\ ~p.inFlight =>
                                 tick(st, s).timer = Due(p, kind)
         /\ ~Idles(st, s) => /\ tick(st, s).lastStart = 0 /\ s.lastStart >= Floor
                             /\ tick(st, s).inFlight /\ ~p.inFlight /\ p.retry = 0
                             /\ kind # "none" /\ st.network \in OnlineNetworks
<1> DEFINE q == [p EXCEPT !.timer = None]
<1>1. st.network \in Networks
  BY DEF Settings, Networks
<1>2. /\ p \in Services /\ p.network = st.network /\ p.lastStart = s.lastStart
      /\ p.snapshot = s.snapshot /\ p.traffic = s.traffic
      /\ p.lastOk = s.lastOk /\ p.atisWaiters = s.atisWaiters
  BY <1>1, OfNetworkFields
<1>3. /\ q \in Services /\ q.lastStart = p.lastStart /\ q.retry = p.retry
      /\ q.snapshot = p.snapshot /\ q.traffic = p.traffic /\ q.inFlight = p.inFlight
      /\ q.network = p.network /\ q.lastOk = p.lastOk /\ q.atisWaiters = p.atisWaiters
      /\ q.failures = p.failures
  BY SMTT(30), <1>2 DEF Services
<1>4. Due(q, kind) = Due(p, kind)
  BY <1>3 DEF Due
<1>5. /\ Due(p, kind) \in 0..Longest
      /\ Due(p, kind) = 0 => p.lastStart >= Floor /\ p.retry = 0
  BY <1>2, DueBounds
<1>6. Idles(st, s) <=> kind = "none" \/ p.inFlight \/ Due(p, kind) > 0
  BY DEF Idles
<1>7. tick(st, s) = IF kind = "none" \/ q.inFlight THEN q
                    ELSE IF Due(q, kind) > 0 THEN [q EXCEPT !.timer = Due(q, kind)]
                    ELSE [q EXCEPT !.inFlight = TRUE, !.lastStart = 0]
  BY DEF tick
<1>8. kind # "none" => st.network \in OnlineNetworks
  BY DEF wanted, NetworkChosen, Settings
<1>9. Longest \in Nat
  BY LongestBounds
<1> HIDE DEF q
<1>10. CASE kind = "none" \/ p.inFlight
  <2>1. tick(st, s) = q /\ Idles(st, s)
    BY <1>3, <1>6, <1>7, <1>10
  <2> QED
    BY <1>2, <1>3, <1>10, <2>1
<1>11. CASE ~(kind = "none" \/ p.inFlight) /\ Due(p, kind) > 0
  <2>1. tick(st, s) = [q EXCEPT !.timer = Due(p, kind)] /\ Idles(st, s)
    BY <1>3, <1>4, <1>6, <1>7, <1>11
  <2>2. /\ tick(st, s) \in Services /\ tick(st, s).lastStart = q.lastStart
        /\ tick(st, s).snapshot = q.snapshot /\ tick(st, s).traffic = q.traffic
        /\ tick(st, s).lastOk = q.lastOk /\ tick(st, s).atisWaiters = q.atisWaiters
        /\ tick(st, s).failures = q.failures /\ tick(st, s).retry = q.retry
        /\ tick(st, s).inFlight = q.inFlight /\ tick(st, s).timer = Due(p, kind)
        /\ tick(st, s).network = q.network
    BY SMTT(30), <2>1, <1>3, <1>5 DEF Services
  <2> QED
    BY <1>2, <1>3, <2>1, <2>2
<1>12. CASE ~(kind = "none" \/ p.inFlight) /\ ~(Due(p, kind) > 0)
  <2>1. tick(st, s) = [q EXCEPT !.inFlight = TRUE, !.lastStart = 0] /\ ~Idles(st, s)
    BY <1>3, <1>4, <1>6, <1>7, <1>12
  <2>2. 0 \in 0..SlowInterval
    BY FeedAssumption
  <2>3. /\ tick(st, s) \in Services /\ tick(st, s).lastStart = 0
        /\ tick(st, s).snapshot = q.snapshot /\ tick(st, s).traffic = q.traffic
        /\ tick(st, s).lastOk = q.lastOk /\ tick(st, s).atisWaiters = q.atisWaiters
        /\ tick(st, s).failures = q.failures /\ tick(st, s).retry = q.retry
        /\ tick(st, s).inFlight /\ tick(st, s).network = q.network
    BY ZenonT(60), <2>1, <2>2, <1>3 DEF Services
  <2>4. p.lastStart >= Floor /\ p.retry = 0
    BY <1>5, <1>9, <1>12
  <2> QED
    BY <2>1, <2>3, <2>4, <1>2, <1>3, <1>8, <1>12
<1> QED
  BY <1>10, <1>11, <1>12

-----------------------------------------------------------------------------
(* What every handler that ends in tick() does: the service s it leaves     *)
(* remembers the last request as the one before it did, and rs starts      *)
(* none.                                                                   *)

NoneStarted(rs) == \A r \in rs \ requests : ~(r.current /\ r.age = 0)

Kept == FInv' /\ (Started => quiet = Floor)

\* What tick() finds: the service may still be of another network, and may have a waiter that
\* has no timer yet.
MayTick(st, s, rs) ==
  /\ s.network # st.network => s.snapshot = None
  /\ \A r \in rs : r.age = s.lastStart /\ \A t \in rs : r = t
  /\ s.network = st.network /\ s.inFlight =>
       s.retry = 0 /\ \E r \in rs : r.current /\ r.network = st.network
  /\ HeldIsFit(st, s, rs)
  /\ s.snapshot # None /\ ~s.inFlight =>
       \A w \in s.atisWaiters : s.lastOk <= KeptFor \/ w.age = 0

\* Numbers of the times.
LEMMA Times ==
  /\ Floor \in Nat \ {0} /\ SlowInterval \in Nat /\ Floor <= SlowInterval
  /\ Timeout \in Nat \ {0} /\ Timeout < Floor /\ AtisWait \in Nat /\ Timeout < AtisWait
  /\ StaleAfter \in Nat /\ Backoff[1] \in Nat /\ Backoff[2] \in Nat
  /\ Floor <= Backoff[1] /\ Backoff[1] <= Backoff[2] /\ StaleAfter <= Backoff[2]
  /\ KeptFor \in Nat /\ KeptFor >= StaleAfter /\ KeptFor >= Backoff[1] /\ KeptFor >= Floor
<1>1. /\ Floor \in Nat \ {0} /\ SlowInterval \in Nat /\ Floor <= SlowInterval
      /\ Timeout \in Nat \ {0} /\ Timeout < Floor /\ AtisWait \in Nat /\ Timeout < AtisWait
      /\ StaleAfter \in Nat /\ Backoff[1] \in Nat /\ Backoff[2] \in Nat
      /\ Floor <= Backoff[1] /\ Backoff[1] <= Backoff[2] /\ StaleAfter <= Backoff[2]
  BY FeedAssumption, TimesAssumption
<1> QED
  BY <1>1 DEF KeptFor

\* The read that is due ends the waiting before the feed held is too old.
LEMMA DueInTime ==
  ASSUME NEW s \in Services, NEW kind, kind # "slow", s.lastOk # None,
         s.retry = 0 \/ s.lastOk + s.retry < KeptFor,
         s.lastStart + s.retry >= Floor \/ s.lastOk <= s.lastStart,
         Due(s, kind) # 0
  PROVE  s.lastOk + Due(s, kind) <= KeptFor
<1> DEFINE due == Due(s, kind)
<1>1. /\ due \in 0..Longest /\ due >= s.retry
      /\ due = s.retry \/ s.lastStart + due = Floor
  BY DueBounds
<1>2. due # 0
  OBVIOUS
<1> HIDE DEF due
<1>3. s.lastOk \in Nat /\ s.retry \in Nat /\ s.lastStart \in Nat /\ due \in Nat
  BY <1>1, LongestBounds, OldestBounds, Times DEF Services
<1>4. s.lastOk + due <= KeptFor
  BY <1>1, <1>2, <1>3, Times
<1> QED
  BY <1>4 DEF due

LEMMA TickedKeeps ==
  ASSUME FInv, NEW st \in Settings, set' = st, NEW s \in Services, NEW rs \in Requests,
         Ticked(st, s, rs), NoneStarted(rs), s.lastStart = svc.lastStart,
         s.snapshot # None => s.snapshot = st.network,
         s.traffic.of # None => DrawNetwork(st) /\ s.traffic.of = st.network,
         MayTick(st, s, rs)
  PROVE  Kept
<1> DEFINE p == OfNetwork(s, st.network)
           kind == wanted(st, s)
<1>1. /\ svc' \in Services /\ svc'.network = st.network
      /\ svc'.snapshot = s.snapshot /\ svc'.traffic = s.traffic
      /\ svc'.lastOk = s.lastOk /\ svc'.atisWaiters = s.atisWaiters
      /\ svc'.failures = p.failures /\ svc'.retry = p.retry
      /\ Idles(st, s) => /\ svc'.lastStart = s.lastStart /\ svc'.inFlight = p.inFlight
                         /\ kind # "none" /\ ~p.inFlight => svc'.timer = Due(p, kind)
      /\ ~Idles(st, s) => /\ svc'.lastStart = 0 /\ s.lastStart >= Floor
                          /\ svc'.inFlight /\ ~p.inFlight /\ p.retry = 0
                          /\ kind # "none" /\ st.network \in OnlineNetworks
  BY TickFields DEF Ticked
<1>2. HeldIsChosen' /\ OnlyTheChosenIsShown'
  BY <1>1 DEF HeldIsChosen, OnlyTheChosenIsShown, DrawNetwork, NetworkChosen
<1>3. svc.lastStart \in Nat /\ s.lastStart \in Nat /\ quiet \in Nat
  BY Times DEF FInv, FeedTyped, Services
<1>4. /\ s.network = st.network => p = s
      /\ s.network # st.network => ~p.inFlight
      /\ s.snapshot # None => p = s
  BY OfNetworkFields DEF MayTick, Settings, Networks
<1>5. s.snapshot # None /\ s.atisWaiters # {} => kind # "none" /\ kind # "slow"
  BY DEF MayTick, HeldIsFit, wanted
<1> HIDE DEF p, kind
<1>6. CASE Idles(st, s)
  <2>1. requests' = rs /\ quiet' = quiet
    BY <1>6 DEF Ticked
  <2>2. FeedTyped' /\ FloorIsKnown'
    BY <1>1, <1>6, <2>1 DEF FInv, FeedTyped, FloorIsKnown
  <2>3. ~Started
    BY <2>1 DEF Started, NoneStarted
  <2>4. OneRead(set, svc, requests)'
    BY <1>1, <1>4, <1>6, <2>1 DEF OneRead, MayTick
  <2>5. HeldIsFit(set, svc, requests)'
    BY <1>1, <1>4, <1>6, <2>1 DEF HeldIsFit, MayTick
  <2>6. WaitIsTimed(svc)'
    <3> SUFFICES ASSUME svc'.snapshot # None, svc'.atisWaiters # {}, ~svc'.inFlight
                 PROVE  svc'.timer # None /\ svc'.lastOk + svc'.timer <= KeptFor
      BY DEF WaitIsTimed
    <3>1. p = s /\ kind # "none" /\ kind # "slow" /\ ~s.inFlight /\ svc'.timer = Due(s, kind)
      BY <1>1, <1>4, <1>5, <1>6
    <3>2. Due(s, kind) \in 0..Longest
      BY DueBounds
    <3>3. Due(s, kind) # None /\ Due(s, kind) # 0
      <4>1. Due(s, kind) > 0
        BY <1>6, <3>1 DEF Idles, p, kind
      <4> QED
        BY <3>2, <4>1, FeedAssumption, LongestBounds
    <3>4. /\ s.lastOk # None
          /\ s.retry = 0 \/ s.lastOk + s.retry < KeptFor
          /\ s.lastStart + s.retry >= Floor \/ s.lastOk <= s.lastStart
      BY <1>1, <3>1 DEF MayTick, HeldIsFit
    <3>5. s.lastOk + Due(s, kind) <= KeptFor
      BY <1>1, <3>1, <3>3, <3>4, DueInTime DEF MayTick, HeldIsFit
    <3> QED
      BY <1>1, <3>1, <3>3, <3>5
  <2> QED
    BY <1>2, <2>2, <2>3, <2>4, <2>5, <2>6 DEF FInv, Kept
<1>7. CASE ~Idles(st, s)
  <2> DEFINE new == [network |-> st.network, age |-> 0, current |-> TRUE]
  <2>1. quiet' = 0 /\ requests' = rs \cup {new}
    BY <1>7 DEF Ticked
  <2>2. new \in [network : OnlineNetworks, age : 0..Timeout, current : BOOLEAN]
    BY <1>1, <1>7, Times
  <2>3. new.network = st.network /\ new.age = 0 /\ new.current
    OBVIOUS
  <2> HIDE DEF new
  <2>4. requests' \in Requests
    BY <2>1, <2>2 DEF Requests
  <2>5. FeedTyped' /\ FloorIsKnown'
    BY <1>1, <1>7, <2>1, <2>4, Times DEF FInv, FeedTyped, FloorIsKnown
  <2>6. quiet = Floor
    BY <1>1, <1>3, <1>7, Times DEF FInv, FloorIsKnown
  <2>7. rs = {}
    <3> SUFFICES ASSUME NEW r \in rs PROVE FALSE
      OBVIOUS
    <3>1. r.age = s.lastStart /\ r.age \in 0..Timeout
      BY DEF MayTick, Requests
    <3> QED
      BY <1>1, <1>3, <1>7, <3>1, Times
  <2>8. OneRead(set, svc, requests)'
    BY <1>1, <1>7, <2>1, <2>3, <2>7 DEF OneRead
  <2>9. HeldIsFit(set, svc, requests)'
    <3> SUFFICES ASSUME s.snapshot # None
                 PROVE  HeldIsFit(set, svc, requests)'
      BY <1>1 DEF HeldIsFit
    <3>1. p = s /\ ~s.inFlight
      BY <1>1, <1>4, <1>7
    <3>2. s.lastOk # None /\ s.lastOk \in Nat
      BY OldestBounds DEF MayTick, HeldIsFit, Services
    <3>3. \A w \in s.atisWaiters : s.lastOk <= KeptFor + 0 \/ w.age <= 0
      BY <3>1, Times DEF MayTick
    <3> QED
      BY <1>1, <1>7, <3>1, <3>2, <3>3 DEF HeldIsFit, MayTick
  <2>10. WaitIsTimed(svc)'
    BY <1>1, <1>7 DEF WaitIsTimed
  <2> QED
    BY <1>2, <2>5, <2>6, <2>8, <2>9, <2>10 DEF FInv, Kept
<1> QED
  BY <1>6, <1>7

\* a and b read the feed alike.
Alike(a, b) ==
  /\ a.network = b.network /\ a.inFlight = b.inFlight /\ a.lastStart = b.lastStart
  /\ a.failures = b.failures /\ a.retry = b.retry /\ a.timer = b.timer
  /\ a.lastOk = b.lastOk

\* A step that reads nothing and sends nothing.
LEMMA QuietKeeps ==
  ASSUME FInv, svc' \in Services, Alike(svc', svc), UNCHANGED <<set, quiet>>,
         requests' = requests \/ \E r : ~r.current /\ requests' = requests \ {r},
         svc'.atisWaiters \subseteq svc.atisWaiters,
         svc'.snapshot # None => svc'.snapshot = svc.snapshot,
         svc'.traffic.of # None => DrawNetwork(set) /\ svc'.traffic.of = set.network
  PROVE  Kept
<1>1. requests' \subseteq requests /\ \A r \in requests : r.current => r \in requests'
  OBVIOUS
<1>2. FeedTyped' /\ FloorIsKnown'
  BY <1>1 DEF FInv, FeedTyped, FloorIsKnown, Requests, Alike
<1>3. HeldIsChosen' /\ OnlyTheChosenIsShown'
  BY DEF FInv, HeldIsChosen, OnlyTheChosenIsShown, DrawNetwork, NetworkChosen
<1>4. ~Started
  BY <1>1 DEF Started
<1>5. OneRead(set, svc, requests)'
  BY <1>1 DEF FInv, OneRead, Alike
<1>6. HeldIsFit(set, svc, requests)'
  BY <1>1 DEF FInv, HeldIsFit, Alike, NetworkChosen
<1>7. WaitIsTimed(svc)'
  BY DEF FInv, WaitIsTimed, Alike
<1> QED
  BY <1>2, <1>3, <1>4, <1>5, <1>6, <1>7 DEF FInv, Kept

-----------------------------------------------------------------------------
(* What is published.                                                      *)

LEMMA PublishKeeps ==
  ASSUME NEW s \in Services, NEW st \in Settings, NEW unavailable \in BOOLEAN,
         s.snapshot # None => s.snapshot = st.network
  PROVE  /\ publishTraffic(st, s, unavailable) \in Services
         /\ Alike(publishTraffic(st, s, unavailable), s)
         /\ publishTraffic(st, s, unavailable).atisWaiters = s.atisWaiters
         /\ publishTraffic(st, s, unavailable).snapshot = s.snapshot
         /\ publishTraffic(st, s, unavailable).traffic.of # None =>
              /\ DrawNetwork(st)
              /\ publishTraffic(st, s, unavailable).traffic.of = st.network
<1> DEFINE state == IF st.network = None THEN "noNetwork"
                    ELSE IF ~NetworkChosen(st) THEN "needsVid"
                    ELSE IF ~st.networkOn THEN "off"
                    ELSE IF unavailable THEN "unavailable" ELSE "shown"
           of == IF DrawNetwork(st) /\ ~unavailable THEN s.snapshot ELSE None
           new == [state |-> state, of |-> of]
<1>1. state \in {"noNetwork", "needsVid", "off", "unavailable", "shown"}
  OBVIOUS
<1>2. of \in Networks /\ (of # None => DrawNetwork(st) /\ of = st.network)
  BY DEF Services, Networks
<1> HIDE DEF state, of
<1>3. /\ new \in [state : {"noNetwork", "needsVid", "off", "unavailable", "shown"},
                  of : OnlineNetworks \cup {None}]
      /\ new.of = of
  BY <1>1, <1>2 DEF Networks
<1>4. publishTraffic(st, s, unavailable) = [s EXCEPT !.traffic = new]
  BY DEF publishTraffic, state, of
<1> HIDE DEF new
<1> QED
  BY <1>2, <1>3, <1>4 DEF Services, Alike

LEMMA MarkUnavailableKeeps ==
  ASSUME NEW s \in Services, NEW st \in Settings
  PROVE  /\ markUnavailable(st, s) \in Services
         /\ Alike(markUnavailable(st, s), s)
         /\ markUnavailable(st, s).atisWaiters = s.atisWaiters
         /\ markUnavailable(st, s).snapshot = None
         /\ markUnavailable(st, s).traffic.of # None =>
              DrawNetwork(st) /\ markUnavailable(st, s).traffic.of = st.network
<1> DEFINE t == [s EXCEPT !.staleTimer = None, !.snapshot = None]
<1>1. /\ t \in Services /\ Alike(t, s) /\ t.snapshot = None /\ t.atisWaiters = s.atisWaiters
  BY DEF Services, Alike
<1> HIDE DEF t
<1> DEFINE m == publishTraffic(st, t, TRUE)
<1>2. /\ m \in Services /\ Alike(m, t) /\ m.atisWaiters = t.atisWaiters /\ m.snapshot = t.snapshot
      /\ m.traffic.of # None => DrawNetwork(st) /\ m.traffic.of = st.network
  BY <1>1, PublishKeeps
<1>3. m = markUnavailable(st, s)
  BY DEF markUnavailable, t
<1> HIDE DEF m
<1> QED
  BY <1>1, <1>2, <1>3 DEF Alike

LEMMA OnSuccessKeeps ==
  ASSUME NEW s \in Services, NEW st \in Settings, st.network \in OnlineNetworks, NEW done,
         done = onSuccess(st, s, st.network)
  PROVE  /\ done \in Services /\ done.network = s.network /\ done.lastStart = s.lastStart
         /\ done.snapshot = st.network /\ done.lastOk = 0 /\ ~done.inFlight
         /\ done.failures = 0 /\ done.retry = 0
         /\ done.traffic.of # None => DrawNetwork(st) /\ done.traffic.of = st.network
<1> DEFINE t == [s EXCEPT !.snapshot = st.network, !.lastOk = 0, !.inFlight = FALSE,
                          !.failures = 0, !.retry = 0, !.staleTimer = None]
<1>1. 0 \in 0..Len(Backoff) /\ 0 \in 0..Longest /\ 0 \in 0..(Oldest + 1)
  BY FeedAssumption, LongestBounds, OldestBounds
<1>2. /\ t \in Services /\ t.network = s.network /\ t.lastStart = s.lastStart
      /\ t.snapshot = st.network /\ t.lastOk = 0 /\ ~t.inFlight /\ t.failures = 0 /\ t.retry = 0
  BY ZenonT(60), <1>1 DEF Services
<1> HIDE DEF t
<1>3. /\ done \in Services /\ Alike(done, t) /\ done.snapshot = t.snapshot
      /\ done.traffic.of # None => DrawNetwork(st) /\ done.traffic.of = st.network
  BY <1>2, PublishKeeps DEF onSuccess, t
<1> QED
  BY <1>2, <1>3 DEF Alike

\* A feed is kept after a failure only while it is not stale.
LEMMA OnFailureKeeps ==
  ASSUME NEW s \in Services, NEW st \in Settings,
         s.snapshot # None => s.snapshot = st.network /\ s.lastOk # None,
         s.traffic.of # None => DrawNetwork(st) /\ s.traffic.of = st.network,
         NEW done, done = onFailure(st, s)
  PROVE  /\ done \in Services /\ done.network = s.network /\ done.lastStart = s.lastStart
         /\ ~done.inFlight /\ done.lastOk = s.lastOk
         /\ done.failures \in 1..Len(Backoff) /\ done.failures <= s.failures + 1
         /\ done.retry = Backoff[done.failures]
         /\ done.snapshot # None => done.snapshot = s.snapshot /\ done.lastOk < StaleAfter
         /\ done.traffic.of # None => DrawNetwork(st) /\ done.traffic.of = st.network
<1> DEFINE n == Min({s.failures + 1, Len(Backoff)})
           failed == [s EXCEPT !.inFlight = FALSE, !.failures = n, !.retry = Backoff[n]]
           since == IF s.lastOk # None THEN s.lastOk
                    ELSE IF s.wantedSince # None THEN s.wantedSince ELSE 0
           left == Left(StaleAfter, since)
           waits == [failed EXCEPT !.staleTimer = left]
<1>1. /\ n \in 1..Len(Backoff) /\ n <= s.failures + 1
      /\ Backoff[n] \in 0..Longest /\ n \in 0..Len(Backoff)
  <2>1. s.failures \in 0..Len(Backoff)
    BY DEF Services
  <2>2. n \in 1..Len(Backoff) /\ n <= s.failures + 1 /\ Backoff[n] \in 0..Longest
    BY <2>1, BackoffBounds
  <2>3. Len(Backoff) \in Nat
    BY FeedAssumption
  <2> HIDE DEF n
  <2> QED
    BY <2>2, <2>3
<1> HIDE DEF n
<1>2. /\ failed \in Services /\ failed.lastStart = s.lastStart /\ failed.network = s.network
      /\ failed.snapshot = s.snapshot /\ failed.traffic = s.traffic /\ failed.lastOk = s.lastOk
      /\ ~failed.inFlight /\ failed.failures = n /\ failed.retry = Backoff[n]
  BY ZenonT(60), <1>1 DEF Services
<1>3. since \in Nat /\ (s.lastOk # None => since = s.lastOk)
  BY OldestBounds, Times DEF Services
<1>4. onFailure(st, s) = IF left = 0 THEN markUnavailable(st, failed)
                         ELSE IF s.staleTimer = None THEN waits
                         ELSE failed
  BY DEF onFailure, n, failed, since, left
<1> HIDE DEF failed, since
<1>5. left \in 0..StaleAfter /\ (left # 0 => since < StaleAfter)
  <2>1. StaleAfter \in Nat /\ left \in 0..StaleAfter
    BY <1>3, LeftBounds, Times
  <2>2. since >= StaleAfter => left = 0
    BY DEF Left
  <2> QED
    BY <1>3, <2>1, <2>2
<1> HIDE DEF left
<1>6. /\ waits \in Services /\ waits.snapshot = failed.snapshot /\ waits.traffic = failed.traffic
      /\ Alike(waits, failed)
  BY <1>2, <1>5 DEF Services, Alike
<1> HIDE DEF waits
<1>7. CASE left = 0
  <2>1. /\ done \in Services /\ Alike(done, failed) /\ done.snapshot = None
        /\ done.traffic.of # None => DrawNetwork(st) /\ done.traffic.of = st.network
    BY <1>2, <1>4, <1>7, MarkUnavailableKeeps
  <2> QED
    BY <1>1, <1>2, <2>1 DEF Alike
<1>8. CASE left # 0
  <2>1. done = failed \/ done = waits
    BY <1>4, <1>8
  <2>2. /\ done \in Services /\ Alike(done, failed) /\ done.snapshot = failed.snapshot
        /\ done.traffic = failed.traffic
    BY <1>2, <1>6, <2>1 DEF Alike
  <2> QED
    BY <1>1, <1>2, <1>3, <1>5, <1>8, <2>2 DEF Alike
<1> QED
  BY <1>7, <1>8

-----------------------------------------------------------------------------
(* One lemma per handler.                                                  *)

AnswerOK ==
  /\ answer \in [network : OnlineNetworks, age : 0..(Oldest + 1)] \cup {None}
  /\ AtisIsRecent

LEMMA HeldAnswers ==
  ASSUME NEW s \in Services, NEW n \in OnlineNetworks, n = set'.network,
         heldSnapshot(s, n) => s.lastOk # None /\ s.lastOk <= Oldest,
         answer' = Held(s, n)
  PROVE  AnswerOK'
<1>1. CASE heldSnapshot(s, n)
  <2>1. s.lastOk \in 0..(Oldest + 1) /\ s.lastOk <= Oldest
    BY <1>1 DEF Services
  <2>2. answer' = [network |-> n, age |-> s.lastOk]
    BY <1>1 DEF Held
  <2>3. answer' \in [network : OnlineNetworks, age : 0..(Oldest + 1)]
    BY <2>1, <2>2
  <2>4. answer'.network = set'.network /\ answer'.age <= Oldest
    BY <2>1, <2>2
  <2> QED
    BY <2>3, <2>4 DEF AnswerOK, AtisIsRecent
<1>2. CASE ~heldSnapshot(s, n)
  BY <1>2 DEF Held, AnswerOK, AtisIsRecent
<1> QED
  BY <1>1, <1>2

LEMMA NoAnswer ==
  ASSUME answer' = None
  PROVE  AnswerOK'
BY DEF AnswerOK, AtisIsRecent

\* What the invariant says of the service and the requests, for the handlers.
LEMMA Facts ==
  ASSUME FInv
  PROVE  /\ svc \in Services /\ set \in Settings /\ requests \in Requests
         /\ svc.snapshot # None => svc.snapshot = set.network /\ svc.lastOk # None
         /\ svc.traffic.of # None => DrawNetwork(set) /\ svc.traffic.of = set.network
         /\ MayTick(set, svc, requests)
<1>1. svc.snapshot # None /\ ~svc.inFlight =>
        \A w \in svc.atisWaiters : svc.lastOk <= KeptFor
  <2> SUFFICES ASSUME svc.snapshot # None, ~svc.inFlight, svc.atisWaiters # {}
               PROVE  svc.lastOk <= KeptFor
    OBVIOUS
  <2>1. svc.timer # None /\ svc.lastOk + svc.timer <= KeptFor /\ svc.lastOk # None
    BY DEF FInv, WaitIsTimed, HeldIsFit
  <2>2. svc.timer \in Nat /\ svc.lastOk \in Nat
    BY <2>1, LongestBounds, OldestBounds DEF FInv, FeedTyped, Services
  <2> QED
    BY <2>1, <2>2, Times
<1>2. MayTick(set, svc, requests)
  BY <1>1 DEF FInv, OneRead, MayTick
<1> QED
  BY <1>2 DEF FInv, FeedTyped, HeldIsChosen, OnlyTheChosenIsShown, HeldIsFit

\* Requests that are disowned are not started.
LEMMA DisownedKeeps ==
  ASSUME requests \in Requests
  PROVE  /\ {[r EXCEPT !.current = FALSE] : r \in requests} \in Requests
         /\ NoneStarted({[r EXCEPT !.current = FALSE] : r \in requests})
         /\ requests \in Requests /\ NoneStarted(requests)
BY DEF Requests, NoneStarted

LEMMA ChangeKeeps ==
  ASSUME FInv, change
  PROVE  Kept
<1> DEFINE st == set'
           dropped == [svc EXCEPT !.snapshot = None, !.lastOk = None, !.inFlight = FALSE]
           s == IF Unusable(st) THEN dropped ELSE svc
           since == IF s.wantedSince = None THEN 0 ELSE s.wantedSince
           on == [s EXCEPT !.wantedSince = since]
           off == [s EXCEPT !.wantedSince = None, !.staleTimer = None]
           w == IF DrawNetwork(st) THEN on ELSE off
           disowned == {[r EXCEPT !.current = FALSE] : r \in requests}
           rs == IF Unusable(st) THEN disowned ELSE requests
<1>1. st \in Settings /\ Ticked(st, publishTraffic(st, w, FALSE), rs)
  BY DEF change, refresh
<1>2. svc \in Services /\ requests \in Requests /\ MayTick(set, svc, requests)
  BY Facts
<1>3. rs \in Requests /\ NoneStarted(rs)
  BY <1>2, DisownedKeeps
<1>4. /\ dropped \in Services /\ dropped.network = svc.network
      /\ dropped.lastStart = svc.lastStart /\ dropped.snapshot = None /\ ~dropped.inFlight
  BY ZenonT(60), <1>2 DEF Services
<1>5. \A r \in disowned : r.age = svc.lastStart /\ \A t \in disowned : r = t
  <2>1. \A r \in requests : r.age = svc.lastStart /\ \A t \in requests : r = t
    BY DEF FInv, OneRead
  <2>2. \A r \in requests : [r EXCEPT !.current = FALSE].age = r.age
    BY <1>2 DEF Requests
  <2> QED
    BY <2>1, <2>2
<1> HIDE DEF dropped, disowned
<1>6. svc.snapshot # None /\ ~Unusable(st) =>
        st.network = svc.snapshot /\ NetworkChosen(st) /\ svc.network = st.network
  BY <1>1, <1>2 DEF Unusable, NetworkChosen, FInv, HeldIsChosen, OneRead
<1>7. MayTick(st, s, rs)
  <2>1. CASE Unusable(st)
    BY <1>4, <1>5, <2>1 DEF MayTick, HeldIsFit
  <2>2. CASE ~Unusable(st)
    <3>1. s = svc /\ rs = requests
      BY <2>2
    <3>2. /\ svc.network # st.network => svc.snapshot = None
          /\ HeldIsFit(st, svc, requests)
      BY <1>2, <1>6, <2>2 DEF MayTick, HeldIsFit
    <3>3. svc.network = st.network /\ svc.inFlight =>
            svc.retry = 0 /\ \E r \in requests : r.current /\ r.network = st.network
      BY DEF FInv, OneRead
    <3> QED
      BY <1>2, <3>1, <3>2, <3>3 DEF MayTick
  <2> QED
    BY <2>1, <2>2
<1>8. s \in Services /\ s.lastStart = svc.lastStart
  BY <1>2, <1>4
<1>9. s.snapshot # None => s.snapshot = st.network
  BY <1>4, <1>6
<1> HIDE DEF s, rs
<1>10. on \in Services /\ Alike(on, s) /\ on.snapshot = s.snapshot
       /\ on.atisWaiters = s.atisWaiters
  <2>1. since \in 0..StaleAfter \cup {None}
    BY <1>8, Times DEF Services
  <2> HIDE DEF since
  <2> QED
    BY <1>8, <2>1 DEF Services, Alike
<1>11. off \in Services /\ Alike(off, s) /\ off.snapshot = s.snapshot
       /\ off.atisWaiters = s.atisWaiters
  BY <1>8 DEF Services, Alike
<1> HIDE DEF on, off
<1>12. w \in Services /\ Alike(w, s) /\ w.snapshot = s.snapshot /\ w.atisWaiters = s.atisWaiters
  BY <1>10, <1>11
<1> HIDE DEF w
<1> DEFINE shown == publishTraffic(st, w, FALSE)
<1>13. /\ shown \in Services /\ Alike(shown, w) /\ shown.atisWaiters = w.atisWaiters
       /\ shown.snapshot = w.snapshot
       /\ shown.traffic.of # None => DrawNetwork(st) /\ shown.traffic.of = st.network
  BY ZenonT(60), <1>1, <1>9, <1>12, PublishKeeps
<1>14. Ticked(st, shown, rs)
  BY <1>1
<1> HIDE DEF shown
<1>15. /\ shown.lastStart = svc.lastStart /\ shown.snapshot = s.snapshot
       /\ Alike(shown, s) /\ shown.atisWaiters = s.atisWaiters
  BY <1>8, <1>12, <1>13 DEF Alike
<1>16. MayTick(st, shown, rs)
  BY <1>7, <1>15 DEF MayTick, HeldIsFit, Alike
<1> HIDE DEF st
<1> QED
  BY <1>1, <1>3, <1>9, <1>13, <1>14, <1>15, <1>16, TickedKeeps DEF st

LEMMA AtisAtKeeps ==
  ASSUME FInv, atisAt
  PROVE  Kept /\ AnswerOK'
<1>1. /\ svc \in Services /\ set \in Settings /\ set' = set /\ requests \in Requests
      /\ svc.snapshot # None => svc.snapshot = set.network /\ svc.lastOk # None
      /\ svc.traffic.of # None => DrawNetwork(set) /\ svc.traffic.of = set.network
      /\ MayTick(set, svc, requests)
  BY Facts DEF atisAt
<1>2. set.network \in OnlineNetworks
  BY <1>1 DEF atisAt, NetworkChosen, Settings
<1>3. CASE /\ heldSnapshot(svc, set.network) /\ svc.lastOk < AtisFresh
           /\ answer' = Held(svc, set.network)
           /\ UNCHANGED <<svc, requests, quiet>>
  <2>1. Kept
    BY <1>1, <1>3, QuietKeeps DEF Alike
  <2>2. svc.lastOk # None /\ svc.lastOk <= Oldest
    <3>1. svc.lastOk # None
      BY <1>1, <1>3 DEF heldSnapshot
    <3>2. svc.lastOk \in Nat /\ AtisFresh \in Nat
      BY <1>1, <3>1, OldestBounds, FeedAssumption DEF Services
    <3> QED
      BY <1>3, <3>1, <3>2, OldestBounds
  <2>3. AnswerOK'
    BY <1>1, <1>2, <1>3, <2>2, HeldAnswers
  <2> QED
    BY <2>1, <2>3
<1> DEFINE new == [network |-> set.network, age |-> 0]
           more == svc.atisWaiters \cup {new}
           s == [svc EXCEPT !.atisWaiters = more]
<1>4. CASE answer' = None /\ Ticked(set, s, requests)
  <2>1. new \in Waiters /\ new.age = 0
    BY <1>2, Times DEF Waiters
  <2> HIDE DEF new
  <2>2. more \in SUBSET Waiters
    BY <1>1, <2>1 DEF Services, Waiters
  <2>3. \A w \in more : w \in svc.atisWaiters \/ w.age = 0
    BY <2>1
  <2> HIDE DEF more
  <2>4. /\ s \in Services /\ Alike(s, svc) /\ s.atisWaiters = more
        /\ s.snapshot = svc.snapshot /\ s.traffic = svc.traffic
    BY <1>1, <2>2 DEF Services, Alike, Waiters
  <2> HIDE DEF s
  <2>5. svc.lastStart \in Nat /\ NetworkChosen(set)
    BY <1>1, Times DEF Services, atisAt
  <2>6. MayTick(set, s, requests)
    BY <1>1, <2>3, <2>4, <2>5 DEF MayTick, HeldIsFit, Alike
  <2>7. s.lastStart = svc.lastStart
    BY <2>4 DEF Alike
  <2>8. Kept
    BY <1>1, <1>4, <2>4, <2>6, <2>7, DisownedKeeps, TickedKeeps
  <2> QED
    BY <1>4, <2>8, NoAnswer
<1> QED
  BY <1>3, <1>4 DEF atisAt

\* A wait that ends while a request is out came before it, so the request is younger than its
\* timeout and the feed held not much older than when it started.
LEMMA WaitEndsKeeps ==
  ASSUME FInv, NEW w \in svc.atisWaiters, waitEnds(w)
  PROVE  Kept /\ AnswerOK'
<1>1. /\ svc \in Services /\ set \in Settings /\ requests \in Requests
      /\ svc.snapshot # None => svc.snapshot = set.network /\ svc.lastOk # None
      /\ svc.traffic.of # None => DrawNetwork(set) /\ svc.traffic.of = set.network
  BY Facts
<1>2. svc' = [svc EXCEPT !.atisWaiters = svc.atisWaiters \ {w}]
  BY DEF waitEnds
<1>3. /\ svc' \in Services /\ Alike(svc', svc) /\ svc'.atisWaiters = svc.atisWaiters \ {w}
      /\ svc'.snapshot = svc.snapshot /\ svc'.traffic = svc.traffic
  BY <1>1, <1>2 DEF Services, Alike
<1>4. Kept
  BY <1>1, <1>3, QuietKeeps DEF waitEnds
<1>5. CASE NetworkChosen(set) /\ set.network = w.network
  <2>1. w.network \in OnlineNetworks /\ w.age \in Nat /\ w.age = AtisWait
    BY <1>1, Times DEF Services, waitEnds
  <2>2. ASSUME heldSnapshot(svc, w.network)
        PROVE  svc.lastOk # None /\ svc.lastOk <= Oldest
    <3>1. svc.snapshot # None /\ svc.lastOk # None /\ svc.lastOk \in Nat
      BY <1>1, <2>2, OldestBounds DEF heldSnapshot, Services
    <3>2. CASE svc.inFlight
      <4>1. PICK r \in requests : TRUE
        BY <3>2 DEF FInv, OneRead
      <4>2. r.age = svc.lastStart /\ r.age \in 0..Timeout
        BY <1>1 DEF FInv, OneRead, Requests
      <4>3. svc.lastOk <= KeptFor + svc.lastStart \/ w.age <= svc.lastStart
        BY <3>1, <3>2 DEF FInv, HeldIsFit
      <4> QED
        BY <2>1, <3>1, <4>2, <4>3, OldestBounds, Times
    <3>3. CASE ~svc.inFlight
      <4>1. svc.timer # None /\ svc.lastOk + svc.timer <= KeptFor
        BY <3>1, <3>3 DEF FInv, WaitIsTimed
      <4>2. svc.timer \in Nat
        BY <1>1, <4>1, LongestBounds DEF Services
      <4> QED
        BY <3>1, <4>1, <4>2, OldestBounds, Times
    <3> QED
      BY <3>2, <3>3
  <2>3. set' = set /\ answer' = Held(svc, w.network)
    BY <1>5 DEF waitEnds
  <2>4. AnswerOK'
    BY <1>1, <1>5, <2>1, <2>2, <2>3, HeldAnswers
  <2> QED
    BY <1>4, <2>4
<1>6. CASE ~(NetworkChosen(set) /\ set.network = w.network)
  BY <1>4, <1>6, NoAnswer DEF waitEnds
<1> QED
  BY <1>5, <1>6

LEMMA TimersKeep ==
  ASSUME FInv, Timers
  PROVE  Kept /\ AnswerOK'
<1>1. /\ svc \in Services /\ set \in Settings /\ requests \in Requests
      /\ svc.snapshot # None => svc.snapshot = set.network /\ svc.lastOk # None
      /\ svc.traffic.of # None => DrawNetwork(set) /\ svc.traffic.of = set.network
      /\ MayTick(set, svc, requests)
  BY Facts
<1>2. CASE timerFires
  <2>1. Kept
    BY <1>1, <1>2, DisownedKeeps, TickedKeeps DEF timerFires
  <2> QED
    BY <1>2, <2>1, NoAnswer DEF timerFires
<1>3. CASE staleTimerFires
  <2>1. /\ svc' \in Services /\ Alike(svc', svc) /\ svc'.atisWaiters = svc.atisWaiters
        /\ svc'.snapshot = None
        /\ svc'.traffic.of # None => DrawNetwork(set) /\ svc'.traffic.of = set.network
    BY <1>1, <1>3, MarkUnavailableKeeps DEF staleTimerFires
  <2>2. Kept
    BY <1>3, <2>1, QuietKeeps DEF staleTimerFires
  <2> QED
    BY <1>3, <2>2, NoAnswer DEF staleTimerFires
<1>4. CASE \E w \in svc.atisWaiters : waitEnds(w)
  BY <1>4, WaitEndsKeeps
<1> QED
  BY <1>2, <1>3, <1>4 DEF Timers

\* A failed read leaves the feed held only while the next one comes in time.
LEMMA FailedIsFit ==
  ASSUME FInv, NEW r \in requests, r.current, r.network = set.network,
         NEW done, done = onFailure(set, svc), done.snapshot # None
  PROVE  /\ done.lastOk # None
         /\ done.failures >= 2 => done.lastOk + done.retry >= StaleAfter
         /\ done.lastOk + done.retry < KeptFor
         /\ done.lastStart + done.retry >= Floor
<1>1. /\ svc \in Services /\ set \in Settings
      /\ svc.snapshot # None => svc.snapshot = set.network /\ svc.lastOk # None
      /\ svc.traffic.of # None => DrawNetwork(set) /\ svc.traffic.of = set.network
  BY Facts
<1>2. /\ done \in Services /\ done.lastStart = svc.lastStart /\ done.lastOk = svc.lastOk
      /\ done.failures \in 1..Len(Backoff) /\ done.failures <= svc.failures + 1
      /\ done.retry = Backoff[done.failures]
      /\ done.snapshot = svc.snapshot /\ done.lastOk < StaleAfter
  BY <1>1, OnFailureKeeps
<1>3. svc.snapshot # None /\ svc.lastOk # None /\ svc.lastOk \in Nat
  BY <1>1, <1>2, OldestBounds DEF Services
<1>4. svc.inFlight /\ svc.retry = 0
  BY <1>3 DEF FInv, HeldIsFit, OneRead
<1>5. svc.failures \in Nat /\ ~(svc.failures >= 2)
  <2>1. svc.failures \in Nat
    BY <1>1, FeedAssumption DEF Services
  <2>2. svc.failures >= 2 => svc.lastOk + 0 >= StaleAfter
    BY <1>3, <1>4 DEF FInv, HeldIsFit
  <2>3. StaleAfter \in Nat
    BY Times
  <2>4. svc.lastOk < StaleAfter
    BY <1>2
  <2> QED
    BY <1>3, <2>1, <2>2, <2>3, <2>4
<1>6. done.failures = 1 \/ done.failures = 2
  <2>1. /\ done.failures \in Nat /\ done.failures >= 1
        /\ done.failures <= svc.failures + 1
    BY <1>2, FeedAssumption
  <2> QED
    BY <1>5, <2>1
<1>7. done.retry \in Nat /\ Floor <= done.retry /\ done.retry <= Backoff[2]
      /\ (done.failures = 2 => done.retry = Backoff[2])
  BY <1>2, <1>6, Times
<1>8. done.lastStart \in Nat
  BY <1>1, <1>2, Times DEF Services
<1>9. done.lastOk + done.retry < KeptFor
  <2>1. StaleAfter \in Nat /\ Backoff[2] \in Nat
    BY Times
  <2>2. done.lastOk \in Nat /\ done.lastOk < StaleAfter
    BY <1>2, <1>3
  <2> QED
    BY <1>7, <2>1, <2>2 DEF KeptFor
<1>10. done.failures >= 2 => done.lastOk + done.retry >= StaleAfter
  <2>1. done.lastOk \in Nat
    BY <1>2, <1>3
  <2>2. done.failures >= 2 => done.retry = Backoff[2]
    BY <1>6, <1>7
  <2>3. StaleAfter \in Nat /\ Backoff[2] \in Nat /\ StaleAfter <= Backoff[2]
    BY Times
  <2> QED
    BY <2>1, <2>2, <2>3
<1>11. done.lastOk # None
  BY <1>2, <1>3
<1>12. Floor \in Nat
  BY Times
<1> QED
  BY <1>7, <1>8, <1>9, <1>10, <1>11, <1>12

LEMMA EndsKeep ==
  ASSUME FInv, NEW r \in requests, NEW ok \in BOOLEAN, ends(r, ok)
  PROVE  Kept /\ AnswerOK'
<1> DEFINE rs == requests \ {r}
           done == IF ok THEN onSuccess(set, svc, r.network) ELSE onFailure(set, svc)
           s == [done EXCEPT !.atisWaiters = {}]
<1>1. /\ svc \in Services /\ set \in Settings /\ requests \in Requests /\ set' = set
      /\ svc.snapshot # None => svc.snapshot = set.network /\ svc.lastOk # None
      /\ svc.traffic.of # None => DrawNetwork(set) /\ svc.traffic.of = set.network
      /\ MayTick(set, svc, requests)
  BY Facts DEF ends
<1>2. r.network \in OnlineNetworks
  BY <1>1 DEF Requests
<1>3. rs \in Requests /\ NoneStarted(rs)
  BY <1>1 DEF Requests, NoneStarted
<1>4. rs = {}
  BY <1>1 DEF MayTick
<1>5. svc.network = set.network
  BY DEF FInv, OneRead
<1>6. CASE ~r.current
  <2>1. svc' = svc /\ requests' = requests \ {r} /\ answer' = None /\ UNCHANGED <<set, quiet>>
    BY <1>6 DEF ends
  <2>2. Kept
    BY <1>1, <1>6, <2>1, QuietKeeps DEF Alike
  <2> QED
    BY <2>1, <2>2, NoAnswer
<1> HIDE DEF rs
<1>7. CASE r.current /\ r.network # set.network
  <2>1. Ticked(set, svc, rs) /\ answer' = None
    BY <1>7 DEF ends, rs
  <2>2. ~svc.inFlight
    BY <1>1, <1>7 DEF FInv, OneRead
  <2>3. svc.snapshot = None
    BY <1>7, <2>2 DEF FInv, HeldIsFit
  <2>4. MayTick(set, svc, rs)
    BY <1>4, <2>2, <2>3 DEF MayTick, HeldIsFit
  <2>5. Kept
    BY <1>1, <1>3, <2>1, <2>4, TickedKeeps
  <2> QED
    BY <2>1, <2>5, NoAnswer
<1>8. CASE r.current /\ r.network = set.network
  <2>1. Ticked(set, s, rs) /\ answerWaiters(set, done, ok)
    BY <1>8 DEF ends, rs
  <2>2. /\ done \in Services /\ done.lastStart = svc.lastStart /\ ~done.inFlight
        /\ done.snapshot # None => done.snapshot = set.network
        /\ done.network = set.network
        /\ done.traffic.of # None => DrawNetwork(set) /\ done.traffic.of = set.network
        /\ ok => done.lastOk = 0 /\ done.failures = 0 /\ done.retry = 0
    <3>1. CASE ok
      BY <1>1, <1>2, <1>5, <1>8, <3>1, OnSuccessKeeps
    <3>2. CASE ~ok
      BY <1>1, <1>5, <3>2, OnFailureKeeps
    <3> QED
      BY <3>1, <3>2
  <2>3. ~ok /\ done.snapshot # None =>
          /\ done.lastOk # None
          /\ done.failures >= 2 => done.lastOk + done.retry >= StaleAfter
          /\ done.lastOk + done.retry < KeptFor
          /\ done.lastStart + done.retry >= Floor
    BY <1>8, FailedIsFit
  <2> HIDE DEF done
  <2>4. AnswerOK'
    <3>1. CASE answer' = None
      BY <3>1, NoAnswer
    <3>2. CASE ok /\ answer' = Held(done, set.network)
      <4>1. done.lastOk # None /\ done.lastOk <= Oldest
        BY <2>2, <3>2, FeedAssumption, OldestBounds
      <4> QED
        BY <1>1, <1>2, <1>8, <2>2, <3>2, <4>1, HeldAnswers
    <3> QED
      BY <2>1, <3>1, <3>2 DEF answerWaiters
  <2>5. /\ s \in Services /\ Alike(s, done) /\ s.atisWaiters = {}
        /\ s.snapshot = done.snapshot /\ s.traffic = done.traffic
    BY <2>2 DEF Services, Alike
  <2>6. s.lastStart = svc.lastStart /\ svc.lastStart \in Nat
    BY <1>1, <2>2, <2>5, Times DEF Alike, Services
  <2> HIDE DEF s
  <2>7. HeldIsFit(set, s, rs)
    <3>1. CASE ok
      <4>1. s.lastOk = 0 /\ s.lastOk # None /\ s.failures = 0 /\ s.retry = 0
        BY <2>2, <2>5, <3>1, FeedAssumption DEF Alike
      <4> QED
        BY <1>4, <2>2, <2>5, <2>6, <4>1 DEF HeldIsFit, Alike
    <3>2. CASE ~ok
      BY <1>4, <2>2, <2>3, <2>5, <3>2 DEF HeldIsFit, Alike
    <3> QED
      BY <3>1, <3>2
  <2>8. MayTick(set, s, rs)
    BY <1>4, <2>2, <2>5, <2>7 DEF MayTick, Alike
  <2>9. Kept
    BY <1>1, <1>3, <2>1, <2>2, <2>5, <2>6, <2>8, TickedKeeps
  <2> QED
    BY <2>4, <2>9
<1> QED
  BY <1>6, <1>7, <1>8

LEMMA OlderBounds ==
  ASSUME NEW cap \in Nat, NEW age \in 0..cap \cup {None}
  PROVE  /\ Older(age, cap) \in 0..cap \cup {None}
         /\ age # None => /\ Older(age, cap) \in 0..cap /\ Older(age, cap) # None
                          /\ age < cap => Older(age, cap) = age + 1
                          /\ age >= cap => Older(age, cap) = age
<1>1. None \notin Nat
  BY FeedAssumption
<1>2. CASE age = None
  BY <1>2 DEF Older
<1>3. CASE age # None /\ age = cap
  BY <1>1, <1>3 DEF Older
<1>4. CASE age # None /\ age # cap
  <2>1. age \in Nat /\ age < cap /\ age + 1 \in 0..cap
    BY <1>4
  <2>2. Older(age, cap) = age + 1
    BY <1>4 DEF Older
  <2> QED
    BY <1>1, <1>4, <2>1, <2>2
<1> QED
  BY <1>2, <1>3, <1>4

LEMMA SoonerBounds ==
  ASSUME NEW cap \in Nat, NEW left \in 0..cap \cup {None}
  PROVE  /\ Sooner(left) \in 0..cap \cup {None}
         /\ left # None => /\ Sooner(left) \in 0..cap /\ Sooner(left) # None
                           /\ left = 0 => Sooner(left) = 0
                           /\ left # 0 => Sooner(left) = left - 1
<1>1. None \notin Nat
  BY FeedAssumption
<1>2. CASE left = None \/ left = 0
  BY <1>1, <1>2 DEF Sooner
<1>3. CASE left # None /\ left # 0
  <2>1. left \in Nat /\ left - 1 \in 0..cap
    BY <1>3
  <2>2. Sooner(left) = left - 1
    BY <1>3 DEF Sooner
  <2> QED
    BY <1>1, <1>3, <2>1, <2>2
<1> QED
  BY <1>2, <1>3

\* As time passes the service's memory of the last request ages with it.
LEMMA PassKeeps ==
  ASSUME FInv, pass
  PROVE  Kept /\ AnswerOK'
<1>1. svc \in Services /\ requests \in Requests /\ quiet \in 0..Floor /\ set' = set
      /\ set \in Settings /\ answer' = None /\ NothingDue
  BY DEF FInv, FeedTyped, pass
<1> DEFINE lastStart == Older(svc.lastStart, SlowInterval)
           retry == Sooner(svc.retry)
           timer == Sooner(svc.timer)
           staleTimer == Sooner(svc.staleTimer)
           lastOk == Older(svc.lastOk, Oldest + 1)
           wantedSince == Older(svc.wantedSince, StaleAfter)
           waiters == {[w EXCEPT !.age = @ + 1] : w \in svc.atisWaiters}
<1>2. /\ svc.lastStart \in 0..SlowInterval /\ svc.retry \in 0..Longest
      /\ svc.timer \in 0..Longest \cup {None} /\ svc.staleTimer \in 0..StaleAfter \cup {None}
      /\ svc.lastOk \in 0..(Oldest + 1) \cup {None}
      /\ svc.wantedSince \in 0..StaleAfter \cup {None}
      /\ svc.atisWaiters \in SUBSET Waiters /\ svc.failures \in Nat
  BY <1>1, FeedAssumption DEF Services, Waiters
<1> HIDE DEF waiters
<1>3. /\ lastStart \in 0..SlowInterval
      /\ svc.lastStart < SlowInterval => lastStart = svc.lastStart + 1
      /\ svc.lastStart >= SlowInterval => lastStart = svc.lastStart
  <2>1. svc.lastStart # None
    BY <1>2, FeedAssumption
  <2> QED
    BY <1>2, <2>1, OlderBounds, Times
<1>4. /\ retry \in 0..Longest
      /\ svc.retry = 0 => retry = 0
      /\ svc.retry # 0 => retry = svc.retry - 1
  <2>1. svc.retry # None
    BY <1>2, FeedAssumption, LongestBounds
  <2> QED
    BY <1>2, <2>1, SoonerBounds, LongestBounds
<1>5. /\ timer \in 0..Longest \cup {None} /\ staleTimer \in 0..StaleAfter \cup {None}
      /\ svc.timer # None => timer # None /\ timer = svc.timer - 1
  <2>1. svc.timer # 0
    BY <1>1 DEF NothingDue
  <2> QED
    BY <1>2, <2>1, SoonerBounds, LongestBounds, Times
<1>6. /\ lastOk \in 0..(Oldest + 1) \cup {None}
      /\ svc.lastOk # None => /\ lastOk # None
                              /\ svc.lastOk < Oldest + 1 => lastOk = svc.lastOk + 1
                              /\ svc.lastOk >= Oldest + 1 => lastOk = svc.lastOk
  <2>1. Oldest + 1 \in Nat
    BY OldestBounds
  <2> QED
    BY <1>2, <2>1, OlderBounds
<1>7. wantedSince \in 0..StaleAfter \cup {None}
  BY <1>2, OlderBounds, Times
<1>8. /\ waiters \in SUBSET Waiters
      /\ \A w \in waiters : \E v \in svc.atisWaiters : w.age = v.age + 1
      /\ svc.atisWaiters = {} => waiters = {}
  <2>1. \A w \in svc.atisWaiters : /\ w \in Waiters /\ w.age + 1 \in 0..AtisWait
                                   /\ [w EXCEPT !.age = @ + 1] \in Waiters
                                   /\ [w EXCEPT !.age = @ + 1].age = w.age + 1
    <3> SUFFICES ASSUME NEW w \in svc.atisWaiters
                 PROVE  /\ w \in Waiters /\ w.age + 1 \in 0..AtisWait
                        /\ [w EXCEPT !.age = @ + 1] \in Waiters
                        /\ [w EXCEPT !.age = @ + 1].age = w.age + 1
      OBVIOUS
    <3>1. w \in Waiters /\ w.age < AtisWait
      BY <1>1, <1>2 DEF NothingDue
    <3>2. w.age + 1 \in 0..AtisWait
      BY <3>1, Times DEF Waiters
    <3> QED
      BY <3>1, <3>2 DEF Waiters
  <2> QED
    BY <2>1 DEF waiters
<1>9. svc' = [svc EXCEPT !.lastStart = lastStart, !.retry = retry, !.timer = timer,
                         !.staleTimer = staleTimer, !.lastOk = lastOk,
                         !.wantedSince = wantedSince, !.atisWaiters = waiters]
  BY DEF pass, waiters
<1> HIDE DEF lastStart, retry, timer, staleTimer, lastOk, wantedSince
<1>10. /\ svc' \in Services /\ svc'.lastStart = lastStart /\ svc'.retry = retry
       /\ svc'.timer = timer /\ svc'.lastOk = lastOk /\ svc'.atisWaiters = waiters
       /\ svc'.snapshot = svc.snapshot /\ svc'.traffic = svc.traffic
       /\ svc'.network = svc.network /\ svc'.inFlight = svc.inFlight
       /\ svc'.failures = svc.failures
  <2> HIDE DEF waiters
  <2>1. svc \in Services /\ waiters \in SUBSET Waiters
    BY <1>1, <1>8
  <2>2. /\ lastStart \in 0..SlowInterval /\ retry \in 0..Longest
        /\ timer \in 0..Longest \cup {None} /\ staleTimer \in 0..StaleAfter \cup {None}
        /\ lastOk \in 0..(Oldest + 1) \cup {None} /\ wantedSince \in 0..StaleAfter \cup {None}
    BY <1>3, <1>4, <1>5, <1>6, <1>7
  <2>3. svc' \in Services
    BY ZenonT(60), <2>1, <2>2, <1>9 DEF Services, Waiters
  <2> QED
    BY <2>1, <2>3, <1>9 DEF Services
<1>11. quiet' = IF quiet = Floor THEN quiet ELSE quiet + 1
  BY <1>1, FeedAssumption DEF pass, Older
<1>12. quiet' \in 0..Floor /\ FloorIsKnown'
  BY SMTT(30), <1>1, <1>2, <1>3, <1>10, <1>11, Times DEF FInv, FloorIsKnown
<1> DEFINE aged(r) == [r EXCEPT !.age = @ + 1]
<1>13. requests' = {aged(r) : r \in requests}
  BY DEF pass
<1>14. \A r \in requests : /\ r.age \in 0..Timeout /\ r.age < Timeout /\ r.age = svc.lastStart
                           /\ aged(r) \in [network : OnlineNetworks, age : 0..Timeout, current : BOOLEAN]
                           /\ aged(r).age = r.age + 1
                           /\ aged(r).current = r.current
                           /\ aged(r).network = r.network
  <2> SUFFICES ASSUME NEW r \in requests
               PROVE  /\ r.age \in 0..Timeout /\ r.age < Timeout /\ r.age = svc.lastStart
                      /\ aged(r) \in [network : OnlineNetworks, age : 0..Timeout, current : BOOLEAN]
                      /\ aged(r).age = r.age + 1
                      /\ aged(r).current = r.current
                      /\ aged(r).network = r.network
    OBVIOUS
  <2>1. r \in [network : OnlineNetworks, age : 0..Timeout, current : BOOLEAN]
    BY <1>1 DEF Requests
  <2>2. r.age < Timeout /\ r.age = svc.lastStart
    BY <1>1 DEF NothingDue, FInv, OneRead
  <2>3. r.age \in 0..Timeout /\ r.age + 1 \in 0..Timeout
    BY <2>1, <2>2, Times
  <2> QED
    BY <2>1, <2>2, <2>3
<1> HIDE DEF aged
<1>15. requests' \in Requests /\ \A r \in requests' : r.age # 0
  <2>1. requests' \in Requests
    BY <1>13, <1>14 DEF Requests
  <2>2. \A r \in requests : r.age + 1 # 0
    BY <1>14, Times
  <2> QED
    BY <1>13, <1>14, <2>1, <2>2
<1>16. FeedTyped'
  BY <1>1, <1>10, <1>12, <1>15 DEF FeedTyped
<1>17. HeldIsChosen' /\ OnlyTheChosenIsShown'
  BY <1>1, <1>10 DEF FInv, HeldIsChosen, OnlyTheChosenIsShown, DrawNetwork, NetworkChosen
<1>18. requests # {} => lastStart = svc.lastStart + 1
  BY <1>2, <1>3, <1>14, Times
<1>19. OneRead(set, svc, requests)'
  <2>1. \A r \in requests : \A t \in requests : r = t
    BY DEF FInv, OneRead
  <2>2. requests = {} => requests' = {}
    BY <1>13
  <2>3. \A r \in requests' : r.age = svc'.lastStart /\ \A t \in requests' : r = t
    BY <1>10, <1>13, <1>14, <1>18, <2>1
  <2>4. svc.inFlight => svc.retry = 0 /\ \E r \in requests : r.current /\ r.network = set.network
    BY DEF FInv, OneRead
  <2>5. svc'.inFlight => svc'.retry = 0 /\ \E r \in requests' : r.current /\ r.network = set.network
    BY <1>4, <1>10, <1>13, <1>14, <2>4
  <2>6. svc.network # set.network => requests = {} /\ svc.snapshot = None /\ ~svc.inFlight
    BY DEF FInv, OneRead
  <2> QED
    BY <1>1, <1>10, <2>2, <2>3, <2>5, <2>6 DEF OneRead
<1>20. HeldIsFit(set, svc, requests)'
  <2> SUFFICES ASSUME svc.snapshot # None
               PROVE  HeldIsFit(set, svc, requests)'
    BY <1>10 DEF HeldIsFit
  <2>1. /\ svc.lastOk # None
        /\ ~NetworkChosen(set) => svc.atisWaiters = {}
        /\ (\E r \in requests : r.current) => svc.inFlight
        /\ svc.failures >= 2 => svc.lastOk + svc.retry >= StaleAfter
        /\ ~svc.inFlight => /\ svc.retry = 0 \/ svc.lastOk + svc.retry < KeptFor
                            /\ svc.lastStart + svc.retry >= Floor \/ svc.lastOk <= svc.lastStart
        /\ svc.inFlight => \A w \in svc.atisWaiters : svc.lastOk <= KeptFor + svc.lastStart
                                                      \/ w.age <= svc.lastStart
    BY DEF FInv, HeldIsFit
  <2>2. /\ svc.lastOk \in Nat /\ lastOk \in Nat /\ svc.retry \in Nat /\ retry \in Nat
        /\ svc.lastStart \in Nat /\ lastStart \in Nat /\ lastOk # None
        /\ lastOk = svc.lastOk + 1 \/ (lastOk = svc.lastOk /\ svc.lastOk >= Oldest + 1)
    <3>1. svc.lastOk \in Nat /\ lastOk \in Nat
      BY <1>2, <1>6, <2>1, OldestBounds
    <3>2. svc.lastOk < Oldest + 1 \/ svc.lastOk >= Oldest + 1
      BY <3>1, OldestBounds
    <3>3. svc.retry \in Nat /\ retry \in Nat /\ svc.lastStart \in Nat /\ lastStart \in Nat
      BY <1>2, <1>3, <1>4, LongestBounds, Times
    <3> QED
      BY <1>6, <2>1, <3>1, <3>2, <3>3
  <2>3. svc.failures >= 2 => lastOk + retry >= StaleAfter
    BY <1>4, <2>1, <2>2, OldestBounds, Times
  <2>4. ~svc.inFlight => retry = 0 \/ lastOk + retry < KeptFor
    BY <1>4, <2>1, <2>2, Times
  <2>5. ~svc.inFlight => lastStart + retry >= Floor \/ lastOk <= lastStart
    BY <1>2, <1>3, <1>4, <2>1, <2>2, Times
  <2>6. svc.inFlight => \A w \in waiters : lastOk <= KeptFor + lastStart \/ w.age <= lastStart
    <3> SUFFICES ASSUME svc.inFlight, NEW w \in waiters
                 PROVE  lastOk <= KeptFor + lastStart \/ w.age <= lastStart
      OBVIOUS
    <3>1. PICK v \in svc.atisWaiters : w.age = v.age + 1
      BY <1>8
    <3>2. v.age \in Nat
      BY <1>2, Times DEF Waiters
    <3>3. requests # {}
      BY DEF FInv, OneRead
    <3>4. lastStart = svc.lastStart + 1
      BY <1>18, <3>3
    <3>5. svc.lastOk <= KeptFor + svc.lastStart \/ v.age <= svc.lastStart
      BY <2>1
    <3> QED
      BY <2>2, <3>1, <3>2, <3>4, <3>5, Times
  <2>7. (\E r \in requests' : r.current) => svc.inFlight
    BY <1>13, <1>14, <2>1
  <2>8. ~NetworkChosen(set) => waiters = {}
    BY <1>8, <2>1
  <2> HIDE DEF NetworkChosen
  <2> QED
    BY <1>1, <1>10, <2>2, <2>3, <2>4, <2>5, <2>6, <2>7, <2>8 DEF HeldIsFit, NetworkChosen
<1>21. WaitIsTimed(svc)'
  <2> SUFFICES ASSUME svc.snapshot # None, waiters # {}, ~svc.inFlight
               PROVE  timer # None /\ lastOk + timer <= KeptFor
    BY <1>10 DEF WaitIsTimed
  <2>1. svc.timer # None /\ svc.lastOk + svc.timer <= KeptFor /\ svc.lastOk # None
    BY <1>8 DEF FInv, WaitIsTimed, HeldIsFit
  <2>2. /\ svc.timer \in Nat /\ svc.lastOk \in Nat /\ timer \in Nat /\ lastOk \in Nat
    BY <1>2, <1>5, <1>6, <2>1, LongestBounds, OldestBounds
  <2>3. lastOk <= svc.lastOk + 1
    BY <1>6, <2>1, <2>2, OldestBounds
  <2> QED
    BY <1>5, <2>1, <2>2, <2>3, Times
<1>22. ~Started
  BY <1>15 DEF Started
<1> QED
  BY <1>1, <1>12, <1>16, <1>17, <1>19, <1>20, <1>21, <1>22, NoAnswer DEF FInv, Kept

-----------------------------------------------------------------------------

IInv == FInv /\ AnswerOK /\ changes \in 0..MaxChanges /\ asks \in 0..MaxAsks

LEMMA InitIInv == Init => IInv
<1> SUFFICES ASSUME Init
             PROVE  IInv
  OBVIOUS
<1>1. /\ SlowInterval \in 0..SlowInterval /\ Floor \in 0..Floor /\ ~(SlowInterval < Floor)
      /\ 0 \in 0..Len(Backoff) /\ 0 \in 0..Longest
      /\ 0 \in 0..MaxChanges /\ 0 \in 0..MaxAsks
  BY FeedAssumption, LongestBounds
<1>2. /\ svc \in Services /\ svc.lastStart = SlowInterval /\ svc.snapshot = None
      /\ svc.traffic.of = None /\ ~svc.inFlight
  BY <1>1 DEF Init, Services
<1>3. FeedTyped /\ FloorIsKnown /\ HeldIsChosen /\ OnlyTheChosenIsShown
  BY <1>1, <1>2 DEF Init, FeedTyped, Requests, FloorIsKnown, HeldIsChosen, OnlyTheChosenIsShown
<1>4. OneRead(set, svc, requests) /\ HeldIsFit(set, svc, requests) /\ WaitIsTimed(svc)
  BY <1>2 DEF Init, OneRead, HeldIsFit, WaitIsTimed
<1>5. AnswerOK
  BY DEF Init, AnswerOK, AtisIsRecent
<1> QED
  BY <1>1, <1>3, <1>4, <1>5 DEF Init, IInv, FInv

LEMMA NextKeeps == IInv /\ [Next]_vars => IInv' /\ [Started => quiet = Floor]_vars
<1> SUFFICES ASSUME IInv, [Next]_vars
             PROVE  IInv' /\ [Started => quiet = Floor]_vars
  OBVIOUS
<1>1. CASE UNCHANGED vars
  BY <1>1 DEF IInv, FInv, FeedTyped, FloorIsKnown, HeldIsChosen, OnlyTheChosenIsShown,
              DrawNetwork, NetworkChosen, OneRead, HeldIsFit, WaitIsTimed, AnswerOK,
              AtisIsRecent, vars
<1>2. CASE (pass \/ Timers \/ Network) /\ UNCHANGED <<changes, asks>>
  <2>1. Kept /\ AnswerOK'
    BY <1>2, PassKeeps, TimersKeep, EndsKeep DEF Network, IInv
  <2> QED
    BY <1>2, <2>1 DEF IInv, Kept
<1>3. CASE change /\ changes < MaxChanges /\ changes' = changes + 1
  <2>1. Kept
    BY <1>3, ChangeKeeps DEF IInv
  <2>2. AnswerOK' /\ asks' = asks
    BY <1>3, NoAnswer DEF change
  <2>3. changes' \in 0..MaxChanges
    BY <1>3, FeedAssumption DEF IInv
  <2> QED
    BY <2>1, <2>2, <2>3 DEF IInv, Kept
<1>4. CASE atisAt /\ asks < MaxAsks /\ asks' = asks + 1
  <2>1. Kept /\ AnswerOK'
    BY <1>4, AtisAtKeeps DEF IInv
  <2>2. changes' = changes
    BY <1>4 DEF atisAt
  <2>3. asks \in 0..MaxAsks /\ asks < MaxAsks /\ MaxAsks \in Nat /\ asks' = asks + 1
    BY <1>4, FeedAssumption DEF IInv
  <2>4. asks' \in 0..MaxAsks
    BY <2>3
  <2> QED
    BY <2>1, <2>2, <2>4 DEF IInv, Kept
<1> QED
  BY <1>1, <1>2, <1>3, <1>4 DEF Next

\* The inductive invariant holds in every state of every run of the feed.
THEOREM FeedInvariant == Spec => []IInv
<1>1. IInv /\ [Next]_vars => IInv'
  BY NextKeeps
<1> QED
  BY <1>1, InitIInv, PTL DEF Spec

\* The feed's state has its type: every timer, age and back-off stays within its bound, and a
\* feed that answers has an age.
THEOREM FeedTypesHold == Spec => []TypeOK
<1>1. IInv => TypeOK
  BY DEF IInv, FInv, FeedTyped, AnswerOK, TypeOK, Requests
<1> QED
  BY <1>1, FeedInvariant, PTL

\* Between two requests to the networks stepPoll lets the floor pass, whatever the settings,
\* the switches, the failures and the ATIS requests do.
THEOREM FloorIsKept == Spec => FloorHolds
<1>1. IInv /\ [Next]_vars => [Started => quiet = Floor]_vars
  BY NextKeeps
<1> QED
  BY <1>1, FeedInvariant, PTL DEF Spec, FloorHolds

\* refresh() and the handling of an answer never leave traffic of a network that is not chosen.
THEOREM ShownIsChosen == Spec => []OnlyTheChosenIsShown
<1>1. IInv => OnlyTheChosenIsShown
  BY DEF IInv, FInv
<1> QED
  BY <1>1, FeedInvariant, PTL

\* However the reads fail and the waits end, atisAt() answers from a feed of the chosen network
\* that is no older than the time a failing feed is kept, one back-off and one timeout allow.
THEOREM AtisStaysRecent == Spec => []AtisIsRecent
<1>1. IInv => AtisIsRecent
  BY DEF IInv, AnswerOK
<1> QED
  BY <1>1, FeedInvariant, PTL
=============================================================================
