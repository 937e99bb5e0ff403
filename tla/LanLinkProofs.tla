---------------------------- MODULE LanLinkProofs -----------------------------
(***************************************************************************)
(* That a second screen's lookups keep their types and their places, and   *)
(* that a lookup is refused as busy only for the sake of a late one: for   *)
(* any asks, lanes, keys, slots and tries, however often the link drops,   *)
(* is resumed, goes silent, is refused or paired again.                    *)
(***************************************************************************)
EXTENDS LanLink, TLAPS, FiniteSetTheorems, SequenceTheorems

\* A lane's lookups are in line once, waiting or out; those that can still be sent have a try
\* left, those that are out have used one.
LaneOK(q, l) ==
  /\ IsInjective(q.waiting[l]) /\ IsInjective(q.out[l])
  /\ InSeq(q.waiting[l]) \cap InSeq(q.out[l]) = {}
  /\ Len(q.out[l]) <= MaxInFlight[l]
  /\ \A a \in InSeq(q.waiting[l]) :
       LaneOf[a] = l /\ a \notin q.retrying /\ q.tries[a] < MaxTries
  /\ \A a \in InSeq(q.out[l]) : LaneOf[a] = l /\ a \notin q.retrying /\ q.tries[a] >= 1

QueuesOK(q) ==
  /\ q \in Queues
  /\ \A l \in Lanes : LaneOK(q, l)
  /\ \A a \in q.retrying : q.tries[a] < MaxTries

Placed(q) == Waiting(q) \cup Out(q) \cup q.retrying

\* Lookups have a place, P being the lookups that have one, as long as someone waits for them;
\* whoever asks waits for one; no two are for one key, which leads to it.
LookupsOK(P, w, s, p) ==
  /\ w \in [Asks -> SUBSET Asks] /\ s \in [Keys -> SUBSET Asks]
  /\ p \in [Asks -> {"idle", "asked", "answered", "rejected"}]
  /\ \A a \in Asks : w[a] # {} <=> a \in P
  /\ \A a \in Asks : p[a] = "asked" => \E b \in Asks : a \in w[b]
  /\ \A k \in Keys : s[k] = {a \in Asks : KeyOf[a] = k /\ a \in P}
  /\ \A a, b \in Asks : a \in P /\ b \in P /\ KeyOf[a] = KeyOf[b] /\ KeyOf[a] # NoKey => a = b

\* An ask the page has not made has no place and has used no try.
Unasked(q, p) == \A a \in Asks : p[a] = "idle" => q.tries[a] = 0 /\ a \notin Placed(q)

\* What the PC works on was sent by now.
JobsOK(js, q) == js \subseteq Jobs /\ \A j \in js : j.try <= q.tries[j.ask]

LinkTypes ==
  /\ current \in {"starting", "needs-pairing", "wrong-code", "connected", "offline"}
  /\ socket \in {"none", "connecting", "greeted", "paired", "live", "dead", "closing"}
  /\ code \in {"none", "right", "wrong"}
  /\ token \in BOOLEAN /\ known \in BOOLEAN /\ retry \in BOOLEAN /\ down \in BOOLEAN
  /\ kept \in SUBSET Asks

\* As long as the link is down nothing is out, so that giving up forgets nobody.
NothingOutWhileDown == down => current # "connected" /\ Out(queues) = {}

LInv ==
  /\ LinkTypes /\ NothingOutWhileDown
  /\ QueuesOK(queues)
  /\ LookupsOK(Placed(queues), waiters, sharing, page)
  /\ Unasked(queues, page)
  /\ JobsOK(jobs, queues)

\* With no more slots on the page than on the PC, what is refused as busy is so for a late one.
BusyIsForTheLate ==
  (\A l \in Lanes : MaxInFlight[l] <= MaxPending[l]) =>
    \A j \in jobs' \ jobs :
      j.busy => \E late \in jobs' : /\ LaneOf[late.ask] = LaneOf[j.ask] /\ ~late.busy
                                    /\ Abandoned(late)'

Keeps == LInv' /\ BusyIsForTheLate

-----------------------------------------------------------------------------
(* Sequences.                                                              *)

LEMMA SeqFacts ==
  ASSUME NEW S, NEW s \in Seq(S)
  PROVE  /\ Len(s) \in Nat /\ DOMAIN s = 1..Len(s) /\ InSeq(s) \subseteq S
         /\ \A i \in 1..Len(s) : s[i] \in S /\ s[i] \in InSeq(s)
         /\ \A a \in InSeq(s) : \E i \in 1..Len(s) : s[i] = a
<1>1. Len(s) \in Nat /\ DOMAIN s = 1..Len(s) /\ \A i \in 1..Len(s) : s[i] \in S
  BY LenProperties, ElementOfSeq
<1> QED
  BY <1>1 DEF InSeq

LEMMA EmptyFacts ==
  ASSUME NEW S
  PROVE  << >> \in Seq(S) /\ Len(<< >>) = 0 /\ InSeq(<< >>) = {} /\ IsInjective(<< >>)
<1>1. << >> \in Seq(S) /\ Len(<< >>) = 0
  BY EmptySeq
<1>2. DOMAIN << >> = {}
  BY <1>1, LenProperties
<1> QED
  BY <1>1, <1>2 DEF InSeq, IsInjective

\* A sequence is without repetitions exactly if its halves are and have nothing in common.
LEMMA ConcatFacts ==
  ASSUME NEW S, NEW s \in Seq(S), NEW t \in Seq(S)
  PROVE  /\ s \o t \in Seq(S) /\ Len(s \o t) = Len(s) + Len(t)
         /\ InSeq(s \o t) = InSeq(s) \cup InSeq(t)
         /\ IsInjective(s \o t) <=>
              IsInjective(s) /\ IsInjective(t) /\ InSeq(s) \cap InSeq(t) = {}
<1> DEFINE u == s \o t
           m == Len(s)
           n == Len(t)
<1>1. /\ u \in Seq(S) /\ Len(u) = m + n
      /\ \A i \in 1..(m + n) : u[i] = IF i <= m THEN s[i] ELSE t[i - m]
  BY ConcatProperties
<1>2. /\ m \in Nat /\ n \in Nat /\ DOMAIN s = 1..m /\ DOMAIN t = 1..n
      /\ DOMAIN u = 1..(m + n)
  BY <1>1, LenProperties
<1> HIDE DEF u, m, n
<1>3. /\ \A i \in 1..m : i \in 1..(m + n) /\ u[i] = s[i]
      /\ \A i \in 1..n : m + i \in 1..(m + n) /\ u[m + i] = t[i]
      /\ \A i \in 1..(m + n) : \/ i \in 1..m /\ u[i] = s[i]
                               \/ i - m \in 1..n /\ u[i] = t[i - m] /\ i = m + (i - m)
  <2>1. \A i \in 1..n : m + i \in 1..(m + n) /\ ~(m + i <= m) /\ (m + i) - m = i
    BY <1>2
  <2> QED
    BY <1>1, <1>2, <2>1
<1>4. InSeq(u) = InSeq(s) \cup InSeq(t)
  <2>1. ASSUME NEW x \in InSeq(u)
        PROVE  x \in InSeq(s) \cup InSeq(t)
    <3>1. PICK i \in 1..(m + n) : x = u[i]
      BY <1>2, <2>1 DEF InSeq
    <3> QED
      BY <1>2, <1>3, <3>1 DEF InSeq
  <2>2. ASSUME NEW x \in InSeq(s)
        PROVE  x \in InSeq(u)
    <3>1. PICK i \in 1..m : x = s[i]
      BY <1>2, <2>2 DEF InSeq
    <3> QED
      BY <1>2, <1>3, <3>1 DEF InSeq
  <2>3. ASSUME NEW x \in InSeq(t)
        PROVE  x \in InSeq(u)
    <3>1. PICK i \in 1..n : x = t[i]
      BY <1>2, <2>3 DEF InSeq
    <3>2. m + i \in 1..(m + n) /\ u[m + i] = x
      BY <1>3, <3>1
    <3> QED
      BY <1>2, <3>2 DEF InSeq
  <2> QED
    BY <2>1, <2>2, <2>3
<1>5. ASSUME IsInjective(u)
      PROVE  IsInjective(s) /\ IsInjective(t) /\ InSeq(s) \cap InSeq(t) = {}
  <2>1. \A i, j \in 1..(m + n) : u[i] = u[j] => i = j
    BY <1>2, <1>5 DEF IsInjective
  <2>2. IsInjective(s)
    BY <1>2, <1>3, <2>1 DEF IsInjective
  <2>3. ASSUME NEW i \in 1..n, NEW j \in 1..n, t[i] = t[j]
        PROVE  i = j
    <3>1. m + i = m + j
      <4>1. u[m + i] = u[m + j] /\ m + i \in 1..(m + n) /\ m + j \in 1..(m + n)
        BY <1>3, <2>3
      <4> QED
        BY <2>1, <4>1
    <3> QED
      BY <1>2, <3>1
  <2>4. ASSUME NEW i \in 1..m, NEW j \in 1..n, s[i] = t[j]
        PROVE  FALSE
    <3>1. i = m + j
      <4>1. u[i] = u[m + j] /\ i \in 1..(m + n) /\ m + j \in 1..(m + n)
        BY <1>3, <2>4
      <4> QED
        BY <2>1, <4>1
    <3> QED
      BY <1>2, <3>1
  <2> QED
    BY <1>2, <2>2, <2>3, <2>4 DEF IsInjective, InSeq
<1>6. ASSUME IsInjective(s), IsInjective(t), InSeq(s) \cap InSeq(t) = {}
      PROVE  IsInjective(u)
  <2>1. /\ \A i, j \in 1..m : s[i] = s[j] => i = j
        /\ \A i, j \in 1..n : t[i] = t[j] => i = j
    BY <1>2, <1>6 DEF IsInjective
  <2>2. \A i \in 1..m, j \in 1..n : s[i] # t[j]
    BY <1>2, <1>6 DEF InSeq
  <2> SUFFICES ASSUME NEW i \in 1..(m + n), NEW j \in 1..(m + n), u[i] = u[j]
               PROVE  i = j
    BY <1>2 DEF IsInjective
  <2>3. CASE i \in 1..m /\ u[i] = s[i] /\ j \in 1..m /\ u[j] = s[j]
    BY <2>1, <2>3
  <2>4. CASE i - m \in 1..n /\ u[i] = t[i - m] /\ j - m \in 1..n /\ u[j] = t[j - m]
    <3>1. i - m = j - m
      BY <2>1, <2>4
    <3> QED
      BY <1>2, <3>1
  <2>5. CASE i \in 1..m /\ u[i] = s[i] /\ j - m \in 1..n /\ u[j] = t[j - m]
    BY <2>2, <2>5
  <2>6. CASE j \in 1..m /\ u[j] = s[j] /\ i - m \in 1..n /\ u[i] = t[i - m]
    BY <2>2, <2>6
  <2> QED
    BY <1>3, <2>3, <2>4, <2>5, <2>6
<1> QED
  BY <1>1, <1>4, <1>5, <1>6 DEF u, m, n

LEMMA OneFacts ==
  ASSUME NEW S, NEW a \in S
  PROVE  <<a>> \in Seq(S) /\ Len(<<a>>) = 1 /\ InSeq(<<a>>) = {a} /\ IsInjective(<<a>>)
<1>1. <<a>> \in Seq(S) /\ Len(<<a>>) = 1 /\ <<a>>[1] = a
  OBVIOUS
<1>2. DOMAIN <<a>> = 1..1
  BY <1>1, LenProperties
<1> QED
  BY <1>1, <1>2 DEF InSeq, IsInjective

\* The first n of a sequence, and the rest.
LEMMA SplitFacts ==
  ASSUME NEW S, NEW s \in Seq(S), NEW n \in 0..Len(s)
  PROVE  LET f == SubSeq(s, 1, n)
             r == SubSeq(s, n + 1, Len(s))
         IN  /\ f \in Seq(S) /\ r \in Seq(S) /\ Len(f) = n /\ s = f \o r
<1> DEFINE f == SubSeq(s, 1, n)
           k == Len(s)
           r == SubSeq(s, n + 1, k)
<1>1. k \in Nat /\ n \in 0..k /\ \A i \in 1..k : s[i] \in S
  BY LenProperties, ElementOfSeq
<1> HIDE DEF k
<1>2. f \in Seq(S) /\ Len(f) = n
  <2>1. 1 \in Int /\ n \in Int /\ \A i \in 1..n : s[i] \in S
    BY <1>1
  <2>2. f \in Seq(S) /\ Len(f) = IF 1 <= n THEN n - 1 + 1 ELSE 0
    BY <2>1, SubSeqProperties
  <2> HIDE DEF f
  <2> QED
    BY <1>1, <2>2
<1>3. r \in Seq(S)
  <2>1. n + 1 \in Int /\ k \in Int /\ \A i \in (n + 1)..k : s[i] \in S
    BY <1>1
  <2> QED
    BY <2>1, SubSeqProperties
<1>4. s = f \o r
  <2>1. SubSeq(s, 1, k) = s
    BY SubSeqFull DEF k
  <2>2. 1 \in 1..(Len(s) + 1) /\ n \in (1 - 1)..Len(s) /\ k \in n..Len(s)
    BY <1>1 DEF k
  <2>3. SubSeq(s, 1, n) \o SubSeq(s, n + 1, k) = SubSeq(s, 1, k)
    BY <2>2, ConcatAdjacentSubSeq
  <2> QED
    BY <2>1, <2>3
<1> QED
  BY <1>2, <1>3, <1>4 DEF k

LEMMA AppendFacts ==
  ASSUME NEW S, NEW s \in Seq(S), NEW a \in S
  PROVE  /\ Append(s, a) \in Seq(S) /\ InSeq(Append(s, a)) = InSeq(s) \cup {a}
         /\ IsInjective(s) /\ a \notin InSeq(s) => IsInjective(Append(s, a))
<1> DEFINE o == <<a>>
<1>1. o \in Seq(S) /\ Len(o) = 1 /\ InSeq(o) = {a} /\ IsInjective(o)
  BY OneFacts
<1>2. Append(s, a) = s \o o
  BY AppendIsConcat
<1> HIDE DEF o
<1>3. /\ s \o o \in Seq(S) /\ InSeq(s \o o) = InSeq(s) \cup InSeq(o)
      /\ IsInjective(s \o o) <=> IsInjective(s) /\ IsInjective(o) /\ InSeq(s) \cap InSeq(o) = {}
  BY <1>1, ConcatFacts
<1> QED
  BY <1>1, <1>2, <1>3

\* Without() takes a lookup out of a line it is in once.
LEMMA WithoutFacts ==
  ASSUME NEW S, NEW s \in Seq(S), NEW a, IsInjective(s)
  PROVE  /\ Without(s, a) \in Seq(S) /\ IsInjective(Without(s, a))
         /\ InSeq(Without(s, a)) = InSeq(s) \ {a} /\ Len(Without(s, a)) <= Len(s)
<1>1. CASE a \notin InSeq(s)
  BY <1>1, SeqFacts DEF Without
<1>2. CASE a \in InSeq(s)
  <2> DEFINE i == CHOOSE k \in DOMAIN s : s[k] = a
             n == Len(s)
             f == SubSeq(s, 1, i - 1)
             r == SubSeq(s, i, n)
             g == SubSeq(r, 1, 1)
             t == SubSeq(s, i + 1, n)
  <2>1. i \in 1..n /\ s[i] = a /\ n \in Nat
    BY <1>2, SeqFacts DEF InSeq
  <2>2. Without(s, a) = f \o t
    BY <1>2 DEF Without, RemoveAt
  <2> HIDE DEF i
  <2>3. f \in Seq(S) /\ r \in Seq(S) /\ Len(f) = i - 1 /\ s = f \o r
    <3>1. i - 1 \in 0..Len(s) /\ (i - 1) + 1 = i
      BY <2>1
    <3> QED
      BY <3>1, SplitFacts
  <2> DEFINE o == <<a>>
             b == f \o o
  <2>4. t \in Seq(S) /\ s = b \o t /\ a \in S
    <3>1. i \in 0..Len(s)
      BY <2>1
    <3>2. t \in Seq(S) /\ s = SubSeq(s, 1, i) \o t
      BY <3>1, SplitFacts
    <3>3. SubSeq(s, 1, i) = f \o <<s[i]>>
      <4>1. 1 \in 1..Len(s) /\ i \in 1..Len(s)
        BY <2>1
      <4> QED
        BY <4>1, SubSeqRecursiveSecond
    <3>4. s[i] \in S
      BY <2>1, SeqFacts
    <3>5. SubSeq(s, 1, i) = b
      BY <2>1, <3>3
    <3> HIDE DEF b, t
    <3> QED
      BY <2>1, <3>2, <3>4, <3>5
  <2>5. o \in Seq(S) /\ Len(o) = 1 /\ InSeq(o) = {a}
    BY <2>4, OneFacts
  <2> HIDE DEF f, t, o
  <2>6. /\ b \in Seq(S) /\ Len(b) = Len(f) + Len(o) /\ InSeq(b) = InSeq(f) \cup InSeq(o)
        /\ IsInjective(b) => IsInjective(f) /\ InSeq(f) \cap InSeq(o) = {}
    BY <2>3, <2>5, ConcatFacts
  <2> HIDE DEF b
  <2>7. /\ IsInjective(b) /\ IsInjective(t) /\ InSeq(b) \cap InSeq(t) = {}
        /\ InSeq(s) = InSeq(b) \cup InSeq(t) /\ Len(s) = Len(b) + Len(t)
    <3>1. /\ Len(b \o t) = Len(b) + Len(t) /\ InSeq(b \o t) = InSeq(b) \cup InSeq(t)
          /\ IsInjective(b \o t) <=>
               IsInjective(b) /\ IsInjective(t) /\ InSeq(b) \cap InSeq(t) = {}
      <4>1. b \in Seq(S) /\ t \in Seq(S)
        BY <2>4, <2>6
      <4> QED
        BY <4>1, ConcatFacts
    <3> QED
      BY <2>4, <3>1
  <2>8. InSeq(f) \cap InSeq(t) = {}
    BY <2>6, <2>7
  <2>9. /\ f \o t \in Seq(S) /\ IsInjective(f \o t) /\ InSeq(f \o t) = InSeq(f) \cup InSeq(t)
        /\ Len(f \o t) = Len(f) + Len(t)
    <3>1. /\ f \o t \in Seq(S) /\ Len(f \o t) = Len(f) + Len(t)
          /\ InSeq(f \o t) = InSeq(f) \cup InSeq(t)
          /\ IsInjective(f \o t) <=>
               IsInjective(f) /\ IsInjective(t) /\ InSeq(f) \cap InSeq(t) = {}
      BY <2>3, <2>4, ConcatFacts
    <3> QED
      BY <2>6, <2>7, <2>8, <3>1
  <2>10. Len(f \o t) <= Len(s)
    <3>1. Len(f) \in Nat /\ Len(t) \in Nat
      BY <2>3, <2>4, LenProperties
    <3> QED
      BY <2>5, <2>6, <2>7, <2>9, <3>1
  <2>11. InSeq(f \o t) = InSeq(s) \ {a}
    BY <2>5, <2>6, <2>7, <2>9
  <2> QED
    BY <2>2, <2>9, <2>10, <2>11
<1> QED
  BY <1>1, <1>2

-----------------------------------------------------------------------------
(* The queues.                                                             *)

LEMMA QueueFacts ==
  ASSUME NEW q \in Queues
  PROVE  /\ q = [waiting |-> q.waiting, out |-> q.out, retrying |-> q.retrying, tries |-> q.tries]
         /\ q.waiting \in [Lanes -> Seq(Asks)] /\ q.out \in [Lanes -> Seq(Asks)]
         /\ q.retrying \in SUBSET Asks /\ q.tries \in [Asks -> 0..MaxTries]
         /\ \A l \in Lanes : /\ Len(q.waiting[l]) \in Nat /\ Len(q.out[l]) \in Nat
                             /\ InSeq(q.waiting[l]) \subseteq Waiting(q)
                             /\ InSeq(q.out[l]) \subseteq Out(q)
         /\ \A a \in Waiting(q) : \E l \in Lanes : a \in InSeq(q.waiting[l])
         /\ \A a \in Out(q) : \E l \in Lanes : a \in InSeq(q.out[l])
         /\ Waiting(q) \subseteq Asks /\ Out(q) \subseteq Asks
<1>1. /\ q = [waiting |-> q.waiting, out |-> q.out, retrying |-> q.retrying, tries |-> q.tries]
      /\ q.waiting \in [Lanes -> Seq(Asks)] /\ q.out \in [Lanes -> Seq(Asks)]
      /\ q.retrying \in SUBSET Asks /\ q.tries \in [Asks -> 0..MaxTries]
  BY DEF Queues
<1>2. /\ \A l \in Lanes : q.waiting[l] \in Seq(Asks) /\ q.out[l] \in Seq(Asks)
      /\ "fast" \in Lanes /\ "slow" \in Lanes
      /\ \A l \in Lanes : l = "fast" \/ l = "slow"
  BY <1>1 DEF Lanes
<1>3. \A l \in Lanes : /\ Len(q.waiting[l]) \in Nat /\ InSeq(q.waiting[l]) \subseteq Asks
                       /\ Len(q.out[l]) \in Nat /\ InSeq(q.out[l]) \subseteq Asks
  BY <1>2, SeqFacts
<1> QED
  BY <1>1, <1>2, <1>3 DEF Waiting, Out

\* A lookup has one place: no two lanes share one.
LEMMA OnePlace ==
  ASSUME NEW q, QueuesOK(q)
  PROVE  /\ Waiting(q) \cap Out(q) = {}
         /\ q.retrying \cap Waiting(q) = {} /\ q.retrying \cap Out(q) = {}
         /\ \A l \in Lanes : /\ \A a \in InSeq(q.waiting[l]) : LaneOf[a] = l
                             /\ \A a \in InSeq(q.out[l]) : LaneOf[a] = l
         /\ \A a \in Waiting(q) : q.tries[a] < MaxTries
         /\ \A a \in Out(q) : q.tries[a] >= 1
         /\ Placed(q) \subseteq Asks
<1>1. /\ \A l \in Lanes : LaneOK(q, l)
      /\ \A a \in Waiting(q) : \E l \in Lanes : a \in InSeq(q.waiting[l])
      /\ \A a \in Out(q) : \E l \in Lanes : a \in InSeq(q.out[l])
      /\ Waiting(q) \subseteq Asks /\ Out(q) \subseteq Asks /\ q.retrying \subseteq Asks
  BY QueueFacts DEF QueuesOK
<1>2. \A l \in Lanes :
        /\ InSeq(q.waiting[l]) \cap InSeq(q.out[l]) = {}
        /\ \A a \in InSeq(q.waiting[l]) :
             LaneOf[a] = l /\ a \notin q.retrying /\ q.tries[a] < MaxTries
        /\ \A a \in InSeq(q.out[l]) : LaneOf[a] = l /\ a \notin q.retrying /\ q.tries[a] >= 1
  BY <1>1 DEF LaneOK
<1> QED
  BY <1>1, <1>2 DEF Placed

LEMMA PushedOK ==
  ASSUME NEW q, QueuesOK(q), NEW a \in Asks, a \notin Placed(q), q.tries[a] < MaxTries
  PROVE  /\ QueuesOK(Pushed(q, a)) /\ Placed(Pushed(q, a)) = Placed(q) \cup {a}
         /\ Pushed(q, a).out = q.out /\ Out(Pushed(q, a)) = Out(q)
         /\ Pushed(q, a).tries = q.tries
<1> DEFINE Q == Pushed(q, a)
           m == LaneOf[a]
           s == Append(q.waiting[m], a)
<1>1. /\ q.waiting \in [Lanes -> Seq(Asks)] /\ m \in Lanes /\ q \in Queues
      /\ q.waiting[m] \in Seq(Asks) /\ LaneOK(q, m)
      /\ a \notin InSeq(q.waiting[m]) /\ a \notin InSeq(q.out[m]) /\ a \notin q.retrying
  BY LinkAssumption, QueueFacts DEF QueuesOK, Placed
<1>2. /\ Q.waiting = [q.waiting EXCEPT ![m] = s] /\ Q.out = q.out
      /\ Q.retrying = q.retrying /\ Q.tries = q.tries
  BY <1>1 DEF Pushed, Queues
<1>3. s \in Seq(Asks) /\ InSeq(s) = InSeq(q.waiting[m]) \cup {a} /\ IsInjective(s)
  <2>1. IsInjective(q.waiting[m])
    BY <1>1 DEF LaneOK
  <2> QED
    BY <1>1, <2>1, AppendFacts
<1>4. Q \in Queues
  <2>1. [q.waiting EXCEPT ![m] = s] \in [Lanes -> Seq(Asks)]
    BY <1>1, <1>3
  <2>2. Q = [q EXCEPT !.waiting = [q.waiting EXCEPT ![m] = s]]
    BY <1>1 DEF Pushed, Queues
  <2> HIDE DEF s, m
  <2> QED
    BY <1>1, <2>1, <2>2 DEF Queues
<1> HIDE DEF Q, s
<1>5. /\ Q.waiting[m] = s
      /\ \A l \in Lanes : l # m => Q.waiting[l] = q.waiting[l]
      /\ \A l \in Lanes : Q.out[l] = q.out[l]
  BY <1>1, <1>2
<1>6. Waiting(Q) = Waiting(q) \cup {a} /\ Out(Q) = Out(q)
  <2>1. m \in {"fast", "slow"} /\ "fast" \in Lanes /\ "slow" \in Lanes
    BY <1>1 DEF Lanes
  <2>2. CASE m = "fast"
    BY <1>3, <1>5, <2>1, <2>2 DEF Waiting, Out
  <2>3. CASE m = "slow"
    BY <1>3, <1>5, <2>1, <2>3 DEF Waiting, Out
  <2> QED
    BY <2>1, <2>2, <2>3
<1>7. ASSUME NEW l \in Lanes
      PROVE  LaneOK(Q, l)
  <2>1. LaneOK(q, l)
    BY DEF QueuesOK
  <2>2. CASE l # m
    BY <1>2, <1>5, <2>1, <2>2 DEF LaneOK
  <2>3. CASE l = m
    <3>1. \A b \in InSeq(s) : LaneOf[b] = l /\ b \notin q.retrying /\ q.tries[b] < MaxTries
      BY <1>1, <1>3, <2>1, <2>3 DEF LaneOK
    <3>2. InSeq(s) \cap InSeq(q.out[l]) = {}
      BY <1>1, <1>3, <2>1, <2>3 DEF LaneOK
    <3> QED
      BY <1>2, <1>3, <1>5, <2>1, <2>3, <3>1, <3>2 DEF LaneOK
  <2> QED
    BY <2>2, <2>3
<1> QED
  BY <1>2, <1>4, <1>6, <1>7 DEF QueuesOK, Placed, Q

\* What is sent goes from the front of its line to the end of those that are out.
LEMMA SentLane ==
  ASSUME NEW s \in Seq(Asks), NEW o \in Seq(Asks), NEW n \in 0..Len(s),
         IsInjective(s), IsInjective(o), InSeq(s) \cap InSeq(o) = {}
  PROVE  LET f == SubSeq(s, 1, n)
             r == SubSeq(s, n + 1, Len(s))
         IN  /\ f \in Seq(Asks) /\ r \in Seq(Asks) /\ o \o f \in Seq(Asks)
             /\ IsInjective(r) /\ IsInjective(o \o f)
             /\ InSeq(r) \cap InSeq(o \o f) = {} /\ InSeq(o \o f) = InSeq(o) \cup InSeq(f)
             /\ InSeq(s) = InSeq(f) \cup InSeq(r) /\ InSeq(f) \cap InSeq(r) = {}
             /\ Len(o \o f) = Len(o) + n /\ (n = 0 => InSeq(f) = {})
<1> DEFINE f == SubSeq(s, 1, n)
           r == SubSeq(s, n + 1, Len(s))
<1>1. f \in Seq(Asks) /\ r \in Seq(Asks) /\ Len(f) = n /\ s = f \o r
  BY SplitFacts
<1> HIDE DEF f, r
<1>2. /\ InSeq(f \o r) = InSeq(f) \cup InSeq(r)
      /\ IsInjective(f \o r) <=> IsInjective(f) /\ IsInjective(r) /\ InSeq(f) \cap InSeq(r) = {}
  BY <1>1, ConcatFacts
<1>3. /\ InSeq(s) = InSeq(f) \cup InSeq(r) /\ IsInjective(f) /\ IsInjective(r)
      /\ InSeq(f) \cap InSeq(r) = {}
  BY <1>1, <1>2
<1>4. /\ o \o f \in Seq(Asks) /\ Len(o \o f) = Len(o) + Len(f)
      /\ InSeq(o \o f) = InSeq(o) \cup InSeq(f)
      /\ IsInjective(o \o f) <=> IsInjective(o) /\ IsInjective(f) /\ InSeq(o) \cap InSeq(f) = {}
  BY <1>1, ConcatFacts
<1>5. InSeq(o) \cap InSeq(f) = {} /\ InSeq(r) \cap InSeq(o \o f) = {}
  BY <1>3, <1>4
<1>6. n = 0 => InSeq(f) = {}
  <2>1. \A x \in InSeq(f) : \E i \in 1..Len(f) : f[i] = x
    BY <1>1, SeqFacts
  <2> QED
    BY <1>1, <2>1
<1> QED
  BY <1>1, <1>3, <1>4, <1>5, <1>6 DEF f, r

\* There is room for what waits in the slots that are free.
Fits(q, n) ==
  /\ n \in [Lanes -> Nat]
  /\ \A l \in Lanes : n[l] <= Len(q.waiting[l]) /\ Len(q.out[l]) + n[l] <= MaxInFlight[l]

LEMMA RoomFits ==
  ASSUME NEW q, QueuesOK(q), NEW up
  PROVE  Fits(q, Room(q, up)) /\ (~up => \A l \in Lanes : Room(q, up)[l] = 0)
<1>1. ASSUME NEW l \in Lanes
      PROVE  /\ Room(q, up)[l] \in Nat /\ Room(q, up)[l] <= Len(q.waiting[l])
             /\ Len(q.out[l]) + Room(q, up)[l] <= MaxInFlight[l]
             /\ ~up => Room(q, up)[l] = 0
  <2>1. /\ Len(q.waiting[l]) \in Nat /\ Len(q.out[l]) \in Nat
        /\ Len(q.out[l]) <= MaxInFlight[l] /\ MaxInFlight[l] \in Nat
    BY LinkAssumption, QueueFacts DEF QueuesOK, LaneOK
  <2> DEFINE w == Len(q.waiting[l])
             o == Len(q.out[l])
             n == Sendable(q, l)
  <2>2. n \in Nat /\ n <= w /\ o + n <= MaxInFlight[l]
    <3>1. n = Smaller(MaxInFlight[l] - o, w)
      BY DEF Sendable
    <3>2. o \in Nat /\ w \in Nat /\ MaxInFlight[l] \in Nat /\ o <= MaxInFlight[l]
      BY <2>1
    <3> HIDE DEF n, w, o
    <3> QED
      BY <3>1, <3>2 DEF Smaller
  <2>3. Room(q, up)[l] \in {0, n, Smaller(1, n)} /\ (~up => Room(q, up)[l] = 0)
    BY DEF Room
  <2> HIDE DEF n, w, o
  <2>4. Room(q, up)[l] \in Nat /\ Room(q, up)[l] <= n
    BY <2>2, <2>3 DEF Smaller
  <2>5. w \in Nat /\ o \in Nat
    BY <2>1 DEF w, o
  <2>6. Room(q, up)[l] <= w /\ o + Room(q, up)[l] <= MaxInFlight[l]
    BY <2>1, <2>2, <2>4, <2>5
  <2> QED
    BY <2>3, <2>4, <2>6 DEF w, o
<1>2. Room(q, up) = [l \in Lanes |-> Room(q, up)[l]]
  BY DEF Room
<1> QED
  BY <1>1, <1>2 DEF Fits

\* Sending keeps the queues, uses a try of each lookup sent, and takes no lookup's place.
LEMMA SentOK ==
  ASSUME NEW q, QueuesOK(q), NEW n, Fits(q, n)
  PROVE  /\ QueuesOK(Sent(q, n)) /\ Placed(Sent(q, n)) = Placed(q)
         /\ \A l \in Lanes : Sent(q, n).out[l] = q.out[l] \o SubSeq(q.waiting[l], 1, n[l])
         /\ Out(q) \subseteq Out(Sent(q, n))
         /\ (\A l \in Lanes : n[l] = 0) => Out(Sent(q, n)) = Out(q)
         /\ \A a \in Asks : Sent(q, n).tries[a] >= q.tries[a]
         /\ \A a \in Asks : a \notin Waiting(q) => Sent(q, n).tries[a] = q.tries[a]
         /\ \A a \in Out(Sent(q, n)) : a \in Out(q) \/ Sent(q, n).tries[a] > q.tries[a]
<1> DEFINE Q == Sent(q, n)
           f(l) == SubSeq(q.waiting[l], 1, n[l])
           r(l) == SubSeq(q.waiting[l], n[l] + 1, Len(q.waiting[l]))
           first == [l \in Lanes |-> SubSeq(q.waiting[l], 1, n[l])]
           going == InSeq(first["fast"]) \cup InSeq(first["slow"])
           tr == [a \in Asks |-> IF a \in going THEN q.tries[a] + 1 ELSE q.tries[a]]
           rest == [l \in Lanes |-> SubSeq(q.waiting[l], n[l] + 1, Len(q.waiting[l]))]
           outs == [l \in Lanes |-> q.out[l] \o first[l]]
<1>1. /\ q \in Queues /\ q.waiting \in [Lanes -> Seq(Asks)] /\ q.out \in [Lanes -> Seq(Asks)]
      /\ q.retrying \in SUBSET Asks /\ q.tries \in [Asks -> 0..MaxTries]
      /\ \A l \in Lanes : LaneOK(q, l)
  BY QueueFacts DEF QueuesOK
<1>2. /\ Q = [q EXCEPT !.waiting = rest, !.out = outs, !.tries = tr]
      /\ Q.waiting = rest /\ Q.out = outs /\ Q.tries = tr /\ Q.retrying = q.retrying
  BY <1>1 DEF Sent, Queues
<1>3. \A l \in Lanes : first[l] = f(l) /\ rest[l] = r(l) /\ outs[l] = q.out[l] \o f(l)
  OBVIOUS
<1>4. going = InSeq(f("fast")) \cup InSeq(f("slow")) /\ "fast" \in Lanes /\ "slow" \in Lanes
      /\ \A l \in Lanes : l = "fast" \/ l = "slow"
  BY <1>3 DEF Lanes
<1>5. \A a \in Asks : tr[a] = IF a \in going THEN q.tries[a] + 1 ELSE q.tries[a]
  OBVIOUS
<1>6. \A l \in Lanes :
        /\ f(l) \in Seq(Asks) /\ r(l) \in Seq(Asks) /\ q.out[l] \o f(l) \in Seq(Asks)
        /\ IsInjective(r(l)) /\ IsInjective(q.out[l] \o f(l))
        /\ InSeq(r(l)) \cap InSeq(q.out[l] \o f(l)) = {}
        /\ InSeq(q.out[l] \o f(l)) = InSeq(q.out[l]) \cup InSeq(f(l))
        /\ InSeq(q.waiting[l]) = InSeq(f(l)) \cup InSeq(r(l))
        /\ InSeq(f(l)) \cap InSeq(r(l)) = {}
        /\ Len(q.out[l] \o f(l)) = Len(q.out[l]) + n[l] /\ (n[l] = 0 => InSeq(f(l)) = {})
  <2> SUFFICES ASSUME NEW l \in Lanes
               PROVE  /\ f(l) \in Seq(Asks) /\ r(l) \in Seq(Asks) /\ q.out[l] \o f(l) \in Seq(Asks)
                      /\ IsInjective(r(l)) /\ IsInjective(q.out[l] \o f(l))
                      /\ InSeq(r(l)) \cap InSeq(q.out[l] \o f(l)) = {}
                      /\ InSeq(q.out[l] \o f(l)) = InSeq(q.out[l]) \cup InSeq(f(l))
                      /\ InSeq(q.waiting[l]) = InSeq(f(l)) \cup InSeq(r(l))
                      /\ InSeq(f(l)) \cap InSeq(r(l)) = {}
                      /\ Len(q.out[l] \o f(l)) = Len(q.out[l]) + n[l]
                      /\ (n[l] = 0 => InSeq(f(l)) = {})
    OBVIOUS
  <2>1. /\ q.waiting[l] \in Seq(Asks) /\ q.out[l] \in Seq(Asks)
        /\ IsInjective(q.waiting[l]) /\ IsInjective(q.out[l])
        /\ InSeq(q.waiting[l]) \cap InSeq(q.out[l]) = {}
    BY <1>1 DEF LaneOK
  <2>2. n[l] \in 0..Len(q.waiting[l])
    <3>1. n[l] \in Nat /\ n[l] <= Len(q.waiting[l]) /\ Len(q.waiting[l]) \in Nat
      BY <2>1, LenProperties DEF Fits
    <3> QED
      BY <3>1
  <2> DEFINE s == q.waiting[l]
             o == q.out[l]
             k == n[l]
  <2>3. /\ s \in Seq(Asks) /\ o \in Seq(Asks) /\ k \in 0..Len(s)
        /\ IsInjective(s) /\ IsInjective(o) /\ InSeq(s) \cap InSeq(o) = {}
    BY <2>1, <2>2
  <2>4. f(l) = SubSeq(s, 1, k) /\ r(l) = SubSeq(s, k + 1, Len(s))
    OBVIOUS
  <2> HIDE DEF s, o, k, f, r
  <2>5. /\ f(l) \in Seq(Asks) /\ r(l) \in Seq(Asks) /\ o \o f(l) \in Seq(Asks)
        /\ IsInjective(r(l)) /\ IsInjective(o \o f(l))
        /\ InSeq(r(l)) \cap InSeq(o \o f(l)) = {} /\ InSeq(o \o f(l)) = InSeq(o) \cup InSeq(f(l))
        /\ InSeq(s) = InSeq(f(l)) \cup InSeq(r(l)) /\ InSeq(f(l)) \cap InSeq(r(l)) = {}
        /\ Len(o \o f(l)) = Len(o) + k /\ (k = 0 => InSeq(f(l)) = {})
    BY <2>3, <2>4, SentLane
  <2> QED
    BY <2>5 DEF s, o, k
<1> HIDE DEF f, r, first, rest, outs, going, tr, Q
<1>8. \A a \in Waiting(q) : q.tries[a] < MaxTries
  BY OnePlace
<1>9. going \subseteq Waiting(q) /\ going \cap Out(q) = {}
  BY <1>4, <1>6, OnePlace DEF Waiting
<1>10. MaxTries \in Nat /\ \A a \in Asks : q.tries[a] \in 0..MaxTries
  BY <1>1, LinkAssumption
<1>11. \A a \in Asks : tr[a] \in 0..MaxTries /\ tr[a] >= q.tries[a]
  BY <1>5, <1>8, <1>9, <1>10
<1>12. Q \in Queues
  <2>1. rest \in [Lanes -> Seq(Asks)]
    BY <1>3, <1>6 DEF rest
  <2>2. outs \in [Lanes -> Seq(Asks)]
    BY <1>3, <1>6 DEF outs
  <2>3. tr \in [Asks -> 0..MaxTries]
    BY <1>11 DEF tr
  <2> QED
    BY <1>1, <1>2, <2>1, <2>2, <2>3 DEF Queues
<1>13. ASSUME NEW l \in Lanes
       PROVE  LaneOK(Q, l)
  <2>1. LaneOK(q, l) /\ Q.waiting[l] = r(l) /\ Q.out[l] = q.out[l] \o f(l)
    BY <1>1, <1>2, <1>3
  <2>2. \A a \in InSeq(r(l)) : a \notin going
    <3>1. \A k \in Lanes : \A a \in InSeq(f(k)) : LaneOf[a] = k
      BY <1>1, <1>6 DEF LaneOK
    <3>2. \A a \in InSeq(r(l)) : LaneOf[a] = l
      BY <1>1, <1>6 DEF LaneOK
    <3> QED
      BY <1>4, <1>6, <3>1, <3>2
  <2>3. \A a \in InSeq(r(l)) : a \in Asks /\ a \in InSeq(q.waiting[l])
    BY <1>1, <1>6, SeqFacts
  <2>4. \A a \in InSeq(r(l)) : LaneOf[a] = l /\ a \notin Q.retrying /\ Q.tries[a] < MaxTries
    BY <1>2, <1>5, <2>1, <2>2, <2>3 DEF LaneOK
  <2>5. ASSUME NEW a \in InSeq(q.out[l] \o f(l))
        PROVE  LaneOf[a] = l /\ a \notin Q.retrying /\ Q.tries[a] >= 1
    <3>1. a \in Asks /\ (a \in InSeq(q.out[l]) \/ (a \in InSeq(f(l)) /\ a \in InSeq(q.waiting[l])))
      <4>1. q.out[l] \o f(l) \in Seq(Asks)
        BY <1>6
      <4>2. InSeq(q.out[l] \o f(l)) \subseteq Asks
        BY <4>1, SeqFacts
      <4>3. /\ InSeq(q.out[l] \o f(l)) = InSeq(q.out[l]) \cup InSeq(f(l))
            /\ InSeq(q.waiting[l]) = InSeq(f(l)) \cup InSeq(r(l))
        BY <1>6
      <4> QED
        BY <2>5, <4>2, <4>3
    <3>2. CASE a \in InSeq(q.out[l])
      <4>1. LaneOf[a] = l /\ a \notin q.retrying /\ q.tries[a] >= 1
        BY <2>1, <3>2 DEF LaneOK
      <4> QED
        BY <1>2, <1>10, <1>11, <3>1, <4>1
    <3>3. CASE a \in InSeq(f(l)) /\ a \in InSeq(q.waiting[l])
      <4>1. LaneOf[a] = l /\ a \notin q.retrying /\ a \in going
        BY <1>4, <2>1, <3>3 DEF LaneOK
      <4>2. Q.tries[a] = q.tries[a] + 1
        BY <1>2, <1>5, <3>1, <4>1
      <4> QED
        BY <1>2, <1>10, <3>1, <4>1, <4>2
    <3> QED
      BY <3>1, <3>2, <3>3
  <2>6. Len(q.out[l] \o f(l)) <= MaxInFlight[l]
    BY <1>6 DEF Fits
  <2> QED
    BY <1>6, <2>1, <2>4, <2>5, <2>6 DEF LaneOK
<1>14. /\ Waiting(Q) \cup Out(Q) = Waiting(q) \cup Out(q) /\ Out(q) \subseteq Out(Q)
       /\ (\A l \in Lanes : n[l] = 0) => Out(Q) = Out(q)
  <2>1. \A l \in Lanes : Q.waiting[l] = r(l) /\ Q.out[l] = q.out[l] \o f(l)
    BY <1>2, <1>3
  <2>2. \A l \in Lanes : /\ InSeq(q.waiting[l]) = InSeq(f(l)) \cup InSeq(Q.waiting[l])
                         /\ InSeq(Q.out[l]) = InSeq(q.out[l]) \cup InSeq(f(l))
                         /\ n[l] = 0 => InSeq(f(l)) = {}
    BY <1>6, <2>1
  <2> QED
    BY <1>4, <2>2 DEF Waiting, Out
<1>15. \A a \in q.retrying : Q.tries[a] < MaxTries
  <2>1. \A a \in q.retrying : a \notin going /\ a \in Asks
    BY <1>1, <1>9, OnePlace
  <2> QED
    BY <1>2, <1>5, <2>1 DEF QueuesOK
<1>16. \A a \in Out(Q) : a \in Out(q) \/ Q.tries[a] > q.tries[a]
  <2>1. Out(Q) = Out(q) \cup going
    <3>1. \A l \in Lanes : InSeq(Q.out[l]) = InSeq(q.out[l]) \cup InSeq(f(l))
      BY <1>2, <1>3, <1>6
    <3> QED
      BY <1>4, <3>1 DEF Out
  <2>2. Waiting(q) \subseteq Asks
    BY <1>1, QueueFacts
  <2> QED
    BY <1>2, <1>5, <1>9, <1>10, <2>1, <2>2
<1> QED
  BY <1>2, <1>3, <1>5, <1>9, <1>11, <1>12, <1>13, <1>14, <1>15, <1>16 DEF QueuesOK, Placed, f, Q

\* A lookup the PC has just been sent is one that has just gone out.
LEMMA NewJob ==
  ASSUME NEW q, NEW Q, NEW js, NEW j \in handleQuery(q, Q, js)
  PROVE  /\ socket \in {"greeted", "paired", "live"}
         /\ \E l \in Lanes, i \in Int :
              /\ i \in (Len(q.out[l]) + 1)..Len(Q.out[l])
              /\ j = [ask |-> Q.out[l][i], try |-> Q.tries[Q.out[l][i]],
                      busy |-> Held(js, l) + i - Len(q.out[l]) > MaxPending[l]]
<1> DEFINE job(l, i) == [ask |-> Q.out[l][i], try |-> Q.tries[Q.out[l][i]],
                         busy |-> Held(js, l) + i - Len(q.out[l]) > MaxPending[l]]
           new(l) == {job(l, i) : i \in (Len(q.out[l]) + 1)..Len(Q.out[l])}
<1>1. handleQuery(q, Q, js) = IF socket \in {"greeted", "paired", "live"}
                              THEN UNION {new(l) : l \in Lanes} ELSE {}
  BY DEF handleQuery
<1>2. socket \in {"greeted", "paired", "live"} /\ j \in UNION {new(l) : l \in Lanes}
  BY <1>1
<1> HIDE DEF new
<1>3. PICK l \in Lanes : j \in new(l)
  BY <1>2
<1> HIDE DEF job
<1>4. \E i \in (Len(q.out[l]) + 1)..Len(Q.out[l]) : j = job(l, i)
  BY <1>3 DEF new
<1> QED
  BY <1>2, <1>4 DEF job

\* What sendWaiting() leaves: the queues, the places, and on the PC's side lookups sent by now.
LEMMA SendOK ==
  ASSUME NEW q, QueuesOK(q), NEW js, JobsOK(js, q), NEW up, sendWaiting(q, js, up)
  PROVE  /\ QueuesOK(queues') /\ Placed(queues') = Placed(q)
         /\ JobsOK(jobs', queues')
         /\ ~up => Out(queues') = Out(q)
         /\ \A a \in Asks : a \notin Waiting(q) => queues'.tries[a] = q.tries[a]
         /\ \A a \in Out(queues') : a \in Out(q) \/ queues'.tries[a] > q.tries[a]
<1> DEFINE n == Room(q, up)
           Q == queues'
<1>1. Fits(q, n) /\ (~up => \A l \in Lanes : n[l] = 0) /\ Q = Sent(q, n)
  BY RoomFits DEF sendWaiting
<1> HIDE DEF n, Q
<1>2. /\ QueuesOK(Q) /\ Placed(Q) = Placed(q)
      /\ (\A l \in Lanes : n[l] = 0) => Out(Q) = Out(q)
      /\ \A a \in Asks : Q.tries[a] >= q.tries[a]
      /\ \A a \in Asks : a \notin Waiting(q) => Q.tries[a] = q.tries[a]
      /\ \A a \in Out(Q) : a \in Out(q) \/ Q.tries[a] > q.tries[a]
  <2>1. /\ QueuesOK(Sent(q, n)) /\ Placed(Sent(q, n)) = Placed(q)
        /\ (\A l \in Lanes : n[l] = 0) => Out(Sent(q, n)) = Out(q)
        /\ \A a \in Asks : Sent(q, n).tries[a] >= q.tries[a]
        /\ \A a \in Asks : a \notin Waiting(q) => Sent(q, n).tries[a] = q.tries[a]
        /\ \A a \in Out(Sent(q, n)) : a \in Out(q) \/ Sent(q, n).tries[a] > q.tries[a]
    BY <1>1, SentOK
  <2> QED
    BY <1>1, <2>1
<1>3. q.tries \in [Asks -> 0..MaxTries] /\ Q.tries \in [Asks -> 0..MaxTries] /\ MaxTries \in Nat
  BY <1>2, QueueFacts, LinkAssumption DEF QueuesOK
<1>4. ASSUME NEW j \in js
      PROVE  j \in Jobs /\ j.try <= Q.tries[j.ask]
  <2>1. j \in Jobs /\ j.try <= q.tries[j.ask] /\ j.ask \in Asks /\ j.try \in 1..MaxTries
    BY DEF JobsOK, Jobs
  <2> QED
    BY <1>2, <1>3, <2>1
<1>5. ASSUME NEW j \in handleQuery(q, Q, js)
      PROVE  j \in Jobs /\ j.try <= Q.tries[j.ask]
  <2>1. PICK l \in Lanes, i \in Int :
          /\ i \in (Len(q.out[l]) + 1)..Len(Q.out[l])
          /\ j = [ask |-> Q.out[l][i], try |-> Q.tries[Q.out[l][i]],
                  busy |-> Held(js, l) + i - Len(q.out[l]) > MaxPending[l]]
    BY <1>5, NewJob
  <2> DEFINE a == Q.out[l][i]
             b == Held(js, l) + i - Len(q.out[l]) > MaxPending[l]
  <2>2. b \in BOOLEAN
    OBVIOUS
  <2>3. i \in 1..Len(Q.out[l])
    <3>1. Len(q.out[l]) \in Nat /\ Len(Q.out[l]) \in Nat
      BY <1>2, QueueFacts DEF QueuesOK
    <3> QED
      BY <2>1, <3>1
  <2>4. a \in Asks /\ a \in InSeq(Q.out[l])
    <3>1. Q.out[l] \in Seq(Asks)
      BY <1>2, QueueFacts DEF QueuesOK
    <3> QED
      BY <2>3, <3>1, SeqFacts
  <2>5. Q.tries[a] >= 1
    BY <1>2, <2>4 DEF QueuesOK, LaneOK
  <2> HIDE DEF a, b
  <2>6. Q.tries[a] \in 1..MaxTries /\ Q.tries[a] <= Q.tries[a]
    BY <1>3, <2>4, <2>5
  <2>7. j = [ask |-> a, try |-> Q.tries[a], busy |-> b]
    BY <2>1 DEF a, b
  <2> QED
    BY <2>2, <2>4, <2>6, <2>7 DEF Jobs
<1>6. jobs' = js \cup handleQuery(q, Q, js)
  BY DEF sendWaiting, Q
<1> QED
  BY <1>1, <1>2, <1>4, <1>5, <1>6 DEF JobsOK, Q

\* What the page lets go of frees its slot and has no place any more.
LEMMA LetGoOK ==
  ASSUME NEW q, QueuesOK(q), NEW a \in Out(q)
  PROVE  /\ QueuesOK(letGo(q, a)) /\ Placed(letGo(q, a)) = Placed(q) \ {a}
         /\ Out(letGo(q, a)) = Out(q) \ {a} /\ Waiting(letGo(q, a)) = Waiting(q)
         /\ letGo(q, a).tries = q.tries /\ letGo(q, a).retrying = q.retrying
         /\ letGo(q, a).waiting = q.waiting /\ a \in Asks
<1> DEFINE Q == letGo(q, a)
           outs == [l \in Lanes |-> Without(q.out[l], a)]
<1>1. /\ q \in Queues /\ q.out \in [Lanes -> Seq(Asks)] /\ a \in Asks
      /\ \A l \in Lanes : LaneOK(q, l)
  BY QueueFacts DEF QueuesOK
<1>2. Q = [q EXCEPT !.out = outs]
  BY <1>1 DEF letGo, Queues
<1>3. \A l \in Lanes : /\ outs[l] \in Seq(Asks) /\ IsInjective(outs[l])
                       /\ InSeq(outs[l]) = InSeq(q.out[l]) \ {a}
                       /\ Len(outs[l]) <= Len(q.out[l]) /\ Len(outs[l]) \in Nat
                       /\ Len(q.out[l]) \in Nat
  <2> SUFFICES ASSUME NEW l \in Lanes
               PROVE  /\ outs[l] \in Seq(Asks) /\ IsInjective(outs[l])
                      /\ InSeq(outs[l]) = InSeq(q.out[l]) \ {a}
                      /\ Len(outs[l]) <= Len(q.out[l]) /\ Len(outs[l]) \in Nat
                      /\ Len(q.out[l]) \in Nat
    OBVIOUS
  <2>1. q.out[l] \in Seq(Asks) /\ IsInjective(q.out[l]) /\ outs[l] = Without(q.out[l], a)
    BY <1>1 DEF LaneOK
  <2>2. /\ Without(q.out[l], a) \in Seq(Asks) /\ IsInjective(Without(q.out[l], a))
        /\ InSeq(Without(q.out[l], a)) = InSeq(q.out[l]) \ {a}
        /\ Len(Without(q.out[l], a)) <= Len(q.out[l])
    BY <2>1, WithoutFacts
  <2> HIDE DEF outs
  <2> QED
    BY <2>1, <2>2, LenProperties
<1>4. outs \in [Lanes -> Seq(Asks)]
  BY <1>3
<1> HIDE DEF outs
<1>5. /\ Q \in Queues /\ Q.out = outs /\ Q.waiting = q.waiting /\ Q.tries = q.tries
      /\ Q.retrying = q.retrying
  BY <1>1, <1>2, <1>4 DEF Queues
<1> HIDE DEF Q
<1>6. ASSUME NEW l \in Lanes
      PROVE  LaneOK(Q, l)
  <2>1. LaneOK(q, l)
    BY <1>1
  <2>2. Len(outs[l]) <= MaxInFlight[l]
    <3>1. MaxInFlight[l] \in Nat
      BY LinkAssumption
    <3> QED
      BY <1>3, <2>1, <3>1 DEF LaneOK
  <2> QED
    BY <1>3, <1>5, <2>1, <2>2 DEF LaneOK
<1>7. Out(Q) = Out(q) \ {a} /\ Waiting(Q) = Waiting(q)
  <2>1. "fast" \in Lanes /\ "slow" \in Lanes
    BY DEF Lanes
  <2> QED
    BY <1>3, <1>5, <2>1 DEF Out, Waiting
<1>8. QueuesOK(Q)
  BY <1>5, <1>6 DEF QueuesOK
<1>9. Placed(Q) = Placed(q) \ {a}
  <2>1. a \notin Waiting(q) /\ a \notin q.retrying
    BY OnePlace
  <2> QED
    BY <1>5, <1>7, <2>1 DEF Placed
<1> QED
  BY <1>1, <1>5, <1>7, <1>8, <1>9 DEF Q

\* A pause before another try, and its end.
LEMMA PauseOK ==
  ASSUME NEW q, QueuesOK(q), NEW r \in SUBSET Asks,
         \A a \in r : a \notin Waiting(q) /\ a \notin Out(q) /\ q.tries[a] < MaxTries
  PROVE  LET Q == [q EXCEPT !.retrying = r]
         IN  /\ QueuesOK(Q) /\ Placed(Q) = Waiting(q) \cup Out(q) \cup r
             /\ Out(Q) = Out(q) /\ Waiting(Q) = Waiting(q) /\ Q.tries = q.tries
             /\ Q.retrying = r
<1> DEFINE Q == [q EXCEPT !.retrying = r]
<1>1. /\ q \in Queues /\ \A l \in Lanes : LaneOK(q, l)
      /\ \A l \in Lanes : InSeq(q.waiting[l]) \subseteq Waiting(q) /\ InSeq(q.out[l]) \subseteq Out(q)
  BY QueueFacts DEF QueuesOK
<1>2. /\ Q \in Queues /\ Q.out = q.out /\ Q.waiting = q.waiting /\ Q.tries = q.tries
      /\ Q.retrying = r
  BY <1>1 DEF Queues
<1> HIDE DEF Q
<1>3. \A l \in Lanes : LaneOK(Q, l)
  BY <1>1, <1>2 DEF LaneOK
<1> QED
  BY <1>2, <1>3 DEF QueuesOK, Placed, Waiting, Out, Q

\* A drop puts what was out back in line, with its try.
LEMMA HoldOK ==
  ASSUME NEW q, QueuesOK(q)
  PROVE  /\ QueuesOK(holdLookups(q)) /\ Placed(holdLookups(q)) = Placed(q)
         /\ Out(holdLookups(q)) = {}
         /\ \A a \in Asks : a \notin Out(q) => holdLookups(q).tries[a] = q.tries[a]
<1> DEFINE Q == holdLookups(q)
           line == [l \in Lanes |-> q.out[l] \o q.waiting[l]]
           none == [l \in Lanes |-> << >>]
           tr == [a \in Asks |-> IF a \in Out(q) THEN q.tries[a] - 1 ELSE q.tries[a]]
<1>1. /\ q \in Queues /\ q.waiting \in [Lanes -> Seq(Asks)] /\ q.out \in [Lanes -> Seq(Asks)]
      /\ q.retrying \in SUBSET Asks /\ q.tries \in [Asks -> 0..MaxTries]
      /\ \A l \in Lanes : LaneOK(q, l)
  BY QueueFacts DEF QueuesOK
<1>2. Q = [q EXCEPT !.waiting = line, !.out = none, !.tries = tr]
  BY <1>1 DEF holdLookups, Queues
<1>3. \A l \in Lanes : /\ line[l] \in Seq(Asks) /\ IsInjective(line[l])
                       /\ InSeq(line[l]) = InSeq(q.out[l]) \cup InSeq(q.waiting[l])
  <2> SUFFICES ASSUME NEW l \in Lanes
               PROVE  /\ line[l] \in Seq(Asks) /\ IsInjective(line[l])
                      /\ InSeq(line[l]) = InSeq(q.out[l]) \cup InSeq(q.waiting[l])
    OBVIOUS
  <2> DEFINE s == q.out[l]
             t == q.waiting[l]
  <2>1. /\ s \in Seq(Asks) /\ t \in Seq(Asks) /\ IsInjective(s) /\ IsInjective(t)
        /\ InSeq(s) \cap InSeq(t) = {} /\ line[l] = s \o t
    BY <1>1 DEF LaneOK
  <2> HIDE DEF line, s, t
  <2>2. /\ s \o t \in Seq(Asks) /\ InSeq(s \o t) = InSeq(s) \cup InSeq(t)
        /\ IsInjective(s \o t) <=> IsInjective(s) /\ IsInjective(t) /\ InSeq(s) \cap InSeq(t) = {}
    BY <2>1, ConcatFacts
  <2> QED
    BY <2>1, <2>2 DEF s, t
<1>4. \A l \in Lanes : none[l] = << >>
  OBVIOUS
<1>5. << >> \in Seq(Asks) /\ Len(<< >>) = 0 /\ InSeq(<< >>) = {} /\ IsInjective(<< >>)
  BY EmptyFacts
<1>6. line \in [Lanes -> Seq(Asks)] /\ none \in [Lanes -> Seq(Asks)]
  BY <1>3, <1>5
<1>7. tr \in [Asks -> 0..MaxTries]
  <2>1. ASSUME NEW a \in Asks
        PROVE  (IF a \in Out(q) THEN q.tries[a] - 1 ELSE q.tries[a]) \in 0..MaxTries
    <3>1. q.tries[a] \in 0..MaxTries /\ MaxTries \in Nat /\ (a \in Out(q) => q.tries[a] >= 1)
      BY <1>1, OnePlace, LinkAssumption
    <3> QED
      BY <3>1
  <2> QED
    BY <2>1
<1>8. /\ \A a \in Asks : a \in Out(q) => tr[a] = q.tries[a] - 1
      /\ \A a \in Asks : a \notin Out(q) => tr[a] = q.tries[a]
  OBVIOUS
<1> HIDE DEF line, none, tr
<1>9. /\ Q \in Queues /\ Q.waiting = line /\ Q.out = none /\ Q.tries = tr
      /\ Q.retrying = q.retrying
  BY <1>1, <1>2, <1>6, <1>7 DEF Queues
<1> HIDE DEF Q
<1>10. Out(Q) = {} /\ Waiting(Q) = Waiting(q) \cup Out(q)
  <2>1. "fast" \in Lanes /\ "slow" \in Lanes
    BY DEF Lanes
  <2>2. \A l \in Lanes : /\ InSeq(Q.waiting[l]) = InSeq(q.out[l]) \cup InSeq(q.waiting[l])
                         /\ InSeq(Q.out[l]) = {}
    BY <1>3, <1>4, <1>5, <1>9
  <2> QED
    BY <2>1, <2>2 DEF Out, Waiting
<1>11. ASSUME NEW l \in Lanes
       PROVE  LaneOK(Q, l)
  <2>1. LaneOK(q, l)
    BY <1>1
  <2>2. ASSUME NEW a \in InSeq(line[l])
        PROVE  LaneOf[a] = l /\ a \notin q.retrying /\ tr[a] < MaxTries
    <3>1. (a \in InSeq(q.out[l]) \/ a \in InSeq(q.waiting[l])) /\ MaxTries \in Nat
      BY <1>3, <2>2, LinkAssumption
    <3>2. CASE a \in InSeq(q.out[l])
      <4>1. a \in Out(q) /\ a \in Asks
        BY <1>1, <3>2, QueueFacts
      <4>2. tr[a] = q.tries[a] - 1 /\ q.tries[a] \in 0..MaxTries
        BY <1>1, <1>8, <4>1
      <4> QED
        BY <2>1, <3>1, <3>2, <4>2 DEF LaneOK
    <3>3. CASE a \in InSeq(q.waiting[l])
      <4>1. a \in Waiting(q) /\ a \in Asks /\ a \notin Out(q)
        BY <1>1, <3>3, QueueFacts, OnePlace
      <4> QED
        BY <1>8, <2>1, <3>3, <4>1 DEF LaneOK
    <3> QED
      BY <3>1, <3>2, <3>3
  <2>3. 0 <= MaxInFlight[l]
    BY LinkAssumption
  <2> QED
    BY <1>3, <1>4, <1>5, <1>9, <2>2, <2>3 DEF LaneOK
<1>12. \A a \in q.retrying : Q.tries[a] < MaxTries
  <2>1. \A a \in q.retrying : a \notin Out(q) /\ a \in Asks /\ q.tries[a] < MaxTries
    BY <1>1, OnePlace DEF QueuesOK
  <2> QED
    BY <1>8, <1>9, <2>1
<1> QED
  BY <1>8, <1>9, <1>10, <1>11, <1>12 DEF QueuesOK, Placed, Q

\* Nothing is left of what the page has given up.
LEMMA EmptiedOK ==
  ASSUME NEW q, QueuesOK(q)
  PROVE  LET Q == [q EXCEPT !.waiting = [l \in Lanes |-> << >>],
                            !.out = [l \in Lanes |-> << >>], !.retrying = {}]
         IN  QueuesOK(Q) /\ Placed(Q) = {} /\ Out(Q) = {} /\ Q.tries = q.tries
<1> DEFINE none == [l \in Lanes |-> << >>]
           Q == [q EXCEPT !.waiting = none, !.out = none, !.retrying = {}]
<1>1. q \in Queues
  BY DEF QueuesOK
<1>2. << >> \in Seq(Asks) /\ Len(<< >>) = 0 /\ InSeq(<< >>) = {} /\ IsInjective(<< >>)
  BY EmptyFacts
<1>3. none \in [Lanes -> Seq(Asks)] /\ \A l \in Lanes : none[l] = << >>
  BY <1>2
<1> HIDE DEF none
<1>4. /\ Q \in Queues /\ Q.waiting = none /\ Q.out = none /\ Q.tries = q.tries
      /\ Q.retrying = {}
  BY <1>1, <1>3 DEF Queues
<1> HIDE DEF Q
<1>5. \A l \in Lanes : LaneOK(Q, l)
  <2>1. \A l \in Lanes : 0 <= MaxInFlight[l]
    BY LinkAssumption
  <2> QED
    BY <1>2, <1>3, <1>4, <2>1 DEF LaneOK
<1>6. Waiting(Q) = {} /\ Out(Q) = {}
  BY <1>2, <1>3, <1>4 DEF Waiting, Out, Lanes
<1> QED
  BY <1>4, <1>5, <1>6 DEF QueuesOK, Placed, Q, none

-----------------------------------------------------------------------------
(* The lane that is full.                                                  *)

\* Lookups a lane of the PC works on that are still the page's own are no more than the page
\* has out, as each is one try of one of them.
LEMMA HeldOut ==
  ASSUME NEW q \in Queues, NEW l \in Lanes, NEW t,
         NEW S, S \subseteq Jobs,
         \A x \in S : x.ask \in InSeq(q.out[l]) /\ t[x.ask] = x.try /\ ~x.busy
  PROVE  Cardinality(S) \in Nat /\ Cardinality(S) <= Len(q.out[l])
<1> DEFINE s == q.out[l]
           m == Len(s)
           h == [x \in S |-> CHOOSE i \in 1..m : s[i] = x.ask]
<1>1. s \in Seq(Asks) /\ m \in Nat
  BY QueueFacts
<1>2. \A x \in S : \E i \in 1..m : s[i] = x.ask
  BY <1>1, SeqFacts
<1> HIDE DEF m, s
<1>3. h \in [S -> 1..m] /\ \A x \in S : s[h[x]] = x.ask
  BY <1>2
<1> HIDE DEF h
<1>4. IsInjective(h)
  <2>1. ASSUME NEW x \in S, NEW y \in S, h[x] = h[y]
        PROVE  x = y
    <3>1. x.ask = y.ask /\ x.try = y.try /\ x.busy = y.busy
      <4>1. x.ask = y.ask
        BY <1>3, <2>1
      <4>2. x.try = y.try
        BY <4>1
      <4>3. x.busy \in BOOLEAN /\ y.busy \in BOOLEAN /\ ~x.busy /\ ~y.busy
        BY DEF Jobs
      <4> QED
        BY <4>1, <4>2, <4>3
    <3>2. x \in Jobs /\ y \in Jobs
      OBVIOUS
    <3> QED
      BY <3>1, <3>2 DEF Jobs
  <2>2. DOMAIN h = S
    BY <1>3
  <2> QED
    BY <2>1, <2>2 DEF IsInjective
<1>5. h \in Injection(S, 1..m)
  BY <1>3, <1>4 DEF Injection
<1>6. IsFiniteSet(1..m) /\ Cardinality(1..m) = m
  BY <1>1, FS_Interval
<1>7. IsFiniteSet(S) /\ Cardinality(S) <= m
  BY <1>5, <1>6, FS_Injection
<1> QED
  BY <1>7, FS_CardinalityType DEF m, s

\* When the page has no more slots than the PC, a lookup is busy only with a late one there.
LEMMA BusyOK ==
  ASSUME \A l \in Lanes : MaxInFlight[l] <= MaxPending[l],
         NEW q, QueuesOK(q), NEW js, JobsOK(js, q), NEW up, sendWaiting(q, js, up),
         NEW j \in jobs' \ js, j.busy
  PROVE  \E late \in js : /\ LaneOf[late.ask] = LaneOf[j.ask] /\ ~late.busy
                          /\ late.ask \notin Out(queues') \/ queues'.tries[late.ask] # late.try
<1> DEFINE Q == queues'
<1>1. /\ QueuesOK(Q) /\ \A a \in Out(Q) : a \in Out(q) \/ Q.tries[a] > q.tries[a]
  BY SendOK
<1>2. j \in handleQuery(q, Q, js)
  BY DEF sendWaiting
<1>3. PICK l \in Lanes, i \in Int :
        /\ i \in (Len(q.out[l]) + 1)..Len(Q.out[l])
        /\ j = [ask |-> Q.out[l][i], try |-> Q.tries[Q.out[l][i]],
                busy |-> Held(js, l) + i - Len(q.out[l]) > MaxPending[l]]
  BY <1>2, NewJob
<1> HIDE DEF Q
<1>4. /\ Len(q.out[l]) \in Nat /\ Len(Q.out[l]) \in Nat /\ Q.out[l] \in Seq(Asks)
      /\ Len(Q.out[l]) <= MaxInFlight[l] /\ q \in Queues
  BY <1>1, QueueFacts DEF QueuesOK, LaneOK
<1>5. LaneOf[j.ask] = l
  <2>1. i \in 1..Len(Q.out[l]) /\ j.ask = Q.out[l][i]
    BY <1>3, <1>4
  <2>2. j.ask \in InSeq(Q.out[l])
    BY <1>4, <2>1, SeqFacts
  <2> QED
    BY <1>1, <2>2, OnePlace
<1>6. Held(js, l) + i - Len(q.out[l]) > MaxPending[l]
  BY <1>3
<1> DEFINE S == {x \in js : LaneOf[x.ask] = l /\ ~x.busy}
<1>7. SUFFICES ASSUME \A x \in S : x.ask \in Out(Q) /\ Q.tries[x.ask] = x.try
               PROVE  FALSE
  BY <1>5 DEF Q
<1>8. S \subseteq Jobs /\ Held(js, l) = Cardinality(S)
  BY DEF JobsOK, Held
<1>9. \A x \in S : x.ask \in InSeq(q.out[l]) /\ Q.tries[x.ask] = x.try /\ ~x.busy
  <2> SUFFICES ASSUME NEW x \in S
               PROVE  x.ask \in InSeq(q.out[l])
    BY <1>7
  <2>1. /\ x.ask \in Out(Q) /\ Q.tries[x.ask] = x.try /\ x.try <= q.tries[x.ask]
        /\ x.ask \in Asks /\ LaneOf[x.ask] = l
    BY <1>7 DEF JobsOK, Jobs
  <2>2. q.tries[x.ask] \in Int /\ Q.tries[x.ask] \in Int
    <3>1. q \in Queues /\ Q \in Queues /\ MaxTries \in Nat
      BY <1>1, <1>4, LinkAssumption DEF QueuesOK
    <3>2. q.tries \in [Asks -> 0..MaxTries] /\ Q.tries \in [Asks -> 0..MaxTries]
      BY <3>1, QueueFacts
    <3> QED
      BY <2>1, <3>1, <3>2
  <2>3. x.ask \in Out(q)
    BY <1>1, <2>1, <2>2
  <2>4. PICK k \in Lanes : x.ask \in InSeq(q.out[k])
    BY <1>4, <2>3, QueueFacts
  <2>5. k = l
    BY <2>1, <2>4, OnePlace
  <2> QED
    BY <2>4, <2>5
<1> HIDE DEF S
<1>10. Cardinality(S) \in Nat /\ Cardinality(S) <= Len(q.out[l])
  BY <1>4, <1>8, <1>9, HeldOut
<1>11. MaxInFlight[l] \in Nat /\ MaxPending[l] \in Nat /\ MaxInFlight[l] <= MaxPending[l]
  BY LinkAssumption
<1>12. i \in Int /\ i <= Len(Q.out[l])
  BY <1>3, <1>4
<1>13. Held(js, l) \in Nat /\ Held(js, l) <= Len(q.out[l])
  BY <1>8, <1>10
<1> DEFINE h == Held(js, l)
           o == Len(q.out[l])
           p == MaxPending[l]
<1>14. o \in Nat /\ i <= p
  BY <1>4, <1>11, <1>12
<1>15. h \in Nat /\ h <= o /\ h + i - o > p /\ p \in Nat /\ i \in Int
  BY <1>6, <1>11, <1>12, <1>13
<1> HIDE DEF h, o, p
<1> QED
  BY <1>14, <1>15

-----------------------------------------------------------------------------
(* The lookups.                                                            *)

\* The end of lookups that have a place takes it from them, and tells whoever waits.
LEMMA SettleOK ==
  ASSUME NEW P, P \subseteq Asks, LookupsOK(P, waiters, sharing, page),
         NEW as, as \subseteq P, NEW outcome \in {"answered", "rejected"}, settle(as, outcome)
  PROVE  /\ LookupsOK(P \ as, waiters', sharing', page')
         /\ \A a \in Asks : page'[a] = "idle" => page[a] = "idle"
<1>1. /\ waiters \in [Asks -> SUBSET Asks] /\ sharing \in [Keys -> SUBSET Asks]
      /\ page \in [Asks -> {"idle", "asked", "answered", "rejected"}]
      /\ \A a \in Asks : waiters[a] # {} <=> a \in P
      /\ \A a \in Asks : page[a] = "asked" => \E b \in Asks : a \in waiters[b]
      /\ \A k \in Keys : sharing[k] = {a \in Asks : KeyOf[a] = k /\ a \in P}
      /\ \A a, b \in Asks : a \in P /\ b \in P /\ KeyOf[a] = KeyOf[b] /\ KeyOf[a] # NoKey => a = b
  BY DEF LookupsOK
<1>2. /\ waiters' = [a \in Asks |-> IF a \in as THEN {} ELSE waiters[a]]
      /\ sharing' = [k \in Keys |-> IF \E a \in as : KeyOf[a] = k THEN {} ELSE sharing[k]]
      /\ page' = [a \in Asks |-> IF page[a] = "asked" /\ \E b \in as : a \in waiters[b]
                                  THEN outcome ELSE page[a]]
  BY DEF settle
<1>3. /\ waiters' \in [Asks -> SUBSET Asks]
      /\ \A a \in Asks : waiters'[a] = IF a \in as THEN {} ELSE waiters[a]
  BY <1>1, <1>2
<1>4. /\ sharing' \in [Keys -> SUBSET Asks]
      /\ \A k \in Keys : sharing'[k] = IF \E a \in as : KeyOf[a] = k THEN {} ELSE sharing[k]
  BY <1>1, <1>2
<1>5. /\ page' \in [Asks -> {"idle", "asked", "answered", "rejected"}]
      /\ \A a \in Asks : page'[a] = IF page[a] = "asked" /\ \E b \in as : a \in waiters[b]
                                    THEN outcome ELSE page[a]
  BY <1>1, <1>2
<1>6. \A a \in Asks : waiters'[a] # {} <=> a \in P \ as
  BY <1>1, <1>3
<1>7. ASSUME NEW a \in Asks, page'[a] = "asked"
      PROVE  \E b \in Asks : a \in waiters'[b]
  <2>1. page[a] = "asked" /\ ~ \E b \in as : a \in waiters[b]
    BY <1>5, <1>7
  <2>2. PICK b \in Asks : a \in waiters[b]
    BY <1>1, <2>1
  <2> QED
    BY <1>3, <2>1, <2>2
<1>8. ASSUME NEW k \in Keys
      PROVE  sharing'[k] = {a \in Asks : KeyOf[a] = k /\ a \in P \ as}
  <2>1. sharing[k] = {a \in Asks : KeyOf[a] = k /\ a \in P} /\ k # NoKey
    BY <1>1 DEF Keys
  <2>2. CASE \E a \in as : KeyOf[a] = k
    <3>1. PICK a \in as : KeyOf[a] = k
      BY <2>2
    <3>2. \A b \in Asks : KeyOf[b] = k /\ b \in P => b = a
      BY <1>1, <2>1, <3>1
    <3>3. sharing'[k] = {}
      BY <1>4, <2>2
    <3>4. \A b \in Asks : ~(KeyOf[b] = k /\ b \in P \ as)
      BY <3>1, <3>2
    <3> QED
      BY <3>3, <3>4
  <2>3. CASE ~ \E a \in as : KeyOf[a] = k
    <3>1. sharing'[k] = sharing[k]
      BY <1>4, <2>3
    <3>2. \A b \in Asks : KeyOf[b] = k => b \notin as
      BY <2>3
    <3> QED
      BY <2>1, <3>1, <3>2
  <2> QED
    BY <2>2, <2>3
<1>9. \A a \in Asks : page'[a] = "idle" => page[a] = "idle"
  BY <1>5
<1> QED
  BY <1>1, <1>3, <1>4, <1>5, <1>6, <1>7, <1>8, <1>9 DEF LookupsOK

\* The jobs of queues whose tries are the same.
LEMMA JobsKept ==
  ASSUME NEW js, NEW q, JobsOK(js, q), NEW ks \in SUBSET js, NEW Q, Q.tries = q.tries
  PROVE  JobsOK(ks, Q)
BY DEF JobsOK

\* Sending from queues that hold the lookups of P keeps every part of the invariant that
\* speaks of queues.
LEMMA SendKeeps ==
  ASSUME LInv, NEW q, QueuesOK(q), NEW js, js \subseteq jobs, JobsOK(js, q),
         NEW up, sendWaiting(q, js, up),
         \A a \in Asks : page'[a] = "idle" => q.tries[a] = 0 /\ a \notin Placed(q),
         LookupsOK(Placed(q), waiters', sharing', page'),
         LinkTypes', down' => current' # "connected" /\ Out(q) = {} /\ ~up
  PROVE  Keeps
<1> DEFINE Q == queues'
<1>1. /\ QueuesOK(Q) /\ Placed(Q) = Placed(q) /\ JobsOK(jobs', Q)
      /\ ~up => Out(Q) = Out(q)
      /\ \A a \in Asks : a \notin Waiting(q) => Q.tries[a] = q.tries[a]
  BY SendOK
<1>2. QueuesOK(queues)' <=> QueuesOK(Q)
  BY DEF QueuesOK, LaneOK
<1>3. Unasked(queues, page)'
  <2>1. Waiting(q) \subseteq Placed(q)
    BY DEF Placed
  <2>2. \A a \in Asks : page'[a] = "idle" => Q.tries[a] = 0 /\ a \notin Placed(Q)
    BY <1>1, <2>1
  <2> QED
    BY <2>2 DEF Unasked, Placed, Waiting, Out
<1>4. NothingOutWhileDown'
  <2>1. down' => current' # "connected" /\ Out(Q) = {}
    BY <1>1
  <2> QED
    BY <2>1 DEF NothingOutWhileDown, Out
<1>5. LookupsOK(Placed(Q), waiters', sharing', page')
  BY <1>1
<1>6. LInv'
  BY <1>1, <1>2, <1>3, <1>4, <1>5 DEF LInv, LookupsOK, JobsOK, Placed, Waiting, Out
<1>7. ASSUME \A l \in Lanes : MaxInFlight[l] <= MaxPending[l], NEW j \in jobs' \ jobs, j.busy
      PROVE  \E late \in jobs' : /\ LaneOf[late.ask] = LaneOf[j.ask] /\ ~late.busy
                                 /\ Abandoned(late)'
  <2>1. js \subseteq jobs' /\ j \in jobs' \ js
    BY <1>7 DEF sendWaiting
  <2>2. PICK late \in js : /\ LaneOf[late.ask] = LaneOf[j.ask] /\ ~late.busy
                           /\ late.ask \notin Out(queues') \/ queues'.tries[late.ask] # late.try
    BY <1>7, <2>1, BusyOK
  <2>3. Abandoned(late)'
    BY <2>2 DEF Abandoned, Out
  <2> QED
    BY <2>1, <2>2, <2>3
<1> QED
  BY <1>6, <1>7 DEF Keeps, BusyIsForTheLate

LEMMA InvFacts ==
  ASSUME LInv
  PROVE  /\ LinkTypes /\ NothingOutWhileDown /\ QueuesOK(queues)
         /\ LookupsOK(Placed(queues), waiters, sharing, page)
         /\ Unasked(queues, page) /\ JobsOK(jobs, queues) /\ Placed(queues) \subseteq Asks
         /\ page \in [Asks -> {"idle", "asked", "answered", "rejected"}]
BY OnePlace DEF LInv, LookupsOK

\* What leaves the queues, the lookups and the PC's work alone.
LEMMA LinkKeeps ==
  ASSUME LInv, UNCHANGED <<queues, waiters, sharing, page>>, jobs' \subseteq jobs,
         LinkTypes', down' => down /\ (current' = "connected" => current = "connected")
  PROVE  Keeps
<1>1. JobsOK(jobs', queues)
  BY InvFacts DEF JobsOK
<1>2. NothingOutWhileDown'
  BY InvFacts DEF NothingOutWhileDown, Out
<1>3. /\ QueuesOK(queues) /\ LookupsOK(Placed(queues), waiters, sharing, page)
      /\ Unasked(queues, page)
  BY InvFacts
<1> QED
  BY <1>1, <1>2, <1>3 DEF LInv, Keeps, BusyIsForTheLate

LEMMA QueryTold ==
  ASSUME LInv, NEW a \in Asks, queryKept(a) \/ queryRefused(a)
  PROVE  Keeps
<1>1. /\ page[a] = "idle" /\ UNCHANGED <<link, down, queues, waiters, sharing, kept, jobs>>
      /\ page' = [page EXCEPT ![a] = "answered"] \/ page' = [page EXCEPT ![a] = "rejected"]
  BY DEF queryKept, queryRefused
<1>2. /\ page' \in [Asks -> {"idle", "asked", "answered", "rejected"}]
      /\ \A b \in Asks : page'[b] \in {"idle", "asked"} => page'[b] = page[b]
  BY <1>1, InvFacts
<1>3. LookupsOK(Placed(queues), waiters, sharing, page')
  BY <1>2, InvFacts DEF LookupsOK
<1>4. Unasked(queues, page')
  BY <1>2, InvFacts DEF Unasked
<1>5. LinkTypes' /\ NothingOutWhileDown'
  BY <1>1, InvFacts DEF LinkTypes, NothingOutWhileDown, link, Out
<1>6. UNCHANGED <<queues, waiters, sharing, jobs>>
  BY <1>1
<1>7. QueuesOK(queues) /\ JobsOK(jobs, queues)
  BY InvFacts
<1> QED
  BY <1>3, <1>4, <1>5, <1>6, <1>7 DEF LInv, Keeps, BusyIsForTheLate

LEMMA QueryJoins ==
  ASSUME LInv, NEW a \in Asks, queryShared(a)
  PROVE  Keeps
<1>1. /\ page[a] = "idle" /\ UNCHANGED <<link, down, queues, sharing, kept, jobs>>
      /\ page' = [page EXCEPT ![a] = "asked"]
  BY DEF queryShared
<1>2. PICK b \in Shared(a) : waiters' = [waiters EXCEPT ![b] = @ \cup {a}]
  BY DEF queryShared
<1>3. b \in Placed(queues) /\ b \in Asks
  <2>1. KeyOf[a] # NoKey /\ b \in sharing[KeyOf[a]] /\ KeyOf[a] \in Keys
    BY DEF Shared, Keys
  <2> QED
    BY <2>1, InvFacts DEF LookupsOK
<1>4. /\ waiters' \in [Asks -> SUBSET Asks]
      /\ \A c \in Asks : waiters[c] \subseteq waiters'[c]
      /\ \A c \in Asks : c # b => waiters'[c] = waiters[c]
      /\ a \in waiters'[b]
  BY <1>2, <1>3, InvFacts DEF LookupsOK
<1>5. /\ page' \in [Asks -> {"idle", "asked", "answered", "rejected"}]
      /\ \A c \in Asks : c # a => page'[c] = page[c]
      /\ page'[a] = "asked"
  BY <1>1, InvFacts
<1>6. LookupsOK(Placed(queues), waiters', sharing, page')
  <2>1. \A c \in Asks : waiters'[c] # {} <=> c \in Placed(queues)
    BY <1>3, <1>4, InvFacts DEF LookupsOK
  <2>2. ASSUME NEW c \in Asks, page'[c] = "asked"
        PROVE  \E d \in Asks : c \in waiters'[d]
    <3>1. CASE c = a
      BY <1>3, <1>4, <3>1
    <3>2. CASE c # a
      <4>1. PICK d \in Asks : c \in waiters[d]
        BY <1>5, <2>2, <3>2, InvFacts DEF LookupsOK
      <4> QED
        BY <1>4, <4>1
    <3> QED
      BY <3>1, <3>2
  <2> QED
    BY <1>4, <1>5, <2>1, <2>2, InvFacts DEF LookupsOK
<1>7. Unasked(queues, page')
  BY <1>5, InvFacts DEF Unasked
<1>8. LinkTypes' /\ NothingOutWhileDown'
  BY <1>1, InvFacts DEF LinkTypes, NothingOutWhileDown, link, Out
<1>9. queues' = queues /\ sharing' = sharing /\ jobs' = jobs
  BY <1>1
<1>10. QueuesOK(queues) /\ JobsOK(jobs, queues)
  BY InvFacts
<1> QED
  BY <1>6, <1>7, <1>8, <1>9, <1>10 DEF LInv, Keeps, BusyIsForTheLate

LEMMA QueryBegins ==
  ASSUME LInv, NEW a \in Asks, queryNew(a)
  PROVE  Keeps
<1> DEFINE q == Pushed(queues, a)
<1>1. /\ page[a] = "idle" /\ Shared(a) = {} /\ current = "connected" /\ socket # "none"
      /\ waiters' = [waiters EXCEPT ![a] = {a}]
      /\ sharing' = [k \in Keys |-> IF k = KeyOf[a] THEN {a} ELSE sharing[k]]
      /\ sendWaiting(q, jobs, current = "connected" /\ socket # "none")
      /\ page' = [page EXCEPT ![a] = IF SendThrows(q) THEN "rejected" ELSE "asked"]
      /\ UNCHANGED <<link, down, kept>>
  BY DEF queryNew, SendsFrom
<1>2. /\ a \notin Placed(queues) /\ queues.tries[a] = 0 /\ QueuesOK(queues) /\ 0 < MaxTries
  BY <1>1, InvFacts, LinkAssumption DEF Unasked
<1>3. /\ QueuesOK(q) /\ Placed(q) = Placed(queues) \cup {a} /\ Out(q) = Out(queues)
      /\ q.tries = queues.tries
  BY <1>2, PushedOK
<1> HIDE DEF q
<1>4. /\ waiters' \in [Asks -> SUBSET Asks] /\ waiters'[a] = {a}
      /\ \A c \in Asks : c # a => waiters'[c] = waiters[c]
  BY <1>1, InvFacts DEF LookupsOK
<1>5. /\ page' \in [Asks -> {"idle", "asked", "answered", "rejected"}]
      /\ \A c \in Asks : c # a => page'[c] = page[c]
      /\ page'[a] # "idle"
  BY <1>1, InvFacts
<1>6. \A b \in Placed(queues) : KeyOf[a] # NoKey => KeyOf[b] # KeyOf[a]
  <2>1. KeyOf[a] # NoKey => KeyOf[a] \in Keys /\ sharing[KeyOf[a]] = {}
    BY <1>1 DEF Shared, Keys
  <2>2. \A k \in Keys : sharing[k] = {c \in Asks : KeyOf[c] = k /\ c \in Placed(queues)}
    BY InvFacts DEF LookupsOK
  <2> QED
    BY <2>1, <2>2, InvFacts
<1>7. LookupsOK(Placed(q), waiters', sharing', page')
  <2>1. \A c \in Asks : waiters'[c] # {} <=> c \in Placed(q)
    BY <1>3, <1>4, InvFacts DEF LookupsOK
  <2>2. ASSUME NEW c \in Asks, page'[c] = "asked"
        PROVE  \E d \in Asks : c \in waiters'[d]
    <3>1. CASE c = a
      BY <1>4, <3>1
    <3>2. CASE c # a
      <4>1. PICK d \in Asks : c \in waiters[d]
        BY <1>5, <2>2, <3>2, InvFacts DEF LookupsOK
      <4>2. d # a
        BY <1>2, <4>1, InvFacts DEF LookupsOK
      <4> QED
        BY <1>4, <4>1, <4>2
    <3> QED
      BY <3>1, <3>2
  <2>3. ASSUME NEW k \in Keys
        PROVE  sharing'[k] = {c \in Asks : KeyOf[c] = k /\ c \in Placed(q)}
    <3>1. sharing[k] = {c \in Asks : KeyOf[c] = k /\ c \in Placed(queues)} /\ k # NoKey
      BY InvFacts DEF LookupsOK, Keys
    <3>2. CASE k = KeyOf[a]
      <4>1. sharing'[k] = {a}
        BY <1>1, <3>2
      <4>2. \A c \in Asks : KeyOf[c] = k /\ c \in Placed(q) <=> c = a
        BY <1>3, <1>6, <3>1, <3>2
      <4> QED
        BY <4>1, <4>2
    <3>3. CASE k # KeyOf[a]
      <4>1. sharing'[k] = sharing[k]
        BY <1>1, <3>3
      <4>2. \A c \in Asks : KeyOf[c] = k => (c \in Placed(q) <=> c \in Placed(queues))
        BY <1>3, <3>3
      <4> QED
        BY <3>1, <4>1, <4>2
    <3> QED
      BY <3>2, <3>3
  <2>4. sharing' \in [Keys -> SUBSET Asks]
    <3>1. \A k \in Keys : sharing[k] \in SUBSET Asks
      BY InvFacts DEF LookupsOK
    <3> QED
      BY <1>1, <3>1
  <2>5. ASSUME NEW c \in Asks, NEW d \in Asks, c \in Placed(q), d \in Placed(q),
               KeyOf[c] = KeyOf[d], KeyOf[c] # NoKey
        PROVE  c = d
    BY <1>3, <1>6, <2>5, InvFacts DEF LookupsOK
  <2> QED
    BY <1>4, <1>5, <2>1, <2>2, <2>3, <2>4, <2>5 DEF LookupsOK
<1>8. \A c \in Asks : page'[c] = "idle" => q.tries[c] = 0 /\ c \notin Placed(q)
  BY <1>3, <1>5, InvFacts DEF Unasked
<1>9. JobsOK(jobs, q)
  BY <1>3, InvFacts DEF JobsOK
<1>10. LinkTypes' /\ ~down'
  BY <1>1, InvFacts DEF LinkTypes, link, NothingOutWhileDown
<1> QED
  BY <1>1, <1>3, <1>7, <1>8, <1>9, <1>10, SendKeeps

\* A lookup that is out comes to nothing: the page gives it up, or pauses and tries again.
LEMMA FailedKeeps ==
  ASSUME LInv, NEW a \in Out(queues), NEW js \in SUBSET jobs, failed(a, js)
  PROVE  Keeps
<1> DEFINE q == letGo(queues, a)
           up == current = "connected" /\ socket # "none"
<1>1. /\ UNCHANGED <<link, down, kept>> /\ a \in Asks /\ a \in Placed(queues)
      /\ queues.tries \in [Asks -> 0..MaxTries]
  BY InvFacts, QueueFacts DEF failed, Placed, QueuesOK
<1>2. /\ QueuesOK(q) /\ Placed(q) = Placed(queues) \ {a} /\ Out(q) = Out(queues) \ {a}
      /\ Waiting(q) = Waiting(queues) /\ q.tries = queues.tries /\ q.retrying = queues.retrying
  BY InvFacts, LetGoOK
<1>3. LinkTypes' /\ ~down' /\ ~down
  BY <1>1, InvFacts DEF LinkTypes, link, NothingOutWhileDown
<1>4. \/ /\ settle({a}, "rejected")
         /\ \/ queues' = q /\ jobs' = js
            \/ sendWaiting(q, js, up)
      \/ /\ queues.tries[a] < MaxTries
         /\ sendWaiting([q EXCEPT !.retrying = @ \cup {a}], js, up)
         /\ UNCHANGED <<waiters, sharing, page>>
  <2>1. ~GivenUp(a) => queues.tries[a] < MaxTries
    BY <1>1, LinkAssumption DEF GivenUp
  <2> QED
    BY <2>1 DEF failed, SendsFrom
<1> HIDE DEF q, up
<1>5. JobsOK(js, q)
  BY <1>2, InvFacts, JobsKept
<1>6. CASE /\ settle({a}, "rejected")
           /\ (queues' = q /\ jobs' = js) \/ sendWaiting(q, js, up)
  <2>1. /\ LookupsOK(Placed(q), waiters', sharing', page')
        /\ \A c \in Asks : page'[c] = "idle" => page[c] = "idle"
    <3>1. {a} \subseteq Placed(queues) /\ settle({a}, "rejected")
      BY <1>1, <1>6
    <3>2. /\ LookupsOK(Placed(queues) \ {a}, waiters', sharing', page')
          /\ \A c \in Asks : page'[c] = "idle" => page[c] = "idle"
      BY <3>1, InvFacts, SettleOK
    <3> QED
      BY <1>2, <3>2
  <2>2. \A c \in Asks : page'[c] = "idle" => q.tries[c] = 0 /\ c \notin Placed(q)
    BY <1>2, <2>1, InvFacts DEF Unasked
  <2>3. CASE sendWaiting(q, js, up)
    BY <1>2, <1>3, <1>5, <2>1, <2>2, <2>3, SendKeeps
  <2>4. CASE queues' = q /\ jobs' = js
    <3>1. QueuesOK(queues)' /\ JobsOK(jobs, queues)'
      BY <1>2, <1>5, <2>4 DEF QueuesOK, LaneOK, JobsOK
    <3>2. LookupsOK(Placed(queues), waiters, sharing, page)' /\ Unasked(queues, page)'
      BY <2>1, <2>2, <2>4 DEF LookupsOK, Unasked, Placed, Waiting, Out
    <3> QED
      BY <1>3, <2>4, <3>1, <3>2 DEF LInv, NothingOutWhileDown, Keeps, BusyIsForTheLate
  <2> QED
    BY <1>6, <2>3, <2>4
<1>7. CASE /\ queues.tries[a] < MaxTries
           /\ sendWaiting([q EXCEPT !.retrying = @ \cup {a}], js, up)
           /\ UNCHANGED <<waiters, sharing, page>>
  <2> DEFINE r == q.retrying \cup {a}
             Q == [q EXCEPT !.retrying = r]
  <2>1. /\ r \in SUBSET Asks
        /\ \A c \in r : c \notin Waiting(q) /\ c \notin Out(q) /\ q.tries[c] < MaxTries
    <3>1. \A c \in q.retrying : c \notin Waiting(q) /\ c \notin Out(q) /\ q.tries[c] < MaxTries
      BY <1>2, OnePlace DEF QueuesOK
    <3>2. a \notin Waiting(q) /\ a \notin Out(q) /\ q.tries[a] < MaxTries
      BY <1>2, <1>7, InvFacts, OnePlace
    <3>3. q.retrying \in SUBSET Asks
      BY <1>2, QueueFacts DEF QueuesOK
    <3> QED
      BY <1>1, <3>1, <3>2, <3>3
  <2> HIDE DEF r
  <2>2. /\ QueuesOK(Q) /\ Placed(Q) = Waiting(q) \cup Out(q) \cup r
        /\ Q.tries = q.tries /\ Out(Q) = Out(q)
    BY <1>2, <2>1, PauseOK
  <2>3. Placed(Q) = Placed(queues)
    <3>1. Placed(Q) = Placed(q) \cup {a}
      BY <2>2 DEF Placed, r
    <3> QED
      BY <1>1, <1>2, <3>1
  <2>4. sendWaiting(Q, js, up)
    <3>1. [q EXCEPT !.retrying = @ \cup {a}] = Q
      BY <1>2 DEF r, QueuesOK, Queues
    <3> QED
      BY <1>7, <3>1
  <2> HIDE DEF Q
  <2>5. JobsOK(js, Q)
    BY <1>5, <2>2 DEF JobsOK
  <2>6. /\ LookupsOK(Placed(Q), waiters', sharing', page')
        /\ \A c \in Asks : page'[c] = "idle" => Q.tries[c] = 0 /\ c \notin Placed(Q)
    BY <1>2, <1>7, <2>2, <2>3, InvFacts DEF Unasked
  <2> QED
    BY <1>3, <2>2, <2>4, <2>5, <2>6, SendKeeps
<1> QED
  BY <1>4, <1>6, <1>7

\* The pause before another try is over.
LEMMA RetryKeeps ==
  ASSUME LInv, NEW a \in Asks, retryTimer(a)
  PROVE  Keeps
<1> DEFINE r == queues.retrying \ {a}
           q == [queues EXCEPT !.retrying = r]
           Q == Pushed(q, a)
           up == current = "connected" /\ socket # "none"
<1>1. /\ a \in queues.retrying /\ UNCHANGED <<link, down, waiters, sharing, kept, page>>
      /\ queues \in Queues
  BY InvFacts DEF retryTimer, QueuesOK
<1>2. sendWaiting(Q, jobs, up)
  BY <1>1 DEF retryTimer, SendsFrom
<1>3. /\ r \in SUBSET Asks
      /\ \A c \in r : c \notin Waiting(queues) /\ c \notin Out(queues) /\ queues.tries[c] < MaxTries
      /\ a \notin Waiting(queues) /\ a \notin Out(queues) /\ queues.tries[a] < MaxTries
  BY <1>1, InvFacts, QueueFacts, OnePlace DEF QueuesOK
<1>4. a \notin r /\ r \cup {a} = queues.retrying
  BY <1>1
<1> HIDE DEF r
<1>5. /\ QueuesOK(q) /\ Placed(q) = Waiting(queues) \cup Out(queues) \cup r
      /\ q.tries = queues.tries /\ Out(q) = Out(queues)
  BY <1>3, InvFacts, PauseOK
<1> HIDE DEF q
<1>6. a \notin Placed(q) /\ q.tries[a] < MaxTries
  BY <1>3, <1>4, <1>5
<1>7. /\ QueuesOK(Q) /\ Placed(Q) = Placed(q) \cup {a} /\ Out(Q) = Out(q) /\ Q.tries = q.tries
  BY <1>5, <1>6, PushedOK
<1>8. Placed(Q) = Placed(queues)
  BY <1>4, <1>5, <1>7 DEF Placed
<1> HIDE DEF Q
<1>9. JobsOK(jobs, Q)
  BY <1>5, <1>7, InvFacts DEF JobsOK
<1>10. /\ LookupsOK(Placed(Q), waiters', sharing', page')
       /\ \A c \in Asks : page'[c] = "idle" => Q.tries[c] = 0 /\ c \notin Placed(Q)
  BY <1>1, <1>5, <1>7, <1>8, InvFacts DEF Unasked
<1>11. LinkTypes' /\ (down' => current' # "connected" /\ Out(Q) = {} /\ ~up)
  BY <1>1, <1>5, <1>7, InvFacts DEF LinkTypes, link, NothingOutWhileDown
<1> QED
  BY <1>2, <1>7, <1>9, <1>10, <1>11, SendKeeps

\* The PC's word on a lookup: the one that is out, or one the page has stopped waiting for.
LEMMA AnswerKeeps ==
  ASSUME LInv, NEW j \in jobs, answerError(j) \/ answerQuery(j)
  PROVE  Keeps
<1>1. CASE /\ jobs' = jobs \ {j}
           /\ UNCHANGED <<link, down, queues, waiters, sharing, kept, page>>
  BY <1>1, InvFacts, LinkKeeps DEF LinkTypes, link
<1>2. CASE j.ask \in Out(queues) /\ failed(j.ask, jobs \ {j})
  BY <1>2, FailedKeeps
<1>3. CASE j.ask \in Out(queues) /\ answerQuery(j) /\ queues.tries[j.ask] = j.try
  <2> DEFINE a == j.ask
             q == letGo(queues, a)
             up == current = "connected" /\ socket # "none"
  <2>1. PICK worth \in BOOLEAN :
          /\ kept' = (kept \cup {c \in {a} : worth /\ KeyOf[c] # NoKey}) \cap AfterRefresh(a)
          /\ settle({a}, "answered") /\ SendsFrom(q, jobs \ {j}) /\ UNCHANGED <<link, down>>
    BY <1>3 DEF answerQuery
  <2> HIDE DEF a
  <2>2. a \in Out(queues)
    BY <1>3 DEF a
  <2>3. /\ QueuesOK(q) /\ Placed(q) = Placed(queues) \ {a} /\ Out(q) = Out(queues) \ {a}
        /\ q.tries = queues.tries /\ a \in Asks /\ a \in Placed(queues)
    BY <2>2, InvFacts, LetGoOK DEF Placed
  <2>4. kept' \in SUBSET Asks
    <3>1. AfterRefresh(a) \in SUBSET Asks
      BY DEF AfterRefresh
    <3> QED
      BY <2>1, <3>1
  <2>5. LinkTypes' /\ ~down'
    BY <2>1, <2>2, <2>4, InvFacts DEF LinkTypes, link, NothingOutWhileDown
  <2>6. sendWaiting(q, jobs \ {j}, up)
    BY <2>1 DEF SendsFrom
  <2> HIDE DEF q, up
  <2>7. /\ LookupsOK(Placed(q), waiters', sharing', page')
        /\ \A c \in Asks : page'[c] = "idle" => page[c] = "idle"
    <3>1. {a} \subseteq Placed(queues) /\ settle({a}, "answered")
      BY <2>1, <2>3
    <3>2. /\ LookupsOK(Placed(queues) \ {a}, waiters', sharing', page')
          /\ \A c \in Asks : page'[c] = "idle" => page[c] = "idle"
      BY <3>1, InvFacts, SettleOK
    <3> QED
      BY <2>3, <3>2
  <2>8. \A c \in Asks : page'[c] = "idle" => q.tries[c] = 0 /\ c \notin Placed(q)
    BY <2>3, <2>7, InvFacts DEF Unasked
  <2>9. JobsOK(jobs \ {j}, q)
    BY <2>3, InvFacts DEF JobsOK
  <2> QED
    BY <2>3, <2>5, <2>6, <2>7, <2>8, <2>9, SendKeeps
<1> QED
  BY <1>1, <1>2, <1>3 DEF answerError, answerQuery

-----------------------------------------------------------------------------
(* The link.                                                               *)

LEMMA SnapshotKeeps ==
  ASSUME LInv, handleSnapshot
  PROVE  Keeps
<1>1. /\ sendWaiting(queues, jobs, TRUE) /\ ~down'
      /\ UNCHANGED <<waiters, sharing, page>>
  BY DEF handleSnapshot
<1>2. LinkTypes'
  BY InvFacts DEF handleSnapshot, LinkTypes
<1>3. \A a \in Asks : page'[a] = "idle" => queues.tries[a] = 0 /\ a \notin Placed(queues)
  BY <1>1, InvFacts DEF Unasked
<1>4. LookupsOK(Placed(queues), waiters', sharing', page')
  BY <1>1, InvFacts
<1>5. QueuesOK(queues) /\ JobsOK(jobs, queues)
  BY InvFacts
<1> DEFINE q == queues
           js == jobs
<1>6. /\ QueuesOK(q) /\ JobsOK(js, q) /\ sendWaiting(q, js, TRUE)
      /\ \A a \in Asks : page'[a] = "idle" => q.tries[a] = 0 /\ a \notin Placed(q)
      /\ LookupsOK(Placed(q), waiters', sharing', page') /\ js \subseteq jobs
  BY <1>1, <1>3, <1>4, <1>5
<1> HIDE DEF q, js
<1> QED
  BY <1>1, <1>2, <1>6, SendKeeps

LEMMA CloseKeeps ==
  ASSUME LInv, onclose
  PROVE  Keeps
<1> DEFINE q == holdLookups(queues)
<1>1. /\ queues' = q /\ jobs' = {} /\ UNCHANGED <<waiters, sharing, page, token, known, kept>>
  BY DEF onclose
<1>2. /\ QueuesOK(q) /\ Placed(q) = Placed(queues) /\ Out(q) = {}
      /\ \A a \in Asks : a \notin Out(queues) => q.tries[a] = queues.tries[a]
  BY InvFacts, HoldOK
<1> HIDE DEF q
<1>3. LinkTypes' /\ current' # "connected"
  <2>1. code' = "none" /\ socket' = "none" /\ retry' \in BOOLEAN /\ down' \in BOOLEAN
    BY InvFacts DEF onclose, LinkTypes, HasLookups
  <2>2. current' \in {"needs-pairing", "offline", "wrong-code"}
    BY DEF onclose
  <2> QED
    BY <1>1, <2>1, <2>2, InvFacts DEF LinkTypes
<1>4. \A a \in Asks : page[a] = "idle" => q.tries[a] = 0 /\ a \notin Placed(q)
  BY <1>2, InvFacts DEF Unasked, Placed
<1>5. LookupsOK(Placed(q), waiters, sharing, page)
  BY <1>2, InvFacts
<1>6. QueuesOK(queues)' /\ NothingOutWhileDown'
  BY <1>1, <1>2, <1>3 DEF QueuesOK, LaneOK, NothingOutWhileDown, Out
<1>7. LookupsOK(Placed(queues), waiters, sharing, page)' /\ Unasked(queues, page)'
  BY <1>1, <1>4, <1>5 DEF LookupsOK, Unasked, Placed, Waiting, Out
<1> QED
  BY <1>1, <1>3, <1>6, <1>7 DEF LInv, JobsOK, Keeps, BusyIsForTheLate

LEMMA WatchKeeps ==
  ASSUME LInv, checkHeard
  PROVE  Keeps
<1>1. PICK stale \in BOOLEAN, silent \in BOOLEAN :
        /\ IF stale THEN down /\ failAllLookups
                    ELSE UNCHANGED <<down, queues, waiters, sharing, page>>
        /\ IF silent THEN /\ current = "connected" /\ socket # "live" /\ current' = "offline"
                          /\ IF CanResume THEN connect /\ retry' = FALSE
                                          ELSE UNCHANGED <<socket, jobs, retry>>
                     ELSE UNCHANGED <<current, socket, jobs, retry>>
        /\ UNCHANGED <<code, token, known, kept>>
  BY DEF checkHeard
<1>2. /\ current' = "offline" \/ current' = current
      /\ socket' = "connecting" \/ socket' = socket
      /\ jobs' = {} \/ jobs' = jobs
      /\ retry' = FALSE \/ retry' = retry
      /\ down' = FALSE \/ down' = down
      /\ UNCHANGED <<code, token, known, kept>>
  BY <1>1 DEF connect, failAllLookups
<1>3. LinkTypes'
  BY <1>2, InvFacts DEF LinkTypes
<1>4. CASE ~stale
  <2>1. UNCHANGED <<down, queues, waiters, sharing, page>>
    BY <1>1, <1>4
  <2> QED
    BY <1>2, <1>3, <2>1, LinkKeeps
<1>5. CASE stale
  <2> DEFINE q == [queues EXCEPT !.waiting = [l \in Lanes |-> << >>],
                                 !.out = [l \in Lanes |-> << >>], !.retrying = {}]
             P == Placed(queues)
  <2>1. /\ down /\ ~down' /\ queues' = q
        /\ settle(Waiting(queues) \cup queues.retrying, "rejected")
    BY <1>1, <1>5 DEF failAllLookups
  <2>2. Waiting(queues) \cup queues.retrying = P
    BY <2>1, InvFacts DEF NothingOutWhileDown, Placed
  <2>3. QueuesOK(q) /\ Placed(q) = {} /\ Out(q) = {} /\ q.tries = queues.tries
    BY InvFacts, EmptiedOK
  <2> HIDE DEF q
  <2>4. /\ LookupsOK({}, waiters', sharing', page')
        /\ \A a \in Asks : page'[a] = "idle" => page[a] = "idle"
    <3>1. P \subseteq Asks /\ P \subseteq P /\ LookupsOK(P, waiters, sharing, page)
          /\ settle(P, "rejected")
      BY <2>1, <2>2, InvFacts
    <3> HIDE DEF P
    <3>2. /\ LookupsOK(P \ P, waiters', sharing', page')
          /\ \A a \in Asks : page'[a] = "idle" => page[a] = "idle"
      BY <3>1, SettleOK
    <3>3. P \ P = {}
      OBVIOUS
    <3> QED
      BY <3>2, <3>3
  <2>5. QueuesOK(queues)' /\ NothingOutWhileDown'
    BY <2>1, <2>3 DEF QueuesOK, LaneOK, NothingOutWhileDown
  <2>6. \A a \in Asks : page'[a] = "idle" => q.tries[a] = 0 /\ a \notin Placed(q)
    BY <2>3, <2>4, InvFacts DEF Unasked
  <2>7. LookupsOK(Placed(q), waiters', sharing', page')
    BY <2>3, <2>4
  <2>8. LookupsOK(Placed(queues), waiters, sharing, page)' /\ Unasked(queues, page)'
    BY <2>1, <2>6, <2>7 DEF LookupsOK, Unasked, Placed, Waiting, Out
  <2>9. JobsOK(jobs, queues)'
    BY <1>2, <2>1, <2>3, InvFacts DEF JobsOK
  <2> QED
    BY <1>2, <1>3, <2>5, <2>8, <2>9 DEF LInv, Keeps, BusyIsForTheLate
<1> QED
  BY <1>4, <1>5

LEMMA HandshakeKeeps ==
  ASSUME LInv,
         open \/ paired \/ handleDenied \/ reconnect \/ resume \/ pair \/ revoke \/ die
  PROVE  Keeps
<1>1. UNCHANGED <<queues, waiters, sharing, page>> /\ (jobs' = {} \/ jobs' = jobs)
  BY DEF open, paired, handleDenied, reconnect, resume, pair, revoke, die, connect
<1>2. UNCHANGED down /\ (current' = "connected" => current = "connected")
  BY DEF open, paired, handleDenied, reconnect, resume, pair, revoke, die
<1>3. LinkTypes'
  <2>1. /\ socket' \in {"connecting", "greeted", "paired", "closing", "dead"} \/ socket' = socket
        /\ current' \in {"wrong-code", "needs-pairing", "starting"} \/ current' = current
        /\ code' \in {"none", "right", "wrong"} \/ code' = code
        /\ known' \in BOOLEAN \/ known' = known
        /\ retry' = FALSE \/ retry' = retry
        /\ UNCHANGED kept
    BY DEF open, paired, handleDenied, reconnect, resume, pair, revoke, die, connect
  <2>2. token' \in BOOLEAN
    BY InvFacts DEF open, paired, handleDenied, reconnect, resume, pair, revoke, die, LinkTypes
  <2>3. LinkTypes
    BY InvFacts
  <2>4. socket' \in {"none", "connecting", "greeted", "paired", "live", "dead", "closing"}
    BY <2>1, <2>3 DEF LinkTypes
  <2>5. current' \in {"starting", "needs-pairing", "wrong-code", "connected", "offline"}
    BY <2>1, <2>3 DEF LinkTypes
  <2>6. code' \in {"none", "right", "wrong"}
    BY <2>1, <2>3 DEF LinkTypes
  <2>7. known' \in BOOLEAN /\ retry' \in BOOLEAN /\ down' \in BOOLEAN
    BY <1>2, <2>1, <2>3 DEF LinkTypes
  <2>8. kept' \in SUBSET Asks
    BY <2>1, <2>3 DEF LinkTypes
  <2> QED
    BY <2>2, <2>4, <2>5, <2>6, <2>7, <2>8 DEF LinkTypes
<1>4. jobs' \subseteq jobs
  BY <1>1
<1>5. down' => down
  BY <1>2
<1> QED
  BY <1>1, <1>2, <1>3, <1>4, <1>5, LinkKeeps

LEMMA InitInv ==
  ASSUME Init
  PROVE  LInv
<1>1. << >> \in Seq(Asks) /\ Len(<< >>) = 0 /\ InSeq(<< >>) = {} /\ IsInjective(<< >>)
  BY EmptyFacts
<1> DEFINE none == [l \in Lanes |-> << >>]
<1>2. none \in [Lanes -> Seq(Asks)] /\ \A l \in Lanes : none[l] = << >>
  BY <1>1
<1>3. queues = [waiting |-> none, out |-> none, retrying |-> {}, tries |-> [a \in Asks |-> 0]]
  BY DEF Init
<1> HIDE DEF none
<1>4. /\ queues \in Queues /\ queues.waiting = none /\ queues.out = none
      /\ queues.retrying = {} /\ \A a \in Asks : queues.tries[a] = 0
  <2>1. [a \in Asks |-> 0] \in [Asks -> 0..MaxTries]
    BY LinkAssumption
  <2> QED
    BY <1>2, <1>3, <2>1 DEF Queues
<1>5. \A l \in Lanes : LaneOK(queues, l)
  <2>1. \A l \in Lanes : 0 <= MaxInFlight[l]
    BY LinkAssumption
  <2> QED
    BY <1>1, <1>2, <1>4, <2>1 DEF LaneOK
<1>6. Waiting(queues) = {} /\ Out(queues) = {} /\ Placed(queues) = {}
  BY <1>1, <1>2, <1>4 DEF Waiting, Out, Placed, Lanes
<1>7. LookupsOK(Placed(queues), waiters, sharing, page)
  BY <1>6 DEF Init, LookupsOK
<1>8. LinkTypes /\ NothingOutWhileDown
  BY <1>6 DEF Init, LinkTypes, NothingOutWhileDown
<1> QED
  BY <1>4, <1>5, <1>6, <1>7, <1>8 DEF LInv, QueuesOK, Unasked, JobsOK, Init

LEMMA NextInv ==
  ASSUME LInv, [Next]_vars
  PROVE  Keeps
<1>1. CASE Lookup
  BY <1>1, QueryTold, QueryJoins, QueryBegins, RetryKeeps, AnswerKeeps, FailedKeeps
  DEF Lookup, Ask, timedOut
<1>2. CASE open \/ paired \/ handleDenied \/ reconnect \/ resume \/ pair \/ revoke \/ die
  BY <1>2, HandshakeKeeps
<1>3. CASE onclose
  BY <1>3, CloseKeeps
<1>4. CASE handleSnapshot
  BY <1>4, SnapshotKeeps
<1>5. CASE checkHeard
  BY <1>5, WatchKeeps
<1>6. CASE UNCHANGED vars
  BY <1>6, InvFacts, LinkKeeps DEF vars, link, LinkTypes
<1> QED
  BY <1>1, <1>2, <1>3, <1>4, <1>5, <1>6 DEF Next, Ends, Greeting, Trouble

\* A line without repetitions holds a lookup once or not at all.
LEMMA TimesFacts ==
  ASSUME NEW s \in Seq(Asks), IsInjective(s), NEW a
  PROVE  Times(s, a) = IF a \in InSeq(s) THEN 1 ELSE 0
<1> DEFINE D == {i \in DOMAIN s : s[i] = a}
<1>1. CASE a \notin InSeq(s)
  <2>1. D = {}
    BY <1>1 DEF InSeq
  <2> QED
    BY <1>1, <2>1, FS_EmptySet DEF Times
<1>2. CASE a \in InSeq(s)
  <2>1. PICK i \in DOMAIN s : s[i] = a
    BY <1>2 DEF InSeq
  <2>2. D = {i}
    BY <2>1 DEF IsInjective
  <2> QED
    BY <1>2, <2>2, FS_Singleton DEF Times
<1> QED
  BY <1>1, <1>2

LEMMA OnePlaceEach ==
  ASSUME LInv
  PROVE  EveryLookupHasAPlace
<1> DEFINE w(l) == queues.waiting[l]
           o(l) == queues.out[l]
<1>1. /\ QueuesOK(queues) /\ queues \in Queues /\ LookupsOK(Placed(queues), waiters, sharing, page)
      /\ \A l \in Lanes : LaneOK(queues, l)
      /\ \A l \in Lanes : w(l) \in Seq(Asks) /\ o(l) \in Seq(Asks)
      /\ "fast" \in Lanes /\ "slow" \in Lanes
  BY InvFacts, QueueFacts DEF QueuesOK, Lanes
<1>2. \A l \in Lanes : IsInjective(w(l)) /\ IsInjective(o(l))
  BY <1>1 DEF LaneOK
<1> HIDE DEF w, o
<1>3. ASSUME NEW a \in Asks
      PROVE  Places(a) = IF waiters[a] = {} THEN 0 ELSE 1
  <2>1. \A l \in Lanes : /\ Times(w(l), a) = IF a \in InSeq(w(l)) THEN 1 ELSE 0
                         /\ Times(o(l), a) = IF a \in InSeq(o(l)) THEN 1 ELSE 0
    BY <1>1, <1>2, TimesFacts
  <2>2. Places(a) = Times(w("fast"), a) + Times(w("slow"), a)
                    + Times(o("fast"), a) + Times(o("slow"), a)
                    + (IF a \in queues.retrying THEN 1 ELSE 0)
    BY DEF Places, w, o
  <2>3. /\ Waiting(queues) = InSeq(w("fast")) \cup InSeq(w("slow"))
        /\ Out(queues) = InSeq(o("fast")) \cup InSeq(o("slow"))
    BY DEF Waiting, Out, w, o
  <2>4. /\ Waiting(queues) \cap Out(queues) = {}
        /\ queues.retrying \cap Waiting(queues) = {} /\ queues.retrying \cap Out(queues) = {}
        /\ a \in InSeq(w("fast")) \/ a \in InSeq(o("fast")) => LaneOf[a] = "fast"
        /\ a \in InSeq(w("slow")) \/ a \in InSeq(o("slow")) => LaneOf[a] = "slow"
    BY <1>1, OnePlace DEF w, o
  <2>5. waiters[a] = {} <=> a \notin Placed(queues)
    BY <1>1 DEF LookupsOK
  <2>6. /\ Times(w("fast"), a) = IF a \in InSeq(w("fast")) THEN 1 ELSE 0
        /\ Times(w("slow"), a) = IF a \in InSeq(w("slow")) THEN 1 ELSE 0
        /\ Times(o("fast"), a) = IF a \in InSeq(o("fast")) THEN 1 ELSE 0
        /\ Times(o("slow"), a) = IF a \in InSeq(o("slow")) THEN 1 ELSE 0
    BY <1>1, <2>1
  <2>7. "fast" # "slow"
    OBVIOUS
  <2> HIDE DEF Placed
  <2> QED
    BY <2>2, <2>3, <2>4, <2>5, <2>6, <2>7 DEF Placed
<1>4. \A k \in Keys : sharing[k] = {a \in Asks : KeyOf[a] = k /\ waiters[a] # {}}
  BY <1>1 DEF LookupsOK
<1> QED
  BY <1>1, <1>3, <1>4 DEF EveryLookupHasAPlace, LookupsOK

-----------------------------------------------------------------------------

CountOK == troubles \in 0..MaxTroubles

THEOREM LinkHolds == Spec => [](LInv /\ CountOK)
<1>1. Init => LInv /\ CountOK
  <2>1. Init => CountOK
    BY LinkAssumption DEF Init, CountOK
  <2> QED
    BY <2>1, InitInv
<1>2. LInv /\ CountOK /\ [Next]_vars => (LInv /\ CountOK)'
  <2>1. CountOK /\ [Next]_vars => CountOK'
    BY LinkAssumption DEF CountOK, Next, vars
  <2> QED
    BY <2>1, NextInv DEF Keeps
<1> QED
  BY <1>1, <1>2, PTL DEF Spec

\* The link and its lookups keep their types: no more tries than MAX_TRIES, nothing in a lane
\* or under a key that is not an ask.
THEOREM LinkTypesHold == Spec => []TypeOK
<1>1. LInv /\ CountOK => TypeOK
  BY DEF LInv, CountOK, TypeOK, LinkTypes, QueuesOK, LookupsOK, JobsOK
<1> QED
  BY <1>1, LinkHolds, PTL

\* Whatever befalls the link, no lookup is lost or doubled, nobody who asked is forgotten, and
\* a key leads to the lookup that is under way for it.
THEOREM LookupsKeepTheirPlaces == Spec => []EveryLookupHasAPlace
<1>1. LInv /\ CountOK => EveryLookupHasAPlace
  BY OnePlaceEach
<1> QED
  BY <1>1, LinkHolds, PTL

\* With no more slots on the page than on the PC, as MAX_IN_FLIGHT and MAX_PENDING have them,
\* a lookup is refused as busy only for a late one of its lane.
THEOREM BusyOnlyWithLate ==
  ASSUME \A l \in Lanes : MaxInFlight[l] <= MaxPending[l]
  PROVE  Spec => BusyIsTheLate
<1>1. LInv /\ CountOK /\ [Next]_vars =>
        [\A j \in jobs' \ jobs :
           j.busy => \E late \in jobs' : /\ LaneOf[late.ask] = LaneOf[j.ask] /\ ~late.busy
                                         /\ Abandoned(late)']_vars
  BY NextInv DEF Keeps, BusyIsForTheLate
<1> QED
  BY <1>1, LinkHolds, PTL DEF Spec, BusyIsTheLate
=============================================================================
