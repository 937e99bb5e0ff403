----------------------------- MODULE NetworkFeed -----------------------------
(***************************************************************************)
(* The online network's feed: NetworkFeedService of                        *)
(* src/main/online/NetworkFeedService.ts with the steps of                 *)
(* feed-poll-step.ts and traffic-layers.ts, which reads the chosen         *)
(* network while anything needs it and never more often than the networks  *)
(* allow.                                                                  *)
(*                                                                         *)
(* Time passes in ticks of a few seconds.  A time the code remembers is its *)
(* age here, up to the age after which it no longer matters, and a timer   *)
(* is the ticks it has left; time stands still while a timer is due.  Of a *)
(* feed only its network is kept, and of what is published the traffic:    *)
(* the pilot's own status, the stations and the ATC layer are worked out   *)
(* from the same feed at the same moments.                                 *)
(***************************************************************************)
EXTENDS Naturals, Sequences, FiniteSetsExt

CONSTANTS Floor,        \* FEED_FLOOR_MS and TRAFFIC_INTERVAL_MS
          SlowInterval, \* STATUS_INTERVAL_MS and ATC_INTERVAL_MS
          Backoff,      \* BACKOFF_S
          Timeout,      \* FEED_TIMEOUT_MS
          StaleAfter,   \* STALE_AFTER_MS
          AtisFresh,    \* ATIS_FRESH_MS
          AtisWait,     \* ATIS_WAIT_MS
          MaxChanges,   \* bound on the changes of settings, switches and flights
          MaxAsks,      \* bound on the ATIS requests
          None

ASSUME FeedAssumption ==
  /\ Floor \in Nat \ {0} /\ SlowInterval \in Nat /\ SlowInterval >= Floor
  /\ Backoff \in Seq(Nat) /\ Len(Backoff) >= 2
  /\ Timeout \in Nat \ {0} /\ StaleAfter \in Nat /\ AtisWait \in Nat
  /\ AtisFresh \in Nat
  /\ MaxChanges \in Nat /\ MaxAsks \in Nat
  /\ None \notin Nat /\ None \notin {"vatsim", "ivao"}

\* How the code's times stand to each other, in seconds: a request gives up (10) before the
\* floor (15) and an ATIS wait (27) are over, and the back-off (30, 60, ...) is never shorter
\* than the floor, nor its second step than the time a failing feed is kept (45).
ASSUME TimesAssumption ==
  /\ Timeout < Floor /\ Timeout < AtisWait
  /\ Floor <= Backoff[1] /\ Backoff[1] <= Backoff[2] /\ StaleAfter <= Backoff[2]

VARIABLES set,        \* the network and VID chosen, the layer's switch, and whether ATC or a flight needs the feed
          svc,        \* the fields of the service, and the traffic it last published
          requests,   \* the requests on their way
          answer,     \* the feed an ATIS request has just been answered from, if any
          quiet,      \* since a request was last started, by the networks' own clock
          changes, asks

vars == <<set, svc, requests, answer, quiet, changes, asks>>

OnlineNetworks == {"vatsim", "ivao"}
Settings == [network : OnlineNetworks \cup {None}, vid : BOOLEAN, networkOn : BOOLEAN, slow : BOOLEAN]
\* How old a feed can be and still answer an ATIS request: a wait can end while the read after
\* the second failure is still on its way.
Oldest == Max({StaleAfter + Backoff[2] + Timeout, AtisFresh})
Longest == Max({Backoff[i] : i \in DOMAIN Backoff} \cup {SlowInterval})

\* The service's fields.
Services ==
  [network : OnlineNetworks \cup {None}, inFlight : BOOLEAN,   \* PollState
   lastStart : 0..SlowInterval, failures : 0..Len(Backoff), retry : 0..Longest,
   timer : 0..Longest \cup {None}, staleTimer : 0..StaleAfter \cup {None},
   snapshot : OnlineNetworks \cup {None}, lastOk : 0..(Oldest + 1) \cup {None},
   wantedSince : 0..StaleAfter \cup {None},
   atisWaiters : SUBSET [network : OnlineNetworks, age : 0..AtisWait],
   traffic : [state : {"noNetwork", "needsVid", "off", "unavailable", "shown"},
              of : OnlineNetworks \cup {None}]]

TypeOK ==
  /\ set \in Settings /\ svc \in Services
  /\ requests \in SUBSET [network : OnlineNetworks, age : 0..Timeout, current : BOOLEAN]
  /\ answer \in [network : OnlineNetworks, age : 0..(Oldest + 1)] \cup {None}
  /\ quiet \in 0..Floor
  /\ changes \in 0..MaxChanges /\ asks \in 0..MaxAsks

-----------------------------------------------------------------------------
(* What is wanted, and when to read (feed-poll-step.ts, traffic-layers.ts).*)

NetworkChosen(st) == st.network # None /\ (st.network = "ivao" => st.vid)
DrawNetwork(st) == st.networkOn /\ NetworkChosen(st)

wanted(st, s) ==
  IF ~NetworkChosen(st) THEN "none"
  ELSE IF DrawNetwork(st) THEN "traffic"
  ELSE IF s.atisWaiters # {} THEN "once"
  ELSE IF st.slow THEN "slow" ELSE "none"

Left(interval, age) == IF age >= interval THEN 0 ELSE interval - age

\* Mutant: another network is read as if nothing had been asked of any.
OfNetwork_Forgets(s, n) ==
  IF s.network = n THEN s
  ELSE [s EXCEPT !.network = n, !.inFlight = FALSE, !.failures = 0, !.retry = 0,
                 !.lastStart = SlowInterval]

\* Mutant: what is in flight for another network still counts.
OfNetwork_InFlight(s, n) ==
  IF s.network = n THEN s ELSE [s EXCEPT !.network = n, !.failures = 0, !.retry = 0]

\* Another network forgets the failures and what is in flight, not when that started.
OfNetwork(s, n) ==
  IF s.network = n THEN s
  ELSE [s EXCEPT !.network = n, !.inFlight = FALSE, !.failures = 0, !.retry = 0]

\* Mutant: the back-off comes on top of the interval.
Due_Sum(s, kind) == Left(IF kind = "slow" THEN SlowInterval ELSE Floor, s.lastStart) + s.retry

\* How long until the next request is due.
Due(s, kind) ==
  Max({Left(IF kind = "slow" THEN SlowInterval ELSE Floor, s.lastStart), s.retry})

\* tick(): stepPoll, and a request or a timer.  A request that is not started starts none.
Idles(st, s) ==
  LET p == OfNetwork(s, st.network)
  IN  wanted(st, s) = "none" \/ p.inFlight \/ Due(p, wanted(st, s)) > 0

tick(st, s) ==
  LET p == [OfNetwork(s, st.network) EXCEPT !.timer = None]
      kind == wanted(st, s)
  IN  IF kind = "none" \/ p.inFlight THEN p
      ELSE IF Due(p, kind) > 0 THEN [p EXCEPT !.timer = Due(p, kind)]
      ELSE [p EXCEPT !.inFlight = TRUE, !.lastStart = 0]

\* The service becomes s and looks whether to read; rs are the requests on their way.
Ticked(st, s, rs) ==
  /\ svc' = tick(st, s)
  /\ IF Idles(st, s) THEN requests' = rs /\ UNCHANGED quiet
     ELSE /\ requests' = rs \cup {[network |-> st.network, age |-> 0, current |-> TRUE]}
          /\ quiet' = 0

-----------------------------------------------------------------------------
(* What is published and answered.                                         *)

publishTraffic(st, s, unavailable) ==
  [s EXCEPT !.traffic =
     [state |-> IF st.network = None THEN "noNetwork"
                ELSE IF ~NetworkChosen(st) THEN "needsVid"
                ELSE IF ~st.networkOn THEN "off"
                ELSE IF unavailable THEN "unavailable" ELSE "shown",
      of |-> IF DrawNetwork(st) /\ ~unavailable THEN s.snapshot ELSE None]]

heldSnapshot(s, n) == s.snapshot # None /\ s.snapshot = n

Held(s, n) == IF heldSnapshot(s, n) THEN [network |-> n, age |-> s.lastOk] ELSE None

\* answerWaiters(): all of them, from the feed held when the read gave one.
answerWaiters(st, s, readOk) ==
  answer' = IF s.atisWaiters # {} /\ readOk /\ NetworkChosen(st)
              THEN Held(s, st.network) ELSE None

\* Mutant: what is no longer shown is still held.
markUnavailable_Keeps(st, s) == publishTraffic(st, [s EXCEPT !.staleTimer = None], TRUE)

markUnavailable(st, s) ==
  publishTraffic(st, [s EXCEPT !.staleTimer = None, !.snapshot = None], TRUE)

onSuccess(st, s, n) ==
  publishTraffic(st, [s EXCEPT !.snapshot = n, !.lastOk = 0, !.inFlight = FALSE, !.failures = 0,
                               !.retry = 0, !.staleTimer = None], FALSE)

onFailure(st, s) ==
  LET n == Min({s.failures + 1, Len(Backoff)})
      failed == [s EXCEPT !.inFlight = FALSE, !.failures = n, !.retry = Backoff[n]]
      since == IF s.lastOk # None THEN s.lastOk ELSE IF s.wantedSince # None THEN s.wantedSince ELSE 0
  IN  IF Left(StaleAfter, since) = 0 THEN markUnavailable(st, failed)
      ELSE IF s.staleTimer = None THEN [failed EXCEPT !.staleTimer = Left(StaleAfter, since)]
      ELSE failed

-----------------------------------------------------------------------------

Init ==
  /\ set \in Settings
  /\ svc = [network |-> None, inFlight |-> FALSE, lastStart |-> SlowInterval, failures |-> 0,
            retry |-> 0, timer |-> 0, staleTimer |-> None, snapshot |-> None, lastOk |-> None,
            wantedSince |-> None, atisWaiters |-> {},
            traffic |-> [state |-> "noNetwork", of |-> None]]
  /\ requests = {} /\ answer = None /\ quiet = Floor
  /\ changes = 0 /\ asks = 0

\* Mutant: only what may not be read without a VID is dropped.
Unusable_ByVid(st) ==
  st.network = "ivao" /\ ~st.vid /\ (svc.snapshot # None \/ svc.inFlight)

\* Another network's feed may not be used, nor IVAO's once its VID is cleared.
Unusable(st) ==
  \/ svc.snapshot # None /\ svc.snapshot # st.network
  \/ /\ st.network = "ivao" /\ ~st.vid
     /\ svc.snapshot # None \/ svc.inFlight

\* refresh(): what is unusable goes, with the answers still on their way.
refresh(st) ==
  LET s == IF Unusable(st) THEN [svc EXCEPT !.snapshot = None, !.lastOk = None, !.inFlight = FALSE]
           ELSE svc
      w == IF DrawNetwork(st)
             THEN [s EXCEPT !.wantedSince = IF @ = None THEN 0 ELSE @]
             ELSE [s EXCEPT !.wantedSince = None, !.staleTimer = None]
      rs == IF Unusable(st) THEN {[r EXCEPT !.current = FALSE] : r \in requests} ELSE requests
  IN  Ticked(st, publishTraffic(st, w, FALSE), rs)

\* The settings or a switch are saved, or a flight starts or ends.
change ==
  /\ set' \in Settings \ {set}
  /\ refresh(set')
  /\ answer' = None
  /\ UNCHANGED asks

\* atisAt(): at once from a fresh feed; otherwise it waits, and a read may start.
atisAt ==
  /\ NetworkChosen(set)
  /\ \/ /\ heldSnapshot(svc, set.network) /\ svc.lastOk < AtisFresh
        /\ answer' = Held(svc, set.network)
        /\ UNCHANGED <<svc, requests, quiet>>
     \/ /\ ~(heldSnapshot(svc, set.network) /\ svc.lastOk < AtisFresh)
        /\ answer' = None
        /\ Ticked(set, [svc EXCEPT !.atisWaiters = @ \cup {[network |-> set.network, age |-> 0]}],
                  requests)
  /\ UNCHANGED <<set, changes>>

\* A waiter gives up on the read: it is answered from what is held.
waitEnds(w) ==
  /\ w \in svc.atisWaiters /\ w.age = AtisWait
  /\ svc' = [svc EXCEPT !.atisWaiters = @ \ {w}]
  /\ answer' = IF NetworkChosen(set) /\ set.network = w.network THEN Held(svc, w.network) ELSE None
  /\ UNCHANGED <<set, requests, quiet>>

timerFires ==
  /\ svc.timer = 0
  /\ Ticked(set, svc, requests)
  /\ answer' = None
  /\ UNCHANGED set

staleTimerFires ==
  /\ svc.staleTimer = 0
  /\ svc' = markUnavailable(set, svc)
  /\ answer' = None
  /\ UNCHANGED <<set, requests, quiet>>

\* A request ends: with a feed, or failed, refused or aborted by its timeout.
ends(r, ok) ==
  /\ r \in requests /\ (ok => r.age < Timeout)
  /\ LET rs == requests \ {r}
         done == IF ok THEN onSuccess(set, svc, r.network) ELSE onFailure(set, svc)
     IN  IF ~r.current
           THEN svc' = svc /\ requests' = rs /\ answer' = None /\ UNCHANGED quiet
         ELSE IF r.network # set.network THEN Ticked(set, svc, rs) /\ answer' = None
         ELSE /\ answerWaiters(set, done, ok)
              /\ Ticked(set, [done EXCEPT !.atisWaiters = {}], rs)
  /\ UNCHANGED set

Older(age, cap) == IF age = None \/ age = cap THEN age ELSE age + 1
Sooner(left) == IF left = None \/ left = 0 THEN left ELSE left - 1

NothingDue ==
  /\ svc.timer # 0 /\ svc.staleTimer # 0
  /\ \A r \in requests : r.age < Timeout
  /\ \A w \in svc.atisWaiters : w.age < AtisWait

pass ==
  /\ NothingDue
  /\ svc' = [svc EXCEPT !.lastStart = Older(@, SlowInterval), !.retry = Sooner(@),
                        !.timer = Sooner(@), !.staleTimer = Sooner(@),
                        !.lastOk = Older(@, Oldest + 1), !.wantedSince = Older(@, StaleAfter),
                        !.atisWaiters = {[w EXCEPT !.age = @ + 1] : w \in @}]
  /\ requests' = {[r EXCEPT !.age = @ + 1] : r \in requests}
  /\ quiet' = Older(quiet, Floor)
  /\ answer' = None
  /\ UNCHANGED set

-----------------------------------------------------------------------------

Timers == timerFires \/ staleTimerFires \/ \E w \in svc.atisWaiters : waitEnds(w)
Network == \E r \in requests, ok \in BOOLEAN : ends(r, ok)

Next ==
  \/ (pass \/ Timers \/ Network) /\ UNCHANGED <<changes, asks>>
  \/ change /\ changes < MaxChanges /\ changes' = changes + 1
  \/ atisAt /\ asks < MaxAsks /\ asks' = asks + 1

Spec == Init /\ [][Next]_vars

\* Time passes, timers fire, and a request ends, if only by its timeout.
Fairness == WF_vars((pass \/ Timers \/ Network) /\ UNCHANGED <<changes, asks>>)

FairSpec == Spec /\ Fairness

-----------------------------------------------------------------------------

\* IVAO bans the address of a client that reads more than once in 15 s: between any two
\* requests the floor passes, whatever is switched, cleared, asked or failed in between.
\* (stepPoll)
Started == \E r \in requests' \ requests : r.current /\ r.age = 0
FloorHolds == [][Started => quiet = Floor]_vars

\* The aircraft shown are of the network chosen now, with its VID if it needs one, however
\* late an answer comes and whatever was shown before.  (refresh, fetchFeed)
OnlyTheChosenIsShown ==
  svc.traffic.of # None => DrawNetwork(set) /\ svc.traffic.of = set.network

\* "From the feed held when it is under a minute old, otherwise after one read", "unavailable
\* when the read failed or took too long" (the comment on atisAt()): no ATIS is answered from
\* a feed older than that.  The code breaks it: a wait that ends is answered from whatever is
\* held.
AtisIsFresh == answer # None => answer.age < AtisFresh

\* What the code does keep to: an ATIS is of the network chosen now, and a wait that ends on
\* whatever is held answers from a feed no older than the time a failing feed is kept, one
\* back-off and one request's timeout, also when the layer was switched off while the feed
\* failed.  (atisAt, answerWaiters, markUnavailable)
AtisIsRecent == answer # None => answer.network = set.network /\ answer.age <= Oldest

\* While anything needs the feed it is read again and again: no failure, change of network or
\* late answer leaves the service with neither a request nor a timer.  (tick)
FeedKeepsReading ==
  []<>(wanted(set, svc) = "none" \/ \E r \in requests : r.current /\ r.network = set.network)
=============================================================================
