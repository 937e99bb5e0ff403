------------------------------ MODULE LanLink -------------------------------
(***************************************************************************)
(* A second screen's lookups over its link to the PC: LanConnection of     *)
(* src/lan-client/lan-connection.ts with the PC's side of a lookup,        *)
(* handleQuery() of src/main/lan/LanServer.ts.  The page pairs or says     *)
(* hello, gets the snapshot, and from then on asks; the PC answers a few   *)
(* lookups of each lane at a time.                                         *)
(*                                                                         *)
(* Every step is one callback of the page: a socket event, a timer, a call *)
(* of the page's own code.  A timer may fire whenever it is armed.  What a *)
(* socket's PC has been asked is `jobs`; a new socket has none, as the PC  *)
(* answers a lookup on the socket that asked.  Topics, the track, commands *)
(* and the PC's rate limit (40 messages in a burst) are left out.          *)
(***************************************************************************)
EXTENDS Naturals, SequencesExt

CONSTANTS Asks,         \* calls of query(); each happens at most once
          LaneOf,       \* "fast" or "slow"
          KeyOf,        \* the name and arguments of an ask whose answer may be kept
          NoKey,        \* of the other asks
          SubjectOf,    \* the airport an ask is about
          Refreshes,    \* the asks that are AIRPORT_REFRESH_QUERIES
          MaxInFlight,  \* MAX_IN_FLIGHT of the page, by lane
          MaxPending,   \* MAX_PENDING_FAST and MAX_PENDING_SLOW of the PC, by lane
          MaxTries,
          MaxTroubles   \* bound on what befalls the link: see Trouble

Lanes == {"fast", "slow"}

ASSUME LinkAssumption ==
  /\ LaneOf \in [Asks -> Lanes]
  /\ DOMAIN KeyOf = Asks /\ DOMAIN SubjectOf = Asks
  /\ MaxInFlight \in [Lanes -> Nat \ {0}] /\ MaxPending \in [Lanes -> Nat \ {0}]
  /\ MaxTries \in Nat \ {0} /\ MaxTroubles \in Nat

VARIABLES current,   \* LanLinkState
          socket,    \* how far the current socket has come, "none" when there is none
          code,      \* pairingCode: none, the right one or a wrong one
          token,     \* whether the page has one
          known,     \* whether the PC knows it
          retry,     \* the reconnect timer is armed
          down,      \* downSince is set
          queues,    \* the lookups that wait, are out, or pause before a retry
          waiters,   \* the asks that wait for the lookup an ask began
          sharing,   \* the lookup to join, by key
          kept,      \* the asks whose answers are kept
          page,      \* what became of each ask
          jobs,      \* lookups the PC has been sent on this socket and has not answered
          troubles   \* how often trouble has befallen the link

link == <<current, socket, code, token, known, retry>>
vars == <<link, down, queues, waiters, sharing, kept, page, jobs, troubles>>

Keys == {KeyOf[a] : a \in Asks} \ {NoKey}
\* tries tells a lookup's sends on one socket apart, as the ids do: a try is given back
\* only when the socket is gone.
Jobs == [ask : Asks, try : 1..MaxTries, busy : BOOLEAN]
Queues == [waiting : [Lanes -> Seq(Asks)], out : [Lanes -> Seq(Asks)],
           retrying : SUBSET Asks, tries : [Asks -> 0..MaxTries]]

TypeOK ==
  /\ current \in {"starting", "needs-pairing", "wrong-code", "connected", "offline"}
  /\ socket \in {"none", "connecting", "greeted", "paired", "live", "dead", "closing"}
  /\ code \in {"none", "right", "wrong"}
  /\ token \in BOOLEAN /\ known \in BOOLEAN /\ retry \in BOOLEAN /\ down \in BOOLEAN
  /\ queues \in Queues
  /\ waiters \in [Asks -> SUBSET Asks]
  /\ sharing \in [Keys -> SUBSET Asks]
  /\ kept \in SUBSET Asks
  /\ page \in [Asks -> {"idle", "asked", "answered", "rejected"}]
  /\ jobs \in SUBSET Jobs
  /\ troubles \in 0..MaxTroubles

\* start(), with a token from an earlier visit or without one.
Init ==
  /\ token \in BOOLEAN /\ known = token
  /\ current = IF token THEN "starting" ELSE "needs-pairing"
  /\ socket = IF token THEN "connecting" ELSE "none"
  /\ code = "none" /\ retry = FALSE /\ down = FALSE
  /\ queues = [waiting |-> [l \in Lanes |-> << >>], out |-> [l \in Lanes |-> << >>],
               retrying |-> {}, tries |-> [a \in Asks |-> 0]]
  /\ waiters = [a \in Asks |-> {}]
  /\ sharing = [k \in Keys |-> {}]
  /\ kept = {}
  /\ page = [a \in Asks |-> "idle"]
  /\ jobs = {} /\ troubles = 0

-----------------------------------------------------------------------------
(* The queues.                                                             *)

InSeq(s) == {s[i] : i \in DOMAIN s}
Waiting(q) == InSeq(q.waiting["fast"]) \cup InSeq(q.waiting["slow"])
Out(q) == InSeq(q.out["fast"]) \cup InSeq(q.out["slow"])
Without(s, a) == IF a \in InSeq(s) THEN RemoveAt(s, CHOOSE i \in DOMAIN s : s[i] = a) ELSE s
Smaller(m, n) == IF m < n THEN m ELSE n

\* Mutant: one lookup more than the PC has slots for.
Sendable_OneMore(q, l) == Smaller(MaxInFlight[l] + 1 - Len(q.out[l]), Len(q.waiting[l]))

\* How many of a lane's lookups there is room to send now.
Sendable(q, l) == Smaller(MaxInFlight[l] - Len(q.out[l]), Len(q.waiting[l]))

\* A WebSocket that has not opened throws when it is sent to; the first lookup counts as
\* sent by then, and the rest stay where they are.
SendThrows(q) ==
  /\ current = "connected" /\ socket = "connecting"
  /\ \E l \in Lanes : Sendable(q, l) > 0

\* How many of each lane go, given that the link is up or not.
Room(q, up) ==
  [l \in Lanes |-> IF ~up THEN 0
                   ELSE IF socket # "connecting" THEN Sendable(q, l)
                   ELSE IF l = "fast" \/ Sendable(q, "fast") = 0 THEN Smaller(1, Sendable(q, l))
                   ELSE 0]

Sent(q, n) ==
  LET first == [l \in Lanes |-> SubSeq(q.waiting[l], 1, n[l])]
      going == InSeq(first["fast"]) \cup InSeq(first["slow"])
  IN  [q EXCEPT !.waiting = [l \in Lanes |-> SubSeq(@[l], n[l] + 1, Len(@[l]))],
                !.out = [l \in Lanes |-> @[l] \o first[l]],
                !.tries = [a \in Asks |-> IF a \in going THEN @[a] + 1 ELSE @[a]]]

\* The PC takes what a socket it can hear has sent; a lane that is full is refused as busy.
Held(js, l) == Cardinality({j \in js : LaneOf[j.ask] = l /\ ~j.busy})
handleQuery(before, after, js) ==
  LET job(l, i) == [ask |-> after.out[l][i], try |-> after.tries[after.out[l][i]],
                    busy |-> Held(js, l) + i - Len(before.out[l]) > MaxPending[l]]
  IN  IF socket \in {"greeted", "paired", "live"}
      THEN UNION {{job(l, i) : i \in (Len(before.out[l]) + 1)..Len(after.out[l])} : l \in Lanes}
      ELSE {}

\* sendWaiting(), the end of every handler that may have freed a slot or brought the link
\* up: the queues are q and the PC's work js by then.
sendWaiting(q, js, up) ==
  /\ queues' = Sent(q, Room(q, up))
  /\ jobs' = js \cup handleQuery(q, queues', js)

SendsFrom(q, js) == sendWaiting(q, js, current = "connected" /\ socket # "none")

-----------------------------------------------------------------------------
(* query().                                                                *)

queryKept(a) ==
  /\ page[a] = "idle"
  /\ KeyOf[a] # NoKey /\ \E b \in kept : KeyOf[b] = KeyOf[a]
  /\ page' = [page EXCEPT ![a] = "answered"]
  /\ UNCHANGED <<link, down, queues, waiters, sharing, kept, jobs>>

NotKept(a) == KeyOf[a] = NoKey \/ \A b \in kept : KeyOf[b] # KeyOf[a]

queryRefused(a) ==
  /\ page[a] = "idle" /\ NotKept(a)
  /\ current # "connected" \/ socket = "none"
  /\ page' = [page EXCEPT ![a] = "rejected"]
  /\ UNCHANGED <<link, down, queues, waiters, sharing, kept, jobs>>

Shared(a) == IF KeyOf[a] = NoKey THEN {} ELSE sharing[KeyOf[a]]

queryShared(a) ==
  /\ page[a] = "idle" /\ NotKept(a)
  /\ current = "connected" /\ socket # "none"
  /\ \E b \in Shared(a) : waiters' = [waiters EXCEPT ![b] = @ \cup {a}]
  /\ page' = [page EXCEPT ![a] = "asked"]
  /\ UNCHANGED <<link, down, queues, sharing, kept, jobs>>

Pushed(q, a) == [q EXCEPT !.waiting[LaneOf[a]] = Append(@, a)]

\* A throw of the send rejects the ask whose call it was; the lookup goes on without it.
queryNew(a) ==
  /\ page[a] = "idle" /\ NotKept(a) /\ Shared(a) = {}
  /\ current = "connected" /\ socket # "none"
  /\ waiters' = [waiters EXCEPT ![a] = {a}]
  /\ sharing' = [k \in Keys |-> IF k = KeyOf[a] THEN {a} ELSE sharing[k]]
  /\ SendsFrom(Pushed(queues, a), jobs)
  /\ page' = [page EXCEPT ![a] = IF SendThrows(Pushed(queues, a)) THEN "rejected" ELSE "asked"]
  /\ UNCHANGED <<link, down, kept>>

-----------------------------------------------------------------------------
(* A lookup's end.                                                         *)

\* Mutant: the key still leads to the lookup that has ended.
settle_KeepsSharing(as, outcome) ==
  /\ waiters' = [a \in Asks |-> IF a \in as THEN {} ELSE waiters[a]]
  /\ UNCHANGED sharing
  /\ page' = [a \in Asks |-> IF page[a] = "asked" /\ \E b \in as : a \in waiters[b]
                              THEN outcome ELSE page[a]]

settle(as, outcome) ==
  /\ waiters' = [a \in Asks |-> IF a \in as THEN {} ELSE waiters[a]]
  /\ sharing' = [k \in Keys |-> IF \E a \in as : KeyOf[a] = k THEN {} ELSE sharing[k]]
  /\ page' = [a \in Asks |-> IF page[a] = "asked" /\ \E b \in as : a \in waiters[b]
                              THEN outcome ELSE page[a]]

letGo(q, a) == [q EXCEPT !.out = [l \in Lanes |-> Without(@[l], a)]]

\* Mutant: the last try's failure is not the last.
GivenUp_Late(a) == queues.tries[a] > MaxTries

GivenUp(a) == queues.tries[a] >= MaxTries

\* The PC could not answer, was busy or was silent: again after a pause, or give up.  The
\* report of what was given up on throws on a socket that has not opened, before the slot
\* is used again.
failed(a, js) ==
  /\ \/ /\ GivenUp(a)
        /\ settle({a}, "rejected")
        /\ IF current = "connected" /\ socket = "connecting"
           THEN queues' = letGo(queues, a) /\ jobs' = js
           ELSE SendsFrom(letGo(queues, a), js)
     \/ /\ ~GivenUp(a)
        /\ SendsFrom([letGo(queues, a) EXCEPT !.retrying = @ \cup {a}], js)
        /\ UNCHANGED <<waiters, sharing, page>>
  /\ UNCHANGED <<link, down, kept>>

timedOut(a) == a \in Out(queues) /\ failed(a, jobs)

retryTimer(a) ==
  /\ a \in queues.retrying
  /\ SendsFrom(Pushed([queues EXCEPT !.retrying = @ \ {a}], a), jobs)
  /\ UNCHANGED <<link, down, waiters, sharing, kept, page>>

Hears == socket = "live" /\ known

\* The PC's error, or its refusal of a busy lane.
answerError(j) ==
  /\ Hears
  /\ IF j.ask \in Out(queues) /\ queues.tries[j.ask] = j.try
     THEN failed(j.ask, jobs \ {j})
     ELSE jobs' = jobs \ {j} /\ UNCHANGED <<link, down, queues, waiters, sharing, kept, page>>

AfterRefresh(a) == IF a \in Refreshes THEN {b \in Asks : SubjectOf[b] # SubjectOf[a]} ELSE Asks

\* The PC's answer; an empty one is not worth keeping.
answerQuery(j) ==
  /\ Hears /\ ~j.busy
  /\ IF j.ask \in Out(queues) /\ queues.tries[j.ask] = j.try
     THEN \E worth \in BOOLEAN :
            /\ kept' = (kept \cup {a \in {j.ask} : worth /\ KeyOf[a] # NoKey}) \cap AfterRefresh(j.ask)
            /\ settle({j.ask}, "answered")
            /\ SendsFrom(letGo(queues, j.ask), jobs \ {j})
            /\ UNCHANGED <<link, down>>
     ELSE jobs' = jobs \ {j} /\ UNCHANGED <<link, down, queues, waiters, sharing, kept, page>>

\* Mutant: what was out is forgotten with the socket.
holdLookups_Forgets(q) == [q EXCEPT !.out = [l \in Lanes |-> << >>]]

\* What was out goes back to the front, the oldest first, and keeps its try.
holdLookups(q) ==
  [q EXCEPT !.waiting = [l \in Lanes |-> q.out[l] \o @[l]],
            !.out = [l \in Lanes |-> << >>],
            !.tries = [a \in Asks |-> IF a \in Out(q) THEN @[a] - 1 ELSE @[a]]]

\* It lets go of what is out too, but tells only those that wait or pause.
failAllLookups ==
  /\ settle(Waiting(queues) \cup queues.retrying, "rejected")
  /\ queues' = [queues EXCEPT !.waiting = [l \in Lanes |-> << >>],
                              !.out = [l \in Lanes |-> << >>],
                              !.retrying = {}]
  /\ down' = FALSE

-----------------------------------------------------------------------------
(* The link.                                                               *)

\* The old socket is forgotten before it is closed: its close is not a drop.
connect ==
  /\ socket' = "connecting"
  /\ jobs' = {}

open ==
  /\ socket = "connecting" /\ socket' = "greeted"
  /\ UNCHANGED <<current, code, token, known, retry, down, queues, waiters, sharing, kept, page, jobs>>

paired ==
  /\ socket = "greeted" /\ code = "right"
  /\ token' = TRUE /\ known' = TRUE /\ code' = "none" /\ socket' = "paired"
  /\ UNCHANGED <<current, retry, down, queues, waiters, sharing, kept, page, jobs>>

\* The PC closes the socket after it: for a wrong code, or a token it no longer knows.
handleDenied ==
  /\ \/ socket = "greeted" /\ (code = "wrong" \/ (code = "none" /\ ~known))
     \/ socket = "live" /\ ~known
  /\ socket' = "closing" /\ code' = "none" /\ jobs' = {}
  /\ token' = (token /\ code # "none")
  /\ current' = IF code # "none" THEN "wrong-code" ELSE "needs-pairing"
  /\ UNCHANGED <<known, retry, down, queues, waiters, sharing, kept, page>>

handleSnapshot ==
  /\ \/ socket = "paired"
     \/ socket = "greeted" /\ code = "none" /\ known
  /\ socket' = "live" /\ current' = "connected" /\ kept' = {} /\ down' = FALSE
  /\ sendWaiting(queues, jobs, TRUE)
  /\ UNCHANGED <<code, token, known, retry, waiters, sharing, page>>

HasLookups(q) == Waiting(q) \cup q.retrying # {}

onclose ==
  /\ socket # "none" /\ socket' = "none" /\ jobs' = {}
  /\ queues' = holdLookups(queues)
  /\ down' = (down \/ HasLookups(holdLookups(queues)))
  /\ \/ /\ code # "none" /\ code' = "none"
        /\ current' = "needs-pairing" /\ UNCHANGED retry
     \/ /\ code = "none" /\ current \in {"connected", "offline", "starting"}
        /\ current' = "offline" /\ retry' = TRUE /\ UNCHANGED code
     \/ /\ code = "none" /\ current \in {"needs-pairing", "wrong-code"}
        /\ UNCHANGED <<current, retry, code>>
  /\ UNCHANGED <<token, known, waiters, sharing, kept, page>>

reconnect ==
  /\ retry /\ retry' = FALSE
  /\ IF token THEN connect ELSE UNCHANGED <<socket, jobs>>
  /\ UNCHANGED <<current, code, token, known, down, queues, waiters, sharing, kept, page>>

CanResume == code = "none" /\ token /\ current \notin {"needs-pairing", "wrong-code"}

\* The page comes back into view, or the network does.
resume ==
  /\ CanResume /\ connect /\ retry' = FALSE
  /\ UNCHANGED <<current, code, token, known, down, queues, waiters, sharing, kept, page>>

\* The watchdog finds the link up and silent, or down for too long, or both.
checkHeard ==
  \E stale, silent \in BOOLEAN :
    /\ stale \/ silent
    /\ IF stale THEN down /\ failAllLookups
                ELSE UNCHANGED <<down, queues, waiters, sharing, page>>
    /\ IF silent THEN /\ current = "connected" /\ socket # "live" /\ current' = "offline"
                      /\ IF CanResume THEN connect /\ retry' = FALSE
                                      ELSE UNCHANGED <<socket, jobs, retry>>
                 ELSE UNCHANGED <<current, socket, jobs, retry>>
    /\ UNCHANGED <<code, token, known, kept>>

\* The person types a code.
pair ==
  /\ current \in {"needs-pairing", "wrong-code"}
  /\ code' \in {"right", "wrong"} /\ current' = "starting" /\ connect
  /\ UNCHANGED <<token, known, retry, down, queues, waiters, sharing, kept, page>>

\* The PC's owner revokes the device.
revoke ==
  /\ known /\ known' = FALSE
  /\ UNCHANGED <<current, socket, code, token, retry, down, queues, waiters, sharing, kept, page, jobs>>

\* The network or the PC is gone and nobody has told the page.
die ==
  /\ socket \in {"greeted", "paired", "live"} /\ socket' = "dead" /\ jobs' = {}
  /\ UNCHANGED <<current, code, token, known, retry, down, queues, waiters, sharing, kept, page>>

-----------------------------------------------------------------------------

Ask(a) == queryKept(a) \/ queryRefused(a) \/ queryShared(a) \/ queryNew(a)
Lookup == \/ \E a \in Asks : Ask(a) \/ timedOut(a) \/ retryTimer(a)
          \/ \E j \in jobs : answerError(j) \/ answerQuery(j)

Ends == onclose /\ socket \in {"connecting", "dead", "closing"}
Greeting == paired \/ handleDenied \/ handleSnapshot

\* What befalls a link that works, and what people do.
Trouble ==
  \/ onclose /\ socket \in {"greeted", "paired", "live"}
  \/ die \/ resume \/ pair \/ revoke

Next ==
  \/ (Lookup \/ open \/ Ends \/ Greeting \/ reconnect \/ checkHeard) /\ UNCHANGED troubles
  \/ Trouble /\ troubles < MaxTroubles /\ troubles' = troubles + 1

Spec == Init /\ [][Next]_vars

\* Timers fire, and the handshake comes to an end: the PC greets back, or the socket that is
\* opening, dead or refused closes.  Nothing makes the PC answer a lookup.
Fairness ==
  /\ \A a \in Asks : WF_vars((timedOut(a) \/ retryTimer(a)) /\ UNCHANGED troubles)
  /\ WF_vars((open \/ Ends \/ Greeting) /\ UNCHANGED troubles)
  /\ WF_vars(reconnect /\ UNCHANGED troubles)
  /\ WF_vars(checkHeard /\ UNCHANGED troubles)

FairSpec == Spec /\ Fairness

-----------------------------------------------------------------------------

\* A lookup someone waits for is in one place: in a queue, out, or pausing; an ask that has
\* no answer yet waits for such a lookup; and a key leads to the lookup of that key, so that
\* nobody joins one that has ended.  Lost in a drop, a retry or a refused send, a lookup's
\* page would wait for ever.  (query, failed, settle, holdLookups, sendWaiting)
Times(s, a) == Cardinality({i \in DOMAIN s : s[i] = a})
Places(a) == Times(queues.waiting["fast"], a) + Times(queues.waiting["slow"], a)
             + Times(queues.out["fast"], a) + Times(queues.out["slow"], a)
             + (IF a \in queues.retrying THEN 1 ELSE 0)

EveryLookupHasAPlace ==
  /\ \A a \in Asks : Places(a) = IF waiters[a] = {} THEN 0 ELSE 1
  /\ \A a \in Asks : page[a] = "asked" => \E b \in Asks : a \in waiters[b]
  /\ \A k \in Keys : sharing[k] = {a \in Asks : KeyOf[a] = k /\ waiters[a] # {}}

\* The page counts its slots as the PC does: a lookup is refused as busy only while the PC
\* still works on one of that lane that the page has stopped waiting for.  (sendWaiting and
\* handleQuery)
Abandoned(j) == j.ask \notin Out(queues) \/ queues.tries[j.ask] # j.try
BusyIsTheLate ==
  [][\A j \in jobs' \ jobs :
       j.busy => \E late \in jobs' : /\ LaneOf[late.ask] = LaneOf[j.ask] /\ ~late.busy
                                     /\ Abandoned(late)']_vars

\* Whoever asks is told: by an answer, after the last try, or when the link has been down
\* for long.  (the timers of failed, failStaleLookups and scheduleRetry)
LookupsEnd == \A a \in Asks : (page[a] = "asked") ~> (page[a] # "asked")
=============================================================================
