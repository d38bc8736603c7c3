---------------------------- MODULE Connectivity ----------------------------
(***************************************************************************)
(* When a store is shown online: the heartbeat loop of its simulator, the  *)
(* heartbeats and the event transactions that write its last_seen_at,      *)
(* GET /stores, and the page that polls it.                                *)
(* Time is discrete.  A stamp is kept as its age, which Tick increases up  *)
(* to Old, so that time need not end.                                      *)
(***************************************************************************)
EXTENDS Integers

CONSTANTS
    Handlers,      \* requests for the store in the backend at a time
    Interval,      \* HEARTBEAT_INTERVAL
    Timeout,       \* longest heartbeat request: REQUEST_TIMEOUT_SECONDS for each
                   \* of its phases that takes long
    Threshold,     \* OFFLINE_THRESHOLD_SECONDS
    Lag,           \* longest transaction, its waits for locks included
    PollInterval,  \* period of the page's pollingTimer
    FetchTime,     \* longest GET /stores of the page
    MaxSkew,       \* largest difference between the clocks of the servers
    MaxMisses,     \* failed heartbeats in a row that are counted
    Nobody

ASSUME TimesAssumption ==
    /\ {Interval, Timeout, Threshold, PollInterval} \subseteq Nat \ {0}
    /\ {Lag, FetchTime, MaxSkew, MaxMisses} \subseteq Nat
    /\ FetchTime <= PollInterval
    /\ Nobody \notin Handlers

VARIABLES
    skew,      \* how far PostgreSQL's clock is ahead of the backend's
    seen,      \* age of stores.last_seen_at by the backend's clock
    holder,    \* the handler with the row lock of the store
    handler,   \* what each handler does, and since when
    loop,      \* _heartbeat_loop, and the request it waits for
    misses,    \* heartbeats in a row that have not been recorded
    silence,   \* age of the request that wrote last_seen_at
    fetch,     \* the page's GET /stores
    pending,   \* refreshPending
    polled,    \* time since the polling timer fired
    page       \* what the page shows of the store

server == <<seen, holder, handler, silence>>
simulator == <<loop, misses>>
browser == <<fetch, pending, polled, page>>
vars == <<skew, server, simulator, browser>>

(* NULL and a time long ago are both offline, and are not told apart.      *)
Old == Threshold + Lag + PollInterval + FetchTime + 2 * MaxSkew + 1
Older(age) == IF age < Old THEN age + 1 ELSE Old

Free == [at |-> "free", kind |-> "none", age |-> 0]
NoFetch == [at |-> "none", online |-> FALSE, age |-> 0]
Waiting == {"waiting", "recorded", "refused"}
Sleeping(age) == [at |-> "sleeping", on |-> Nobody, age |-> age]

(* The loop sends its first heartbeat at once, the page its first request. *)
Init ==
    /\ skew \in -MaxSkew .. MaxSkew
    /\ seen = Old /\ silence = Old
    /\ holder = Nobody
    /\ handler = [h \in Handlers |-> Free]
    /\ loop = Sleeping(Interval) /\ misses = MaxMisses
    /\ fetch = [NoFetch EXCEPT !.at = "asked"] /\ pending = FALSE /\ polled = 0
    /\ page = [online |-> FALSE, error |-> FALSE]

(***************************************************************************)
(* _heartbeat_loop                                                         *)
(***************************************************************************)
Become(h, state) == handler' = [handler EXCEPT ![h] = state]

Post(h) ==
    /\ loop.at = "sleeping" /\ loop.age = Interval
    /\ handler[h] = Free
    /\ Become(h, [at |-> "sent", kind |-> "heartbeat", age |-> 0])
    /\ loop' = [at |-> "waiting", on |-> h, age |-> 0]
    /\ UNCHANGED <<skew, seen, holder, silence, misses, browser>>

(* An answer that is an error, is late or is lost: the loop only logs it.  *)
(* The request may still be served.                                        *)
Fail ==
    /\ loop.at \in Waiting
    /\ loop' = Sleeping(0)
    /\ misses' = IF loop.at # "recorded" /\ misses < MaxMisses THEN misses + 1 ELSE misses
    /\ UNCHANGED <<skew, server, browser>>

Answer ==
    /\ loop.at = "recorded"
    /\ loop' = Sleeping(0)
    /\ UNCHANGED <<skew, server, misses, browser>>

Die ==
    /\ loop.at # "dead"
    /\ loop' = [Sleeping(0) EXCEPT !.at = "dead"]
    /\ misses' = MaxMisses
    /\ UNCHANGED <<skew, server, browser>>

Start ==
    /\ loop.at = "dead"
    /\ loop' = Sleeping(Interval)
    /\ UNCHANGED <<skew, server, misses, browser>>

(***************************************************************************)
(* The handlers                                                            *)
(***************************************************************************)
(* A heartbeat's stamp is the backend's time after it has found the store. *)
Stamp(h) ==
    /\ handler[h].at = "sent"
    /\ Become(h, [handler[h] EXCEPT !.at = "stamped"])
    /\ UNCHANGED <<skew, seen, holder, silence, simulator, browser>>

(* An event's stamp is received_at, when its transaction began.            *)
BeginEvent(h) ==
    /\ handler[h] = Free
    /\ Become(h, [at |-> "stamped", kind |-> "event", age |-> 0])
    /\ UNCHANGED <<skew, seen, holder, silence, simulator, browser>>

\* Fault: the update does not wait for the row.
UpdateAnyway(h) ==
    /\ handler[h].at = "stamped"
    /\ holder' = h
    /\ Become(h, [handler[h] EXCEPT !.at = "updated"])
    /\ UNCHANGED <<skew, seen, silence, simulator, browser>>

(* UPDATE stores, which commit() sends before COMMIT.                      *)
Update(h) ==
    /\ handler[h].at = "stamped" /\ holder = Nobody
    /\ holder' = h
    /\ Become(h, [handler[h] EXCEPT !.at = "updated"])
    /\ UNCHANGED <<skew, seen, silence, simulator, browser>>

Outcome(h, result) ==
    loop' = IF loop.on = h THEN [loop EXCEPT !.at = result, !.on = Nobody] ELSE loop

Commit(h) ==
    LET ahead == IF handler[h].kind = "event" THEN skew ELSE 0 IN
    /\ handler[h].at = "updated"
    /\ seen' = handler[h].age - ahead
    /\ silence' = handler[h].age
    /\ holder' = Nobody
    /\ Become(h, Free)
    /\ misses' = IF handler[h].kind = "heartbeat" /\ loop.at # "dead" THEN 0 ELSE misses
    /\ Outcome(h, "recorded")
    /\ UNCHANGED <<skew, browser>>

(* A request is lost, refused, recognised as a duplicate, or rolled back.  *)
Abort(h) ==
    /\ handler[h] # Free
    /\ holder' = IF holder = h THEN Nobody ELSE holder
    /\ Become(h, Free)
    /\ Outcome(h, "refused")
    /\ UNCHANGED <<skew, seen, silence, misses, browser>>

(***************************************************************************)
(* GET /stores, and refreshStores of the page                              *)
(***************************************************************************)
\* Fault: offline at exactly the threshold.
IsStoreOnlineBelow(age) == age < Threshold

IsStoreOnline(age) == age <= Threshold

Ask == fetch' = [NoFetch EXCEPT !.at = "asked"]

ListStores ==
    /\ fetch.at = "asked"
    /\ fetch' = [fetch EXCEPT !.at = "read", !.online = IsStoreOnline(seen)]
    /\ UNCHANGED <<skew, server, simulator, pending, polled, page>>

(* A message asks for a refresh, at any time.                              *)
Refresh ==
    /\ IF fetch = NoFetch THEN Ask /\ UNCHANGED pending
       ELSE pending' = TRUE /\ UNCHANGED fetch
    /\ UNCHANGED <<skew, server, simulator, polled, page>>

\* Fault: the timer does nothing while a request is in flight.
PollIfFree ==
    /\ polled = PollInterval
    /\ polled' = 0
    /\ IF fetch = NoFetch THEN Ask ELSE UNCHANGED fetch
    /\ UNCHANGED <<skew, server, simulator, pending, page>>

Poll ==
    /\ polled = PollInterval
    /\ polled' = 0
    /\ IF fetch = NoFetch THEN Ask /\ UNCHANGED pending
       ELSE pending' = TRUE /\ UNCHANGED fetch
    /\ UNCHANGED <<skew, server, simulator, page>>

(* The 150 ms before a pending refresh are no time here.                   *)
EndFetch ==
    /\ IF pending THEN Ask ELSE fetch' = NoFetch
    /\ pending' = FALSE
    /\ UNCHANGED <<skew, server, simulator, polled>>

Show ==
    /\ fetch.at = "read"
    /\ page' = [online |-> fetch.online, error |-> FALSE]
    /\ EndFetch

(* The page keeps what it shows, and adds the error.                       *)
FetchFails ==
    /\ fetch # NoFetch
    /\ page' = [page EXCEPT !.error = TRUE]
    /\ EndFetch

(***************************************************************************)
(* Time passes until something is due.                                     *)
(***************************************************************************)
NothingDue ==
    /\ loop.at = "sleeping" => loop.age < Interval
    /\ loop.at \in Waiting => loop.age < Timeout
    /\ \A h \in Handlers : handler[h].at \in {"stamped", "updated"} => handler[h].age < Lag
    /\ fetch # NoFetch => fetch.age < FetchTime
    /\ polled < PollInterval

Tick ==
    /\ NothingDue
    /\ seen' = Older(seen) /\ silence' = Older(silence)
    /\ handler' = [h \in Handlers |->
           IF handler[h].at \in {"stamped", "updated"}
           THEN [handler[h] EXCEPT !.age = @ + 1] ELSE handler[h]]
    /\ loop' = IF loop.at = "dead" THEN loop ELSE [loop EXCEPT !.age = @ + 1]
    /\ fetch' = IF fetch = NoFetch THEN fetch ELSE [fetch EXCEPT !.age = @ + 1]
    /\ polled' = polled + 1
    /\ UNCHANGED <<skew, holder, misses, pending, page>>

Next ==
    \/ \E h \in Handlers :
           Post(h) \/ Stamp(h) \/ BeginEvent(h) \/ Update(h) \/ Commit(h) \/ Abort(h)
    \/ Fail \/ Answer \/ Die \/ Start
    \/ ListStores \/ Refresh \/ Poll \/ Show \/ FetchFails
    \/ Tick

Spec == Init /\ [][Next]_vars

-----------------------------------------------------------------------------
(***************************************************************************)
(* Properties                                                              *)
(***************************************************************************)
HandlerStates ==
    [at : {"free", "sent", "stamped", "updated"}, kind : {"none", "heartbeat", "event"},
     age : 0 .. Lag]

(* Every variable has its type, and one handler at most has updated the    *)
(* row: the one that has its lock.                                         *)
TypeOK ==
    /\ skew \in -MaxSkew .. MaxSkew
    /\ seen \in -MaxSkew .. Old /\ silence \in 0 .. Old
    /\ holder \in Handlers \cup {Nobody}
    /\ handler \in [Handlers -> HandlerStates]
    /\ \A h \in Handlers : handler[h].at = "updated" <=> holder = h
    /\ loop \in [at : Waiting \cup {"sleeping", "dead"}, on : Handlers \cup {Nobody}, age : Nat]
    /\ misses \in 0 .. MaxMisses
    /\ fetch \in [at : {"none", "asked", "read"}, online : BOOLEAN, age : 0 .. FetchTime]
    /\ pending \in BOOLEAN /\ polled \in 0 .. PollInterval
    /\ page \in [online : BOOLEAN, error : BOOLEAN]

(* A store whose simulator runs is online, although heartbeats are missed, *)
(* and although an event may overwrite last_seen_at with the older time at *)
(* which its transaction began: each heartbeat that is missed adds an      *)
(* interval and a timeout, the events add one transaction and the skew.    *)
Period == Interval + Timeout
Behind == IF skew < 0 THEN -skew ELSE 0
Ahead == IF skew > 0 THEN skew ELSE 0

Gap(n) == n * Period + Lag + Behind
OnlineWhileBeating ==
    misses < MaxMisses /\ Gap(misses + 1) + Timeout <= Threshold => IsStoreOnline(seen)

(* A store that is silent is not shown online for long: nothing announces  *)
(* that it is offline, so the page has to find out by polling, or show an  *)
(* error.                                                                  *)
SilenceIsShown ==
    page.online /\ ~ page.error =>
        silence <= Threshold + Ahead + PollInterval + FetchTime

(* What the two rest on.  The loop waits for a heartbeat of its own, and   *)
(* for no longer than its interval or its timeout.                         *)
LoopOK ==
    /\ loop.on # Nobody => loop.at = "waiting" /\ handler[loop.on].kind = "heartbeat"
    /\ loop.at = "sleeping" => loop.age <= Interval
    /\ loop.at \in Waiting => loop.age <= Timeout

(* How old last_seen_at may be after so many misses, at each place of the  *)
(* loop.                                                                   *)
SeenWithin(time) == seen <= Gap(misses) + time + loop.age
Beating ==
    misses < MaxMisses =>
        /\ loop.at # "dead"
        /\ loop.at = "sleeping" => SeenWithin(Timeout)
        /\ loop.at \in {"waiting", "refused"} => SeenWithin(Period)
        /\ loop.at = "recorded" => misses = 0 /\ SeenWithin(0)

(* How long a store may have been silent that an answer, or the page, says *)
(* is online.  A request that nothing asked to repeat began after the last *)
(* tick of the polling timer.                                              *)
SilentWithin(time) == silence <= Threshold + Ahead + time
FetchFresh == fetch # NoFetch /\ ~ pending => fetch.age <= polled
AnswerFresh == fetch.at = "read" /\ fetch.online => SilentWithin(fetch.age)
PageFresh ==
    page.online /\ ~ page.error =>
        SilentWithin(IF fetch = NoFetch THEN polled ELSE PollInterval + fetch.age)

(* A transaction longer than the threshold writes a time that is offline,  *)
(* so what is shown is bounded only with Lag <= Threshold.                 *)
IInv ==
    /\ TypeOK
    /\ silence <= seen + Ahead
    /\ LoopOK /\ Beating
    /\ FetchFresh
    /\ Lag <= Threshold => AnswerFresh /\ PageFresh
=============================================================================
