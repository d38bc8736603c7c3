------------------------ MODULE Connectivity_proofs ------------------------
(***************************************************************************)
(* Theorems about Connectivity, for every interval, timeout, threshold,    *)
(* skew and number of handlers.                                            *)
(***************************************************************************)
EXTENDS Connectivity, TLAPS

USE TimesAssumption

(* The times, and what is computed from them, are numbers.                 *)
LEMMA Times ==
    ASSUME skew \in -MaxSkew .. MaxSkew
    PROVE  /\ Interval \in Nat \ {0} /\ Timeout \in Nat \ {0} /\ Threshold \in Nat \ {0}
           /\ PollInterval \in Nat \ {0}
           /\ Lag \in Nat /\ FetchTime \in Nat /\ MaxSkew \in Nat /\ MaxMisses \in Nat
           /\ Period \in Nat /\ Old \in Nat
           /\ skew \in Int /\ Behind \in 0 .. MaxSkew /\ Ahead \in 0 .. MaxSkew
BY DEF Period, Old, Behind, Ahead

(* A heartbeat that is missed adds a period to the gap.                    *)
LEMMA GapGrows ==
    ASSUME skew \in -MaxSkew .. MaxSkew, NEW n \in Nat
    PROVE  /\ Gap(n) \in Nat
           /\ Gap(n + 1) = Gap(n) + Period
           /\ Gap(0) = Lag + Behind
<1>1. Period \in Nat /\ Lag \in Nat /\ Behind \in Nat
  BY Times
<1>2. n * Period \in Nat /\ (n + 1) * Period = n * Period + Period /\ 0 * Period = 0
  BY <1>1
<1> QED BY <1>1, <1>2 DEF Gap

(* Initially the loop is about to beat, and the page shows nothing.        *)
LEMMA InitIInv == Init => IInv
<1> SUFFICES ASSUME Init PROVE IInv
  OBVIOUS
<1>1. skew \in -MaxSkew .. MaxSkew
  BY DEF Init
<1>2. TypeOK
  <2>1. Old \in -MaxSkew .. Old /\ Old \in 0 .. Old
    BY <1>1, Times
  <2>2. Free \in HandlerStates /\ Free.at # "updated"
    BY <1>1, Times DEF Free, HandlerStates
  <2>3. loop \in [at : Waiting \cup {"sleeping", "dead"}, on : Handlers \cup {Nobody}, age : Nat]
    BY <1>1, Times DEF Init, Sleeping
  <2>4. fetch \in [at : {"none", "asked", "read"}, online : BOOLEAN, age : 0 .. FetchTime]
    <3>1. fetch = [at |-> "asked", online |-> FALSE, age |-> 0]
      BY DEF Init, NoFetch
    <3>2. 0 \in 0 .. FetchTime
      BY <1>1, Times
    <3> QED BY <3>1, <3>2
  <2>5. misses \in 0 .. MaxMisses /\ polled \in 0 .. PollInterval
    BY <1>1, Times DEF Init
  <2> QED BY <1>1, <2>1, <2>2, <2>3, <2>4, <2>5 DEF Init, TypeOK
<1>3. silence <= seen + Ahead
  BY <1>1, Times DEF Init
<1>4. LoopOK /\ Beating
  BY <1>1, Times DEF Init, LoopOK, Beating, Sleeping, Waiting
<1>5. FetchFresh /\ AnswerFresh /\ PageFresh
  BY DEF Init, FetchFresh, AnswerFresh, PageFresh, NoFetch
<1> QED BY <1>2, <1>3, <1>4, <1>5 DEF IInv

-----------------------------------------------------------------------------
(* The types.                                                              *)
LoopTypes ==
    /\ loop \in [at : Waiting \cup {"sleeping", "dead"}, on : Handlers \cup {Nobody}, age : Nat]
    /\ misses \in 0 .. MaxMisses
HandlerTypes ==
    /\ holder \in Handlers \cup {Nobody}
    /\ handler \in [Handlers -> HandlerStates]
    /\ \A h \in Handlers : handler[h].at = "updated" <=> holder = h
SeenTypes == seen \in -MaxSkew .. Old /\ silence \in 0 .. Old
PageTypes ==
    /\ fetch \in [at : {"none", "asked", "read"}, online : BOOLEAN, age : 0 .. FetchTime]
    /\ pending \in BOOLEAN /\ polled \in 0 .. PollInterval
    /\ page \in [online : BOOLEAN, error : BOOLEAN]

(* TypeOK, in the parts that steps disturb one at a time.                  *)
LEMMA TypesSplit ==
    TypeOK <=> /\ skew \in -MaxSkew .. MaxSkew
               /\ SeenTypes /\ HandlerTypes /\ LoopTypes /\ PageTypes
BY DEF TypeOK, SeenTypes, HandlerTypes, LoopTypes, PageTypes

(* A handler that becomes something else keeps the row lock with the one   *)
(* that has updated the row.                                               *)
LEMMA BecomeKept ==
    ASSUME HandlerTypes, NEW h \in Handlers, NEW state \in HandlerStates, Become(h, state),
           \/ state.at # "updated" /\ holder' = IF holder = h THEN Nobody ELSE holder
           \/ state.at = "updated" /\ holder \in {Nobody, h} /\ holder' = h
    PROVE  HandlerTypes'
BY DEF HandlerTypes, Become

(* The states that a handler can become.                                   *)
LEMMA StatesOfHandler ==
    ASSUME skew \in -MaxSkew .. MaxSkew
    PROVE  /\ Free \in HandlerStates
           /\ \A kind \in {"heartbeat", "event"}, at \in {"sent", "stamped"} :
                 [at |-> at, kind |-> kind, age |-> 0] \in HandlerStates
           /\ \A state \in HandlerStates, at \in {"stamped", "updated"} :
                 [state EXCEPT !.at = at] \in HandlerStates
BY Times DEF Free, HandlerStates

(* What the steps of the handlers do to the handlers.                      *)
LEMMA HandlerTypesKept ==
    ASSUME TypeOK, NEW h \in Handlers,
           Post(h) \/ Stamp(h) \/ BeginEvent(h) \/ Update(h) \/ Commit(h) \/ Abort(h)
    PROVE  HandlerTypes'
<1> HandlerTypes /\ skew \in -MaxSkew .. MaxSkew
  BY TypesSplit
<1> handler[h] \in HandlerStates /\ (handler[h].at = "updated" <=> holder = h)
  BY DEF HandlerTypes
<1> USE BecomeKept, StatesOfHandler
<1>1. CASE Post(h) \/ BeginEvent(h)
  <2>1. PICK at \in {"sent", "stamped"}, kind \in {"heartbeat", "event"} :
           Become(h, [at |-> at, kind |-> kind, age |-> 0])
    BY <1>1 DEF Post, BeginEvent
  <2>2. handler[h] = Free /\ UNCHANGED holder
    BY <1>1 DEF Post, BeginEvent
  <2>3. holder # h
    BY <2>2 DEF Free
  <2> DEFINE state == [at |-> at, kind |-> kind, age |-> 0]
  <2>4. state \in HandlerStates /\ state.at # "updated" /\ Become(h, state)
    BY <2>1
  <2> HIDE DEF state
  <2> QED BY <2>2, <2>3, <2>4
<1>2. CASE Stamp(h)
  <2> DEFINE state == [handler[h] EXCEPT !.at = "stamped"]
  <2>1. state \in HandlerStates /\ state.at # "updated" /\ Become(h, state)
    BY <1>2 DEF Stamp, HandlerStates
  <2>2. holder # h /\ UNCHANGED holder
    BY <1>2 DEF Stamp
  <2> HIDE DEF state
  <2> QED BY <2>1, <2>2
<1>3. CASE Update(h)
  <2> DEFINE state == [handler[h] EXCEPT !.at = "updated"]
  <2>1. state \in HandlerStates /\ state.at = "updated" /\ Become(h, state)
    BY <1>3 DEF Update, HandlerStates
  <2>2. holder = Nobody /\ holder' = h
    BY <1>3 DEF Update
  <2> HIDE DEF state
  <2> QED BY <2>1, <2>2
<1>4. CASE Commit(h) \/ Abort(h)
  <2>1. Become(h, Free) /\ Free.at # "updated" /\ holder' = IF holder = h THEN Nobody ELSE holder
    BY <1>4 DEF Commit, Abort, Free
  <2> QED BY <2>1
<1> QED BY <1>1, <1>2, <1>3, <1>4

(* What they do to last_seen_at: it is as old as the transaction, by a     *)
(* clock that may be ahead or behind.                                      *)
LEMMA CommitSeen ==
    ASSUME TypeOK, NEW h \in Handlers, Commit(h)
    PROVE  /\ silence' \in 0 .. Lag
           /\ seen' \in -MaxSkew .. Lag + Behind
           /\ silence' <= seen' + Ahead
<1>1. skew \in -MaxSkew .. MaxSkew /\ handler[h] \in HandlerStates
  BY DEF TypeOK
<1>2. handler[h].age \in 0 .. Lag
  BY <1>1 DEF HandlerStates
<1>3. silence' = handler[h].age /\ seen' \in {handler[h].age, handler[h].age - skew}
  BY <1>1, <1>2, Times DEF Commit
<1> QED BY <1>1, <1>2, <1>3, Times DEF Behind, Ahead

(* A request of the loop that ends leaves it with an answer.               *)
LEMMA OutcomeKept ==
    ASSUME LoopTypes, LoopOK, NEW h \in Handlers, NEW result \in {"recorded", "refused"},
           Outcome(h, result)
    PROVE  /\ loop.on = h => loop' = [at |-> result, on |-> Nobody, age |-> loop.age]
           /\ loop.on # h => loop' = loop
BY DEF LoopTypes, Outcome

(* What a request of the page is when it is made.                          *)
LEMMA AskIs == NoFetch.at = "none" /\ (Ask => fetch' = [at |-> "asked", online |-> FALSE, age |-> 0])
BY DEF Ask, NoFetch

(* A step of the page may ask again, end the request, or leave it.         *)
LEMMA EndFetchKept ==
    ASSUME TypeOK, EndFetch
    PROVE  /\ fetch' \in [at : {"none", "asked", "read"}, online : BOOLEAN, age : 0 .. FetchTime]
           /\ fetch'.at # "read"
           /\ pending' = FALSE /\ UNCHANGED <<skew, server, simulator, polled>>
           /\ \/ ~ pending /\ fetch' = NoFetch
              \/ pending /\ fetch' # NoFetch /\ fetch'.age = 0
<1> DEFINE asked == [at |-> "asked", online |-> FALSE, age |-> 0]
           none == [at |-> "none", online |-> FALSE, age |-> 0]
           Fetches == [at : {"none", "asked", "read"}, online : BOOLEAN, age : 0 .. FetchTime]
<1>1. 0 \in 0 .. FetchTime
  BY Times DEF TypeOK
<1>2. asked \in Fetches /\ none \in Fetches
  BY <1>1
<1>3. asked.at = "asked" /\ none.at = "none" /\ asked.age = 0 /\ asked # none
  OBVIOUS
<1>4. NoFetch = none
  BY DEF NoFetch
<1>5. (pending /\ fetch' = asked) \/ (~ pending /\ fetch' = none)
  BY AskIs DEF EndFetch, TypeOK, NoFetch
<1>6. pending' = FALSE /\ UNCHANGED <<skew, server, simulator, polled>>
  BY DEF EndFetch
<1> HIDE DEF asked, none, Fetches
<1>7. fetch' \in Fetches
  BY <1>2, <1>5
<1> QED BY <1>3, <1>4, <1>5, <1>6, <1>7 DEF Fetches

(* Time makes a stamp older, and keeps the types: what is due at a limit   *)
(* is done before the time that would exceed it.                           *)
LEMMA OlderBy ==
    ASSUME skew \in -MaxSkew .. MaxSkew, NEW age \in -MaxSkew .. Old
    PROVE  /\ Older(age) \in -MaxSkew .. Old
           /\ age <= Older(age) /\ Older(age) <= age + 1
           /\ age = Old \/ Older(age) = age + 1
<1>1. age \in Int /\ Old \in Nat /\ MaxSkew \in Nat /\ -MaxSkew <= age /\ age <= Old
  BY Times
<1>2. CASE age < Old
  BY <1>1, <1>2 DEF Older
<1>3. CASE ~ (age < Old)
  BY <1>1, <1>3 DEF Older
<1> QED BY <1>2, <1>3

(* Time keeps the types: what is due bounds every age.                     *)
LEMMA TickTypes ==
    ASSUME TypeOK, Tick
    PROVE  TypeOK'
<1> skew \in -MaxSkew .. MaxSkew /\ SeenTypes /\ HandlerTypes /\ LoopTypes /\ PageTypes
  BY TypesSplit
<1>1. SeenTypes'
  <2>1. seen \in -MaxSkew .. Old /\ silence \in -MaxSkew .. Old /\ silence >= 0
    BY Times DEF SeenTypes
  <2>2. Older(silence) >= 0
    BY <2>1, OlderBy, Times
  <2>3. Older(seen) \in -MaxSkew .. Old /\ Older(silence) \in -MaxSkew .. Old
    BY <2>1, OlderBy
  <2> QED BY <2>2, <2>3, Times DEF Tick, SeenTypes
<1>2. HandlerTypes'
  <2>1. ASSUME NEW h \in Handlers
        PROVE  /\ handler'[h] \in HandlerStates
               /\ handler'[h].at = handler[h].at
    <3>1. handler[h] \in HandlerStates
      BY DEF HandlerTypes
    <3>2. CASE handler[h].at \in {"stamped", "updated"}
      <4>1. handler[h].age < Lag
        BY <3>2 DEF Tick, NothingDue
      <4>2. handler[h].age + 1 \in 0 .. Lag
        BY <3>1, <4>1, Times DEF HandlerStates
      <4>3. handler'[h] = [handler[h] EXCEPT !.age = @ + 1]
        BY <3>2 DEF Tick
      <4> QED BY <3>1, <4>2, <4>3 DEF HandlerStates
    <3>3. CASE handler[h].at \notin {"stamped", "updated"}
      <4>1. handler'[h] = handler[h]
        BY <3>3 DEF Tick
      <4> QED BY <3>1, <4>1
    <3> QED BY <3>2, <3>3
  <2>2. handler' = [h \in Handlers |-> handler'[h]]
    BY DEF Tick
  <2>3. handler' \in [Handlers -> HandlerStates]
    BY <2>1, <2>2
  <2> QED BY <2>1, <2>3 DEF Tick, HandlerTypes
<1>3. LoopTypes'
  BY DEF Tick, LoopTypes
<1>4. PageTypes'
  <2>1. polled' \in 0 .. PollInterval
    BY Times DEF Tick, NothingDue, PageTypes
  <2>2. fetch' \in [at : {"none", "asked", "read"}, online : BOOLEAN, age : 0 .. FetchTime]
    <3>1. CASE fetch = NoFetch
      BY <3>1 DEF Tick, PageTypes
    <3>2. CASE fetch # NoFetch
      <4>1. fetch.age + 1 \in 0 .. FetchTime
        BY <3>2, Times DEF Tick, NothingDue, PageTypes
      <4> QED BY <3>2, <4>1 DEF Tick, PageTypes
    <3> QED BY <3>1, <3>2
  <2> QED BY <2>1, <2>2 DEF Tick, PageTypes
<1>5. skew' \in -MaxSkew .. MaxSkew
  BY DEF Tick
<1>6. TypeOK'
  BY <1>1, <1>2, <1>3, <1>4, <1>5 DEF TypeOK, SeenTypes, HandlerTypes, LoopTypes, PageTypes
<1> QED BY <1>6

(* Every step keeps the types.                                             *)
LEMMA TypesKept ==
    ASSUME TypeOK, LoopOK, Next
    PROVE  TypeOK'
<1> skew \in -MaxSkew .. MaxSkew /\ SeenTypes /\ HandlerTypes /\ LoopTypes /\ PageTypes
  BY TypesSplit
<1> DEFINE Split == /\ skew' \in -MaxSkew .. MaxSkew
                    /\ SeenTypes' /\ HandlerTypes' /\ LoopTypes' /\ PageTypes'
<1> SUFFICES Split
  BY DEF TypeOK, SeenTypes, HandlerTypes, LoopTypes, PageTypes
<1>1. ASSUME NEW h \in Handlers,
             Post(h) \/ Stamp(h) \/ BeginEvent(h) \/ Update(h) \/ Commit(h) \/ Abort(h)
      PROVE  Split
  <2>1. HandlerTypes'
    BY <1>1, HandlerTypesKept
  <2>2. PageTypes' /\ UNCHANGED skew
    BY <1>1 DEF Post, Stamp, BeginEvent, Update, Commit, Abort, PageTypes, browser
  <2>3. SeenTypes'
    <3>1. CASE Commit(h)
      <4>1. silence' \in 0 .. Old /\ seen' \in -MaxSkew .. Old
        BY <3>1, CommitSeen, Times DEF Old
      <4> QED BY <4>1 DEF SeenTypes
    <3>2. CASE ~ Commit(h)
      <4>1. UNCHANGED <<seen, silence>>
        BY <1>1, <3>2 DEF Post, Stamp, BeginEvent, Update, Abort
      <4> QED BY <4>1 DEF SeenTypes
    <3> QED BY <3>1, <3>2
  <2>4. LoopTypes'
    <3>1. CASE Commit(h)
      <4>1. loop' = loop \/ loop' = [at |-> "recorded", on |-> Nobody, age |-> loop.age]
        BY <3>1, OutcomeKept DEF Commit
      <4>2. misses' \in {0, misses}
        BY <3>1 DEF Commit
      <4> QED BY <4>1, <4>2, Times DEF LoopTypes, Waiting
    <3>2. CASE Abort(h)
      <4>1. loop' = loop \/ loop' = [at |-> "refused", on |-> Nobody, age |-> loop.age]
        BY <3>2, OutcomeKept DEF Abort
      <4> QED BY <3>2, <4>1 DEF Abort, LoopTypes, Waiting
    <3>3. CASE Post(h)
      <4>1. loop' = [at |-> "waiting", on |-> h, age |-> 0] /\ UNCHANGED misses
        BY <3>3 DEF Post
      <4> QED BY <4>1 DEF LoopTypes, Waiting
    <3>4. CASE Stamp(h) \/ BeginEvent(h) \/ Update(h)
      BY <3>4 DEF Stamp, BeginEvent, Update, LoopTypes, simulator
    <3> QED BY <1>1, <3>1, <3>2, <3>3, <3>4
  <2> QED BY <2>1, <2>2, <2>3, <2>4
<1>2. CASE Fail \/ Answer \/ Die \/ Start
  <2>1. UNCHANGED <<skew, server, browser>>
    BY <1>2 DEF Fail, Answer, Die, Start
  <2>2. LoopTypes'
    <3>1. \/ loop' = [at |-> "sleeping", on |-> Nobody, age |-> 0]
          \/ loop' = [at |-> "sleeping", on |-> Nobody, age |-> Interval]
          \/ loop' = [at |-> "dead", on |-> Nobody, age |-> 0]
      BY <1>2 DEF Fail, Answer, Die, Start, Sleeping
    <3>2. misses' \in 0 .. MaxMisses
      BY <1>2, Times DEF Fail, Answer, Die, Start, LoopTypes
    <3> QED BY <3>1, <3>2, Times DEF LoopTypes
  <2> QED BY <2>1, <2>2 DEF server, browser, SeenTypes, HandlerTypes, PageTypes
<1>3. CASE ListStores \/ Refresh \/ Poll \/ Show \/ FetchFails
  <2>1. UNCHANGED <<skew, server, simulator>>
    BY <1>3 DEF ListStores, Refresh, Poll, Show, FetchFails, EndFetch
  <2>2. PageTypes'
    <3>1. CASE ListStores
      <4>1. fetch' = [at |-> "read", online |-> IsStoreOnline(seen), age |-> fetch.age]
            /\ UNCHANGED <<pending, polled, page>>
        BY <3>1 DEF ListStores, PageTypes
      <4>2. IsStoreOnline(seen) \in BOOLEAN /\ fetch.age \in 0 .. FetchTime
        BY DEF PageTypes, IsStoreOnline
      <4>3. fetch' \in [at : {"none", "asked", "read"}, online : BOOLEAN, age : 0 .. FetchTime]
        BY <4>1, <4>2
      <4> QED BY <4>1, <4>3, Zenon DEF PageTypes
    <3>2. CASE Refresh \/ Poll
      <4>1. \/ fetch' = fetch
            \/ fetch' = [at |-> "asked", online |-> FALSE, age |-> 0]
        BY <3>2, AskIs DEF Refresh, Poll
      <4>2. polled' \in {0, polled} /\ pending' \in {TRUE, pending} /\ UNCHANGED page
        BY <3>2 DEF Refresh, Poll
      <4>3. [at |-> "asked", online |-> FALSE, age |-> 0]
                \in [at : {"none", "asked", "read"}, online : BOOLEAN, age : 0 .. FetchTime]
        BY Times
      <4>4. fetch' \in [at : {"none", "asked", "read"}, online : BOOLEAN, age : 0 .. FetchTime]
        BY <4>1, <4>3 DEF PageTypes
      <4>5. polled' \in 0 .. PollInterval
        BY <4>2, Times DEF PageTypes
      <4>6. pending' \in BOOLEAN
        BY <4>2, Zenon DEF PageTypes
      <4> QED BY <4>2, <4>4, <4>5, <4>6, Zenon DEF PageTypes
    <3>3. CASE Show \/ FetchFails
      <4>1. EndFetch /\ UNCHANGED polled
        BY <3>3 DEF Show, FetchFails, EndFetch
      <4>2. page' \in [online : BOOLEAN, error : BOOLEAN]
        <5>1. CASE Show
          <6>1. fetch.online \in BOOLEAN
            BY DEF PageTypes
          <6>2. page' = [online |-> fetch.online, error |-> FALSE]
            BY <5>1 DEF Show
          <6> QED BY <6>1, <6>2
        <5>2. CASE FetchFails
          BY <5>2 DEF FetchFails, PageTypes
        <5> QED BY <3>3, <5>1, <5>2
      <4>3. fetch' \in [at : {"none", "asked", "read"}, online : BOOLEAN, age : 0 .. FetchTime]
            /\ pending' = FALSE
        BY <4>1, EndFetchKept
      <4> QED BY <4>1, <4>2, <4>3 DEF PageTypes
    <3> QED BY <1>3, <3>1, <3>2, <3>3
  <2> QED BY <2>1, <2>2 DEF server, simulator, SeenTypes, HandlerTypes, LoopTypes
<1>4. CASE Tick
  BY <1>4, TickTypes DEF TypeOK, SeenTypes, HandlerTypes, LoopTypes, PageTypes
<1> QED BY <1>1, <1>2, <1>3, <1>4 DEF Next

-----------------------------------------------------------------------------
(* The heartbeat loop.  It waits for the request it has made until that    *)
(* request ends, or its timeout: a handler that is taken by another one    *)
(* is not the one it waits for.                                            *)
LEMMA LoopKept ==
    ASSUME TypeOK, LoopOK, Next
    PROVE  LoopOK'
<1> skew \in -MaxSkew .. MaxSkew /\ HandlerTypes /\ LoopTypes
  BY TypesSplit
<1> USE DEF Waiting
<1>1. ASSUME NEW h \in Handlers, Post(h) PROVE LoopOK'
  <2>1. loop' = [at |-> "waiting", on |-> h, age |-> 0] /\ handler'[h].kind = "heartbeat"
    BY <1>1 DEF Post, Become, HandlerTypes
  <2> QED BY <2>1, Times DEF LoopOK
<1>2. ASSUME NEW h \in Handlers, Stamp(h) \/ BeginEvent(h) \/ Update(h) PROVE LoopOK'
  <2>1. UNCHANGED loop
    BY <1>2 DEF Stamp, BeginEvent, Update, simulator
  <2>2. ASSUME loop.on # Nobody PROVE handler'[loop.on].kind = "heartbeat"
    <3>1. loop.on \in Handlers /\ handler[loop.on].kind = "heartbeat"
      BY <2>2 DEF LoopTypes, LoopOK
    <3>2. handler[h].kind = "heartbeat" => handler'[h].kind = "heartbeat"
      BY <1>2 DEF Stamp, BeginEvent, Update, Become, Free, HandlerTypes, HandlerStates
    <3>3. loop.on # h => handler'[loop.on] = handler[loop.on]
      BY <1>2, <3>1 DEF Stamp, BeginEvent, Update, Become, HandlerTypes
    <3> QED BY <3>1, <3>2, <3>3
  <2> QED BY <2>1, <2>2 DEF LoopOK
<1>3. ASSUME NEW h \in Handlers, NEW result \in {"recorded", "refused"},
             Outcome(h, result), Become(h, Free)
      PROVE  LoopOK'
  <2>1. CASE loop.on = h
    <3>1. loop' = [at |-> result, on |-> Nobody, age |-> loop.age] /\ loop.at = "waiting"
      BY <1>3, <2>1, OutcomeKept DEF LoopOK
    <3> QED BY <3>1 DEF LoopOK
  <2>2. CASE loop.on # h
    <3>1. loop' = loop
      BY <1>3, <2>2, OutcomeKept
    <3>2. loop.on # Nobody => handler'[loop.on] = handler[loop.on]
      BY <1>3, <2>2 DEF Become, LoopTypes, HandlerTypes
    <3> QED BY <3>1, <3>2 DEF LoopOK
  <2> QED BY <2>1, <2>2
<1>4. ASSUME NEW h \in Handlers, Commit(h) \/ Abort(h) PROVE LoopOK'
  BY <1>3, <1>4 DEF Commit, Abort
<1>5. CASE Fail \/ Answer \/ Die \/ Start
  <2>1. loop' = [at |-> "dead", on |-> Nobody, age |-> 0]
        \/ \E age \in {0, Interval} : loop' = [at |-> "sleeping", on |-> Nobody, age |-> age]
    BY <1>5 DEF Fail, Answer, Die, Start, Sleeping
  <2> QED BY <2>1, Times DEF LoopOK
<1>6. CASE ListStores \/ Refresh \/ Poll \/ Show \/ FetchFails
  <2>1. UNCHANGED <<server, simulator>>
    BY <1>6 DEF ListStores, Refresh, Poll, Show, FetchFails, EndFetch
  <2> QED BY <2>1 DEF server, simulator, LoopOK
<1>7. CASE Tick
  <2>1. loop.at # "dead" => loop' = [loop EXCEPT !.age = loop.age + 1]
    BY <1>7 DEF Tick
  <2>2. /\ loop'.at = loop.at /\ loop'.on = loop.on
        /\ loop.at = "sleeping" => loop'.age <= Interval
        /\ loop.at \in Waiting => loop'.age <= Timeout
    BY <1>7, <2>1, Times DEF Tick, NothingDue, LoopTypes
  <2>3. loop.on # Nobody => handler'[loop.on].kind = handler[loop.on].kind
    <3>1. ASSUME NEW h \in Handlers PROVE handler'[h].kind = handler[h].kind
      BY <1>7 DEF Tick, HandlerTypes, HandlerStates
    <3> QED BY <3>1 DEF LoopTypes
  <2> QED BY <2>2, <2>3 DEF LoopOK
<1> QED BY <1>1, <1>2, <1>4, <1>5, <1>6, <1>7 DEF Next

(* How old last_seen_at may be.  A heartbeat that is recorded makes it as  *)
(* recent as its transaction, by whatever clock; a miss comes at the end   *)
(* of a wait, so after no more than a period.                              *)
LEMMA BeatingKept ==
    ASSUME TypeOK, LoopOK, Beating, Next
    PROVE  Beating'
<1> skew \in -MaxSkew .. MaxSkew /\ SeenTypes /\ HandlerTypes /\ LoopTypes
  BY TypesSplit
<1> /\ Interval \in Nat /\ Timeout \in Nat /\ Lag \in Nat /\ MaxMisses \in Nat /\ Behind \in Nat
    /\ Period \in Nat /\ Period = Interval + Timeout
    /\ misses \in Nat /\ misses <= MaxMisses /\ loop.age \in Nat
    /\ seen \in Int /\ seen >= -MaxSkew /\ MaxSkew \in Nat
  BY Times DEF Period, LoopTypes, SeenTypes
<1> Gap(misses) \in Nat /\ Gap(misses + 1) = Gap(misses) + Period /\ Gap(0) = Lag + Behind
  BY GapGrows
<1>0. UNCHANGED skew
  BY DEF Next, Post, Stamp, BeginEvent, Update, Commit, Abort, Fail, Answer, Die, Start, ListStores,
         Refresh, Poll, Show, FetchFails, EndFetch, Tick
<1>1. ASSUME NEW n \in Nat, misses' = n,
             n < MaxMisses =>
                 /\ loop'.at # "dead"
                 /\ loop'.at = "sleeping" => seen' <= Gap(n) + Timeout + loop'.age
                 /\ loop'.at \in {"waiting", "refused"} => seen' <= Gap(n) + Period + loop'.age
                 /\ loop'.at = "recorded" => n = 0 /\ seen' <= Gap(n) + 0 + loop'.age
      PROVE  Beating'
  BY <1>0, <1>1 DEF Beating, SeenWithin, Gap, Behind, Period
<1>2. ASSUME misses < MaxMisses
      PROVE  /\ loop.at # "dead"
             /\ loop.at = "sleeping" => seen <= Gap(misses) + Timeout + loop.age
             /\ loop.at \in {"waiting", "refused"} => seen <= Gap(misses) + Period + loop.age
             /\ loop.at = "recorded" => misses = 0 /\ seen <= Gap(misses) + 0 + loop.age
  BY <1>2 DEF Beating, SeenWithin
<1> HIDE DEF Gap
<1>3. ASSUME NEW h \in Handlers, Post(h) PROVE Beating'
  <2>1. /\ loop.at = "sleeping" /\ loop.age = Interval
        /\ loop' = [at |-> "waiting", on |-> h, age |-> 0] /\ UNCHANGED <<seen, misses>>
    BY <1>3 DEF Post
  <2>2. misses < MaxMisses => seen' <= Gap(misses) + Period + 0
    BY <1>2, <2>1
  <2> QED BY <1>1, <2>1, <2>2
<1>4. ASSUME NEW h \in Handlers, Stamp(h) \/ BeginEvent(h) \/ Update(h) PROVE Beating'
  <2>1. UNCHANGED <<seen, misses, loop>>
    BY <1>4 DEF Stamp, BeginEvent, Update, simulator
  <2> QED BY <1>1, <1>2, <2>1
<1>5. ASSUME NEW h \in Handlers, Commit(h) PROVE Beating'
  <2>1. seen' \in Int /\ seen' <= Lag + Behind
    BY <1>5, CommitSeen
  <2>2. seen' <= Gap(0) /\ Gap(0) <= Gap(misses)
    BY <2>1 DEF Gap
  <2>3. \/ loop.on = h /\ loop' = [at |-> "recorded", on |-> Nobody, age |-> loop.age]
        \/ loop.on # h /\ loop' = loop
    BY <1>5, OutcomeKept DEF Commit
  <2>4. loop'.age = loop.age
    BY <2>3
  <2>5. CASE handler[h].kind = "heartbeat" /\ loop.at # "dead"
    <3>1. misses' = 0 /\ loop'.at # "dead"
      BY <1>5, <2>3, <2>5 DEF Commit
    <3> QED BY <1>1, <2>1, <2>2, <2>4, <3>1
  <2>6. CASE ~ (handler[h].kind = "heartbeat" /\ loop.at # "dead")
    <3>1. misses' = misses
      BY <1>5, <2>6 DEF Commit
    <3>2. loop.on # h
      BY <2>6 DEF LoopOK
    <3>3. loop' = loop
      BY <2>3, <3>2
    <3> QED BY <1>1, <1>2, <2>1, <2>2, <3>1, <3>3
  <2> QED BY <2>5, <2>6
<1>6. ASSUME NEW h \in Handlers, Abort(h) PROVE Beating'
  <2>1. UNCHANGED <<seen, misses>>
    BY <1>6 DEF Abort
  <2>2. CASE loop.on = h
    <3>1. loop.at = "waiting" /\ loop' = [at |-> "refused", on |-> Nobody, age |-> loop.age]
      BY <1>6, <2>2, OutcomeKept DEF Abort, LoopOK
    <3> QED BY <1>1, <1>2, <2>1, <3>1
  <2>3. CASE loop.on # h
    <3>1. loop' = loop
      BY <1>6, <2>3, OutcomeKept DEF Abort
    <3> QED BY <1>1, <1>2, <2>1, <3>1
  <2> QED BY <2>2, <2>3
<1>7. CASE Fail
  <2>1. /\ loop.at \in Waiting /\ loop.age <= Timeout /\ UNCHANGED seen
        /\ loop' = [at |-> "sleeping", on |-> Nobody, age |-> 0]
    BY <1>7 DEF Fail, LoopOK, Sleeping, server
  <2>2. CASE loop.at # "recorded" /\ misses < MaxMisses
    <3>1. misses' = misses + 1
      BY <1>7, <2>2 DEF Fail
    <3>2. seen <= Gap(misses) + Period + loop.age
      BY <1>2, <2>1, <2>2 DEF Waiting
    <3>3. seen' <= Gap(misses + 1) + Timeout + 0
      BY <2>1, <3>2
    <3> QED BY <1>1, <2>1, <3>1, <3>3
  <2>3. CASE ~ (loop.at # "recorded" /\ misses < MaxMisses)
    <3>1. misses' = misses
      BY <1>7, <2>3 DEF Fail
    <3>2. misses < MaxMisses => seen' <= Gap(misses) + Timeout + 0
      BY <1>2, <2>1, <2>3
    <3> QED BY <1>1, <2>1, <3>1, <3>2
  <2> QED BY <2>2, <2>3
<1>8. CASE Answer
  <2>1. /\ loop.at = "recorded" /\ loop.age <= Timeout /\ UNCHANGED <<seen, misses>>
        /\ loop' = [at |-> "sleeping", on |-> Nobody, age |-> 0]
    BY <1>8 DEF Answer, LoopOK, Sleeping, server, Waiting
  <2>2. misses < MaxMisses => seen' <= Gap(misses) + Timeout + 0
    BY <1>2, <2>1
  <2> QED BY <1>1, <2>1, <2>2
<1>9. CASE Die
  BY <1>1, <1>9 DEF Die
<1>10. CASE Start
  <2>1. UNCHANGED misses /\ misses = MaxMisses
    BY <1>2, <1>10 DEF Start
  <2> QED BY <1>1, <2>1
<1>11. CASE ListStores \/ Refresh \/ Poll \/ Show \/ FetchFails
  <2>1. UNCHANGED <<seen, misses, loop>>
    BY <1>11 DEF ListStores, Refresh, Poll, Show, FetchFails, EndFetch, server, simulator
  <2> QED BY <1>1, <1>2, <2>1
<1>12. CASE Tick
  <2>1. seen' \in Int /\ seen' <= seen + 1 /\ UNCHANGED misses
    BY <1>12, OlderBy, Times DEF Tick, SeenTypes
  <2>2. loop.at # "dead" => loop'.at = loop.at /\ loop'.age = loop.age + 1
    BY <1>12 DEF Tick, LoopTypes
  <2> QED BY <1>1, <1>2, <2>1, <2>2
<1> QED BY <1>3, <1>4, <1>5, <1>6, <1>7, <1>8, <1>9, <1>10, <1>11, <1>12 DEF Next

-----------------------------------------------------------------------------
(* What the page shows.  Only a commit, an answer, the page and the time   *)
(* change something of it.                                                 *)
LEMMA ViewKept ==
    ASSUME TypeOK, LoopOK, silence <= seen + Ahead, Next
    PROVE  silence' <= seen' + Ahead'
<1> skew \in -MaxSkew .. MaxSkew /\ seen \in -MaxSkew .. Old /\ silence \in 0 .. Old
    /\ seen \in Int /\ silence \in Int /\ Ahead \in Nat /\ Old \in Nat
  BY Times DEF TypeOK
<1>1. Ahead' = Ahead
  BY DEF Next, Post, Stamp, BeginEvent, Update, Commit, Abort, Fail, Answer, Die, Start, ListStores,
         Refresh, Poll, Show, FetchFails, EndFetch, Tick, Ahead
<1>2. ASSUME NEW h \in Handlers, Commit(h) PROVE silence' <= seen' + Ahead
  BY <1>2, CommitSeen
<1>3. CASE Tick
  <2>1. seen' = Older(seen) /\ silence' = Older(silence)
    BY <1>3 DEF Tick
  <2> QED BY <1>1, <2>1 DEF Older
<1>4. CASE ~ Tick /\ \A h \in Handlers : ~ Commit(h)
  <2>1. UNCHANGED <<seen, silence>>
    BY <1>4 DEF Next, Post, Stamp, BeginEvent, Update, Abort, Fail, Answer, Die, Start, ListStores,
                Refresh, Poll, Show, FetchFails, EndFetch, server
  <2> QED BY <1>1, <2>1
<1> QED BY <1>1, <1>2, <1>3, <1>4

(* A request that nothing asked to repeat began after the timer fired: the *)
(* timer that fires during a request asks to repeat it.                    *)
LEMMA FetchFreshKept ==
    ASSUME TypeOK, FetchFresh, Next
    PROVE  FetchFresh'
<1> skew \in -MaxSkew .. MaxSkew /\ PageTypes
  BY TypesSplit
<1> fetch.age \in Nat /\ polled \in Nat /\ PollInterval \in Nat
  BY Times DEF PageTypes
<1>1. CASE UNCHANGED <<fetch, pending, polled>>
  BY <1>1 DEF FetchFresh
<1>2. CASE ListStores
  <2>1. fetch # NoFetch /\ fetch'.age = fetch.age /\ UNCHANGED <<pending, polled>>
    BY <1>2 DEF ListStores, NoFetch, PageTypes
  <2> QED BY <2>1 DEF FetchFresh
<1>3. CASE Refresh \/ Poll
  <2>1. CASE fetch = NoFetch
    <3>1. fetch'.age = 0 /\ polled' \in {0, polled}
      BY <1>3, <2>1, AskIs DEF Refresh, Poll
    <3> QED BY <3>1 DEF FetchFresh
  <2>2. CASE fetch # NoFetch
    BY <1>3, <2>2 DEF Refresh, Poll, FetchFresh
  <2> QED BY <2>1, <2>2
<1>4. CASE Show \/ FetchFails
  <2>1. EndFetch /\ UNCHANGED polled
    BY <1>4 DEF Show, FetchFails, EndFetch
  <2> QED BY <2>1, EndFetchKept DEF FetchFresh
<1>5. CASE Tick
  <2>1. UNCHANGED pending /\ polled' = polled + 1
    BY <1>5 DEF Tick
  <2>2. CASE fetch = NoFetch
    BY <1>5, <2>2 DEF Tick, FetchFresh
  <2>3. CASE fetch # NoFetch
    <3>1. fetch'.age = fetch.age + 1
      BY <1>5, <2>3 DEF Tick, PageTypes
    <3> QED BY <2>1, <2>3, <3>1 DEF FetchFresh
  <2> QED BY <2>2, <2>3
<1>6. ASSUME ~ (ListStores \/ Refresh \/ Poll \/ Show \/ FetchFails \/ Tick)
      PROVE  UNCHANGED <<fetch, pending, polled>>
  BY <1>6 DEF Next, Post, Stamp, BeginEvent, Update, Commit, Abort, Fail, Answer, Die, Start, browser
<1> QED BY <1>1, <1>2, <1>3, <1>4, <1>5, <1>6

(* An answer says online of a store that was not silent for longer than    *)
(* the threshold when it was read, and the page shows an answer until it   *)
(* has polled again.                                                       *)
LEMMA FreshKept ==
    ASSUME TypeOK, Lag <= Threshold, silence <= seen + Ahead, FetchFresh, AnswerFresh, PageFresh, Next
    PROVE  AnswerFresh' /\ PageFresh'
<1> skew \in -MaxSkew .. MaxSkew /\ PageTypes /\ SeenTypes
  BY TypesSplit
<1> /\ fetch.age \in Nat /\ fetch.age <= FetchTime /\ FetchTime <= PollInterval
    /\ polled \in Nat /\ polled <= PollInterval /\ PollInterval \in Nat /\ FetchTime \in Nat
    /\ Threshold \in Nat /\ Ahead \in Nat /\ Lag \in Nat
    /\ silence \in Nat /\ seen \in Int
  BY Times DEF PageTypes, SeenTypes
<1>0. UNCHANGED skew
  BY DEF Next, Post, Stamp, BeginEvent, Update, Commit, Abort, Fail, Answer, Die, Start, ListStores,
         Refresh, Poll, Show, FetchFails, EndFetch, Tick
<1> DEFINE S == Threshold + Ahead
<1> S \in Nat /\ S = Threshold + Ahead /\ Lag <= S
  OBVIOUS
<1>1. ASSUME /\ fetch'.at = "read" /\ fetch'.online => silence' <= S + fetch'.age
             /\ page'.online /\ ~ page'.error =>
                    /\ fetch' = NoFetch => silence' <= S + polled'
                    /\ fetch' # NoFetch => silence' <= S + (PollInterval + fetch'.age)
      PROVE  AnswerFresh' /\ PageFresh'
  BY <1>0, <1>1 DEF AnswerFresh, PageFresh, SilentWithin, Ahead
<1>2. /\ fetch.at = "read" /\ fetch.online => silence <= S + fetch.age
      /\ page.online /\ ~ page.error =>
             /\ fetch = NoFetch => silence <= S + polled
             /\ fetch # NoFetch => silence <= S + (PollInterval + fetch.age)
  BY DEF AnswerFresh, PageFresh, SilentWithin
<1> HIDE DEF S
<1>3. ASSUME NEW h \in Handlers, Commit(h) PROVE AnswerFresh' /\ PageFresh'
  <2>1. silence' \in Nat /\ silence' <= Lag /\ UNCHANGED <<fetch, polled, page>>
    BY <1>3, CommitSeen, Times DEF Commit, browser
  <2> QED BY <1>1, <2>1
<1>4. CASE ListStores
  <2>1. /\ fetch' = [fetch EXCEPT !.at = "read", !.online = IsStoreOnline(seen)]
        /\ fetch.at = "asked" /\ UNCHANGED <<silence, polled, page>>
    BY <1>4 DEF ListStores, server
  <2>2. fetch'.age = fetch.age /\ fetch'.at = "read"
    BY <2>1 DEF PageTypes
  <2>4. fetch'.online = IsStoreOnline(seen)
    BY <2>1, Zenon DEF PageTypes
  <2>5. fetch # NoFetch /\ fetch' # NoFetch
    <3>1. fetch.at = "asked"
      BY <2>1
    <3> QED BY <2>2, <3>1, AskIs
  <2>3. IsStoreOnline(seen) => silence <= S
    BY DEF IsStoreOnline, S
  <2> QED BY <1>1, <1>2, <2>1, <2>2, <2>3, <2>4, <2>5
<1>5. CASE Refresh \/ Poll
  <2>1. UNCHANGED <<silence, page>>
    BY <1>5 DEF Refresh, Poll, server
  <2>2. CASE fetch = NoFetch
    <3>1. fetch'.at = "asked" /\ fetch'.age = 0
      BY <1>5, <2>2, AskIs DEF Refresh, Poll
    <3>2. fetch' # NoFetch
      BY <3>1 DEF NoFetch
    <3> QED BY <1>1, <1>2, <2>1, <2>2, <3>1, <3>2
  <2>3. CASE fetch # NoFetch
    <3>1. UNCHANGED fetch
      BY <1>5, <2>3 DEF Refresh, Poll
    <3> QED BY <1>1, <1>2, <2>1, <2>3, <3>1
  <2> QED BY <2>2, <2>3
<1>6. ASSUME EndFetch,
             \/ page'.error
             \/ page'.online => silence <= S + fetch.age /\ fetch # NoFetch
      PROVE  AnswerFresh' /\ PageFresh'
  <2>1. fetch'.at # "read" /\ UNCHANGED <<silence, polled>>
        /\ \/ ~ pending /\ fetch' = NoFetch
           \/ pending /\ fetch' # NoFetch /\ fetch'.age = 0
    BY <1>6, EndFetchKept DEF server
  <2>2. CASE ~ pending /\ fetch' = NoFetch
    <3>1. fetch # NoFetch => fetch.age <= polled
      BY <2>2 DEF FetchFresh
    <3> QED BY <1>1, <1>6, <2>1, <2>2, <3>1
  <2>3. CASE pending /\ fetch' # NoFetch /\ fetch'.age = 0
    BY <1>1, <1>6, <2>1, <2>3
  <2> QED BY <2>1, <2>2, <2>3
<1>7. CASE Show
  <2>1. EndFetch /\ fetch.at = "read" /\ page'.online = fetch.online
    BY <1>7 DEF Show
  <2>2. fetch # NoFetch
    BY <2>1 DEF NoFetch
  <2> QED BY <1>2, <1>6, <2>1, <2>2
<1>8. CASE FetchFails
  <2>1. EndFetch /\ page'.error
    BY <1>8 DEF FetchFails, PageTypes
  <2> QED BY <1>6, <2>1
<1>9. CASE Tick
  <2>1. silence' \in Int /\ silence' <= silence + 1 /\ polled' = polled + 1 /\ UNCHANGED page
    BY <1>9, OlderBy, Times DEF Tick, SeenTypes
  <2>2. CASE fetch = NoFetch
    <3>1. fetch' = NoFetch /\ fetch'.at # "read"
      BY <1>9, <2>2 DEF Tick, NoFetch
    <3> QED BY <1>1, <1>2, <2>1, <2>2, <3>1
  <2>3. CASE fetch # NoFetch
    <3>1. fetch'.at = fetch.at /\ fetch'.online = fetch.online /\ fetch'.age = fetch.age + 1
      BY <1>9, <2>3 DEF Tick, PageTypes
    <3>2. fetch' # NoFetch
      BY <3>1 DEF NoFetch
    <3> QED BY <1>1, <1>2, <2>1, <2>3, <3>1, <3>2
  <2> QED BY <2>2, <2>3
<1>10. ASSUME ~ (ListStores \/ Refresh \/ Poll \/ Show \/ FetchFails \/ Tick),
              \A h \in Handlers : ~ Commit(h)
       PROVE  AnswerFresh' /\ PageFresh'
  <2>1. UNCHANGED <<silence, fetch, polled, page>>
    BY <1>10 DEF Next, Post, Stamp, BeginEvent, Update, Abort, Fail, Answer, Die, Start, server, browser
  <2> QED BY <1>1, <1>2, <2>1
<1> QED BY <1>3, <1>4, <1>5, <1>7, <1>8, <1>9, <1>10

-----------------------------------------------------------------------------
(* The bounds on what is seen, answered and shown hold in every state.     *)
THEOREM ConnectivityInvariant == Spec => []IInv
<1>1. Init => IInv
  BY InitIInv
<1>2. IInv /\ [Next]_vars => IInv'
  <2> SUFFICES ASSUME IInv, [Next]_vars PROVE IInv'
    OBVIOUS
  <2>1. CASE Next
    BY <2>1, TypesKept, LoopKept, BeatingKept, ViewKept, FetchFreshKept, FreshKept DEF IInv
  <2>2. CASE UNCHANGED vars
    BY <2>2 DEF vars, server, simulator, browser, IInv, TypeOK, LoopOK, Beating, SeenWithin, Gap, Behind,
                Ahead, FetchFresh, AnswerFresh, PageFresh, SilentWithin
  <2> QED BY <2>1, <2>2
<1> QED BY <1>1, <1>2, PTL DEF Spec

(* A store whose simulator beats is online, whatever number of heartbeats  *)
(* in a row is missed, as long as the threshold allows for it.             *)
THEOREM BeatingStoresAreOnline == Spec => []OnlineWhileBeating
<1>1. IInv => OnlineWhileBeating
  <2> SUFFICES ASSUME IInv, misses < MaxMisses, Gap(misses + 1) + Timeout <= Threshold
               PROVE  seen <= Threshold
    BY DEF OnlineWhileBeating, IsStoreOnline
  <2>1. skew \in -MaxSkew .. MaxSkew /\ LoopTypes /\ seen \in Int
    BY TypesSplit, Times DEF IInv, SeenTypes
  <2>2. /\ Gap(misses) \in Nat /\ Gap(misses + 1) = Gap(misses) + Period
        /\ Period = Interval + Timeout /\ Interval \in Nat /\ Timeout \in Nat
        /\ loop.age \in Nat /\ Threshold \in Nat
    BY <2>1, GapGrows, Times DEF LoopTypes, Period
  <2>3. seen <= Gap(misses) + Period + Timeout
    <3> USE DEF IInv, Beating, LoopOK, SeenWithin, Waiting
    <3> HIDE DEF Gap
    <3>1. CASE loop.at = "sleeping"
      BY <2>1, <2>2, <3>1
    <3>2. CASE loop.at \in {"waiting", "refused"}
      BY <2>1, <2>2, <3>2
    <3>3. CASE loop.at = "recorded"
      BY <2>1, <2>2, <3>3
    <3> QED BY <2>1, <3>1, <3>2, <3>3 DEF LoopTypes
  <2> QED BY <2>1, <2>2, <2>3
<1> QED BY <1>1, ConnectivityInvariant, PTL

(* A store that is silent is shown offline after the threshold, a poll and *)
(* an answer, if no transaction is longer than the threshold.              *)
THEOREM SilentStoresAreShown ==
    ASSUME Lag <= Threshold
    PROVE  Spec => []SilenceIsShown
<1>1. IInv => SilenceIsShown
  <2> SUFFICES ASSUME IInv, page.online, ~ page.error
               PROVE  silence <= Threshold + Ahead + PollInterval + FetchTime
    BY DEF SilenceIsShown
  <2>1. skew \in -MaxSkew .. MaxSkew /\ PageTypes /\ silence \in Int
    BY TypesSplit, Times DEF IInv, SeenTypes
  <2>2. SilentWithin(IF fetch = NoFetch THEN polled ELSE PollInterval + fetch.age)
    BY DEF IInv, PageFresh
  <2>3. /\ fetch.age \in Nat /\ fetch.age <= FetchTime /\ polled \in Nat /\ polled <= PollInterval
        /\ Threshold \in Nat /\ Ahead \in Nat /\ PollInterval \in Nat /\ FetchTime \in Nat
    BY <2>1, Times DEF PageTypes
  <2> QED BY <2>1, <2>2, <2>3 DEF SilentWithin
<1> QED BY <1>1, ConnectivityInvariant, PTL
=============================================================================
