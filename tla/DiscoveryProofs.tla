--------------------------- MODULE DiscoveryProofs ---------------------------
(***************************************************************************)
(* What Discovery promises for any threads, time to live, number of pages  *)
(* and length of a call.  One invariant: when what is in the cache was     *)
(* read, against the clock, the stamp and the calls in flight (Times), and *)
(* what kind of listing can be where (Places, Kinds).                      *)
(***************************************************************************)
EXTENDS Discovery, TLAPS

\* Where a thread is says what it can have in hand.
PlaceOf(t) ==
    /\ pc[t] \in {"idle", "check", "stamped", "age", "read", "forget"} => hand[t] = Nothing /\ src[t] = "none"
    /\ pc[t] \in {"check", "stamped", "age", "read", "store", "stamp", "forget"} => what \in Cached
    /\ pc[t] \in {"store", "stamp"} => hand[t].pages > 0 /\ src[t] = "provider"
    /\ pc[t] = "fetch" => src[t] = "none" /\ hand[t].pages < MaxPages

\* A call in flight is not older than MaxCall, and neither is what it read.
FlightOf(t) ==
    /\ pc[t] \in Busy => clock <= begun[t] + MaxCall
    /\ pc[t] \in {"fetch", "store", "stamp"} /\ hand[t].pages > 0 => begun[t] <= hand[t].since
    /\ hand[t].since <= clock

\* What a thread at this place knows of the cache, whoever filled it.
KnowsOf(t) ==
    Held => /\ pc[t] \in {"stamp", "forget"} => begun[t] <= cache.since + MaxCall
            /\ pc[t] = "read" => begun[t] < cache.since + Ttl + 2 * MaxCall

CacheTimes ==
    /\ cache.since <= clock
    /\ Held /\ stamp # Never => stamp <= cache.since + 2 * MaxCall
    /\ ForgetBounded

CutOf(l) == what = "pricing" /\ l.more => l.pages = MaxPages

KindOf(t) == pc[t] \in {"store", "stamp", "returned"} => CutOf(hand[t])

CacheKind == CutOf(cache) /\ (cache.of # {} => Held)

AgeOf(t) == pc[t] = "returned" /\ src[t] = "cache" =>
              begun[t] < hand[t].since + Ttl + 2 * MaxCall

AskedOf(t) == what = "catalog" /\ pc[t] = "returned" /\ src[t] # "fallback" => hand[t].of # {}

ThreadInv(t) == PlaceOf(t) /\ FlightOf(t) /\ KnowsOf(t) /\ KindOf(t) /\ AgeOf(t) /\ AskedOf(t)

Inv == /\ DiscoveryTypeOK
       /\ CacheTimes /\ CacheKind
       /\ \A t \in Threads : ThreadInv(t)

USE DiscoveryAssumption

\* A page grown onto a listing is a listing, as long as there is room for one.
LEMMA GrownListing ==
    ASSUME clock \in Nat, NEW h \in Listing, h.pages < MaxPages,
           NEW more \in BOOLEAN, NEW of \in SUBSET Developers
    PROVE  Grown(h, more, of) \in Listing
BY DEF Grown, Listing

\* What a call wants is some of the developers.
LEMMA AskType ==
    ASSUME asked \in [Threads -> SUBSET Developers], NEW t \in Threads, Ask(t)
    PROVE  asked' \in [Threads -> SUBSET Developers]
BY DEF Ask, Wishes

\* The initial state satisfies the invariant.
LEMMA InitInv == Init => Inv
BY DEF Init, Inv, DiscoveryTypeOK, CacheTimes, CacheKind, ThreadInv, PlaceOf, FlightOf, KnowsOf,
       KindOf, AgeOf, AskedOf, CutOf, ForgetBounded, Held, Nothing, Listing, Listings, Cached,
       Paged, Busy, Ended, Sources, Never

\* A call begins with nothing in hand.
LEMMA BeginInv == ASSUME Inv, NEW t \in Threads, Begin(t) PROVE Inv'
<1>1. hand \in [Threads -> Listing]
  BY DEF Inv, DiscoveryTypeOK
<1>2. DiscoveryTypeOK'
  BY <1>1 DEF Inv, DiscoveryTypeOK, Begin, Goto, Say, globals, Busy, Ended, Sources
<1>3. CacheTimes' /\ CacheKind'
  BY DEF Inv, CacheTimes, CacheKind, CutOf, ForgetBounded, Held, Begin, Goto, Say, globals
<1>4. ASSUME NEW u \in Threads PROVE ThreadInv(u)'
  <2>1. CASE u = t
    BY <2>1 DEF Inv, DiscoveryTypeOK, CacheTimes, CacheKind, ThreadInv, PlaceOf, FlightOf,
       KnowsOf, KindOf, AgeOf, AskedOf, CutOf, Held, Begin, Goto, Say, globals, Busy, Ended,
       Cached, Paged, Nothing, Grown, Listing, Never
  <2>2. CASE u # t
    BY <2>2 DEF Inv, DiscoveryTypeOK, ThreadInv, PlaceOf, FlightOf, KnowsOf, KindOf, AgeOf,
       AskedOf, CutOf, Held, Begin, Goto, Say, globals
  <2>. QED BY <2>1, <2>2
<1>. QED BY <1>2, <1>3, <1>4 DEF Inv

\* Looking at the cache changes nothing.
LEMMA CheckInv == ASSUME Inv, NEW t \in Threads, Check(t) PROVE Inv'
<1>1. hand \in [Threads -> Listing]
  BY DEF Inv, DiscoveryTypeOK
<1>2. DiscoveryTypeOK'
  BY <1>1 DEF Inv, DiscoveryTypeOK, Check, From, Goto, call, globals, Busy
<1>3. CacheTimes' /\ CacheKind'
  BY DEF Inv, CacheTimes, CacheKind, CutOf, ForgetBounded, Held, Check, From, Goto, call,
     globals
<1>4. ASSUME NEW u \in Threads PROVE ThreadInv(u)'
  <2>1. CASE u = t
    BY <2>1 DEF Inv, DiscoveryTypeOK, CacheTimes, CacheKind, ThreadInv, PlaceOf, FlightOf,
       KnowsOf, KindOf, AgeOf, AskedOf, CutOf, Held, Check, From, Goto, call, globals, Busy,
       Ended, Cached, Paged, Nothing, Grown, Listing, Never
  <2>2. CASE u # t
    BY <2>2 DEF Inv, DiscoveryTypeOK, ThreadInv, PlaceOf, FlightOf, KnowsOf, KindOf, AgeOf,
       AskedOf, CutOf, Held, Check, From, Goto, call, globals
  <2>. QED BY <2>1, <2>2
<1>. QED BY <1>2, <1>3, <1>4 DEF Inv

\* Neither does looking at the time it was stored.
LEMMA StampedInv == ASSUME Inv, NEW t \in Threads, Stamped(t) PROVE Inv'
<1>1. hand \in [Threads -> Listing]
  BY DEF Inv, DiscoveryTypeOK
<1>2. DiscoveryTypeOK'
  BY <1>1 DEF Inv, DiscoveryTypeOK, Stamped, From, Goto, call, globals, Busy
<1>3. CacheTimes' /\ CacheKind'
  BY DEF Inv, CacheTimes, CacheKind, CutOf, ForgetBounded, Held, Stamped, From, Goto, call,
     globals
<1>4. ASSUME NEW u \in Threads PROVE ThreadInv(u)'
  <2>1. CASE u = t
    BY <2>1 DEF Inv, DiscoveryTypeOK, CacheTimes, CacheKind, ThreadInv, PlaceOf, FlightOf,
       KnowsOf, KindOf, AgeOf, AskedOf, CutOf, Held, Stamped, From, Goto, call, globals, Busy,
       Ended, Cached, Paged, Nothing, Grown, Listing, Never
  <2>2. CASE u # t
    BY <2>2 DEF Inv, DiscoveryTypeOK, ThreadInv, PlaceOf, FlightOf, KnowsOf, KindOf, AgeOf,
       AskedOf, CutOf, Held, Stamped, From, Goto, call, globals
  <2>. QED BY <2>1, <2>2
<1>. QED BY <1>2, <1>3, <1>4 DEF Inv

\* A stamp found fresh bounds the age of what is in the cache.
LEMMA AgeInv == ASSUME Inv, NEW t \in Threads, Age(t) PROVE Inv'
<1>1. hand \in [Threads -> Listing]
  BY DEF Inv, DiscoveryTypeOK
<1>2. DiscoveryTypeOK'
  BY <1>1 DEF Inv, DiscoveryTypeOK, Age, Fresh, From, Goto, call, globals, Busy, Ended, Never
<1>3. CacheTimes' /\ CacheKind'
  BY DEF Inv, CacheTimes, CacheKind, CutOf, ForgetBounded, Held, Age, Fresh, From, Goto, call,
     globals
<1>4. ASSUME NEW u \in Threads PROVE ThreadInv(u)'
  <2>1. CASE u = t
    BY <2>1 DEF Inv, DiscoveryTypeOK, CacheTimes, CacheKind, ThreadInv, PlaceOf, FlightOf,
       KnowsOf, KindOf, AgeOf, AskedOf, CutOf, Held, Age, Fresh, From, Goto, call, globals,
       Busy, Ended, Cached, Paged, Nothing, Grown, Listing, Never
  <2>2. CASE u # t
    BY <2>2 DEF Inv, DiscoveryTypeOK, ThreadInv, PlaceOf, FlightOf, KnowsOf, KindOf, AgeOf,
       AskedOf, CutOf, Held, Age, Fresh, From, Goto, call, globals
  <2>. QED BY <2>1, <2>2
<1>. QED BY <1>2, <1>3, <1>4 DEF Inv

\* What is read is as old as was known.
LEMMA ReadInv == ASSUME Inv, NEW t \in Threads, Read(t) PROVE Inv'
<1>1. hand \in [Threads -> Listing]
  BY DEF Inv, DiscoveryTypeOK
<1>2. DiscoveryTypeOK'
  BY <1>1, AskType DEF Inv, DiscoveryTypeOK, Read, From, Goto, Take, Say, call, globals, Busy, Ended,
     Sources
<1>3. CacheTimes' /\ CacheKind'
  BY DEF Inv, CacheTimes, CacheKind, CutOf, ForgetBounded, Held, Read, From, Goto, Take, Say,
     call, globals
<1>4. ASSUME NEW u \in Threads PROVE ThreadInv(u)'
  <2>1. CASE u = t
    BY <2>1 DEF Inv, DiscoveryTypeOK, CacheTimes, CacheKind, ThreadInv, PlaceOf, FlightOf,
       KnowsOf, KindOf, AgeOf, AskedOf, CutOf, Held, Read, From, Goto, Take, Say, call, globals,
       Busy, Ended, Cached, Paged, Nothing, Grown, Listing, Never
  <2>2. CASE u # t
    BY <2>2 DEF Inv, DiscoveryTypeOK, ThreadInv, PlaceOf, FlightOf, KnowsOf, KindOf, AgeOf,
       AskedOf, CutOf, Held, Read, From, Goto, Take, Say, call, globals
  <2>. QED BY <2>1, <2>2
<1>. QED BY <1>2, <1>3, <1>4 DEF Inv

\* Another page leaves the time of the first.
LEMMA AnotherPageInv == ASSUME Inv, NEW t \in Threads, AnotherPage(t) PROVE Inv'
<1>1. \A more \in BOOLEAN, of \in SUBSET Developers : Grown(hand[t], more, of) \in Listing
  BY GrownListing DEF Inv, DiscoveryTypeOK, ThreadInv, PlaceOf, AnotherPage, From, Nothing,
     Listing
<1>2. DiscoveryTypeOK'
  BY <1>1 DEF Inv, DiscoveryTypeOK, AnotherPage, Take, call, globals
<1>3. CacheTimes' /\ CacheKind'
  BY DEF Inv, CacheTimes, CacheKind, CutOf, ForgetBounded, Held, AnotherPage, Take, call,
     globals
<1>4. ASSUME NEW u \in Threads PROVE ThreadInv(u)'
  <2>1. CASE u = t
    BY <2>1 DEF Inv, DiscoveryTypeOK, CacheTimes, CacheKind, ThreadInv, PlaceOf, FlightOf,
       KnowsOf, KindOf, AgeOf, AskedOf, CutOf, Held, AnotherPage, Take, call, globals, Busy,
       Ended, Cached, Paged, Nothing, Grown, Listing, Never
  <2>2. CASE u # t
    BY <2>2 DEF Inv, DiscoveryTypeOK, ThreadInv, PlaceOf, FlightOf, KnowsOf, KindOf, AgeOf,
       AskedOf, CutOf, Held, AnotherPage, Take, call, globals
  <2>. QED BY <2>1, <2>2
<1>. QED BY <1>2, <1>3, <1>4 DEF Inv

\* A listing that is stored was read by this call.
LEMMA LastPageInv == ASSUME Inv, NEW t \in Threads, LastPage(t) PROVE Inv'
<1>1. \A more \in BOOLEAN, of \in SUBSET Developers : Grown(hand[t], more, of) \in Listing
  BY GrownListing DEF Inv, DiscoveryTypeOK, ThreadInv, PlaceOf, LastPage, From, Nothing, Listing
<1>2. DiscoveryTypeOK'
  BY <1>1 DEF Inv, DiscoveryTypeOK, LastPage, From, Goto, Take, Say, call, globals, Busy, Ended,
     Sources, Cached, Paged
<1>3. CacheTimes' /\ CacheKind'
  BY DEF Inv, CacheTimes, CacheKind, CutOf, ForgetBounded, Held, LastPage, From, Goto, Take,
     Say, call, globals
<1>4. ASSUME NEW u \in Threads PROVE ThreadInv(u)'
  <2>1. CASE u = t
    BY <2>1 DEF Inv, DiscoveryTypeOK, CacheTimes, CacheKind, ThreadInv, PlaceOf, FlightOf,
       KnowsOf, KindOf, AgeOf, AskedOf, CutOf, Held, LastPage, From, Goto, Take, Say, call,
       globals, Busy, Ended, Cached, Paged, Nothing, Grown, Listing, Never
  <2>2. CASE u # t
    BY <2>2 DEF Inv, DiscoveryTypeOK, ThreadInv, PlaceOf, FlightOf, KnowsOf, KindOf, AgeOf,
       AskedOf, CutOf, Held, LastPage, From, Goto, Take, Say, call, globals
  <2>. QED BY <2>1, <2>2
<1>. QED BY <1>2, <1>3, <1>4 DEF Inv

\* An error leaves nothing, or what costs were read.
LEMMA FailsInv == ASSUME Inv, NEW t \in Threads, Fails(t) PROVE Inv'
<1>1. /\ hand' \in [Threads -> Listing] /\ src' \in [Threads -> Sources]
      /\ pc' \in [Threads -> Busy \union Ended \union {"idle"}]
  <2>1. CASE what = "costs"
    BY <2>1 DEF Inv, DiscoveryTypeOK, Fails, From, Goto, Take, Say, Busy, Ended, Sources
  <2>2. CASE what # "costs"
    <3>1. Nothing \in Listing
      BY DEF Nothing, Listing
    <3>. QED
      BY <2>2, <3>1 DEF Inv, DiscoveryTypeOK, Fails, From, Goto, Take, Say, Busy, Ended, Sources
  <2>. QED BY <2>1, <2>2
<1>2. DiscoveryTypeOK'
  BY <1>1 DEF Inv, DiscoveryTypeOK, Fails, call, globals
<1>3. CacheTimes' /\ CacheKind'
  BY DEF Inv, CacheTimes, CacheKind, CutOf, ForgetBounded, Held, Fails, From, Goto, Take, Say,
     call, globals
<1>4. ASSUME NEW u \in Threads PROVE ThreadInv(u)'
  <2>1. CASE u = t
    BY <2>1 DEF Inv, DiscoveryTypeOK, ThreadInv, PlaceOf, FlightOf, KnowsOf, KindOf, AgeOf,
       AskedOf, CutOf, Held, Fails, From, Goto, Take, Say, call, globals, Busy, Ended, Nothing,
       Listing
  <2>2. CASE u # t
    BY <2>2 DEF Inv, DiscoveryTypeOK, ThreadInv, PlaceOf, FlightOf, KnowsOf, KindOf, AgeOf,
       AskedOf, CutOf, Held, Fails, From, Goto, Take, Say, call, globals
  <2>. QED BY <2>1, <2>2
<1>. QED BY <1>2, <1>3, <1>4 DEF Inv

\* So does an exception.
LEMMA BreaksInv == ASSUME Inv, NEW t \in Threads, Breaks(t) PROVE Inv'
<1>1. hand \in [Threads -> Listing]
  BY DEF Inv, DiscoveryTypeOK
<1>2. DiscoveryTypeOK'
  BY <1>1 DEF Inv, DiscoveryTypeOK, Breaks, From, Goto, Take, call, globals, Busy, Ended,
     Nothing, Listing
<1>3. CacheTimes' /\ CacheKind'
  BY DEF Inv, CacheTimes, CacheKind, CutOf, ForgetBounded, Held, Breaks, From, Goto, Take, call,
     globals
<1>4. ASSUME NEW u \in Threads PROVE ThreadInv(u)'
  <2>1. CASE u = t
    BY <2>1 DEF Inv, DiscoveryTypeOK, CacheTimes, CacheKind, ThreadInv, PlaceOf, FlightOf,
       KnowsOf, KindOf, AgeOf, AskedOf, CutOf, Held, Breaks, From, Goto, Take, call, globals,
       Busy, Ended, Cached, Paged, Nothing, Grown, Listing, Never
  <2>2. CASE u # t
    BY <2>2 DEF Inv, DiscoveryTypeOK, ThreadInv, PlaceOf, FlightOf, KnowsOf, KindOf, AgeOf,
       AskedOf, CutOf, Held, Breaks, From, Goto, Take, call, globals
  <2>. QED BY <2>1, <2>2
<1>. QED BY <1>2, <1>3, <1>4 DEF Inv

\* A fallback is not cached.
LEMMA FallbackInv == ASSUME Inv, NEW t \in Threads, Fallback(t) PROVE Inv'
<1>1. \A more \in BOOLEAN, of \in SUBSET Developers : Grown(Nothing, more, of) \in Listing
  <2>1. Nothing \in Listing /\ Nothing.pages < MaxPages /\ clock \in Nat
    BY DEF Inv, DiscoveryTypeOK, Nothing, Listing
  <2>. QED BY <2>1, GrownListing
<1>2. DiscoveryTypeOK'
  <2>1. asked' \in [Threads -> SUBSET Developers]
    BY AskType DEF Inv, DiscoveryTypeOK, Fallback
  <2>2. hand' \in [Threads -> Listing]
    <3>1. hand \in [Threads -> Listing] BY DEF Inv, DiscoveryTypeOK
    <3>2. PICK of \in SUBSET asked'[t] : Take(t, Grown(Nothing, FALSE, of))
      BY DEF Fallback
    <3>3. Grown(Nothing, FALSE, of) \in Listing BY <1>1, <2>1
    <3>. QED BY <3>1, <3>2, <3>3 DEF Take
  <2>. QED
    BY <2>1, <2>2 DEF Inv, DiscoveryTypeOK, Fallback, From, Goto, Say, call, globals, Busy,
       Ended, Sources
<1>3. CacheTimes' /\ CacheKind'
  BY DEF Inv, CacheTimes, CacheKind, CutOf, ForgetBounded, Held, Fallback, From, Goto, Take,
     Say, call, globals
<1>4. ASSUME NEW u \in Threads PROVE ThreadInv(u)'
  <2>1. CASE u = t
    BY <2>1 DEF Inv, DiscoveryTypeOK, CacheTimes, CacheKind, ThreadInv, PlaceOf, FlightOf,
       KnowsOf, KindOf, AgeOf, AskedOf, CutOf, Held, Fallback, From, Goto, Take, Say, call,
       globals, Busy, Ended, Cached, Paged, Nothing, Grown, Listing, Never
  <2>2. CASE u # t
    BY <2>2 DEF Inv, DiscoveryTypeOK, ThreadInv, PlaceOf, FlightOf, KnowsOf, KindOf, AgeOf,
       AskedOf, CutOf, Held, Fallback, From, Goto, Take, Say, call, globals
  <2>. QED BY <2>1, <2>2
<1>. QED BY <1>2, <1>3, <1>4 DEF Inv

\* A call that is over knows nothing.
LEMMA LeaveInv == ASSUME Inv, NEW t \in Threads, Leave(t) PROVE Inv'
<1>1. hand \in [Threads -> Listing]
  BY DEF Inv, DiscoveryTypeOK
<1>2. DiscoveryTypeOK'
  BY <1>1 DEF Inv, DiscoveryTypeOK, Leave, Goto, Take, Say, call, globals, Busy, Ended, Sources,
     Nothing, Listing
<1>3. CacheTimes' /\ CacheKind'
  BY DEF Inv, CacheTimes, CacheKind, CutOf, ForgetBounded, Held, Leave, Goto, Take, Say, call,
     globals
<1>4. ASSUME NEW u \in Threads PROVE ThreadInv(u)'
  <2>1. CASE u = t
    BY <2>1 DEF Inv, DiscoveryTypeOK, CacheTimes, CacheKind, ThreadInv, PlaceOf, FlightOf,
       KnowsOf, KindOf, AgeOf, AskedOf, CutOf, Held, Leave, Goto, Take, Say, call, globals,
       Busy, Ended, Cached, Paged, Nothing, Grown, Listing, Never
  <2>2. CASE u # t
    BY <2>2 DEF Inv, DiscoveryTypeOK, ThreadInv, PlaceOf, FlightOf, KnowsOf, KindOf, AgeOf,
       AskedOf, CutOf, Held, Leave, Goto, Take, Say, call, globals
  <2>. QED BY <2>1, <2>2
<1>. QED BY <1>2, <1>3, <1>4 DEF Inv

\* Whoever stores, what it stores was read within its own call, so no earlier
\* than a call's time before now.
LEMMA StoreInv == ASSUME Inv, NEW t \in Threads, Store(t) PROVE Inv'
<1>1. /\ hand[t] \in Listing /\ hand[t].pages > 0
      /\ clock <= hand[t].since + MaxCall /\ hand[t].since <= clock
  BY DEF Inv, DiscoveryTypeOK, ThreadInv, PlaceOf, FlightOf, Store, From, Busy, Listing
<1>2. DiscoveryTypeOK'
  BY <1>1 DEF Inv, DiscoveryTypeOK, Store, From, Goto, call, Busy
<1>3. CacheTimes' /\ CacheKind'
  BY <1>1 DEF Inv, DiscoveryTypeOK, CacheTimes, CacheKind, ThreadInv, KindOf, CutOf,
     ForgetBounded,
              Held, Store, From, call, Listing, Never
<1>4. ASSUME NEW u \in Threads PROVE ThreadInv(u)'
  <2>1. /\ PlaceOf(u)' /\ FlightOf(u)' /\ KindOf(u)' /\ AgeOf(u)' /\ AskedOf(u)'
    BY DEF Inv, DiscoveryTypeOK, ThreadInv, PlaceOf, FlightOf, KnowsOf, KindOf, AgeOf, AskedOf,
       CutOf, Store, From, Goto, call, Busy
  <2>2. KnowsOf(u)'
    BY <1>1 DEF Inv, DiscoveryTypeOK, KnowsOf, Held, Store, From, Goto, call, Listing
  <2>. QED BY <2>1, <2>2 DEF ThreadInv
<1>. QED BY <1>2, <1>3, <1>4 DEF Inv

\* A thread that stamps knows how old what is in the cache can be, although it
\* need not be what the thread stored.
LEMMA StampInv == ASSUME Inv, NEW t \in Threads, Stamp(t) PROVE Inv'
<1>1. DiscoveryTypeOK'
  BY AskType DEF Inv, DiscoveryTypeOK, Stamp, From, Goto, call, Busy, Ended
<1>2. CacheTimes' /\ CacheKind'
  BY DEF Inv, DiscoveryTypeOK, CacheTimes, CacheKind, CutOf, ForgetBounded, ThreadInv, KnowsOf,
     FlightOf,
         Held, Stamp, From, call, Busy, Listing
<1>3. ASSUME NEW u \in Threads PROVE ThreadInv(u)'
  BY DEF Inv, DiscoveryTypeOK, ThreadInv, PlaceOf, FlightOf, KnowsOf, KindOf, AgeOf, AskedOf,
     CutOf, Held, Stamp, From, Goto, call, Busy
<1>. QED BY <1>1, <1>2, <1>3 DEF Inv

\* Emptying the cache leaves nothing to know.
LEMMA ForgetInv == ASSUME Inv, NEW t \in Threads, Forget(t) PROVE Inv'
<1>1. DiscoveryTypeOK'
  BY DEF Inv, DiscoveryTypeOK, Forget, From, Goto, Nothing, Listing, Busy
<1>2. CacheTimes' /\ CacheKind'
  BY DEF Inv, DiscoveryTypeOK, CacheTimes, CacheKind, CutOf, ForgetBounded, Held, Forget,
     Nothing
<1>3. ASSUME NEW u \in Threads PROVE ThreadInv(u)'
  BY DEF Inv, DiscoveryTypeOK, ThreadInv, PlaceOf, FlightOf, KnowsOf, KindOf, AgeOf, AskedOf,
     CutOf, Held, Forget, From, Goto, Nothing, Busy
<1>. QED BY <1>1, <1>2, <1>3 DEF Inv

\* What is in the cache when an invalidation returns was stored while it ran.
LEMMA ForgetStampInv == ASSUME Inv, NEW t \in Threads, ForgetStamp(t) PROVE Inv'
<1>1. DiscoveryTypeOK'
  BY DEF Inv, DiscoveryTypeOK, ForgetStamp, From, Goto, Busy
<1>2. CacheTimes' /\ CacheKind'
  BY DEF Inv, DiscoveryTypeOK, CacheTimes, CacheKind, CutOf, ForgetBounded, ThreadInv, KnowsOf,
     FlightOf,
         Held, ForgetStamp, From, Busy, Listing
<1>3. ASSUME NEW u \in Threads PROVE ThreadInv(u)'
  BY DEF Inv, DiscoveryTypeOK, ThreadInv, PlaceOf, FlightOf, KnowsOf, KindOf, AgeOf, AskedOf,
     CutOf, Held, ForgetStamp, From, Goto, Busy
<1>. QED BY <1>1, <1>2, <1>3 DEF Inv

\* Time passes only while every call in flight is young enough.
LEMMA TickInv == ASSUME Inv, Tick PROVE Inv'
<1>1. DiscoveryTypeOK'
  BY DEF Inv, DiscoveryTypeOK, Tick, globals
<1>2. CacheTimes' /\ CacheKind'
  BY DEF Inv, DiscoveryTypeOK, CacheTimes, CacheKind, CutOf, ForgetBounded, Held, Tick, globals,
     Listing
<1>3. ASSUME NEW u \in Threads PROVE ThreadInv(u)'
  BY DEF Inv, DiscoveryTypeOK, ThreadInv, PlaceOf, FlightOf, KnowsOf, KindOf, AgeOf, AskedOf,
     CutOf, Held, Tick, globals, Listing
<1>. QED BY <1>1, <1>2, <1>3 DEF Inv

\* A step of nothing changes nothing.
LEMMA StutterInv == ASSUME Inv, UNCHANGED vars PROVE Inv'
BY DEF Inv, DiscoveryTypeOK, CacheTimes, CacheKind, ThreadInv, PlaceOf, FlightOf, KnowsOf,
   KindOf, AgeOf, AskedOf, CutOf, ForgetBounded, Held, vars

\* Every step keeps the invariant.
LEMMA NextInv == Inv /\ [Next]_vars => Inv'
<1>. SUFFICES ASSUME Inv, [Next]_vars PROVE Inv'
  OBVIOUS
<1>1. ASSUME NEW t \in Threads, Step(t) PROVE Inv'
  BY <1>1, CheckInv, StampedInv, AgeInv, ReadInv, AnotherPageInv, LastPageInv, FailsInv, BreaksInv,
     StoreInv,
     StampInv, FallbackInv, ForgetStampInv DEF Step
<1>. QED BY <1>1, BeginInv, LeaveInv, ForgetInv, TickInv, StutterInv DEF Next

\* The invariant holds of every behaviour.
THEOREM InvHolds == Spec => []Inv
BY InitInv, NextInv, PTL DEF Spec

\* discovery.py: every reachable state of the caches and the calls has its type,
\* the number of pages read never above max_pages.
THEOREM DiscoveryTypeCorrect == Spec => []DiscoveryTypeOK
<1>. Inv => DiscoveryTypeOK BY DEF Inv
<1>. QED BY InvHolds, PTL

\* ttl_seconds: what is served from the cache was read less than the time to live
\* and two calls before.
THEOREM AgesBounded == Spec => []AgeBounded
<1>. Inv => AgeBounded BY DEF Inv, ThreadInv, AgeOf, AgeBounded, Returned
<1>. QED BY InvHolds, PTL

\* invalidate_*: nothing older than two calls survives an invalidation.
THEOREM ForgetsBounded == Spec => []ForgetBounded
<1>. Inv => ForgetBounded BY DEF Inv, CacheTimes
<1>. QED BY InvHolds, PTL

\* fetch_gemini_pricing: no error leaves the first pages as if they were all.
THEOREM NeverCut == Spec => []NeverCutByError
<1>. Inv => NeverCutByError
  BY DEF Inv, CacheKind, ThreadInv, KindOf, CutOf, NeverCutByError, Returned
<1>. QED BY InvHolds, PTL

\* list_models: of any catalog and any developers, no model is returned for all
\* of them without having asked the fallback, and none for one provider only with
\* models of others in hand.
THEOREM FallbackAlwaysReached == Spec => []FallbackReached
<1>1. Inv => FallbackReached
  <2> SUFFICES ASSUME Inv, what = "catalog", NEW t \in Threads, Returned(t), Answer(t) = {},
                      src[t] # "fallback"
               PROVE  asked[t] # Developers /\ hand[t].of # {}
      BY DEF FallbackReached
  <2>1. hand[t].of # {} /\ hand[t].of \subseteq Developers
      BY DEF Inv, DiscoveryTypeOK, Listing, ThreadInv, AskedOf, Returned
  <2> QED BY <2>1 DEF Answer
<1>. QED BY <1>1, InvHolds, PTL

\* _refresh_catalog: a listing is never replaced by one more than a call's time older.
THEOREM CacheNeverFarBack == Spec => NeverFarBack
<1>1. ASSUME Inv, [Next]_vars
      PROVE  [cache.pages > 0 /\ cache'.pages > 0 => cache.since <= cache'.since + MaxCall]_vars
  <2>1. ASSUME NEW t \in Threads, Store(t)
        PROVE  cache.since <= cache'.since + MaxCall
    BY <1>1, <2>1 DEF Inv, DiscoveryTypeOK, CacheTimes, ThreadInv, PlaceOf, FlightOf, Store,
       From,
                      Busy, Listing
  <2>2. ASSUME NEW t \in Threads, Forget(t) PROVE ~(cache'.pages > 0)
    BY <2>2 DEF Forget, Nothing
  <2>3. ASSUME cache' = cache PROVE cache.since <= cache'.since + MaxCall
    BY <1>1, <2>3 DEF Inv, DiscoveryTypeOK, Listing
  <2>. QED
    BY <1>1, <2>1, <2>2, <2>3 DEF Next, Step, vars, globals, Begin, Check, Stamped, Age, Read,
       AnotherPage, LastPage, Fails, Breaks, Stamp, Fallback, Leave, ForgetStamp, Tick
<1>. QED BY <1>1, InvHolds, PTL DEF Spec, NeverFarBack

-----------------------------------------------------------------------------
(* Progress.  CallsEnd needs fairness and stays with TLC; what makes it    *)
(* true is that a call looks at each global once, reads no more pages than *)
(* there may be, and is never sent back by what another thread does.       *)

StepsLeft(t) ==
  CASE pc[t] = "check"    -> 7 + MaxPages
    [] pc[t] = "stamped"  -> 6 + MaxPages
    [] pc[t] = "age"      -> 5 + MaxPages
    [] pc[t] = "fetch"    -> 4 + MaxPages - hand[t].pages
    [] pc[t] = "store"    -> 3
    [] pc[t] = "stamp"    -> 2
    [] pc[t] = "read"     -> 2
    [] pc[t] = "fallback" -> 1
    [] pc[t] = "forget"   -> 1
    [] pc[t] \in Ended \union {"idle"} -> 0

CountsDown == \A t \in Threads : /\ StepsLeft(t) \in 0..(7 + MaxPages)
                                 /\ StepsLeft(t) = 0 <=> pc[t] \notin Busy

\* Only its caller begins a call; all else takes it to its end or leaves it.
StepCounts ==
  \A t \in Threads :
    /\ Step(t) => StepsLeft(t)' < StepsLeft(t)
    /\ ~(Step(t) \/ Begin(t) \/ Forget(t)) => StepsLeft(t)' = StepsLeft(t)

LEMMA Measured == Inv => CountsDown
<1> SUFFICES ASSUME Inv, NEW t \in Threads
             PROVE  StepsLeft(t) \in 0..(7 + MaxPages) /\ (StepsLeft(t) = 0 <=> pc[t] \notin Busy)
    BY DEF CountsDown
<1>1. pc[t] \in Busy \union Ended \union {"idle"} /\ hand[t].pages \in 0..MaxPages
      BY DEF Inv, DiscoveryTypeOK, Listing
<1>2. CASE pc[t] \notin Busy
  <2>1. StepsLeft(t) = 0 BY <1>1, <1>2 DEF StepsLeft, Busy
  <2> QED BY <1>2, <2>1
<1>3. CASE pc[t] \in Busy
  <2>1. StepsLeft(t) \in {1, 2, 3, 4 + MaxPages - hand[t].pages,
                         5 + MaxPages, 6 + MaxPages, 7 + MaxPages}
        BY <1>1, <1>3 DEF StepsLeft, Busy, Ended
  <2>2. StepsLeft(t) \in 1..(7 + MaxPages)
    <3>1. MaxPages \in Nat OBVIOUS
    <3> HIDE DEF StepsLeft
    <3> QED BY <1>1, <2>1, <3>1
  <2> QED BY <1>3, <2>2
<1> QED BY <1>2, <1>3

\* Each look at a global and each page is one step less; a failure ends the call or
\* sends it to the fallback.
LEMMA ThreadCounts ==
  ASSUME Inv, NEW t \in Threads, Step(t)
  PROVE  StepsLeft(t)' < StepsLeft(t)
<1>1. /\ pc \in [Threads -> Busy \union Ended \union {"idle"}]
      /\ hand \in [Threads -> Listing] /\ hand[t].pages \in 0..MaxPages
      BY DEF Inv, DiscoveryTypeOK, Listing
<1>2. pc[t] \in {"check", "stamped", "age"} => hand[t].pages = 0
      BY DEF Inv, ThreadInv, PlaceOf, Nothing
<1> USE DEF StepsLeft, From, Goto, Ended, call, globals
<1>3. CASE Check(t)   BY <1>1, <1>2, <1>3 DEF Check
<1>4. CASE Stamped(t) BY <1>1, <1>2, <1>4 DEF Stamped
<1>5. CASE Age(t)     BY <1>1, <1>2, <1>5 DEF Age
<1>6. CASE Read(t)    BY <1>1, <1>6 DEF Read
<1>7. CASE AnotherPage(t)
  <2>1. hand'[t].pages = hand[t].pages + 1 BY <1>1, <1>7 DEF AnotherPage, Take, Grown
  <2>2. pc[t] = "fetch" /\ pc'[t] = "fetch" BY <1>7 DEF AnotherPage
  <2> QED BY <1>1, <2>1, <2>2
<1>8. CASE LastPage(t) \/ Fails(t) \/ Breaks(t)
  <2>1. pc[t] = "fetch" /\ pc'[t] \in {"store", "fallback", "returned", "raised"}
        BY <1>1, <1>8 DEF LastPage, Fails, Breaks
  <2> QED BY <1>1, <2>1
<1>9. CASE Store(t) \/ Stamp(t)
  <2>1. \/ pc[t] = "store" /\ pc'[t] = "stamp"
        \/ pc[t] = "stamp" /\ pc'[t] \in {"fallback", "returned"}
        BY <1>1, <1>9 DEF Store, Stamp
  <2> QED BY <2>1
<1>10. CASE Fallback(t) \/ ForgetStamp(t)
  <2>1. pc[t] \in {"fallback", "forget"} /\ pc'[t] \in {"returned", "idle"}
        BY <1>1, <1>10 DEF Fallback, ForgetStamp
  <2> QED BY <2>1
<1> QED BY <1>3, <1>4, <1>5, <1>6, <1>7, <1>8, <1>9, <1>10 DEF Step

\* A thread's place and listing are its own; leaving happens at an end.
LEMMA OthersLeave ==
  ASSUME Inv, Next, NEW t \in Threads, ~(Step(t) \/ Begin(t) \/ Forget(t))
  PROVE  StepsLeft(t)' = StepsLeft(t)
<1> USE DEF From, Goto, Take, call, globals, Inv, DiscoveryTypeOK
<1>1. ASSUME NEW u \in Threads, u # t, Step(u) \/ Begin(u) \/ Leave(u) \/ Forget(u)
      PROVE  pc'[t] = pc[t] /\ hand'[t] = hand[t]
      BY <1>1 DEF Step, Begin, Leave, Forget, Check, Stamped, Age, Read, AnotherPage,
                  LastPage, Fails, Breaks, Store, Stamp, Fallback, ForgetStamp
<1>2. CASE Leave(t)
  <2>1. pc[t] \in Ended /\ pc'[t] = "idle" BY <1>2 DEF Leave
  <2> QED BY <2>1 DEF StepsLeft, Ended
<1>3. CASE Tick BY <1>3 DEF Tick, StepsLeft
<1>4. CASE pc'[t] = pc[t] /\ hand'[t] = hand[t] BY <1>4 DEF StepsLeft
<1> QED BY <1>1, <1>2, <1>3, <1>4 DEF Next

\* For any number of threads and pages a call has at most seven steps to make and
\* one for each page, and none left exactly when it is over.
THEOREM CallIsBounded == Spec => []CountsDown
<1>. QED BY InvHolds, Measured, PTL

\* Each step of a call brings it nearer to its end; no store, stamp or invalidation
\* of another thread, and no time that passes, makes it look or ask again.
THEOREM EveryStepCounts == Spec => [][StepCounts]_vars
<1>1. Inv /\ [Next]_vars => [StepCounts]_vars
      BY ThreadCounts, OthersLeave DEF StepCounts
<1>. QED BY <1>1, InvHolds, PTL DEF Spec
=============================================================================
