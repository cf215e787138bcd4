------------------------------ MODULE Discovery ------------------------------
(***************************************************************************)
(* discovery.py: what the providers list and bill, asked for by several    *)
(* threads of one process.  Two listings are kept in module globals with   *)
(* the time they were stored (the model catalog, Gemini's prices), three   *)
(* are asked for anew by each call (OpenAI's costs, xAI's usage,           *)
(* DeepSeek's balance).  The globals of different listings have nothing in *)
(* common, so a behaviour is about one of them.  A step is one access to a *)
(* global or one answer of a provider: another thread, or a while, may     *)
(* come between any two.                                                   *)
(***************************************************************************)
EXTENDS Integers

CONSTANTS Threads,    \* threads that call into the module
          Developers, \* who makes the models of a catalog
          Ttl,        \* ttl_seconds of the calls that take what is cached
          MaxPages,   \* max_pages
          MaxCall,    \* the longest a call takes
          MaxTime     \* bound: how long the model runs

ASSUME DiscoveryAssumption == /\ Ttl \in Nat \ {0}
                              /\ MaxPages \in Nat \ {0}
                              /\ MaxCall \in Nat \ {0}
                              /\ MaxTime \in Nat

VARIABLES what,    \* the listing the behaviour is about
          clock,
          cache,   \* _catalog_cache, _pricing_cache["gemini"]
          stamp,   \* _catalog_fetched_at, _pricing_fetched_at["gemini"]
          forgot,  \* when invalidate_* last returned
          pc,      \* pc[t]: where thread t is
          begun,   \* begun[t]: when the call began
          asked,   \* asked[t]: the developers whose models it returns, if it does
          hand,    \* hand[t]: the listing it has in hand, and returns
          src      \* src[t]: where that came from

vars == <<what, clock, cache, stamp, forgot, pc, begun, asked, hand, src>>

Cached   == {"catalog", "pricing"}
Paged    == {"pricing", "costs"}
Listings == Cached \union Paged \union {"usage", "balance"}

Busy    == {"check", "stamped", "age", "read", "fetch", "store", "stamp", "fallback", "forget"}
Ended   == {"returned", "raised"}
Sources == {"none", "cache", "provider", "fallback", "error", "nokey"}

Never == -1

\* since: when its first page was read.  more: the last page read said there is
\* another.  of: (of a catalog) the developers of its usable entries.
Listing == [since : Nat, pages : 0..MaxPages, more : BOOLEAN, of : SUBSET Developers]
Nothing == [since |-> 0, pages |-> 0, more |-> FALSE, of |-> {}]
Held    == cache.pages > 0

Init == /\ what \in Listings
        /\ clock = 0
        /\ cache = Nothing /\ stamp = Never /\ forgot = 0
        /\ pc    = [t \in Threads |-> "idle"]
        /\ begun = [t \in Threads |-> 0]
        /\ asked = [t \in Threads |-> {}]
        /\ hand  = [t \in Threads |-> Nothing]
        /\ src   = [t \in Threads |-> "none"]

\* list_models looks at its provider only when it has a listing: none, and all
\* are wanted; one, and it may be a developer of some models or of none.
Wishes == IF what = "catalog" THEN {Developers, {}} \union {{d} : d \in Developers} ELSE {{}}
Ask(t) == \E w \in IF pc'[t] = "returned" THEN Wishes ELSE {{}} :
            asked' = [asked EXCEPT ![t] = w]

Goto(t, l)    == pc' = [pc EXCEPT ![t] = l]
From(t, l, m) == pc[t] = l /\ Goto(t, m)
Take(t, h)    == hand' = [hand EXCEPT ![t] = h]
Say(t, s)     == src' = [src EXCEPT ![t] = s]

globals == <<cache, stamp, forgot>>
call    == <<what, clock, begun>>

-----------------------------------------------------------------------------
(* A call, up to the decision whether to ask the provider.                 *)

\* With ttl_seconds = 0, and where nothing is cached, the provider is asked;
\* all but the catalog need a key.
Begin(t) ==
    /\ pc[t] = "idle"
    /\ \/ what \in Cached /\ Goto(t, "check") /\ UNCHANGED src
       \/ Goto(t, "fetch") /\ UNCHANGED src
       \/ what # "catalog" /\ Goto(t, "returned") /\ Say(t, "nokey")
    /\ begun' = [begun EXCEPT ![t] = clock]
    /\ UNCHANGED <<what, clock, asked, globals, hand>>

\* The catalog's check looks at both globals, the prices' only at the cache.
Check(t) ==
    /\ From(t, "check", CASE ~Held -> "fetch"
                          [] Held /\ what = "catalog" -> "stamped"
                          [] Held /\ what # "catalog" -> "age")
    /\ UNCHANGED <<call, asked, globals, hand, src>>

Stamped(t) ==
    /\ From(t, "stamped", IF stamp = Never THEN "fetch" ELSE "age")
    /\ UNCHANGED <<call, asked, globals, hand, src>>

\* Mutant: the age is not asked.
FreshAlways == stamp # Never

Fresh == stamp # Never /\ clock - stamp < Ttl

\* The time is read once more.  None, put there since by an invalidation, does
\* not subtract; the prices' get(.., 0) reads as long ago.
Age(t) ==
    /\ From(t, "age", CASE Fresh -> "read"
                        [] ~Fresh /\ stamp = Never /\ what = "catalog" -> "raised"
                        [] OTHER -> "fetch")
    /\ UNCHANGED <<call, asked, globals, hand, src>>

\* Mutant: an empty cache is an answer.
ReadEmpty(t) ==
    /\ From(t, "read", IF Held THEN "returned" ELSE "raised")
    /\ Take(t, cache) /\ Say(t, "cache")
    /\ Ask(t)
    /\ UNCHANGED <<call, globals>>

\* Mutant: a hit puts its copy back, to make it last.
ReadTouches(t) ==
    /\ From(t, "read", CASE what = "catalog" /\ cache.of = {} -> "fallback"
                         [] what = "pricing" /\ ~Held -> "raised"
                         [] OTHER -> "store")
    /\ Take(t, cache) /\ Say(t, "cache")
    /\ Ask(t)
    /\ UNCHANGED <<call, globals>>

\* And the cache once more: gone or empty the catalog goes to the fallback,
\* gone the prices raise KeyError.
Read(t) ==
    /\ From(t, "read", CASE what = "catalog" /\ cache.of = {} -> "fallback"
                         [] what = "pricing" /\ ~Held -> "raised"
                         [] OTHER -> "returned")
    /\ Take(t, cache) /\ Say(t, "cache")
    /\ Ask(t)
    /\ UNCHANGED <<call, globals>>

-----------------------------------------------------------------------------
(* The provider.                                                           *)

Grown(h, more, of) == [since |-> IF h.pages = 0 THEN clock ELSE h.since,
                         pages |-> h.pages + 1,
                         more  |-> more,
                         of    |-> h.of \union of]

\* Mutant: one page too many.
AnotherPageOffByOne(t) ==
    /\ what \in Paged
    /\ pc[t] = "fetch"
    /\ hand[t].pages < MaxPages
    /\ Take(t, Grown(hand[t], TRUE, {}))
    /\ UNCHANGED <<call, asked, globals, pc, src>>

AnotherPage(t) ==
    /\ what \in Paged
    /\ pc[t] = "fetch"
    /\ hand[t].pages + 1 < MaxPages
    /\ Take(t, Grown(hand[t], TRUE, {}))
    /\ UNCHANGED <<call, asked, globals, pc, src>>

\* The loop also ends at max_pages, and OpenAI's at a page that has_more but no
\* next_page.
LastPage(t) ==
    /\ From(t, "fetch", IF what \in Cached THEN "store" ELSE "returned")
    /\ \E more \in BOOLEAN, of \in SUBSET Developers :
         /\ more => \/ what = "costs"
                    \/ what = "pricing" /\ hand[t].pages + 1 = MaxPages
         /\ what # "catalog" => of = {}
         /\ Take(t, Grown(hand[t], more, of))
    /\ Say(t, "provider")
    /\ UNCHANGED <<call, asked, globals>>

\* Mutant: what was read before the error is kept as if it were all.
FailsKeeping(t) ==
    /\ From(t, "fetch", CASE what = "catalog" -> "fallback"
                          [] what = "pricing" /\ hand[t].pages > 0 -> "store"
                          [] OTHER -> "returned")
    /\ Say(t, "error")
    /\ UNCHANGED <<call, asked, globals, hand>>

\* Mutant: after an error the call starts over.
FailsRetried(t) ==
    /\ pc[t] = "fetch"
    /\ Take(t, Nothing)
    /\ UNCHANGED <<call, asked, globals, pc, src>>

\* URLError, JSONDecodeError, OSError.  Nothing is the answer, except that the
\* costs read so far are; the catalog goes to the fallback.
Fails(t) ==
    /\ From(t, "fetch", IF what = "catalog" THEN "fallback" ELSE "returned")
    /\ IF what = "costs" THEN UNCHANGED hand ELSE Take(t, Nothing)
    /\ Say(t, "error")
    /\ UNCHANGED <<call, asked, globals>>

\* An answer of another shape, a broken chunk; a balance that times out.
Breaks(t) ==
    /\ From(t, "fetch", "raised")
    /\ Take(t, Nothing)
    /\ UNCHANGED <<call, asked, globals, src>>

Store(t) ==
    /\ From(t, "store", "stamp")
    /\ cache' = hand[t]
    /\ UNCHANGED <<call, asked, stamp, forgot, hand, src>>

Stamp(t) ==
    /\ From(t, "stamp", IF what = "catalog" /\ hand[t].of = {} THEN "fallback" ELSE "returned")
    /\ stamp' = clock
    /\ Ask(t)
    /\ UNCHANGED <<call, cache, forgot, hand, src>>

\* What list_models hands over of the listing it has: the models of the developer
\* the caller asked for, which may be none of a full catalog.
Answer(t) == hand[t].of \intersect asked[t]

\* Those wanted whose key there is are asked one by one; a failure is an empty
\* list, and the answer is not cached.
Fallback(t) ==
    /\ From(t, "fallback", "returned")
    /\ Ask(t)
    /\ \E of \in SUBSET asked'[t] : Take(t, Grown(Nothing, FALSE, of))
    /\ Say(t, "fallback")
    /\ UNCHANGED <<call, globals>>

\* The caller has used what it got.
Leave(t) ==
    /\ pc[t] \in Ended /\ Goto(t, "idle")
    /\ begun' = [begun EXCEPT ![t] = 0] /\ asked' = [asked EXCEPT ![t] = {}]
    /\ Take(t, Nothing) /\ Say(t, "none")
    /\ UNCHANGED <<what, clock, globals>>

-----------------------------------------------------------------------------
(* invalidate_catalog, invalidate_pricing: two writes.                     *)

\* Mutant: only the time is forgotten.
ForgetNothing(t) ==
    /\ what \in Cached
    /\ From(t, "idle", "forget")
    /\ begun' = [begun EXCEPT ![t] = clock]
    /\ UNCHANGED <<what, clock, asked, globals, hand, src>>

Forget(t) ==
    /\ what \in Cached
    /\ From(t, "idle", "forget")
    /\ cache' = Nothing
    /\ begun' = [begun EXCEPT ![t] = clock]
    /\ UNCHANGED <<what, clock, asked, stamp, forgot, hand, src>>

ForgetStamp(t) ==
    /\ From(t, "forget", "idle")
    /\ stamp' = Never
    /\ forgot' = clock
    /\ begun' = [begun EXCEPT ![t] = 0]
    /\ UNCHANGED <<what, clock, asked, cache, hand, src>>

-----------------------------------------------------------------------------
\* No call takes longer than MaxCall.
Tick ==
    /\ clock < MaxTime
    /\ \A t \in Threads : pc[t] \in Busy => clock - begun[t] < MaxCall
    /\ clock' = clock + 1
    /\ UNCHANGED <<what, begun, asked, globals, pc, hand, src>>

Step(t) == \/ Check(t) \/ Stamped(t) \/ Age(t) \/ Read(t)
           \/ AnotherPage(t) \/ LastPage(t) \/ Fails(t) \/ Breaks(t)
           \/ Store(t) \/ Stamp(t) \/ Fallback(t) \/ ForgetStamp(t)

Next == \/ \E t \in Threads : Step(t) \/ Begin(t) \/ Leave(t) \/ Forget(t)
        \/ Tick

Spec == Init /\ [][Next]_vars

\* Threads are scheduled, requests time out.
FairSpec == Spec /\ \A t \in Threads : WF_vars(Step(t))

-----------------------------------------------------------------------------
(* Properties.                                                             *)

DiscoveryTypeOK ==
    /\ what \in Listings
    /\ clock \in Nat /\ forgot \in 0..clock
    /\ cache \in Listing /\ stamp \in {Never} \union 0..clock
    /\ pc \in [Threads -> Busy \union Ended \union {"idle"}]
    /\ begun \in [Threads -> 0..clock] /\ asked \in [Threads -> SUBSET Developers]
    /\ hand \in [Threads -> Listing] /\ src \in [Threads -> Sources]

Returned(t) == pc[t] = "returned"

\* discovery.py ttl_seconds: what a call gets from the cache was read less than
\* ttl_seconds and two calls' time before it began, whichever threads stored and
\* stamped in between.
AgeBounded ==
    \A t \in Threads : Returned(t) /\ src[t] = "cache" =>
        begun[t] < hand[t].since + Ttl + 2 * MaxCall

\* discovery.py invalidate_*: nothing older than two calls' time survives an
\* invalidation, although a fetch in flight stores what it read before it.
ForgetBounded == Held => forgot <= cache.since + 2 * MaxCall

\* fetch_gemini_pricing: the prices kept and handed out are all the pages, or as
\* many as are ever read; an error never leaves the first few of them.
NeverCutByError ==
    what = "pricing" =>
      \A l \in {cache} \union {hand[t] : t \in {u \in Threads : Returned(u)}} :
         l.more => l.pages = MaxPages

\* list_models: a call that returns no model has asked the fallback, or it asked
\* for one provider and the catalog has models, but of others only.
FallbackReached ==
  what = "catalog" =>
    \A t \in Threads : Returned(t) /\ Answer(t) = {} =>
        src[t] = "fallback" \/ (asked[t] # Developers /\ hand[t].of # {})

\* _refresh_catalog, fetch_gemini_pricing: a slow fetch may replace a newer listing,
\* but never by one that is more than a call's time older.
NeverFarBack ==
    [][cache.pages > 0 /\ cache'.pages > 0 => cache.since <= cache'.since + MaxCall]_vars

\* max_pages: a call ends although a provider may name a next page for ever.
CallsEnd == \A t \in Threads : pc[t] \in Busy ~> pc[t] \notin Busy
=============================================================================
