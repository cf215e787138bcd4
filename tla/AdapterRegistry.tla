--------------------------- MODULE AdapterRegistry ---------------------------
(***************************************************************************)
(* registry/: adapters are probed and registered, their gates are probed   *)
(* again by a pool of threads, a request is given a lane, and a registered *)
(* adapter is published to the gateway by reading what the cell has there, *)
(* merging a feature and writing all of it back.  Nothing takes a lock:    *)
(* several threads share the registry, and the cell's daemon writes to the *)
(* gateway too.  A step is one access to _entries, one adapter's probes,   *)
(* or one request.                                                         *)
(***************************************************************************)
EXTENDS Integers, SequencesExt

CONSTANTS Threads,       \* threads that call the registry
          Names,         \* names of adapters
          Specs,         \* the AdapterSpecs there are
          Given,         \* the probe inputs registrations come with
          Requests,      \* what lanes are asked for
          MaxSnapshots,  \* bound: snapshots the cell's daemon registers
          MaxCalls       \* bound: calls of register and probe_all

Zero    == {"subscription_zero", "local_zero"}
Intents == {"MESH_TOOL", "CHIT_CHAT", "DEEP_CODE", "MESH_CC"}

\* _validate_kind_shape: a cli has a byte cap (cap) and no models, a router
\* models and no cap.
WellShaped(s) ==
    /\ s.kind \in {"cli", "router"} /\ s.billing \in Zero \union {"metered"}
    /\ s.intents \subseteq Intents /\ s.cap \in Int
    /\ IF s.kind = "cli" THEN s.models = {} ELSE s.models # {}

\* What a registration gives the probes; FALSE is None.
Inputs == [runner : BOOLEAN, provenance_path : BOOLEAN, config_home : BOOLEAN]

ASSUME RegistryAssumption == /\ \A s \in Specs : s.name \in Names /\ WellShaped(s)
                             /\ "none" \notin Names
                             /\ Given \subseteq Inputs
                             /\ \A rq \in Requests : rq.prompt_bytes \in Nat
                             /\ MaxSnapshots \in Nat /\ MaxCalls \in Nat

VARIABLES order,     \* the names in _entries, in the order they came
          entry,     \* _entries: the spec, its inputs, and the results: of which
                     \*   spec they are and whether one is a FAIL
          calls,     \* calls of register and probe_all so far
          dirty,     \* has a config home inherited config?
          pc,        \* pc[t]: where thread t is
          job,       \* job[t]: the entry it is about to store
          todo,      \* todo[t]: names its probe_all has yet to probe, or store
          got,       \* got[t]: what its probe_all's probes returned, by name
          peer,      \* peer[t]: what its GET returned
          caps,      \* the gateway: the cell's capabilities
          written,   \* the last snapshot, the names published since, and whether a
                     \*   POST wrote over something its GET had not seen
          admitted,  \* specs that were probed to be registered, and had no FAIL
          latest,    \* latest[n]: the spec register last stored
          crossed,   \* names registered while a probe_all held results of theirs,
          lost       \*   and while it was about to store what it had read again

entries == <<order, entry, latest, crossed, lost>>
probing == <<todo, got>>
gateway == <<caps, written>>
vars    == <<entries, calls, dirty, pc, job, probing, peer, gateway, admitted>>

Ended == {"idle", "returned", "raised"}
Busy  == {"probe", "store", "get", "post", "pool", "judge", "reread", "write"}

None     == [name |-> "none"]
Entry(s, in, of, failed) == [spec |-> s, in |-> in, of |-> of, failed |-> failed]
NoInputs == [runner |-> FALSE, provenance_path |-> FALSE, config_home |-> FALSE]
NoEntry  == Entry(None, NoInputs, None, FALSE)

\* snapshot: everything but published_features, by the daemon's count.
NoCaps == [snapshot |-> 0, published_features |-> {}]

Init == /\ order = <<>> /\ entry = [n \in Names |-> NoEntry]
        /\ latest = [n \in Names |-> None] /\ crossed = {} /\ lost = {}
        /\ calls = 0 /\ dirty \in BOOLEAN
        /\ pc   = [t \in Threads |-> "idle"]
        /\ job  = [t \in Threads |-> NoEntry]
        /\ todo = [t \in Threads |-> {}]
        /\ got  = [t \in Threads |-> [n \in Names |-> NoEntry]]
        /\ peer = [t \in Threads |-> NoCaps]
        /\ caps = NoCaps /\ written = [snapshot |-> 0, names |-> {}, over |-> FALSE]
        /\ admitted = {}

Goto(t, l)    == pc' = [pc EXCEPT ![t] = l]
From(t, l, m) == pc[t] = l /\ Goto(t, m)

Registered == ToSet(order)
Probed(t)  == {n \in Names : got[t][n] # NoEntry}

-----------------------------------------------------------------------------
(* probes.py: the statuses each gate may have.                             *)

Ran(in) == IF in.runner THEN {"PASS", "BLOCKED"} ELSE {"BLOCKED"}

G1(in)     == Ran(in)
G1b(s, in) == IF s.kind = "router" THEN {"SKIP"} ELSE Ran(in)
G2         == {"BLOCKED"}
G3(s)      == IF s.billing = "subscription_zero" THEN {"PASS"} ELSE {"BLOCKED"}
G4(in)     == IF ~in.config_home THEN {"BLOCKED"} ELSE IF dirty THEN {"FAIL"} ELSE {"PASS"}
G5(in)     == IF in.provenance_path THEN {"PASS", "BLOCKED"} ELSE {"BLOCKED"}
G6         == {"SKIP"}

probe_adapter(s, in) ==
    {[G1 |-> a, G1b |-> b, G2 |-> c, G3 |-> d, G4 |-> e, G5 |-> f, G6 |-> g] :
        a \in G1(in), b \in G1b(s, in), c \in G2, d \in G3(s), e \in G4(in), f \in G5(in), g \in G6}

Failed(results) == \E gate \in DOMAIN results : results[gate] = "FAIL"

\* G1 and G1b look for words in what the runner returned, which need not be a
\* str; G5 opens the file after it saw that it exists.
MayRaise(in) == in.runner \/ in.provenance_path

-----------------------------------------------------------------------------
(* register                                                                *)

Register(t, s, in) ==
    /\ calls < MaxCalls /\ calls' = calls + 1
    /\ From(t, "idle", "probe")
    /\ job' = [job EXCEPT ![t] = Entry(s, in, None, FALSE)]
    /\ UNCHANGED <<entries, dirty, probing, peer, gateway, admitted>>

Probe(t) ==
    LET s == job[t].spec  in == job[t].in IN
    /\ pc[t] = "probe"
    /\ \E r \in probe_adapter(s, in) :
        /\ Goto(t, IF Failed(r) THEN "raised" ELSE "store")
        /\ job' = IF Failed(r) THEN job ELSE [job EXCEPT ![t] = Entry(s, in, s, FALSE)]
        /\ admitted' = IF Failed(r) THEN admitted ELSE admitted \union {s}
        /\ UNCHANGED <<entries, calls, dirty, probing, peer, gateway>>

ProbeRaises(t) ==
    /\ MayRaise(job[t].in) /\ From(t, "probe", "raised")
    /\ UNCHANGED <<entries, calls, dirty, job, probing, peer, gateway, admitted>>

\* Mutant: a name that is there is entered once more.
StoreTwice(t) ==
    LET n == job[t].spec.name IN
    /\ pc[t] = "store" /\ (Goto(t, "get") \/ Goto(t, "returned"))
    /\ order' = Append(order, n)
    /\ entry' = [entry EXCEPT ![n] = job[t]]
    /\ latest' = [latest EXCEPT ![n] = job[t].spec]
    /\ crossed' = crossed \union {m \in {n} : \E u \in Threads : m \in Probed(u)}
    /\ lost' = lost \union {m \in {n} : \E u \in Threads : pc[u] = "write" /\ job[u].spec.name = m}
    /\ UNCHANGED <<calls, dirty, job, probing, peer, gateway, admitted>>

\* A name that is there keeps its place.  A registry may be without a hook.
Store(t) ==
    LET n == job[t].spec.name IN
    /\ pc[t] = "store" /\ (Goto(t, "get") \/ Goto(t, "returned"))
    /\ order' = IF n \in Registered THEN order ELSE Append(order, n)
    /\ entry' = [entry EXCEPT ![n] = job[t]]
    /\ latest' = [latest EXCEPT ![n] = job[t].spec]
    /\ crossed' = crossed \union {m \in {n} : \E u \in Threads : m \in Probed(u)}
    /\ lost' = lost \union {m \in {n} : \E u \in Threads : pc[u] = "write" /\ job[u].spec.name = m}
    /\ UNCHANGED <<calls, dirty, job, probing, peer, gateway, admitted>>

-----------------------------------------------------------------------------
(* The hook: make_indexer_hook over gateway_publisher.                     *)

capability_payload(s) ==
    [name |-> s.name, kind |-> s.kind, intents |-> s.intents, billing |-> s.billing,
     models |-> IF s.kind = "router" THEN s.models ELSE {}]

\* Mutant: what goes back is the feature alone.
MergedAlone(c, f) == [c EXCEPT !.published_features = {f}]

\* The features of other adapters are kept; nothing depends on their order.
Merged(c, f) ==
    [c EXCEPT !.published_features = {g \in @ : g.name # f.name} \union {f}]

Get(t) ==
    /\ From(t, "get", "post")
    /\ peer' = [peer EXCEPT ![t] = caps]
    /\ UNCHANGED <<entries, calls, dirty, job, probing, gateway, admitted>>

\* The gateway replaces what it has (FULL REPLACE).  Its answer may be lost.
Post(t) ==
    /\ pc[t] = "post" /\ (Goto(t, "returned") \/ Goto(t, "raised"))
    /\ caps' = Merged(peer[t], capability_payload(job[t].spec))
    /\ written' = [written EXCEPT !.names = @ \union {job[t].spec.name},
                                  !.over = @ \/ caps # peer[t]]
    /\ UNCHANGED <<entries, calls, dirty, job, probing, peer, admitted>>

\* A request that does not arrive, or is refused, raises out of register, which
\* has stored the adapter.
HookFails(t) ==
    /\ pc[t] \in {"get", "post"} /\ Goto(t, "raised")
    /\ UNCHANGED <<entries, calls, dirty, job, probing, peer, gateway, admitted>>

\* The daemon registers its own snapshot, which has no features.
Snapshot ==
    /\ written.snapshot < MaxSnapshots
    /\ caps' = [snapshot |-> written.snapshot + 1, published_features |-> {}]
    /\ written' = [written EXCEPT !.snapshot = @ + 1, !.names = {}]
    /\ UNCHANGED <<entries, calls, dirty, pc, job, probing, peer, admitted>>

-----------------------------------------------------------------------------
(* probe_all                                                               *)

ProbeAll(t) ==
    /\ calls < MaxCalls /\ calls' = calls + 1
    /\ From(t, "idle", IF order = <<>> THEN "returned" ELSE "pool")
    /\ todo' = [todo EXCEPT ![t] = Registered]
    /\ UNCHANGED <<entries, dirty, job, got, peer, gateway, admitted>>

\* A worker reads the entry and probes what it read.
Worker(t, n) ==
    /\ pc[t] = "pool" /\ n \in todo[t]
    /\ \E r \in probe_adapter(entry[n].spec, entry[n].in) :
          got' = [got EXCEPT ![t][n] = Entry(entry[n].spec, entry[n].in, entry[n].spec, Failed(r))]
    /\ todo' = [todo EXCEPT ![t] = @ \ {n}]
    /\ Goto(t, IF todo[t] = {n} THEN "judge" ELSE "pool")
    /\ UNCHANGED <<entries, calls, dirty, job, peer, gateway, admitted>>

GiveUp(t) == /\ todo' = [todo EXCEPT ![t] = {}]
             /\ got' = [got EXCEPT ![t] = [n \in Names |-> NoEntry]]

WorkerRaises(t, n) ==
    /\ n \in todo[t] /\ MayRaise(entry[n].in) /\ From(t, "pool", "raised")
    /\ GiveUp(t)
    /\ UNCHANGED <<entries, calls, dirty, job, peer, gateway, admitted>>

Judge(t) ==
    /\ pc[t] = "judge"
    /\ IF \E n \in Probed(t) : got[t][n].failed
       THEN Goto(t, "raised") /\ GiveUp(t)
       ELSE Goto(t, "reread") /\ todo' = [todo EXCEPT ![t] = Probed(t)] /\ UNCHANGED got
    /\ UNCHANGED <<entries, calls, dirty, job, peer, gateway, admitted>>

\* Mutant: the entry goes back as the worker read it.
RereadNot(t, n) ==
    /\ n \in todo[t] /\ From(t, "reread", "write")
    /\ job' = [job EXCEPT ![t] = got[t][n]]
    /\ UNCHANGED <<entries, calls, dirty, probing, peer, gateway, admitted>>

\* Name by name (in which order makes no difference): the entry is read again,
\* and stored with the new results.
Reread(t, n) ==
    /\ n \in todo[t] /\ From(t, "reread", "write")
    /\ job' = [job EXCEPT ![t] = Entry(entry[n].spec, entry[n].in, got[t][n].of, got[t][n].failed)]
    /\ UNCHANGED <<entries, calls, dirty, probing, peer, gateway, admitted>>

WriteBack(t) ==
    LET n == job[t].spec.name IN
    /\ From(t, "write", IF todo[t] = {n} THEN "returned" ELSE "reread")
    /\ entry' = [entry EXCEPT ![n] = job[t]]
    /\ todo' = [todo EXCEPT ![t] = @ \ {n}]
    /\ got' = [got EXCEPT ![t][n] = NoEntry]
    /\ UNCHANGED <<order, latest, crossed, lost, calls, dirty, job, peer, gateway, admitted>>

-----------------------------------------------------------------------------
(* resolve, which changes nothing.                                         *)

NoLane == [name |-> "NoLaneError"]

\* The spec at a position of _entries, and what it takes: a cli no more than its cap.
Lane(i) == entry[order[i]].spec
Fits(s, prompt_bytes) == ~(s.kind = "cli" /\ s.cap < prompt_bytes)

\* Of the lanes at positions I, the first that is the model asked for, or else the
\* first of all.  model = "" is None.
Best(I, model) ==
    LET named == {i \in I : model # "" /\ (Lane(i).name = model \/ model \in Lane(i).models)}
    IN  Lane(Min(IF named # {} THEN named ELSE I))

\* Mutant: the cap is not asked.
resolveOverCap(intent, prompt_bytes, model, budget_ok) ==
    LET cands   == {i \in DOMAIN order : intent \in Lane(i).intents}
        zero    == {i \in cands : Lane(i).billing \in Zero}
        metered == {i \in cands : Lane(i).billing = "metered"}
    IN  CASE zero # {} -> Best(zero, model)
          [] zero = {} /\ metered # {} /\ budget_ok -> Best(metered, model)
          [] OTHER -> NoLane

resolve(intent, prompt_bytes, model, budget_ok) ==
    LET cands   == {i \in DOMAIN order : intent \in Lane(i).intents /\ Fits(Lane(i), prompt_bytes)}
        zero    == {i \in cands : Lane(i).billing \in Zero}
        metered == {i \in cands : Lane(i).billing = "metered"}
    IN  CASE zero # {} -> Best(zero, model)
          [] zero = {} /\ metered # {} /\ budget_ok -> Best(metered, model)
          [] OTHER -> NoLane

-----------------------------------------------------------------------------
\* Someone logs in with, or cleans, a config home.
Soil == /\ dirty' = ~dirty
        /\ UNCHANGED <<entries, calls, pc, job, probing, peer, gateway, admitted>>

\* The caller is done with the result and may call again.
Again(t) == /\ pc[t] \in {"returned", "raised"} /\ Goto(t, "idle")
            /\ job' = [job EXCEPT ![t] = NoEntry] /\ peer' = [peer EXCEPT ![t] = NoCaps]
            /\ UNCHANGED <<entries, calls, dirty, probing, gateway, admitted>>

Step(t) == \/ \E s \in Specs, in \in Given : Register(t, s, in)
           \/ Probe(t) \/ ProbeRaises(t) \/ Store(t)
           \/ Get(t) \/ Post(t) \/ HookFails(t)
           \/ ProbeAll(t) \/ Judge(t) \/ WriteBack(t)
           \/ \E n \in Names : Worker(t, n) \/ WorkerRaises(t, n) \/ Reread(t, n)
           \/ Again(t)

Next == Soil \/ Snapshot \/ \E t \in Threads : Step(t)

Spec == Init /\ [][Next]_vars

-----------------------------------------------------------------------------
(* Properties                                                              *)

Entries(S) == [spec : S, in : Inputs, of : S, failed : BOOLEAN]
MaybeSpec  == Specs \union {None}
Features   == {capability_payload(s) : s \in Specs}
Caps       == [snapshot : 0..MaxSnapshots, published_features : SUBSET Features]

\* Types: a name is registered once and keeps its place; the thread that stores
\* or publishes has an entry of a spec, and only what is registered is probed.
RegistryTypeOK ==
    /\ order \in Seq(Names) /\ IsInjective(order)
    /\ entry \in [Names -> Entries(MaybeSpec)]
    /\ latest \in [Names -> MaybeSpec] /\ lost \subseteq crossed /\ crossed \subseteq Registered
    /\ calls \in 0..MaxCalls /\ dirty \in BOOLEAN
    /\ pc \in [Threads -> Ended \union Busy]
    /\ job \in [Threads -> Entries(MaybeSpec)]
    /\ todo \in [Threads -> SUBSET Registered]
    /\ got \in [Threads -> [Names -> Entries(MaybeSpec)]]
    /\ peer \in [Threads -> Caps] /\ caps \in Caps
    /\ written \in [snapshot : 0..MaxSnapshots, names : SUBSET Names, over : BOOLEAN]
    /\ admitted \subseteq Specs
    /\ \A t \in Threads : pc[t] \in {"probe", "store", "get", "post", "write"} => job[t].spec \in Specs

\* A name has results of an admitted spec of that name, and no FAIL.
Admitted(n) ==
    /\ entry[n].spec \in admitted /\ entry[n].spec.name = n
    /\ entry[n].of \in admitted /\ entry[n].of.name = n
    /\ ~entry[n].failed

\* A name has the results of another spec only if it was registered while a probe_all
\* held results of it, and loses its registration to an older one only if that came
\* between the second read and the write of one.
OwnVerdict(n) == /\ n \notin crossed => entry[n].of = entry[n].spec
                 /\ n \notin lost => entry[n].spec = latest[n]

\* "Fail-loud, no partial load" (register, probe_all), whatever registers and probes at
\* once: every name has an entry whose spec, and the spec its results are of, a
\* registration probed and admitted; and probe_all, which writes back what it probed
\* and read earlier, undoes a registration in no other case than those named above.
EntriesTrue ==
    \A n \in Names : IF n \in Registered THEN Admitted(n) /\ OwnVerdict(n) ELSE entry[n] = NoEntry

\* One feature for an adapter at most, of a registered adapter, and as some admitted
\* spec of it says.
PublishedOnce(feats) ==
    \A f \in feats : /\ f.name \in Registered /\ \E s \in admitted : f = capability_payload(s)
                     /\ \A g \in feats : f.name = g.name => f = g

\* What the cell has at the gateway (publish.py, the hook of register), however
\* publications race and answers are lost: features that are PublishedOnce; and, until
\* some POST writes over what its GET had not seen, the last snapshot and every
\* feature published since it.
GatewayTrue ==
    /\ PublishedOnce(caps.published_features)
    /\ ~written.over => /\ caps.snapshot = written.snapshot
                        /\ written.names \subseteq {f.name : f \in caps.published_features}

\* resolve, against what it is to do: a lane that can take the request, at zero
\* cost if there is one, metered only with budget, of the model asked for if
\* there is one at that price; and NoLaneError only if there is none.
RouteOK ==
    \A rq \in Requests :
        LET lane     == resolve(rq.intent, rq.prompt_bytes, rq.model, rq.budget_ok)
            takes(s) == rq.intent \in s.intents /\ (s.kind = "cli" => rq.prompt_bytes <= s.cap)
            able     == {s \in {entry[n].spec : n \in Registered} : takes(s)}
            free     == {s \in able : s.billing # "metered"}
            allowed  == IF free # {} THEN free ELSE IF rq.budget_ok THEN able ELSE {}
            asked    == {s \in allowed : rq.model # "" /\ rq.model \in s.models \union {s.name}}
        IN  IF allowed = {} THEN lane = NoLane
            ELSE lane \in (IF asked = {} THEN allowed ELSE asked)

=============================================================================
