------------------------- MODULE AdapterRegistryProofs -------------------------
(***************************************************************************)
(* What the registry promises for any threads, names, specs and numbers of *)
(* calls and snapshots.  One invariant: the entries and the gateway are as *)
(* the properties say, and so are the entry a thread is about to store     *)
(* (JobOK), the results its probe_all holds (HeldOK), and what its GET     *)
(* returned.                                                               *)
(***************************************************************************)
EXTENDS AdapterRegistry, TLAPS, WellFoundedInduction, FiniteSetTheorems

\* What t holds of n: results of an admitted spec, of the one that is registered
\* unless it was registered again since, and no FAIL once they were judged.
HeldOK(t, n) ==
    got[t][n] # NoEntry =>
        /\ n \in Registered /\ got[t][n].of \in admitted /\ got[t][n].of.name = n
        /\ n \notin crossed => got[t][n].of = entry[n].spec
        /\ pc[t] \in {"reread", "write"} => ~got[t][n].failed

JobOK(t) ==
    /\ pc[t] = "probe" => job[t].spec \in Specs
    /\ pc[t] \in {"store", "get", "post", "write"} => job[t].spec \in admitted
    /\ pc[t] = "store" => job[t].of = job[t].spec /\ ~job[t].failed
    /\ pc[t] \in {"get", "post", "write"} => job[t].spec.name \in Registered
    /\ pc[t] \in {"reread", "write"} => todo[t] \subseteq Probed(t)
    /\ pc[t] = "write" =>
          /\ job[t].spec.name \in todo[t] /\ ~job[t].failed
          /\ job[t].of = got[t][job[t].spec.name].of
          /\ job[t].spec.name \notin lost => job[t].spec = entry[job[t].spec.name].spec

Inv == /\ RegistryTypeOK /\ EntriesTrue /\ GatewayTrue
       /\ \A t \in Threads : /\ JobOK(t) /\ PublishedOnce(peer[t].published_features)
                             /\ \A n \in Names : HeldOK(t, n)

USE RegistryAssumption

-----------------------------------------------------------------------------
\* An entry of a spec is not the absence of one.
LEMMA EntryType ==
    ASSUME NEW s \in MaybeSpec, NEW in \in Inputs, NEW of \in MaybeSpec, NEW failed \in BOOLEAN
    PROVE  /\ Entry(s, in, of, failed) \in Entries(MaybeSpec)
           /\ Entry(s, in, of, failed).spec = s /\ Entry(s, in, of, failed).in = in
           /\ Entry(s, in, of, failed).of = of /\ Entry(s, in, of, failed).failed = failed
           /\ s \in Specs => Entry(s, in, of, failed) # NoEntry
<1>1. s \in Specs => s # None
  <2>1. None.name = "none"
    BY DEF None
  <2>2. s \in Specs => s.name \in Names /\ "none" \notin Names
    BY DEF RegistryAssumption
  <2>. QED BY <2>1, <2>2
<1>. QED BY <1>1 DEF Entry, Entries, NoEntry

\* What is there at the start has its type.
LEMMA EmptyTypes == NoEntry \in Entries(MaybeSpec) /\ NoCaps \in Caps /\ NoInputs \in Inputs
<1>1. NoInputs \in Inputs
  BY DEF NoInputs, Inputs
<1>2. None \in MaybeSpec
  BY DEF MaybeSpec
<1>3. NoEntry \in Entries(MaybeSpec)
  BY <1>1, <1>2 DEF NoEntry, Entry, Entries
<1>4. NoCaps \in Caps
  BY DEF NoCaps, Caps
<1>. QED BY <1>1, <1>3, <1>4

\* The initial state satisfies the invariant.
LEMMA InitInv == Init => Inv
<1>. SUFFICES ASSUME Init PROVE Inv
  OBVIOUS
<1>1. Registered = {}
  BY DEF Init, Registered, ToSet
<1>2. RegistryTypeOK
  <2>1. order \in Seq(Names) /\ IsInjective(order)
    BY DEF Init, IsInjective
  <2>2. entry \in [Names -> Entries(MaybeSpec)] /\ job \in [Threads -> Entries(MaybeSpec)]
    BY EmptyTypes DEF Init
  <2>3. got \in [Threads -> [Names -> Entries(MaybeSpec)]]
    BY EmptyTypes DEF Init
  <2>4. latest \in [Names -> MaybeSpec] /\ lost \subseteq crossed /\ crossed \subseteq Registered
    BY DEF Init, MaybeSpec
  <2>5. calls \in 0..MaxCalls /\ admitted \subseteq Specs
    BY DEF Init, RegistryAssumption
  <2>6. dirty \in BOOLEAN
    BY DEF Init
  <2>7. pc \in [Threads -> Ended \union Busy] /\ todo \in [Threads -> SUBSET Registered]
    BY DEF Init, Ended
  <2>8. peer \in [Threads -> Caps] /\ caps \in Caps
    BY EmptyTypes DEF Init
  <2>9. written \in [snapshot : 0..MaxSnapshots, names : SUBSET Names, over : BOOLEAN]
    BY DEF Init, RegistryAssumption
  <2>10. \A t \in Threads : pc[t] \notin {"probe", "store", "get", "post", "write"}
    BY DEF Init
  <2>. QED BY <2>1, <2>2, <2>3, <2>4, <2>5, <2>6, <2>7, <2>8, <2>9, <2>10 DEF RegistryTypeOK
<1>3. EntriesTrue
  BY <1>1 DEF Init, EntriesTrue
<1>4. GatewayTrue
  BY DEF Init, GatewayTrue, PublishedOnce, NoCaps
<1>5. ASSUME NEW t \in Threads
      PROVE  /\ JobOK(t) /\ PublishedOnce(peer[t].published_features)
             /\ \A n \in Names : HeldOK(t, n)
  BY DEF Init, JobOK, PublishedOnce, HeldOK, NoCaps
<1>. QED BY <1>2, <1>3, <1>4, <1>5 DEF Inv

-----------------------------------------------------------------------------
\* A step of a thread that touches neither the entries nor the gateway: what is true
\* of the others stays true, so only its own job and peer are to be looked at.
LEMMA QuietInv ==
    ASSUME Inv, NEW t \in Threads, NEW l \in Ended \union Busy, pc' = [pc EXCEPT ![t] = l],
           UNCHANGED <<entries, probing, gateway, dirty>>,
           calls' \in 0..MaxCalls, admitted \subseteq admitted', admitted' \subseteq Specs,
           job' \in [Threads -> Entries(MaybeSpec)], \A u \in Threads \ {t} : job'[u] = job[u],
           peer' \in [Threads -> Caps], \A u \in Threads \ {t} : peer'[u] = peer[u],
           peer'[t] \in {peer[t], caps, NoCaps},
           l \in {"reread", "write"} => pc[t] \in {"reread", "write"},
           JobOK(t)'
    PROVE  Inv'
<1>1. UNCHANGED <<order, entry, latest, crossed, lost, todo, got, caps, written, dirty, Registered>>
  BY DEF entries, probing, gateway, Registered
<1>2. pc \in [Threads -> Ended \union Busy]
  BY DEF Inv, RegistryTypeOK
<1>3. RegistryTypeOK'
  <2>1. ASSUME NEW u \in Threads
        PROVE  pc'[u] \in {"probe", "store", "get", "post", "write"} => job'[u].spec \in Specs
    <3>1. CASE u = t
      BY <3>1 DEF JobOK
    <3>2. CASE u # t
      BY <1>2, <3>2 DEF Inv, RegistryTypeOK
    <3>. QED BY <3>1, <3>2
  <2>2. pc' \in [Threads -> Ended \union Busy]
    BY <1>2
  <2>3. dirty' \in BOOLEAN
    BY <1>1 DEF Inv, RegistryTypeOK
  <2>. QED BY <1>1, <2>1, <2>2, <2>3 DEF Inv, RegistryTypeOK
<1>4. EntriesTrue'
  BY <1>1 DEF Inv, EntriesTrue, Admitted, OwnVerdict
<1>5. ASSUME NEW feats, PublishedOnce(feats)
      PROVE  \A f \in feats : /\ f.name \in Registered' /\ \E s \in admitted' : f = capability_payload(s)
                              /\ \A g \in feats : f.name = g.name => f = g
  BY <1>1, <1>5 DEF PublishedOnce
<1>6. GatewayTrue'
  BY <1>1, <1>5 DEF Inv, GatewayTrue, PublishedOnce
<1>7. ASSUME NEW u \in Threads PROVE PublishedOnce(peer[u].published_features)'
  <2>1. PublishedOnce(NoCaps.published_features)
    BY DEF NoCaps, PublishedOnce
  <2>2. PublishedOnce(peer'[u].published_features)
    BY <2>1 DEF Inv, GatewayTrue
  <2>. QED BY <1>5, <2>2 DEF PublishedOnce
<1>8. ASSUME NEW u \in Threads PROVE JobOK(u)'
  <2>1. CASE u = t
    BY <2>1
  <2>2. CASE u # t
    <3>1. pc'[u] = pc[u] /\ job'[u] = job[u]
      BY <1>2, <2>2
    <3>. QED BY <1>1, <3>1 DEF Inv, JobOK, Probed
  <2>. QED BY <2>1, <2>2
<1>9. ASSUME NEW u \in Threads, NEW n \in Names PROVE HeldOK(u, n)'
  <2>1. pc'[u] \in {"reread", "write"} => pc[u] \in {"reread", "write"}
    BY <1>2
  <2>. QED BY <1>1, <2>1 DEF Inv, HeldOK
<1>. QED BY <1>3, <1>4, <1>6, <1>7, <1>8, <1>9 DEF Inv

\* What is still to be known of such a step when job and peer stay as they are.
LEMMA SameInv ==
    ASSUME Inv, NEW t \in Threads, NEW l \in Ended, pc' = [pc EXCEPT ![t] = l],
           UNCHANGED <<entries, calls, dirty, job, probing, peer, gateway, admitted>>
    PROVE  Inv'
<1>1. calls' \in 0..MaxCalls /\ admitted' \subseteq Specs /\ job' \in [Threads -> Entries(MaybeSpec)]
      /\ peer' \in [Threads -> Caps] /\ l \in Ended \union Busy /\ pc'[t] = l
  BY DEF Inv, RegistryTypeOK
<1>2. JobOK(t)'
  BY <1>1 DEF Ended, JobOK
<1>. QED BY <1>1, <1>2, QuietInv DEF Ended

\* register begins.
LEMMA RegisterInv ==
    ASSUME Inv, NEW t \in Threads, NEW s \in Specs, NEW in \in Given, Register(t, s, in)
    PROVE  Inv'
<1>1. /\ pc' = [pc EXCEPT ![t] = "probe"] /\ job' = [job EXCEPT ![t] = Entry(s, in, None, FALSE)]
      /\ calls' = calls + 1 /\ calls < MaxCalls
      /\ UNCHANGED <<entries, dirty, probing, peer, gateway, admitted>>
  BY DEF Register, From, Goto
<1>2. /\ Entry(s, in, None, FALSE) \in Entries(MaybeSpec) /\ Entry(s, in, None, FALSE).spec = s
  <2>1. s \in MaybeSpec /\ None \in MaybeSpec /\ in \in Inputs
    BY DEF RegistryAssumption, MaybeSpec
  <2>. QED BY <2>1, EntryType
<1>3. /\ calls' \in 0..MaxCalls /\ job' \in [Threads -> Entries(MaybeSpec)] /\ job'[t].spec = s
      /\ peer' \in [Threads -> Caps] /\ pc'[t] = "probe" /\ admitted' \subseteq Specs
  <2>1. calls' \in 0..MaxCalls
    <3>1. calls \in Nat /\ MaxCalls \in Nat
      BY DEF Inv, RegistryTypeOK, RegistryAssumption
    <3>. QED BY <1>1, <3>1
  <2>. QED BY <1>1, <1>2, <2>1 DEF Inv, RegistryTypeOK
<1>4. JobOK(t)'
  BY <1>3 DEF JobOK
<1>. QED BY <1>1, <1>3, <1>4, QuietInv DEF Busy, Inv, RegistryTypeOK

\* Its probes: a FAIL raises, and anything else admits the spec.
LEMMA ProbeInv == ASSUME Inv, NEW t \in Threads, Probe(t) PROVE Inv'
<1>. DEFINE s == job[t].spec  in == job[t].in
<1>1. PICK r \in probe_adapter(s, in) :
        /\ pc' = [pc EXCEPT ![t] = IF Failed(r) THEN "raised" ELSE "store"]
        /\ job' = IF Failed(r) THEN job ELSE [job EXCEPT ![t] = Entry(s, in, s, FALSE)]
        /\ admitted' = IF Failed(r) THEN admitted ELSE admitted \union {s}
  BY DEF Probe, Goto
<1>2. UNCHANGED <<entries, calls, dirty, probing, peer, gateway>> /\ pc[t] = "probe"
  BY DEF Probe
<1>3. CASE Failed(r)
  <2>1. pc' = [pc EXCEPT ![t] = "raised"] /\ job' = job /\ admitted' = admitted
    BY <1>1, <1>3
  <2>. QED BY <1>2, <2>1, SameInv DEF Ended
<1>4. CASE ~Failed(r)
  <2>1. /\ pc' = [pc EXCEPT ![t] = "store"] /\ job' = [job EXCEPT ![t] = Entry(s, in, s, FALSE)]
        /\ admitted' = admitted \union {s}
    BY <1>1, <1>4
  <2>2. s \in Specs /\ in \in Inputs
    BY <1>2 DEF Inv, RegistryTypeOK, Entries
  <2>3. /\ Entry(s, in, s, FALSE) \in Entries(MaybeSpec) /\ Entry(s, in, s, FALSE).spec = s
        /\ Entry(s, in, s, FALSE).of = s /\ ~Entry(s, in, s, FALSE).failed
    <3>. HIDE DEF s, in
    <3>1. s \in MaybeSpec
      BY <2>2 DEF MaybeSpec
    <3>2. /\ Entry(s, in, s, FALSE) \in Entries(MaybeSpec) /\ Entry(s, in, s, FALSE).spec = s
          /\ Entry(s, in, s, FALSE).of = s
      BY <2>2, <3>1, EntryType
    <3>3. ~Entry(s, in, s, FALSE).failed
      BY DEF Entry
    <3>. QED BY <3>2, <3>3
  <2>4. /\ calls' \in 0..MaxCalls /\ job' \in [Threads -> Entries(MaybeSpec)]
        /\ job'[t] = Entry(s, in, s, FALSE)
        /\ peer' \in [Threads -> Caps] /\ pc'[t] = "store" /\ admitted' \subseteq Specs
    BY <1>2, <2>1, <2>2, <2>3 DEF Inv, RegistryTypeOK
  <2>5. JobOK(t)'
    BY <2>1, <2>3, <2>4 DEF JobOK
  <2>. QED BY <1>2, <2>1, <2>4, <2>5, QuietInv DEF Busy
<1>. QED BY <1>3, <1>4

\* A probe, or the hook, that raises.
LEMMA RaisesInv == ASSUME Inv, NEW t \in Threads, ProbeRaises(t) \/ HookFails(t) PROVE Inv'
<1>1. pc' = [pc EXCEPT ![t] = "raised"]
      /\ UNCHANGED <<entries, calls, dirty, job, probing, peer, gateway, admitted>>
  BY DEF ProbeRaises, HookFails, From, Goto
<1>. QED BY <1>1, SameInv DEF Ended

\* The publisher's GET.
LEMMA GetInv == ASSUME Inv, NEW t \in Threads, Get(t) PROVE Inv'
<1>1. /\ pc[t] = "get" /\ pc' = [pc EXCEPT ![t] = "post"] /\ peer' = [peer EXCEPT ![t] = caps]
      /\ UNCHANGED <<entries, calls, dirty, job, probing, gateway, admitted>>
  BY DEF Get, From, Goto
<1>2. /\ calls' \in 0..MaxCalls /\ job' \in [Threads -> Entries(MaybeSpec)] /\ pc'[t] = "post"
      /\ peer' \in [Threads -> Caps] /\ admitted' \subseteq Specs /\ peer'[t] = caps
  BY <1>1 DEF Inv, RegistryTypeOK
<1>3. JobOK(t)'
  BY <1>1, <1>2 DEF Inv, JobOK, Registered, entries
<1>. QED BY <1>1, <1>2, <1>3, QuietInv DEF Busy

\* The caller may call again.
LEMMA AgainInv == ASSUME Inv, NEW t \in Threads, Again(t) PROVE Inv'
<1>1. /\ pc' = [pc EXCEPT ![t] = "idle"] /\ job' = [job EXCEPT ![t] = NoEntry]
      /\ peer' = [peer EXCEPT ![t] = NoCaps]
      /\ UNCHANGED <<entries, calls, dirty, probing, gateway, admitted>>
  BY DEF Again, Goto
<1>2. /\ calls' \in 0..MaxCalls /\ job' \in [Threads -> Entries(MaybeSpec)] /\ pc'[t] = "idle"
      /\ peer' \in [Threads -> Caps] /\ admitted' \subseteq Specs /\ peer'[t] = NoCaps
  BY <1>1, EmptyTypes DEF Inv, RegistryTypeOK
<1>3. JobOK(t)'
  BY <1>2 DEF JobOK
<1>. QED BY <1>1, <1>2, <1>3, QuietInv DEF Ended

\* probe_all's second read of an entry.
LEMMA RereadInv ==
    ASSUME Inv, NEW t \in Threads, NEW n \in Names, Reread(t, n)
    PROVE  Inv'
<1>. DEFINE e == Entry(entry[n].spec, entry[n].in, got[t][n].of, got[t][n].failed)
<1>1. /\ pc[t] = "reread" /\ n \in todo[t] /\ pc' = [pc EXCEPT ![t] = "write"]
      /\ job' = [job EXCEPT ![t] = e]
      /\ UNCHANGED <<entries, calls, dirty, probing, peer, gateway, admitted>>
  BY DEF Reread, From, Goto
<1>2. /\ n \in Probed(t) /\ got[t][n] # NoEntry /\ n \in Registered /\ todo[t] \subseteq Probed(t)
      /\ got[t][n].of \in admitted /\ ~got[t][n].failed
  BY <1>1 DEF Inv, RegistryTypeOK, JobOK, HeldOK, Probed
<1>3. entry[n].spec \in admitted /\ entry[n].spec.name = n /\ admitted \subseteq Specs
  BY <1>2 DEF Inv, EntriesTrue, Admitted, RegistryTypeOK
<1>4. entry[n].in \in Inputs /\ got[t][n].failed \in BOOLEAN
  <2>1. entry[n] \in Entries(MaybeSpec) /\ got[t][n] \in Entries(MaybeSpec)
    BY DEF Inv, RegistryTypeOK
  <2>. QED BY <2>1 DEF Entries
<1>5. /\ e \in Entries(MaybeSpec) /\ e.spec = entry[n].spec
      /\ e.of = got[t][n].of /\ e.failed = got[t][n].failed
  <2>1. entry[n].spec \in MaybeSpec /\ got[t][n].of \in MaybeSpec
    BY <1>2, <1>3 DEF MaybeSpec
  <2>. QED BY <1>4, <2>1, EntryType
<1>6. /\ calls' \in 0..MaxCalls /\ job' \in [Threads -> Entries(MaybeSpec)] /\ pc'[t] = "write"
      /\ peer' \in [Threads -> Caps] /\ admitted' \subseteq Specs /\ job'[t] = e
  BY <1>1, <1>5 DEF Inv, RegistryTypeOK
<1>7. UNCHANGED <<order, entry, lost, todo, got, admitted>>
  BY <1>1 DEF entries, probing
<1>8. JobOK(t)'
  <2>1. /\ job'[t].spec \in admitted /\ job'[t].spec.name = n /\ n \in Registered'
        /\ ~job'[t].failed /\ job'[t].of = got[t][n].of /\ job'[t].spec = entry[n].spec
    BY <1>2, <1>3, <1>5, <1>6, <1>7 DEF Registered
  <2>2. Probed(t)' = Probed(t)
    BY <1>7 DEF Probed
  <2>. QED BY <1>1, <1>2, <1>6, <1>7, <2>1, <2>2 DEF JobOK
<1>. QED BY <1>1, <1>6, <1>8, QuietInv DEF Busy

\* Someone soils or cleans a config home, or nothing happens.
LEMMA StillInv ==
    ASSUME Inv, dirty' \in BOOLEAN,
           UNCHANGED <<entries, calls, pc, job, probing, peer, gateway, admitted>>
    PROVE  Inv'
<1>1. UNCHANGED <<order, entry, latest, crossed, lost, todo, got, caps, written, calls, pc, job, peer,
                  admitted, Registered>>
  BY DEF entries, probing, gateway, Registered
<1>2. RegistryTypeOK'
  BY <1>1 DEF Inv, RegistryTypeOK
<1>3. EntriesTrue' /\ GatewayTrue'
  BY <1>1 DEF Inv, EntriesTrue, Admitted, OwnVerdict, GatewayTrue, PublishedOnce
<1>4. ASSUME NEW t \in Threads
      PROVE  (/\ JobOK(t) /\ PublishedOnce(peer[t].published_features)
              /\ \A n \in Names : HeldOK(t, n))'
  BY <1>1 DEF Inv, JobOK, Probed, PublishedOnce, HeldOK
<1>. QED BY <1>2, <1>3, <1>4 DEF Inv

-----------------------------------------------------------------------------
\* Steps that leave the entries and the jobs alone: what a gateway and its readers
\* have is as good as before.
LEMMA PublishedInv ==
    ASSUME Inv, UNCHANGED <<entries, job, probing, peer, admitted>>,
           UNCHANGED pc \/ \E t \in Threads, l \in Ended : pc' = [pc EXCEPT ![t] = l],
           calls' = calls, dirty' = dirty,
           caps' \in Caps, written' \in [snapshot : 0..MaxSnapshots, names : SUBSET Names, over : BOOLEAN],
           GatewayTrue'
    PROVE  Inv'
<1>1. UNCHANGED <<order, entry, latest, crossed, lost, todo, got, calls, dirty, job, peer, admitted,
                  Registered>>
  BY DEF entries, probing, Registered
<1>2. /\ pc' \in [Threads -> Ended \union Busy]
      /\ \A u \in Threads : pc'[u] = pc[u] \/ pc'[u] \in Ended
  BY DEF Inv, RegistryTypeOK
<1>3. RegistryTypeOK'
  <2>1. ASSUME NEW u \in Threads
        PROVE  pc'[u] \in {"probe", "store", "get", "post", "write"} => job'[u].spec \in Specs
    BY <1>1, <1>2 DEF Inv, RegistryTypeOK, Ended
  <2>2. dirty' \in BOOLEAN
    BY <1>1 DEF Inv, RegistryTypeOK
  <2>. QED BY <1>1, <1>2, <2>1, <2>2 DEF Inv, RegistryTypeOK
<1>4. EntriesTrue'
  BY <1>1 DEF Inv, EntriesTrue, Admitted, OwnVerdict
<1>5. ASSUME NEW u \in Threads
      PROVE  (/\ JobOK(u) /\ PublishedOnce(peer[u].published_features)
              /\ \A n \in Names : HeldOK(u, n))'
  <2>1. PublishedOnce(peer[u].published_features)'
    BY <1>1 DEF Inv, PublishedOnce
  <2>2. JobOK(u)'
    BY <1>1, <1>2 DEF Inv, JobOK, Probed, Ended
  <2>3. \A n \in Names : HeldOK(u, n)'
    BY <1>1, <1>2 DEF Inv, HeldOK, Ended
  <2>. QED BY <2>1, <2>2, <2>3
<1>. QED BY <1>3, <1>4, <1>5 DEF Inv

\* What is written back has one feature more, of what was stored.
LEMMA PostInv == ASSUME Inv, NEW t \in Threads, Post(t) PROVE Inv'
<1>. DEFINE f == capability_payload(job[t].spec)  s == job[t].spec
<1>1. /\ pc[t] = "post" /\ \E l \in Ended : pc' = [pc EXCEPT ![t] = l]
      /\ caps' = Merged(peer[t], f)
      /\ written' = [written EXCEPT !.names = @ \union {s.name}, !.over = @ \/ caps # peer[t]]
      /\ UNCHANGED <<entries, calls, dirty, job, probing, peer, admitted>>
  BY DEF Post, Goto, Ended
<1>2. s \in admitted /\ s.name \in Registered /\ s \in Specs /\ s.name \in Names
  BY <1>1 DEF Inv, JobOK, RegistryTypeOK, RegistryAssumption
<1>3. f \in Features /\ f.name = s.name
  BY <1>2 DEF Features, capability_payload
<1>4. /\ peer[t] \in Caps /\ caps \in Caps
      /\ written \in [snapshot : 0..MaxSnapshots, names : SUBSET Names, over : BOOLEAN]
  BY DEF Inv, RegistryTypeOK
<1>5. /\ caps'.published_features = {g \in peer[t].published_features : g.name # f.name} \union {f}
      /\ caps'.snapshot = peer[t].snapshot /\ caps' \in Caps
  <2>1. peer[t].snapshot \in 0..MaxSnapshots /\ peer[t].published_features \in SUBSET Features
    BY <1>4 DEF Caps
  <2>2. caps' = [snapshot |-> peer[t].snapshot,
                 published_features |-> {g \in peer[t].published_features : g.name # f.name} \union {f}]
    BY <1>1, <1>4 DEF Merged, Caps
  <2>. QED BY <1>3, <2>1, <2>2 DEF Caps
<1>6. /\ written' \in [snapshot : 0..MaxSnapshots, names : SUBSET Names, over : BOOLEAN]
      /\ written'.snapshot = written.snapshot /\ written'.names = written.names \union {s.name}
      /\ ~written'.over => ~written.over /\ caps = peer[t]
  <2>. DEFINE o == written.over \/ caps # peer[t]
  <2>1. o \in BOOLEAN /\ (~o => ~written.over /\ caps = peer[t])
    OBVIOUS
  <2>2. written' = [written EXCEPT !.names = @ \union {s.name}, !.over = o]
    BY <1>1
  <2>. HIDE DEF o
  <2>. QED BY <1>2, <1>4, <2>1, <2>2
<1>7. GatewayTrue'
  <2>1. Registered' = Registered /\ admitted' = admitted
    BY <1>1 DEF entries, Registered
  <2>2. PublishedOnce(caps.published_features)'
    <3>1. PublishedOnce(peer[t].published_features)
      BY DEF Inv
    <3>. QED BY <1>2, <1>3, <1>5, <2>1, <3>1 DEF PublishedOnce
  <2>3. ASSUME ~written'.over
        PROVE  /\ caps'.snapshot = written'.snapshot
               /\ written'.names \subseteq {g.name : g \in caps'.published_features}
    <3>1. /\ caps.snapshot = written.snapshot
          /\ written.names \subseteq {g.name : g \in caps.published_features}
          /\ caps = peer[t]
      BY <1>6, <2>3 DEF Inv, GatewayTrue
    <3>. QED BY <1>3, <1>5, <1>6, <3>1
  <2>. QED BY <2>2, <2>3 DEF GatewayTrue
<1>. QED BY <1>1, <1>5, <1>6, <1>7, PublishedInv

\* The daemon starts again from nothing published.
LEMMA SnapshotInv == ASSUME Inv, Snapshot PROVE Inv'
<1>1. /\ written.snapshot < MaxSnapshots
      /\ caps' = [snapshot |-> written.snapshot + 1, published_features |-> {}]
      /\ written' = [written EXCEPT !.snapshot = @ + 1, !.names = {}]
      /\ UNCHANGED <<entries, calls, dirty, pc, job, probing, peer, admitted>>
  BY DEF Snapshot
<1>2. written \in [snapshot : 0..MaxSnapshots, names : SUBSET Names, over : BOOLEAN] /\ MaxSnapshots \in Nat
  BY DEF Inv, RegistryTypeOK, RegistryAssumption
<1>3. /\ caps' \in Caps
      /\ written' \in [snapshot : 0..MaxSnapshots, names : SUBSET Names, over : BOOLEAN]
      /\ caps'.snapshot = written'.snapshot /\ caps'.published_features = {} /\ written'.names = {}
  <2>1. written.snapshot \in Nat /\ written.snapshot + 1 \in 0..MaxSnapshots
    BY <1>1, <1>2
  <2>2. caps' \in Caps /\ caps'.snapshot = written.snapshot + 1 /\ caps'.published_features = {}
    BY <1>1, <2>1 DEF Caps
  <2>3. /\ written' \in [snapshot : 0..MaxSnapshots, names : SUBSET Names, over : BOOLEAN]
        /\ written'.snapshot = written.snapshot + 1 /\ written'.names = {}
    BY <1>1, <1>2, <2>1
  <2>. QED BY <2>2, <2>3
<1>4. GatewayTrue'
  BY <1>3 DEF GatewayTrue, PublishedOnce
<1>. QED BY <1>1, <1>3, <1>4, PublishedInv

-----------------------------------------------------------------------------
\* A name that is entered is there, and those that were there still are.
LEMMA Entered ==
    ASSUME Inv, NEW n \in Names,
           order' = IF n \in Registered THEN order ELSE Append(order, n)
    PROVE  Registered' = Registered \union {n} /\ order' \in Seq(Names) /\ IsInjective(order')
<1>1. order \in Seq(Names) /\ IsInjective(order)
  BY DEF Inv, RegistryTypeOK
<1>2. CASE n \in Registered
  <2>1. order' = order
    BY <1>2
  <2>. QED BY <1>1, <1>2, <2>1 DEF Registered
<1>3. CASE n \notin Registered
  <2>1. /\ order' = Append(order, n) /\ Len(order) \in Nat /\ DOMAIN order = 1..Len(order)
        /\ \A i \in DOMAIN order : order[i] # n
    BY <1>1, <1>3 DEF Registered, ToSet
  <2>2. /\ order' \in Seq(Names) /\ DOMAIN order' = 1..(Len(order) + 1)
        /\ \A i \in 1..Len(order) : order'[i] = order[i]
        /\ order'[Len(order) + 1] = n
    BY <1>1, <2>1
  <2>3. Registered' = Registered \union {n}
    BY <1>1, <2>1, <2>2 DEF Registered, ToSet
  <2>4. IsInjective(order')
    <3>1. \A i, j \in 1..Len(order) : order[i] = order[j] => i = j
      BY <1>1, <2>1 DEF IsInjective
    <3>. QED BY <2>1, <2>2, <3>1 DEF IsInjective
  <2>. QED BY <2>2, <2>3, <2>4
<1>. QED BY <1>2, <1>3

\* A registration is stored: probes of that name that a probe_all holds are crossed,
\* and the entry it is about to write back is older.
LEMMA StoreInv == ASSUME Inv, NEW t \in Threads, Store(t) PROVE Inv'
<1>. DEFINE n == job[t].spec.name
            held == \E u \in Threads : n \in Probed(u)
            late == \E u \in Threads : pc[u] = "write" /\ job[u].spec.name = n
<1>1. PICK l \in {"get", "returned"} : pc[t] = "store" /\ pc' = [pc EXCEPT ![t] = l]
  BY DEF Store, Goto
<1>2. /\ order' = IF n \in Registered THEN order ELSE Append(order, n)
      /\ entry' = [entry EXCEPT ![n] = job[t]] /\ latest' = [latest EXCEPT ![n] = job[t].spec]
      /\ UNCHANGED <<calls, dirty, job, todo, got, peer, caps, written, admitted>>
  BY DEF Store, probing, gateway
<1>3. /\ crossed' = crossed \union {m \in {n} : \E u \in Threads : m \in Probed(u)}
      /\ lost' = lost \union {m \in {n} : \E u \in Threads : pc[u] = "write" /\ job[u].spec.name = m}
  BY DEF Store
<1>4. /\ crossed' = crossed \union (IF held THEN {n} ELSE {})
      /\ lost' = lost \union (IF late THEN {n} ELSE {})
  BY <1>3
<1>5. /\ job[t].spec \in admitted /\ job[t].of = job[t].spec /\ ~job[t].failed
      /\ job[t].spec \in Specs /\ n \in Names /\ job[t] \in Entries(MaybeSpec)
  BY <1>1 DEF Inv, JobOK, RegistryTypeOK, RegistryAssumption
<1>6. Registered' = Registered \union {n} /\ order' \in Seq(Names) /\ IsInjective(order')
  BY <1>2, <1>5, Entered
<1>7. late => held
  BY DEF Inv, JobOK
<1>8. /\ entry \in [Names -> Entries(MaybeSpec)] /\ latest \in [Names -> MaybeSpec]
      /\ pc \in [Threads -> Ended \union Busy] /\ lost \subseteq crossed /\ crossed \subseteq Registered
      /\ todo \in [Threads -> SUBSET Registered]
  BY DEF Inv, RegistryTypeOK
<1>9. RegistryTypeOK'
  <2>1. entry' \in [Names -> Entries(MaybeSpec)] /\ latest' \in [Names -> MaybeSpec]
    <3>1. job[t].spec \in MaybeSpec
      BY <1>5 DEF MaybeSpec
    <3>. QED BY <1>2, <1>5, <1>8, <3>1
  <2>2. lost' \subseteq crossed' /\ crossed' \subseteq Registered'
    BY <1>4, <1>6, <1>7, <1>8
  <2>3. pc' \in [Threads -> Ended \union Busy] /\ todo' \in [Threads -> SUBSET Registered']
    BY <1>1, <1>2, <1>6, <1>8 DEF Ended, Busy
  <2>4. dirty' \in BOOLEAN
    BY <1>2 DEF Inv, RegistryTypeOK
  <2>5. ASSUME NEW u \in Threads
        PROVE  pc'[u] \in {"probe", "store", "get", "post", "write"} => job'[u].spec \in Specs
    BY <1>1, <1>2, <1>5, <1>8 DEF Inv, RegistryTypeOK
  <2>. QED BY <1>2, <1>6, <2>1, <2>2, <2>3, <2>4, <2>5 DEF Inv, RegistryTypeOK
<1>10. EntriesTrue'
  <2>1. ASSUME NEW m \in Names
        PROVE  IF m \in Registered' THEN Admitted(m)' /\ OwnVerdict(m)' ELSE entry'[m] = NoEntry
    <3>1. CASE m = n
      <4>1. entry'[m] = job[t] /\ latest'[m] = job[t].spec /\ m \in Registered'
        BY <1>2, <1>5, <1>6, <1>8, <3>1
      <4>. QED BY <1>2, <1>5, <3>1, <4>1 DEF Admitted, OwnVerdict
    <3>2. CASE m # n
      <4>1. /\ entry'[m] = entry[m] /\ latest'[m] = latest[m]
            /\ (m \in Registered' <=> m \in Registered)
            /\ (m \in crossed' <=> m \in crossed) /\ (m \in lost' <=> m \in lost)
        BY <1>2, <1>4, <1>6, <1>8, <3>2
      <4>. QED BY <1>2, <4>1 DEF Inv, EntriesTrue, Admitted, OwnVerdict
    <3>. QED BY <3>1, <3>2
  <2>. QED BY <2>1 DEF EntriesTrue
<1>11. GatewayTrue'
  <2>1. PublishedOnce(caps.published_features)'
    BY <1>2, <1>6 DEF Inv, GatewayTrue, PublishedOnce
  <2>. QED BY <1>2, <2>1 DEF Inv, GatewayTrue
<1>12. ASSUME NEW u \in Threads PROVE PublishedOnce(peer[u].published_features)'
  BY <1>2, <1>6 DEF Inv, PublishedOnce
<1>13. ASSUME NEW u \in Threads PROVE JobOK(u)'
  <2>1. Probed(u)' = Probed(u)
    BY <1>2 DEF Probed
  <2>2. CASE u = t
    <3>1. pc'[u] = l
      BY <1>1, <1>8, <2>2
    <3>. QED BY <1>1, <1>2, <1>5, <1>6, <2>2, <3>1 DEF JobOK
  <2>3. CASE u # t
    <3>1. pc'[u] = pc[u] /\ job'[u] = job[u] /\ todo'[u] = todo[u] /\ got' = got
      BY <1>1, <1>2, <1>8, <2>3
    <3>2. ASSUME pc[u] = "write", job[u].spec.name \notin lost'
          PROVE  job[u].spec = entry'[job[u].spec.name].spec
      <4>1. job[u].spec.name # n /\ job[u].spec.name \notin lost
        BY <1>4, <3>2
      <4>2. job[u].spec = entry[job[u].spec.name].spec /\ job[u].spec.name \in Names
        BY <3>2, <4>1 DEF Inv, JobOK, RegistryTypeOK, RegistryAssumption
      <4>. QED BY <1>2, <1>8, <4>1, <4>2
    <3>. QED BY <1>2, <1>6, <2>1, <3>1, <3>2 DEF Inv, JobOK
  <2>. QED BY <2>2, <2>3
<1>14. ASSUME NEW u \in Threads, NEW m \in Names PROVE HeldOK(u, m)'
  <2>. SUFFICES ASSUME got[u][m] # NoEntry
                PROVE  /\ m \in Registered' /\ got[u][m].of \in admitted /\ got[u][m].of.name = m
                       /\ m \notin crossed' => got[u][m].of = entry'[m].spec
                       /\ pc'[u] \in {"reread", "write"} => ~got[u][m].failed
    BY <1>2 DEF HeldOK
  <2>1. HeldOK(u, m) /\ m \in Probed(u)
    BY DEF Inv, Probed
  <2>2. m \notin crossed' => m # n /\ m \notin crossed
    BY <1>4, <2>1
  <2>3. pc'[u] \in {"reread", "write"} => pc[u] \in {"reread", "write"}
    BY <1>1, <1>8
  <2>. QED BY <1>2, <1>6, <1>8, <2>1, <2>2, <2>3 DEF HeldOK
<1>. QED BY <1>9, <1>10, <1>11, <1>12, <1>13, <1>14 DEF Inv

-----------------------------------------------------------------------------
\* Steps of a probe_all up to its writes: the entries, the jobs and the gateway stay.
LEMMA PoolInv ==
    ASSUME Inv, NEW t \in Threads, NEW l \in Ended \union {"pool", "judge", "reread"},
           pc' = [pc EXCEPT ![t] = l],
           UNCHANGED <<entries, dirty, job, peer, gateway, admitted>>, calls' \in 0..MaxCalls,
           todo' \in [Threads -> SUBSET Registered], \A u \in Threads \ {t} : todo'[u] = todo[u],
           got' \in [Threads -> [Names -> Entries(MaybeSpec)]],
           \A u \in Threads \ {t} : got'[u] = got[u],
           l = "reread" => todo'[t] \subseteq Probed(t)',
           \A n \in Names : HeldOK(t, n)'
    PROVE  Inv'
<1>1. UNCHANGED <<order, entry, latest, crossed, lost, caps, written, dirty, job, peer, admitted,
                  Registered>>
  BY DEF entries, gateway, Registered
<1>2. pc \in [Threads -> Ended \union Busy] /\ pc' \in [Threads -> Ended \union Busy] /\ pc'[t] = l
  BY DEF Inv, RegistryTypeOK, Busy
<1>3. RegistryTypeOK'
  <2>1. ASSUME NEW u \in Threads
        PROVE  pc'[u] \in {"probe", "store", "get", "post", "write"} => job'[u].spec \in Specs
    <3>1. CASE u = t
      BY <1>2, <3>1 DEF Ended
    <3>2. CASE u # t
      BY <1>1, <1>2, <3>2 DEF Inv, RegistryTypeOK
    <3>. QED BY <3>1, <3>2
  <2>2. dirty' \in BOOLEAN
    BY <1>1 DEF Inv, RegistryTypeOK
  <2>. QED BY <1>1, <1>2, <2>1, <2>2 DEF Inv, RegistryTypeOK
<1>4. EntriesTrue' /\ GatewayTrue'
  BY <1>1 DEF Inv, EntriesTrue, Admitted, OwnVerdict, GatewayTrue, PublishedOnce
<1>5. ASSUME NEW u \in Threads PROVE PublishedOnce(peer[u].published_features)'
  BY <1>1 DEF Inv, PublishedOnce
<1>6. ASSUME NEW u \in Threads PROVE JobOK(u)'
  <2>1. CASE u = t
    BY <1>2, <2>1 DEF JobOK, Ended
  <2>2. CASE u # t
    <3>1. pc'[u] = pc[u] /\ todo'[u] = todo[u] /\ got'[u] = got[u]
      BY <1>2, <2>2
    <3>. QED BY <1>1, <3>1 DEF Inv, JobOK, Probed
  <2>. QED BY <2>1, <2>2
<1>7. ASSUME NEW u \in Threads, NEW n \in Names PROVE HeldOK(u, n)'
  <2>1. CASE u = t
    BY <2>1
  <2>2. CASE u # t
    <3>1. pc'[u] = pc[u] /\ got'[u] = got[u]
      BY <1>2, <2>2
    <3>. QED BY <1>1, <3>1 DEF Inv, HeldOK
  <2>. QED BY <2>1, <2>2
<1>. QED BY <1>3, <1>4, <1>5, <1>6, <1>7 DEF Inv

\* probe_all begins: every name that is there is to be probed.
LEMMA ProbeAllInv == ASSUME Inv, NEW t \in Threads, ProbeAll(t) PROVE Inv'
<1>1. PICK l \in {"returned", "pool"} : pc' = [pc EXCEPT ![t] = l]
  BY DEF ProbeAll, From, Goto
<1>2. /\ calls < MaxCalls /\ calls' = calls + 1 /\ todo' = [todo EXCEPT ![t] = Registered]
      /\ UNCHANGED <<entries, dirty, job, got, peer, gateway, admitted>>
  BY DEF ProbeAll
<1>3. calls' \in 0..MaxCalls
  <2>1. calls \in Nat /\ MaxCalls \in Nat
    BY DEF Inv, RegistryTypeOK, RegistryAssumption
  <2>. QED BY <1>2, <2>1
<1>4. /\ todo' \in [Threads -> SUBSET Registered] /\ \A u \in Threads \ {t} : todo'[u] = todo[u]
      /\ got' \in [Threads -> [Names -> Entries(MaybeSpec)]]
  BY <1>2 DEF Inv, RegistryTypeOK
<1>5. ASSUME NEW n \in Names PROVE HeldOK(t, n)'
  <2>1. pc'[t] = l
    BY <1>1 DEF Inv, RegistryTypeOK
  <2>2. UNCHANGED <<got, entry, crossed, admitted, Registered>>
    BY <1>2 DEF entries, Registered
  <2>. QED BY <2>1, <2>2 DEF Inv, HeldOK
<1>. QED BY <1>1, <1>2, <1>3, <1>4, <1>5, PoolInv DEF Ended

\* A worker's results are of the spec it read.
LEMMA WorkerInv ==
    ASSUME Inv, NEW t \in Threads, NEW n \in Names, Worker(t, n)
    PROVE  Inv'
<1>. DEFINE s == entry[n].spec
<1>1. PICK r \in probe_adapter(s, entry[n].in) :
        got' = [got EXCEPT ![t][n] = Entry(s, entry[n].in, s, Failed(r))]
  BY DEF Worker
<1>. DEFINE e == Entry(s, entry[n].in, s, Failed(r))
<1>2. PICK l \in {"pool", "judge"} : pc' = [pc EXCEPT ![t] = l]
  BY DEF Worker, Goto
<1>3. /\ n \in todo[t] /\ todo' = [todo EXCEPT ![t] = @ \ {n}]
      /\ UNCHANGED <<entries, calls, dirty, job, peer, gateway, admitted>>
  BY DEF Worker
<1>4. /\ todo \in [Threads -> SUBSET Registered] /\ entry[n] \in Entries(MaybeSpec) /\ n \in Registered
      /\ got \in [Threads -> [Names -> Entries(MaybeSpec)]] /\ admitted \subseteq Specs
      /\ calls \in 0..MaxCalls
  BY <1>3 DEF Inv, RegistryTypeOK
<1>5. s \in admitted /\ s.name = n
  BY <1>4 DEF Inv, EntriesTrue, Admitted
<1>6. e \in Entries(MaybeSpec) /\ e.of = s
  <2>1. Failed(r) \in BOOLEAN
    BY DEF Failed
  <2>2. s \in MaybeSpec /\ entry[n].in \in Inputs
    BY <1>4 DEF Entries
  <2>3. \A f \in BOOLEAN : /\ Entry(s, entry[n].in, s, f) \in Entries(MaybeSpec)
                           /\ Entry(s, entry[n].in, s, f).of = s
    BY <2>2, EntryType
  <2>. QED BY <2>1, <2>3
<1>. HIDE DEF e
<1>7. /\ todo' \in [Threads -> SUBSET Registered] /\ \A u \in Threads \ {t} : todo'[u] = todo[u]
      /\ got' \in [Threads -> [Names -> Entries(MaybeSpec)]]
      /\ \A u \in Threads \ {t} : got'[u] = got[u]
      /\ got'[t][n] = e /\ \A m \in Names \ {n} : got'[t][m] = got[t][m]
  <2>1. got' = [got EXCEPT ![t][n] = e]
    BY <1>1 DEF e
  <2>. QED BY <1>3, <1>4, <1>6, <2>1
<1>8. ASSUME NEW m \in Names PROVE HeldOK(t, m)'
  <2>1. pc'[t] = l
    BY <1>2 DEF Inv, RegistryTypeOK
  <2>2. UNCHANGED <<entry, crossed, admitted, Registered>>
    BY <1>3 DEF entries, Registered
  <2>3. CASE m = n
    BY <1>4, <1>5, <1>6, <1>7, <2>1, <2>2, <2>3 DEF HeldOK
  <2>4. CASE m # n
    BY <1>7, <2>1, <2>2, <2>4 DEF Inv, HeldOK
  <2>. QED BY <2>3, <2>4
<1>. QED BY <1>2, <1>3, <1>4, <1>7, <1>8, PoolInv

\* A probe_all that gives up holds nothing any more.
LEMMA GivesUpInv ==
    ASSUME Inv, NEW t \in Threads, pc' = [pc EXCEPT ![t] = "raised"], GiveUp(t),
           UNCHANGED <<entries, calls, dirty, job, peer, gateway, admitted>>
    PROVE  Inv'
<1>1. /\ todo' = [todo EXCEPT ![t] = {}] /\ got' = [got EXCEPT ![t] = [n \in Names |-> NoEntry]]
      /\ todo \in [Threads -> SUBSET Registered] /\ got \in [Threads -> [Names -> Entries(MaybeSpec)]]
      /\ calls' \in 0..MaxCalls
  BY DEF GiveUp, Inv, RegistryTypeOK
<1>2. /\ todo' \in [Threads -> SUBSET Registered] /\ \A u \in Threads \ {t} : todo'[u] = todo[u]
      /\ got' \in [Threads -> [Names -> Entries(MaybeSpec)]]
      /\ \A u \in Threads \ {t} : got'[u] = got[u]
      /\ \A n \in Names : got'[t][n] = NoEntry
  BY <1>1, EmptyTypes
<1>3. \A n \in Names : HeldOK(t, n)'
  BY <1>2 DEF HeldOK
<1>. QED BY <1>1, <1>2, <1>3, PoolInv DEF Ended

\* A worker that raises.
LEMMA WorkerRaisesInv ==
    ASSUME Inv, NEW t \in Threads, NEW n \in Names, WorkerRaises(t, n)
    PROVE  Inv'
<1>. QED BY GivesUpInv DEF WorkerRaises, From, Goto

\* The results are judged together: one FAIL and none is written.
LEMMA JudgeInv == ASSUME Inv, NEW t \in Threads, Judge(t) PROVE Inv'
<1>. DEFINE failed == \E n \in Probed(t) : got[t][n].failed
<1>1. CASE failed
  BY <1>1, GivesUpInv DEF Judge, Goto
<1>2. CASE ~failed
  <2>1. /\ pc' = [pc EXCEPT ![t] = "reread"] /\ todo' = [todo EXCEPT ![t] = Probed(t)]
        /\ UNCHANGED <<entries, calls, dirty, job, got, peer, gateway, admitted>>
    BY <1>2 DEF Judge, Goto
  <2>2. Probed(t) \subseteq Registered
    BY DEF Inv, HeldOK, Probed
  <2>3. /\ todo' \in [Threads -> SUBSET Registered] /\ \A u \in Threads \ {t} : todo'[u] = todo[u]
        /\ got' \in [Threads -> [Names -> Entries(MaybeSpec)]] /\ todo'[t] = Probed(t)
        /\ calls' \in 0..MaxCalls
    BY <2>1, <2>2 DEF Inv, RegistryTypeOK
  <2>4. ASSUME NEW n \in Names PROVE HeldOK(t, n)'
    <3>1. UNCHANGED <<got, entry, crossed, admitted, Registered>>
      BY <2>1 DEF entries, Registered
    <3>2. got[t][n] # NoEntry => ~got[t][n].failed
      BY <1>2 DEF Probed
    <3>. QED BY <3>1, <3>2 DEF Inv, HeldOK
  <2>5. Probed(t)' = Probed(t)
    BY <2>1 DEF Probed
  <2>. QED BY <2>1, <2>3, <2>4, <2>5, PoolInv
<1>. QED BY <1>1, <1>2

\* A result is written with the entry that was read before it: what another thread
\* holds of the name, or is about to write, is still of it unless it was lost.
LEMMA WriteBackInv == ASSUME Inv, NEW t \in Threads, WriteBack(t) PROVE Inv'
<1>. DEFINE n == job[t].spec.name
<1>1. PICK l \in {"returned", "reread"} : pc[t] = "write" /\ pc' = [pc EXCEPT ![t] = l]
  BY DEF WriteBack, From, Goto
<1>2. /\ entry' = [entry EXCEPT ![n] = job[t]] /\ todo' = [todo EXCEPT ![t] = @ \ {n}]
      /\ got' = [got EXCEPT ![t][n] = NoEntry]
      /\ UNCHANGED <<order, latest, crossed, lost, calls, dirty, job, peer, caps, written, admitted,
                     Registered>>
  BY DEF WriteBack, gateway, Registered
<1>3. /\ job[t].spec \in admitted /\ n \in Registered /\ n \in todo[t] /\ ~job[t].failed
      /\ job[t].of = got[t][n].of /\ (n \notin lost => job[t].spec = entry[n].spec)
      /\ todo[t] \subseteq Probed(t)
  BY <1>1 DEF Inv, JobOK
<1>4. /\ entry \in [Names -> Entries(MaybeSpec)] /\ job[t] \in Entries(MaybeSpec)
      /\ todo \in [Threads -> SUBSET Registered] /\ got \in [Threads -> [Names -> Entries(MaybeSpec)]]
      /\ pc \in [Threads -> Ended \union Busy] /\ lost \subseteq crossed /\ admitted \subseteq Specs
  BY DEF Inv, RegistryTypeOK
<1>5. n \in Names /\ got[t][n] # NoEntry
  BY <1>3 DEF Probed
<1>6. /\ got[t][n].of \in admitted /\ got[t][n].of.name = n
      /\ n \notin crossed => got[t][n].of = entry[n].spec
  BY <1>5 DEF Inv, HeldOK
<1>7. /\ entry'[n] = job[t] /\ \A m \in Names \ {n} : entry'[m] = entry[m]
      /\ \A u \in Threads \ {t} : got'[u] = got[u] /\ todo'[u] = todo[u] /\ pc'[u] = pc[u]
      /\ got'[t][n] = NoEntry /\ \A m \in Names \ {n} : got'[t][m] = got[t][m]
      /\ todo'[t] = todo[t] \ {n} /\ pc'[t] = l
      /\ entry' \in [Names -> Entries(MaybeSpec)] /\ todo' \in [Threads -> SUBSET Registered]
      /\ got' \in [Threads -> [Names -> Entries(MaybeSpec)]]
      /\ pc' \in [Threads -> Ended \union Busy]
  <2>1. /\ entry'[n] = job[t] /\ \A m \in Names \ {n} : entry'[m] = entry[m]
        /\ entry' \in [Names -> Entries(MaybeSpec)]
    BY <1>2, <1>4, <1>5
  <2>2. /\ \A u \in Threads \ {t} : got'[u] = got[u]
        /\ got'[t][n] = NoEntry /\ \A m \in Names \ {n} : got'[t][m] = got[t][m]
        /\ got' \in [Threads -> [Names -> Entries(MaybeSpec)]]
    BY <1>2, <1>4, <1>5, EmptyTypes
  <2>3. /\ \A u \in Threads \ {t} : todo'[u] = todo[u] /\ pc'[u] = pc[u]
        /\ todo'[t] = todo[t] \ {n} /\ pc'[t] = l
        /\ todo' \in [Threads -> SUBSET Registered] /\ pc' \in [Threads -> Ended \union Busy]
    BY <1>1, <1>2, <1>4 DEF Ended, Busy
  <2>. QED BY <2>1, <2>2, <2>3
<1>8. n \notin lost => entry'[n].spec = entry[n].spec
  BY <1>3, <1>7
<1>9. RegistryTypeOK'
  <2>1. dirty' \in BOOLEAN
    BY <1>2 DEF Inv, RegistryTypeOK
  <2>2. ASSUME NEW u \in Threads
        PROVE  pc'[u] \in {"probe", "store", "get", "post", "write"} => job'[u].spec \in Specs
    BY <1>1, <1>2, <1>7 DEF Inv, RegistryTypeOK
  <2>. QED BY <1>2, <1>7, <2>1, <2>2 DEF Inv, RegistryTypeOK
<1>10. EntriesTrue'
  <2>1. ASSUME NEW m \in Names
        PROVE  IF m \in Registered' THEN Admitted(m)' /\ OwnVerdict(m)' ELSE entry'[m] = NoEntry
    <3>1. CASE m = n
      <4>1. n \notin lost => entry[n].spec = latest[n]
        BY <1>3, <1>5 DEF Inv, EntriesTrue, OwnVerdict
      <4>2. n \notin crossed => n \notin lost
        BY <1>4
      <4>. QED BY <1>2, <1>3, <1>6, <1>7, <1>8, <3>1, <4>1, <4>2 DEF Admitted, OwnVerdict
    <3>2. CASE m # n
      BY <1>2, <1>7, <3>2 DEF Inv, EntriesTrue, Admitted, OwnVerdict
    <3>. QED BY <3>1, <3>2
  <2>. QED BY <2>1 DEF EntriesTrue
<1>11. GatewayTrue' /\ \A u \in Threads : PublishedOnce(peer[u].published_features)'
  BY <1>2 DEF Inv, GatewayTrue, PublishedOnce
<1>12. ASSUME NEW u \in Threads PROVE JobOK(u)'
  <2>1. CASE u = t
    <3>1. l = "reread" => todo'[t] \subseteq Probed(t)'
      BY <1>3, <1>7 DEF Probed
    <3>. QED BY <1>1, <1>7, <2>1, <3>1 DEF JobOK
  <2>2. CASE u # t
    <3>1. /\ pc'[u] = pc[u] /\ todo'[u] = todo[u] /\ got'[u] = got[u] /\ job' = job /\ lost' = lost
      BY <1>2, <1>7, <2>2
    <3>2. Probed(u)' = Probed(u)
      BY <3>1 DEF Probed
    <3>3. ASSUME pc[u] = "write", job[u].spec.name \notin lost
          PROVE  job[u].spec = entry'[job[u].spec.name].spec
      <4>1. job[u].spec = entry[job[u].spec.name].spec /\ job[u].spec.name \in Names
        BY <3>3 DEF Inv, JobOK, RegistryTypeOK, RegistryAssumption
      <4>. QED BY <1>7, <1>8, <3>3, <4>1
    <3>. QED BY <1>2, <3>1, <3>2, <3>3 DEF Inv, JobOK
  <2>. QED BY <2>1, <2>2
<1>13. ASSUME NEW u \in Threads, NEW m \in Names PROVE HeldOK(u, m)'
  <2>1. m \notin crossed => entry'[m].spec = entry[m].spec
    BY <1>4, <1>7, <1>8
  <2>2. got'[u][m] = NoEntry \/ got'[u][m] = got[u][m]
    BY <1>7
  <2>3. pc'[u] \in {"reread", "write"} => pc[u] \in {"reread", "write"}
    BY <1>1, <1>7
  <2>. QED BY <1>2, <2>1, <2>2, <2>3 DEF Inv, HeldOK
<1>. QED BY <1>9, <1>10, <1>11, <1>12, <1>13 DEF Inv

-----------------------------------------------------------------------------
\* Every step keeps the invariant.
LEMMA NextInv == Inv /\ [Next]_vars => Inv'
<1>. SUFFICES ASSUME Inv, [Next]_vars PROVE Inv'
  OBVIOUS
<1>1. ASSUME NEW t \in Threads, Step(t) PROVE Inv'
  BY <1>1, RegisterInv, ProbeInv, RaisesInv, StoreInv, GetInv, PostInv, ProbeAllInv, JudgeInv,
     WriteBackInv, WorkerInv, WorkerRaisesInv, RereadInv, AgainInv DEF Step
<1>2. CASE Soil
  <2>1. dirty' \in BOOLEAN
    BY <1>2 DEF Soil
  <2>. QED BY <1>2, <2>1, StillInv DEF Soil
<1>3. CASE Snapshot
  BY <1>3, SnapshotInv
<1>4. CASE UNCHANGED vars
  <2>1. dirty' \in BOOLEAN
    BY <1>4 DEF vars, Inv, RegistryTypeOK
  <2>. QED BY <1>4, <2>1, StillInv DEF vars
<1>. QED BY <1>1, <1>2, <1>3, <1>4 DEF Next

\* In every reachable state.
THEOREM InvHolds == Spec => []Inv
<1>. QED BY InitInv, NextInv, PTL DEF Spec

\* The type invariant, for any threads, names, specs and bounds: a name is entered once.
THEOREM RegistryTypeCorrect == Spec => []RegistryTypeOK
<1>1. Inv => RegistryTypeOK
  BY DEF Inv
<1>. QED BY <1>1, InvHolds, PTL

\* register and probe_all, whatever interleaves: no entry whose spec, or whose results'
\* spec, was not admitted, none with a FAIL, and a registration is undone or mixed with
\* another's results only by a probe_all that it crossed.
THEOREM EntriesAreTrue == Spec => []EntriesTrue
<1>1. Inv => EntriesTrue
  BY DEF Inv
<1>. QED BY <1>1, InvHolds, PTL

\* gateway_publisher, whatever interleaves and however answers are lost: one feature of
\* an adapter, as an admitted spec of it says, and nothing lost before some POST wrote
\* over what its GET had not seen.
THEOREM GatewayIsTrue == Spec => []GatewayTrue
<1>1. Inv => GatewayTrue
  BY DEF Inv
<1>. QED BY <1>1, InvHolds, PTL

-----------------------------------------------------------------------------
(* resolve                                                                 *)

\* A nonempty set of numbers has a least one: of the intervals 0..m that end in
\* it, one has none of the others in it.
LEMMA LeastNat ==
    ASSUME NEW T \in SUBSET Nat, T # {}
    PROVE  \E x \in T : \A y \in T : x <= y
<1>1. PICK n \in T : TRUE
  OBVIOUS
<1>. DEFINE S     == 0..n
            Below == {U \in SUBSET S : \E m \in T : U = 0..m}
<1>2. PICK U \in Below : \A V \in Below : <<V, U>> \notin StrictSubsetOrdering(S)
  <2>1. IsFiniteSet(S)
    BY FS_Interval
  <2>2. IsWellFoundedOn(StrictSubsetOrdering(S), FiniteSubsetsOf(S))
    BY <2>1, FS_StrictSubsetOrderingWellFounded
  <2>3. Below \subseteq FiniteSubsetsOf(S)
    BY <2>1, FS_Subset DEF FiniteSubsetsOf
  <2>4. S \in Below
    BY <1>1
  <2>. HIDE DEF Below, S
  <2>. QED BY <2>2, <2>3, <2>4, WFMin
<1>3. PICK m \in T : U = 0..m
  BY <1>2
<1>4. ASSUME NEW k \in T, k < m PROVE FALSE
  <2>1. 0..k \in SUBSET S /\ 0..k \in Below
    BY <1>2, <1>3, <1>4
  <2>2. 0..k \subseteq U /\ 0..k # U
    BY <1>3, <1>4
  <2>3. <<0..k, U>> \in StrictSubsetOrdering(S)
    BY <1>2, <2>1, <2>2 DEF StrictSubsetOrdering
  <2>. QED BY <1>2, <2>1, <2>3
<1>. QED BY <1>3, <1>4

\* Best takes one of the lanes it is given, and one that is the model asked for if there
\* is such a lane among them.
LEMMA BestOfLanes ==
    ASSUME NEW I \in SUBSET Nat, I # {}, NEW model
    PROVE  LET asks(i) == model # "" /\ model \in Lane(i).models \union {Lane(i).name}
           IN  \E i \in I : /\ Best(I, model) = Lane(i)
                            /\ (\E j \in I : asks(j)) => asks(i)
<1>. DEFINE asks(i) == model # "" /\ model \in Lane(i).models \union {Lane(i).name}
            named   == {i \in I : model # "" /\ (Lane(i).name = model \/ model \in Lane(i).models)}
            J       == IF named # {} THEN named ELSE I
<1>1. J \in SUBSET Nat /\ J # {} /\ J \subseteq I
  OBVIOUS
<1>2. Best(I, model) = Lane(Min(J))
  BY DEF Best
<1>3. Min(J) \in J
  <2>. HIDE DEF J
  <2>. QED BY <1>1, LeastNat DEF Min
<1>4. \A i \in I : i \in named <=> asks(i)
  OBVIOUS
<1>. QED BY <1>1, <1>2, <1>3, <1>4

\* The registered specs are the lanes, each well shaped.
LEMMA LanesRegistered ==
    ASSUME Inv
    PROVE  /\ DOMAIN order \in SUBSET Nat
           /\ {entry[n].spec : n \in Registered} = {Lane(i) : i \in DOMAIN order}
           /\ \A i \in DOMAIN order : Lane(i) \in Specs /\ WellShaped(Lane(i))
<1>1. order \in Seq(Names)
  BY DEF Inv, RegistryTypeOK
<1>2. Registered = {order[i] : i \in DOMAIN order}
  BY DEF Registered, ToSet
<1>3. ASSUME NEW i \in DOMAIN order PROVE Lane(i) \in Specs
  <2>1. order[i] \in Registered /\ order[i] \in Names
    BY <1>1, <1>2
  <2>. QED BY <2>1 DEF Inv, RegistryTypeOK, EntriesTrue, Admitted, Lane
<1>. QED BY <1>1, <1>2, <1>3 DEF Lane, RegistryAssumption

\* A lane with a zero billing is one that is not metered; there is no third kind.
LEMMA ZeroOrMetered ==
    ASSUME NEW s, WellShaped(s)
    PROVE  (s.billing \in Zero) <=> (s.billing # "metered")
<1>. QED BY DEF WellShaped, Zero

\* resolve, whatever is registered and asked for.
LEMMA Routed == Inv => RouteOK
<1>. SUFFICES ASSUME Inv, NEW rq \in Requests
              PROVE  LET lane     == resolve(rq.intent, rq.prompt_bytes, rq.model, rq.budget_ok)
                         takes(s) == rq.intent \in s.intents /\ (s.kind = "cli" => rq.prompt_bytes <= s.cap)
                         able     == {s \in {entry[n].spec : n \in Registered} : takes(s)}
                         free     == {s \in able : s.billing # "metered"}
                         allowed  == IF free # {} THEN free ELSE IF rq.budget_ok THEN able ELSE {}
                         asked    == {s \in allowed : rq.model # "" /\ rq.model \in s.models \union {s.name}}
                     IN  IF allowed = {} THEN lane = NoLane
                         ELSE lane \in (IF asked = {} THEN allowed ELSE asked)
  BY DEF RouteOK
<1>. DEFINE takes(s) == rq.intent \in s.intents /\ (s.kind = "cli" => rq.prompt_bytes <= s.cap)
            asks(s)  == rq.model # "" /\ rq.model \in s.models \union {s.name}
            able     == {s \in {entry[n].spec : n \in Registered} : takes(s)}
            free     == {s \in able : s.billing # "metered"}
            allowed  == IF free # {} THEN free ELSE IF rq.budget_ok THEN able ELSE {}
            asked    == {s \in allowed : asks(s)}
            lane     == resolve(rq.intent, rq.prompt_bytes, rq.model, rq.budget_ok)
            cands    == {i \in DOMAIN order : rq.intent \in Lane(i).intents /\ Fits(Lane(i), rq.prompt_bytes)}
            zero     == {i \in cands : Lane(i).billing \in Zero}
            metered  == {i \in cands : Lane(i).billing = "metered"}
            at(I)    == {Lane(i) : i \in I}
            Goal     == IF allowed = {} THEN lane = NoLane
                        ELSE lane \in (IF asked = {} THEN allowed ELSE asked)
<1>. SUFFICES Goal
  OBVIOUS
<1>1. ASSUME NEW i \in DOMAIN order
      PROVE  /\ i \in cands <=> takes(Lane(i))
             /\ (Lane(i).billing \in Zero) <=> (Lane(i).billing # "metered")
  <2>1. WellShaped(Lane(i)) /\ Lane(i).cap \in Int /\ rq.prompt_bytes \in Nat
    BY LanesRegistered DEF WellShaped, RegistryAssumption
  <2>. QED BY <2>1, ZeroOrMetered DEF Fits
<1>2. /\ able = {Lane(i) : i \in cands} /\ free = {Lane(i) : i \in zero}
      /\ zero = {} => able = {Lane(i) : i \in metered}
  BY <1>1, LanesRegistered
<1>3. zero \in SUBSET Nat /\ metered \in SUBSET Nat
  BY LanesRegistered
<1>4. lane = IF zero # {} THEN Best(zero, rq.model)
             ELSE IF metered # {} /\ rq.budget_ok THEN Best(metered, rq.model) ELSE NoLane
  BY DEF resolve
<1>5. ASSUME NEW I \in SUBSET Nat, I # {}, allowed = at(I), lane = Best(I, rq.model)
      PROVE  Goal
  <2>1. PICK i \in I : lane = Lane(i) /\ ((\E j \in I : asks(Lane(j))) => asks(Lane(i)))
    BY <1>5, BestOfLanes
  <2>. HIDE DEF asks, lane, allowed
  <2>. QED BY <1>5, <2>1
<1>6. CASE zero # {}
  <2>1. allowed = at(zero) /\ lane = Best(zero, rq.model)
    <3>. HIDE DEF able, zero
    <3>. QED BY <1>2, <1>4, <1>6
  <2>. HIDE DEF zero, allowed, lane, at, Goal
  <2>. QED BY <1>3, <1>5, <1>6, <2>1
<1>7. CASE zero = {} /\ metered # {} /\ rq.budget_ok
  <2>1. allowed = at(metered) /\ lane = Best(metered, rq.model)
    <3>. HIDE DEF able, zero, metered
    <3>. QED BY <1>2, <1>4, <1>7
  <2>. HIDE DEF metered, allowed, lane, at, Goal
  <2>. QED BY <1>3, <1>5, <1>7, <2>1
<1>8. CASE zero = {} /\ ~(metered # {} /\ rq.budget_ok)
  <2>1. allowed = {} /\ lane = NoLane
    <3>. HIDE DEF able, zero, metered
    <3>. QED BY <1>2, <1>4, <1>8
  <2>. HIDE DEF allowed, lane
  <2>. QED BY <2>1
<1>. QED BY <1>6, <1>7, <1>8

\* resolve, for any registry that registrations and probe_alls can leave behind and any
\* request: the lane can take it, is at zero cost if one is, metered only with budget,
\* is the model asked for if there is one at that price, and is there if one is.
THEOREM RoutesAreRight == Spec => []RouteOK
<1>. QED BY Routed, InvHolds, PTL
=============================================================================
