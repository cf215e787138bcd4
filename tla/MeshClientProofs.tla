--------------------------- MODULE MeshClientProofs ---------------------------
(***************************************************************************)
(* What the mesh client promises for any tasks, fetches and numbers of     *)
(* calls and DMs.  One invariant: what an answer that came, and a request  *)
(* that is out, say of the gateway (Knows, ReqInv), how often each task's  *)
(* DM is there or on its way (Counts), and which AsyncClient is open       *)
(* (ClientInv).                                                            *)
(***************************************************************************)
EXTENDS MeshClient, FiniteSetTheorems, TLAPS

ClientInv == ~raced => /\ open \subseteq {current}
                       /\ (\E t \in Tasks : pc[t] = "closing") => open = {}

\* A request whose task still waits for it is that task's call, and not answered.
ReqInv ==
    \A r \in net :
        /\ r.op.what = "mark_read" => r.op.id \in DOMAIN dms
        /\ pc[r.task] = "wait" /\ try[r.task] = r.try
             => r.op = op[r.task] /\ answer[r.task].status = "none"

\* A send that was refused has left nothing behind.
Out(t) == t \in sent \/ (Sending(t) /\ answer[t].status # "refused")

Counts(t) ==
    /\ Sending(t) => t \notin sent
    /\ (t \in sent \/ (Sending(t) /\ answer[t].status = "ok")) => Copies(t) # {}
    /\ Cardinality(Copies(t)) + Cardinality(Sends(t)) <= unanswered[t] + (IF Out(t) THEN 1 ELSE 0)

\* s is what a fetch o, that began after b, is to return.
ExactRows(o, b, s) ==
    /\ \A i \in s : dms[i].to = o.to
    /\ o.unread_only => s \intersect b.marked = {}
    /\ o.limit = NoLimit =>
          \A i \in 1..b.len : dms[i].to = o.to /\ (o.unread_only => i \notin read) => i \in s

\* The same, once fetch has dropped what this node sent.
ExactHanded(o, b, s) ==
    /\ \A i \in s : dms[i].to = o.to /\ (o.to = "me" => dms[i].from # "me")
    /\ o.unread_only => s \intersect b.marked = {}
    /\ o.limit = NoLimit =>
          \A i \in 1..b.len : /\ dms[i].to = o.to /\ (o.to = "me" => dms[i].from # "me")
                              /\ o.unread_only => i \notin read
                              => i \in s

Knows(t) ==
    /\ pc[t] = "closing" => op[t].what = "none"
    /\ pc[t] = "wait" /\ answer[t].status = "ok" /\ op[t].what = "fetch"
         => ExactRows(op[t], before[t], answer[t].rows)
    /\ pc[t] = "wait" /\ answer[t].status \in {"ok", "empty"} /\ op[t].what = "mark_read"
         => op[t].id \in read
    /\ pc[t] = "idle" /\ op[t].what = "fetch" => ExactHanded(op[t], before[t], rows[t])

Inv == /\ MeshTypeOK /\ IsFiniteSet(net)
       /\ ClientInv /\ ReqInv
       /\ \A t \in Tasks : Counts(t) /\ Knows(t)

USE MeshAssumption


\* The copies of a DM are finitely many, and so are its requests.
LEMMA Finite ==
    ASSUME Inv, NEW t \in Tasks
    PROVE  /\ IsFiniteSet(Copies(t)) /\ Cardinality(Copies(t)) \in Nat
           /\ IsFiniteSet(Sends(t)) /\ Cardinality(Sends(t)) \in Nat
<1>1. Len(dms) \in Nat /\ DOMAIN dms = 1..Len(dms) /\ IsFiniteSet(net)
  BY DEF Inv, MeshTypeOK
<1>2. IsFiniteSet(1..Len(dms))
  BY <1>1, FS_Interval
<1>3. IsFiniteSet(Copies(t)) /\ IsFiniteSet(Sends(t))
  <2>1. Copies(t) \in SUBSET (1..Len(dms)) /\ Sends(t) \in SUBSET net
    BY <1>1 DEF Copies, Sends
  <2>. QED BY <1>1, <1>2, <2>1, FS_Subset
<1>. QED BY <1>3, FS_CardinalityType

\* A DM that is written leaves the others as they are, and adds a copy for its task.
LEMMA Appended ==
    ASSUME Inv, NEW row \in DMs, dms' = Append(dms, row)
    PROVE  /\ dms' \in Seq(DMs) /\ Len(dms') = Len(dms) + 1
           /\ DOMAIN dms \subseteq DOMAIN dms' /\ \A i \in DOMAIN dms : dms'[i] = dms[i]
           /\ \A t \in Tasks :
                /\ t \notin row.task => Copies(t)' = Copies(t)
                /\ t \in row.task => /\ Copies(t)' = Copies(t) \union {Len(dms) + 1}
                                     /\ Cardinality(Copies(t)') = Cardinality(Copies(t)) + 1
<1>1. dms \in Seq(DMs) /\ Len(dms) \in Nat /\ DOMAIN dms = 1..Len(dms)
  BY DEF Inv, MeshTypeOK
<1>2. /\ dms' \in Seq(DMs) /\ Len(dms') = Len(dms) + 1 /\ DOMAIN dms' = 1..(Len(dms) + 1)
      /\ \A i \in DOMAIN dms : dms'[i] = dms[i]
      /\ dms'[Len(dms) + 1] = row
  BY <1>1
<1>3. ASSUME NEW t \in Tasks, t \notin row.task PROVE Copies(t)' = Copies(t)
  BY <1>1, <1>2, <1>3 DEF Copies
<1>4. ASSUME NEW t \in Tasks, t \in row.task
      PROVE  /\ Copies(t)' = Copies(t) \union {Len(dms) + 1}
             /\ Cardinality(Copies(t)') = Cardinality(Copies(t)) + 1
  <2>1. Copies(t)' = Copies(t) \union {Len(dms) + 1} /\ Len(dms) + 1 \notin Copies(t)
    BY <1>1, <1>2, <1>4 DEF Copies
  <2>. QED BY <2>1, Finite, FS_AddElement
<1>. QED BY <1>1, <1>2, <1>3, <1>4

\* A request that is made, or taken, counts for its task.
LEMMA Requested ==
    ASSUME Inv, NEW r, r \notin net, net' = net \union {r}
    PROVE  /\ IsFiniteSet(net')
           /\ \A t \in Tasks : Cardinality(Sends(t)') = Cardinality(Sends(t))
                 + (IF r.task = t /\ r.op.what = "send" THEN 1 ELSE 0)
<1>1. IsFiniteSet(net')
  BY FS_AddElement DEF Inv
<1>2. ASSUME NEW t \in Tasks, r.task = t /\ r.op.what = "send"
      PROVE  Cardinality(Sends(t)') = Cardinality(Sends(t)) + 1
  <2>1. Sends(t)' = Sends(t) \union {r} /\ r \notin Sends(t)
    BY <1>2 DEF Sends
  <2>. QED BY <2>1, Finite, FS_AddElement
<1>3. ASSUME NEW t \in Tasks, ~(r.task = t /\ r.op.what = "send")
      PROVE  Cardinality(Sends(t)') = Cardinality(Sends(t))
  <2>1. Sends(t)' = Sends(t)
    BY <1>3 DEF Sends
  <2>. QED BY <2>1
<1>. QED BY <1>1, <1>2, <1>3, Finite

\* Likewise for a request that is taken.
LEMMA Taken ==
    ASSUME Inv, NEW r \in net, net' = net \ {r}
    PROVE  /\ IsFiniteSet(net')
           /\ \A t \in Tasks : Cardinality(Sends(t)') = Cardinality(Sends(t))
                 - (IF r.task = t /\ r.op.what = "send" THEN 1 ELSE 0)
<1>1. IsFiniteSet(net')
  BY FS_RemoveElement DEF Inv
<1>2. ASSUME NEW t \in Tasks, r.task = t /\ r.op.what = "send"
      PROVE  Cardinality(Sends(t)') = Cardinality(Sends(t)) - 1
  <2>1. Sends(t)' = Sends(t) \ {r} /\ r \in Sends(t)
    BY <1>2 DEF Sends
  <2>. QED BY <2>1, Finite, FS_RemoveElement
<1>3. ASSUME NEW t \in Tasks, ~(r.task = t /\ r.op.what = "send")
      PROVE  Cardinality(Sends(t)') = Cardinality(Sends(t))
  <2>1. Sends(t)' = Sends(t)
    BY <1>3 DEF Sends
  <2>. QED BY <2>1
<1>. QED BY <1>1, <1>2, <1>3, Finite

\* What is not about the client: it stays when the rest of the state does.
rest == <<gateway, net, pc, call, answer, seen>>

\* The DMs, requests and calls are as good as before when only the client changes.
LEMMA RestInv ==
    ASSUME Inv, UNCHANGED rest
    PROVE  /\ IsFiniteSet(net)' /\ ReqInv' /\ \A t \in Tasks : Counts(t)' /\ Knows(t)'
           /\ MeshTypeOK' <=> (/\ current \in 0..made /\ made \in 0..MaxMade
                               /\ open \subseteq 1..made /\ raced \in BOOLEAN)'
<1>1. IsFiniteSet(net)' /\ ReqInv'
  BY DEF Inv, ReqInv, rest, gateway, call, seen
<1>2. ASSUME NEW t \in Tasks PROVE Counts(t)' /\ Knows(t)'
  BY DEF Inv, Counts, Knows, Out, Sending, Copies, Sends, ExactRows, ExactHanded, rest, gateway,
     call, seen
<1>3. MeshTypeOK' <=> (/\ current \in 0..made /\ made \in 0..MaxMade
                       /\ open \subseteq 1..made /\ raced \in BOOLEAN)'
  BY DEF Inv, MeshTypeOK, rest, gateway, call, seen
<1>. QED BY <1>1, <1>2, <1>3

\* _ensure_client leaves the invariant's part about the client true.
LEMMA EnsureInv ==
    ASSUME Inv, Ensure,
           \A t \in Tasks : pc'[t] = "closing" => pc[t] = "closing"
    PROVE  /\ ClientInv' /\ (/\ current \in 0..made /\ made \in 0..MaxMade
                             /\ open \subseteq 1..made /\ raced \in BOOLEAN)'
<1>1. CASE current \in open
  BY <1>1 DEF Inv, MeshTypeOK, ClientInv, Ensure, client
<1>2. CASE current \notin open
  <2>. DEFINE closing == \E t \in Tasks : pc[t] = "closing"
  <2>a. /\ made \in Nat /\ made < MaxMade /\ made' = made + 1 /\ current' = made + 1
        /\ open' = open \union {made + 1} /\ open \subseteq 1..made
    BY <1>2 DEF Inv, MeshTypeOK, Ensure
  <2>b. raced' = (raced \/ closing) /\ raced \in BOOLEAN
    BY <1>2 DEF Inv, MeshTypeOK, Ensure
  <2>c. raced' \in BOOLEAN
    BY <2>b
  <2>1. (/\ current \in 0..made /\ made \in 0..MaxMade /\ open \subseteq 1..made /\ raced \in BOOLEAN)'
    BY <2>a, <2>c
  <2>2. ClientInv'
    <3>. SUFFICES ASSUME ~raced' PROVE /\ open' \subseteq {current'}
                                      /\ ~\E t \in Tasks : pc'[t] = "closing"
      BY DEF ClientInv
    <3>1. ~raced /\ ~closing
      BY <2>b
    <3>. QED BY <1>2, <2>a, <3>1 DEF Inv, ClientInv
  <2>. QED BY <2>1, <2>2
<1>. QED BY <1>1, <1>2

\* The initial state satisfies the invariant.
LEMMA InitInv == Init => Inv
<1>. SUFFICES ASSUME Init PROVE Inv
  OBVIOUS
<1>1. MeshTypeOK
  <2>1. NoOp \in Calls /\ Silence \in Answers /\ Nothing \in Befores
    BY DEF NoOp, Op, Nothing, Silence, Calls, Ops, Registered, NoLimit, Answers, Befores, Statuses
  <2>0. raced \in BOOLEAN /\ current \in 0..made /\ made \in 0..MaxMade /\ open \subseteq 1..made
    <3>1. raced \in BOOLEAN
      BY DEF Init
    <3>2. current \in 0..made /\ made \in 0..MaxMade /\ open \subseteq 1..made
      BY DEF Init
    <3>. QED BY <3>1, <3>2
  <2>2. /\ dms \in Seq(DMs) /\ read \subseteq DOMAIN dms /\ marked \subseteq read /\ sent \subseteq Tasks
        /\ net \subseteq Requests /\ \A r, q \in net : r.try <= calls /\ (r.try = q.try => r = q)
    BY DEF Init
  <2>3. /\ pc \in [Tasks -> {"idle", "wait", "closing"}] /\ op \in [Tasks -> Calls]
        /\ calls \in 0..MaxCalls /\ try \in [Tasks -> 0..calls]
        /\ answer \in [Tasks -> Answers] /\ rows \in [Tasks -> SUBSET Nat]
        /\ before \in [Tasks -> Befores] /\ unanswered \in [Tasks -> Nat]
    BY <2>1 DEF Init
  <2>4. ASSUME NEW t \in Tasks
        PROVE  /\ answer[t].status # "none" => pc[t] = "wait"
               /\ answer[t].rows \subseteq DOMAIN dms /\ rows[t] \subseteq DOMAIN dms
               /\ before[t].len <= Len(dms) /\ before[t].marked \subseteq marked
    BY DEF Init, Silence, Nothing
  <2>. QED BY <2>0, <2>2, <2>3, <2>4 DEF MeshTypeOK
<1>2. IsFiniteSet(net) /\ ClientInv /\ ReqInv
  BY FS_EmptySet DEF Init, ClientInv, ReqInv
<1>3. ASSUME NEW t \in Tasks PROVE Counts(t) /\ Knows(t)
  <2>1. Copies(t) = {} /\ Sends(t) = {}
    BY DEF Init, Copies, Sends
  <2>. QED BY <2>1, FS_EmptySet DEF Init, Counts, Knows, Out, Sending, NoOp, Op
<1>. QED BY <1>1, <1>2, <1>3 DEF Inv

\* Entering the client's context makes it, and nothing else.
LEMMA EnterInv == ASSUME Inv, NEW t \in Tasks, Enter(t) PROVE Inv'
<1>1. ClientInv' /\ (/\ current \in 0..made /\ made \in 0..MaxMade
                     /\ open \subseteq 1..made /\ raced \in BOOLEAN)'
  BY EnsureInv DEF Enter
<1>. QED BY <1>1, RestInv DEF Inv, Enter, rest

\* A call that begins has a request of its own, and no answer.
LEMMA BeginInv ==
    ASSUME Inv, NEW t \in Tasks, NEW o \in Calls, Begin(t, o), o.what # "none",
           o.what = "send" => t \notin sent, o.what = "mark_read" => o.id \in DOMAIN dms
    PROVE  Inv'
<1>. DEFINE r == [task |-> t, try |-> calls + 1, op |-> o]
<1>1. /\ net' = net \union {r} /\ pc' = [pc EXCEPT ![t] = "wait"] /\ pc[t] = "idle"
      /\ op' = [op EXCEPT ![t] = o] /\ rows' = [rows EXCEPT ![t] = {}]
      /\ calls' = calls + 1 /\ calls < MaxCalls /\ calls \in Nat
      /\ try' = [try EXCEPT ![t] = calls + 1]
      /\ UNCHANGED <<dms, read, answer, marked, sent, unanswered>>
  <2>1. o # NoOp
    BY DEF NoOp, Op
  <2>. QED BY <2>1 DEF Inv, MeshTypeOK, Begin, MayCall, Called, Goto, gateway
<1>2. before' = [before EXCEPT ![t] =
                   IF o.what = "fetch" THEN [len |-> Len(dms), marked |-> marked] ELSE Nothing]
  BY DEF Begin, Called
<1>3. r \in Requests /\ r \notin net /\ r.task = t /\ r.try = calls + 1 /\ r.op = o
  BY <1>1 DEF Inv, MeshTypeOK, Requests
<1>4. ClientInv' /\ (/\ current \in 0..made /\ made \in 0..MaxMade
                     /\ open \subseteq 1..made /\ raced \in BOOLEAN)'
  <2>1. \A u \in Tasks : pc'[u] = "closing" => pc[u] = "closing"
    BY <1>1 DEF Inv, MeshTypeOK
  <2>. QED BY <2>1, EnsureInv DEF Begin
<1>5. MeshTypeOK'
  <2>1. (dms \in Seq(DMs) /\ read \subseteq DOMAIN dms /\ marked \subseteq read /\ sent \subseteq Tasks)'
    BY <1>1 DEF Inv, MeshTypeOK
  <2>2. (net \subseteq Requests /\ \A p, q \in net : p.try <= calls /\ (p.try = q.try => p = q))'
    BY <1>1, <1>3 DEF Inv, MeshTypeOK, Requests
  <2>3. (/\ pc \in [Tasks -> {"idle", "wait", "closing"}]
         /\ op \in [Tasks -> Calls] /\ calls \in 0..MaxCalls /\ try \in [Tasks -> 0..calls])'
    BY <1>1 DEF Inv, MeshTypeOK
  <2>4. (answer \in [Tasks -> Answers] /\ rows \in [Tasks -> SUBSET Nat] /\ unanswered \in [Tasks -> Nat])'
    BY <1>1 DEF Inv, MeshTypeOK
  <2>5. before' \in [Tasks -> Befores]
    <3>1. Len(dms) \in Nat /\ marked \subseteq Nat
      BY DEF Inv, MeshTypeOK
    <3>. QED BY <1>2, <3>1 DEF Inv, MeshTypeOK, Befores, Nothing
  <2>6. ASSUME NEW u \in Tasks
        PROVE  (/\ answer[u].status # "none" => pc[u] = "wait"
                /\ answer[u].rows \subseteq DOMAIN dms /\ rows[u] \subseteq DOMAIN dms
                /\ before[u].len <= Len(dms) /\ before[u].marked \subseteq marked)'
    <3>1. Len(dms) \in Nat
      BY DEF Inv, MeshTypeOK
    <3>. QED BY <1>1, <1>2, <3>1 DEF Inv, MeshTypeOK, Nothing
  <2>. QED BY <1>4, <2>1, <2>2, <2>3, <2>4, <2>5, <2>6 DEF MeshTypeOK
<1>6. ReqInv'
  BY <1>1, <1>3 DEF Inv, MeshTypeOK, Requests, ReqInv
<1>7. IsFiniteSet(net')
  BY <1>1, <1>3, Requested
<1>8. ASSUME NEW u \in Tasks PROVE Counts(u)'
  <2>1. Copies(u)' = Copies(u)
    BY <1>1 DEF Copies
  <2>2. Cardinality(Sends(u)') = Cardinality(Sends(u)) + (IF t = u /\ o.what = "send" THEN 1 ELSE 0)
    BY <1>1, <1>3, Requested
  <2>3. Cardinality(Copies(u)) \in Nat /\ Cardinality(Sends(u)) \in Nat /\ unanswered[u] \in Nat
    BY Finite DEF Inv, MeshTypeOK
  <2>4. CASE u = t
    <3>1. answer'[t].status = "none"
      BY <1>1 DEF Inv, MeshTypeOK
    <3>2. pc[t] = "idle" /\ pc'[t] = "wait" /\ op'[t] = o /\ sent' = sent /\ unanswered' = unanswered
      BY <1>1 DEF Inv, MeshTypeOK
    <3>3. ~Sending(t) /\ (Sending(t)' <=> o.what = "send")
      BY <3>2 DEF Sending
    <3>4. Counts(t)
      BY DEF Inv
    <3>5. CASE o.what = "send"
      BY <2>1, <2>2, <2>3, <2>4, <3>1, <3>2, <3>3, <3>4, <3>5 DEF Counts, Out
    <3>6. CASE o.what # "send"
      BY <2>1, <2>2, <2>3, <2>4, <3>1, <3>2, <3>3, <3>4, <3>6 DEF Counts, Out
    <3>. QED BY <3>5, <3>6
  <2>5. CASE u # t
    BY <1>1, <2>1, <2>2, <2>3, <2>5 DEF Inv, MeshTypeOK, Counts, Out, Sending
  <2>. QED BY <2>4, <2>5
<1>9. ASSUME NEW u \in Tasks PROVE Knows(u)'
  <2>1. CASE u = t
    BY <1>1, <2>1 DEF Inv, MeshTypeOK, Knows
  <2>2. CASE u # t
    BY <1>1, <1>2, <2>2 DEF Inv, MeshTypeOK, Knows, ExactRows, ExactHanded
  <2>. QED BY <2>1, <2>2
<1>. QED BY <1>4, <1>5, <1>6, <1>7, <1>8, <1>9 DEF Inv

\* A send is a call to one of the names its recipient may resolve to.
LEMMA SendInv ==
    ASSUME Inv, NEW t \in Tasks, NEW to, NEW kind, NEW reachable, NEW secret, NEW skip,
           Send(t, to, kind, reachable, secret, skip)
    PROVE  Inv'
<1>1. PICK c \in validate_node_name(to, reachable) : Begin(t, Op("send", c, 0, FALSE, NoLimit))
  BY DEF Send
<1>2. c \in Registered
  BY DEF validate_node_name, Registered
<1>3. /\ Op("send", c, 0, FALSE, NoLimit) \in Calls /\ Op("send", c, 0, FALSE, NoLimit).what = "send"
  BY <1>2 DEF Op, Calls, Ops, NoLimit
<1>4. t \notin sent
  BY DEF Send, Unsent
<1>. QED BY <1>1, <1>3, <1>4, BeginInv

\* A fetch is a call.
LEMMA FetchInv ==
    ASSUME Inv, NEW t \in Tasks, NEW f \in Fetches, Fetch(t, f.to, f.unread_only, f.limit)
    PROVE  Inv'
<1>1. LET o == Op("fetch", f.to, 0, f.unread_only, f.limit) IN o \in Calls /\ o.what = "fetch"
  BY DEF Op, Calls, Ops
<1>. QED BY <1>1, BeginInv DEF Fetch

\* So is a mark_read, of a DM that exists.
LEMMA MarkReadInv ==
    ASSUME Inv, NEW t \in Tasks, NEW id \in DOMAIN dms, MarkRead(t, id)
    PROVE  Inv'
<1>1. id \in Nat
  BY DEF Inv, MeshTypeOK
<1>2. LET o == Op("mark_read", "me", id, FALSE, NoLimit)
      IN  o \in Calls /\ o.what = "mark_read" /\ o.id = id
  BY <1>1 DEF Op, Calls, Ops, NoLimit, Registered
<1>. QED BY <1>2, BeginInv DEF MarkRead

\* And list_peers or register.
LEMMA OtherInv == ASSUME Inv, NEW t \in Tasks, Other(t) PROVE Inv'
<1>1. LET o == Op("other", "me", 0, FALSE, NoLimit) IN o \in Calls /\ o.what = "other"
  BY DEF Op, Calls, Ops, NoLimit, Registered
<1>. QED BY <1>1, BeginInv DEF Other

\* A call that ends as it begins, or awaits aclose, touches no DM and no request.
LEMMA QuietInv ==
    ASSUME Inv, NEW t \in Tasks, pc[t] = "idle", calls < MaxCalls, Called(t, NoOp),
           pc' = pc \/ pc' = [pc EXCEPT ![t] = "closing"],
           UNCHANGED <<gateway, net, answer, marked, sent, unanswered>>
    PROVE  /\ IsFiniteSet(net)' /\ ReqInv' /\ \A u \in Tasks : Counts(u)' /\ Knows(u)'
           /\ MeshTypeOK' <=> (/\ current \in 0..made /\ made \in 0..MaxMade
                               /\ open \subseteq 1..made /\ raced \in BOOLEAN)'
<1>1. /\ op' = [op EXCEPT ![t] = NoOp] /\ rows' = [rows EXCEPT ![t] = {}]
      /\ calls' = calls + 1 /\ try' = [try EXCEPT ![t] = 0]
      /\ UNCHANGED <<dms, read, net, answer, marked, sent, unanswered>>
  BY DEF Called, gateway
<1>2. before' = [before EXCEPT ![t] = Nothing]
  BY DEF Called, NoOp, Op
<1>3. NoOp \in Calls /\ NoOp.what = "none" /\ Nothing \in Befores
  BY DEF NoOp, Op, Calls, Ops, NoLimit, Registered, Nothing, Befores
<1>4. MeshTypeOK' <=> (/\ current \in 0..made /\ made \in 0..MaxMade
                       /\ open \subseteq 1..made /\ raced \in BOOLEAN)'
  <2>1. (dms \in Seq(DMs) /\ read \subseteq DOMAIN dms /\ marked \subseteq read /\ sent \subseteq Tasks)'
    BY <1>1 DEF Inv, MeshTypeOK
  <2>2. (net \subseteq Requests /\ \A p, q \in net : p.try <= calls /\ (p.try = q.try => p = q))'
    BY <1>1 DEF Inv, MeshTypeOK, Requests
  <2>3. (/\ pc \in [Tasks -> {"idle", "wait", "closing"}]
         /\ op \in [Tasks -> Calls] /\ calls \in 0..MaxCalls /\ try \in [Tasks -> 0..calls])'
    <3>1. pc' \in [Tasks -> {"idle", "wait", "closing"}]
      <4>1. pc \in [Tasks -> {"idle", "wait", "closing"}]
        BY DEF Inv, MeshTypeOK
      <4>. QED BY <4>1
    <3>2. op' \in [Tasks -> Calls]
      BY <1>1, <1>3 DEF Inv, MeshTypeOK
    <3>3. calls \in Nat /\ calls + 1 \in 0..MaxCalls /\ try \in [Tasks -> 0..calls]
      BY DEF Inv, MeshTypeOK
    <3>4. try' \in [Tasks -> 0..calls']
      BY <1>1, <3>3
    <3>. QED BY <1>1, <3>1, <3>2, <3>3, <3>4
  <2>4. (/\ answer \in [Tasks -> Answers] /\ rows \in [Tasks -> SUBSET Nat]
         /\ before \in [Tasks -> Befores] /\ unanswered \in [Tasks -> Nat])'
    BY <1>1, <1>2, <1>3 DEF Inv, MeshTypeOK
  <2>5. ASSUME NEW u \in Tasks
        PROVE  (/\ answer[u].status # "none" => pc[u] = "wait"
                /\ answer[u].rows \subseteq DOMAIN dms /\ rows[u] \subseteq DOMAIN dms
                /\ before[u].len <= Len(dms) /\ before[u].marked \subseteq marked)'
    <3>1. Len(dms) \in Nat
      BY DEF Inv, MeshTypeOK
    <3>. QED BY <1>1, <1>2, <3>1 DEF Inv, MeshTypeOK, Nothing
  <2>. QED BY <2>1, <2>2, <2>3, <2>4, <2>5 DEF MeshTypeOK
<1>5. IsFiniteSet(net)' /\ ReqInv'
  BY <1>1 DEF Inv, MeshTypeOK, Requests, ReqInv
<1>6. ASSUME NEW u \in Tasks PROVE Counts(u)' /\ Knows(u)'
  <2>1. Copies(u)' = Copies(u) /\ Sends(u)' = Sends(u)
    BY <1>1 DEF Copies, Sends
  <2>2. ~Sending(t) /\ ~Sending(t)'
    BY <1>1, <1>3 DEF Inv, MeshTypeOK, Sending
  <2>3. Counts(u)'
    <3>1. Sending(u)' <=> Sending(u)
      BY <1>1, <2>2 DEF Inv, MeshTypeOK, Sending
    <3>. QED BY <1>1, <2>1, <3>1 DEF Inv, Counts, Out
  <2>4. CASE u = t
    BY <1>1, <1>3, <2>3, <2>4 DEF Inv, MeshTypeOK, Knows
  <2>5. CASE u # t
    BY <1>1, <1>2, <2>3, <2>5 DEF Inv, MeshTypeOK, Knows, ExactRows, ExactHanded
  <2>. QED BY <2>4, <2>5
<1>. QED BY <1>4, <1>5, <1>6

\* A send that is refused before it asks anything.
LEMMA SendRefusedInv ==
    ASSUME Inv, NEW t \in Tasks, NEW to, NEW kind, NEW reachable, NEW secret, NEW skip,
           SendRefused(t, to, kind, reachable, secret, skip)
    PROVE  Inv'
<1>1. /\ IsFiniteSet(net)' /\ ReqInv' /\ \A u \in Tasks : Counts(u)' /\ Knows(u)'
      /\ MeshTypeOK' <=> (/\ current \in 0..made /\ made \in 0..MaxMade
                          /\ open \subseteq 1..made /\ raced \in BOOLEAN)'
  BY QuietInv DEF SendRefused, MayCall
<1>2. ClientInv' /\ (/\ current \in 0..made /\ made \in 0..MaxMade
                     /\ open \subseteq 1..made /\ raced \in BOOLEAN)'
  BY DEF Inv, MeshTypeOK, ClientInv, SendRefused, client
<1>. QED BY <1>1, <1>2 DEF Inv

\* aclose: while it awaits, no client is open unless one was made meanwhile.
LEMMA CloseInv == ASSUME Inv, NEW t \in Tasks, Close(t) PROVE Inv'
<1>1. pc' = pc \/ pc' = [pc EXCEPT ![t] = "closing"]
  BY DEF Close, Goto
<1>2. /\ IsFiniteSet(net)' /\ ReqInv' /\ \A u \in Tasks : Counts(u)' /\ Knows(u)'
      /\ MeshTypeOK' <=> (/\ current \in 0..made /\ made \in 0..MaxMade
                          /\ open \subseteq 1..made /\ raced \in BOOLEAN)'
  BY <1>1, QuietInv DEF Close, MayCall
<1>3. (/\ current \in 0..made /\ made \in 0..MaxMade /\ open \subseteq 1..made /\ raced \in BOOLEAN)'
  <2>1. made' = made /\ raced' = raced /\ current' \in {0, current} /\ open' \subseteq open
    <3>1. CASE current \in open
      BY <3>1 DEF Close
    <3>2. CASE current \notin open
      BY <3>2 DEF Close
    <3>. QED BY <3>1, <3>2
  <2>2. raced' \in BOOLEAN
    BY <2>1 DEF Inv, MeshTypeOK
  <2>. QED BY <2>1, <2>2 DEF Inv, MeshTypeOK
<1>4. ClientInv'
  <2>1. CASE current \in open
    <3>1. raced' = raced /\ open' = open \ {current}
      BY <2>1 DEF Close
    <3>. QED BY <3>1 DEF Inv, ClientInv
  <2>2. CASE current \notin open
    <3>1. raced' = raced /\ open' = open
      BY <2>2 DEF Close
    <3>. QED BY <2>2, <3>1 DEF Inv, ClientInv
  <2>. QED BY <2>1, <2>2
<1>. QED BY <1>2, <1>3, <1>4 DEF Inv

\* The end of an aclose, however it comes.
LEMMA ClosedInv ==
    ASSUME Inv, NEW t \in Tasks, Closed(t) \/ CloseFails(t)
    PROVE  Inv'
<1>1. /\ pc[t] = "closing" /\ pc' = [pc EXCEPT ![t] = "idle"]
      /\ current' \in {0, current} /\ UNCHANGED <<open, made, raced>>
      /\ UNCHANGED <<dms, read, net, op, calls, try, before, answer, rows, marked, sent, unanswered>>
  BY DEF Closed, CloseFails, Goto, client, gateway, call, seen
<1>2. MeshTypeOK'
  <2>1. /\ pc' \in [Tasks -> {"idle", "wait", "closing"}] /\ current' \in 0..made'
        /\ \A u \in Tasks : answer'[u].status # "none" => pc'[u] = "wait"
    BY <1>1 DEF Inv, MeshTypeOK
  <2>. QED BY <1>1, <2>1 DEF Inv, MeshTypeOK
<1>3. ClientInv'
  <2>1. raced' = raced /\ open' = open /\ (~raced => open = {})
    BY <1>1 DEF Inv, ClientInv
  <2>. QED BY <2>1 DEF ClientInv
<1>4. IsFiniteSet(net)' /\ ReqInv'
  BY <1>1 DEF Inv, MeshTypeOK, ReqInv, Requests
<1>5. ASSUME NEW u \in Tasks PROVE Counts(u)' /\ Knows(u)'
  <2>1. Copies(u)' = Copies(u) /\ Sends(u)' = Sends(u)
    BY <1>1 DEF Copies, Sends
  <2>2. Sending(u)' <=> Sending(u)
    BY <1>1 DEF Inv, MeshTypeOK, Sending
  <2>3. Counts(u)'
    BY <1>1, <2>1, <2>2 DEF Inv, Counts, Out
  <2>4. Knows(u)'
    BY <1>1 DEF Inv, MeshTypeOK, Knows, ExactRows, ExactHanded
  <2>. QED BY <2>3, <2>4
<1>. QED BY <1>2, <1>3, <1>4, <1>5 DEF Inv

\* A DM from elsewhere.
LEMMA ArriveInv == ASSUME Inv, Arrive PROVE Inv'
<1>. DEFINE row == [from |-> "you", to |-> "me", task |-> {}]
<1>1. row \in DMs /\ dms' = Append(dms, row) /\ row.task = {}
  BY DEF Arrive, DMs, Registered
<1>2. /\ dms' \in Seq(DMs) /\ Len(dms') = Len(dms) + 1
      /\ DOMAIN dms \subseteq DOMAIN dms' /\ \A i \in DOMAIN dms : dms'[i] = dms[i]
      /\ \A u \in Tasks : Copies(u)' = Copies(u)
  BY <1>1, Appended
<1>3. UNCHANGED <<current, open, made, raced, read, net, pc, op, calls, try, before, answer, rows,
                  marked, sent, unanswered>>
  BY DEF Arrive, client, call, seen
<1>4. Len(dms) \in Nat /\ DOMAIN dms = 1..Len(dms)
  BY DEF Inv, MeshTypeOK
<1>5. MeshTypeOK'
  BY <1>2, <1>3, <1>4 DEF Inv, MeshTypeOK, Befores
<1>6. ClientInv' /\ IsFiniteSet(net)' /\ ReqInv'
  BY <1>2, <1>3 DEF Inv, ClientInv, ReqInv
<1>7. ASSUME NEW u \in Tasks PROVE Counts(u)' /\ Knows(u)'
  <2>1. Copies(u)' = Copies(u) /\ Sends(u)' = Sends(u) /\ (Sending(u)' <=> Sending(u))
    BY <1>2, <1>3 DEF Sends, Sending
  <2>2. Counts(u)'
    BY <1>3, <2>1 DEF Inv, Counts, Out
  <2>3. /\ answer[u].rows \subseteq DOMAIN dms /\ rows[u] \subseteq DOMAIN dms
        /\ before[u].len \in Nat /\ before[u].len <= Len(dms)
    BY DEF Inv, MeshTypeOK, Befores
  <2>4. Knows(u)'
    BY <1>2, <1>3, <1>4, <2>3 DEF Inv, Knows, ExactRows, ExactHanded
  <2>. QED BY <2>2, <2>4
<1>. QED BY <1>5, <1>6, <1>7 DEF Inv

\* What the gateway may answer a fetch with.
LEMMA InboxExactly ==
    ASSUME Inv, NEW o \in Calls, NEW s \in Inbox(o)
    PROVE  /\ s \subseteq DOMAIN dms
           /\ \A i \in s : dms[i].to = o.to /\ (o.unread_only => i \notin read)
           /\ o.limit = NoLimit =>
                 \A i \in DOMAIN dms : dms[i].to = o.to /\ (o.unread_only => i \notin read) => i \in s
<1>. DEFINE all == {i \in DOMAIN dms : dms[i].to = o.to /\ (o.unread_only => i \notin read)}
<1>1. s \subseteq all /\ (o.limit = NoLimit => s = all)
  BY DEF Inbox
<1>. QED BY <1>1

\* What an answer does to the calls: only the task whose last call it is hears it.
LEMMA ToldInv ==
    ASSUME Inv, NEW r \in net, NEW a \in Answers, Tell(r, a), a.status # "none",
           a.rows \subseteq DOMAIN dms, DOMAIN dms \subseteq DOMAIN dms',
           UNCHANGED <<pc, call>>, net' = net \ {r}
    PROVE  /\ answer' \in [Tasks -> Answers]
           /\ \A u \in Tasks : /\ answer'[u].status # "none" => pc'[u] = "wait"
                               /\ answer'[u].rows \subseteq DOMAIN dms'
           /\ \A u \in Tasks : \/ answer'[u] = answer[u]
                               \/ /\ u = r.task /\ pc[u] = "wait" /\ op[u] = r.op
                                  /\ answer[u].status = "none" /\ answer'[u] = a
           /\ ReqInv'
<1>. DEFINE live == pc[r.task] = "wait" /\ try[r.task] = r.try
<1>1. r.task \in Tasks /\ (live => r.op = op[r.task] /\ answer[r.task].status = "none")
  BY DEF Inv, MeshTypeOK, Requests, ReqInv
<1>2. /\ live => answer' = [answer EXCEPT ![r.task] = a]
      /\ ~live => answer' = answer
  BY DEF Tell
<1>3. answer \in [Tasks -> Answers]
  BY DEF Inv, MeshTypeOK
<1>4. answer' \in [Tasks -> Answers]
  BY <1>1, <1>2, <1>3
<1>5. \A u \in Tasks : \/ answer'[u] = answer[u]
                       \/ /\ u = r.task /\ live /\ answer'[u] = a
  BY <1>1, <1>2, <1>3
<1>6. \A u \in Tasks : /\ answer'[u].status # "none" => pc'[u] = "wait"
                       /\ answer'[u].rows \subseteq DOMAIN dms'
  BY <1>5 DEF Inv, MeshTypeOK
<1>7. ReqInv'
  <2>. SUFFICES ASSUME NEW q \in net'
                PROVE  /\ q.op.what = "mark_read" => q.op.id \in DOMAIN dms'
                       /\ pc[q.task] = "wait" /\ try[q.task] = q.try
                            => q.op = op[q.task] /\ answer'[q.task].status = "none"
    BY DEF ReqInv, call
  <2>1. q \in net /\ q # r /\ q.try # r.try /\ q.task \in Tasks
    BY DEF Inv, MeshTypeOK, Requests
  <2>2. /\ q.op.what = "mark_read" => q.op.id \in DOMAIN dms
        /\ pc[q.task] = "wait" /\ try[q.task] = q.try
             => q.op = op[q.task] /\ answer[q.task].status = "none"
    BY <2>1 DEF Inv, ReqInv
  <2>3. pc[q.task] = "wait" /\ try[q.task] = q.try => answer'[q.task] = answer[q.task]
    BY <2>1, <1>5
  <2>. QED BY <2>2, <2>3
<1>. QED BY <1>1, <1>4, <1>5, <1>6, <1>7

\* A request that is taken: a DM that is written is one less on its way.
LEMMA ServeInv == ASSUME Inv, NEW r \in net, Serve(r) PROVE Inv'
<1>1. PICK status \in {"ok", "empty", "unusable"},
           s \in (IF r.op.what = "fetch" THEN Inbox(r.op) ELSE {{}}) :
           Tell(r, [status |-> status, rows |-> IF status = "ok" THEN s ELSE {}])
  BY DEF Serve
<1>. DEFINE a   == [status |-> status, rows |-> IF status = "ok" THEN s ELSE {}]
            row == [from |-> "me", to |-> r.op.to, task |-> {r.task}]
<1>2. r.task \in Tasks /\ r.op \in Calls /\ net' = net \ {r}
  BY DEF Inv, MeshTypeOK, Requests, Serve
<1>3. Len(dms) \in Nat /\ DOMAIN dms = 1..Len(dms) /\ read \subseteq DOMAIN dms
  BY DEF Inv, MeshTypeOK
<1>4. UNCHANGED <<current, open, made, raced, pc, op, calls, try, before, rows, marked, sent, unanswered>>
  BY DEF Serve, client, call, seen
<1>5. /\ dms' \in Seq(DMs) /\ Len(dms') \in Nat /\ Len(dms) <= Len(dms') /\ DOMAIN dms \subseteq DOMAIN dms'
      /\ \A i \in DOMAIN dms : dms'[i] = dms[i]
      /\ \A u \in Tasks : /\ Cardinality(Copies(u)') = Cardinality(Copies(u))
                               + (IF r.task = u /\ r.op.what = "send" THEN 1 ELSE 0)
                          /\ Copies(u) \subseteq Copies(u)'
                          /\ r.task = u /\ r.op.what = "send" => Copies(u)' # {}
  <2>1. CASE r.op.what = "send"
    <3>1. row \in DMs /\ row.task = {r.task} /\ dms' = Append(dms, row)
      BY <1>2, <2>1 DEF DMs, Calls, Registered, Serve
    <3>2. /\ dms' \in Seq(DMs) /\ Len(dms') = Len(dms) + 1
          /\ DOMAIN dms \subseteq DOMAIN dms' /\ \A i \in DOMAIN dms : dms'[i] = dms[i]
          /\ \A u \in Tasks :
               /\ u \notin row.task => Copies(u)' = Copies(u)
               /\ u \in row.task => /\ Copies(u)' = Copies(u) \union {Len(dms) + 1}
                                    /\ Cardinality(Copies(u)') = Cardinality(Copies(u)) + 1
      BY <3>1, Appended
    <3>3. ASSUME NEW u \in Tasks
          PROVE  /\ Cardinality(Copies(u)') = Cardinality(Copies(u))
                               + (IF r.task = u /\ r.op.what = "send" THEN 1 ELSE 0)
                 /\ Copies(u) \subseteq Copies(u)'
                 /\ r.task = u /\ r.op.what = "send" => Copies(u)' # {}
      <4>1. Cardinality(Copies(u)) \in Nat
        BY Finite
      <4>2. CASE u = r.task
        BY <2>1, <3>1, <3>2, <4>1, <4>2
      <4>3. CASE u # r.task
        <5>1. Copies(u)' = Copies(u)
          BY <3>1, <3>2, <4>3
        <5>. QED BY <4>1, <4>3, <5>1
      <4>. QED BY <4>2, <4>3
    <3>. QED BY <1>3, <3>2, <3>3
  <2>2. CASE r.op.what # "send"
    <3>1. dms' = dms
      BY <2>2 DEF Serve
    <3>2. \A u \in Tasks : Copies(u)' = Copies(u) /\ Cardinality(Copies(u)) \in Nat
      BY <3>1, Finite DEF Copies
    <3>. QED BY <1>3, <2>2, <3>1, <3>2 DEF Inv, MeshTypeOK
  <2>. QED BY <2>1, <2>2
<1>6. /\ read \subseteq read' /\ read' \subseteq DOMAIN dms'
      /\ r.op.what = "mark_read" => r.op.id \in read'
  <2>1. r.op.what = "mark_read" => r.op.id \in DOMAIN dms
    BY DEF Inv, ReqInv
  <2>. QED BY <1>3, <1>5, <2>1 DEF Serve
<1>7. r.op.what = "fetch" =>
        /\ s \subseteq DOMAIN dms
        /\ \A i \in s : dms[i].to = r.op.to /\ (r.op.unread_only => i \notin read)
        /\ r.op.limit = NoLimit =>
              \A i \in DOMAIN dms : dms[i].to = r.op.to /\ (r.op.unread_only => i \notin read) => i \in s
  BY <1>2, InboxExactly
<1>8. a \in Answers /\ a.status # "none" /\ a.rows \subseteq DOMAIN dms
  <2>1. s \subseteq DOMAIN dms /\ s \subseteq Nat
    BY <1>3, <1>7
  <2>. QED BY <2>1 DEF Answers, Statuses
<1>9. /\ answer' \in [Tasks -> Answers]
      /\ \A u \in Tasks : /\ answer'[u].status # "none" => pc'[u] = "wait"
                          /\ answer'[u].rows \subseteq DOMAIN dms'
      /\ \A u \in Tasks : \/ answer'[u] = answer[u]
                          \/ /\ u = r.task /\ pc[u] = "wait" /\ op[u] = r.op
                             /\ answer[u].status = "none" /\ answer'[u] = a
      /\ ReqInv'
  <2>1. UNCHANGED <<pc, call>>
    BY DEF Serve
  <2>. QED BY <1>1, <1>2, <1>5, <1>8, <2>1, ToldInv
<1>10. MeshTypeOK'
  <2>1. (net \subseteq Requests /\ \A p, q \in net : p.try <= calls /\ (p.try = q.try => p = q))'
    BY <1>2, <1>4 DEF Inv, MeshTypeOK
  <2>2. ASSUME NEW u \in Tasks
        PROVE  rows[u] \subseteq DOMAIN dms' /\ before[u].len <= Len(dms') /\ before[u].marked \subseteq marked
    BY <1>3, <1>5 DEF Inv, MeshTypeOK, Befores
  <2>. QED BY <1>4, <1>5, <1>6, <1>9, <2>1, <2>2 DEF Inv, MeshTypeOK
<1>11. ClientInv' /\ IsFiniteSet(net')
  BY <1>2, <1>4, Taken DEF Inv, ClientInv
<1>12. ASSUME NEW u \in Tasks PROVE Counts(u)'
  <2>1. /\ Cardinality(Copies(u)) \in Nat /\ Cardinality(Sends(u)) \in Nat /\ unanswered[u] \in Nat
        /\ Cardinality(Sends(u)') = Cardinality(Sends(u))
              - (IF r.task = u /\ r.op.what = "send" THEN 1 ELSE 0)
    BY <1>2, Finite, Taken DEF Inv, MeshTypeOK
  <2>2. Cardinality(Copies(u)') + Cardinality(Sends(u)') = Cardinality(Copies(u)) + Cardinality(Sends(u))
    BY <1>5, <2>1
  <2>3. Sending(u)' <=> Sending(u)
    BY <1>4 DEF Sending
  <2>4. Out(u)' <=> Out(u)
    BY <1>4, <1>9, <2>3 DEF Out
  <2>5. (u \in sent \/ (Sending(u) /\ answer'[u].status = "ok")) => Copies(u)' # {}
    <3>1. CASE answer'[u] = answer[u]
      BY <1>5, <3>1 DEF Inv, Counts
    <3>2. CASE u = r.task /\ op[u] = r.op
      BY <1>5, <3>2 DEF Inv, Counts, Sending
    <3>. QED BY <1>9, <3>1, <3>2
  <2>. QED BY <1>4, <2>2, <2>3, <2>4, <2>5 DEF Inv, Counts
<1>13. ASSUME NEW u \in Tasks PROVE Knows(u)'
  <2>1. /\ answer[u].rows \subseteq DOMAIN dms /\ rows[u] \subseteq DOMAIN dms
        /\ before[u].len \in Nat /\ before[u].len <= Len(dms) /\ before[u].marked \subseteq read
    BY DEF Inv, MeshTypeOK, Befores
  <2>2. Knows(u)
    BY DEF Inv
  <2>3. pc[u] = "closing" => op[u].what = "none"
    BY <2>2 DEF Knows
  <2>4. pc[u] = "wait" /\ answer'[u].status = "ok" /\ op[u].what = "fetch"
          => ExactRows(op[u], before[u], answer[u].rows)'
    <3>1. CASE answer'[u] = answer[u]
      <4>. SUFFICES ASSUME pc[u] = "wait", answer[u].status = "ok", op[u].what = "fetch"
                    PROVE  ExactRows(op[u], before[u], answer[u].rows)'
        BY <3>1
      <4>1. ExactRows(op[u], before[u], answer[u].rows)
        BY <2>2 DEF Knows
      <4>. QED BY <1>3, <1>4, <1>5, <1>6, <2>1, <3>1, <4>1 DEF ExactRows
    <3>2. CASE u = r.task /\ op[u] = r.op /\ answer'[u] = a
      <4>. SUFFICES ASSUME r.op.what = "fetch", status = "ok"
                    PROVE  ExactRows(op[u], before[u], answer[u].rows)'
        BY <1>4, <3>2
      <4>1. op'[u] = r.op /\ answer'[u].rows = s /\ before' = before
        BY <1>4, <3>2
      <4>2. \A i \in 1..before[u].len : i \in DOMAIN dms
        BY <1>3, <2>1
      <4>. QED BY <1>3, <1>5, <1>6, <1>7, <2>1, <4>1, <4>2 DEF ExactRows
    <3>. QED BY <1>9, <3>1, <3>2
  <2>5. pc[u] = "wait" /\ answer'[u].status \in {"ok", "empty"} /\ op[u].what = "mark_read"
          => op[u].id \in read'
    BY <1>6, <1>9, <2>2 DEF Knows
  <2>6. pc[u] = "idle" /\ op[u].what = "fetch" => ExactHanded(op[u], before[u], rows[u])'
    <3>. SUFFICES ASSUME pc[u] = "idle", op[u].what = "fetch"
                  PROVE  ExactHanded(op[u], before[u], rows[u])'
      OBVIOUS
    <3>1. ExactHanded(op[u], before[u], rows[u])
      BY <2>2 DEF Knows
    <3>. QED BY <1>3, <1>4, <1>5, <1>6, <2>1, <3>1 DEF ExactHanded
  <2>. QED BY <1>4, <2>3, <2>4, <2>5, <2>6 DEF Knows
<1>. QED BY <1>9, <1>10, <1>11, <1>12, <1>13 DEF Inv

\* A request that is refused leaves nothing behind.
LEMMA RefuseInv == ASSUME Inv, NEW r \in net, Refuse(r) PROVE Inv'
<1>. DEFINE a == [status |-> "refused", rows |-> {}]
<1>1. r.task \in Tasks /\ net' = net \ {r} /\ a \in Answers
  BY DEF Inv, MeshTypeOK, Requests, Refuse, Answers, Statuses
<1>2. UNCHANGED <<current, open, made, raced, dms, read, pc, op, calls, try, before, rows, marked,
                  sent, unanswered>>
  BY DEF Refuse, client, gateway, call, seen
<1>3. /\ answer' \in [Tasks -> Answers]
      /\ \A u \in Tasks : /\ answer'[u].status # "none" => pc'[u] = "wait"
                          /\ answer'[u].rows \subseteq DOMAIN dms'
      /\ \A u \in Tasks : \/ answer'[u] = answer[u]
                          \/ /\ u = r.task /\ pc[u] = "wait" /\ op[u] = r.op
                             /\ answer[u].status = "none" /\ answer'[u] = a
      /\ ReqInv'
  BY <1>1, <1>2, ToldInv DEF Refuse
<1>4. MeshTypeOK'
  <2>1. (net \subseteq Requests /\ \A p, q \in net : p.try <= calls /\ (p.try = q.try => p = q))'
    BY <1>1, <1>2 DEF Inv, MeshTypeOK
  <2>. QED BY <1>2, <1>3, <2>1 DEF Inv, MeshTypeOK
<1>5. ClientInv' /\ IsFiniteSet(net')
  BY <1>1, <1>2, Taken DEF Inv, ClientInv
<1>6. ASSUME NEW u \in Tasks PROVE Counts(u)'
  <2>1. /\ Cardinality(Copies(u)) \in Nat /\ Cardinality(Sends(u)) \in Nat /\ unanswered[u] \in Nat
        /\ Cardinality(Sends(u)') = Cardinality(Sends(u))
              - (IF r.task = u /\ r.op.what = "send" THEN 1 ELSE 0)
    BY <1>1, Finite, Taken DEF Inv, MeshTypeOK
  <2>2. Copies(u)' = Copies(u) /\ (Sending(u)' <=> Sending(u))
    BY <1>2 DEF Copies, Sending
  <2>3. CASE answer'[u] = answer[u]
    <3>1. Out(u)' <=> Out(u)
      BY <1>2, <2>2, <2>3 DEF Out
    <3>. QED BY <1>2, <2>1, <2>2, <2>3, <3>1 DEF Inv, Counts
  <2>4. CASE u = r.task /\ pc[u] = "wait" /\ op[u] = r.op /\ answer[u].status = "none" /\ answer'[u] = a
    <3>1. Sending(u) => Out(u)
      BY <2>4 DEF Out
    <3>2. Sending(u) <=> r.op.what = "send"
      BY <2>4 DEF Sending
    <3>3. answer'[u].status = "refused"
      BY <2>4
    <3>4. Counts(u) /\ (Out(u)' <=> u \in sent) /\ (~Sending(u) => (Out(u) <=> u \in sent))
      BY <1>2, <3>3 DEF Inv, Out
    <3>5. CASE Sending(u)
      BY <1>2, <2>1, <2>2, <2>4, <3>1, <3>2, <3>3, <3>4, <3>5 DEF Counts
    <3>6. CASE ~Sending(u)
      BY <1>2, <2>1, <2>2, <2>4, <3>2, <3>3, <3>4, <3>6 DEF Counts
    <3>. QED BY <3>5, <3>6
  <2>. QED BY <1>3, <2>3, <2>4
<1>7. ASSUME NEW u \in Tasks PROVE Knows(u)'
  <2>1. answer'[u] = answer[u] \/ answer'[u].status = "refused"
    BY <1>3
  <2>. QED BY <1>2, <2>1 DEF Inv, Knows, ExactRows, ExactHanded
<1>. QED BY <1>3, <1>4, <1>5, <1>6, <1>7 DEF Inv

\* The end of a call, whether it returned or raised, as the DMs' sender counts it.
LEMMA EndedCounts ==
    ASSUME Inv, NEW t \in Tasks, pc[t] = "wait", pc' = [pc EXCEPT ![t] = "idle"],
           UNCHANGED dms, \A u \in Tasks : Sends(u)' = Sends(u),
           \A u \in Tasks \ {t} : op'[u] = op[u] /\ answer'[u] = answer[u],
           \/ /\ op[t].what = "send" /\ answer[t].status = "ok"
              /\ sent' = sent \union {t} /\ unanswered' = unanswered
           \/ /\ op[t].what = "send"
              /\ sent' = sent /\ unanswered' = [unanswered EXCEPT ![t] = @ + 1]
           \/ /\ op[t].what = "send" => answer[t].status = "refused"
              /\ sent' = sent /\ unanswered' = unanswered
    PROVE  \A u \in Tasks : Counts(u)'
<1>. SUFFICES ASSUME NEW u \in Tasks PROVE Counts(u)'
  OBVIOUS
<1>1. Copies(u)' = Copies(u) /\ Sends(u)' = Sends(u)
  BY DEF Copies
<1>2. Cardinality(Copies(u)) \in Nat /\ Cardinality(Sends(u)) \in Nat /\ unanswered[u] \in Nat
  BY Finite DEF Inv, MeshTypeOK
<1>3. pc \in [Tasks -> {"idle", "wait", "closing"}] /\ unanswered \in [Tasks -> Nat] /\ Counts(u)
  BY DEF Inv, MeshTypeOK
<1>4. CASE u # t
  <2>1. /\ (Sending(u)' <=> Sending(u)) /\ (u \in sent' <=> u \in sent)
        /\ unanswered'[u] = unanswered[u] /\ answer'[u] = answer[u]
    BY <1>3, <1>4 DEF Sending
  <2>. QED BY <1>1, <1>2, <1>3, <2>1 DEF Counts, Out
<1>5. CASE u = t
  <2>1. ~Sending(t)' /\ (Sending(t) <=> op[t].what = "send") /\ (Out(t)' <=> t \in sent')
    BY <1>3 DEF Sending, Out
  <2>2. CASE op[t].what = "send" /\ answer[t].status = "ok" /\ sent' = sent \union {t} /\ unanswered' = unanswered
    BY <1>1, <1>2, <1>3, <1>5, <2>1, <2>2 DEF Counts, Out
  <2>3. CASE op[t].what = "send" /\ sent' = sent /\ unanswered' = [unanswered EXCEPT ![t] = @ + 1]
    <3>1. unanswered'[t] = unanswered[t] + 1 /\ t \notin sent /\ ~Out(t)'
      BY <1>3, <1>5, <2>1, <2>3 DEF Counts
    <3>. QED BY <1>1, <1>2, <1>3, <1>5, <2>1, <2>3, <3>1 DEF Counts
  <2>4. CASE (op[t].what = "send" => answer[t].status = "refused") /\ sent' = sent /\ unanswered' = unanswered
    <3>1. Out(t)' <=> Out(t)
      BY <2>1, <2>4 DEF Out
    <3>. QED BY <1>1, <1>2, <1>3, <1>5, <2>1, <2>4, <3>1 DEF Counts
  <2>. QED BY <2>2, <2>3, <2>4
<1>. QED BY <1>4, <1>5

\* Over, in its two cases.
LEMMA OverInv ==
    ASSUME Inv, NEW t \in Tasks, NEW kept \in BOOLEAN, Over(t, kept)
    PROVE  /\ answer' = [answer EXCEPT ![t] = Silence] /\ calls' = calls
           /\ op' = (IF kept THEN op ELSE [op EXCEPT ![t] = NoOp])
           /\ before' = (IF kept THEN before ELSE [before EXCEPT ![t] = Nothing])
           /\ op' \in [Tasks -> Calls] /\ before' \in [Tasks -> Befores]
           /\ try' \in [Tasks -> 0..calls] /\ answer' \in [Tasks -> Answers]
           /\ \A u \in Tasks \ {t} : try'[u] = try[u]
           /\ \A u \in Tasks : before'[u].len <= Len(dms) /\ before'[u].marked \subseteq marked
<1>1. NoOp \in Calls /\ Nothing \in Befores /\ Silence \in Answers
  BY DEF NoOp, Op, Calls, Ops, NoLimit, Registered, Nothing, Befores, Silence, Answers, Statuses
<1>2. /\ op \in [Tasks -> Calls] /\ before \in [Tasks -> Befores] /\ calls \in Nat
      /\ try \in [Tasks -> 0..calls] /\ answer \in [Tasks -> Answers] /\ Len(dms) \in Nat
      /\ \A u \in Tasks : before[u].len <= Len(dms) /\ before[u].marked \subseteq marked
  BY DEF Inv, MeshTypeOK
<1>3. CASE kept
  BY <1>1, <1>2, <1>3 DEF Over, call
<1>4. CASE ~kept
  <2>1. /\ answer' = [answer EXCEPT ![t] = Silence] /\ calls' = calls
        /\ op' = [op EXCEPT ![t] = NoOp] /\ before' = [before EXCEPT ![t] = Nothing]
        /\ try' = [try EXCEPT ![t] = 0]
    BY <1>4 DEF Over
  <2>2. try' \in [Tasks -> 0..calls] /\ \A u \in Tasks \ {t} : try'[u] = try[u]
    BY <1>2, <2>1
  <2>3. op' \in [Tasks -> Calls] /\ before' \in [Tasks -> Befores] /\ answer' \in [Tasks -> Answers]
    BY <1>1, <1>2, <2>1
  <2>4. ASSUME NEW u \in Tasks
        PROVE  before'[u].len <= Len(dms) /\ before'[u].marked \subseteq marked
    BY <1>2, <2>1 DEF Nothing
  <2>. QED BY <1>4, <2>1, <2>2, <2>3, <2>4
<1>. QED BY <1>3, <1>4

\* An answer that is read: what it says is what the task knows from then on.
LEMMA ReceiveInv == ASSUME Inv, NEW t \in Tasks, Receive(t) PROVE Inv'
<1>. DEFINE ok   == Good(op[t], answer[t].status)
            kept == ok /\ op[t].what = "fetch"
<1>1. /\ pc[t] = "wait" /\ answer[t].status # "none" /\ pc' = [pc EXCEPT ![t] = "idle"]
      /\ rows' = [rows EXCEPT ![t] =
                    IF op[t].what = "fetch" THEN Handed(op[t], answer[t].rows) ELSE {}]
      /\ marked' = marked \union {i \in {op[t].id} : ok /\ op[t].what = "mark_read"}
      /\ sent' = sent \union {u \in {t} : ok /\ op[t].what = "send"}
      /\ unanswered' = [unanswered EXCEPT ![t] =
           @ + IF op[t].what = "send" /\ answer[t].status \in {"empty", "unusable"} THEN 1 ELSE 0]
      /\ Over(t, kept)
      /\ UNCHANGED <<current, open, made, raced, dms, read, net>>
  BY DEF Receive, Back, Goto, client, gateway
<1>2. kept \in BOOLEAN /\ (ok <=> \/ answer[t].status = "ok"
                                  \/ answer[t].status = "empty" /\ op[t].what = "mark_read")
  BY DEF Good
<1>3. /\ answer' = [answer EXCEPT ![t] = Silence] /\ calls' = calls
      /\ op' = (IF kept THEN op ELSE [op EXCEPT ![t] = NoOp])
      /\ before' = (IF kept THEN before ELSE [before EXCEPT ![t] = Nothing])
      /\ op' \in [Tasks -> Calls] /\ before' \in [Tasks -> Befores]
      /\ try' \in [Tasks -> 0..calls] /\ answer' \in [Tasks -> Answers]
      /\ \A u \in Tasks \ {t} : try'[u] = try[u]
      /\ \A u \in Tasks : before'[u].len <= Len(dms) /\ before'[u].marked \subseteq marked
  BY <1>1, <1>2, OverInv
<1>4. /\ pc \in [Tasks -> {"idle", "wait", "closing"}] /\ op \in [Tasks -> Calls]
      /\ answer \in [Tasks -> Answers] /\ unanswered \in [Tasks -> Nat] /\ rows \in [Tasks -> SUBSET Nat]
      /\ Len(dms) \in Nat /\ DOMAIN dms = 1..Len(dms) /\ sent \subseteq Tasks /\ marked \subseteq read
      /\ \A u \in Tasks : answer[u].rows \subseteq DOMAIN dms /\ rows[u] \subseteq DOMAIN dms
      /\ \A u \in Tasks : answer[u].status # "none" => pc[u] = "wait"
      /\ op[t].id \in Nat /\ answer[t].status \in Statuses
  BY DEF Inv, MeshTypeOK, Calls, Answers
<1>5. Handed(op[t], answer[t].rows) \subseteq answer[t].rows
  BY DEF Handed
<1>6. \A u \in Tasks : Knows(u) /\ Counts(u)
  BY DEF Inv
<1>7. marked \subseteq marked' /\ marked' \subseteq read
  <2>1. ok /\ op[t].what = "mark_read" => op[t].id \in read
    BY <1>1, <1>2, <1>6 DEF Knows
  <2>. QED BY <1>1, <1>4, <2>1
<1>8. MeshTypeOK'
  <2>1. pc' \in [Tasks -> {"idle", "wait", "closing"}]
    BY <1>1, <1>4
  <2>2. rows' \in [Tasks -> SUBSET Nat] /\ \A u \in Tasks : rows'[u] \subseteq DOMAIN dms
    <3>1. Handed(op[t], answer[t].rows) \subseteq DOMAIN dms /\ DOMAIN dms \subseteq Nat
      BY <1>4, <1>5
    <3>. QED BY <1>1, <1>4, <3>1
  <2>3. unanswered' \in [Tasks -> Nat] /\ sent' \subseteq Tasks
    BY <1>1, <1>4
  <2>4. \A u \in Tasks : /\ answer'[u].status # "none" => pc'[u] = "wait"
                         /\ answer'[u].rows \subseteq DOMAIN dms
    BY <1>1, <1>3, <1>4 DEF Silence
  <2>5. \A u \in Tasks : before'[u].len <= Len(dms) /\ before'[u].marked \subseteq marked'
    BY <1>3, <1>7
  <2>6. (/\ current \in 0..made /\ made \in 0..MaxMade /\ open \subseteq 1..made /\ raced \in BOOLEAN
         /\ dms \in Seq(DMs) /\ read \subseteq DOMAIN dms /\ calls \in 0..MaxCalls
         /\ net \subseteq Requests /\ \A p, q \in net : p.try <= calls /\ (p.try = q.try => p = q))'
    BY <1>1, <1>3 DEF Inv, MeshTypeOK
  <2>. QED BY <1>1, <1>3, <1>7, <2>1, <2>2, <2>3, <2>4, <2>5, <2>6 DEF MeshTypeOK
<1>9. ClientInv' /\ IsFiniteSet(net)'
  BY <1>1, <1>4 DEF Inv, ClientInv
<1>10. ReqInv'
  <2>. SUFFICES ASSUME NEW q \in net
                PROVE  /\ q.op.what = "mark_read" => q.op.id \in DOMAIN dms
                       /\ pc'[q.task] = "wait" /\ try'[q.task] = q.try
                            => q.op = op'[q.task] /\ answer'[q.task].status = "none"
    BY <1>1 DEF ReqInv
  <2>1. q.task \in Tasks /\ (q.op.what = "mark_read" => q.op.id \in DOMAIN dms)
        /\ (pc[q.task] = "wait" /\ try[q.task] = q.try
             => q.op = op[q.task] /\ answer[q.task].status = "none")
    BY DEF Inv, MeshTypeOK, Requests, ReqInv
  <2>2. CASE q.task = t
    BY <1>1, <1>4, <2>1, <2>2
  <2>3. CASE q.task # t
    BY <1>1, <1>3, <1>4, <2>1, <2>3
  <2>. QED BY <2>2, <2>3
<1>11. \A u \in Tasks : Counts(u)'
  <2>1. \A u \in Tasks : Sends(u)' = Sends(u)
    BY <1>1 DEF Sends
  <2>2. \A u \in Tasks \ {t} : op'[u] = op[u] /\ answer'[u] = answer[u]
    BY <1>3, <1>4
  <2>3. \/ /\ op[t].what = "send" /\ answer[t].status = "ok"
           /\ sent' = sent \union {t} /\ unanswered' = unanswered
        \/ /\ op[t].what = "send"
           /\ sent' = sent /\ unanswered' = [unanswered EXCEPT ![t] = @ + 1]
        \/ /\ op[t].what = "send" => answer[t].status = "refused"
           /\ sent' = sent /\ unanswered' = unanswered
    <3>1. CASE op[t].what = "send" /\ answer[t].status = "ok"
      BY <1>1, <1>2, <1>4, <3>1
    <3>2. CASE op[t].what = "send" /\ answer[t].status \in {"empty", "unusable"}
      <4>1. sent' = sent
        BY <1>1, <1>2, <3>2
      <4>. QED BY <1>1, <3>2, <4>1
    <3>3. CASE op[t].what = "send" => answer[t].status = "refused"
      <4>1. sent' = sent
        BY <1>1, <1>2, <3>3
      <4>2. unanswered' = unanswered
        BY <1>1, <1>4, <3>3
      <4>. QED BY <3>3, <4>1, <4>2
    <3>. QED BY <1>1, <1>4, <3>1, <3>2, <3>3 DEF Statuses
  <2>. QED BY <1>1, <2>1, <2>2, <2>3, EndedCounts
<1>12. ASSUME NEW u \in Tasks PROVE Knows(u)'
  <2>1. CASE u = t
    <3>1. pc'[t] = "idle"
      BY <1>1, <1>4
    <3>. SUFFICES ASSUME op'[t].what = "fetch"
                  PROVE  ExactHanded(op[t], before[t], rows[t])'
      BY <2>1, <3>1 DEF Knows
    <3>2. kept
      BY <1>3, <1>4 DEF NoOp, Op
    <3>3. op'[t] = op[t] /\ before'[t] = before[t] /\ rows'[t] = Handed(op[t], answer[t].rows)
      BY <1>1, <1>3, <1>4, <3>2
    <3>4. ExactRows(op[t], before[t], answer[t].rows)
      BY <1>1, <1>2, <1>6, <3>2 DEF Knows
    <3>. QED BY <1>1, <3>3, <3>4 DEF ExactRows, ExactHanded, Handed
  <2>2. CASE u # t
    <3>1. /\ pc'[u] = pc[u] /\ op'[u] = op[u] /\ answer'[u] = answer[u] /\ before'[u] = before[u]
          /\ rows'[u] = rows[u] /\ dms' = dms /\ read' = read
      BY <1>1, <1>3, <1>4, <2>2 DEF Inv, MeshTypeOK
    <3>. QED BY <1>6, <3>1 DEF Knows, ExactRows, ExactHanded
  <2>. QED BY <2>1, <2>2
<1>. QED BY <1>8, <1>9, <1>10, <1>11, <1>12 DEF Inv

\* A call that ends without an answer: its request may be taken later.
LEMMA NoAnswerInv == ASSUME Inv, NEW t \in Tasks, NoAnswer(t) PROVE Inv'
<1>1. /\ pc[t] = "wait" /\ pc' = [pc EXCEPT ![t] = "idle"]
      /\ net' = {r \in net : r.task = t => r.op.what \in {"send", "mark_read"}}
      /\ unanswered' = [unanswered EXCEPT ![t] = @ + IF op[t].what = "send" THEN 1 ELSE 0]
      /\ Over(t, FALSE)
      /\ UNCHANGED <<current, open, made, raced, dms, read, rows, marked, sent>>
  BY DEF NoAnswer, Goto, client, gateway
<1>2. /\ answer' = [answer EXCEPT ![t] = Silence] /\ calls' = calls
      /\ op' = [op EXCEPT ![t] = NoOp] /\ before' = [before EXCEPT ![t] = Nothing]
      /\ op' \in [Tasks -> Calls] /\ before' \in [Tasks -> Befores]
      /\ try' \in [Tasks -> 0..calls] /\ answer' \in [Tasks -> Answers]
      /\ \A u \in Tasks \ {t} : try'[u] = try[u]
      /\ \A u \in Tasks : before'[u].len <= Len(dms) /\ before'[u].marked \subseteq marked
  BY <1>1, OverInv
<1>3. /\ pc \in [Tasks -> {"idle", "wait", "closing"}] /\ op \in [Tasks -> Calls]
      /\ answer \in [Tasks -> Answers] /\ unanswered \in [Tasks -> Nat] /\ rows \in [Tasks -> SUBSET Nat]
      /\ \A u \in Tasks : answer[u].rows \subseteq DOMAIN dms /\ rows[u] \subseteq DOMAIN dms
      /\ \A u \in Tasks : answer[u].status # "none" => pc[u] = "wait"
  BY DEF Inv, MeshTypeOK
<1>4. net' \subseteq net
  BY <1>1
<1>5. MeshTypeOK'
  <2>1. pc' \in [Tasks -> {"idle", "wait", "closing"}] /\ unanswered' \in [Tasks -> Nat]
    BY <1>1, <1>3
  <2>2. \A u \in Tasks : /\ answer'[u].status # "none" => pc'[u] = "wait"
                         /\ answer'[u].rows \subseteq DOMAIN dms
    BY <1>1, <1>2, <1>3 DEF Silence
  <2>3. (/\ current \in 0..made /\ made \in 0..MaxMade /\ open \subseteq 1..made /\ raced \in BOOLEAN
         /\ dms \in Seq(DMs) /\ read \subseteq DOMAIN dms /\ marked \subseteq read /\ sent \subseteq Tasks
         /\ calls \in 0..MaxCalls /\ net \subseteq Requests
         /\ \A p, q \in net : p.try <= calls /\ (p.try = q.try => p = q))'
    BY <1>1, <1>2, <1>4 DEF Inv, MeshTypeOK
  <2>. QED BY <1>1, <1>2, <1>3, <2>1, <2>2, <2>3 DEF MeshTypeOK
<1>6. ClientInv' /\ IsFiniteSet(net)'
  <2>1. IsFiniteSet(net')
    BY <1>4, FS_Subset DEF Inv
  <2>. QED BY <1>1, <1>3, <2>1 DEF Inv, ClientInv
<1>7. ReqInv'
  <2>. SUFFICES ASSUME NEW q \in net'
                PROVE  /\ q.op.what = "mark_read" => q.op.id \in DOMAIN dms
                       /\ pc'[q.task] = "wait" /\ try'[q.task] = q.try
                            => q.op = op'[q.task] /\ answer'[q.task].status = "none"
    BY <1>1 DEF ReqInv
  <2>1. q.task \in Tasks /\ (q.op.what = "mark_read" => q.op.id \in DOMAIN dms)
        /\ (pc[q.task] = "wait" /\ try[q.task] = q.try
             => q.op = op[q.task] /\ answer[q.task].status = "none")
    BY <1>4 DEF Inv, MeshTypeOK, Requests, ReqInv
  <2>2. CASE q.task = t
    BY <1>1, <1>3, <2>1, <2>2
  <2>3. CASE q.task # t
    BY <1>1, <1>2, <1>3, <2>1, <2>3
  <2>. QED BY <2>2, <2>3
<1>8. \A u \in Tasks : Counts(u)'
  <2>1. \A u \in Tasks : Sends(u)' = Sends(u)
    BY <1>1 DEF Sends
  <2>2. \A u \in Tasks \ {t} : op'[u] = op[u] /\ answer'[u] = answer[u]
    BY <1>2, <1>3
  <2>3. \/ /\ op[t].what = "send"
           /\ sent' = sent /\ unanswered' = [unanswered EXCEPT ![t] = @ + 1]
        \/ /\ op[t].what # "send"
           /\ sent' = sent /\ unanswered' = unanswered
    <3>1. CASE op[t].what = "send"
      BY <1>1, <3>1
    <3>2. CASE op[t].what # "send"
      <4>1. unanswered' = unanswered
        BY <1>1, <1>3, <3>2
      <4>. QED BY <1>1, <3>2, <4>1
    <3>. QED BY <3>1, <3>2
  <2>. QED BY <1>1, <2>1, <2>2, <2>3, EndedCounts
<1>9. ASSUME NEW u \in Tasks PROVE Knows(u)'
  <2>1. CASE u = t
    <3>1. pc'[t] = "idle" /\ op'[t].what = "none"
      BY <1>1, <1>2, <1>3 DEF NoOp, Op
    <3>. QED BY <2>1, <3>1 DEF Knows
  <2>2. CASE u # t
    <3>1. /\ pc'[u] = pc[u] /\ op'[u] = op[u] /\ answer'[u] = answer[u] /\ before'[u] = before[u]
          /\ rows'[u] = rows[u] /\ dms' = dms /\ read' = read
      BY <1>1, <1>2, <1>3, <2>2 DEF Inv, MeshTypeOK
    <3>. QED BY <3>1 DEF Inv, Knows, ExactRows, ExactHanded
  <2>. QED BY <2>1, <2>2
<1>. QED BY <1>5, <1>6, <1>7, <1>8, <1>9 DEF Inv

\* Every step keeps the invariant.
LEMMA NextInv == Inv /\ [Next]_vars => Inv'
<1>. SUFFICES ASSUME Inv, [Next]_vars PROVE Inv'
  OBVIOUS
<1>1. ASSUME NEW t \in Tasks, Step(t) PROVE Inv'
  BY <1>1, EnterInv, CloseInv, ClosedInv, OtherInv, SendInv, SendRefusedInv, FetchInv, MarkReadInv,
     ReceiveInv, NoAnswerInv DEF Step
<1>2. ASSUME NEW r \in net, Serve(r) \/ Refuse(r) PROVE Inv'
  BY <1>2, ServeInv, RefuseInv
<1>3. CASE Arrive
  BY <1>3, ArriveInv
<1>4. CASE UNCHANGED vars
  <2>1. UNCHANGED <<current, open, made, raced>> /\ UNCHANGED rest
    BY <1>4 DEF vars, client, rest
  <2>2. /\ IsFiniteSet(net)' /\ ReqInv' /\ \A t \in Tasks : Counts(t)' /\ Knows(t)'
        /\ MeshTypeOK' <=> (/\ current \in 0..made /\ made \in 0..MaxMade
                            /\ open \subseteq 1..made /\ raced \in BOOLEAN)'
    BY <2>1, RestInv
  <2>3. ClientInv' /\ (/\ current \in 0..made /\ made \in 0..MaxMade
                       /\ open \subseteq 1..made /\ raced \in BOOLEAN)'
    BY <2>1 DEF Inv, MeshTypeOK, ClientInv, rest
  <2>. QED BY <2>2, <2>3 DEF Inv
<1>. QED BY <1>1, <1>2, <1>3, <1>4 DEF Next

\* In every reachable state.
THEOREM InvHolds == Spec => []Inv
<1>. QED BY InitInv, NextInv, PTL DEF Spec

\* The type invariant, for any tasks, fetches and bounds: an answer is kept only for
\* the task that waits for it, and a request only of a call that was made.
THEOREM MeshTypeCorrect == Spec => []MeshTypeOK
<1>1. Inv => MeshTypeOK
  BY DEF Inv
<1>. QED BY <1>1, InvHolds, PTL

\* send: however answers are lost, refused or late, and however often a caller sends
\* again what it was told failed, no DM whose send returned is missing, and no copy
\* exists that is not owed to a send that returned, is out or got no usable answer.
THEOREM SendsOnce == Spec => []SentOnce
<1>1. ASSUME Inv PROVE SentOnce
  <2>. SUFFICES ASSUME NEW t \in Tasks
                PROVE  /\ t \in sent => Copies(t) # {}
                       /\ Cardinality(Copies(t)) + Cardinality(Sends(t))
                            <= unanswered[t] + (IF t \in sent \/ Sending(t) THEN 1 ELSE 0)
    BY DEF SentOnce
  <2>1. Counts(t) /\ (Out(t) => t \in sent \/ Sending(t))
    BY <1>1 DEF Inv, Out
  <2>2. Cardinality(Copies(t)) \in Nat /\ Cardinality(Sends(t)) \in Nat /\ unanswered[t] \in Nat
    BY <1>1, Finite DEF Inv, MeshTypeOK
  <2>. QED BY <2>1, <2>2 DEF Counts
<1>. QED BY <1>1, InvHolds, PTL

\* fetch and mark_read: a fetch that returned holds what it was to hold of the DMs
\* that were there when it began, whatever was written, marked or lost meanwhile.
THEOREM InboxCorrect == Spec => []InboxExact
<1>1. Inv => InboxExact
  BY DEF Inv, Knows, InboxExact, ExactHanded
<1>. QED BY <1>1, InvHolds, PTL

\* _ensure_client and aclose: no AsyncClient stays open unowned, unless one was made
\* at the await of an aclose.
THEOREM NoneIsOrphaned == Spec => []NoneOrphaned
<1>1. Inv => NoneOrphaned
  BY DEF Inv, ClientInv, NoneOrphaned
<1>. QED BY <1>1, InvHolds, PTL
=============================================================================
