----------------------------- MODULE MeshClient -----------------------------
(***************************************************************************)
(* mesh_client.py: the tasks of one event loop share the MeshClient of     *)
(* node "me" and talk to the mesh-gateway through it.  A step is what runs *)
(* between two awaits: a call up to its request, the gateway taking a      *)
(* request, an answer up to the call's end, each half of aclose.  A        *)
(* request whose caller gave up may still be taken, and a caller that was  *)
(* told of a failure may call again.                                       *)
(***************************************************************************)
EXTENDS Integers, FiniteSets, Sequences

CONSTANTS Tasks,    \* tasks of the process; each has one DM to send
          Fetches,  \* what is fetched: to, unread_only and limit
          MaxDMs,   \* bound: DMs that come from elsewhere
          MaxCalls, \* bound: calls of the tasks
          MaxMade   \* bound: AsyncClients made

NoLimit    == 0
Registered == {"me", "you"}

ASSUME MeshAssumption ==
    /\ Fetches \subseteq [to : Registered, unread_only : BOOLEAN, limit : Nat]
    /\ MaxDMs \in Nat /\ MaxCalls \in Nat /\ MaxMade \in Nat

VARIABLES current,    \* _client: the AsyncClient, by number; 0 is None
          open,       \* AsyncClients that were made and not closed
          made,       \* how many were made
          raced,      \* was one made while an aclose was at its await?
          dms,        \* the gateway: the DMs, by id
          read,       \* the gateway: ids with a read_at
          net,        \* requests the gateway has not taken yet
          pc,         \* pc[t]: where task t is
          op,         \* op[t]: its call
          calls,      \* calls of the tasks so far
          try,        \* try[t]: which of them is its last
          answer,     \* answer[t]: what came back
          rows,       \* rows[t]: the ids its last fetch returned
          before,     \* before[t]: number of DMs and ids marked when the fetch began
          marked,     \* ids of the mark_reads that returned
          sent,       \* tasks whose send returned
          unanswered  \* unanswered[t]: sends that raised for want of a usable answer

client  == <<current, open, made, raced>>
gateway == <<dms, read>>
call    == <<op, calls, try, before>>
seen    == <<rows, marked, sent, unanswered>>
vars    == <<client, gateway, net, pc, call, answer, seen>>

Ops == {"send", "fetch", "mark_read", "other", "none"}

\* to: send's recipient, fetch's target.  id: mark_read's.  "other": list_peers and
\* register, which touch no DM.
Op(what, to, id, unread_only, limit) ==
    [what |-> what, to |-> to, id |-> id, unread_only |-> unread_only, limit |-> limit]
NoOp == Op("none", "me", 0, FALSE, NoLimit)

Nothing == [len |-> 0, marked |-> {}]
Silence == [status |-> "none", rows |-> {}]

Init == /\ current = 0 /\ open = {} /\ made = 0 /\ raced = FALSE
        /\ dms = <<>> /\ read = {} /\ net = {} /\ marked = {} /\ sent = {} /\ calls = 0
        /\ pc     = [t \in Tasks |-> "idle"]
        /\ op     = [t \in Tasks |-> NoOp]
        /\ try    = [t \in Tasks |-> 0]
        /\ answer = [t \in Tasks |-> Silence]
        /\ rows   = [t \in Tasks |-> {}]
        /\ before = [t \in Tasks |-> Nothing]
        /\ unanswered = [t \in Tasks |-> 0]

Goto(t, l) == pc' = [pc EXCEPT ![t] = l]

-----------------------------------------------------------------------------
(* The lazy client.                                                        *)

\* _ensure_client: a client that was not closed is kept.
Ensure ==
    IF current \in open THEN UNCHANGED client
    ELSE /\ made < MaxMade /\ made' = made + 1
         /\ current' = made + 1 /\ open' = open \union {made + 1}
         /\ raced' = (raced \/ \E t \in Tasks : pc[t] = "closing")

MayCall(t) == pc[t] = "idle" /\ calls < MaxCalls

Called(t, o) == /\ calls' = calls + 1
                /\ op' = [op EXCEPT ![t] = o]
                /\ try' = [try EXCEPT ![t] = IF o = NoOp THEN 0 ELSE calls + 1]
                /\ before' = [before EXCEPT ![t] =
                      IF o.what = "fetch" THEN [len |-> Len(dms), marked |-> marked] ELSE Nothing]
                /\ rows' = [rows EXCEPT ![t] = {}]

\* _request up to its await: nothing comes between _ensure_client and the request,
\* so the client is open.
Begin(t, o) ==
    /\ MayCall(t) /\ Ensure
    /\ Goto(t, "wait") /\ net' = net \union {[task |-> t, try |-> calls + 1, op |-> o]}
    /\ Called(t, o)
    /\ UNCHANGED <<gateway, answer, marked, sent, unanswered>>

\* __aenter__.
Enter(t) == /\ MayCall(t) /\ Ensure
            /\ UNCHANGED <<gateway, net, pc, call, answer, seen>>

\* Mutant: the client is dropped as it is.
CloseForgets(t) ==
    /\ MayCall(t) /\ Goto(t, "closing") /\ Called(t, NoOp)
    /\ UNCHANGED <<client, gateway, net, answer, marked, sent, unanswered>>

\* aclose: AsyncClient.aclose() is closed at once, and then awaits.
Close(t) ==
    /\ MayCall(t) /\ Called(t, NoOp)
    /\ IF current \in open
       THEN Goto(t, "closing") /\ open' = open \ {current} /\ UNCHANGED current
       ELSE UNCHANGED pc /\ current' = 0 /\ UNCHANGED open
    /\ UNCHANGED <<made, raced, gateway, net, answer, marked, sent, unanswered>>

\* Whatever _client is by now.
Closed(t) ==
    /\ pc[t] = "closing" /\ Goto(t, "idle")
    /\ current' = 0
    /\ UNCHANGED <<open, made, raced, gateway, net, call, answer, seen>>

\* The transport's aclose raises, or the task is cancelled.
CloseFails(t) ==
    /\ pc[t] = "closing" /\ Goto(t, "idle")
    /\ UNCHANGED <<client, gateway, net, call, answer, seen>>

-----------------------------------------------------------------------------
(* The calls.                                                              *)

Kinds == {"fyi", "question", "answer", "status", "unblock"}

\* validate_node_name(strict=True): the names it may return.  It resolves an alias,
\* refuses what is not registered, and what it cannot check.
validate_node_name(to, reachable) ==
    CASE ~reachable                    -> {}
      [] reachable /\ to = "alias"     -> {"you"}
      [] reachable /\ to \in Registered -> {to}
      [] OTHER                         -> {}

\* A caller that is told that its DM failed may send it again.
Unsent(t) == t \notin sent

Send(t, to, kind, reachable, secret, skip_secret_check) ==
    /\ Unsent(t)
    /\ kind \in Kinds /\ (secret => skip_secret_check)
    /\ \E c \in validate_node_name(to, reachable) : Begin(t, Op("send", c, 0, FALSE, NoLimit))

\* ValueError, NotInRegistry or MeshSecretLeakError, before anything is asked.
SendRefused(t, to, kind, reachable, secret, skip_secret_check) ==
    /\ Unsent(t) /\ MayCall(t)
    /\ \/ kind \notin Kinds
       \/ validate_node_name(to, reachable) = {}
       \/ secret /\ ~skip_secret_check
    /\ UNCHANGED pc /\ Called(t, NoOp)
    /\ UNCHANGED <<client, gateway, net, answer, marked, sent, unanswered>>

\* Once its DM has been sent the task does other things.
Fetch(t, to, unread_only, limit) == Begin(t, Op("fetch", to, 0, unread_only, limit))

\* A caller marks what it was given ("when they've actually processed the DM").
MarkRead(t, id) == \E u \in Tasks : id \in rows[u] /\ Begin(t, Op("mark_read", "me", id, FALSE, NoLimit))

Other(t) == Begin(t, Op("other", "me", 0, FALSE, NoLimit))

-----------------------------------------------------------------------------
(* The gateway (external), as the client uses it.                          *)

\* /messages?to=, of which a limited answer has some.
Inbox(o) ==
    LET all == {i \in DOMAIN dms : dms[i].to = o.to /\ (o.unread_only => i \notin read)}
    IN  IF o.limit = NoLimit \/ Cardinality(all) <= o.limit THEN {all}
        ELSE {s \in SUBSET all : Cardinality(s) = o.limit}

\* Nobody listens to an answer whose call has ended.
Tell(r, a) ==
    answer' = IF pc[r.task] = "wait" /\ try[r.task] = r.try
              THEN [answer EXCEPT ![r.task] = a] ELSE answer

\* A request is taken once, as long as it may take to get there.  What it asks is
\* done, and the answer says so, or has no content, or is nothing the client can use
\* (no JSON, a 500).
Serve(r) ==
    /\ r \in net /\ net' = net \ {r}
    /\ dms' = IF r.op.what = "send"
              THEN Append(dms, [from |-> "me", to |-> r.op.to, task |-> {r.task}]) ELSE dms
    /\ read' = IF r.op.what = "mark_read" THEN read \union {r.op.id} ELSE read
    /\ \E status \in {"ok", "empty", "unusable"} :
       \E s \in (IF r.op.what = "fetch" THEN Inbox(r.op) ELSE {{}}) :
           Tell(r, [status |-> status, rows |-> IF status = "ok" THEN s ELSE {}])
    /\ UNCHANGED <<client, pc, call, seen>>

\* 401, 403, 4xx: nothing is done.
Refuse(r) ==
    /\ r \in net /\ net' = net \ {r}
    /\ Tell(r, [status |-> "refused", rows |-> {}])
    /\ UNCHANGED <<client, gateway, pc, call, seen>>

\* The other node writes to this one.
Arrive ==
    /\ Cardinality({i \in DOMAIN dms : dms[i].task = {}}) < MaxDMs
    /\ dms' = Append(dms, [from |-> "you", to |-> "me", task |-> {}])
    /\ UNCHANGED <<client, read, net, pc, call, answer, seen>>

-----------------------------------------------------------------------------
(* The answer.                                                             *)

Back(t) == pc[t] = "wait" /\ answer[t].status # "none"

\* Mutant: a refused mark_read is taken for done.
GoodUnchecked(o, status) == status \in {"ok"} \union (IF o.what = "mark_read" THEN {"empty", "refused"} ELSE {})

\* Mutant: the answer of a send is to hold its content (the model before 0.5.1).
GoodWithContent(o, status) == (status = "ok" /\ o.what # "send") \/ (status = "empty" /\ o.what = "mark_read")

\* _request raises for a status of 400 or more and for what is no JSON.  It returns
\* None for an empty body, which send and fetch cannot use (and mark_read can).
Good(o, status) == status = "ok" \/ (status = "empty" /\ o.what = "mark_read")

\* Mutant: what this node sent is returned too.
HandedAll(o, ids) == ids

\* fetch drops what this node sent, from its own inbox.
Handed(o, ids) == IF o.to = "me" THEN {i \in ids : dms[i].from # "me"} ELSE ids

\* The call is over, and remembered if it is a fetch that returned.  Whether a
\* send or mark_read returned or raised is in sent, marked and unanswered.
Over(t, kept) == /\ answer' = [answer EXCEPT ![t] = Silence]
                 /\ IF kept THEN UNCHANGED call
                    ELSE /\ op' = [op EXCEPT ![t] = NoOp] /\ before' = [before EXCEPT ![t] = Nothing]
                         /\ try' = [try EXCEPT ![t] = 0] /\ UNCHANGED calls

Receive(t) ==
    LET ok == Good(op[t], answer[t].status) IN
    /\ Back(t) /\ Goto(t, "idle")
    /\ rows' = [rows EXCEPT ![t] = IF op[t].what = "fetch" THEN Handed(op[t], answer[t].rows) ELSE {}]
    /\ marked' = marked \union {i \in {op[t].id} : ok /\ op[t].what = "mark_read"}
    /\ sent' = sent \union {u \in {t} : ok /\ op[t].what = "send"}
    /\ unanswered' = [unanswered EXCEPT ![t] =
          @ + IF op[t].what = "send" /\ answer[t].status \in {"empty", "unusable"} THEN 1 ELSE 0]
    /\ Over(t, ok /\ op[t].what = "fetch")
    /\ UNCHANGED <<client, gateway, net>>

\* httpx.RequestError (a timeout, a connection that broke, a client closed by another
\* task), or the task is cancelled: the request may have been taken, or may yet be
\* (which matters only if it changes something).
NoAnswer(t) ==
    /\ pc[t] = "wait" /\ Goto(t, "idle")
    /\ net' = {r \in net : r.task = t => r.op.what \in {"send", "mark_read"}}
    /\ unanswered' = [unanswered EXCEPT ![t] = @ + IF op[t].what = "send" THEN 1 ELSE 0]
    /\ Over(t, FALSE)
    /\ UNCHANGED <<client, gateway, rows, marked, sent>>

-----------------------------------------------------------------------------
Step(t) ==
    \/ Enter(t) \/ Close(t) \/ Closed(t) \/ CloseFails(t) \/ Other(t)
    \/ \E to \in Registered \union {"alias", "stranger"}, kind \in {"fyi", "review_request"},
          reachable, secret, skip \in BOOLEAN :
          \/ Send(t, to, kind, reachable, secret, skip)
          \/ SendRefused(t, to, kind, reachable, secret, skip)
    \/ \E f \in Fetches : Fetch(t, f.to, f.unread_only, f.limit)
    \/ \E id \in DOMAIN dms : MarkRead(t, id)
    \/ Receive(t) \/ NoAnswer(t)

Next == \/ \E t \in Tasks : Step(t)
        \/ \E r \in net : Serve(r) \/ Refuse(r)
        \/ Arrive

Spec == Init /\ [][Next]_vars

-----------------------------------------------------------------------------
(* Properties                                                              *)

Calls    == [what : Ops, to : Registered, id : Nat, unread_only : BOOLEAN, limit : Nat]
Requests == [task : Tasks, try : 1..MaxCalls, op : Calls]
DMs      == [from : Registered, to : Registered, task : SUBSET Tasks]
Statuses == {"none", "ok", "empty", "unusable", "refused"}
Answers  == [status : Statuses, rows : SUBSET Nat]
Befores  == [len : Nat, marked : SUBSET Nat]

\* Types: a task has an answer only while it waits for it, and a request only of a
\* call it made.
MeshTypeOK ==
    /\ current \in 0..made /\ made \in 0..MaxMade /\ open \subseteq 1..made /\ raced \in BOOLEAN
    /\ dms \in Seq(DMs) /\ read \subseteq DOMAIN dms /\ marked \subseteq read /\ sent \subseteq Tasks
    /\ net \subseteq Requests /\ \A r, q \in net : r.try <= calls /\ (r.try = q.try => r = q)
    /\ pc \in [Tasks -> {"idle", "wait", "closing"}]
    /\ op \in [Tasks -> Calls] /\ calls \in 0..MaxCalls /\ try \in [Tasks -> 0..calls]
    /\ answer \in [Tasks -> Answers] /\ rows \in [Tasks -> SUBSET Nat]
    /\ before \in [Tasks -> Befores] /\ unanswered \in [Tasks -> Nat]
    /\ \A t \in Tasks :
          /\ answer[t].status # "none" => pc[t] = "wait"
          /\ answer[t].rows \subseteq DOMAIN dms /\ rows[t] \subseteq DOMAIN dms
          /\ before[t].len <= Len(dms) /\ before[t].marked \subseteq marked

Copies(t) == {i \in DOMAIN dms : t \in dms[i].task}
Sends(t)  == {r \in net : r.task = t /\ r.op.what = "send"}
Sending(t) == op[t].what = "send" /\ pc[t] = "wait"

\* send (and mesh_types.py:42-46): a send that returned has its DM at the gateway,
\* and with a caller that sends again what it was told failed there are, there and on
\* the way, no more copies than sends that returned, are out, or got no usable
\* answer: a DM whose answer came is never reported as failed and sent twice.
SentOnce ==
    \A t \in Tasks :
        /\ t \in sent => Copies(t) # {}
        /\ Cardinality(Copies(t)) + Cardinality(Sends(t))
             <= unanswered[t] + (IF t \in sent \/ Sending(t) THEN 1 ELSE 0)

\* fetch and mark_read: what a fetch of the own inbox returns is addressed to this
\* node by another; without a limit nothing that was there before it began and is
\* (still) asked for is missing; and what a mark_read had returned for before it
\* began does not come back as unread, whatever failed or came late.
InboxExact ==
    \A t \in Tasks : (pc[t] = "idle" /\ op[t].what = "fetch") =>
        LET o == op[t]
            due(i) == dms[i].to = o.to /\ (o.to = "me" => dms[i].from # "me")
        IN  /\ \A i \in rows[t] : due(i)
            /\ o.unread_only => rows[t] \intersect before[t].marked = {}
            /\ o.limit = NoLimit =>
                  \A i \in 1..before[t].len : due(i) /\ (o.unread_only => i \notin read) => i \in rows[t]

\* _ensure_client and aclose: the only AsyncClient that is open is the one the next
\* call uses and the next aclose closes, unless a client was made while an aclose
\* was at its await (mesh_client.py:256-257, which then drops that client).
NoneOrphaned == ~raced => open \subseteq {current}

=============================================================================
