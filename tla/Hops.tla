-------------------------------- MODULE Hops --------------------------------
(***************************************************************************)
(* The 3-hop shuffler across all ranks: how requests are routed, relayed   *)
(* and delivered, and how flow control holds back the answers of RPCs.     *)
(*                                                                         *)
(* shuffler_send queues a request for its next hop; an inbound RPC is      *)
(* taken apart by shuffler_rpchand, which delivers or relays each of its   *)
(* requests.  A request that finds a full queue waits there, owned by a    *)
(* req_parent; the RPC it came with is answered, and the thread that sent  *)
(* it goes on, when the parent's last reference is dropped.                *)
(*                                                                         *)
(* OutQueue and DeliveryQueue have the detail of one queue.  Here a queue  *)
(* operation is one step, which is what its lock makes of it, and what the *)
(* operation does after the unlock with what only it can reach (launching  *)
(* the batch, answering for a parent whose last reference it dropped under *)
(* the lock) is part of that step.  Requests have datalen 1.               *)
(***************************************************************************)
EXTENDS Integers, Sequences, FiniteSets, FiniteSetsExt, SequencesExt, Functions, TLC

CONSTANT Nets   \* the networks, settings and workloads looked at

VARIABLES
  net,         \* the one of this behaviour; it never changes
  sent,        \* requests that shuffler_send has been called with
  app,         \* a rank's application thread: "run", "park", "blocked"
  q,           \* output queues: loading, nsending, oqwaitq
  deliverq, dwaitq,
  nrefs,       \* reference counts of the req_parents there are
  thr,         \* network and delivery threads: where they are and in which RPC
  launched,    \* RPCs sent
  taken,       \* RPCs that shuffler_rpchand was called with
  replies,     \* answers on their way back
  disablesend, \* ranks where shuffler_shutdown has begun
  refused,     \* RPCs destroyed without an answer
  delivered    \* requests given to delivercb, and where

queueVars == <<q, deliverq, dwaitq, nrefs, launched>>
vars == <<net, sent, app, queueVars, thr, taken, replies, disablesend, refused, delivered>>

\* Request i goes from rank net.from[i] to rank net.to[i].
Reqs  == DOMAIN net.from
Ranks == DOMAIN net.node

-----------------------------------------------------------------------------
(* Routes and queues.                                                      *)

\* nexus_next_hop: what it answers, and the rank the request goes to
nexus_next_hop(s, d) ==
  LET here == net.node[s]  there == net.node[d]
  IN  CASE s = d -> <<"NX_DONE", d>>
        [] s # d /\ here = there -> <<"NX_ISLOCAL", d>>
        [] here # there /\ net.rep[here, there] = s ->
             <<"NX_DESTREP", net.rep[there, here]>>
        [] OTHER -> <<"NX_SRCREP", net.rep[here, there]>>

\* Queue <<s, x, d>> of rank s: remoteq ("rmq") to the representatives of
\* other nodes, local_orq ("orq") and local_rlq ("rlq") to every local rank.
Queues ==
  {<<s, x, d>> \in Ranks \X {"orq", "rmq", "rlq"} \X Ranks :
     /\ s # d
     /\ (x = "rmq") <=> (net.node[s] # net.node[d])
     /\ x = "rmq" => nexus_next_hop(s, d) = <<"NX_DESTREP", d>>}

EmptyQueue == [loading |-> <<>>, nsending |-> 0, oqwaitq |-> <<>>]

\* hgt_local serves the local queues, hgt_remote the others
ServedBy(k)   == <<k[1], IF k[2] = "rmq" THEN "remote" ELSE "local">>
HandledBy(p)  == <<p.via[3], IF p.via[2] = "rmq" THEN "remote" ELSE "local">>

\* Fault: relayed requests share the queues of the rank's own.
SharedLocal(nexus) == IF nexus = "NX_DESTREP" THEN "rmq" ELSE "orq"

\* the output set that shuffler_rpchand takes
RelaySet(nexus) == IF nexus = "NX_DESTREP" THEN "rmq" ELSE "rlq"

\* the output set that shuffler_send takes
OriginSet(nexus) == IF nexus = "NX_DESTREP" THEN "rmq" ELSE "orq"

-----------------------------------------------------------------------------
(* req_parent.  The parent of an RPC is named by the RPC; the one on the   *)
(* stack of shuffler_send by the request.                                  *)

AppParent(r) == [via |-> <<net.from[r], "app", net.from[r]>>, reqs |-> <<r>>]
IsApp(p)     == p.via[2] = "app"
NoRpc        == [via |-> <<>>, reqs |-> <<>>]

\* Fault: no reference for the caller.
FirstRefsOne == 1

FirstRefs == 2

\* req_parent_init
Hold(p) ==
  nrefs' = IF p \in DOMAIN nrefs THEN [nrefs EXCEPT ![p] = @ + 1]
                                 ELSE nrefs @@ (p :> FirstRefs)

\* parent_stopwait for each of ps, with shuffler_respond_cb, which frees
\* the parent of an RPC; the application frees its own when it wakes up
StopWait(ps, refs, answers) ==
  /\ nrefs' = Restrict(refs, DOMAIN refs \ ps)
  /\ replies' = answers \cup {p \in ps : ~IsApp(p)}
  /\ app' = [s \in Ranks |->
               IF \E p \in ps : IsApp(p) /\ p.via[1] = s THEN "run" ELSE app[s]]

-----------------------------------------------------------------------------
(* req_via_mercury and req_to_self, for a request r owned by p if it has   *)
(* to wait.                                                                *)

\* Fault: the RPC limit is not looked at.
NeedWaitNot(k) == FALSE

NeedWait(k) == q[k].nsending >= net.maxoqrpc

\* append_req_to_locked_outqueue and forward_reqs_now
Send(k, batch) ==
  /\ q' = [q EXCEPT ![k].loading = <<>>, ![k].nsending = @ + 1]
  /\ launched' = launched \cup {[via |-> k, reqs |-> batch]}

req_via_mercury(k, r, p) ==
  LET batch == Append(q[k].loading, r)
  IN  /\ \/ /\ NeedWait(k)
            /\ q' = [q EXCEPT ![k].oqwaitq = Append(@, [req |-> r, owner |-> p])]
            /\ Hold(p) /\ UNCHANGED launched
         \/ /\ ~NeedWait(k) /\ Len(batch) < net.buftarget
            /\ q' = [q EXCEPT ![k].loading = batch]
            /\ UNCHANGED <<nrefs, launched>>
         \/ /\ ~NeedWait(k) /\ Len(batch) >= net.buftarget
            /\ Send(k, batch) /\ UNCHANGED nrefs
      /\ UNCHANGED <<deliverq, dwaitq>>

req_to_self(s, r, p) ==
  /\ \/ /\ Len(deliverq[s]) < net.deliverq_max
        /\ deliverq' = [deliverq EXCEPT ![s] = Append(@, r)]
        /\ UNCHANGED <<dwaitq, nrefs>>
     \/ /\ Len(deliverq[s]) >= net.deliverq_max
        /\ dwaitq' = [dwaitq EXCEPT ![s] = Append(@, [req |-> r, owner |-> p])]
        /\ Hold(p) /\ UNCHANGED deliverq
  /\ UNCHANGED <<q, launched>>

-----------------------------------------------------------------------------
(* The application.                                                        *)

\* shuffler_send.  The requests of a rank go out in order.
shuffler_send(s) ==
  LET mine == {i \in Reqs \ sent : net.from[i] = s}
      r == Min(mine)
      hop == nexus_next_hop(s, net.to[r])
  IN  /\ app[s] = "run" /\ s \notin disablesend /\ mine # {}
      /\ sent' = sent \cup {r}
      /\ IF hop[1] = "NX_DONE"
         THEN req_to_self(s, r, AppParent(r))
         ELSE req_via_mercury(<<s, OriginSet(hop[1]), hop[2]>>, r, AppParent(r))
      /\ app' = [app EXCEPT ![s] = IF AppParent(r) \in DOMAIN nrefs'
                                   THEN "park" ELSE "run"]
      /\ UNCHANGED <<net, thr, taken, replies, disablesend, refused, delivered>>

\* It drops its reference, and waits unless that was the last one.
Park(s) ==
  LET p == CHOOSE x \in DOMAIN nrefs : IsApp(x) /\ x.via[1] = s
  IN  /\ app[s] = "park"
      /\ \/ /\ nrefs[p] > 1
            /\ nrefs' = [nrefs EXCEPT ![p] = @ - 1]
            /\ app' = [app EXCEPT ![s] = "blocked"]
         \/ /\ nrefs[p] = 1
            /\ nrefs' = Restrict(nrefs, DOMAIN nrefs \ {p})
            /\ app' = [app EXCEPT ![s] = "run"]
      /\ UNCHANGED <<net, sent, q, deliverq, dwaitq, launched, thr, taken, replies,
                     disablesend, refused, delivered>>

\* The flushes at the end and the start of an epoch: what is loading on a
\* queue goes out, after all that waits there, whatever nsending is.
Flush(k) ==
  /\ sent = Reqs /\ \A s \in Ranks : app[s] = "run"
  /\ q[k].loading # <<>> /\ q[k].oqwaitq = <<>>
  /\ Send(k, q[k].loading)
  /\ UNCHANGED <<net, sent, app, deliverq, dwaitq, nrefs, thr, taken, replies,
                 disablesend, refused, delivered>>

\* shuffler_shutdown at a rank that has nothing more to send
Shutdown(s) ==
  /\ s \in net.early \ disablesend /\ app[s] = "run"
  /\ \A r \in Reqs \ sent : net.from[r] # s
  /\ disablesend' = disablesend \cup {s}
  /\ UNCHANGED <<net, sent, app, queueVars, thr, taken, replies, refused, delivered>>

-----------------------------------------------------------------------------
(* shuffler_rpchand, in thread t, one request of the RPC per step.         *)

Idle(t) == thr[t].pc = "idle"
Goto(t, l, p, rest) == thr' = [thr EXCEPT ![t] = [pc |-> l, rpc |-> p, left |-> rest]]
Rest(t) == Goto(t, "idle", NoRpc, <<>>)

\* Fault: requests for a local rank are taken from local ranks only.
PanicOnRelay(nexus, islocal) ==
  \/ nexus \notin {"NX_ISLOCAL", "NX_DESTREP"}
  \/ nexus = "NX_ISLOCAL" /\ ~islocal
  \/ nexus = "NX_DESTREP" /\ ~islocal

\* requests that could only be there because of a loop are dropped
Panic(nexus, islocal) ==
  \/ nexus \notin {"NX_ISLOCAL", "NX_DESTREP"}
  \/ nexus = "NX_ISLOCAL" /\ islocal
  \/ nexus = "NX_DESTREP" /\ ~islocal

Handle(t, p, r) ==
  LET hop == nexus_next_hop(t[1], net.to[r])
  IN  IF hop[1] = "NX_DONE"
      THEN req_to_self(t[1], r, p)
      ELSE IF Panic(hop[1], t[2] = "local")
      THEN UNCHANGED queueVars
      ELSE req_via_mercury(<<t[1], RelaySet(hop[1]), hop[2]>>, r, p)

\* After the last request: answer at once if none of them waits, else drop
\* the reference that kept the parent.
AfterRequest(t, p, rest) ==
  \/ /\ rest # <<>>
     /\ Goto(t, "loop", p, rest) /\ UNCHANGED replies
  \/ /\ rest = <<>> /\ p \in DOMAIN nrefs'
     /\ Goto(t, "drop", p, <<>>) /\ UNCHANGED replies
  \/ /\ rest = <<>> /\ p \notin DOMAIN nrefs'
     /\ Rest(t) /\ replies' = replies \cup {p}

Receive(t, p) ==
  /\ p \in launched \ taken /\ HandledBy(p) = t /\ Idle(t)
  /\ t[1] \notin disablesend
  /\ taken' = taken \cup {p}
  /\ Handle(t, p, Head(p.reqs))
  /\ AfterRequest(t, p, Tail(p.reqs))
  /\ UNCHANGED <<net, sent, app, disablesend, refused, delivered>>

HandleNext(t) ==
  LET p == thr[t].rpc  left == thr[t].left
  IN  /\ thr[t].pc = "loop"
      /\ Handle(t, p, Head(left))
      /\ AfterRequest(t, p, Tail(left))
      /\ UNCHANGED <<net, sent, app, taken, disablesend, refused, delivered>>

\* Sending is disabled: HG_Destroy and no answer.
Refuse(t, p) ==
  /\ p \in launched \ taken /\ HandledBy(p) = t /\ Idle(t)
  /\ t[1] \in disablesend
  /\ taken' = taken \cup {p}
  /\ refused' = refused \cup {p}
  /\ UNCHANGED <<net, sent, app, queueVars, thr, replies, disablesend, delivered>>

-----------------------------------------------------------------------------
(* parent_dref_stopwait, in a network or delivery thread t.                *)

DropRef(t) ==
  LET p == thr[t].rpc
  IN  /\ thr[t].pc = "drop"
      /\ nrefs' = [nrefs EXCEPT ![p] = @ - 1]
      /\ Goto(t, IF nrefs[p] > 1 THEN "log" ELSE "stopwait", p, <<>>)
      /\ UNCHANGED <<net, sent, app, q, deliverq, dwaitq, launched, taken,
                     replies, disablesend, refused, delivered>>

\* Not the last reference: all that is left to do is to read the parent for
\* the log.
LogRef(t) ==
  /\ thr[t].pc = "log"
  /\ Rest(t)
  /\ UNCHANGED <<net, sent, app, queueVars, taken, replies, disablesend,
                 refused, delivered>>

LastRef(t) ==
  /\ thr[t].pc = "stopwait"
  /\ StopWait({thr[t].rpc}, nrefs, replies)
  /\ Rest(t)
  /\ UNCHANGED <<net, sent, q, deliverq, dwaitq, launched, taken, disablesend,
                 refused, delivered>>

-----------------------------------------------------------------------------
(* Completions and deliveries.                                             *)

\* Fault: a completion makes room for one request.
PullsOne(k) == Min({Len(q[k].oqwaitq), 1})

\* how many waiting requests forw_start_next pulls: until they make a batch
Pulls(k) == Min({Len(q[k].oqwaitq), net.buftarget - Len(q[k].loading)})

\* forw_cb and forw_start_next for the answered RPC p; each request pulled
\* drops a reference of its owner.
Complete(t, p) ==
  LET k == p.via
      n == Pulls(k)
      pulled == SubSeq(q[k].oqwaitq, 1, n)
      batch == q[k].loading \o [i \in 1..n |-> pulled[i].req]
      tosend == n > 0 /\ Len(batch) >= net.buftarget
      Drops(o) == Cardinality({i \in 1..n : pulled[i].owner = o})
      refs == [o \in DOMAIN nrefs |-> nrefs[o] - Drops(o)]
  IN  /\ p \in replies /\ ServedBy(k) = t /\ Idle(t)
      /\ q' = [q EXCEPT ![k] =
                 [loading  |-> IF tosend THEN <<>> ELSE batch,
                  nsending |-> IF tosend THEN @.nsending ELSE @.nsending - 1,
                  oqwaitq  |-> SubSeq(@.oqwaitq, n + 1, Len(@.oqwaitq))]]
      /\ launched' = IF tosend THEN launched \cup {[via |-> k, reqs |-> batch]}
                               ELSE launched
      /\ StopWait({o \in DOMAIN refs : Drops(o) > 0 /\ refs[o] < 1}, refs,
                  replies \ {p})
      /\ UNCHANGED <<net, sent, deliverq, dwaitq, thr, taken, disablesend,
                     refused, delivered>>

\* delivery_main: delivercb is done with the first request; the first one
\* that waits takes the room, and its owner loses a reference.
Deliver(t) ==
  LET s == t[1]
  IN  /\ t[2] = "deliver" /\ Idle(t) /\ deliverq[s] # <<>>
      /\ delivered' = delivered \cup {<<Head(deliverq[s]), s>>}
      /\ \/ /\ dwaitq[s] = <<>>
            /\ deliverq' = [deliverq EXCEPT ![s] = Tail(@)]
            /\ UNCHANGED <<dwaitq, thr>>
         \/ /\ dwaitq[s] # <<>>
            /\ deliverq' = [deliverq EXCEPT ![s] =
                              Append(Tail(@), Head(dwaitq[s]).req)]
            /\ dwaitq' = [dwaitq EXCEPT ![s] = Tail(@)]
            /\ Goto(t, "drop", Head(dwaitq[s]).owner, <<>>)
      /\ UNCHANGED <<net, sent, app, q, nrefs, launched, taken, replies,
                     disablesend, refused>>

-----------------------------------------------------------------------------
Threads == Ranks \X {"local", "remote", "deliver"}

Init ==
  /\ net \in Nets
  /\ sent = {} /\ app = [s \in Ranks |-> "run"]
  /\ q = [k \in Queues |-> EmptyQueue]
  /\ deliverq = [s \in Ranks |-> <<>>] /\ dwaitq = [s \in Ranks |-> <<>>]
  /\ nrefs = <<>>
  /\ thr = [t \in Threads |-> [pc |-> "idle", rpc |-> NoRpc, left |-> <<>>]]
  /\ launched = {} /\ taken = {} /\ replies = {}
  /\ disablesend = {} /\ refused = {} /\ delivered = {}

Main(s) == shuffler_send(s) \/ Park(s) \/ Shutdown(s)

Thread(t) ==
  \/ \E p \in launched \ taken : Receive(t, p) \/ Refuse(t, p)
  \/ \E p \in replies : Complete(t, p)
  \/ HandleNext(t) \/ DropRef(t) \/ LogRef(t) \/ LastRef(t)
  \/ Deliver(t)

Next ==
  \/ \E s \in Ranks : Main(s)
  \/ \E k \in DOMAIN q : Flush(k)
  \/ \E t \in DOMAIN thr : Thread(t)

Spec == Init /\ [][Next]_vars

-----------------------------------------------------------------------------

\* where a request is
Waiting(w, r) == \E i \in DOMAIN w : w[i].req = r
Places(r) ==
  {<<"loading", k>> : k \in {x \in DOMAIN q : r \in Range(q[x].loading)}}
  \cup {<<"waiting", k>> : k \in {x \in DOMAIN q : Waiting(q[x].oqwaitq, r)}}
  \cup {<<"on the way", p>> : p \in {x \in launched \ taken : r \in Range(x.reqs)}}
  \cup {<<"handled", t>> : t \in {x \in DOMAIN thr : r \in Range(thr[x].left)}}
  \cup {<<"deliverq", s>> : s \in {x \in Ranks : r \in Range(deliverq[x])}}
  \cup {<<"dwaitq", s>> : s \in {x \in Ranks : Waiting(dwaitq[x], r)}}
  \cup {<<"refused", p>> : p \in {x \in refused : r \in Range(x.reqs)}}
  \cup {<<"delivered", d[2]>> : d \in {x \in delivered : x[1] = r}}

\* No request is lost, duplicated or sent astray over its hops: once it is
\* sent it is in one place, in the end with delivercb of its destination.
\* (That nexus never makes shuffler_rpchand drop one is part of it.)
OnePlace ==
  /\ \A r \in sent : Cardinality(Places(r)) = 1
  /\ \A d \in delivered : d[2] = net.to[d[1]]

\* the requests that wait for room with owner p, and the threads that have
\* a reference of their own
Owned(p) ==
  {r \in sent : \/ \E k \in DOMAIN q : [req |-> r, owner |-> p] \in Range(q[k].oqwaitq)
                \/ \E s \in Ranks : [req |-> r, owner |-> p] \in Range(dwaitq[s])}
Holders(p) ==
  {t \in DOMAIN thr : thr[t].rpc = p /\ thr[t].pc \in {"loop", "drop"}}
  \cup {<<s, "app">> : s \in {x \in Ranks : IsApp(p) /\ p.via[1] = x /\ app[x] = "park"}}

\* A req_parent is there as long as a request it owns waits or a thread has
\* still to drop its reference, and nrefs says how many of them there are; so
\* an RPC is answered only when none of its requests waits.  A thread that
\* has dropped a reference which was not the last may find the parent freed
\* (it reads parent->input for the log); no other thread ever does.
RefsExact ==
  /\ \A p \in DOMAIN nrefs :
       /\ nrefs[p] = Cardinality(Owned(p)) + Cardinality(Holders(p))
       /\ nrefs[p] = 0 <=> \E t \in DOMAIN thr : thr[t].rpc = p /\ thr[t].pc = "stopwait"
       /\ p \notin replies
  /\ \A k \in DOMAIN q : \A i \in DOMAIN q[k].oqwaitq :
       q[k].oqwaitq[i].owner \in DOMAIN nrefs
  /\ \A s \in Ranks : \A i \in DOMAIN dwaitq[s] : dwaitq[s][i].owner \in DOMAIN nrefs
  /\ \A t \in DOMAIN thr : thr[t].pc \in {"drop", "stopwait"} => thr[t].rpc \in DOMAIN nrefs

\* Requests go from local_orq to remoteq to local_rlq to deliverq, and may
\* leave any of these out, but never back.
Level(x) == CASE x = "app" -> 4 [] x = "orq" -> 3 [] x = "rmq" -> 2 [] x = "rlq" -> 1

\* Why ranks never wait in a circle: the answer to an RPC waits for room in a
\* queue further down than the queue it was sent from.  Relayed requests with
\* queues of their own (local_rlq) are what makes this so.
Downhill ==
  \A k \in DOMAIN q : \A i \in DOMAIN q[k].oqwaitq :
    Level(q[k].oqwaitq[i].owner.via[2]) > Level(k[2])

\* the queues whose RPCs bring requests to queue k
Feeders(k) ==
  {u \in DOMAIN q : u[3] = k[1] /\ u[2] = CASE k[2] = "rlq" -> "rmq"
                                          [] k[2] = "rmq" -> "orq"
                                          [] OTHER -> "none"}

\* Flow control bounds what a relay has to keep: the relayed requests that
\* wait at a queue are those of RPCs whose senders count them in nsending,
\* which passes maxoqrpc only by what a flush pushed out.
Backlog ==
  \A k \in DOMAIN q :
    /\ Cardinality({i \in DOMAIN q[k].oqwaitq : ~IsApp(q[k].oqwaitq[i].owner)})
         <= net.buftarget * MapThenSumSet(LAMBDA u : q[u].nsending, Feeders(k))
    /\ q[k].nsending <= net.maxoqrpc + 1

\* nothing is on its way and no thread has anything to do
Quiet ==
  /\ launched = taken /\ replies = {}
  /\ \A t \in DOMAIN thr : Idle(t)
  /\ \A s \in Ranks : deliverq[s] = <<>> /\ app[s] # "park"
  /\ \A s \in Ranks : app[s] = "run" => \A r \in Reqs \ sent : net.from[r] # s
  /\ (\A s \in Ranks : app[s] = "run") =>
       \A k \in DOMAIN q : q[k].loading = <<>> \/ q[k].oqwaitq # <<>>

\* Ranks that hold back each other's answers never wait in a circle: as long
\* as a request is not delivered, an RPC not answered or a caller blocked,
\* someone has something to do, unless a rank was shut down with an RPC still
\* to come to it.  (No step is ever undone, so all of it ends.)
NobodyWaits ==
  Quiet /\ refused = {} =>
    /\ {d[1] : d \in delivered} = Reqs
    /\ nrefs = <<>> /\ \A k \in DOMAIN q : q[k] = EmptyQueue
    /\ \A s \in Ranks : dwaitq[s] = <<>> /\ app[s] = "run"

=============================================================================
