---------------------------- MODULE JsonRpcProofs ----------------------------
(***************************************************************************)
(* Proofs about the calls of the JSON-RPC methods: what FindContent,       *)
(* LookupEnr and TraceGossip return, for any number of calls at the same   *)
(* time, any peers, sequence numbers, radii and numbers of recipients.     *)
(*                                                                         *)
(* The properties speak of calls that are answered.  The invariant follows *)
(* a call through what it waits for: which stages its method passes, what  *)
(* it holds in each, and for a gossip how much of the list is left.  A     *)
(* call that waits in the channel is there once, so that no call is        *)
(* started over after it has found something.                              *)
(***************************************************************************)
EXTENDS JsonRpc, FiniteSetTheorems, TLAPS

Watched == {"FindContent", "LookupEnr", "TraceGossip"}

Answered == {"answered", "returned"}

Tables == [Peer -> {NoEntry} \cup [seq : 1..MaxSeq, connected : BOOLEAN]]

\* The call with other values of what its task changes.
Changed(r, stage, got, todo, trace, result) ==
    [method |-> r.method, stage |-> stage, arg |-> r.arg, got |-> got, todo |-> todo,
     trace |-> trace, from |-> r.from, header |-> r.header, result |-> result]

IsCall(r) == r = Changed(r, r.stage, r.got, r.todo, r.trace, r.result)

FindContentCall(r) ==
    r.method = "FindContent" =>
        /\ r.stage \in {"idle", "queued", "spawned", "find_content", "stream", "validate"}
                       \cup Answered
        /\ r.stage \in Answered /\ r.result # Failed => r.result.content \in {"valid", "enrs"}

LookupEnrCall(r) ==
    r.method = "LookupEnr" =>
        /\ r.arg.node \in Node
        /\ r.stage \in {"idle", "queued", "spawned", "lookup_nodes", "lookup_query"} \cup Answered
        /\ r.stage \in {"idle", "queued", "spawned"} => r.got = None
        /\ r.stage = "lookup_nodes" => r.got \in Enr
        /\ r.stage = "lookup_query" => r.got \in Enr \cup {Failed}
        /\ r.stage \in Answered => \/ r.got \in {None, Failed}
                                   \/ /\ r.got \in Enr /\ r.result \in Enr
                                      /\ r.from # "node" => r.result.seq >= r.got.seq

Consistent(report) ==
    /\ report.transferred \subseteq report.accepted
    /\ report.accepted \subseteq report.offered
    /\ report.offered \subseteq Peer

\* A list of peers, with room for them in the report.
Offerable(todo, report, room) ==
    /\ report = [offered |-> report.offered, accepted |-> report.accepted,
                 transferred |-> report.transferred]
    /\ Consistent(report)
    /\ todo \in Seq(Peer)
    /\ Cardinality(report.offered) + Len(todo) <= NUM_CLOSEST_NODES + NUM_FARTHER_NODES + room

TraceGossipCall(r) ==
    r.method = "TraceGossip" =>
        /\ r.stage \in {"idle", "queued", "spawned", "gossip_offer", "gossip_result"} \cup Answered
        /\ r.stage \in {"gossip_offer", "gossip_result"} =>
              /\ Offerable(r.todo, r.trace, 1)
              /\ r.todo # <<>> /\ Head(r.todo) \in r.trace.offered
        /\ r.stage = "gossip_result" =>
              r.got \in BOOLEAN /\ (r.got => Head(r.todo) \in r.trace.accepted)
        /\ r.stage \in Answered => Offerable(<<>>, r.result, 0)

GoodCall(r) ==
    /\ IsCall(r)
    /\ r.method = "AddEnr" => r.arg.enr \in Enr
    /\ FindContentCall(r)
    /\ LookupEnrCall(r)
    /\ TraceGossipCall(r)

RpcInv ==
    /\ call = [c \in Call |-> call[c]]
    /\ \A c \in Call : GoodCall(call[c])
    /\ table \in Tables
    /\ queue \in Seq(Call)
    /\ \A i \in DOMAIN queue : call[queue[i]].stage = "queued"
    /\ \A i, j \in DOMAIN queue : queue[i] = queue[j] => i = j
-----------------------------------------------------------------------------
(* Updates of a call.                                                      *)

\* A record that is a call, with some of its fields replaced.
LEMMA StagedRecord ==
    ASSUME NEW r, IsCall(r), NEW stage
    PROVE  [r EXCEPT !.stage = stage] = Changed(r, stage, r.got, r.todo, r.trace, r.result)
BY DEF IsCall, Changed

LEMMA AnsweredRecord ==
    ASSUME NEW r, IsCall(r), NEW stage, NEW result
    PROVE  [r EXCEPT !.stage = stage, !.result = result]
              = Changed(r, stage, r.got, r.todo, r.trace, result)
<1> DEFINE staged == Changed(r, stage, r.got, r.todo, r.trace, r.result)
<1>1. [r EXCEPT !.stage = stage] = staged
  BY StagedRecord
<1>2. [staged EXCEPT !.result = result] = Changed(r, stage, r.got, r.todo, r.trace, result)
  BY DEF Changed
<1> HIDE DEF staged
<1> QED
  BY <1>1, <1>2, Zenon

LEMMA HoldingRecord ==
    ASSUME NEW r, IsCall(r), NEW stage, NEW got
    PROVE  [r EXCEPT !.stage = stage, !.got = got]
              = Changed(r, stage, got, r.todo, r.trace, r.result)
<1> DEFINE staged == Changed(r, stage, r.got, r.todo, r.trace, r.result)
<1>1. [r EXCEPT !.stage = stage] = staged
  BY StagedRecord
<1>2. [staged EXCEPT !.got = got] = Changed(r, stage, got, r.todo, r.trace, r.result)
  BY DEF Changed
<1> HIDE DEF staged
<1> QED
  BY <1>1, <1>2, Zenon

LEMMA OfferedRecord ==
    ASSUME NEW r, IsCall(r), NEW stage, NEW todo, NEW trace
    PROVE  [r EXCEPT !.stage = stage, !.todo = todo, !.trace = trace]
              = Changed(r, stage, r.got, todo, trace, r.result)
<1> DEFINE staged == Changed(r, stage, r.got, r.todo, r.trace, r.result)
           filled == Changed(r, stage, r.got, todo, r.trace, r.result)
<1>1. [r EXCEPT !.stage = stage] = staged
  BY StagedRecord
<1>2. [staged EXCEPT !.todo = todo] = filled
  BY DEF Changed
<1>3. [filled EXCEPT !.trace = trace] = Changed(r, stage, r.got, todo, trace, r.result)
  BY DEF Changed
<1> HIDE DEF staged, filled
<1> QED
  BY <1>1, <1>2, <1>3, Zenon

LEMMA AcceptedRecord ==
    ASSUME NEW r, IsCall(r), NEW stage, NEW got, NEW trace
    PROVE  [r EXCEPT !.stage = stage, !.got = got, !.trace = trace]
              = Changed(r, stage, got, r.todo, trace, r.result)
<1> DEFINE holding == Changed(r, stage, got, r.todo, r.trace, r.result)
<1>1. [r EXCEPT !.stage = stage, !.got = got] = holding
  BY HoldingRecord, Zenon
<1>2. [holding EXCEPT !.trace = trace] = Changed(r, stage, got, r.todo, trace, r.result)
  BY DEF Changed
<1> HIDE DEF holding
<1> QED
  BY <1>1, <1>2, Zenon

\* What the fields of a changed call are.
LEMMA ChangedFields ==
    ASSUME NEW r, NEW stage, NEW got, NEW todo, NEW trace, NEW result, NEW new,
           new = Changed(r, stage, got, todo, trace, result)
    PROVE  /\ IsCall(new)
           /\ new.method = r.method /\ new.stage = stage /\ new.arg = r.arg /\ new.got = got
           /\ new.todo = todo /\ new.trace = trace /\ new.from = r.from
           /\ new.result = result
BY DEF Changed, IsCall

\* The call gets the answer, or waits.
LEMMA AnswerChanges ==
    ASSUME RpcInv, NEW c \in Call, NEW result, Answer(c, result)
    PROVE  call' = [call EXCEPT ![c] = Changed(call[c], "answered", call[c].got, call[c].todo,
                                               call[c].trace, result)]
<1>1. call' = [call EXCEPT ![c] = [call[c] EXCEPT !.stage = "answered", !.result = result]]
  BY DEF Answer, RpcInv
<1>2. IsCall(call[c])
  BY DEF RpcInv, GoodCall
<1>3. [call[c] EXCEPT !.stage = "answered", !.result = result]
         = Changed(call[c], "answered", call[c].got, call[c].todo, call[c].trace, result)
  BY <1>2, AnsweredRecord, Zenon
<1> QED
  BY <1>1, <1>3, Zenon

\* The answer of the node itself.
Told(r) == [method |-> r.method, stage |-> r.stage, arg |-> r.arg, got |-> r.got,
            todo |-> r.todo, trace |-> r.trace, from |-> "node", header |-> r.header,
            result |-> r.result]

LEMMA AnswerOfNodeChanges ==
    ASSUME RpcInv, NEW c \in Call, NEW result, AnswerOfNode(c, result)
    PROVE  call' = [call EXCEPT ![c] = Changed(Told(call[c]), "answered", call[c].got,
                                               call[c].todo, call[c].trace, result)]
<1> DEFINE r == call[c]
           staged == Changed(r, "answered", r.got, r.todo, r.trace, r.result)
           told == Changed(Told(r), "answered", r.got, r.todo, r.trace, r.result)
           answered == Changed(Told(r), "answered", r.got, r.todo, r.trace, result)
<1>1. call' = [call EXCEPT ![c] = [r EXCEPT !.stage = "answered", !.from = "node",
                                            !.result = result]]
  BY DEF AnswerOfNode
<1>2. IsCall(r)
  BY DEF RpcInv, GoodCall
<1> HIDE DEF r
<1>3. [r EXCEPT !.stage = "answered"] = staged
  BY <1>2, StagedRecord
<1>4. [staged EXCEPT !.from = "node"] = told
  BY DEF Changed, Told
<1>5. [told EXCEPT !.result = result] = answered
  BY DEF Changed
<1> HIDE DEF staged, told, answered
<1>6. [r EXCEPT !.stage = "answered", !.from = "node", !.result = result] = answered
  BY <1>3, <1>4, <1>5, Zenon
<1> QED
  BY <1>1, <1>6, Zenon DEF answered, r

LEMMA AwaitChanges ==
    ASSUME RpcInv, NEW c \in Call, NEW stage, Await(c, stage)
    PROVE  call' = [call EXCEPT ![c] = Changed(call[c], stage, call[c].got, call[c].todo,
                                               call[c].trace, call[c].result)]
<1>1. call' = [call EXCEPT ![c] = [call[c] EXCEPT !.stage = stage]]
  BY DEF Await, RpcInv
<1>2. IsCall(call[c])
  BY DEF RpcInv, GoodCall
<1> QED
  BY <1>1, <1>2, StagedRecord, Zenon

LEMMA AwaitWithChanges ==
    ASSUME RpcInv, NEW c \in Call, NEW stage, NEW got, AwaitWith(c, stage, got)
    PROVE  call' = [call EXCEPT ![c] = Changed(call[c], stage, got, call[c].todo,
                                               call[c].trace, call[c].result)]
<1>1. call' = [call EXCEPT ![c] = [call[c] EXCEPT !.stage = stage, !.got = got]]
  BY DEF AwaitWith, RpcInv
<1>2. IsCall(call[c])
  BY DEF RpcInv, GoodCall
<1>3. [call[c] EXCEPT !.stage = stage, !.got = got]
         = Changed(call[c], stage, got, call[c].todo, call[c].trace, call[c].result)
  BY <1>2, HoldingRecord, Zenon
<1> QED
  BY <1>1, <1>3, Zenon

\* What is in the channel.
LEMMA QueuedCalls ==
    ASSUME RpcInv
    PROVE  \A i \in DOMAIN queue : queue[i] \in Call /\ call[queue[i]].stage = "queued"
<1>1. queue \in Seq(Call)
  BY DEF RpcInv
<1>2. \A i \in DOMAIN queue : call[queue[i]].stage = "queued"
  BY Zenon DEF RpcInv
<1>3. \A i \in DOMAIN queue : queue[i] \in Call
  BY <1>1
<1> QED
  BY <1>2, <1>3

\* A step of one call that does not wait in the channel.
LEMMA OneCallStep ==
    ASSUME RpcInv, NEW c \in Call, call[c].stage # "queued", NEW r, GoodCall(r),
           call' = [call EXCEPT ![c] = r], table' \in Tables, queue' = queue
    PROVE  RpcInv'
<1>1. call' = [d \in Call |-> IF d = c THEN r ELSE call[d]]
  BY DEF RpcInv
<1>2. call' = [d \in Call |-> call'[d]]
  BY <1>1, Zenon
<1>3. \A d \in Call : GoodCall(call'[d])
  BY <1>1 DEF RpcInv
<1>4. \A i \in DOMAIN queue : queue[i] \in Call /\ queue[i] # c
  <2>1. \A i \in DOMAIN queue : queue[i] \in Call /\ call[queue[i]].stage = "queued"
    BY QueuedCalls
  <2> QED
    BY <2>1
<1>5. \A i \in DOMAIN queue' : call'[queue'[i]].stage = "queued"
  BY <1>1, <1>4, Zenon DEF RpcInv
<1> QED
  BY <1>2, <1>3, <1>5 DEF RpcInv

\* ... and one that puts the call there.
LEMMA ProxyStep ==
    ASSUME RpcInv, NEW c \in Call, call[c].stage # "queued", NEW r, GoodCall(r),
           r.stage = "queued",
           call' = [call EXCEPT ![c] = r], table' = table, queue' = Append(queue, c)
    PROVE  RpcInv'
<1>1. call' = [d \in Call |-> IF d = c THEN r ELSE call[d]]
  BY DEF RpcInv
<1>2. call' = [d \in Call |-> call'[d]]
  BY <1>1, Zenon
<1>3. \A d \in Call : GoodCall(call'[d])
  BY <1>1 DEF RpcInv
<1>4. /\ queue \in Seq(Call) /\ DOMAIN queue = 1..Len(queue) /\ Len(queue) \in Nat
      /\ \A i \in DOMAIN queue : queue[i] \in Call /\ queue[i] # c
  <2>1. \A i \in DOMAIN queue : queue[i] \in Call /\ call[queue[i]].stage = "queued"
    BY QueuedCalls
  <2>2. \A i \in DOMAIN queue : queue[i] \in Call /\ queue[i] # c
    BY <2>1
  <2>3. queue \in Seq(Call)
    BY DEF RpcInv
  <2> QED
    BY <2>2, <2>3
<1>5. /\ queue' \in Seq(Call) /\ DOMAIN queue' = 1..Len(queue) + 1
      /\ queue'[Len(queue) + 1] = c
      /\ \A i \in 1..Len(queue) : queue'[i] = queue[i]
  BY <1>4
<1>6. \A i \in DOMAIN queue' : i \in DOMAIN queue \/ i = Len(queue) + 1
  BY <1>4, <1>5
<1>7. \A i \in DOMAIN queue' : call'[queue'[i]].stage = "queued"
  <2>1. call'[c].stage = "queued"
    BY <1>1
  <2>2. \A i \in DOMAIN queue : call'[queue'[i]].stage = "queued"
    <3>1. \A i \in DOMAIN queue : call[queue[i]].stage = "queued"
      BY Zenon DEF RpcInv
    <3>2. \A i \in DOMAIN queue : queue'[i] = queue[i] /\ call'[queue[i]] = call[queue[i]]
      BY <1>1, <1>4, <1>5
    <3> QED
      BY <3>1, <3>2
  <2> QED
    BY <1>5, <1>6, <2>1, <2>2
<1>8. \A i, j \in DOMAIN queue' : queue'[i] = queue'[j] => i = j
  BY <1>4, <1>5, <1>6 DEF RpcInv
<1> QED
  BY <1>2, <1>3, <1>5, <1>7, <1>8 DEF RpcInv

\* A call of another method, which its task may change as it likes.
LEMMA PlainCall ==
    ASSUME NEW r, GoodCall(r), r.method \notin Watched,
           NEW new, IsCall(new), new.method = r.method, new.arg = r.arg
    PROVE  GoodCall(new)
BY DEF GoodCall, FindContentCall, LookupEnrCall, TraceGossipCall, Watched

-----------------------------------------------------------------------------
(* The recipients of a gossip.                                             *)

\* select_gossip_recipients returns peers, and no more than it is to select.
LEMMA RecipientsFit ==
    ASSUME NEW to \in Recipients
    PROVE  to \in Seq(Peer) /\ Len(to) <= NUM_CLOSEST_NODES + NUM_FARTHER_NODES
<1> DEFINE distance == [n \in Peer |-> n]
<1>1. PICK radius \in [Peer -> 0..MaxRadius] :
         to \in CalculateInterestedEnrs(Connected, distance, radius)
  BY DEF Recipients
<1> DEFINE interested == {n \in Connected : distance[n] < radius[n]}
<1>2. PICK sorted \in SortByDistance(interested, distance) : to \in SelectGossipRecipients(sorted)
  BY <1>1 DEF CalculateInterestedEnrs
<1>3. interested \subseteq Peer
  BY DEF Connected
<1> HIDE DEF interested
<1>4. IsFiniteSet(interested) /\ Cardinality(interested) \in Nat
  BY <1>3, OverlayAssumption, FS_Subset, FS_CardinalityType, Zenon
<1>5. sorted \in [1..Cardinality(interested) -> interested]
  BY <1>2 DEF SortByDistance, Orders, Injection
<1>6. sorted \in Seq(Peer) /\ Len(sorted) \in Nat
  BY <1>3, <1>4, <1>5
<1> DEFINE k == Lesser(NUM_CLOSEST_NODES, Len(sorted))
           closest == SubSeq(sorted, 1, k)
           others == {sorted[i] : i \in NUM_CLOSEST_NODES + 1..Len(sorted)}
<1>7. PICK far \in SelectRandomEnrs(NUM_FARTHER_NODES, others) : to = closest \o far
  BY <1>2, Zenon DEF SelectGossipRecipients
<1>8. k \in 0..Len(sorted) /\ k <= NUM_CLOSEST_NODES
  BY <1>6, GossipAssumption DEF Lesser
<1> HIDE DEF k
<1>9. closest \in Seq(Peer) /\ Len(closest) = k
  BY <1>6, <1>8
<1> HIDE DEF closest
<1>10. others \subseteq Peer
  BY <1>6, GossipAssumption
<1> HIDE DEF others
<1>11. IsFiniteSet(others) /\ Cardinality(others) \in Nat
  BY <1>10, OverlayAssumption, FS_Subset, FS_CardinalityType, Zenon
<1>12. PICK few \in SUBSET others :
          /\ Cardinality(few) = Lesser(NUM_FARTHER_NODES, Cardinality(others))
          /\ far \in [1..Cardinality(few) -> few]
  BY <1>7 DEF SelectRandomEnrs, Orders, Injection
<1>13. Cardinality(few) \in Nat /\ Cardinality(few) <= NUM_FARTHER_NODES
  BY <1>11, <1>12, GossipAssumption DEF Lesser
<1>14. far \in Seq(Peer) /\ Len(far) = Cardinality(few)
  BY <1>10, <1>12, <1>13
<1> QED
  BY <1>7, <1>8, <1>9, <1>13, <1>14, GossipAssumption

\* A report with one of its sets replaced.
LEMMA ReportRecord ==
    ASSUME NEW t, NEW x,
           t = [offered |-> t.offered, accepted |-> t.accepted, transferred |-> t.transferred]
    PROVE  /\ [t EXCEPT !.offered = x]
                 = [offered |-> x, accepted |-> t.accepted, transferred |-> t.transferred]
           /\ [t EXCEPT !.accepted = x]
                 = [offered |-> t.offered, accepted |-> x, transferred |-> t.transferred]
           /\ [t EXCEPT !.transferred = x]
                 = [offered |-> t.offered, accepted |-> t.accepted, transferred |-> x]
<1>1. [t EXCEPT !.offered = x]
         = [offered |-> x, accepted |-> t.accepted, transferred |-> t.transferred]
  OBVIOUS
<1>2. [t EXCEPT !.accepted = x]
         = [offered |-> t.offered, accepted |-> x, transferred |-> t.transferred]
  OBVIOUS
<1>3. [t EXCEPT !.transferred = x]
         = [offered |-> t.offered, accepted |-> t.accepted, transferred |-> x]
  OBVIOUS
<1> QED
  BY <1>1, <1>2, <1>3, Zenon

\* The next offer of a traced gossip, or its report.
LEMMA OfferNextGood ==
    ASSUME RpcInv, NEW c \in Call, call[c].method = "TraceGossip",
           NEW todo, NEW trace, Offerable(todo, trace, 0), OfferNext(c, todo, trace)
    PROVE  \E r : GoodCall(r) /\ call' = [call EXCEPT ![c] = r]
<1>1. GoodCall(call[c]) /\ IsCall(call[c])
  BY DEF RpcInv, GoodCall
<1>2. CASE todo = <<>> \/ ~service
  <2> DEFINE r == Changed(call[c], "answered", call[c].got, call[c].todo, call[c].trace, trace)
  <2>1. call' = [call EXCEPT ![c] = r]
    BY <1>2, AnswerChanges DEF OfferNext
  <2>2. IsCall(r) /\ r.method = "TraceGossip" /\ r.stage = "answered" /\ r.result = trace
    BY ChangedFields
  <2> HIDE DEF r
  <2>3. Offerable(<<>>, trace, 0)
    <3>1. Cardinality(trace.offered) \in Nat
      BY OverlayAssumption, FS_Subset, FS_CardinalityType, Zenon DEF Offerable, Consistent
    <3>2. Len(todo) \in Nat /\ Len(<<>>) = 0 /\ <<>> \in Seq(Peer)
      BY DEF Offerable
    <3>3. Cardinality(trace.offered) + Len(<<>>) <= NUM_CLOSEST_NODES + NUM_FARTHER_NODES + 0
      BY <3>1, <3>2, GossipAssumption DEF Offerable
    <3> QED
      BY <3>2, <3>3, Zenon DEF Offerable
  <2>4. GoodCall(r)
    BY <2>2, <2>3 DEF GoodCall, FindContentCall, LookupEnrCall, TraceGossipCall, Answered
  <2> QED
    BY <2>1, <2>4, Zenon
<1>3. CASE ~(todo = <<>> \/ ~service)
  <2> DEFINE more == [trace EXCEPT !.offered = @ \cup {Head(todo)}]
             r == Changed(call[c], "gossip_offer", call[c].got, todo, more, call[c].result)
  <2>1. call' = [call EXCEPT ![c] = [call[c] EXCEPT !.stage = "gossip_offer", !.todo = todo,
                                                   !.trace = more]]
    BY <1>3 DEF OfferNext
  <2>2. more = [offered |-> trace.offered \cup {Head(todo)}, accepted |-> trace.accepted,
                transferred |-> trace.transferred]
    BY ReportRecord, Zenon DEF Offerable
  <2> HIDE DEF more
  <2>3. [call[c] EXCEPT !.stage = "gossip_offer", !.todo = todo, !.trace = more] = r
    BY <1>1, OfferedRecord, Zenon
  <2>4. /\ IsCall(r) /\ r.method = "TraceGossip" /\ r.stage = "gossip_offer"
        /\ r.todo = todo /\ r.trace = more
    BY ChangedFields
  <2> HIDE DEF r
  <2>5. /\ more.offered = trace.offered \cup {Head(todo)} /\ more.accepted = trace.accepted
        /\ more.transferred = trace.transferred
        /\ more = [offered |-> more.offered, accepted |-> more.accepted,
                   transferred |-> more.transferred]
    BY <2>2
  <2>6. Head(todo) \in Peer /\ todo \in Seq(Peer) /\ Len(todo) \in Nat
    BY <1>3 DEF Offerable
  <2>7. Consistent(more)
    BY <2>5, <2>6 DEF Offerable, Consistent
  <2>8. /\ Cardinality(more.offered) <= Cardinality(trace.offered) + 1
        /\ Cardinality(more.offered) \in Nat /\ Cardinality(trace.offered) \in Nat
    <3>1. trace.offered \subseteq Peer
      BY DEF Offerable, Consistent
    <3>2. IsFiniteSet(trace.offered)
      BY <3>1, OverlayAssumption, FS_Subset
    <3>3. Cardinality(trace.offered) \in Nat
      BY <3>2, FS_CardinalityType
    <3>4. /\ IsFiniteSet(more.offered)
          /\ \/ Cardinality(more.offered) = Cardinality(trace.offered)
             \/ Cardinality(more.offered) = Cardinality(trace.offered) + 1
      BY <2>5, <3>2, FS_AddElement, ZenonT(30)
    <3> QED
      BY <3>3, <3>4
  <2>9. Offerable(todo, more, 1)
    <3>1. Cardinality(more.offered) + Len(todo) <= NUM_CLOSEST_NODES + NUM_FARTHER_NODES + 1
      BY <2>6, <2>8, GossipAssumption DEF Offerable
    <3> QED
      BY <2>5, <2>6, <2>7, <3>1 DEF Offerable
  <2>10. GoodCall(r)
    <3>1. Head(todo) \in more.offered
      BY <2>5
    <3> QED
      BY <1>3, <2>4, <2>9, <3>1
         DEF GoodCall, FindContentCall, LookupEnrCall, TraceGossipCall, Answered
  <2> QED
    BY <2>1, <2>3, <2>10, Zenon
<1> QED
  BY <1>2, <1>3
-----------------------------------------------------------------------------
(* The task of a call.                                                     *)

\* The step changes what a task may change of its call, and no other call.
TaskChanges(c) ==
    \E r : /\ call' = [call EXCEPT ![c] = r]
           /\ IsCall(r) /\ r.method = call[c].method /\ r.arg = call[c].arg

LEMMA ChangedIsTask ==
    ASSUME NEW c, NEW stage, NEW got, NEW todo, NEW trace, NEW result,
           call' = [call EXCEPT ![c] = Changed(call[c], stage, got, todo, trace, result)]
    PROVE  TaskChanges(c)
<1> DEFINE r == Changed(call[c], stage, got, todo, trace, result)
<1>1. IsCall(r) /\ r.method = call[c].method /\ r.arg = call[c].arg
  BY ChangedFields
<1>2. call' = [call EXCEPT ![c] = r]
  OBVIOUS
<1> HIDE DEF r
<1> QED
  BY <1>1, <1>2, Zenon DEF TaskChanges

LEMMA PartsChange ==
    ASSUME RpcInv, NEW c \in Call
    PROVE  /\ \A result : Answer(c, result) => TaskChanges(c)
           /\ \A result : AnswerOfNode(c, result) => TaskChanges(c)
           /\ \A stage : Await(c, stage) => TaskChanges(c)
           /\ \A stage, got : AwaitWith(c, stage, got) => TaskChanges(c)
           /\ \A todo, trace : OfferNext(c, todo, trace) => TaskChanges(c)
           /\ \A found, enrs : ConcludeLookup(c, found, enrs) => TaskChanges(c)
           /\ \A found : LookupNodeOfEnr(c, found) => TaskChanges(c)
<1>1. ASSUME NEW result, Answer(c, result)
      PROVE  TaskChanges(c)
  BY <1>1, AnswerChanges, ChangedIsTask
<1>2. ASSUME NEW stage, Await(c, stage)
      PROVE  TaskChanges(c)
  BY <1>2, AwaitChanges, ChangedIsTask
<1>3. ASSUME NEW stage, NEW got, AwaitWith(c, stage, got)
      PROVE  TaskChanges(c)
  BY <1>3, AwaitWithChanges, ChangedIsTask
<1>4. ASSUME NEW todo, NEW trace, OfferNext(c, todo, trace)
      PROVE  TaskChanges(c)
  <2>1. CASE todo = <<>> \/ ~service
    BY <1>1, <1>4, <2>1 DEF OfferNext
  <2>2. CASE ~(todo = <<>> \/ ~service)
    <3> DEFINE more == [trace EXCEPT !.offered = @ \cup {Head(todo)}]
               r == Changed(call[c], "gossip_offer", call[c].got, todo, more, call[c].result)
    <3>1. call' = [call EXCEPT ![c] = [call[c] EXCEPT !.stage = "gossip_offer", !.todo = todo,
                                                     !.trace = more]]
      BY <1>4, <2>2 DEF OfferNext
    <3>2. IsCall(call[c])
      BY DEF RpcInv, GoodCall
    <3> HIDE DEF more
    <3>3. [call[c] EXCEPT !.stage = "gossip_offer", !.todo = todo, !.trace = more] = r
      BY <3>2, OfferedRecord, Zenon
    <3>4. call' = [call EXCEPT ![c] = r]
      BY <3>1, <3>3, Zenon
    <3> QED
      BY <3>4, ChangedIsTask, Zenon
  <2> QED
    BY <2>1, <2>2
<1>5. \A found, enrs : ConcludeLookup(c, found, enrs) => TaskChanges(c)
  BY <1>1 DEF ConcludeLookup
<1>6. \A found : LookupNodeOfEnr(c, found) => TaskChanges(c)
  BY <1>3, <1>5 DEF LookupNodeOfEnr
<1>7. ASSUME NEW result, AnswerOfNode(c, result)
      PROVE  TaskChanges(c)
  <2> DEFINE r == Changed(Told(call[c]), "answered", call[c].got, call[c].todo, call[c].trace,
                          result)
  <2>1. call' = [call EXCEPT ![c] = r]
    BY <1>7, AnswerOfNodeChanges
  <2>2. IsCall(r) /\ r.method = Told(call[c]).method /\ r.arg = Told(call[c]).arg
    BY ChangedFields
  <2>3. Told(call[c]).method = call[c].method /\ Told(call[c]).arg = call[c].arg
    BY DEF Told
  <2> HIDE DEF r
  <2> QED
    BY <2>1, <2>2, <2>3, Zenon DEF TaskChanges
<1> QED
  BY <1>1, <1>2, <1>3, <1>4, <1>5, <1>6, <1>7

LEMMA EndpointChanges ==
    ASSUME RpcInv, NEW c \in Call, PeerEndpoint(c) \/ ContentEndpoint(c)
    PROVE  TaskChanges(c) /\ table' \in Tables
<1>1. ASSUME AddEnr(c), call[c].method = "AddEnr"
      PROVE  TaskChanges(c) /\ table' \in Tables
  <2>1. call[c].arg.enr \in Enr /\ table \in Tables
    BY <1>1 DEF RpcInv, GoodCall
  <2>2. \/ UNCHANGED table
        \/ table' = [table EXCEPT ![call[c].arg.enr.id] =
                                     [seq |-> call[c].arg.enr.seq, connected |-> TRUE]]
    BY <1>1, Zenon DEF AddEnr
  <2>3. [seq |-> call[c].arg.enr.seq, connected |-> TRUE] \in [seq : 1..MaxSeq, connected : BOOLEAN]
    BY <2>1 DEF Enr
  <2>4. table' \in Tables
    BY <2>1, <2>2, <2>3, Zenon DEF Tables
  <2> QED
    BY <1>1, <2>4, PartsChange, Zenon DEF AddEnr
<1>2. ASSUME DeleteEnr(c)
      PROVE  TaskChanges(c) /\ table' \in Tables
  <2>1. table' = table \/ table' = [table EXCEPT ![call[c].arg.node] = NoEntry]
    BY <1>2 DEF DeleteEnr
  <2>2. table' \in Tables
    BY <2>1 DEF RpcInv, Tables
  <2> QED
    BY <1>2, <2>2, PartsChange DEF DeleteEnr
<1>3. UNCHANGED table => table' \in Tables
  BY DEF RpcInv
<1>4. ASSUME GetEnr(c) \/ LookupEnr(c) \/ LookupNode(c) \/ SendPing(c) \/ SendFindNodes(c)
             \/ Answer(c, "radius") \/ Answer(c, table)
      PROVE  TaskChanges(c)
  BY <1>4, PartsChange DEF GetEnr, LookupEnr, LookupNode, SendPing, SendFindNodes
<1>5. ASSUME Store(c) \/ LocalContent(c) \/ PaginateLocalContentKeys(c) \/ SendFindContent(c)
             \/ SendOffer(c)
      PROVE  TaskChanges(c)
  BY <1>5, PartsChange, Zenon
     DEF Store, LocalContent, PaginateLocalContentKeys, SendFindContent, SendOffer
<1>6. ASSUME PropagateGossip(c) \/ PropagateGossipTrace(c) \/ RecursiveFindContent(c)
      PROVE  TaskChanges(c)
  BY <1>6, PartsChange DEF PropagateGossip, PropagateGossipTrace, RecursiveFindContent,
     ContentResult, LookupContent
<1>7. CASE PeerEndpoint(c)
  <2>1. ASSUME GetEnr(c)
        PROVE  table' \in Tables
    BY <1>3, <2>1 DEF GetEnr
  <2> QED
    BY <1>1, <1>2, <1>3, <1>4, <1>7, <2>1 DEF PeerEndpoint
<1>8. CASE ContentEndpoint(c)
  BY <1>3, <1>5, <1>6, <1>8 DEF ContentEndpoint
<1> QED
  BY <1>7, <1>8

\* The report once a peer has answered the offer.
Took(trace, todo, reply) ==
    [trace EXCEPT !.accepted = @ \cup (IF reply THEN {Head(todo)} ELSE {})]

\* What the answer to an offer changes.
LEMMA AcceptChanges ==
    ASSUME RpcInv, NEW c \in Call, GossipAnswered(c)
    PROVE  \/ OfferNext(c, Tail(call[c].todo), call[c].trace)
           \/ \E reply \in BOOLEAN :
                 call' = [call EXCEPT ![c] =
                             Changed(call[c], "gossip_result", reply, call[c].todo,
                                     Took(call[c].trace, call[c].todo, reply), call[c].result)]
<1>1. PICK reply \in BOOLEAN \cup {Failed} :
         IF reply = Failed
         THEN OfferNext(c, Tail(call[c].todo), call[c].trace)
         ELSE call' = [call EXCEPT ![c] = [@ EXCEPT
                  !.stage = "gossip_result", !.got = reply,
                  !.trace = Took(call[c].trace, call[c].todo, reply)]]
  BY Zenon DEF GossipAnswered, Replies, Took
<1>2. CASE reply = Failed
  BY <1>1, <1>2
<1>3. CASE reply # Failed
  <2> DEFINE trace == Took(call[c].trace, call[c].todo, reply)
             r == Changed(call[c], "gossip_result", reply, call[c].todo, trace, call[c].result)
  <2>1. call' = [call EXCEPT ![c] = [call[c] EXCEPT !.stage = "gossip_result", !.got = reply,
                                                   !.trace = trace]]
    BY <1>1, <1>3
  <2>2. IsCall(call[c])
    BY DEF RpcInv, GoodCall
  <2> HIDE DEF trace
  <2>3. [call[c] EXCEPT !.stage = "gossip_result", !.got = reply, !.trace = trace] = r
    BY <2>2, AcceptedRecord, Zenon
  <2>4. call' = [call EXCEPT ![c] = r]
    BY <2>1, <2>3, Zenon
  <2>5. reply \in BOOLEAN
    BY <1>3
  <2> QED
    BY <2>4, <2>5, Zenon DEF trace
<1> QED
  BY <1>2, <1>3

LEMMA ResumeChanges ==
    ASSUME RpcInv, NEW c \in Call, Resume(c)
    PROVE  TaskChanges(c)
<1>1. ASSUME ReceivePong(c) \/ ReceiveNodes(c) \/ ReceiveAccept(c) \/ ReceiveContent(c)
      PROVE  TaskChanges(c)
  BY <1>1, PartsChange, Zenon DEF ReceivePong, ReceiveNodes, ReceiveAccept, ReceiveContent
<1>2. ASSUME InitFindContentStream(c) \/ ValidateContent(c)
      PROVE  TaskChanges(c)
  BY <1>2, PartsChange DEF InitFindContentStream, ValidateContent
<1>3. ASSUME ReceiveOwnEnr(c) \/ ReceiveLookup(c) \/ ReceiveQueryNodes(c)
             \/ ReceiveQueryContent(c)
      PROVE  TaskChanges(c)
  BY <1>3, PartsChange, Zenon
     DEF ReceiveOwnEnr, ReceiveLookup, ReceiveQueryNodes, ReceiveQueryContent,
     ContentResult
<1>4. ASSUME GossipAnswered(c)
      PROVE  TaskChanges(c)
  BY <1>4, AcceptChanges, PartsChange, ChangedIsTask, Zenon
<1>5. ASSUME GossipTransferred(c)
      PROVE  TaskChanges(c)
  BY <1>5, PartsChange DEF GossipTransferred
<1> QED
  BY <1>1, <1>2, <1>3, <1>4, <1>5 DEF Resume
\* The call is good after its step, and the step is of this call only.
GoodStep(c) == \E r : GoodCall(r) /\ call' = [call EXCEPT ![c] = r]

\* FindContent: what the validator has not accepted is never the answer.
LEMMA FindContentGood ==
    ASSUME RpcInv, NEW c \in Call, call[c].method = "FindContent",
           \/ call[c].stage = "spawned" /\ SendFindContent(c)
           \/ ReceiveContent(c) \/ InitFindContentStream(c) \/ ValidateContent(c)
    PROVE  GoodStep(c)
<1>1. ASSUME NEW stage \in {"find_content", "stream"}, Await(c, stage)
      PROVE  GoodStep(c)
  <2> DEFINE r == Changed(call[c], stage, call[c].got, call[c].todo, call[c].trace, call[c].result)
  <2>1. call' = [call EXCEPT ![c] = r]
    BY <1>1, AwaitChanges
  <2>2. IsCall(r) /\ r.method = "FindContent" /\ r.stage = stage
    BY ChangedFields
  <2> HIDE DEF r
  <2>3. GoodCall(r)
    BY <2>2 DEF GoodCall, FindContentCall, LookupEnrCall, TraceGossipCall, Answered
  <2> QED
    BY <2>1, <2>3, Zenon DEF GoodStep
<1>2. ASSUME NEW got, AwaitWith(c, "validate", got)
      PROVE  GoodStep(c)
  <2> DEFINE r == Changed(call[c], "validate", got, call[c].todo, call[c].trace, call[c].result)
  <2>1. call' = [call EXCEPT ![c] = r]
    BY <1>2, AwaitWithChanges, Zenon
  <2>2. IsCall(r) /\ r.method = "FindContent" /\ r.stage = "validate"
    BY ChangedFields
  <2> HIDE DEF r
  <2>3. GoodCall(r)
    BY <2>2 DEF GoodCall, FindContentCall, LookupEnrCall, TraceGossipCall, Answered
  <2> QED
    BY <2>1, <2>3, Zenon DEF GoodStep
<1>3. ASSUME NEW result, Answer(c, result), result = Failed \/ result.content \in {"valid", "enrs"}
      PROVE  GoodStep(c)
  <2> DEFINE r == Changed(call[c], "answered", call[c].got, call[c].todo, call[c].trace, result)
  <2>1. call' = [call EXCEPT ![c] = r]
    BY <1>3, AnswerChanges, Zenon
  <2>2. IsCall(r) /\ r.method = "FindContent" /\ r.stage = "answered" /\ r.result = result
    BY ChangedFields
  <2> HIDE DEF r
  <2>3. GoodCall(r)
    BY <1>3, <2>2 DEF GoodCall, FindContentCall, LookupEnrCall, TraceGossipCall, Answered
  <2> QED
    BY <2>1, <2>3, Zenon DEF GoodStep
<1>4. CASE SendFindContent(c)
  BY <1>1, <1>4 DEF SendFindContent
<1>5. CASE ReceiveContent(c)
  <2>1. PICK reply : CASE reply \in {"valid", "invalid"} ->
                            AwaitWith(c, "validate", [content |-> reply, utp |-> FALSE])
                      [] reply = "connection_id" -> Await(c, "stream")
                      [] reply = "enrs" -> Answer(c, [content |-> "enrs", utp |-> FALSE])
                      [] OTHER -> Answer(c, Failed)
    BY <1>5, Zenon DEF ReceiveContent
  <2>2. \/ AwaitWith(c, "validate", [content |-> reply, utp |-> FALSE])
        \/ Await(c, "stream")
        \/ Answer(c, [content |-> "enrs", utp |-> FALSE])
        \/ Answer(c, Failed)
    BY <2>1
  <2>3. [content |-> "enrs", utp |-> FALSE].content = "enrs"
    OBVIOUS
  <2> QED
    BY <1>1, <1>2, <1>3, <2>2, <2>3
<1>6. CASE InitFindContentStream(c)
  BY <1>2, <1>3, <1>6 DEF InitFindContentStream
<1>7. CASE ValidateContent(c)
  BY <1>3, <1>7 DEF ValidateContent
<1> QED
  BY <1>4, <1>5, <1>6, <1>7

\* The end of lookup_enr takes what was looked up only if it is newer.
LEMMA ConcludeLookupGood ==
    ASSUME RpcInv, NEW c \in Call, call[c].method = "LookupEnr",
           NEW found \in Enr \cup {Failed}, call[c].got = found \/ call[c].got \in {None, Failed},
           NEW result, Answer(c, result),
           found \in Enr => result \in Enr /\ result.seq >= found.seq
    PROVE  GoodStep(c)
<1> DEFINE r == Changed(call[c], "answered", call[c].got, call[c].todo, call[c].trace, result)
<1>1. call' = [call EXCEPT ![c] = r]
  BY AnswerChanges
<1>2. /\ IsCall(r) /\ r.method = "LookupEnr" /\ r.stage = "answered" /\ r.result = result
      /\ r.got = call[c].got /\ r.arg = call[c].arg
  BY ChangedFields
<1> HIDE DEF r
<1>3. call[c].arg.node \in Node
  BY DEF RpcInv, GoodCall, LookupEnrCall
<1>4. \/ call[c].got \in {None, Failed}
      \/ call[c].got \in Enr /\ result \in Enr /\ result.seq >= call[c].got.seq
  OBVIOUS
<1>5. GoodCall(r)
  BY <1>2, <1>3, <1>4 DEF GoodCall, FindContentCall, LookupEnrCall, TraceGossipCall, Answered
<1> QED
  BY <1>1, <1>5, Zenon DEF GoodStep

\* A lookup that waits for the peer or for the query.
LEMMA LookupWaitsGood ==
    ASSUME RpcInv, NEW c \in Call, call[c].method = "LookupEnr",
           NEW stage, NEW got, AwaitWith(c, stage, got),
           \/ stage = "lookup_nodes" /\ got \in Enr
           \/ stage = "lookup_query" /\ got \in Enr \cup {Failed}
    PROVE  GoodStep(c)
<1> DEFINE r == Changed(call[c], stage, got, call[c].todo, call[c].trace, call[c].result)
<1>1. call' = [call EXCEPT ![c] = r]
  BY AwaitWithChanges
<1>2. /\ IsCall(r) /\ r.method = "LookupEnr" /\ r.stage = stage
      /\ r.got = got /\ r.arg = call[c].arg
  BY ChangedFields
<1> HIDE DEF r
<1>3. call[c].arg.node \in Node
  BY DEF RpcInv, GoodCall, LookupEnrCall
<1>4. GoodCall(r)
  BY <1>2, <1>3 DEF GoodCall, FindContentCall, LookupEnrCall, TraceGossipCall, Answered
<1> QED
  BY <1>1, <1>4, Zenon DEF GoodStep
LEMMA LookupEnds ==
    ASSUME RpcInv, NEW c \in Call, call[c].method = "LookupEnr",
           NEW found \in Enr \cup {Failed}, call[c].got = found \/ call[c].got \in {None, Failed},
           NEW enrs \in SUBSET Enr, ConcludeLookup(c, found, enrs)
    PROVE  GoodStep(c)
<1>1. PICK result : /\ Answer(c, result)
                    /\ \/ result = found
                       \/ /\ result \in enrs
                          /\ result.seq > (IF found = Failed THEN 0 ELSE found.seq)
  BY DEF ConcludeLookup, NewestOf
<1>2. ASSUME found \in Enr
      PROVE  result \in Enr /\ result.seq >= found.seq
  BY <1>1, <1>2, OverlayAssumption DEF Enr
<1> QED
  BY <1>1, <1>2, ConcludeLookupGood

LEMMA LookupGoesOn ==
    ASSUME RpcInv, NEW c \in Call, call[c].method = "LookupEnr",
           NEW found \in Enr \cup {Failed}, call[c].got = found \/ call[c].got \in {None, Failed},
           LookupNodeOfEnr(c, found)
    PROVE  GoodStep(c)
<1>1. call[c].arg.node \in Node
  BY DEF RpcInv, GoodCall, LookupEnrCall
<1>2. \A enrs \in LookupNodeAtOnce(call[c].arg.node) : enrs \in SUBSET Enr
  BY <1>1, OverlayAssumption DEF LookupNodeAtOnce, Latest, Enr, Node
<1>3. CASE AwaitWith(c, "lookup_query", found)
  BY <1>3, LookupWaitsGood
<1>4. CASE \E enrs \in LookupNodeAtOnce(call[c].arg.node) : ConcludeLookup(c, found, enrs)
  BY <1>2, <1>4, LookupEnds
<1> QED
  BY <1>3, <1>4 DEF LookupNodeOfEnr

\* What the node itself answers is taken as it is.
LEMMA LookupToldGood ==
    ASSUME RpcInv, NEW c \in Call, call[c].method = "LookupEnr", call[c].got \in Enr,
           NEW result \in Enr, AnswerOfNode(c, result)
    PROVE  GoodStep(c)
<1> DEFINE told == Told(call[c])
           r == Changed(told, "answered", call[c].got, call[c].todo, call[c].trace, result)
<1>1. call' = [call EXCEPT ![c] = r]
  BY AnswerOfNodeChanges
<1>2. told.method = "LookupEnr" /\ told.arg = call[c].arg /\ told.from = "node"
  BY DEF Told
<1> HIDE DEF told
<1>3. /\ IsCall(r) /\ r.method = told.method /\ r.stage = "answered" /\ r.result = result
      /\ r.got = call[c].got /\ r.arg = told.arg /\ r.from = told.from
  BY ChangedFields
<1> HIDE DEF r
<1>4. call[c].arg.node \in Node
  BY DEF RpcInv, GoodCall, LookupEnrCall
<1>5. GoodCall(r)
  BY <1>2, <1>3, <1>4 DEF GoodCall, FindContentCall, LookupEnrCall, TraceGossipCall, Answered
<1> QED
  BY <1>1, <1>5, Zenon DEF GoodStep

\* LookupEnr: only the node's own answer can be older than what the table had at first.
LEMMA LookupEnrGood ==
    ASSUME RpcInv, NEW c \in Call, call[c].method = "LookupEnr",
           \/ call[c].stage = "spawned" /\ LookupEnr(c)
           \/ ReceiveOwnEnr(c) \/ ReceiveLookup(c)
    PROVE  GoodStep(c)
<1>1. LookupEnrCall(call[c]) /\ table \in Tables
  BY DEF RpcInv, GoodCall
<1>2. call[c].arg.node \in Node
  BY <1>1, Zenon DEF LookupEnrCall
<1>3. CASE call[c].stage = "spawned" /\ LookupEnr(c)
  <2>1. call[c].got = None
    BY <1>1, <1>3 DEF LookupEnrCall
  <2>2. CASE Answer(c, Latest(Local))
    BY <2>1, <2>2, OverlayAssumption, ConcludeLookupGood
  <2>3. CASE /\ call[c].arg.node # Local /\ table[call[c].arg.node] # NoEntry
             /\ AwaitWith(c, "lookup_nodes", TableEnr(call[c].arg.node))
    <3>1. table[call[c].arg.node].seq \in 1..MaxSeq
      BY <1>1, <1>2, <2>3, Zenon DEF Tables, Node
    <3>2. TableEnr(call[c].arg.node) \in Enr
      BY <1>2, <2>3, <3>1 DEF TableEnr, Enr
    <3> QED
      BY <2>3, <3>2, LookupWaitsGood, Zenon
  <2>4. CASE LookupNodeOfEnr(c, Failed)
    BY <2>1, <2>4, LookupGoesOn
  <2> QED
    BY <1>3, <2>2, <2>3, <2>4 DEF LookupEnr
<1>4. CASE ReceiveOwnEnr(c)
  <2>1. call[c].got \in Enr
    BY <1>1, <1>4 DEF LookupEnrCall, ReceiveOwnEnr
  <2>2. CASE LookupNodeOfEnr(c, call[c].got)
    BY <2>1, <2>2, LookupGoesOn
  <2>3. CASE \E reply \in EnrLists : \E newest \in NewestOf(reply) : AnswerOfNode(c, newest)
    <3>1. PICK newest \in Enr : AnswerOfNode(c, newest)
      BY <2>3, Zenon DEF NewestOf, EnrLists
    <3> QED
      BY <2>1, <3>1, LookupToldGood
  <2> QED
    BY <1>4, <2>2, <2>3, Zenon DEF ReceiveOwnEnr, Replies
<1>5. CASE ReceiveLookup(c)
  <2>1. call[c].got \in Enr \cup {Failed}
    BY <1>1, <1>5 DEF LookupEnrCall, ReceiveLookup
  <2>2. PICK enrs \in SUBSET Enr : ConcludeLookup(c, call[c].got, enrs)
    BY <1>5 DEF ReceiveLookup, Replies, EnrLists
  <2> QED
    BY <2>1, <2>2, LookupEnds
<1> QED
  BY <1>3, <1>4, <1>5

\* TraceGossip: the report stays consistent, and there is room for who is left.
LEMMA TraceGossipGood ==
    ASSUME RpcInv, NEW c \in Call, call[c].method = "TraceGossip",
           \/ PropagateGossipTrace(c) \/ GossipAnswered(c) \/ GossipTransferred(c)
    PROVE  GoodStep(c)
<1> DEFINE todo == call[c].todo
           trace == call[c].trace
<1>1. TraceGossipCall(call[c])
  BY DEF RpcInv, GoodCall
<1>2. ASSUME NEW list, NEW report, Offerable(list, report, 0), OfferNext(c, list, report)
      PROVE  GoodStep(c)
  BY <1>2, OfferNextGood DEF GoodStep
<1>3. ASSUME NEW report, Offerable(todo, report, 1), todo # <<>>
      PROVE  Offerable(Tail(todo), report, 0)
  <2>1. todo \in Seq(Peer)
    BY <1>3 DEF Offerable
  <2>2. Tail(todo) \in Seq(Peer) /\ Len(Tail(todo)) = Len(todo) - 1 /\ Len(todo) \in Nat
    BY <1>3, <2>1
  <2>3. Cardinality(report.offered) \in Nat
    BY <1>3, OverlayAssumption, FS_Subset, FS_CardinalityType DEF Offerable, Consistent
  <2>4. Cardinality(report.offered) + Len(todo) <= NUM_CLOSEST_NODES + NUM_FARTHER_NODES + 1
    BY <1>3 DEF Offerable
  <2>5. Cardinality(report.offered) + Len(Tail(todo)) <= NUM_CLOSEST_NODES + NUM_FARTHER_NODES + 0
    BY <2>2, <2>3, <2>4, GossipAssumption
  <2> QED
    BY <1>3, <2>2, <2>5 DEF Offerable
<1>4. CASE PropagateGossipTrace(c)
  <2>1. PICK to \in Recipients : OfferNext(c, to, NoTrace)
    BY <1>4 DEF PropagateGossipTrace
  <2>2. to \in Seq(Peer) /\ Len(to) <= NUM_CLOSEST_NODES + NUM_FARTHER_NODES
    BY RecipientsFit
  <2>3. Cardinality({}) = 0
    BY FS_EmptySet
  <2>4. Offerable(to, NoTrace, 0)
    BY <2>2, <2>3, GossipAssumption DEF Offerable, NoTrace, Consistent
  <2> QED
    BY <1>2, <2>1, <2>4
<1>5. CASE GossipAnswered(c)
  <2>1. /\ Offerable(todo, trace, 1) /\ todo # <<>> /\ Head(todo) \in trace.offered
    BY <1>1, <1>5, Zenon DEF TraceGossipCall, GossipAnswered
  <2>2. CASE OfferNext(c, Tail(todo), trace)
    BY <1>2, <1>3, <2>1, <2>2
  <2>3. CASE \E reply \in BOOLEAN :
                call' = [call EXCEPT ![c] = Changed(call[c], "gossip_result", reply, todo,
                                               Took(trace, todo, reply), call[c].result)]
    <3>1. PICK reply \in BOOLEAN :
             call' = [call EXCEPT ![c] = Changed(call[c], "gossip_result", reply, todo,
                                                 Took(trace, todo, reply), call[c].result)]
      BY <2>3, Zenon
    <3> DEFINE more == Took(trace, todo, reply)
               r == Changed(call[c], "gossip_result", reply, todo, more, call[c].result)
    <3>2. more = [offered |-> trace.offered,
                  accepted |-> trace.accepted \cup (IF reply THEN {Head(todo)} ELSE {}),
                  transferred |-> trace.transferred]
      BY <2>1, ReportRecord, Zenon DEF Took, Offerable
    <3>3. call' = [call EXCEPT ![c] = r]
      BY <3>1, Zenon
    <3> HIDE DEF more
    <3>4. /\ IsCall(r) /\ r.method = "TraceGossip" /\ r.stage = "gossip_result"
          /\ r.todo = todo /\ r.trace = more /\ r.got = reply
      BY ChangedFields, SMTT(20)
    <3> HIDE DEF r
    <3>5. Offerable(todo, more, 1)
      BY <2>1, <3>2, Zenon DEF Offerable, Consistent
    <3>6. Head(todo) \in more.offered /\ (reply => Head(todo) \in more.accepted)
      BY <2>1, <3>2, Zenon
    <3> HIDE DEF todo
    <3>7. GoodCall(r)
      BY <2>1, <3>4, <3>5, <3>6, Zenon
         DEF GoodCall, FindContentCall, LookupEnrCall, TraceGossipCall, Answered
    <3> QED
      BY <3>3, <3>7, Zenon DEF GoodStep
  <2> QED
    BY <1>5, <2>2, <2>3, AcceptChanges
<1>6. CASE GossipTransferred(c)
  <2>1. /\ Offerable(todo, trace, 1) /\ todo # <<>> /\ Head(todo) \in trace.offered
        /\ call[c].got \in BOOLEAN /\ (call[c].got => Head(todo) \in trace.accepted)
    BY <1>1, <1>6 DEF TraceGossipCall, GossipTransferred
  <2>2. PICK success \in BOOLEAN :
           /\ success => call[c].got
           /\ OfferNext(c, Tail(todo), [trace EXCEPT !.transferred =
                                           IF success THEN @ \cup {Head(todo)} ELSE @])
    BY <1>6, <2>1, Zenon DEF GossipTransferred
  <2> DEFINE more == [trace EXCEPT !.transferred = IF success THEN @ \cup {Head(todo)} ELSE @]
  <2>3. more = [offered |-> trace.offered, accepted |-> trace.accepted,
                transferred |-> IF success THEN trace.transferred \cup {Head(todo)}
                                           ELSE trace.transferred]
    BY <2>1, ReportRecord, Zenon DEF Offerable
  <2>4. OfferNext(c, Tail(todo), more)
    BY <2>2, Zenon
  <2> HIDE DEF more
  <2>5. Offerable(todo, more, 1)
    BY <2>1, <2>2, <2>3 DEF Offerable, Consistent
  <2> QED
    BY <1>2, <1>3, <2>1, <2>4, <2>5, Zenon
<1> QED
  BY <1>4, <1>5, <1>6
\* A call of a method that is not watched.
LEMMA PlainGood ==
    ASSUME RpcInv, NEW c \in Call, call[c].method \notin Watched, TaskChanges(c)
    PROVE  GoodStep(c)
<1>1. GoodCall(call[c])
  BY DEF RpcInv
<1>2. PICK r : /\ call' = [call EXCEPT ![c] = r]
               /\ IsCall(r) /\ r.method = call[c].method /\ r.arg = call[c].arg
  BY Zenon DEF TaskChanges
<1>3. GoodCall(r)
  BY <1>1, <1>2, PlainCall
<1> QED
  BY <1>2, <1>3, Zenon DEF GoodStep

\* The steps of a call's task, by its method.
LEMMA TaskKeepsInv ==
    ASSUME RpcInv, NEW c \in Call, Task(c)
    PROVE  RpcInv'
<1>1. \/ call[c].stage = "spawned" /\ (PeerEndpoint(c) \/ ContentEndpoint(c))
      \/ Resume(c) /\ UNCHANGED table
  BY DEF Task, CompleteRequest, CompleteBeaconRequest, BeaconPeerEndpoint, BeaconContentEndpoint
<1>2. TaskChanges(c) /\ table' \in Tables
  BY <1>1, EndpointChanges, ResumeChanges, Zenon DEF RpcInv
<1>3. call[c].stage # "queued"
  BY <1>1, Zenon DEF Resume, ReceivePong, ReceiveNodes, ReceiveAccept, ReceiveContent,
     InitFindContentStream, ValidateContent, ReceiveOwnEnr, ReceiveLookup, ReceiveQueryNodes,
     ReceiveQueryContent, GossipAnswered, GossipTransferred
<1>4. GoodCall(call[c])
  BY DEF RpcInv
<1>5. ASSUME call[c].method = "FindContent"
      PROVE  GoodStep(c)
  <2>1. CASE Resume(c)
    <3>1. ReceiveContent(c) \/ InitFindContentStream(c) \/ ValidateContent(c)
      BY <1>4, <1>5, <2>1, Zenon DEF GoodCall, FindContentCall, Answered, Resume, ReceivePong,
         ReceiveNodes, ReceiveAccept, ReceiveOwnEnr, ReceiveLookup, ReceiveQueryNodes,
         ReceiveQueryContent, GossipAnswered, GossipTransferred
    <3> QED
      BY <1>5, <3>1, FindContentGood
  <2>2. CASE call[c].stage = "spawned" /\ (PeerEndpoint(c) \/ ContentEndpoint(c))
    <3>1. SendFindContent(c)
      BY <1>5, <2>2, Zenon DEF PeerEndpoint, ContentEndpoint
    <3> QED
      BY <1>5, <2>2, <3>1, FindContentGood, Zenon
  <2> QED
    BY <1>1, <2>1, <2>2
<1>6. ASSUME call[c].method = "LookupEnr"
      PROVE  GoodStep(c)
  <2>1. CASE Resume(c)
    <3>1. ReceiveOwnEnr(c) \/ ReceiveLookup(c)
      BY <1>4, <1>6, <2>1, Zenon DEF GoodCall, LookupEnrCall, Answered, Resume, ReceivePong,
         ReceiveNodes, ReceiveAccept, ReceiveContent, InitFindContentStream, ValidateContent,
         ReceiveQueryNodes, ReceiveQueryContent, GossipAnswered, GossipTransferred
    <3> QED
      BY <1>6, <3>1, LookupEnrGood
  <2>2. CASE call[c].stage = "spawned" /\ (PeerEndpoint(c) \/ ContentEndpoint(c))
    <3>1. LookupEnr(c)
      BY <1>6, <2>2, Zenon DEF PeerEndpoint, ContentEndpoint
    <3> QED
      BY <1>6, <2>2, <3>1, LookupEnrGood, Zenon
  <2> QED
    BY <1>1, <2>1, <2>2
<1>7. ASSUME call[c].method = "TraceGossip"
      PROVE  GoodStep(c)
  <2>1. CASE Resume(c)
    <3>1. GossipAnswered(c) \/ GossipTransferred(c)
      BY <1>4, <1>7, <2>1 DEF GoodCall, TraceGossipCall, Answered, Resume, ReceivePong,
         ReceiveNodes, ReceiveAccept, ReceiveContent, InitFindContentStream, ValidateContent,
         ReceiveOwnEnr, ReceiveLookup, ReceiveQueryNodes, ReceiveQueryContent
    <3> QED
      BY <1>7, <3>1, TraceGossipGood
  <2>2. CASE call[c].stage = "spawned" /\ (PeerEndpoint(c) \/ ContentEndpoint(c))
    <3>1. PropagateGossipTrace(c)
      BY <1>7, <2>2 DEF PeerEndpoint, ContentEndpoint
    <3> QED
      BY <1>7, <3>1, TraceGossipGood, Zenon
  <2> QED
    BY <1>1, <2>1, <2>2
<1>8. ASSUME call[c].method \notin Watched
      PROVE  GoodStep(c)
  BY <1>2, <1>8, PlainGood
<1>9. GoodStep(c)
  BY <1>5, <1>6, <1>7, <1>8 DEF Watched
<1> QED
  BY <1>2, <1>3, <1>9, OneCallStep, Zenon DEF GoodStep, Task

-----------------------------------------------------------------------------
(* The other steps.                                                        *)

\* A call as it goes into the channel, or is refused at once.
Fresh(m, stage, arg, header, result) ==
    [method |-> m, stage |-> stage, arg |-> arg, got |-> None, todo |-> <<>>,
     trace |-> NoTrace, from |-> None, header |-> header, result |-> result]

LEMMA ProxiedRecord ==
    ASSUME NEW m, NEW stage, NEW arg, NEW header
    PROVE  [NewCall EXCEPT !.method = m, !.stage = stage, !.arg = arg, !.header = header]
              = Fresh(m, stage, arg, header, None)
<1> DEFINE named == Fresh(m, "idle", NoArg, None, None)
           staged == Fresh(m, stage, NoArg, None, None)
           filled == Fresh(m, stage, arg, None, None)
<1>1. [NewCall EXCEPT !.method = m] = named
  BY DEF NewCall, Fresh
<1>2. [named EXCEPT !.stage = stage] = staged
  BY DEF Fresh
<1>3. [staged EXCEPT !.arg = arg] = filled
  BY DEF Fresh
<1>4. [filled EXCEPT !.header = header] = Fresh(m, stage, arg, header, None)
  BY DEF Fresh
<1> HIDE DEF named, staged, filled
<1> QED
  BY <1>1, <1>2, <1>3, <1>4, Zenon

LEMMA BodyRecord ==
    ASSUME NEW m, NEW stage, NEW arg, NEW header
    PROVE  [NewCall EXCEPT !.method = m, !.stage = stage, !.header = header, !.arg = arg]
              = Fresh(m, stage, arg, header, None)
<1> DEFINE named == Fresh(m, "idle", NoArg, None, None)
           staged == Fresh(m, stage, NoArg, None, None)
           headed == Fresh(m, stage, NoArg, header, None)
<1>1. [NewCall EXCEPT !.method = m] = named
  BY DEF NewCall, Fresh
<1>2. [named EXCEPT !.stage = stage] = staged
  BY DEF Fresh
<1>3. [staged EXCEPT !.header = header] = headed
  BY DEF Fresh
<1>4. [headed EXCEPT !.arg = arg] = Fresh(m, stage, arg, header, None)
  BY DEF Fresh
<1> HIDE DEF named, staged, headed
<1> QED
  BY <1>1, <1>2, <1>3, <1>4, Zenon

LEMMA ReturnedRecord ==
    ASSUME NEW m, NEW stage, NEW result
    PROVE  [NewCall EXCEPT !.method = m, !.stage = stage, !.result = result]
              = Fresh(m, stage, NoArg, None, result)
<1> DEFINE named == Fresh(m, "idle", NoArg, None, None)
           staged == Fresh(m, stage, NoArg, None, None)
<1>1. [NewCall EXCEPT !.method = m] = named
  BY DEF NewCall, Fresh
<1>2. [named EXCEPT !.stage = stage] = staged
  BY DEF Fresh
<1>3. [staged EXCEPT !.result = result] = Fresh(m, stage, NoArg, None, result)
  BY DEF Fresh
<1> HIDE DEF named, staged
<1> QED
  BY <1>1, <1>2, <1>3, Zenon

LEMMA FreshGood ==
    ASSUME NEW m, NEW stage, NEW arg, NEW header, NEW result,
           m = "LookupEnr" => arg.node \in Node,
           m = "AddEnr" => arg.enr \in Enr,
           stage = "queued" \/ (stage = "returned" /\ m \notin Watched)
    PROVE  GoodCall(Fresh(m, stage, arg, header, result))
<1> DEFINE r == Fresh(m, stage, arg, header, result)
<1>1. /\ IsCall(r) /\ r.method = m /\ r.stage = stage /\ r.arg = arg /\ r.got = None
  BY DEF Fresh, IsCall, Changed
<1> HIDE DEF r
<1>2. GoodCall(r)
  BY <1>1 DEF GoodCall, FindContentCall, LookupEnrCall, TraceGossipCall, Answered, Watched
<1> QED
  BY <1>2 DEF r

LEMMA InvokeKeepsInv ==
    ASSUME RpcInv, NEW c \in Call, Invoke(c)
    PROVE  RpcInv'
<1>1. call[c].stage # "queued" /\ table' = table /\ table \in Tables
  BY DEF Invoke, RpcInv
<1>2. ASSUME NEW m, NEW arg, m = "LookupEnr" => arg.node \in Node, m = "AddEnr" => arg.enr \in Enr,
             Proxy(c, m, arg)
      PROVE  RpcInv'
  <2> DEFINE r == Fresh(m, "queued", arg, call[c].header, None)
  <2>1. call' = [call EXCEPT ![c] = r] /\ queue' = Append(queue, c)
    <3>1. [NewCall EXCEPT !.method = m, !.stage = "queued", !.arg = arg,
                          !.header = call[c].header] = r
      BY ProxiedRecord, ZenonT(30)
    <3> HIDE DEF r
    <3> QED
      BY <1>2, <3>1, Zenon DEF Proxy
  <2>2. GoodCall(r) /\ r.stage = "queued"
    BY <1>2, FreshGood DEF Fresh
  <2> HIDE DEF r
  <2> QED
    BY <1>1, <2>1, <2>2, ProxyStep, Zenon
<1>3. ASSUME NEW m, m \notin Watched \cup {"AddEnr"}, NEW result,
             call' = [call EXCEPT ![c] = [NewCall EXCEPT !.method = m, !.stage = "returned",
                                                         !.result = result]],
             queue' = queue
      PROVE  RpcInv'
  <2> DEFINE r == Fresh(m, "returned", NoArg, None, result)
  <2>1. call' = [call EXCEPT ![c] = r]
    <3>1. [NewCall EXCEPT !.method = m, !.stage = "returned", !.result = result] = r
      BY ReturnedRecord, Zenon
    <3> HIDE DEF r
    <3> QED
      BY <1>3, <3>1, Zenon
  <2>2. GoodCall(r)
    BY <1>3, FreshGood DEF Watched
  <2> HIDE DEF r
  <2> QED
    BY <1>1, <1>3, <2>1, <2>2, OneCallStep, Zenon
<1>4. ASSUME NEW endpoints, InvokeNetwork(c, endpoints)
      PROVE  RpcInv'
  <2>1. PICK m, arg : arg \in Args(m) /\ Proxy(c, m, arg)
    BY <1>4 DEF InvokeNetwork
  <2>2. m = "LookupEnr" => arg.node \in Node
    BY <2>1 DEF Args, NoArg
  <2>3. m = "AddEnr" => arg.enr \in Enr
    BY <2>1 DEF Args
  <2> QED
    BY <1>2, <2>1, <2>2, <2>3, Zenon
<1>5. CASE InvokeLocal(c)
  <2>1. PICK m \in Web3Api \cup Discv5Api \cup Discv5NotFound \cup {"eth_chainId"} :
           call' = [call EXCEPT ![c] = [NewCall EXCEPT !.method = m, !.stage = "returned",
                                          !.result = IF m \in Discv5NotFound THEN Failed ELSE m]]
    BY <1>5, Zenon DEF InvokeLocal
  <2>2. m \notin Watched \cup {"AddEnr"}
    BY <2>1 DEF Web3Api, Discv5Api, Discv5NotFound, Watched
  <2>3. queue' = queue
    BY <1>5 DEF InvokeLocal
  <2> QED
    BY <1>3, <2>1, <2>2, <2>3, Zenon
<1>6. CASE GetBlockByHash(c)
  <2>1. "GetBlockByHash" \notin Watched \cup {"AddEnr"}
    BY DEF Watched
  <2>2. \/ /\ call' = [call EXCEPT ![c] = [NewCall EXCEPT !.method = "GetBlockByHash",
                                                 !.stage = "returned", !.result = Failed]]
           /\ queue' = queue
        \/ \E arg : Proxy(c, "GetBlockByHash", [arg EXCEPT !.key = "header"])
    BY <1>6 DEF GetBlockByHash
  <2> QED
    BY <1>2, <1>3, <2>1, <2>2, Zenon
<1> QED
  BY <1>4, <1>5, <1>6
     DEF Invoke, HistoryPeerApi, HistoryContentApi, BeaconPeerApi, BeaconContentApi
LEMMA HandleKeepsInv == RpcInv /\ HandleClientQueries => RpcInv'
<1> SUFFICES ASSUME RpcInv, HandleClientQueries
             PROVE  RpcInv'
  OBVIOUS
<1> DEFINE c == Head(queue)
           r == Changed(call[c], "spawned", call[c].got, call[c].todo, call[c].trace,
                        call[c].result)
<1>1. /\ queue \in Seq(Call) /\ queue # <<>> /\ queue' = Tail(queue)
      /\ call' = [call EXCEPT ![c] = [call[c] EXCEPT !.stage = "spawned"]]
      /\ table' = table /\ table \in Tables
  BY DEF HandleClientQueries, RpcInv
<1>2. /\ c \in Call /\ c = queue[1] /\ 1 \in DOMAIN queue
      /\ Len(queue) \in Nat /\ DOMAIN queue = 1..Len(queue)
      /\ queue' \in Seq(Call) /\ DOMAIN queue' = 1..Len(queue) - 1
      /\ \A i \in DOMAIN queue' : queue'[i] = queue[i + 1] /\ i + 1 \in DOMAIN queue
  BY <1>1
<1>3. call[c].stage = "queued"
  BY <1>2, QueuedCalls
<1> HIDE DEF c
<1>4. GoodCall(call[c]) /\ IsCall(call[c])
  BY <1>2 DEF RpcInv, GoodCall
<1>5. call' = [call EXCEPT ![c] = r]
  BY <1>1, <1>4, StagedRecord, Zenon
<1>6. /\ IsCall(r) /\ r.method = call[c].method /\ r.stage = "spawned" /\ r.arg = call[c].arg
      /\ r.got = call[c].got
  BY ChangedFields, SMTT(20)
<1> HIDE DEF r
<1>7. GoodCall(r)
  BY <1>3, <1>4, <1>6 DEF GoodCall, FindContentCall, LookupEnrCall, TraceGossipCall, Answered
<1>8. call' = [d \in Call |-> IF d = c THEN r ELSE call[d]]
  BY <1>5 DEF RpcInv
<1>9. call' = [d \in Call |-> call'[d]]
  BY <1>8
<1>10. \A d \in Call : GoodCall(call'[d])
  BY <1>7, <1>8 DEF RpcInv
<1>11. \A i, j \in DOMAIN queue : queue[i] = queue[j] => i = j
  BY Zenon DEF RpcInv
<1>12. \A i \in DOMAIN queue' : queue'[i] \in Call /\ queue'[i] # c
  BY <1>2, <1>11, SMTT(20)
<1>13. \A i \in DOMAIN queue' : call'[queue'[i]].stage = "queued"
  <2> SUFFICES ASSUME NEW i \in DOMAIN queue'
               PROVE  call'[queue'[i]].stage = "queued"
    OBVIOUS
  <2>1. call'[queue'[i]] = call[queue[i + 1]]
    BY <1>2, <1>8, <1>12, Zenon
  <2> QED
    BY <1>2, <2>1, QueuedCalls, Zenon
<1>14. \A i, j \in DOMAIN queue' : queue'[i] = queue'[j] => i = j
  BY <1>2, <1>11
<1> QED
  BY <1>1, <1>2, <1>9, <1>10, <1>13, <1>14, Zenon DEF RpcInv

LEMMA ReturnKeepsInv ==
    ASSUME RpcInv, NEW c \in Call, Return(c)
    PROVE  RpcInv'
<1>1. call[c].stage = "answered" /\ table' = table /\ table \in Tables
  BY DEF Return, RpcInv
<1>2. GoodCall(call[c]) /\ IsCall(call[c])
  BY DEF RpcInv, GoodCall
<1>3. ASSUME NEW result, call[c].method \in Watched => result = call[c].result,
             call' = [call EXCEPT ![c] = [call[c] EXCEPT !.stage = "returned", !.result = result]],
             queue' = queue
      PROVE  RpcInv'
  <2> DEFINE r == Changed(call[c], "returned", call[c].got, call[c].todo, call[c].trace, result)
  <2>1. [call[c] EXCEPT !.stage = "returned", !.result = result] = r
    BY <1>2, AnsweredRecord, ZenonT(30)
  <2>2. /\ IsCall(r) /\ r.method = call[c].method /\ r.stage = "returned" /\ r.arg = call[c].arg
        /\ r.got = call[c].got /\ r.from = call[c].from /\ r.result = result
    BY ChangedFields
  <2> HIDE DEF r
  <2>3. call' = [call EXCEPT ![c] = r]
    BY <1>3, <2>1, Zenon
  <2>4. GoodCall(r)
    BY <1>1, <1>2, <1>3, <2>2
       DEF GoodCall, FindContentCall, LookupEnrCall, TraceGossipCall, Answered, Watched
  <2> QED
    BY <1>1, <1>3, <2>3, <2>4, OneCallStep, Zenon
<1>4. CASE call[c].method = "GetBlockByHash"
  <2>1. call[c].method \notin Watched
    BY <1>4 DEF Watched
  <2>2. ASSUME NEW header, NEW arg,
               call' = [call EXCEPT ![c] = [NewCall EXCEPT !.method = "GetBlockByHash",
                            !.stage = "queued", !.header = header, !.arg = arg]],
               queue' = Append(queue, c)
        PROVE  RpcInv'
    <3> DEFINE r == Fresh("GetBlockByHash", "queued", arg, header, None)
    <3>1. [NewCall EXCEPT !.method = "GetBlockByHash", !.stage = "queued", !.header = header,
                          !.arg = arg] = r
      BY BodyRecord, Zenon
    <3>2. GoodCall(r) /\ r.stage = "queued"
      BY FreshGood DEF Fresh
    <3> HIDE DEF r
    <3>3. call' = [call EXCEPT ![c] = r]
      BY <2>2, <3>1, Zenon
    <3> QED
      BY <1>1, <2>2, <3>2, <3>3, ProxyStep, Zenon
  <2>3. \/ \E result :
              /\ call' = [call EXCEPT ![c] = [call[c] EXCEPT !.stage = "returned",
                                                             !.result = result]]
              /\ queue' = queue
        \/ \E header, arg :
              /\ call' = [call EXCEPT ![c] = [NewCall EXCEPT !.method = "GetBlockByHash",
                              !.stage = "queued", !.header = header, !.arg = arg]]
              /\ queue' = Append(queue, c)
    BY <1>4, ZenonT(30) DEF Return, FindContentByHash
  <2> QED
    BY <1>3, <2>1, <2>2, <2>3, Zenon
<1>5. CASE call[c].method # "GetBlockByHash"
  <2> DEFINE result == FromValue(call[c].method, call[c].result)
  <2>1. /\ call' = [call EXCEPT ![c] = [call[c] EXCEPT !.stage = "returned", !.result = result]]
        /\ queue' = queue
    BY <1>5 DEF Return
  <2>2. call[c].method \in Watched => result = call[c].result
    BY Zenon DEF FromValue, Watched
  <2> HIDE DEF result
  <2> QED
    BY <1>3, <2>1, <2>2, Zenon
<1> QED
  BY <1>4, <1>5

\* The traffic with peers and the end of the service touch no call.
LEMMA EnvironmentKeepsInv ==
    ASSUME RpcInv, TableChanges \/ ServiceStops \/ UNCHANGED vars
    PROVE  RpcInv'
<1>1. call' = call /\ queue' = queue
  BY DEF TableChanges, ServiceStops, vars
<1>2. table \in Tables
  BY DEF RpcInv
<1>3. table' \in Tables
  <2>1. CASE table' = table
    BY <1>2, <2>1
  <2>2. CASE TableChanges
    <3>1. PICK n \in Peer, e \in {NoEntry} \cup [seq : 1..MaxSeq, connected : BOOLEAN] :
             table' = [table EXCEPT ![n] = e]
      BY <2>2, Zenon DEF TableChanges
    <3> QED
      BY <1>2, <3>1 DEF Tables
  <2> QED
    BY <2>1, <2>2 DEF ServiceStops, vars
<1> QED
  BY <1>1, <1>3, Zenon DEF RpcInv

LEMMA RpcInvInit == Init => RpcInv
<1> SUFFICES ASSUME Init
             PROVE  RpcInv
  OBVIOUS
<1>1. /\ call = [c \in Call |-> NewCall] /\ queue = <<>>
      /\ table \in [Peer -> {NoEntry, [seq |-> 1, connected |-> TRUE],
                             [seq |-> MaxSeq, connected |-> FALSE]}]
  BY Zenon DEF Init
<1>2. /\ NewCall.method = None /\ NewCall.stage = "idle" /\ NewCall.got = None
      /\ NewCall.arg.node \in Node /\ NewCall.arg.enr \in Enr
  BY OverlayAssumption DEF NewCall, NoArg, Node, Enr, Latest
<1>3. IsCall(NewCall)
  BY DEF IsCall, Changed, NewCall
<1>4. GoodCall(NewCall)
  BY <1>2, <1>3 DEF GoodCall, FindContentCall, LookupEnrCall, TraceGossipCall, Answered
<1>5. call = [c \in Call |-> call[c]] /\ \A c \in Call : GoodCall(call[c])
  BY <1>1, <1>4
<1>6. table \in Tables
  <2>1. /\ [seq |-> 1, connected |-> TRUE] \in [seq : 1..MaxSeq, connected : BOOLEAN]
        /\ [seq |-> MaxSeq, connected |-> FALSE] \in [seq : 1..MaxSeq, connected : BOOLEAN]
    BY OverlayAssumption
  <2> QED
    BY <1>1, <2>1, Zenon DEF Tables
<1>7. queue \in Seq(Call) /\ DOMAIN queue = {}
  BY <1>1
<1> QED
  BY <1>5, <1>6, <1>7 DEF RpcInv

LEMMA RpcInvStep == RpcInv /\ [Next]_vars => RpcInv'
<1> SUFFICES ASSUME RpcInv, [Next]_vars
             PROVE  RpcInv'
  OBVIOUS
<1>1. ASSUME NEW c \in Call, Invoke(c) \/ Task(c) \/ Return(c)
      PROVE  RpcInv'
  BY <1>1, InvokeKeepsInv, TaskKeepsInv, ReturnKeepsInv
<1>2. CASE HandleClientQueries
  BY <1>2, HandleKeepsInv
<1>3. CASE TableChanges \/ ServiceStops \/ Done \/ UNCHANGED vars
  BY <1>3, EnvironmentKeepsInv DEF Done
<1> QED
  BY <1>1, <1>2, <1>3 DEF Next

LEMMA RpcInvHolds == Spec => []RpcInv
BY RpcInvInit, RpcInvStep, PTL DEF Spec

-----------------------------------------------------------------------------

\* Whatever the peer answers and by which way the content comes, FindContent returns
\* only content its validator accepted: send_find_content has no way from an answer or
\* a stream to the caller that leaves the validator out.
THEOREM OnlyValidIsReturned == Spec => []FoundContentIsValid
<1>1. RpcInv => FoundContentIsValid
  BY DEF RpcInv, GoodCall, FindContentCall, Answered, FoundContentIsValid
<1> QED
  BY <1>1, RpcInvHolds, PTL

\* lookup_enr of a node that was in the table always returns an ENR, whatever happens to
\* the table, to the request and to the query while it waits, and one older than the
\* table's only if the node itself sent it: what discovery and the query find, which may
\* be any ENRs, is returned only if it is newer.
THEOREM LookupKeepsKnown == Spec => []LookupKeepsKnownEnr
<1>1. RpcInv => LookupKeepsKnownEnr
  BY OverlayAssumption DEF RpcInv, GoodCall, LookupEnrCall, Answered, LookupKeepsKnownEnr, LookedUp
<1> QED
  BY <1>1, RpcInvHolds, PTL

\* The report of trace_propagate_gossip is consistent at every size of the network and
\* for every number of recipients: who was sent the content had accepted it, who accepted
\* it had been offered it, and no more peers were than are to be selected.
THEOREM ReportIsConsistent == Spec => []TraceGossipConsistent
<1>1. ASSUME RpcInv
      PROVE  TraceGossipConsistent
  <2> SUFFICES ASSUME NEW c \in Call, call[c].method = "TraceGossip",
                      call[c].stage \in {"answered", "returned"}
               PROVE  LET report == call[c].result
                      IN  /\ report.transferred \subseteq report.accepted
                          /\ report.accepted \subseteq report.offered
                          /\ report.offered \subseteq Peer
                          /\ Cardinality(report.offered) <= NUM_CLOSEST_NODES + NUM_FARTHER_NODES
    BY DEF TraceGossipConsistent
  <2> DEFINE report == call[c].result
  <2>1. Offerable(<<>>, report, 0)
    BY <1>1 DEF RpcInv, GoodCall, TraceGossipCall, Answered
  <2> HIDE DEF report
  <2>2. Cardinality(report.offered) \in Nat
    BY <2>1, OverlayAssumption, FS_Subset, FS_CardinalityType, Zenon DEF Offerable, Consistent
  <2>3. Cardinality(report.offered) <= NUM_CLOSEST_NODES + NUM_FARTHER_NODES
    BY <2>1, <2>2, GossipAssumption DEF Offerable
  <2> QED
    BY <2>1, <2>3, Zenon DEF Offerable, Consistent, report
<1> QED
  BY <1>1, RpcInvHolds, PTL


=============================================================================
