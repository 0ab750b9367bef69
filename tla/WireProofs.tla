----------------------------- MODULE WireProofs -----------------------------
(* Theorems about the response queue, for every number of calls of every   *)
(* kind and whatever the network does; and, at the end, about the event    *)
(* manager, whose requests go through such a queue.                        *)
EXTENDS Wire, SeqRemovalProofs

-----------------------------------------------------------------------------
(* Sequences that are taken apart and put together again.                  *)

(* Concatenation under a name of its own, so that the provers take its laws *)
(* from the three facts that follow and from nothing else.                 *)
Cat(s, t) == s \o t

(* Concatenation keeps the type of its parts.                             *)
LEMMA CatType ==
    ASSUME NEW S, NEW s \in Seq(S), NEW t \in Seq(S)
    PROVE  Cat(s, t) \in Seq(S)
BY ConcatProperties DEF Cat

(* Packets may be moved between adjacent parts of the wire.               *)
LEMMA CatAssociative ==
    ASSUME NEW S, NEW s \in Seq(S), NEW t \in Seq(S), NEW u \in Seq(S)
    PROVE  Cat(Cat(s, t), u) = Cat(s, Cat(t, u))
BY ConcatAssociative DEF Cat

(* An empty part of the wire adds nothing.                                *)
LEMMA CatEmpty ==
    ASSUME NEW S, NEW s \in Seq(S)
    PROVE  Cat(s, <<>>) = s
BY ConcatEmptySeq DEF Cat

(* The wire: what the server has answered, what it holds back, what it was *)
(* sent, and what the client holds back.                                   *)
Wires(a, b, c, d) == Cat(Cat(Cat(a, b), c), d)

(* What leaves one part of the wire for the next leaves the whole as it   *)
(* was.                                                                   *)
LEMMA WiresRegrouped ==
    ASSUME NEW S, NEW a \in Seq(S), NEW b \in Seq(S), NEW c \in Seq(S),
           NEW d \in Seq(S)
    PROVE  /\ Wires(a, b, c, d) \in Seq(S)
           /\ Cat(b, Cat(c, d)) \in Seq(S)
           /\ Wires(a, b, c, d) = Cat(a, Cat(b, Cat(c, d)))
<1>1. Cat(a, b) \in Seq(S) /\ Cat(c, d) \in Seq(S)
  BY CatType
<1>2. Cat(Cat(a, b), c) \in Seq(S) /\ Cat(b, Cat(c, d)) \in Seq(S)
  BY <1>1, CatType
<1>3. Wires(a, b, c, d) = Cat(Cat(a, b), Cat(c, d))
  BY <1>1, CatAssociative DEF Wires
<1>4. Cat(Cat(a, b), Cat(c, d)) = Cat(a, Cat(b, Cat(c, d)))
  BY <1>1, CatAssociative
<1> QED BY <1>2, <1>3, <1>4, CatType DEF Wires

(* Packets are written: behind everything, now or when they are flushed.   *)
LEMMA Written ==
    ASSUME NEW S, NEW a \in Seq(S), NEW b \in Seq(S), NEW c \in Seq(S),
           NEW d \in Seq(S), NEW p \in Seq(S)
    PROVE  /\ Wires(a, b, Cat(Cat(c, d), p), <<>>) = Cat(Wires(a, b, c, d), p)
           /\ Wires(a, b, c, Cat(d, p)) = Cat(Wires(a, b, c, d), p)
<1>1. Cat(a, b) \in Seq(S) /\ Cat(c, d) \in Seq(S)
  BY CatType
<1>2. Cat(Cat(a, b), c) \in Seq(S) /\ Cat(Cat(c, d), p) \in Seq(S)
  BY <1>1, CatType
<1>3. Cat(Cat(a, b), Cat(Cat(c, d), p)) \in Seq(S)
  BY <1>1, <1>2, CatType
<1>4. Wires(a, b, Cat(Cat(c, d), p), <<>>) = Cat(Cat(a, b), Cat(Cat(c, d), p))
  BY <1>3, CatEmpty DEF Wires
<1>5. Cat(Cat(a, b), Cat(Cat(c, d), p)) = Cat(Cat(Cat(a, b), Cat(c, d)), p)
  BY <1>1, CatAssociative
<1>6. Cat(Cat(a, b), Cat(c, d)) = Wires(a, b, c, d)
  BY <1>1, CatAssociative DEF Wires
<1>7. Wires(a, b, c, Cat(d, p)) = Cat(Wires(a, b, c, d), p)
  BY <1>2, CatAssociative DEF Wires
<1> QED BY <1>4, <1>5, <1>6, <1>7

(* The server answers the oldest packet, lazily or with a flush.           *)
LEMMA Answered ==
    ASSUME NEW S, NEW a \in Seq(S), NEW b \in Seq(S), NEW h \in Seq(S),
           NEW t \in Seq(S), NEW d \in Seq(S)
    PROVE  /\ Wires(a, Cat(b, h), t, d) = Wires(a, b, Cat(h, t), d)
           /\ Wires(Cat(Cat(a, b), h), <<>>, t, d) = Wires(a, b, Cat(h, t), d)
<1>1. Cat(a, b) \in Seq(S)
  BY CatType
<1>2. Cat(Cat(a, b), h) \in Seq(S)
  BY <1>1, CatType
<1>3. Cat(Cat(a, b), Cat(h, t)) = Cat(Cat(Cat(a, b), h), t)
  BY <1>1, CatAssociative
<1>4. Cat(a, Cat(b, h)) = Cat(Cat(a, b), h)
  BY CatAssociative
<1>5. Cat(Cat(Cat(a, b), h), <<>>) = Cat(Cat(a, b), h)
  BY <1>2, CatEmpty
<1> QED BY <1>3, <1>4, <1>5 DEF Wires

(* What is in front is taken off the front.                                *)
LEMMA FrontOfCat ==
    ASSUME NEW S, NEW a \in Seq(S), NEW rest \in Seq(S), a # <<>>
    PROVE  /\ Head(Cat(a, rest)) = Head(a)
           /\ Tail(Cat(a, rest)) = Cat(Tail(a), rest)
<1> DEFINE t == Tail(a)
           all == a \o rest
           less == t \o rest
<1>1. t \in Seq(S)
  BY HeadTailProperties
<1>2. /\ Len(a) \in Nat \ {0} /\ Len(t) = Len(a) - 1
      /\ \A i \in 1..Len(t) : t[i] = a[i+1]
  BY HeadTailProperties, EmptySeq
<1> HIDE DEF t
<1>5. /\ all \in Seq(S) /\ Len(all) = Len(a) + Len(rest) /\ Len(rest) \in Nat
      /\ \A i \in 1..Len(all) :
            all[i] = IF i <= Len(a) THEN a[i] ELSE rest[i - Len(a)]
  BY ConcatProperties, LenProperties
<1>6. /\ less \in Seq(S) /\ Len(less) = Len(t) + Len(rest)
      /\ \A i \in 1..Len(less) :
            less[i] = IF i <= Len(t) THEN t[i] ELSE rest[i - Len(t)]
  BY <1>1, ConcatProperties
<1> HIDE DEF all, less
<1>7. all # <<>>
  BY <1>2, <1>5, EmptySeq
<1>8. /\ Head(all) = all[1] /\ Head(a) = a[1]
      /\ Tail(all) \in Seq(S) /\ Len(Tail(all)) = Len(all) - 1
      /\ \A i \in 1..Len(Tail(all)) : Tail(all)[i] = all[i+1]
  BY <1>2, <1>5, <1>7, HeadTailProperties
<1>9. Len(Tail(all)) = Len(less)
  BY <1>2, <1>5, <1>6, <1>8
<1>10. \A i \in 1..Len(less) : Tail(all)[i] = less[i]
  <2> TAKE i \in 1..Len(less)
  <2>1. Tail(all)[i] = all[i+1] /\ i + 1 \in 1..Len(all) /\ i \in Nat
    BY <1>2, <1>5, <1>6, <1>8, <1>9
  <2>2. CASE i <= Len(t)
    BY <1>2, <1>5, <1>6, <2>1, <2>2
  <2>3. CASE ~(i <= Len(t))
    <3>1. (i + 1) - Len(a) = i - Len(t) /\ ~(i + 1 <= Len(a))
      BY <1>2, <2>1, <2>3
    <3>2. all[i+1] = rest[(i + 1) - Len(a)]
      BY <1>5, <2>1, <3>1
    <3>3. less[i] = rest[i - Len(t)]
      BY <1>6, <2>3
    <3> QED BY <2>1, <3>1, <3>2, <3>3
  <2> QED BY <2>2, <2>3
<1>11. Tail(all) = less
  BY <1>6, <1>8, <1>9, <1>10, SeqEqual
<1>12. Head(all) = Head(a)
  BY <1>2, <1>5, <1>8
<1> QED BY <1>11, <1>12 DEF t, all, less, Cat

(* The client reads the oldest reply.                                      *)
LEMMA Received ==
    ASSUME NEW S, NEW a \in Seq(S), NEW b \in Seq(S), NEW c \in Seq(S),
           NEW d \in Seq(S), a # <<>>
    PROVE  /\ Head(Wires(a, b, c, d)) = Head(a)
           /\ Tail(Wires(a, b, c, d)) = Wires(Tail(a), b, c, d)
<1> DEFINE t == Tail(a)
<1>1. t \in Seq(S)
  BY HeadTailProperties
<1>2. Cat(b, Cat(c, d)) \in Seq(S)
  BY WiresRegrouped
<1>3. Wires(a, b, c, d) = Cat(a, Cat(b, Cat(c, d)))
  BY WiresRegrouped
<1> HIDE DEF t
<1>4. Wires(t, b, c, d) = Cat(t, Cat(b, Cat(c, d)))
  BY <1>1, WiresRegrouped
<1>5. /\ Head(Cat(a, Cat(b, Cat(c, d)))) = Head(a)
      /\ Tail(Cat(a, Cat(b, Cat(c, d)))) = Cat(t, Cat(b, Cat(c, d)))
  BY <1>2, FrontOfCat DEF t
<1> QED BY <1>3, <1>4, <1>5 DEF t

-----------------------------------------------------------------------------
(* Types.                                                                  *)

(* A call puts well-formed packets on the queue.                          *)
LEMMA PacketsTyped ==
    ASSUME NEW o \in Op, NEW k \in AllKinds
    PROVE  Packets(o, k) \in Seq(Packet)
<1>1. \A p \in Part : [op |-> o, part |-> p] \in Packet
  BY DEF Packet
<1>2. CASE k = "batch"
  <2>1. Chunks + 3 \in Nat
    BY WireAssumption
  <2>2. \A i \in 1..(Chunks + 3) : BatchPart(i) \in Part
    BY DEF Part, BatchPart
  <2>3. Packets(o, k) = [i \in 1..(Chunks + 3) |-> [op |-> o, part |-> BatchPart(i)]]
    BY <1>2 DEF Packets, Deferred
  <2>4. [i \in 1..(Chunks + 3) |-> [op |-> o, part |-> BatchPart(i)]]
            \in [1..(Chunks + 3) -> Packet]
    BY <1>1, <2>2
  <2> QED BY <2>1, <2>3, <2>4, SeqDef
<1>3. CASE k = "prepare"
  BY <1>1, <1>3 DEF Packets, Part
<1>4. CASE Deferred(k)
  BY <1>1, <1>4 DEF Packets, Part, Deferred
<1>5. CASE k \notin {"batch", "prepare"} /\ ~Deferred(k)
  BY <1>1, <1>5 DEF Packets, Part
<1> QED BY <1>2, <1>3, <1>4, <1>5 DEF Deferred

(* Writing a packet, deferred or flushed, keeps the types.                *)
LEMMA WriteTyped ==
    ASSUME TypeOK, NEW p \in Seq(Packet), NEW deferred \in BOOLEAN,
           Write(p, deferred)
    PROVE  buffer' \in Seq(Packet) /\ sent' \in Seq(Packet)
<1>1. buffer \o p \in Seq(Packet) /\ sent \o buffer \in Seq(Packet)
  BY ConcatProperties DEF TypeOK
<1>2. sent \o buffer \o p \in Seq(Packet)
  BY <1>1, ConcatProperties
<1>3. CASE deferred
  BY <1>1, <1>3 DEF Write, Buffered, TypeOK
<1>4. CASE ~deferred
  <2>1. sent' = sent \o buffer \o p /\ buffer' = <<>>
    BY <1>4 DEF Write
  <2> QED BY <1>2, <2>1
<1> QED BY <1>3, <1>4

(* Calling a callback keeps the types of its count and of its reply.      *)
LEMMA TellTyped ==
    ASSUME TypeOK, NEW o \in Op, NEW r \in Packet, Tell(o, r)
    PROVE  calls' \in [Op -> Nat] /\ got' \in [Op -> Packet]
BY DEF Tell, TypeOK

(* A call of any kind keeps the types.                                    *)
LEMMA CallTyped ==
    ASSUME TypeOK, NEW o \in Op, NEW k, Call(o, k)
    PROVE  TypeOK'
<1>1. k \in AllKinds /\ k # "none"
  BY WireAssumption DEF Call, AllKinds
<1>2. Packets(o, k) \in Seq(Packet)
  BY <1>1, PacketsTyped
<1>3. /\ [op |-> o, part |-> "closed"] \in Packet
      /\ [op |-> o, part |-> "deferred"] \in Packet
  BY DEF Packet, Part
<1>4. Counted(k) \in Nat /\ Chunks + 2 \in Nat
  BY WireAssumption DEF Counted
<1>5. kind' \in [Op -> AllKinds \cup {"none"}] /\ pending' \in Nat
  BY <1>1, <1>4 DEF Call, TypeOK
<1>6. CASE Send(o, k)
  <2>1. buffer' \in Seq(Packet) /\ sent' \in Seq(Packet)
    <3>1. Deferred(k) \in BOOLEAN
      BY DEF Deferred
    <3> QED BY <1>2, <1>6, <3>1, WriteTyped DEF Send
  <2>2. queue' \in Seq(Packet)
    BY <1>2, <1>6, ConcatProperties DEF Send, Slots, TypeOK
  <2>3. left' \in [Op -> Int]
    BY <1>4, <1>6 DEF Send, TypeOK
  <2>4. calls' \in [Op -> Nat] /\ got' \in [Op -> Packet]
    <3>1. CASE Deferred(k)
      BY <1>3, <1>6, <3>1, TellTyped DEF Send
    <3>2. CASE ~Deferred(k)
      BY <1>6, <3>2 DEF Send, TypeOK
    <3> QED BY <3>1, <3>2
  <2> QED BY <1>5, <2>1, <2>2, <2>3, <2>4 DEF Call, TypeOK, detaching
<1>7. CASE Refuse(o)
  <2>1. calls' \in [Op -> Nat] /\ got' \in [Op -> Packet]
    BY <1>3, <1>7, TellTyped DEF Refuse
  <2> QED BY <1>5, <1>7, <2>1 DEF Call, Refuse, TypeOK, detaching, wires
<1> QED BY <1>6, <1>7 DEF Call

(* A counter raised by one is still a family of counters.                 *)
LEMMA CountedUp ==
    ASSUME NEW D, NEW f \in [D -> Nat], NEW x
    PROVE  [f EXCEPT ![x] = @ + 1] \in [D -> Nat]
<1>1. ASSUME NEW y \in D PROVE [f EXCEPT ![x] = @ + 1][y] \in Nat
  <2>1. CASE y = x
    BY <2>1
  <2>2. CASE y # x
    BY <2>2
  <2> QED BY <2>1, <2>2
<1> QED BY <1>1

(* Taking a reply off the queue keeps the types, whatever its callback    *)
(* does.                                                                  *)
LEMMA SettleTyped ==
    ASSUME TypeOK, NEW e \in Packet, NEW r \in Packet, Settle(e, r)
    PROVE  calls' \in [Op -> Nat] /\ got' \in [Op -> Packet] /\ left' \in [Op -> Int]
<1>1. CASE e.op = "db" \/ Silent(e)
  BY <1>1 DEF Settle, TypeOK
<1>2. CASE ~(e.op = "db" \/ Silent(e))
  <2>1. left' \in [Op -> Int]
    BY <1>2 DEF Settle, TypeOK
  <2>2. CASE InBatch(e) /\ ~Completes(e)
    <3>1. calls' = calls /\ got' = got
      BY <1>2, <2>2 DEF Settle
    <3> QED BY <2>1, <3>1 DEF TypeOK
  <2>3. CASE ~(InBatch(e) /\ ~Completes(e))
    <3>1. Tell(e.op, r)
      BY <1>2, <2>3 DEF Settle
    <3>2. /\ calls' = [calls EXCEPT ![e.op] = @ + 1]
          /\ got' = [got EXCEPT ![e.op] = r]
      BY <3>1 DEF Tell
    <3>3. calls' \in [Op -> Nat]
      BY <3>2, CountedUp DEF TypeOK
    <3>4. got' \in [Op -> Packet]
      BY <3>2 DEF TypeOK
    <3> QED BY <2>1, <3>3, <3>4
  <2> QED BY <2>2, <2>3
<1> QED BY <1>1, <1>2

(* Sending op_detach keeps the types.                                     *)
LEMMA DetachNowTyped ==
    ASSUME TypeOK, DetachNow
    PROVE  /\ queue' \in Seq(Packet) /\ buffer' \in Seq(Packet)
           /\ sent' \in Seq(Packet)
           /\ link' \in {"open", "detaching", "closed", "cut"}
           /\ detach' \in {"no", "asked", "done"}
<1> DEFINE p == [op |-> "db", part |-> "detach"]
<1>1. p \in Packet /\ <<p>> \in Seq(Packet)
  BY DEF Packet, Part
<1>2. CASE pooled = "no" /\ link = "open"
  <2>1. Write(<<p>>, FALSE) /\ queue' = Append(queue, p)
    BY <1>2 DEF DetachNow
  <2>2. buffer' \in Seq(Packet) /\ sent' \in Seq(Packet)
    BY <1>1, <2>1, WriteTyped
  <2>3. queue' \in Seq(Packet)
    BY <1>1, <2>1, AppendProperties DEF TypeOK
  <2> QED BY <1>2, <2>2, <2>3 DEF DetachNow
<1>3. CASE ~(pooled = "no" /\ link = "open")
  BY <1>3 DEF DetachNow, TypeOK
<1> QED BY <1>2, <1>3

(* Steps keep the types.                                                   *)
LEMMA TypeStep == TypeOK /\ [Next]_vars => TypeOK'
<1> SUFFICES ASSUME TypeOK, [Next]_vars PROVE TypeOK'
  OBVIOUS
<1>1. ASSUME NEW o \in Op, NEW k, Call(o, k) PROVE TypeOK'
  BY <1>1, CallTyped
<1>2. CASE Cancel
  <2>1. buffer' \in Seq(Packet) /\ sent' \in Seq(Packet)
    <3>1. <<>> \in Seq(Packet)
      OBVIOUS
    <3>2. Write(<<>>, FALSE)
      BY <1>2 DEF Cancel
    <3> QED BY <3>1, <3>2, WriteTyped
  <2> QED BY <1>2, <2>1 DEF Cancel, TypeOK, detaching, ops
<1>3. CASE ServerAnswers
  <2>1. Head(sent) \in Packet /\ Tail(sent) \in Seq(Packet)
        /\ <<Head(sent)>> \in Seq(Packet)
    BY <1>3, HeadThenTail DEF ServerAnswers, TypeOK
  <2>2. sent' \in Seq(Packet)
    BY <1>3, <2>1 DEF ServerAnswers
  <2>3. held' \in Seq(Packet) /\ stream' \in Seq(Packet)
    <3>1. CASE LazyReply(Head(sent))
      <4>1. held' = Append(held, Head(sent)) /\ stream' = stream
        BY <1>3, <3>1 DEF ServerAnswers
      <4> QED BY <2>1, <4>1, AppendProperties DEF TypeOK
    <3>2. CASE ~LazyReply(Head(sent))
      <4>1. stream \o held \in Seq(Packet)
        BY ConcatProperties DEF TypeOK
      <4>2. stream' = (stream \o held) \o <<Head(sent)>> /\ held' = <<>>
        BY <1>3, <3>2 DEF ServerAnswers
      <4>3. (stream \o held) \o <<Head(sent)>> \in Seq(Packet)
        BY <2>1, <4>1, ConcatProperties
      <4> QED BY <4>2, <4>3
    <3> QED BY <3>1, <3>2
  <2> QED BY <1>3, <2>2, <2>3 DEF ServerAnswers, TypeOK, detaching, ops
<1>4. CASE Data
  <2>1. /\ Head(stream) \in Packet /\ Tail(stream) \in Seq(Packet)
        /\ Head(queue) \in Packet /\ Tail(queue) \in Seq(Packet)
    BY <1>4, HeadThenTail DEF Data, TypeOK
  <2>2. calls' \in [Op -> Nat] /\ got' \in [Op -> Packet] /\ left' \in [Op -> Int]
    BY <1>4, <2>1, SettleTyped DEF Data
  <2>3. pending' \in Nat
    BY <1>4 DEF Data, ShiftPending, TypeOK
  <2>4. timer' \in {"off", "armed"} /\ detach' \in {"no", "asked", "done"}
    BY <1>4 DEF Data, TypeOK
  <2> QED BY <1>4, <2>1, <2>2, <2>3, <2>4 DEF Data, TypeOK
<1>5. CASE Lost
  <2>1. /\ buffer' = <<>> /\ sent' = <<>> /\ held' = <<>> /\ stream' = <<>>
        /\ UNCHANGED detaching
    BY <1>5 DEF Lost
  <2>2. CASE link = "detaching"
    BY <1>5, <2>1, <2>2 DEF Lost, TypeOK, detaching, ops
  <2>3. CASE link # "detaching"
    <3>1. /\ link' = "closed" /\ queue' = <<>> /\ pending' = 0
          /\ Reject /\ UNCHANGED kind
      BY <1>5, <2>3 DEF Lost
    <3>2. \A o \in Op : [op |-> o, part |-> "closed"] \in Packet
      BY DEF Packet, Part
    <3>3. calls' \in [Op -> Nat] /\ left' \in [Op -> Int]
      BY <3>1 DEF Reject, TypeOK
    <3>4. got' \in [Op -> Packet]
      BY <3>1, <3>2 DEF Reject, TypeOK
    <3> QED BY <2>1, <3>1, <3>3, <3>4 DEF TypeOK, detaching
  <2> QED BY <2>2, <2>3
<1>6. CASE Detach
  <2>1. CASE DetachNow /\ UNCHANGED auto
    BY <1>6, <2>1, DetachNowTyped DEF Detach, TypeOK, ops
  <2>2. CASE ~(DetachNow /\ UNCHANGED auto)
    BY <1>6, <2>2 DEF Detach, TypeOK, ops
  <2> QED BY <1>6, <2>1, <2>2 DEF Detach
<1>7. CASE DetachTimer
  <2>1. CASE DetachNow
    BY <1>7, <2>1, DetachNowTyped DEF DetachTimer, TypeOK, ops
  <2>2. CASE ~DetachNow
    BY <1>7, <2>2 DEF DetachTimer, TypeOK, ops
  <2> QED BY <1>7, <2>1, <2>2 DEF DetachTimer
<1>8. CASE UNCHANGED vars
  BY <1>8 DEF vars, wires, detaching, ops, TypeOK
<1> QED
  BY <1>1, <1>2, <1>3, <1>4, <1>5, <1>6, <1>7, <1>8
  DEF Next, Execute, Fetch, Prepare, OpenBlob, Free, CloseBlob, Batch

(* A fresh connection has the declared types.                             *)
LEMMA TypeInit == Init => TypeOK
BY DEF Init, TypeOK, None, Packet, Part, AllKinds

(* The types of every reachable state.                                     *)
THEOREM WireTypeOK == Spec => []TypeOK
BY TypeInit, TypeStep, PTL DEF Spec

-----------------------------------------------------------------------------
(* The queue keeps step with the wire.                                     *)

wire == Wires(stream, held, sent, buffer)

(* The wire, from the packet read next to the one deferred last.          *)
LEMMA WireIs == wire = stream \o held \o sent \o buffer
BY DEF wire, Wires, Cat

(* What is read belongs to the front of the queue; a dead wire is silent.  *)
Lockstep ==
    /\ link \in {"open", "detaching"} => queue = wire
    /\ link \in {"closed", "cut"} => stream = <<>>

(* A packet written goes to the end of the wire.                          *)
LEMMA WriteExtends ==
    ASSUME TypeOK, NEW p \in Seq(Packet), NEW deferred \in BOOLEAN,
           Write(p, deferred), UNCHANGED <<stream, held>>
    PROVE  wire' = Cat(wire, p)
<1>1. /\ wire = Wires(stream, held, sent, buffer)
      /\ wire' = Wires(stream, held, sent', buffer')
  BY DEF wire, Wires
<1>2. CASE deferred
  <2>1. buffer' = Cat(buffer, p) /\ sent' = sent
    BY <1>2 DEF Write, Buffered, Cat
  <2>2. Wires(stream, held, sent, Cat(buffer, p)) = Cat(Wires(stream, held, sent, buffer), p)
    BY Written DEF TypeOK
  <2> QED BY <1>1, <2>1, <2>2
<1>3. CASE ~deferred
  <2>1. sent' = Cat(Cat(sent, buffer), p) /\ buffer' = <<>>
    BY <1>3 DEF Write, Cat
  <2>2. Wires(stream, held, Cat(Cat(sent, buffer), p), <<>>)
            = Cat(Wires(stream, held, sent, buffer), p)
    BY Written DEF TypeOK
  <2> QED BY <1>1, <2>1, <2>2
<1> QED BY <1>2, <1>3

(* Every step changes the queue and the wire alike.                       *)
LEMMA LockstepStep == TypeOK /\ Lockstep /\ [Next]_vars => Lockstep'
<1> SUFFICES ASSUME TypeOK, Lockstep, [Next]_vars PROVE Lockstep'
  OBVIOUS
<1> USE DEF Lockstep
<1>a. wire = Wires(stream, held, sent, buffer)
      /\ wire' = Wires(stream', held', sent', buffer')
  BY DEF wire, Wires
<1>b. FALSE \in BOOLEAN
  OBVIOUS
<1>1. ASSUME NEW o \in Op, NEW k, Call(o, k) PROVE Lockstep'
  <2>1. k \in AllKinds /\ UNCHANGED <<stream, held, link>>
    BY <1>1, WireAssumption DEF Call
  <2>2. CASE Send(o, k)
    <3>1. Packets(o, k) \in Seq(Packet) /\ Deferred(k) \in BOOLEAN
      BY <2>1, PacketsTyped DEF Deferred
    <3>2. wire' = Cat(wire, Packets(o, k))
      BY <2>1, <2>2, <3>1, WriteExtends DEF Send
    <3>3. queue' = Cat(queue, Packets(o, k))
      BY <2>2 DEF Send, Slots, Cat
    <3> QED BY <2>1, <3>2, <3>3
  <2>3. CASE Refuse(o)
    BY <1>a, <2>1, <2>3 DEF Refuse, wires
  <2> QED BY <1>1, <2>2, <2>3 DEF Call
<1>2. CASE Cancel
  <2>1. /\ Write(<<>>, FALSE)
        /\ UNCHANGED <<stream, held>> /\ UNCHANGED <<queue, link>>
    BY <1>2 DEF Cancel
  <2>e. <<>> \in Seq(Packet)
    OBVIOUS
  <2>2. wire' = Cat(wire, <<>>)
    BY <2>1, <2>e, <1>b, WriteExtends
  <2>3. wire \in Seq(Packet)
    BY <1>a, WiresRegrouped DEF TypeOK
  <2> QED BY <2>1, <2>2, <2>3, CatEmpty
<1>3. CASE ServerAnswers
  <2> DEFINE h == <<Head(sent)>>
             t == Tail(sent)
  <2>1. h \in Seq(Packet) /\ t \in Seq(Packet) /\ sent = Cat(h, t)
    BY <1>3, HeadThenTail DEF ServerAnswers, TypeOK, Cat
  <2>2. sent' = t /\ UNCHANGED <<queue, buffer, link>> /\ link \in {"open", "detaching"}
    BY <1>3 DEF ServerAnswers
  <2>3. \/ held' = Cat(held, h) /\ stream' = stream
        \/ held' = <<>> /\ stream' = Cat(Cat(stream, held), h)
    <3>1. CASE LazyReply(Head(sent))
      <4>1. Append(held, Head(sent)) = held \o <<Head(sent)>>
        BY <1>3, HeadThenTail, AppendIsConcat DEF ServerAnswers, TypeOK
      <4> QED BY <1>3, <3>1, <4>1 DEF ServerAnswers, Cat
    <3>2. CASE ~LazyReply(Head(sent))
      BY <1>3, <3>2 DEF ServerAnswers, Cat
    <3> QED BY <3>1, <3>2
  <2> HIDE DEF h, t
  <2>4. /\ Wires(stream, Cat(held, h), t, buffer) = Wires(stream, held, Cat(h, t), buffer)
        /\ Wires(Cat(Cat(stream, held), h), <<>>, t, buffer)
               = Wires(stream, held, Cat(h, t), buffer)
    BY <2>1, Answered DEF TypeOK
  <2>5. wire' = wire
    BY <1>a, <2>1, <2>2, <2>3, <2>4
  <2> QED BY <2>2, <2>5
<1>4. CASE Data
  <2>1. /\ stream # <<>> /\ stream' = Tail(stream) /\ queue' = Tail(queue)
        /\ UNCHANGED <<held, sent, buffer, link>>
    BY <1>4 DEF Data
  <2>2. link \in {"open", "detaching"}
    BY <2>1 DEF TypeOK
  <2>3. Tail(Wires(stream, held, sent, buffer)) = Wires(Tail(stream), held, sent, buffer)
    BY <2>1, Received DEF TypeOK
  <2>4. wire' = Tail(wire)
    BY <1>a, <2>1, <2>3
  <2> QED BY <2>1, <2>2, <2>4
<1>5. CASE Lost
  <2>1. link' \in {"closed", "cut"} /\ stream' = <<>>
    BY <1>5 DEF Lost
  <2> QED BY <2>1
<1>6. ASSUME DetachNow, UNCHANGED <<stream, held>> PROVE Lockstep'
  <2> DEFINE p == [op |-> "db", part |-> "detach"]
  <2>1. CASE pooled = "no" /\ link = "open"
    <3>1. /\ Write(<<p>>, FALSE) /\ queue' = Append(queue, p)
          /\ link' = "detaching"
      BY <1>6, <2>1 DEF DetachNow
    <3>2. p \in Packet
      BY DEF Packet, Part
    <3> HIDE DEF p
    <3>3. <<p>> \in Seq(Packet)
      BY <3>2
    <3>4. wire' = Cat(wire, <<p>>)
      BY <1>6, <1>b, <3>1, <3>3, WriteExtends
    <3>5. queue' = Cat(queue, <<p>>)
      BY <3>1, <3>2, AppendIsConcat DEF Cat, TypeOK
    <3> QED BY <2>1, <3>1, <3>4, <3>5
  <2>2. CASE ~(pooled = "no" /\ link = "open")
    BY <1>6, <1>a, <2>2 DEF DetachNow
  <2> QED BY <2>1, <2>2
<1>7. CASE Detach
  <2>1. CASE DetachNow
    BY <1>6, <1>7, <2>1 DEF Detach
  <2>2. CASE ~DetachNow
    BY <1>7, <1>a, <2>2 DEF Detach
  <2> QED BY <2>1, <2>2
<1>8. CASE DetachTimer
  <2>1. CASE DetachNow
    BY <1>6, <1>8, <2>1 DEF DetachTimer
  <2>2. CASE ~DetachNow
    BY <1>8, <1>a, <2>2 DEF DetachTimer
  <2> QED BY <2>1, <2>2
<1>9. CASE UNCHANGED vars
  BY <1>9, <1>a DEF vars, wires
<1> QED
  BY <1>1, <1>2, <1>3, <1>4, <1>5, <1>7, <1>8, <1>9
  DEF Next, Execute, Fetch, Prepare, OpenBlob, Free, CloseBlob, Batch

(* A fresh connection has nothing on the queue or the wire.               *)
LEMMA LockstepInit == Init => Lockstep
<1> SUFFICES ASSUME Init PROVE queue = wire /\ stream = <<>>
  BY DEF Lockstep
<1>1. /\ queue = <<>> /\ stream = <<>> /\ held = <<>> /\ sent = <<>> /\ buffer = <<>>
  BY DEF Init
<1>e. <<>> \in Seq(Packet)
  OBVIOUS
<1>2. Cat(<<>>, <<>>) = <<>>
  BY <1>e, CatEmpty
<1>3. Wires(<<>>, <<>>, <<>>, <<>>) = <<>>
  BY <1>2 DEF Wires
<1> QED BY <1>1, <1>3 DEF wire

(* The inductive invariant holds in every reachable state.                *)
LEMMA LockstepHolds == Spec => [](TypeOK /\ Lockstep)
BY TypeInit, TypeStep, LockstepInit, LockstepStep, PTL DEF Spec

(* The n-th entry of the queue is the n-th reply to come, whatever the     *)
(* order of calls, deferred packets, lazy answers and losses.              *)
THEOREM WireInStep == Spec => []InStep
<1>1. Lockstep => InStep
  BY WireIs DEF Lockstep, InStep
<1> QED BY <1>1, LockstepHolds, PTL

(* Nobody is given the reply to somebody else's request.                   *)
THEOREM WireOwnReply == Spec => []OwnReply
<1>1. Init => OwnReply
  BY DEF Init, OwnReply, None
<1>2. TypeOK /\ Lockstep /\ OwnReply /\ [Next]_vars => OwnReply'
  <2> SUFFICES ASSUME TypeOK, Lockstep, OwnReply, [Next]_vars PROVE OwnReply'
    OBVIOUS
  <2>1. ASSUME NEW o \in Op, NEW r \in Packet, Tell(o, r), r.op = o PROVE OwnReply'
    BY <2>1 DEF Tell, OwnReply, TypeOK
  <2>2. ASSUME UNCHANGED got PROVE OwnReply'
    BY <2>2 DEF OwnReply
  <2>3. ASSUME NEW o \in Op, NEW k, Call(o, k) PROVE OwnReply'
    <3> DEFINE r(p) == [op |-> o, part |-> p]
    <3>1. \A p \in Part : r(p) \in Packet /\ r(p).op = o
      BY DEF Packet
    <3>2. "closed" \in Part /\ "deferred" \in Part
      BY DEF Part
    <3>3. \/ UNCHANGED got
          \/ Tell(o, r("closed"))
          \/ Tell(o, r("deferred"))
      BY <2>3 DEF Call, Send, Refuse
    <3> HIDE DEF r
    <3> QED BY <2>1, <2>2, <3>1, <3>2, <3>3
  <2>4. CASE Data
    <3>1. Head(queue) = Head(stream)
      <4>1. stream # <<>> /\ link \in {"open", "detaching"}
        BY <2>4 DEF Data, TypeOK, Lockstep
      <4>2. queue = Wires(stream, held, sent, buffer)
        BY <4>1 DEF Lockstep, wire
      <4>3. Head(Wires(stream, held, sent, buffer)) = Head(stream)
        BY <4>1, Received DEF TypeOK
      <4> QED BY <4>2, <4>3
    <3>2. Head(stream) \in Packet
      BY <2>4, HeadThenTail DEF Data, TypeOK
    <3>3. \/ UNCHANGED got
          \/ Tell(Head(queue).op, Head(stream))
      BY <2>4 DEF Data, Settle
    <3>4. CASE Head(queue).op \in Op
      BY <2>1, <2>2, <3>1, <3>2, <3>3, <3>4
    <3>5. CASE Head(queue).op \notin Op
      BY <2>2, <3>3, <3>5 DEF Tell, TypeOK, OwnReply
    <3> QED BY <3>4, <3>5
  <2>5. CASE Lost
    <3>1. CASE Reject
      BY <3>1 DEF Reject, OwnReply, TypeOK
    <3>2. CASE ~Reject
      BY <2>2, <2>5, <3>2 DEF Lost, ops
    <3> QED BY <3>1, <3>2
  <2>6. CASE Cancel \/ ServerAnswers \/ Detach \/ DetachTimer \/ UNCHANGED vars
    BY <2>2, <2>6 DEF Cancel, ServerAnswers, Detach, DetachTimer, vars, ops
  <2> QED
    BY <2>3, <2>4, <2>5, <2>6
    DEF Next, Execute, Fetch, Prepare, OpenBlob, Free, CloseBlob, Batch
<1> QED BY <1>1, <1>2, LockstepHolds, PTL DEF Spec

-----------------------------------------------------------------------------
(* Every callback is called once.  What the queue still owes a call is     *)
(* taken as a sequence: the entries that end with its answer.              *)

(* The entries that settle nothing for the call o.                         *)
NotOwed(o) == {e \in Packet : e.op # o \/ Silent(e)}

(* The entries that do.                                                    *)
owes(o) == Without(queue, NotOwed(o))

(* The account of one call of kind k: c calls of its callback, n packets   *)
(* that settle() waits for, the entries w.  The last entry is the answer,  *)
(* and only the entries of a batch may come before it.                     *)
Account(k, c, n, w) ==
    /\ k = "none" => c = 0 /\ n = 0 /\ w = <<>>
    /\ k # "none" => c = IF w = <<>> THEN 1 ELSE 0
    /\ IF k = "batch" THEN n = Len(w) ELSE n = 0 /\ Len(w) <= 1
    /\ \A i \in 1..Len(w) : /\ Answers(w[i]) <=> i = Len(w)
                            /\ InBatch(w[i]) <=> k = "batch"

Balanced == \A o \in Op : Account(kind[o], calls[o], left[o], owes(o))

(* Nothing but calls and op_detach is on the queue.                        *)
Addressee(e) == e.op \in Op \/ e = [op |-> "db", part |-> "detach"]
Addressed == \A i \in 1..Len(queue) : Addressee(queue[i])

(* The packets of a batch, the first n of them.                            *)
FirstPackets(o, n) == [i \in 1..n |-> [op |-> o, part |-> BatchPart(i)]]

(* One more packet of a batch.                                             *)
LEMMA FirstPacketsNext ==
    ASSUME NEW o \in Op, NEW n \in Nat
    PROVE  /\ FirstPackets(o, n) \in Seq(Packet) /\ Len(FirstPackets(o, n)) = n
           /\ [op |-> o, part |-> BatchPart(n + 1)] \in Packet
           /\ FirstPackets(o, n + 1)
                = FirstPackets(o, n) \o <<[op |-> o, part |-> BatchPart(n + 1)]>>
<1> DEFINE e == [i \in Nat |-> [op |-> o, part |-> BatchPart(i)]]
<1>1. \A i \in Nat : e[i] \in Packet
  BY DEF Packet, Part, BatchPart
<1>0. /\ FirstPackets(o, n) = [i \in 1..n |-> e[i]]
      /\ FirstPackets(o, n + 1) = [i \in 1..(n + 1) |-> e[i]]
      /\ e[n + 1] = [op |-> o, part |-> BatchPart(n + 1)]
  BY DEF FirstPackets
<1> HIDE DEF e
<1> DEFINE F(m) == [i \in 1..m |-> e[i]]
<1>2. \A m \in Nat : F(m) \in Seq(Packet) /\ Len(F(m)) = m
  <2> TAKE m \in Nat
  <2>1. F(m) \in [1..m -> Packet]
    BY <1>1
  <2>2. F(m) \in Seq(Packet)
    BY <2>1, SeqDef
  <2> QED BY <2>2, LenProperties
<1>3. n + 1 \in Nat
  OBVIOUS
<1>4. F(n) \in Seq(Packet) /\ Len(F(n)) = n /\ F(n + 1) \in Seq(Packet) /\ Len(F(n + 1)) = n + 1
  BY <1>2, <1>3
<1>5. \A i \in 1..n : F(n)[i] = e[i]
  OBVIOUS
<1>6. \A i \in 1..(n + 1) : F(n + 1)[i] = e[i]
  OBVIOUS
<1> HIDE DEF F
<1> DEFINE l == <<e[n + 1]>>
<1>7. l \in Seq(Packet) /\ Len(l) = 1 /\ l[1] = e[n + 1]
  BY <1>1
<1> HIDE DEF l
<1>8. /\ F(n) \o l \in Seq(Packet) /\ Len(F(n) \o l) = n + 1
      /\ \A i \in 1..(n + 1) : (F(n) \o l)[i] = IF i <= n THEN F(n)[i] ELSE l[i - n]
  <2> DEFINE f == F(n)
  <2>1. f \in Seq(Packet) /\ Len(f) = n
    BY <1>4
  <2> HIDE DEF f
  <2>2. /\ f \o l \in Seq(Packet) /\ Len(f \o l) = Len(f) + Len(l)
        /\ \A i \in 1..(Len(f) + Len(l)) :
              (f \o l)[i] = IF i <= Len(f) THEN f[i] ELSE l[i - Len(f)]
    BY <1>7, <2>1, ConcatProperties
  <2>3. /\ f \o l \in Seq(Packet) /\ Len(f \o l) = n + 1
        /\ \A i \in 1..(n + 1) : (f \o l)[i] = IF i <= n THEN f[i] ELSE l[i - n]
    BY <1>7, <2>1, <2>2
  <2> QED BY <2>3 DEF f
<1>9. \A i \in 1..(n + 1) : F(n + 1)[i] = (F(n) \o l)[i]
  <2> TAKE i \in 1..(n + 1)
  <2>1. CASE i <= n
    BY <1>5, <1>6, <1>8, <2>1
  <2>2. CASE i = n + 1
    <3>1. ~(i <= n) /\ i - n = 1
      BY <2>2
    <3>2. (F(n) \o l)[i] = l[i - n]
      BY <1>8, <3>1
    <3>3. l[i - n] = e[n + 1]
      BY <1>7, <3>1
    <3>4. F(n + 1)[n + 1] = e[n + 1]
      BY <1>6
    <3> QED BY <2>2, <3>2, <3>3, <3>4
  <2>3. i <= n \/ i = n + 1
    OBVIOUS
  <2> QED BY <2>1, <2>2, <2>3
<1>10. F(n + 1) = F(n) \o l
  BY <1>4, <1>8, <1>9, SeqEqual
<1> QED BY <1>0, <1>1, <1>3, <1>4, <1>10 DEF F, l

(* What the packets of a call leave on its account and in the line of the  *)
(* answers.                                                                *)
Answering(o, w) == \E e \in Packet : e.op = o /\ Answers(e) /\ w = <<e>>

(* What an operation sends is what it owes its caller, and is nobody else's. *)
LEMMA PacketsOwed ==
    ASSUME NEW o \in Op, NEW k \in AllKinds
    PROVE  /\ Account(k, IF Deferred(k) THEN 1 ELSE 0,
                      IF k = "batch" THEN Chunks + 2 ELSE 0,
                      Without(Packets(o, k), NotOwed(o)))
           /\ Deferred(k) => Without(Packets(o, k), Others) = <<>>
           /\ ~Deferred(k) => Answering(o, Without(Packets(o, k), Others))
<1> DEFINE e(p) == [op |-> o, part |-> p]
<1>1. \A p \in Part : e(p) \in Packet /\ e(p).op = o /\ e(p).part = p
  BY DEF Packet
<1>2. \A p \in Part : /\ Silent(e(p)) <=> p \in {"allocate", "deferred", "release"}
                      /\ InBatch(e(p)) <=> p \in {"create", "message", "exec"}
                      /\ Answers(e(p)) <=> p \in {"reply", "prepare", "exec"}
  BY DEF Silent, InBatch, Answers
<1>3. \A p \in Part : /\ e(p) \in NotOwed(o) <=> p \in {"allocate", "deferred", "release"}
                      /\ e(p) \in Others <=> p \notin {"reply", "prepare", "exec"}
  BY <1>1, <1>2 DEF NotOwed, Others
<1> HIDE DEF e
<1>4. \A p \in Part :
         /\ Without(<<e(p)>>, NotOwed(o)) =
               IF p \in {"allocate", "deferred", "release"} THEN <<>> ELSE <<e(p)>>
         /\ Without(<<e(p)>>, Others) =
               IF p \in {"reply", "prepare", "exec"} THEN <<e(p)>> ELSE <<>>
  BY <1>1, <1>3, WithoutSingle
<1>5. \A p : p \in Part => <<e(p)>> \in Seq(Packet) /\ Len(<<e(p)>>) = 1 /\ <<e(p)>>[1] = e(p)
  BY <1>1
<1>6. ASSUME NEW p \in {"reply", "prepare"}, k \notin {"batch", "none"}, ~Deferred(k)
      PROVE  Account(k, 0, 0, <<e(p)>>) /\ Answering(o, <<e(p)>>)
  <2>1. p \in Part /\ ~InBatch(e(p)) /\ Answers(e(p))
    BY <1>2 DEF Part
  <2>2. <<e(p)>> # <<>> /\ Len(<<e(p)>>) = 1 /\ <<e(p)>>[1] = e(p)
    OBVIOUS
  <2>3. Answering(o, <<e(p)>>)
    BY <1>1, <2>1 DEF Answering
  <2>4. Account(k, 0, 0, <<e(p)>>)
    BY <1>6, <2>1, <2>2 DEF Account
  <2> QED BY <2>3, <2>4
<1>7. CASE k \in {"execute", "fetch", "openBlob"}
  <2>1. Packets(o, k) = <<e("reply")>> /\ ~Deferred(k) /\ "reply" \in Part
    BY <1>7 DEF Packets, Deferred, Part, e
  <2> QED BY <1>4, <1>6, <1>7, <2>1
<1>8. CASE Deferred(k)
  <2>1. Packets(o, k) = <<e("deferred")>> /\ "deferred" \in Part /\ k \notin {"batch", "none"}
    BY <1>8 DEF Packets, Deferred, Part, e
  <2>2. Account(k, 1, 0, <<>>)
    <3>1. Len(<<>>) = 0 /\ 1..0 = {}
      OBVIOUS
    <3> QED BY <2>1, <3>1 DEF Account
  <2> QED BY <1>4, <1>8, <2>1, <2>2
<1>9. CASE k = "prepare"
  <2>1. /\ Packets(o, k) = <<e("allocate"), e("prepare")>> /\ ~Deferred(k)
        /\ "allocate" \in Part /\ "prepare" \in Part
    BY <1>9 DEF Packets, Deferred, Part, e
  <2> DEFINE a == <<e("allocate")>>
  <2>2. Packets(o, k) = a \o <<e("prepare")>>
    BY <2>1
  <2>3. /\ a \in Seq(Packet) /\ e("prepare") \in Packet
        /\ Without(a, NotOwed(o)) = <<>> /\ Without(a, Others) = <<>>
        /\ e("prepare") \notin NotOwed(o) /\ e("prepare") \notin Others
    BY <1>1, <1>3, <1>4, <1>5, <2>1
  <2> HIDE DEF a
  <2>4. <<>> \o <<e("prepare")>> = <<e("prepare")>>
    OBVIOUS
  <2>5. /\ Without(Packets(o, k), NotOwed(o)) = <<e("prepare")>>
        /\ Without(Packets(o, k), Others) = <<e("prepare")>>
    BY <2>2, <2>3, <2>4, WithoutMore
  <2> QED BY <1>6, <1>9, <2>1, <2>5
<1>10. CASE k = "batch"
  <2> DEFINE n == Chunks + 1
             F(m) == FirstPackets(o, m)
  <2>1. n \in Nat /\ n >= 1 /\ n + 1 \in Nat
    BY WireAssumption
  <2>2. /\ \A i \in 1..n : BatchPart(i) \in {"create", "message"}
        /\ BatchPart(n + 1) = "exec" /\ BatchPart((n + 1) + 1) = "release"
    BY WireAssumption DEF BatchPart
  <2>3. Packets(o, k) = F((n + 1) + 1) /\ ~Deferred(k)
    <3>1. Chunks + 3 = (n + 1) + 1
      BY WireAssumption
    <3> QED BY <1>10, <3>1 DEF Packets, Deferred, FirstPackets
  <2>4. \A i \in 1..(n + 1) : /\ F(n + 1)[i] = e(BatchPart(i))
                              /\ BatchPart(i) \in {"create", "message", "exec"}
                              /\ BatchPart(i) = "exec" <=> i = n + 1
    BY <2>1, <2>2 DEF FirstPackets, e
  <2>5. \A i \in 1..n : F(n)[i] = e(BatchPart(i))
    BY DEF FirstPackets, e
  <2>a. {"create", "message", "exec", "release"} \subseteq Part
    BY DEF Part
  <2>6. /\ F(n) \in Seq(Packet) /\ Len(F(n)) = n
        /\ F(n + 1) = F(n) \o <<e("exec")>>
    BY <2>1, <2>2, FirstPacketsNext DEF e
  <2>7. /\ F(n + 1) \in Seq(Packet) /\ Len(F(n + 1)) = n + 1
        /\ F((n + 1) + 1) = F(n + 1) \o <<e("release")>>
    BY <2>1, <2>2, FirstPacketsNext DEF e
  <2> HIDE DEF F, n
  <2>8. Without(F(n + 1), NotOwed(o)) = F(n + 1)
    <3>1. \A i \in 1..Len(F(n + 1)) : F(n + 1)[i] \notin NotOwed(o)
      BY <1>3, <2>4, <2>7, <2>a
    <3> QED BY <2>7, <3>1, WithoutNothing
  <2>9. Without(F(n), Others) = <<>>
    <3>1. \A i \in 1..Len(F(n)) : F(n)[i] \in Others
      BY <1>3, <2>2, <2>5, <2>6, <2>a
    <3> QED BY <2>6, <3>1, WithoutAll
  <2>10. Without(F(n + 1), Others) = <<e("exec")>>
    <3>1. <<>> \o <<e("exec")>> = <<e("exec")>>
      OBVIOUS
    <3>2. e("exec") \in Packet /\ e("exec") \notin Others
      BY <1>1, <1>3, <2>a
    <3>3. Without(F(n) \o <<e("exec")>>, Others) = <<>> \o <<e("exec")>>
      BY <2>6, <2>9, <3>2, WithoutMore
    <3> QED BY <2>6, <3>1, <3>3
  <2>11. e("release") \in Packet /\ e("release") \in NotOwed(o) /\ e("release") \in Others
    BY <1>1, <1>3, <2>a
  <2> DEFINE g == F(n + 1)
  <2>b. /\ g \in Seq(Packet) /\ Packets(o, k) = g \o <<e("release")>>
        /\ Without(g, NotOwed(o)) = g /\ Without(g, Others) = <<e("exec")>>
    BY <2>3, <2>7, <2>8, <2>10
  <2> HIDE DEF g
  <2>12. Without(Packets(o, k), NotOwed(o)) = F(n + 1)
    <3>1. Without(g \o <<e("release")>>, NotOwed(o)) = Without(g, NotOwed(o))
      BY <2>b, <2>11, WithoutMore
    <3> QED BY <2>b, <3>1 DEF g
  <2>13. Without(Packets(o, k), Others) = <<e("exec")>>
    <3>1. Without(g \o <<e("release")>>, Others) = Without(g, Others)
      BY <2>b, <2>11, WithoutMore
    <3> QED BY <2>b, <3>1
  <2>14. Account(k, 0, n + 1, F(n + 1))
    <3>1. F(n + 1) # <<>> /\ n + 1 = Len(F(n + 1))
      BY <2>1, <2>7, EmptySeq
    <3>2. \A i \in 1..Len(F(n + 1)) : /\ Answers(F(n + 1)[i]) <=> i = Len(F(n + 1))
                                      /\ InBatch(F(n + 1)[i])
      BY <1>2, <2>4, <2>7, <2>a
    <3> QED BY <1>10, <3>1, <3>2 DEF Account
  <2>15. Answering(o, <<e("exec")>>)
    BY <1>1, <1>2, <2>a DEF Answering
  <2>16. n + 1 = Chunks + 2
    BY WireAssumption DEF n
  <2> QED BY <1>10, <2>3, <2>12, <2>13, <2>14, <2>15, <2>16
<1> QED BY <1>7, <1>8, <1>9, <1>10 DEF AllKinds, Deferred

(* They are nobody else's.                                                 *)
LEMMA PacketsOwn ==
    ASSUME NEW o \in Op, NEW k \in AllKinds
    PROVE  /\ \A i \in 1..Len(Packets(o, k)) : Packets(o, k)[i].op = o
           /\ \A x \in Op \ {o} : Without(Packets(o, k), NotOwed(x)) = <<>>
<1>1. Packets(o, k) \in Seq(Packet)
  BY PacketsTyped
<1>2. \A i \in 1..Len(Packets(o, k)) : Packets(o, k)[i].op = o
  <2>1. CASE k = "batch"
    <3>1. Packets(o, k) = [i \in 1..(Chunks + 3) |-> [op |-> o, part |-> BatchPart(i)]]
      BY <2>1 DEF Packets, Deferred
    <3>2. DOMAIN Packets(o, k) = 1..(Chunks + 3)
      BY <3>1
    <3>3. 1..Len(Packets(o, k)) = 1..(Chunks + 3)
      BY <1>1, <3>2, LenProperties
    <3>4. \A i \in 1..(Chunks + 3) : Packets(o, k)[i].op = o
      BY <3>1
    <3> QED BY <3>3, <3>4
  <2>2. CASE k = "prepare"
    BY <2>2 DEF Packets, Deferred
  <2>3. CASE k \notin {"batch", "prepare"}
    <3> DEFINE e(p) == [op |-> o, part |-> p]
    <3>1. \A p : e(p).op = o
      OBVIOUS
    <3>2. Packets(o, k) = <<e("deferred")>> \/ Packets(o, k) = <<e("reply")>>
      BY <2>3 DEF Packets, Deferred
    <3> HIDE DEF e
    <3>3. ASSUME NEW x PROVE \A i \in 1..Len(<<x>>) : <<x>>[i] = x
      OBVIOUS
    <3> QED BY <3>1, <3>2, <3>3
  <2> QED BY <2>1, <2>2, <2>3
<1>3. ASSUME NEW x \in Op \ {o}
      PROVE  Without(Packets(o, k), NotOwed(x)) = <<>>
  <2>1. \A i \in 1..Len(Packets(o, k)) : Packets(o, k)[i] \in NotOwed(x)
    BY <1>1, <1>2, ElementOfSeq DEF NotOwed
  <2> QED BY <1>1, <2>1, WithoutAll
<1> QED BY <1>2, <1>3

(* What the queue owes after a step.  More entries:                        *)
LEMMA QueueGrows ==
    ASSUME TypeOK, NEW p \in Seq(Packet), queue' = queue \o p, NEW o
    PROVE  owes(o)' = owes(o) \o Without(p, NotOwed(o))
<1>1. owes(o)' = Without(queue \o p, NotOwed(o))
  BY DEF owes, NotOwed
<1>2. queue \in Seq(Packet)
  BY DEF TypeOK
<1>3. Without(queue \o p, NotOwed(o)) = Without(queue, NotOwed(o)) \o Without(p, NotOwed(o))
  BY <1>2, WithoutCat
<1> QED BY <1>1, <1>3 DEF owes

(* The first one taken off:                                                *)
LEMMA QueueShrinks ==
    ASSUME TypeOK, queue # <<>>, queue' = Tail(queue), NEW o
    PROVE  /\ Head(queue) \in NotOwed(o) => owes(o)' = owes(o)
           /\ Head(queue) \notin NotOwed(o) =>
                 /\ owes(o) # <<>> /\ Head(owes(o)) = Head(queue)
                 /\ owes(o)' = Tail(owes(o))
<1>1. owes(o)' = Without(Tail(queue), NotOwed(o))
  BY DEF owes, NotOwed
<1> QED BY <1>1, WithoutTail DEF owes, TypeOK

(* All of them dropped:                                                    *)
LEMMA QueueEmptied ==
    ASSUME queue' = <<>>, NEW o
    PROVE  owes(o)' = <<>>
<1>1. owes(o)' = Without(<<>>, NotOwed(o))
  BY DEF owes, NotOwed
<1>2. <<>> \in Seq(Packet) /\ \A i \in 1..Len(<<>>) : <<>>[i] \in NotOwed(o)
  OBVIOUS
<1> QED BY <1>1, <1>2, WithoutAll

(* Its type, and when something is owed.                                   *)
LEMMA OwesTyped ==
    ASSUME TypeOK, NEW o
    PROVE  /\ owes(o) \in Seq(Packet) /\ Len(owes(o)) \in Nat
           /\ owes(o) = <<>> <=> Len(owes(o)) = 0
           /\ Owing(o) <=> owes(o) # <<>>
<1> DEFINE w == owes(o)
<1>1. w \in Seq(Packet) /\ ToSet(w) = ToSet(queue) \ NotOwed(o)
  BY WithoutProperties DEF owes, TypeOK
<1>2. /\ DOMAIN queue = 1..Len(queue)
      /\ \A i \in DOMAIN queue : queue[i] \in Packet
  BY LenProperties, ElementOfSeq DEF TypeOK
<1>3. Owing(o) <=> ToSet(queue) \ NotOwed(o) # {}
  BY <1>2 DEF Owing, ToSet, NotOwed
<1> HIDE DEF w
<1>4. /\ Len(w) \in Nat /\ DOMAIN w = 1..Len(w)
      /\ w = <<>> <=> Len(w) = 0
  BY <1>1, LenProperties, EmptySeq
<1>5. w = <<>> <=> ToSet(w) = {}
  <2>1. ToSet(w) = {w[i] : i \in 1..Len(w)}
    BY <1>4 DEF ToSet
  <2>2. CASE Len(w) = 0
    BY <1>4, <2>1, <2>2
  <2>3. CASE Len(w) # 0
    <3>1. 1 \in 1..Len(w)
      BY <1>4, <2>3
    <3> QED BY <1>4, <2>1, <2>3, <3>1
  <2> QED BY <2>2, <2>3
<1> QED BY <1>1, <1>3, <1>4, <1>5 DEF w

(* The first entry of an account is settled: settle() of a batch waits for *)
(* one packet less, and calls back with the last; so does every other      *)
(* entry.                                                                  *)
LEMMA AccountSettles ==
    ASSUME NEW k, NEW c, NEW n, NEW w \in Seq(Packet), w # <<>>,
           Account(k, c, n, w)
    PROVE  /\ k # "none" /\ c = 0
           /\ InBatch(Head(w)) => k = "batch" /\ n \in Nat \ {0}
           /\ InBatch(Head(w)) /\ n > 1 =>
                 Account(k, 0, n - 1, Tail(w)) /\ ~Answers(Head(w)) /\ Tail(w) # <<>>
           /\ InBatch(Head(w)) /\ n <= 1 =>
                 Account(k, 1, n - 1, Tail(w)) /\ Answers(Head(w)) /\ Tail(w) = <<>>
           /\ ~InBatch(Head(w)) =>
                 Account(k, 1, n, Tail(w)) /\ Answers(Head(w)) /\ Tail(w) = <<>>
<1> DEFINE t == Tail(w)
<1>1. /\ Len(w) \in Nat \ {0} /\ Head(w) = w[1] /\ 1 \in 1..Len(w)
      /\ t \in Seq(Packet) /\ Len(t) = Len(w) - 1
      /\ \A i \in 1..Len(t) : t[i] = w[i + 1]
  BY HeadTailProperties, EmptySeq
<1> HIDE DEF t
<1>2. t = <<>> <=> Len(t) = 0
  BY <1>1, EmptySeq
<1>3. /\ k # "none" /\ c = 0
      /\ IF k = "batch" THEN n = Len(w) ELSE n = 0 /\ Len(w) <= 1
      /\ \A i \in 1..Len(w) : /\ Answers(w[i]) <=> i = Len(w)
                              /\ InBatch(w[i]) <=> k = "batch"
  BY DEF Account
<1>4. \A i \in 1..Len(t) : /\ Answers(t[i]) <=> i = Len(t)
                           /\ InBatch(t[i]) <=> k = "batch"
  <2> TAKE i \in 1..Len(t)
  <2>1. i + 1 \in 1..Len(w) /\ t[i] = w[i + 1] /\ (i + 1 = Len(w) <=> i = Len(t))
    BY <1>1
  <2> QED BY <1>3, <2>1
<1>5. /\ InBatch(Head(w)) <=> k = "batch"
      /\ Answers(Head(w)) <=> Len(w) = 1
  BY <1>1, <1>3
<1>6. CASE k = "batch"
  <2>1. n = Len(w) /\ n - 1 = Len(t)
    BY <1>1, <1>3, <1>6
  <2>2. CASE n > 1
    <3>1. t # <<>> /\ Len(w) # 1 /\ ~(n <= 1)
      BY <1>1, <1>2, <2>1, <2>2
    <3>2. Account(k, 0, n - 1, t)
      BY <1>4, <1>6, <2>1, <3>1 DEF Account
    <3> QED BY <1>1, <1>3, <1>5, <1>6, <2>1, <2>2, <3>1, <3>2 DEF t
  <2>3. CASE n <= 1
    <3>1. t = <<>> /\ Len(w) = 1 /\ ~(n > 1)
      BY <1>1, <1>2, <2>1, <2>3
    <3>2. Account(k, 1, n - 1, t)
      BY <1>4, <1>6, <2>1, <3>1 DEF Account
    <3> QED BY <1>1, <1>3, <1>5, <1>6, <2>1, <2>3, <3>1, <3>2 DEF t
  <2> QED BY <1>1, <2>1, <2>2, <2>3
<1>7. CASE k # "batch"
  <2>1. n = 0 /\ Len(w) = 1 /\ Len(t) = 0 /\ t = <<>>
    BY <1>1, <1>2, <1>3, <1>7
  <2>2. Account(k, 1, n, t)
    BY <1>3, <1>4, <1>7, <2>1 DEF Account
  <2> QED BY <1>3, <1>5, <1>7, <2>1, <2>2 DEF t
<1> QED BY <1>6, <1>7

(* A call opens its account, with what it sends or with a refusal.         *)
LEMMA CallBalances ==
    ASSUME TypeOK, Balanced, NEW o \in Op, NEW k, Call(o, k)
    PROVE  Balanced'
<1>1. k \in AllKinds /\ k # "none" /\ kind[o] = "none" /\ kind' = [kind EXCEPT ![o] = k]
  BY WireAssumption DEF Call, AllKinds
<1>2. /\ \A x \in Op : Account(kind[x], calls[x], left[x], owes(x))
      /\ calls[o] = 0 /\ left[o] = 0 /\ owes(o) = <<>>
  BY <1>1 DEF Balanced, Account
<1>3. /\ kind'[o] = k
      /\ \A x \in Op \ {o} : kind'[x] = kind[x]
  BY <1>1 DEF TypeOK
<1>4. CASE Send(o, k)
  <2> DEFINE P == Packets(o, k)
  <2>1. P \in Seq(Packet) /\ queue' = queue \o P
    BY <1>1, <1>4, PacketsTyped DEF Send, Slots
  <2>2. Deferred(k) \in BOOLEAN
    BY DEF Deferred
  <2>3. /\ calls'[o] = IF Deferred(k) THEN 1 ELSE 0
        /\ \A x \in Op \ {o} : calls'[x] = calls[x]
    <3>1. CASE Deferred(k)
      <4>1. calls' = [calls EXCEPT ![o] = @ + 1]
        BY <1>4, <3>1 DEF Send, Tell
      <4> QED BY <1>2, <3>1, <4>1 DEF TypeOK
    <3>2. CASE ~Deferred(k)
      <4>1. calls' = calls
        BY <1>4, <3>2 DEF Send
      <4> QED BY <1>2, <3>2, <4>1
    <3> QED BY <3>1, <3>2
  <2>4. /\ left'[o] = IF k = "batch" THEN Chunks + 2 ELSE 0
        /\ \A x \in Op \ {o} : left'[x] = left[x]
    BY <1>4 DEF Send, TypeOK
  <2>5. Account(k, IF Deferred(k) THEN 1 ELSE 0, IF k = "batch" THEN Chunks + 2 ELSE 0,
                Without(P, NotOwed(o)))
        /\ \A x \in Op \ {o} : Without(P, NotOwed(x)) = <<>>
    BY <1>1, PacketsOwed, PacketsOwn
  <2>6. Without(P, NotOwed(o)) \in Seq(Packet)
    BY <2>1, WithoutProperties
  <2> HIDE DEF P
  <2>7. owes(o)' = Without(P, NotOwed(o))
    <3>1. owes(o)' = <<>> \o Without(P, NotOwed(o))
      BY <1>2, <2>1, QueueGrows
    <3> QED BY <2>6, <3>1, ConcatEmptySeq
  <2>8. ASSUME NEW x \in Op \ {o} PROVE owes(x)' = owes(x)
    <3>1. owes(x)' = owes(x) \o <<>>
      BY <2>1, <2>5, QueueGrows
    <3> QED BY <3>1, OwesTyped, ConcatEmptySeq
  <2>9. ASSUME NEW x \in Op
        PROVE  Account(kind'[x], calls'[x], left'[x], owes(x)')
    <3>1. CASE x = o
      BY <1>3, <2>3, <2>4, <2>5, <2>7, <3>1
    <3>2. CASE x # o
      BY <1>2, <1>3, <2>3, <2>4, <2>8, <3>2
    <3> QED BY <3>1, <3>2
  <2> QED BY <2>9 DEF Balanced
<1>5. CASE Refuse(o)
  <2>1. /\ calls' = [calls EXCEPT ![o] = @ + 1] /\ left' = left /\ queue' = queue
    BY <1>5 DEF Refuse, Tell
  <2>2. calls'[o] = 1 /\ \A x \in Op \ {o} : calls'[x] = calls[x]
    BY <1>2, <2>1 DEF TypeOK
  <2>3. \A x \in Op : owes(x)' = owes(x)
    BY <2>1 DEF owes, NotOwed
  <2>4. Account(k, 1, 0, <<>>)
    <3>1. Len(<<>>) = 0 /\ 1..0 = {}
      OBVIOUS
    <3> QED BY <1>1, <3>1 DEF Account
  <2>5. ASSUME NEW x \in Op
        PROVE  Account(kind'[x], calls'[x], left'[x], owes(x)')
    <3>1. CASE x = o
      BY <1>2, <1>3, <2>1, <2>2, <2>3, <2>4, <3>1
    <3>2. CASE x # o
      BY <1>2, <1>3, <2>1, <2>2, <2>3, <3>2
    <3> QED BY <3>1, <3>2
  <2> QED BY <2>5 DEF Balanced
<1> QED BY <1>4, <1>5 DEF Call

(* A reply is booked on the account of the entry it is paired with.        *)
LEMMA DataBalances ==
    ASSUME TypeOK, Balanced, Data
    PROVE  Balanced'
<1> DEFINE e == Head(queue)
<1>1. /\ queue # <<>> /\ queue' = Tail(queue) /\ kind' = kind
      /\ Settle(e, Head(stream))
  BY DEF Data
<1>2. e \in Packet
  BY <1>1, HeadThenTail DEF TypeOK
<1> HIDE DEF e
<1> SUFFICES ASSUME NEW o \in Op
             PROVE  Account(kind'[o], calls'[o], left'[o], owes(o)')
  BY DEF Balanced
<1>3. Account(kind[o], calls[o], left[o], owes(o))
  BY DEF Balanced
<1>4. CASE e \in NotOwed(o)
  <2>1. owes(o)' = owes(o)
    BY <1>1, <1>4, QueueShrinks DEF e
  <2>2. e.op # o \/ Silent(e)
    BY <1>4 DEF NotOwed
  <2>3. calls'[o] = calls[o] /\ left'[o] = left[o]
    <3>1. CASE e.op = "db" \/ Silent(e)
      BY <1>1, <3>1 DEF Settle
    <3>2. CASE ~(e.op = "db" \/ Silent(e))
      <4>1. left' = [left EXCEPT ![e.op] = IF InBatch(e) THEN @ - 1 ELSE @]
        BY <1>1, <3>2 DEF Settle
      <4>2. calls' = calls \/ calls' = [calls EXCEPT ![e.op] = @ + 1]
        BY <1>1, <3>2 DEF Settle, Tell
      <4> QED BY <2>2, <3>2, <4>1, <4>2 DEF TypeOK
    <3> QED BY <3>1, <3>2
  <2> QED BY <1>1, <1>3, <2>1, <2>3
<1>5. CASE e \notin NotOwed(o)
  <2>1. owes(o) # <<>> /\ Head(owes(o)) = e /\ owes(o)' = Tail(owes(o))
    BY <1>1, <1>5, QueueShrinks DEF e
  <2>2. e.op = o /\ ~Silent(e) /\ e.op # "db"
    BY <1>2, <1>5, WireAssumption DEF NotOwed
  <2>3. left'[o] = IF InBatch(e) THEN left[o] - 1 ELSE left[o]
    BY <1>1, <2>2 DEF Settle, TypeOK
  <2>4. calls'[o] = IF InBatch(e) /\ ~(left[o] <= 1) THEN calls[o] ELSE calls[o] + 1
    <3>1. CASE InBatch(e) /\ ~Completes(e)
      BY <1>1, <2>2, <3>1 DEF Settle, Completes
    <3>2. CASE ~(InBatch(e) /\ ~Completes(e))
      <4>1. calls' = [calls EXCEPT ![o] = @ + 1]
        BY <1>1, <2>2, <3>2 DEF Settle, Tell
      <4> QED BY <2>2, <3>2, <4>1 DEF Completes, TypeOK
    <3> QED BY <3>1, <3>2
  <2> DEFINE w == owes(o)
  <2>5. w \in Seq(Packet)
    BY OwesTyped
  <2>6. left[o] \in Int
    BY DEF TypeOK
  <2> HIDE DEF w
  <2>7. /\ calls[o] = 0
        /\ InBatch(e) /\ left[o] > 1 => Account(kind[o], 0, left[o] - 1, Tail(w))
        /\ InBatch(e) /\ left[o] <= 1 => Account(kind[o], 1, left[o] - 1, Tail(w))
        /\ ~InBatch(e) => Account(kind[o], 1, left[o], Tail(w))
    <3>1. w # <<>> /\ Head(w) = e /\ Account(kind[o], calls[o], left[o], w)
      BY <1>3, <2>1 DEF w
    <3> QED BY <2>5, <3>1, AccountSettles
  <2>8. CASE InBatch(e) /\ left[o] > 1
    BY <1>1, <2>1, <2>3, <2>4, <2>6, <2>7, <2>8 DEF w
  <2>9. CASE InBatch(e) /\ left[o] <= 1
    BY <1>1, <2>1, <2>3, <2>4, <2>6, <2>7, <2>9 DEF w
  <2>10. CASE ~InBatch(e)
    BY <1>1, <2>1, <2>3, <2>4, <2>7, <2>10 DEF w
  <2> QED BY <2>6, <2>8, <2>9, <2>10
<1> QED BY <1>4, <1>5

(* A lost connection settles every account that is open.                   *)
LEMMA RejectBalances ==
    ASSUME TypeOK, Balanced, Reject, queue' = <<>>, UNCHANGED kind
    PROVE  Balanced'
<1> SUFFICES ASSUME NEW o \in Op
             PROVE  Account(kind'[o], calls'[o], left'[o], owes(o)')
  BY DEF Balanced
<1>1. owes(o)' = <<>>
  BY QueueEmptied
<1>2. Account(kind[o], calls[o], left[o], owes(o))
  BY DEF Balanced
<1>3. Owing(o) <=> owes(o) # <<>>
  BY OwesTyped
<1>4. /\ calls'[o] = IF Owing(o) THEN calls[o] + 1 ELSE calls[o]
      /\ left'[o] = IF Owing(o) THEN 0 ELSE left[o]
  BY DEF Reject
<1>5. Len(<<>>) = 0 /\ 1..0 = {}
  OBVIOUS
<1>6. CASE Owing(o)
  <2>1. kind[o] # "none" /\ calls[o] = 0
    BY <1>2, <1>3, <1>6 DEF Account
  <2>2. Account(kind[o], 1, 0, <<>>)
    BY <1>5, <2>1 DEF Account
  <2> QED BY <1>1, <1>4, <1>6, <2>1, <2>2
<1>7. CASE ~Owing(o)
  BY <1>1, <1>2, <1>3, <1>4, <1>7
<1> QED BY <1>6, <1>7

(* op_detach is on nobody's account.                                       *)
LEMMA DetachNowOwes ==
    ASSUME TypeOK, DetachNow, NEW o \in Op
    PROVE  owes(o)' = owes(o)
<1> DEFINE d == [op |-> "db", part |-> "detach"]
<1>1. CASE pooled = "no" /\ link = "open"
  <2>1. queue' = Append(queue, d) /\ d \in Packet /\ d.op = "db"
    BY <1>1 DEF DetachNow, Packet, Part
  <2>2. d \in NotOwed(o)
    BY <2>1, WireAssumption DEF NotOwed
  <2> HIDE DEF d
  <2>3. queue \in Seq(Packet) /\ queue' = queue \o <<d>>
    BY <2>1, AppendIsConcat DEF TypeOK
  <2>4. Without(queue \o <<d>>, NotOwed(o)) = Without(queue, NotOwed(o))
    BY <2>1, <2>2, <2>3, WithoutMore
  <2>5. owes(o)' = Without(queue \o <<d>>, NotOwed(o))
    BY <2>3 DEF owes, NotOwed
  <2> QED BY <2>4, <2>5 DEF owes
<1>2. CASE ~(pooled = "no" /\ link = "open")
  BY <1>2 DEF DetachNow, owes, NotOwed
<1> QED BY <1>1, <1>2

(* Every step keeps the accounts in order.                                 *)
LEMMA BalancedStep == TypeOK /\ Balanced /\ [Next]_vars => Balanced'
<1> SUFFICES ASSUME TypeOK, Balanced, [Next]_vars PROVE Balanced'
  OBVIOUS
<1>1. ASSUME UNCHANGED ops, \A o \in Op : owes(o)' = owes(o) PROVE Balanced'
  <2>1. kind' = kind /\ calls' = calls /\ left' = left
    BY <1>1 DEF ops
  <2> QED BY <1>1, <2>1 DEF Balanced
<1>2. ASSUME UNCHANGED ops, UNCHANGED queue PROVE Balanced'
  <2>1. \A o \in Op : owes(o)' = owes(o)
    BY <1>2 DEF owes, NotOwed
  <2> QED BY <1>1, <1>2, <2>1
<1>3. ASSUME NEW o \in Op, NEW k, Call(o, k) PROVE Balanced'
  BY <1>3, CallBalances
<1>4. CASE Data
  BY <1>4, DataBalances
<1>5. CASE Lost
  <2>1. CASE link = "detaching"
    BY <1>2, <1>5, <2>1 DEF Lost
  <2>2. CASE link # "detaching"
    BY <1>5, <2>2, RejectBalances DEF Lost
  <2> QED BY <2>1, <2>2
<1>6. CASE Detach
  <2>1. CASE DetachNow
    BY <1>1, <1>6, <2>1, DetachNowOwes DEF Detach
  <2>2. CASE ~DetachNow
    BY <1>2, <1>6, <2>2 DEF Detach
  <2> QED BY <2>1, <2>2
<1>7. CASE DetachTimer
  <2>1. CASE DetachNow
    BY <1>1, <1>7, <2>1, DetachNowOwes DEF DetachTimer
  <2>2. CASE ~DetachNow
    BY <1>2, <1>7, <2>2 DEF DetachTimer
  <2> QED BY <2>1, <2>2
<1>8. CASE Cancel \/ ServerAnswers \/ UNCHANGED vars
  BY <1>2, <1>8 DEF Cancel, ServerAnswers, vars
<1> QED
  BY <1>3, <1>4, <1>5, <1>6, <1>7, <1>8
  DEF Next, Execute, Fetch, Prepare, OpenBlob, Free, CloseBlob, Batch

(* Nobody has called yet.                                                  *)
LEMMA BalancedInit == Init => Balanced
<1> SUFFICES ASSUME Init, NEW o \in Op
             PROVE  Account(kind[o], calls[o], left[o], owes(o))
  BY DEF Balanced
<1>1. <<>> \in Seq(Packet) /\ \A i \in 1..Len(<<>>) : <<>>[i] \in NotOwed(o)
  OBVIOUS
<1>2. Without(<<>>, NotOwed(o)) = <<>>
  BY <1>1, WithoutAll
<1>3. /\ kind[o] = "none" /\ calls[o] = 0 /\ left[o] = 0 /\ owes(o) = <<>>
  BY <1>2 DEF Init, owes
<1>4. Len(<<>>) = 0 /\ 1..0 = {}
  OBVIOUS
<1> QED BY <1>3, <1>4 DEF Account

(* The inductive invariant.                                                *)
LEMMA BalancedHolds == Spec => [](TypeOK /\ Balanced)
BY TypeInit, TypeStep, BalancedInit, BalancedStep, PTL DEF Spec

(* Every callback is called exactly once, for any number of calls, packets *)
(* per batch and chunks of data: the queue owes it its answer, or it has   *)
(* been called once.                                                       *)
THEOREM WireCalledBack == Spec => []CalledBack
<1>1. TypeOK /\ Balanced => CalledBack
  <2> SUFFICES ASSUME TypeOK, Balanced, NEW o \in Op, kind[o] # "none"
               PROVE  calls[o] = IF Owing(o) THEN 0 ELSE 1
    BY DEF CalledBack
  <2>1. calls[o] = IF owes(o) = <<>> THEN 1 ELSE 0
    BY DEF Balanced, Account
  <2> QED BY <2>1, OwesTyped
<1> QED BY <1>1, BalancedHolds, PTL

-----------------------------------------------------------------------------
(* The connection implements Rpc.                                          *)

(* Only the packets of calls and op_detach are put on the queue.           *)
LEMMA AddressedStep == TypeOK /\ Addressed /\ [Next]_vars => Addressed'
<1> SUFFICES ASSUME TypeOK, Addressed, [Next]_vars PROVE Addressed'
  OBVIOUS
<1>1. ASSUME NEW p \in Seq(Packet), queue' = queue \o p,
             \A i \in 1..Len(p) : Addressee(p[i])
      PROVE  Addressed'
  <2> DEFINE q == queue \o p
  <2>1. /\ Len(q) = Len(queue) + Len(p) /\ Len(queue) \in Nat /\ Len(p) \in Nat
        /\ \A i \in 1..(Len(queue) + Len(p)) :
              q[i] = IF i <= Len(queue) THEN queue[i] ELSE p[i - Len(queue)]
    BY ConcatProperties, LenProperties DEF TypeOK
  <2> HIDE DEF q
  <2>2. ASSUME NEW i \in 1..Len(q) PROVE Addressee(q[i])
    <3>1. CASE i <= Len(queue)
      BY <2>1, <3>1 DEF Addressed
    <3>2. CASE ~(i <= Len(queue))
      <4>1. i - Len(queue) \in 1..Len(p) /\ q[i] = p[i - Len(queue)]
        BY <2>1, <3>2
      <4> QED BY <1>1, <4>1
    <3> QED BY <3>1, <3>2
  <2>3. \A e : Addressee(e)' <=> Addressee(e)
    BY DEF Addressee
  <2>4. \A i \in 1..Len(queue') : Addressee(queue'[i])
    BY <1>1, <2>2 DEF q
  <2> QED BY <2>4 DEF Addressed, Addressee
<1>2. ASSUME queue # <<>>, queue' = Tail(queue) PROVE Addressed'
  <2>1. /\ Len(queue') = Len(queue) - 1 /\ Len(queue) \in Nat
        /\ \A i \in 1..Len(queue') : queue'[i] = queue[i + 1]
    BY <1>2, HeadTailProperties, LenProperties DEF TypeOK
  <2>2. ASSUME NEW i \in 1..Len(queue') PROVE Addressee(queue'[i])
    <3>1. i + 1 \in 1..Len(queue) /\ queue'[i] = queue[i + 1]
      BY <2>1
    <3> QED BY <3>1 DEF Addressed
  <2> QED BY <2>2 DEF Addressed, Addressee
<1>3. ASSUME queue' = <<>> PROVE Addressed'
  <2>1. 1..Len(queue') = {}
    BY <1>3
  <2> QED BY <2>1 DEF Addressed
<1>4. ASSUME UNCHANGED queue PROVE Addressed'
  BY <1>4 DEF Addressed, Addressee
<1>5. ASSUME DetachNow PROVE Addressed'
  <2> DEFINE d == [op |-> "db", part |-> "detach"]
             l == <<d>>
  <2>1. CASE pooled = "no" /\ link = "open"
    <3>1. queue' = Append(queue, d) /\ d \in Packet
      BY <1>5, <2>1 DEF DetachNow, Packet, Part
    <3>2. Addressee(d)
      BY DEF Addressee
    <3> HIDE DEF d
    <3>3. l \in Seq(Packet) /\ \A i \in 1..Len(l) : l[i] = d
      BY <3>1
    <3>4. queue' = queue \o l
      BY <3>1, AppendIsConcat DEF TypeOK
    <3> HIDE DEF l
    <3> QED BY <1>1, <3>2, <3>3, <3>4
  <2>2. CASE ~(pooled = "no" /\ link = "open")
    BY <1>4, <1>5, <2>2 DEF DetachNow
  <2> QED BY <2>1, <2>2
<1>6. ASSUME NEW o \in Op, NEW k, Call(o, k) PROVE Addressed'
  <2>1. k \in AllKinds
    BY <1>6, WireAssumption DEF Call
  <2>2. CASE Send(o, k)
    <3>1. queue' = queue \o Packets(o, k) /\ Packets(o, k) \in Seq(Packet)
      BY <2>1, <2>2, PacketsTyped DEF Send, Slots
    <3>2. \A i \in 1..Len(Packets(o, k)) : Addressee(Packets(o, k)[i])
      BY <2>1, PacketsOwn DEF Addressee
    <3> QED BY <1>1, <3>1, <3>2
  <2>3. CASE Refuse(o)
    BY <1>4, <2>3 DEF Refuse
  <2> QED BY <1>6, <2>2, <2>3 DEF Call
<1>7. CASE Data
  BY <1>2, <1>7 DEF Data
<1>8. CASE Lost
  BY <1>3, <1>4, <1>8 DEF Lost
<1>9. CASE Detach
  BY <1>4, <1>5, <1>9 DEF Detach
<1>10. CASE DetachTimer
  BY <1>4, <1>5, <1>10 DEF DetachTimer
<1>11. CASE Cancel \/ ServerAnswers \/ UNCHANGED vars
  BY <1>4, <1>11 DEF Cancel, ServerAnswers, vars
<1> QED
  BY <1>6, <1>7, <1>8, <1>9, <1>10, <1>11
  DEF Next, Execute, Fetch, Prepare, OpenBlob, Free, CloseBlob, Batch

WireInv == TypeOK /\ Lockstep /\ Balanced /\ Addressed

(* All that is known of a reachable state.                                 *)
LEMMA WireInvariant == Spec => []WireInv
<1>1. Init => Addressed
  <2>1. 1..Len(<<>>) = {}
    OBVIOUS
  <2> QED BY <2>1 DEF Init, Addressed
<1>2. Init => WireInv
  BY <1>1, TypeInit, LockstepInit, BalancedInit DEF WireInv
<1>3. WireInv /\ [Next]_vars => WireInv'
  BY TypeStep, LockstepStep, BalancedStep, AddressedStep DEF WireInv
<1> QED BY <1>2, <1>3, PTL DEF Spec

(* Who waits, in the order of the entries w.                               *)
OpsOf(w) == [i \in DOMAIN w |-> w[i].op]
Somebody == Op \cup {"db", "none"}

(* The line of the empty queue.                                            *)
LEMMA OpsOfNone == OpsOf(<<>>) = <<>>
BY DEF OpsOf

(* An entry more.                                                          *)
LEMMA OpsOfMore ==
    ASSUME NEW w \in Seq(Packet), NEW e \in Packet
    PROVE  OpsOf(w \o <<e>>) = Append(OpsOf(w), e.op)
<1> DEFINE n == Len(w)
           m == OpsOf(w)
           u == Append(w, e)
           v == OpsOf(u)
<1>1. n \in Nat /\ DOMAIN w = 1..n /\ \A i \in 1..n : w[i] \in Packet
  BY LenProperties, ElementOfSeq
<1>2. \A x \in Packet : x.op \in Somebody
  BY DEF Packet, Somebody
<1>3. m \in Seq(Somebody) /\ Len(m) = n /\ \A i \in 1..n : m[i] = w[i].op
  <2>1. m \in [1..n -> Somebody]
    BY <1>1, <1>2 DEF OpsOf
  <2>2. m \in Seq(Somebody) /\ DOMAIN m = 1..n
    BY <1>1, <2>1, SeqDef
  <2> HIDE DEF n
  <2>3. Len(m) = n
    BY <1>1, <2>2, LenProperties
  <2> QED BY <1>1, <2>2, <2>3 DEF OpsOf
<1>4. /\ u \in Seq(Packet) /\ Len(u) = n + 1 /\ DOMAIN u = 1..(n + 1)
      /\ u[n + 1] = e /\ \A i \in 1..n : u[i] = w[i]
  BY AppendProperties, LenProperties
<1>5. w \o <<e>> = u
  BY AppendIsConcat
<1> HIDE DEF n, m, u
<1>6. v \in Seq(Somebody) /\ Len(v) = n + 1 /\ \A i \in 1..(n + 1) : v[i] = u[i].op
  <2>1. \A i \in 1..(n + 1) : u[i] \in Packet
    BY <1>4, ElementOfSeq
  <2>2. v \in [1..(n + 1) -> Somebody] /\ n + 1 \in Nat
    BY <1>1, <1>2, <1>4, <2>1 DEF OpsOf
  <2>3. v \in Seq(Somebody) /\ DOMAIN v = 1..(n + 1)
    BY <2>2, SeqDef
  <2>4. Len(v) = n + 1
    BY <2>2, <2>3, LenProperties
  <2> QED BY <1>4, <2>3, <2>4 DEF OpsOf
<1> HIDE DEF v
<1> DEFINE x == e.op
           a == Append(m, x)
<1>7. x \in Somebody
  BY <1>2
<1> HIDE DEF x
<1>8. /\ a \in Seq(Somebody) /\ Len(a) = n + 1
      /\ a[n + 1] = x /\ \A i \in 1..n : a[i] = m[i]
  BY <1>3, <1>7, AppendProperties
<1> HIDE DEF a
<1>9. \A i \in 1..(n + 1) : v[i] = a[i]
  <2> TAKE i \in 1..(n + 1)
  <2>1. CASE i \in 1..n
    BY <1>3, <1>4, <1>6, <1>8, <2>1
  <2>2. CASE i = n + 1
    BY <1>4, <1>6, <1>8, <2>2 DEF x
  <2>3. i \in 1..n \/ i = n + 1
    BY <1>1
  <2> QED BY <2>1, <2>2, <2>3
<1>10. v = a
  BY <1>6, <1>8, <1>9, SeqEqual
<1> QED BY <1>5, <1>10 DEF v, a, m, x

(* The first entry, and the others.                                        *)
LEMMA OpsOfTail ==
    ASSUME NEW w \in Seq(Packet), w # <<>>
    PROVE  /\ OpsOf(w) # <<>> /\ Head(OpsOf(w)) = Head(w).op
           /\ Tail(OpsOf(w)) = OpsOf(Tail(w))
<1> DEFINE n == Len(w)
           m == OpsOf(w)
           t == Tail(w)
           v == OpsOf(t)
<1>1. n \in Nat \ {0} /\ DOMAIN w = 1..n /\ \A i \in 1..n : w[i] \in Packet
  BY LenProperties, ElementOfSeq, EmptySeq
<1>2. \A x \in Packet : x.op \in Somebody
  BY DEF Packet, Somebody
<1>3. m \in Seq(Somebody) /\ Len(m) = n /\ \A i \in 1..n : m[i] = w[i].op
  <2>1. m \in [1..n -> Somebody]
    BY <1>1, <1>2 DEF OpsOf
  <2>2. m \in Seq(Somebody) /\ DOMAIN m = 1..n
    BY <1>1, <2>1, SeqDef
  <2> HIDE DEF n
  <2>3. Len(m) = n
    BY <1>1, <2>2, LenProperties
  <2> QED BY <1>1, <2>2, <2>3 DEF OpsOf
<1>4. /\ t \in Seq(Packet) /\ Len(t) = n - 1 /\ DOMAIN t = 1..(n - 1)
      /\ \A i \in 1..(n - 1) : t[i] = w[i + 1]
      /\ Head(w) = w[1]
  BY HeadTailProperties, LenProperties
<1> HIDE DEF n, m, t
<1>5. v \in Seq(Somebody) /\ Len(v) = n - 1 /\ \A i \in 1..(n - 1) : v[i] = t[i].op
  <2>1. \A i \in 1..(n - 1) : t[i] \in Packet
    BY <1>4, ElementOfSeq
  <2>2. v \in [1..(n - 1) -> Somebody] /\ n - 1 \in Nat
    BY <1>1, <1>2, <1>4, <2>1 DEF OpsOf
  <2>3. v \in Seq(Somebody) /\ DOMAIN v = 1..(n - 1)
    BY <2>2, SeqDef
  <2>4. Len(v) = n - 1
    BY <2>2, <2>3, LenProperties
  <2> QED BY <1>4, <2>3, <2>4 DEF OpsOf
<1> HIDE DEF v
<1>6. m # <<>>
  BY <1>1, <1>3, EmptySeq
<1>7. /\ Head(m) = m[1] /\ Tail(m) \in Seq(Somebody) /\ Len(Tail(m)) = n - 1
      /\ \A i \in 1..(n - 1) : Tail(m)[i] = m[i + 1]
  BY <1>3, <1>6, HeadTailProperties
<1>8. \A i \in 1..(n - 1) : Tail(m)[i] = v[i]
  <2> TAKE i \in 1..(n - 1)
  <2>1. i + 1 \in 1..n
    BY <1>1
  <2> QED BY <1>3, <1>4, <1>5, <1>7, <2>1
<1>9. Tail(m) = v
  BY <1>5, <1>7, <1>8, SeqEqual
<1>10. Head(m) = Head(w).op
  BY <1>1, <1>3, <1>4, <1>7
<1> QED BY <1>6, <1>9, <1>10 DEF m, v, t

(* The entries that are answers, in their order.                           *)
waiting == Without(queue, Others)

(* They make the abstract line.                                            *)
LEMMA LineIs == lineOf = OpsOf(waiting) /\ lineOf' = OpsOf(waiting')
BY DEF lineOf, OpsOf, waiting

(* One call's phase, from its kind, its count and its reply.               *)
PhaseOf(k, c, g) ==
    IF k = "none" THEN "new"
    ELSE IF c = 0 THEN "waiting"
    ELSE IF g.part = "closed" THEN "failed" ELSE "answered"

(* The abstract phases are those of the calls.                             *)
LEMMA PhasesAre ==
    /\ phaseOf = [o \in Op |-> PhaseOf(kind[o], calls[o], got[o])]
    /\ phaseOf' = [o \in Op |-> PhaseOf(kind'[o], calls'[o], got'[o])]
BY DEF phaseOf, PhaseOf

(* What a call does to the line: nothing when it is deferred or refused,   *)
(* its name at the end otherwise.                                          *)
LEMMA CallLine ==
    ASSUME TypeOK, NEW o \in Op, NEW k \in AllKinds
    PROVE  /\ Send(o, k) /\ Deferred(k) => waiting' = waiting
           /\ Send(o, k) /\ ~Deferred(k) => lineOf' = Append(lineOf, o)
           /\ Refuse(o) => waiting' = waiting
<1>0. waiting' = Without(queue', Others)
  BY DEF waiting, Others, Packet, Answers, Part
<1>1. queue \in Seq(Packet) /\ waiting \in Seq(Packet)
  BY WithoutProperties DEF waiting, TypeOK
<1>2. ASSUME Send(o, k)
      PROVE  waiting' = waiting \o Without(Packets(o, k), Others)
  <2>1. Packets(o, k) \in Seq(Packet) /\ queue' = queue \o Packets(o, k)
    BY <1>2, PacketsTyped DEF Send, Slots
  <2>2. Without(queue \o Packets(o, k), Others)
          = Without(queue, Others) \o Without(Packets(o, k), Others)
    BY <1>1, <2>1, WithoutCat
  <2> QED BY <1>0, <2>1, <2>2 DEF waiting
<1>3. ASSUME Send(o, k), Deferred(k) PROVE waiting' = waiting
  <2>1. Without(Packets(o, k), Others) = <<>>
    BY <1>3, PacketsOwed
  <2> QED BY <1>1, <1>2, <1>3, <2>1, ConcatEmptySeq
<1>4. ASSUME Send(o, k), ~Deferred(k) PROVE lineOf' = Append(lineOf, o)
  <2>1. Answering(o, Without(Packets(o, k), Others))
    BY <1>4, PacketsOwed
  <2>2. PICK e \in Packet : e.op = o /\ Without(Packets(o, k), Others) = <<e>>
    BY <2>1 DEF Answering
  <2>3. waiting' = waiting \o <<e>>
    BY <1>2, <1>4, <2>2
  <2>4. OpsOf(waiting \o <<e>>) = Append(OpsOf(waiting), o)
    BY <1>1, <2>2, OpsOfMore
  <2> QED BY <2>3, <2>4, LineIs
<1>5. ASSUME Refuse(o) PROVE waiting' = waiting
  BY <1>0, <1>5 DEF Refuse, waiting
<1> QED BY <1>3, <1>4, <1>5

(* A call begins, or is over at once.                                      *)
LEMMA CallImplements ==
    ASSUME WireInv, NEW o \in Op, NEW k, Call(o, k)
    PROVE  Calls!Begin(o) \/ Calls!AtOnce(o)
<1>1. k \in AllKinds /\ k # "none" /\ kind[o] = "none" /\ kind' = [kind EXCEPT ![o] = k]
  BY WireAssumption DEF Call, AllKinds
<1>2. TypeOK /\ calls[o] = 0
  BY <1>1 DEF WireInv, Balanced, Account
<1>3. kind'[o] = k /\ \A x \in Op \ {o} : kind'[x] = kind[x]
  BY <1>1, <1>2 DEF TypeOK
<1>4. phaseOf[o] = "new"
  BY <1>1, PhasesAre DEF PhaseOf
<1>5. ASSUME NEW how, PhaseOf(kind'[o], calls'[o], got'[o]) = how,
             \A x \in Op \ {o} : calls'[x] = calls[x] /\ got'[x] = got[x]
      PROVE  phaseOf' = [phaseOf EXCEPT ![o] = how]
  <2>1. \A x \in Op \ {o} : PhaseOf(kind'[x], calls'[x], got'[x])
                              = PhaseOf(kind[x], calls[x], got[x])
    BY <1>3, <1>5
  <2> HIDE DEF PhaseOf
  <2> QED BY <1>5, <2>1, PhasesAre
<1>6. ASSUME NEW r, Tell(o, r)
      PROVE  /\ calls'[o] = 1 /\ got'[o] = r
             /\ \A x \in Op \ {o} : calls'[x] = calls[x] /\ got'[x] = got[x]
  BY <1>2, <1>6 DEF Tell, TypeOK
<1>7. CASE Send(o, k) /\ ~Deferred(k)
  <2>1. calls' = calls /\ got' = got
    BY <1>7 DEF Send
  <2>2. PhaseOf(kind'[o], calls'[o], got'[o]) = "waiting"
    BY <1>1, <1>2, <1>3, <2>1 DEF PhaseOf
  <2>3. phaseOf' = [phaseOf EXCEPT ![o] = "waiting"]
    BY <1>5, <2>1, <2>2
  <2>4. lineOf' = Append(lineOf, o)
    BY <1>1, <1>2, <1>7, CallLine
  <2> QED BY <1>4, <2>3, <2>4 DEF Calls!Begin
<1>8. CASE Send(o, k) /\ Deferred(k)
  <2>1. Tell(o, [op |-> o, part |-> "deferred"])
    BY <1>8 DEF Send
  <2>2. PhaseOf(kind'[o], calls'[o], got'[o]) = "answered"
    BY <1>1, <1>3, <1>6, <2>1 DEF PhaseOf
  <2>3. phaseOf' = [phaseOf EXCEPT ![o] = "answered"]
    BY <1>5, <1>6, <2>1, <2>2
  <2>4. lineOf' = lineOf
    BY <1>1, <1>2, <1>8, CallLine, LineIs
  <2> QED BY <1>4, <2>3, <2>4 DEF Calls!AtOnce
<1>9. CASE Refuse(o)
  <2>1. Tell(o, [op |-> o, part |-> "closed"])
    BY <1>9 DEF Refuse
  <2>2. PhaseOf(kind'[o], calls'[o], got'[o]) = "failed"
    BY <1>1, <1>3, <1>6, <2>1 DEF PhaseOf
  <2>3. phaseOf' = [phaseOf EXCEPT ![o] = "failed"]
    BY <1>5, <1>6, <2>1, <2>2
  <2>4. lineOf' = lineOf
    BY <1>1, <1>2, <1>9, CallLine, LineIs
  <2> QED BY <1>4, <2>3, <2>4 DEF Calls!AtOnce
<1> QED BY <1>7, <1>8, <1>9 DEF Call

(* A reply answers the first of the line, or nobody notices.               *)
LEMMA DataImplements ==
    ASSUME WireInv, Data
    PROVE  Calls!Answer \/ UNCHANGED <<phaseOf, lineOf>>
<1> DEFINE e == Head(queue)
<1>1. /\ queue # <<>> /\ queue' = Tail(queue) /\ kind' = kind
      /\ Settle(e, Head(stream)) /\ TypeOK /\ queue \in Seq(Packet)
  BY DEF Data, WireInv, TypeOK
<1>2. e \in Packet
  BY <1>1, HeadThenTail
<1>3. Head(stream) = e
  <2>1. stream # <<>> /\ link \in {"open", "detaching"}
    BY DEF Data, TypeOK, WireInv, Lockstep
  <2>2. queue = Wires(stream, held, sent, buffer)
    BY <2>1 DEF WireInv, Lockstep, wire
  <2>3. Head(Wires(stream, held, sent, buffer)) = Head(stream)
    BY <1>1, <2>1, Received DEF TypeOK
  <2> QED BY <2>2, <2>3
<1>4. Addressee(e)
  <2>1. Head(queue) = queue[1] /\ 1 \in 1..Len(queue)
    BY <1>1, EmptySeq
  <2> QED BY <2>1 DEF WireInv, Addressed
<1>5. /\ e \in Others => waiting' = waiting
      /\ e \notin Others => waiting # <<>> /\ Head(waiting) = e /\ waiting' = Tail(waiting)
  <2>1. waiting' = Without(Tail(queue), Others)
    BY <1>1 DEF waiting, Others, Packet, Answers, Part
  <2> QED BY <1>1, <2>1, WithoutTail DEF waiting
<1> HIDE DEF e
<1>6. ASSUME UNCHANGED <<calls, got>> PROVE phaseOf' = phaseOf
  BY <1>1, <1>6, PhasesAre
<1>7. CASE e.op = "db" \/ Silent(e)
  <2>1. UNCHANGED <<calls, got>>
    BY <1>1, <1>7 DEF Settle
  <2>2. ~Answers(e)
    BY <1>4, <1>7, WireAssumption DEF Addressee, Silent, Answers
  <2>3. waiting' = waiting
    BY <1>2, <1>5, <2>2 DEF Others
  <2> QED BY <1>6, <2>1, <2>3, LineIs
<1>8. CASE ~(e.op = "db" \/ Silent(e))
  <2> DEFINE o == e.op
             w == owes(o)
  <2>1. o \in Op /\ e \notin NotOwed(o)
    BY <1>4, <1>8 DEF Addressee, NotOwed
  <2>2. w \in Seq(Packet) /\ w # <<>> /\ Head(w) = e
    BY <1>1, <2>1, QueueShrinks, OwesTyped DEF e
  <2>3. Account(kind[o], calls[o], left[o], w) /\ left[o] \in Int
    BY <1>1, <2>1 DEF WireInv, Balanced, TypeOK
  <2> HIDE DEF o, w
  <2>4. /\ kind[o] # "none" /\ calls[o] = 0
        /\ Answers(e) <=> ~(InBatch(e) /\ left[o] > 1)
    BY <2>2, <2>3, AccountSettles
  <2>5. CASE ~Answers(e)
    <3>1. UNCHANGED <<calls, got>>
      BY <1>1, <1>8, <2>3, <2>4, <2>5 DEF Settle, Completes, o
    <3>2. waiting' = waiting
      BY <1>2, <1>5, <2>5 DEF Others
    <3> QED BY <1>6, <3>1, <3>2, LineIs
  <2>6. CASE Answers(e)
    <3>1. Tell(o, e)
      BY <1>1, <1>3, <1>8, <2>3, <2>4, <2>6 DEF Settle, Completes, o
    <3>2. /\ calls'[o] = 1 /\ got'[o] = e
          /\ \A x \in Op \ {o} : calls'[x] = calls[x] /\ got'[x] = got[x]
      BY <1>1, <2>1, <2>4, <3>1 DEF Tell, TypeOK, o
    <3>3. PhaseOf(kind'[o], calls'[o], got'[o]) = "answered"
      <4>1. e.part # "closed"
        BY <2>6 DEF Answers
      <4> QED BY <1>1, <2>4, <3>2, <4>1 DEF PhaseOf
    <3>4. phaseOf' = [phaseOf EXCEPT ![o] = "answered"]
      <4>1. \A x \in Op \ {o} : PhaseOf(kind'[x], calls'[x], got'[x])
                                  = PhaseOf(kind[x], calls[x], got[x])
        BY <1>1, <3>2
      <4> QED BY <3>3, <4>1, PhasesAre
    <3>5. e \notin Others
      BY <2>6 DEF Others
    <3>6. waiting \in Seq(Packet)
      BY <1>1, WithoutProperties DEF waiting
    <3>7. lineOf # <<>> /\ Head(lineOf) = o /\ lineOf' = Tail(lineOf)
      BY <1>5, <3>5, <3>6, OpsOfTail, LineIs DEF o
    <3> QED BY <3>4, <3>7 DEF Calls!Answer
  <2> QED BY <2>5, <2>6
<1> QED BY <1>7, <1>8

(* A lost socket breaks every call that waits; after op_detach it is not   *)
(* noticed.                                                                *)
LEMMA LostImplements ==
    ASSUME WireInv, Lost
    PROVE  Calls!Break \/ UNCHANGED <<phaseOf, lineOf>>
<1>1. CASE link = "detaching"
  <2>1. UNCHANGED queue /\ UNCHANGED <<kind, calls, got>>
    BY <1>1 DEF Lost, ops
  <2>2. waiting' = waiting
    BY <2>1 DEF waiting, Others, Packet, Answers, Part
  <2>3. phaseOf' = phaseOf
    BY <2>1, PhasesAre
  <2> QED BY <2>2, <2>3, LineIs
<1>2. CASE link # "detaching"
  <2>1. queue' = <<>> /\ Reject /\ kind' = kind
    BY <1>2 DEF Lost
  <2>2. lineOf' = <<>>
    <3>1. <<>> \in Seq(Packet) /\ \A i \in 1..Len(<<>>) : <<>>[i] \in Others
      OBVIOUS
    <3>2. Without(<<>>, Others) = <<>>
      BY <3>1, WithoutAll
    <3>3. waiting' = Without(<<>>, Others)
      BY <2>1 DEF waiting, Others, Packet, Answers, Part
    <3> QED BY <3>2, <3>3, OpsOfNone, LineIs
  <2>3. ASSUME NEW o \in Op
        PROVE  PhaseOf(kind'[o], calls'[o], got'[o])
                 = IF phaseOf[o] = "waiting" THEN "failed" ELSE phaseOf[o]
    <3>1. /\ calls'[o] = IF Owing(o) THEN calls[o] + 1 ELSE calls[o]
          /\ got'[o] = IF Owing(o) THEN [op |-> o, part |-> "closed"] ELSE got[o]
      BY <2>1 DEF Reject
    <3>2. Account(kind[o], calls[o], left[o], owes(o))
      BY DEF WireInv, Balanced
    <3>3. Owing(o) <=> owes(o) # <<>>
      BY OwesTyped DEF WireInv
    <3>4. phaseOf[o] = PhaseOf(kind[o], calls[o], got[o])
      BY PhasesAre
    <3>5. CASE Owing(o)
      <4>1. kind[o] # "none" /\ calls[o] = 0
        BY <3>2, <3>3, <3>5 DEF Account
      <4>2. phaseOf[o] = "waiting"
        BY <3>4, <4>1 DEF PhaseOf
      <4>3. PhaseOf(kind'[o], calls'[o], got'[o]) = "failed"
        BY <2>1, <3>1, <3>5, <4>1 DEF PhaseOf
      <4> QED BY <4>2, <4>3
    <3>6. CASE ~Owing(o)
      <4>1. kind[o] = "none" \/ calls[o] = 1
        BY <3>2, <3>3, <3>6 DEF Account
      <4>2. phaseOf[o] # "waiting"
        BY <3>4, <4>1 DEF PhaseOf
      <4> QED BY <2>1, <3>1, <3>4, <3>6, <4>2
    <3> QED BY <3>5, <3>6
  <2>4. phaseOf' = [o \in Op |-> IF phaseOf[o] = "waiting" THEN "failed" ELSE phaseOf[o]]
    BY <2>3, PhasesAre
  <2> QED BY <2>2, <2>4 DEF Calls!Break
<1> QED BY <1>1, <1>2

(* op_detach is nobody's call.                                             *)
LEMMA DetachImplements ==
    ASSUME TypeOK, DetachNow, UNCHANGED ops
    PROVE  UNCHANGED <<phaseOf, lineOf>>
<1> DEFINE d == [op |-> "db", part |-> "detach"]
<1>0. waiting' = Without(queue', Others)
  BY DEF waiting, Others, Packet, Answers, Part
<1>1. waiting' = waiting
  <2>1. CASE pooled = "no" /\ link = "open"
    <3>1. queue' = Append(queue, d) /\ d \in Packet
      BY <2>1 DEF DetachNow, Packet, Part
    <3>2. d \in Others
      BY <3>1 DEF Others, Answers
    <3> HIDE DEF d
    <3>3. queue \in Seq(Packet) /\ queue' = queue \o <<d>>
      BY <3>1, AppendIsConcat DEF TypeOK
    <3>4. Without(queue \o <<d>>, Others) = Without(queue, Others)
      BY <3>1, <3>2, <3>3, WithoutMore
    <3> QED BY <1>0, <3>3, <3>4 DEF waiting
  <2>2. CASE ~(pooled = "no" /\ link = "open")
    BY <1>0, <2>2 DEF DetachNow, waiting
  <2> QED BY <2>1, <2>2
<1>2. phaseOf' = phaseOf
  BY PhasesAre DEF ops
<1> QED BY <1>1, <1>2, LineIs

(* Every step of the connection is a step of Rpc or a stutter.             *)
LEMMA StepImplements ==
    WireInv /\ [Next]_vars => [Calls!Next]_<<phaseOf, lineOf>>
<1> SUFFICES ASSUME WireInv, [Next]_vars PROVE Calls!Next \/ UNCHANGED <<phaseOf, lineOf>>
  OBVIOUS
<1>1. ASSUME UNCHANGED queue, UNCHANGED ops PROVE UNCHANGED <<phaseOf, lineOf>>
  <2>1. waiting' = waiting
    BY <1>1 DEF waiting, Others, Packet, Answers, Part
  <2>2. phaseOf' = phaseOf
    BY <1>1, PhasesAre DEF ops
  <2> QED BY <2>1, <2>2, LineIs
<1>2. ASSUME NEW o \in Op, NEW k, Call(o, k) PROVE Calls!Next
  BY <1>2, CallImplements DEF Calls!Next
<1>3. CASE Data
  BY <1>3, DataImplements DEF Calls!Next
<1>4. CASE Lost
  BY <1>4, LostImplements DEF Calls!Next
<1>5. CASE Detach
  BY <1>1, <1>5, DetachImplements DEF Detach, WireInv
<1>6. CASE DetachTimer
  BY <1>1, <1>6, DetachImplements DEF DetachTimer, WireInv
<1>7. CASE Cancel \/ ServerAnswers \/ UNCHANGED vars
  BY <1>1, <1>7 DEF Cancel, ServerAnswers, vars
<1> QED
  BY <1>2, <1>3, <1>4, <1>5, <1>6, <1>7
  DEF Next, Execute, Fetch, Prepare, OpenBlob, Free, CloseBlob, Batch

(* The connection, with its queue, its deferred and lazy packets and its   *)
(* batches, is a line of calls answered in their order: each call is       *)
(* answered or failed once, and the n-th answer is that of the n-th call   *)
(* that waits.                                                             *)
THEOREM WireImplementsRpc == Spec => RpcSpec
<1>1. Init => Calls!Init
  <2> SUFFICES ASSUME Init PROVE Calls!Init
    OBVIOUS
  <2>1. <<>> \in Seq(Packet) /\ \A i \in 1..Len(<<>>) : <<>>[i] \in Others
    OBVIOUS
  <2>2. waiting = <<>>
    BY <2>1, WithoutAll DEF Init, waiting
  <2>3. lineOf = <<>>
    BY <2>2, OpsOfNone, LineIs
  <2>4. phaseOf = [o \in Op |-> "new"]
    BY PhasesAre DEF Init, PhaseOf
  <2> QED BY <2>3, <2>4 DEF Calls!Init
<1> QED BY <1>1, WireInvariant, StepImplements, PTL DEF Spec, RpcSpec, Calls!Spec

-----------------------------------------------------------------------------
(* The event manager, FbEvents: its requests go over such a connection,    *)
(* which answers them in order.                                            *)
CONSTANTS Event, Change, MaxPosts, EventFaults
VARIABLES events, active, latest, listening, socket, change, closing,
          requests, replies, notices, armed, posted, refused
Manager == INSTANCE FbEvents WITH Faults <- EventFaults

Requests == [op : {"que", "cancel"}, by : Manager!By, epb : Manager!Epb]
Replies == [op : {"que", "cancel"}, by : Manager!By, ok : BOOLEAN]

(* Until close() is called or a request is refused, whatever is registered *)
(* is subscribed to, and nothing on the main connection undoes that.       *)
Undisturbed == closing = "no" /\ ~refused
Subscribed ==
    /\ Manager!Names(events) # {} => active
    /\ requests \in Seq({r \in Requests : r.by # "close"})
    /\ replies \in Seq({r \in Replies : r.by # "close" /\ r.ok})
ManagerInv == Manager!TypeOK /\ (Undisturbed => Subscribed)

(* A request that is sent.                                                 *)
LEMMA Sends ==
    ASSUME NEW S, NEW s \in Seq(S), NEW r \in S
    PROVE  Append(s, r) \in Seq(S)
  OBVIOUS

(* What is left once the first has been read.                              *)
LEMMA Takes ==
    ASSUME NEW S, NEW s \in Seq(S), s # <<>>
    PROVE  Head(s) \in S /\ Tail(s) \in Seq(S)
  BY HeadTailProperties

(* Nothing is registered yet.                                              *)
LEMMA ManagerInit ==
    Manager!Init => ManagerInv
<1> SUFFICES ASSUME Manager!Init PROVE ManagerInv
  OBVIOUS
<1>1. Manager!NoEpb \in Manager!Epb /\ Manager!Names(Manager!NoEpb) = {}
  BY DEF Manager!Names, Manager!NoEpb, Manager!Epb, Manager!Absent
<1>2. Manager!TypeOK
  <2>1. /\ events \in Manager!Epb /\ active \in BOOLEAN /\ latest \in Change \cup {"none"}
        /\ listening \in BOOLEAN /\ socket \in {"open", "ending", "closed"}
        /\ closing \in {"no", "asked", "done", "failed"} /\ refused \in BOOLEAN
    BY <1>1 DEF Manager!Init
  <2>2. change \in [Change -> {"new", "asked", "ok", "failed"}] /\ posted \in [Event -> Nat]
    BY DEF Manager!Init
  <2>3. /\ requests \in Seq(Requests) /\ replies \in Seq(Replies)
        /\ notices \in Seq(Manager!Epb) /\ armed \in Seq(Manager!Epb)
    BY DEF Manager!Init
  <2> QED
    BY <2>1, <2>2, <2>3 DEF Manager!TypeOK, Requests, Replies
<1>3. Subscribed
  BY <1>1 DEF Manager!Init, Subscribed
<1> QED
  BY <1>2, <1>3 DEF ManagerInv

(* What either kind of call sends, and that it is known to be active.      *)
LEMMA SubscribeKeeps ==
    ASSUME Manager!EventsAssumption, Manager!TypeOK, NEW c \in Change, NEW epb \in Manager!Epb,
           Manager!Subscribe(c, epb)
    PROVE  /\ active' \in BOOLEAN /\ (Manager!Names(epb) # {} => active')
           /\ change' \in [Change -> {"new", "asked", "ok", "failed"}]
           /\ requests' \in Seq(Requests)
           /\ requests \in Seq({r \in Requests : r.by # "close"}) =>
                 requests' \in Seq({r \in Requests : r.by # "close"})
<1>1. CASE Manager!Names(epb) = {}
  BY <1>1 DEF Manager!Subscribe, Manager!Answer, Manager!TypeOK, Requests
<1>2. CASE Manager!Names(epb) # {}
  <2> DEFINE r == Manager!Request("que", c, epb)
  <2>1. r \in Requests /\ r.by # "close"
    BY DEF Manager!EventsAssumption, Manager!Request, Requests, Manager!By
  <2>2. active' = TRUE /\ requests' = Append(requests, r)
        /\ change' = [change EXCEPT ![c] = "asked"]
    BY <1>2 DEF Manager!Subscribe, Manager!Answer
  <2>3. requests \in Seq(Requests)
    BY DEF Manager!TypeOK, Requests
  <2> HIDE DEF r
  <2>4. requests' \in Seq(Requests)
    BY <2>1, <2>2, <2>3, Sends
  <2>5. requests \in Seq({q \in Requests : q.by # "close"}) =>
           requests' \in Seq({q \in Requests : q.by # "close"})
    BY <2>1, <2>2, Sends
  <2>6. change' \in [Change -> {"new", "asked", "ok", "failed"}]
    BY <2>2 DEF Manager!TypeOK
  <2> QED
    BY <2>2, <2>4, <2>5, <2>6
<1> QED
  BY <1>1, <1>2

(* registerEvent() and unregisterEvent(): an active subscription stays so  *)
(* until its cancel is answered.                                           *)
LEMMA ChangeKeeps ==
    ASSUME Manager!EventsAssumption, ManagerInv, NEW c \in Change, events' \in Manager!Epb,
           \/ Manager!Refuse(c)
           \/ Manager!ChangeEvent(c),
           UNCHANGED <<listening, socket, closing, replies, notices, armed, posted, refused>>
    PROVE  ManagerInv'
<1>1. Manager!TypeOK /\ (Undisturbed => Subscribed) /\ requests \in Seq(Requests)
  BY DEF ManagerInv, Manager!TypeOK, Requests
<1>2. CASE Manager!Refuse(c)
  <2>1. /\ change' = [change EXCEPT ![c] = "failed"]
        /\ UNCHANGED <<events, active, latest, requests>>
    BY <1>2 DEF Manager!Refuse, Manager!Answer
  <2>2. Manager!TypeOK'
    BY <1>1, <2>1 DEF Manager!TypeOK
  <2>3. Undisturbed' => Subscribed'
    BY <1>1, <2>1 DEF Undisturbed, Subscribed
  <2> QED
    BY <2>2, <2>3 DEF ManagerInv
<1>3. CASE active /\ Manager!ChangeEvent(c)
  <2> DEFINE r == Manager!Request("cancel", c, Manager!NoEpb)
  <2>1. r \in Requests /\ r.by # "close"
    BY DEF Manager!EventsAssumption, Manager!Request, Requests, Manager!By, Manager!NoEpb,
       Manager!Epb
  <2>2. /\ active' = active /\ requests' = Append(requests, r) /\ latest' = c
        /\ change' = [change EXCEPT ![c] = "asked"]
    BY <1>3 DEF Manager!ChangeEvent, Manager!Answer
  <2> HIDE DEF r
  <2>3. requests' \in Seq(Requests)
    BY <1>1, <2>1, <2>2, Sends
  <2>4. Manager!TypeOK'
    BY <1>1, <2>2, <2>3 DEF Manager!TypeOK, Requests
  <2>5. Undisturbed' => Subscribed'
    BY <1>1, <1>3, <2>1, <2>2, Sends DEF Undisturbed, Subscribed
  <2> QED
    BY <2>4, <2>5 DEF ManagerInv
<1>4. CASE Manager!Subscribe(c, events') /\ latest' = c
  <2>1. /\ active' \in BOOLEAN /\ (Manager!Names(events') # {} => active')
        /\ change' \in [Change -> {"new", "asked", "ok", "failed"}]
        /\ requests' \in Seq(Requests)
        /\ requests \in Seq({r \in Requests : r.by # "close"}) =>
              requests' \in Seq({r \in Requests : r.by # "close"})
    BY <1>1, <1>4, SubscribeKeeps
  <2>2. Manager!TypeOK'
    BY <1>1, <1>4, <2>1 DEF Manager!TypeOK, Requests
  <2>3. Undisturbed' => Subscribed'
    BY <1>1, <2>1 DEF Undisturbed, Subscribed
  <2> QED
    BY <2>2, <2>3 DEF ManagerInv
<1> QED
  BY <1>2, <1>3, <1>4 DEF Manager!ChangeEvent

(* A call is made: its names are added, or taken away.                     *)
LEMMA CallKeeps ==
    ASSUME Manager!EventsAssumption, ManagerInv, NEW c \in Change, NEW names \in SUBSET Event,
           Manager!RegisterEvent(c, names) \/ Manager!UnregisterEvent(c, names)
    PROVE  ManagerInv'
<1>1. events \in Manager!Epb
  BY DEF ManagerInv, Manager!TypeOK
<1>2. events' \in Manager!Epb
  BY <1>1 DEF Manager!RegisterEvent, Manager!UnregisterEvent, Manager!Refuse, Manager!Registered,
     Manager!Epb, Manager!Absent
<1>3. /\ Manager!Refuse(c) \/ Manager!ChangeEvent(c)
      /\ UNCHANGED <<listening, socket, closing, replies, notices, armed, posted, refused>>
  BY DEF Manager!RegisterEvent, Manager!UnregisterEvent, Manager!server
<1> QED
  BY <1>2, <1>3, ChangeKeeps

(* A notification registers no name.                                       *)
LEMMA OpEventKeeps ==
    ASSUME Manager!EventsAssumption, ManagerInv, Manager!OpEvent
    PROVE  ManagerInv'
<1> DEFINE m == Head(notices)
           r == Manager!Request("que", "loop", events')
<1>1. /\ Manager!TypeOK /\ (Undisturbed => Subscribed) /\ requests \in Seq(Requests)
      /\ events \in Manager!Epb /\ notices \in Seq(Manager!Epb)
  BY DEF ManagerInv, Manager!TypeOK, Requests
<1>2. /\ notices # <<>> /\ notices' = Tail(notices)
      /\ events' = [e \in Event |->
            IF e \in Manager!Names(m) /\ events[e] # Manager!Absent THEN m[e] ELSE events[e]]
      /\ requests' = requests \/ requests' = Append(requests, r)
      /\ UNCHANGED <<active, latest, listening, socket, change, closing, replies, armed,
                     posted, refused>>
  BY DEF Manager!OpEvent, Manager!server
<1>3. m \in Manager!Epb /\ notices' \in Seq(Manager!Epb)
  BY <1>1, <1>2, Takes
<1> HIDE DEF m
<1>4. events' \in Manager!Epb /\ Manager!Names(events') \subseteq Manager!Names(events)
  BY <1>1, <1>2, <1>3 DEF Manager!Epb, Manager!Names
<1>5. r \in Requests /\ r.by # "close"
  BY <1>4 DEF Manager!EventsAssumption, Manager!Request, Requests, Manager!By
<1> HIDE DEF r
<1>6. requests' \in Seq(Requests)
  BY <1>1, <1>2, <1>5, Sends
<1>7. Manager!TypeOK'
  BY <1>1, <1>2, <1>3, <1>4, <1>6 DEF Manager!TypeOK, Requests
<1>8. ASSUME Undisturbed'
      PROVE  Subscribed'
  <2>1. Subscribed
    BY <1>1, <1>2, <1>8 DEF Undisturbed
  <2>2. requests' \in Seq({q \in Requests : q.by # "close"})
    BY <1>2, <1>5, <2>1, Sends DEF Subscribed
  <2> QED
    BY <1>2, <1>4, <2>1, <2>2 DEF Subscribed
<1> QED
  BY <1>7, <1>8 DEF ManagerInv

(* An answer: a cancel that was called for ends with what is registered    *)
(* now; only a refusal and close() end with less.                          *)
LEMMA ReplyKeeps ==
    ASSUME Manager!EventsAssumption, ManagerInv, Manager!Reply
    PROVE  ManagerInv'
<1> DEFINE r == Head(replies)
<1>1. /\ Manager!TypeOK /\ (Undisturbed => Subscribed) /\ requests \in Seq(Requests)
      /\ events \in Manager!Epb /\ replies \in Seq(Replies)
  BY DEF ManagerInv, Manager!TypeOK, Requests, Replies
<1>2. /\ replies # <<>> /\ replies' = Tail(replies)
      /\ Manager!Cancelled(r) \/ Manager!Queued(r)
      /\ UNCHANGED <<events, latest, listening, notices, armed, posted, refused>>
  BY DEF Manager!Reply, Manager!server
<1>3. r \in Replies /\ replies' \in Seq(Replies)
  BY <1>1, <1>2, Takes
<1>4. Subscribed =>
         r.by # "close" /\ r.ok /\ replies' \in Seq({q \in Replies : q.by # "close" /\ q.ok})
  BY <1>2, Takes DEF Subscribed
<1>5. /\ events' \in Manager!Epb /\ latest' \in Change \cup {"none"} /\ listening' \in BOOLEAN
      /\ notices' \in Seq(Manager!Epb) /\ armed' \in Seq(Manager!Epb)
      /\ posted' \in [Event -> Nat] /\ refused' \in BOOLEAN
  BY <1>1, <1>2 DEF Manager!TypeOK
<1>6. closing' = "no" => closing = "no"
  BY <1>2 DEF Manager!Cancelled, Manager!Queued
<1> HIDE DEF r
<1>7. CASE r.ok /\ r.by \in Change /\ Manager!Subscribe(r.by, events) /\ UNCHANGED <<socket, closing>>
  <2>1. /\ active' \in BOOLEAN /\ (Manager!Names(events) # {} => active')
        /\ change' \in [Change -> {"new", "asked", "ok", "failed"}]
        /\ requests' \in Seq(Requests)
        /\ requests \in Seq({q \in Requests : q.by # "close"}) =>
              requests' \in Seq({q \in Requests : q.by # "close"})
    BY <1>1, <1>7, SubscribeKeeps
  <2>2. Manager!TypeOK'
    BY <1>1, <1>3, <1>5, <1>7, <2>1 DEF Manager!TypeOK, Requests, Replies
  <2>3. Undisturbed' => Subscribed'
    BY <1>1, <1>2, <1>4, <1>7, <2>1 DEF Undisturbed, Subscribed
  <2> QED
    BY <2>2, <2>3 DEF ManagerInv
<1>8. CASE /\ r.by = "close" \/ ~r.ok
           /\ active' \in BOOLEAN /\ change' \in [Change -> {"new", "asked", "ok", "failed"}]
           /\ socket' \in {"open", "ending", "closed"}
           /\ closing' \in {"no", "asked", "done", "failed"} /\ requests' = requests
  <2>1. Manager!TypeOK'
    BY <1>1, <1>3, <1>5, <1>8 DEF Manager!TypeOK, Requests, Replies
  <2>2. ~Undisturbed'
    BY <1>1, <1>2, <1>4, <1>6, <1>8 DEF Undisturbed
  <2> QED
    BY <2>1, <2>2 DEF ManagerInv
<1>9. CASE Manager!Queued(r) /\ r.ok
  <2>1. /\ active' = active /\ UNCHANGED <<requests, socket, closing>>
        /\ change' \in [Change -> {"new", "asked", "ok", "failed"}]
    BY <1>1, <1>9 DEF Manager!Queued, Manager!Answer, Manager!TypeOK
  <2>2. Manager!TypeOK'
    BY <1>1, <1>3, <1>5, <2>1 DEF Manager!TypeOK, Requests, Replies
  <2>3. Undisturbed' => Subscribed'
    BY <1>1, <1>2, <1>4, <2>1 DEF Undisturbed, Subscribed
  <2> QED
    BY <2>2, <2>3 DEF ManagerInv
<1>10. CASE Manager!Queued(r) /\ ~r.ok
  BY <1>1, <1>8, <1>10 DEF Manager!Queued, Manager!Answer, Manager!TypeOK
<1>11. CASE Manager!Cancelled(r)
  BY <1>1, <1>7, <1>8, <1>11 DEF Manager!Cancelled, Manager!Answer, Manager!TypeOK
<1> QED
  BY <1>2, <1>9, <1>10, <1>11

(* close(), its timer and the end of the event socket.                     *)
LEMMA CloseKeeps ==
    ASSUME Manager!EventsAssumption, ManagerInv,
           Manager!Close \/ Manager!CloseTimer \/ Manager!SocketCloses
    PROVE  ManagerInv'
<1>1. Manager!TypeOK /\ (Undisturbed => Subscribed) /\ requests \in Seq(Requests)
  BY DEF ManagerInv, Manager!TypeOK, Requests
<1>2. CASE Manager!Close
  <2> DEFINE r == Manager!Request("cancel", "close", Manager!NoEpb)
  <2>1. r \in Requests
    <3>1. Manager!NoEpb \in Manager!Epb
      BY DEF Manager!NoEpb, Manager!Epb, Manager!Absent
    <3> QED
      BY <3>1 DEF Manager!Request, Requests, Manager!By
  <2>2. /\ requests' = requests \/ requests' = Append(requests, r)
        /\ closing' \in {"asked", "done"} /\ listening' = FALSE
        /\ socket' = socket \/ socket' = "ending"
        /\ UNCHANGED <<events, active, latest, change, replies, notices, armed, posted, refused>>
    BY <1>2 DEF Manager!Close, Manager!End, Manager!server
  <2> HIDE DEF r
  <2>3. requests' \in Seq(Requests)
    BY <1>1, <2>1, <2>2, Sends
  <2>4. Manager!TypeOK'
    BY <1>1, <2>2, <2>3 DEF Manager!TypeOK, Requests
  <2>5. ~Undisturbed'
    BY <2>2 DEF Undisturbed
  <2> QED
    BY <2>4, <2>5 DEF ManagerInv
<1>3. CASE Manager!CloseTimer \/ Manager!SocketCloses
  <2>1. /\ UNCHANGED <<events, active, latest, listening, change, requests, replies, armed,
                       posted, refused>>
        /\ notices' = notices \/ notices' = <<>>
        /\ socket' = socket \/ socket' = "closed"
        /\ closing' = closing \/ closing' = "done"
    BY <1>3 DEF Manager!CloseTimer, Manager!SocketCloses, Manager!server
  <2>2. /\ notices' \in Seq(Manager!Epb) /\ socket' \in {"open", "ending", "closed"}
        /\ closing' \in {"no", "asked", "done", "failed"}
    <3>1. notices \in Seq(Manager!Epb) /\ <<>> \in Seq(Manager!Epb)
      BY <1>1 DEF Manager!TypeOK
    <3>2. /\ socket \in {"open", "ending", "closed"}
          /\ closing \in {"no", "asked", "done", "failed"}
      BY <1>1 DEF Manager!TypeOK
    <3> QED
      BY <2>1, <3>1, <3>2
  <2>3. Manager!TypeOK'
    BY <1>1, <2>1, <2>2 DEF Manager!TypeOK
  <2>4. Undisturbed' => Subscribed'
    BY <1>1, <2>1 DEF Undisturbed, Subscribed
  <2> QED
    BY <2>3, <2>4 DEF ManagerInv
<1> QED
  BY <1>2, <1>3

(* The server answers for whom it was asked, and that it refuses once.     *)
LEMMA ServerHandlesKeeps ==
    ASSUME Manager!EventsAssumption, ManagerInv, Manager!ServerHandles
    PROVE  ManagerInv'
<1> DEFINE r == Head(requests)
<1>1. /\ Manager!TypeOK /\ (Undisturbed => Subscribed) /\ requests \in Seq(Requests)
      /\ replies \in Seq(Replies) /\ armed \in Seq(Manager!Epb)
  BY DEF ManagerInv, Manager!TypeOK, Requests, Replies
<1>2. /\ requests # <<>> /\ requests' = Tail(requests)
      /\ UNCHANGED <<events, active, latest, listening, socket, change, closing, notices, posted>>
      /\ \/ replies' = Append(replies, Manager!Reaction(r, TRUE)) /\ refused' = refused
         \/ replies' = Append(replies, Manager!Reaction(r, FALSE)) /\ refused' = TRUE
      /\ \/ armed' = armed
         \/ r.op = "que" /\ armed' = Append(armed, r.epb)
         \/ armed # <<>> /\ armed' = Tail(armed)
  <2>1. r.op \in {"que", "cancel"}
    <3>1. r \in Requests
      BY <1>1, Takes DEF Manager!ServerHandles
    <3> QED
      BY <3>1 DEF Requests
  <2> QED
    BY <2>1 DEF Manager!ServerHandles, Manager!client
<1>3. r \in Requests /\ requests' \in Seq(Requests)
  BY <1>1, <1>2, Takes
<1>4. Subscribed => r.by # "close" /\ requests' \in Seq({q \in Requests : q.by # "close"})
  BY <1>2, Takes DEF Subscribed
<1> HIDE DEF r
<1>5. \A ok \in BOOLEAN :
         /\ Manager!Reaction(r, ok) \in Replies
         /\ Manager!Reaction(r, ok).by = r.by /\ Manager!Reaction(r, ok).ok = ok
  BY <1>3 DEF Manager!Reaction, Requests, Replies
<1>6. replies' \in Seq(Replies) /\ refused' \in BOOLEAN
  <2>1. \A ok \in BOOLEAN : Append(replies, Manager!Reaction(r, ok)) \in Seq(Replies)
    BY <1>1, <1>5, Sends
  <2> QED
    BY <1>1, <1>2, <2>1 DEF Manager!TypeOK
<1>7. armed' \in Seq(Manager!Epb)
  <2>1. r.op \in {"que", "cancel"} /\ r.epb \in Manager!Epb
    BY <1>3 DEF Requests
  <2>2. Append(armed, r.epb) \in Seq(Manager!Epb)
    BY <1>1, <2>1, Sends
  <2>3. armed # <<>> => Tail(armed) \in Seq(Manager!Epb)
    BY <1>1, Takes
  <2> QED
    BY <1>1, <1>2, <2>2, <2>3
<1>8. Manager!TypeOK'
  BY <1>1, <1>2, <1>3, <1>6, <1>7 DEF Manager!TypeOK, Requests, Replies
<1>9. ASSUME Undisturbed'
      PROVE  Subscribed'
  <2>1. Subscribed /\ replies' = Append(replies, Manager!Reaction(r, TRUE))
    <3>1. closing = "no" /\ ~refused'
      BY <1>2, <1>9 DEF Undisturbed
    <3>2. refused' = refused /\ replies' = Append(replies, Manager!Reaction(r, TRUE))
      BY <1>2, <3>1
    <3>3. Undisturbed
      BY <3>1, <3>2 DEF Undisturbed
    <3> QED
      BY <1>1, <3>2, <3>3
  <2>2. replies' \in Seq({q \in Replies : q.by # "close" /\ q.ok})
    BY <1>4, <1>5, <2>1, Sends DEF Subscribed
  <2> QED
    BY <1>2, <1>4, <2>1, <2>2 DEF Subscribed
<1> QED
  BY <1>8, <1>9 DEF ManagerInv

(* The server's counts and notifications are its own.                      *)
LEMMA ServerFiresKeeps ==
    ASSUME ManagerInv, Manager!ServerFires \/ \E e \in Event : Manager!Post(e)
    PROVE  ManagerInv'
<1>1. Manager!TypeOK /\ (Undisturbed => Subscribed)
  BY DEF ManagerInv
<1>2. CASE Manager!ServerFires
  <2>1. PICK i \in DOMAIN armed :
           /\ armed' = Manager!RemoveAt(armed, i)
           /\ notices' = IF socket = "closed" THEN notices
                         ELSE Append(notices, [e \in Event |->
                             IF e \in Manager!Names(armed[i]) THEN posted[e] ELSE Manager!Absent])
    BY <1>2 DEF Manager!ServerFires
  <2>2. /\ UNCHANGED <<events, active, latest, listening, socket, change, closing, requests,
                       replies, posted, refused>>
    BY <1>2 DEF Manager!ServerFires, Manager!client
  <2> DEFINE m == [e \in Event |->
                     IF e \in Manager!Names(armed[i]) THEN posted[e] ELSE Manager!Absent]
  <2>3. m \in Manager!Epb
    BY <1>1 DEF Manager!TypeOK, Manager!Epb
  <2> HIDE DEF m
  <2>4. notices' \in Seq(Manager!Epb)
    BY <1>1, <2>1, <2>3, Sends DEF Manager!TypeOK, m
  <2>5. armed' \in Seq(Manager!Epb)
    <3>1. armed \in Seq(Manager!Epb) /\ Len(armed) \in Nat /\ i \in 1..Len(armed)
      BY <1>1, LenProperties DEF Manager!TypeOK
    <3>2. SubSeq(armed, 1, i - 1) \in Seq(Manager!Epb)
      BY <3>1, ElementOfSeq, SubSeqProperties
    <3>3. SubSeq(armed, i + 1, Len(armed)) \in Seq(Manager!Epb)
      BY <3>1, ElementOfSeq, SubSeqProperties
    <3> QED
      BY <2>1, <3>2, <3>3, ConcatProperties DEF Manager!RemoveAt
  <2>6. Manager!TypeOK'
    BY <1>1, <2>2, <2>4, <2>5 DEF Manager!TypeOK
  <2>7. Undisturbed' => Subscribed'
    BY <1>1, <2>2 DEF Undisturbed, Subscribed
  <2> QED
    BY <2>6, <2>7 DEF ManagerInv
<1>3. ASSUME NEW e \in Event, Manager!Post(e)
      PROVE  ManagerInv'
  <2>1. /\ posted' = [posted EXCEPT ![e] = @ + 1]
        /\ UNCHANGED <<events, active, latest, listening, socket, change, closing, requests,
                       replies, notices, armed, refused>>
    BY <1>3 DEF Manager!Post, Manager!client
  <2>2. Manager!TypeOK'
    BY <1>1, <2>1 DEF Manager!TypeOK
  <2>3. Undisturbed' => Subscribed'
    BY <1>1, <2>1 DEF Undisturbed, Subscribed
  <2> QED
    BY <2>2, <2>3 DEF ManagerInv
<1> QED
  BY <1>2, <1>3

(* Every step of the manager, of its connections and of the server.        *)
LEMMA ManagerStep ==
    ASSUME Manager!EventsAssumption
    PROVE  ManagerInv /\ [Manager!Next]_Manager!vars => ManagerInv'
<1> SUFFICES ASSUME ManagerInv, [Manager!Next]_Manager!vars PROVE ManagerInv'
  OBVIOUS
<1>1. CASE UNCHANGED Manager!vars
  <2>1. UNCHANGED <<events, active, latest, listening, socket, change, closing, requests,
                    replies, notices, armed, posted, refused>>
    BY <1>1 DEF Manager!vars, Manager!client, Manager!server
  <2> QED
    BY <2>1 DEF ManagerInv, Manager!TypeOK, Undisturbed, Subscribed
<1>2. ASSUME NEW c \in Change, NEW names \in SUBSET Event \ {{}},
             Manager!RegisterEvent(c, names) \/ Manager!UnregisterEvent(c, names)
      PROVE  ManagerInv'
  BY <1>2, CallKeeps
<1> QED
  BY <1>1, <1>2, OpEventKeeps, ReplyKeeps, CloseKeeps, ServerHandlesKeeps, ServerFiresKeeps
     DEF Manager!Next

(* A subscription that the server keeps is known to be active, for any     *)
(* names and any number of changes that overlap in any way: the next       *)
(* change and close() will cancel it (fbEventManager.ts:164-176).          *)
THEOREM EventsKnownActive ==
    ASSUME Manager!EventsAssumption
    PROVE  Manager!Spec => []Manager!KnownActive
<1>1. ManagerInv => Manager!KnownActive
  BY DEF ManagerInv, Undisturbed, Subscribed, Manager!KnownActive
<1>2. Manager!Spec => []ManagerInv
  BY ManagerInit, ManagerStep, PTL DEF Manager!Spec
<1> QED
  BY <1>1, <1>2, PTL
=============================================================================
