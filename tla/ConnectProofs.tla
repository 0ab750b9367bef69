--------------------------- MODULE ConnectProofs ---------------------------
(***************************************************************************)
(* Theorems about the handshake, for any options and servers, any number   *)
(* of losses in any phase, and any sockets that are refused.               *)
(*                                                                         *)
(* Compression and encryption are switched on by either side on its own.   *)
(* That both read what the other wrote rests on the handshake being a      *)
(* conversation: one packet is in the air at most, except that the         *)
(* server's own proof goes before an answer and is not answered itself;    *)
(* and which packet it is says how the two sides differ (Air).             *)
(*                                                                         *)
(* That a right login succeeds rests on what the packet says (Login): on   *)
(* both sides' notes of the login, by the request that the client waits    *)
(* on, until the caller is told.                                           *)
(***************************************************************************)
EXTENDS Connect, SequenceTheorems, TLAPS

Accepts == {"op_accept", "op_cond_accept", "op_accept_data"}
AttachOps == {"op_attach", "op_create", "op_service_attach"}

(* What may go to and fro while the client waits for the answer to w.      *)
Questions(w) ==
    CASE w = "connect" -> {"op_connect", "op_cont_auth"}
      [] w \in AttachOps -> {w, "op_cont_auth", "op_crypt_key_callback"}
      [] w \in {"op_crypt", "op_drop_database", "op_detach"} -> {w}
      [] OTHER -> {}
Answers(w) ==
    CASE w = "connect" -> Accepts \cup {"op_cont_auth", "op_response"}
      [] w \in AttachOps -> {"op_response", "op_cont_auth", "op_crypt_key_callback"}
      [] OTHER -> {"op_response"}

(* What the handshake is about: what connect() asks for, what the server   *)
(* has, and whether both may agree on compression.                         *)
Terms ==
    [first |-> FirstPlugin, zip |-> options.wireCompression, crypt |-> options.wireCrypt,
     cipher |-> SelectedPlugin,
     zips |-> options.wireCompression /\ server.zip /\ server.new]

(* The server knows whether a login belongs to an attach.                  *)
Stage(p, c, s) ==
    IF c.queue = <<"connect">> THEN s.attaching = ""
    ELSE p.op \in {"op_cont_auth", "op_crypt_key_callback"} => s.attaching # ""

(* p is a packet that the client sends.                                    *)
Question(t, p, c, s) ==
    /\ \E w : c.queue = <<w>> /\ p.op \in Questions(w)
    /\ Stage(p, c, s)
    /\ p.op = "op_connect" => c.layer = Plain /\ p.plugin = t.first /\ p.zip = t.zip
    /\ p.op = "op_cont_auth" /\ c.queue = <<"connect">> /\ p.data.is = "proof" =>
          c.serverKeys = p.data.of
    /\ p.op = "op_crypt" => p.plugin = t.cipher /\ t.crypt

(* p is a packet that the server answers with.                             *)
ZippedBy(p, l) == [l EXCEPT !.zip = @ \/ p.zip]
LayerAfter(t, p, c) ==
    IF p.op \in Accepts THEN ZippedBy(p, c.layer)
    ELSE IF p.op = "op_response" /\ c.queue = <<"op_crypt">> /\ p.flag
    THEN [c.layer EXCEPT !.cipher = t.cipher]
    ELSE c.layer
AnswerTo(t, p, c, s) ==
    /\ \E w : c.queue = <<w>> /\ p.op \in Answers(w)
    /\ Stage(p, c, s)
    /\ p.op \in Accepts /\ p.zip => (p.plugin \in SrpList => p.data # NoData)
    /\ s.layer = LayerAfter(t, p, c)

(* The server's own proof, which the client does not answer.               *)
OwnProof(p, c) ==
    /\ p.op = "op_cont_auth" /\ p.plugin \in SrpList /\ c.queue = <<"connect">>
    /\ c.pendingAccept = NoAccept \/ c.serverKeys = p.plugin

In(p, l) == [packet |-> p, layer |-> l]

(* What is in the air: one packet at most, or the server's own proof and   *)
(* the answer after it; and the layers of both sides, by what it is.       *)
Zipping(t, c, s, ts, tc) ==
    \E p : /\ c.deflating = <<p>> /\ ts = <<>> /\ tc = <<>>
           /\ Question(t, p, c, s) /\ c.layer = s.layer /\ c.layer.zip
Upward(t, c, s, ts, tc) ==
    \E p : /\ c.deflating = <<>> /\ ts = <<In(p, s.layer)>> /\ tc = <<>>
           /\ Question(t, p, c, s)
           /\ c.layer = IF p.op = "op_crypt" /\ t.cipher = "Arc4"
                        THEN [s.layer EXCEPT !.cipher = "Arc4"] ELSE s.layer
Downward(t, c, s, ts, tc) ==
    \E p : /\ c.deflating = <<>> /\ ts = <<>> /\ tc = <<In(p, c.layer)>>
           /\ AnswerTo(t, p, c, s)
DownwardTwo(t, c, s, ts, tc) ==
    \E p, r : /\ c.deflating = <<>> /\ ts = <<>>
              /\ tc = <<In(p, c.layer), In(r, c.layer)>>
              /\ OwnProof(p, c) /\ AnswerTo(t, r, c, s)
Quiet(c, ts, tc) == c.deflating = <<>> /\ ts = <<>> /\ tc = <<>>

(* Compression is on where it was agreed on only.                          *)
Zips(t, c, s) == c.layer.zip \/ s.layer.zip => t.zips

Air(t, c, s, ts, tc) ==
    /\ \/ Zipping(t, c, s, ts, tc) \/ Upward(t, c, s, ts, tc)
       \/ Downward(t, c, s, ts, tc) \/ DownwardTwo(t, c, s, ts, tc)
       \/ Quiet(c, ts, tc)
    /\ Zips(t, c, s)

-----------------------------------------------------------------------------
LayerSet == [zip : BOOLEAN, cipher : {"", "Arc4", "ChaCha64"}]

(* The fields of a connection and of the server's side of it.              *)
Fields == {"net", "layer", "deflating", "serverKeys", "pendingAccept", "accept",
           "queue", "db", "detach", "ready"}
SideFields == {"layer", "at", "authed", "attaching", "attached"}
Record(r, fields) == r = [f \in fields |-> r[f]]

Connection(c) == Record(c, Fields) /\ c.layer \in LayerSet
Side(s) == Record(s, SideFields) /\ s.layer \in LayerSet

WellAsked(o, s) ==
    /\ o \in OptionSet /\ s \in ServerSet
    /\ o.wireCompression /\ s.zip /\ s.new => Compresses(o, s)

(* A connection by the state of its socket: before it opens, and then.     *)
Talks(t, c, s, ts, tc) ==
    /\ Connection(c) /\ Side(s)
    /\ c.net = "connecting" =>
          Quiet(c, ts, tc) /\ c.layer = Plain /\ s.layer = Plain /\ s.attaching = ""
    /\ c.net = "open" => Air(t, c, s, ts, tc)

ConnectInv == WellAsked(options, server) /\ Talks(Terms, cnx, sv, toServer, toClient)

-----------------------------------------------------------------------------
(* Sequences of one packet and of two.                                     *)
LEMMA Single ==
    ASSUME NEW x
    PROVE  /\ Head(<<x>>) = x /\ Tail(<<x>>) = <<>> /\ <<x>> # <<>>
           /\ <<>> \o <<x>> = <<x>> /\ Append(<<>>, x) = <<x>>
  OBVIOUS

(* Likewise for two.                                                       *)
LEMMA Pair ==
    ASSUME NEW x, NEW y
    PROVE  /\ Head(<<x, y>>) = x /\ Tail(<<x, y>>) = <<y>> /\ <<x, y>> # <<>>
           /\ <<>> \o <<x, y>> = <<x, y>> /\ Append(<<x>>, y) = <<x, y>>
<1>1. Head(<<x, y>>) = x /\ <<x, y>> # <<>>
  OBVIOUS
<1>2. Tail(<<x, y>>) = <<y>>
  OBVIOUS
<1>3. <<>> \o <<x, y>> = <<x, y>>
  BY <<x, y>> \in Seq({x, y}), ConcatEmptySeq
<1>4. Append(<<x>>, y) = <<x, y>>
  <2>1. <<x>> \in Seq({x, y}) /\ <<x, y>> \in Seq({x, y}) /\ Len(<<x>>) = 1 /\ Len(<<x, y>>) = 2
    OBVIOUS
  <2>2. /\ Append(<<x>>, y) \in Seq({x, y}) /\ Len(Append(<<x>>, y)) = 2
        /\ Append(<<x>>, y)[2] = y
    BY <2>1, AppendProperties
  <2>3. Append(<<x>>, y)[1] = <<x>>[1]
    BY <2>1, AppendProperties
  <2>4. \A i \in 1 .. Len(Append(<<x>>, y)) : Append(<<x>>, y)[i] = <<x, y>>[i]
    BY <2>1, <2>2, <2>3
  <2> QED
    BY <2>1, <2>2, <2>4, SeqEqual
<1> QED
  BY <1>1, <1>2, <1>3, <1>4

(* One packet that goes through a layer.                                   *)
LEMMA OnePacket ==
    ASSUME NEW x, NEW l
    PROVE  On(<<x>>, l) = <<In(x, l)>>
  BY DEF On, In

(* Two packets that go through a layer.                                    *)
LEMMA TwoPackets ==
    ASSUME NEW x, NEW y, NEW l
    PROVE  On(<<x, y>>, l) = <<In(x, l), In(y, l)>>
  BY DEF On, In

-----------------------------------------------------------------------------
(* The client's turn: nothing is in the air, and both sides are alike.     *)
Open(t, c, s) ==
    Connection(c) /\ Side(s) /\ c.net = "open" /\ c.deflating = <<>> /\ Zips(t, c, s)
Turn(t, c, s) == Open(t, c, s) /\ c.layer = s.layer

(* What the socket holds after one packet was written to an empty one.     *)
OneWay(c, p) == IF c.layer.zip THEN <<>> ELSE <<In(p, c.layer)>>

(* A packet waits for the compressor, or is on its way as it is.           *)
LEMMA SentIs ==
    ASSUME NEW c, NEW p, toServer = <<>>
    PROVE  Sent(c, <<p>>) = OneWay(c, p)
<1>1. <<>> \o On(<<p>>, c.layer) = <<In(p, c.layer)>>
  BY OnePacket, Single
<1> QED
  BY <1>1 DEF Sent, OneWay

(* A field that is replaced leaves the others alone.                       *)
LEMMA Replaced ==
    ASSUME NEW r, NEW fields, Record(r, fields), NEW f \in fields, NEW v
    PROVE  /\ Record([r EXCEPT ![f] = v], fields) /\ [r EXCEPT ![f] = v][f] = v
           /\ \A g \in fields \ {f} : [r EXCEPT ![f] = v][g] = r[g]
<1> DEFINE d == [r EXCEPT ![f] = v]
<1>1. DOMAIN r = fields
  BY Zenon DEF Record
<1>2. d = [g \in fields |-> IF g = f THEN v ELSE r[g]]
  BY <1>1
<1>3. d[f] = v /\ \A g \in fields \ {f} : d[g] = r[g]
  BY <1>2
<1>4. d = [g \in fields |-> d[g]]
  BY <1>2
<1> QED
  BY <1>3, <1>4 DEF Record

(* Likewise for the fields of a connection, and of the server's side.      *)
Only(f, d, c) == Connection(d) /\ \A g \in Fields \ {f} : d[g] = c[g]

(* The fields that a step of the client sets one at a time.                *)
LEMMA Put ==
    ASSUME NEW c, Connection(c), NEW v
    PROVE  /\ Only("deflating", [c EXCEPT !.deflating = v], c)
           /\ [c EXCEPT !.deflating = v].deflating = v
           /\ Only("accept", [c EXCEPT !.accept = v], c)
           /\ Only("pendingAccept", [c EXCEPT !.pendingAccept = v], c)
           /\ [c EXCEPT !.pendingAccept = v].pendingAccept = v
           /\ Only("queue", [c EXCEPT !.queue = v], c)
           /\ [c EXCEPT !.queue = v].queue = v
           /\ Only("db", [c EXCEPT !.db = v], c)
           /\ Only("serverKeys", [c EXCEPT !.serverKeys = v], c)
           /\ [c EXCEPT !.serverKeys = v].serverKeys = v
           /\ Only("net", [c EXCEPT !.net = v], c)
           /\ [c EXCEPT !.net = v].net = v
           /\ Only("ready", [c EXCEPT !.ready = v], c)
           /\ Only("detach", [c EXCEPT !.detach = v], c)
           /\ [c EXCEPT !.detach = v].detach = v
<1>1. ASSUME NEW f \in Fields \ {"layer"}
      PROVE  Only(f, [c EXCEPT ![f] = v], c) /\ [c EXCEPT ![f] = v][f] = v
  <2>1. "layer" \in Fields \ {f}
    BY DEF Fields
  <2> QED
    BY <2>1, Replaced DEF Connection, Only
<1> QED
  BY <1>1 DEF Fields

(* Likewise, with another layer.                                           *)
LEMMA PutLayer ==
    ASSUME NEW c, Connection(c), NEW l \in LayerSet
    PROVE  LET d == [c EXCEPT !.layer = l]
           IN  Only("layer", d, c) /\ d.layer = l
<1>1. "layer" \in Fields
  BY DEF Fields
<1> QED
  BY <1>1, Replaced DEF Connection, Only

(* The server's side: its layer, or its progress.                          *)
LEMMA SidePut ==
    ASSUME NEW s, Side(s), NEW v
    PROVE  \A f \in SideFields :
              f # "layer" \/ v \in LayerSet =>
                 LET d == [s EXCEPT ![f] = v]
                 IN  Side(d) /\ d[f] = v /\ \A g \in SideFields \ {f} : d[g] = s[g]
<1> SUFFICES ASSUME NEW f \in SideFields, f # "layer" \/ v \in LayerSet
             PROVE  LET d == [s EXCEPT ![f] = v]
                    IN  Side(d) /\ d[f] = v /\ \A g \in SideFields \ {f} : d[g] = s[g]
  OBVIOUS
<1>1. "layer" \in SideFields
  BY DEF SideFields
<1> QED
  BY <1>1, Replaced DEF Side

(* A packet that is written changes nothing but what waits to be deflated. *)
LEMMA WrittenIs ==
    ASSUME NEW c, NEW p, Connection(c), c.deflating = <<>>
    PROVE  LET d == Written(c, <<p>>)
           IN  /\ Connection(d) /\ d.deflating = IF c.layer.zip THEN <<p>> ELSE <<>>
               /\ d.net = c.net /\ d.layer = c.layer /\ d.queue = c.queue
               /\ d.serverKeys = c.serverKeys /\ d.pendingAccept = c.pendingAccept
               /\ d.accept = c.accept /\ d.detach = c.detach
<1>1. CASE c.layer.zip
  <2> DEFINE d == [c EXCEPT !.deflating = <<p>>]
  <2>1. Written(c, <<p>>) = d
    BY <1>1, Single DEF Written
  <2>2. Only("deflating", d, c) /\ d.deflating = <<p>>
    BY Put
  <2> HIDE DEF d
  <2>3. /\ Connection(d) /\ d.net = c.net /\ d.layer = c.layer /\ d.queue = c.queue
        /\ d.serverKeys = c.serverKeys /\ d.pendingAccept = c.pendingAccept
        /\ d.accept = c.accept /\ d.detach = c.detach
    BY <2>2 DEF Only, Fields
  <2> QED
    BY <1>1, <2>1, <2>2, <2>3
<1>2. CASE ~c.layer.zip
  BY <1>2 DEF Written
<1> QED
  BY <1>1, <1>2

(* A client that writes in its turn leaves one packet in the air.          *)
LEMMA ClientWrites ==
    ASSUME NEW t, NEW c, NEW s, NEW p, Turn(t, c, s), Question(t, p, c, s),
           p.op = "op_crypt" => t.cipher # "Arc4"
    PROVE  Talks(t, Written(c, <<p>>), s, OneWay(c, p), <<>>)
<1> DEFINE d == Written(c, <<p>>)
<1>1. /\ Connection(d) /\ d.deflating = IF c.layer.zip THEN <<p>> ELSE <<>>
      /\ d.net = "open" /\ d.layer = c.layer /\ d.queue = c.queue
      /\ d.serverKeys = c.serverKeys /\ d.pendingAccept = c.pendingAccept
  BY WrittenIs DEF Turn, Open
<1> HIDE DEF d
<1>2. Question(t, p, d, s)
  BY <1>1 DEF Question, Stage
<1>3. Zips(t, d, s)
  BY <1>1 DEF Turn, Open, Zips
<1>4. CASE c.layer.zip
  <2>1. Zipping(t, d, s, OneWay(c, p), <<>>)
    BY <1>1, <1>2, <1>4 DEF Zipping, OneWay, Turn
  <2> QED
    BY <1>1, <1>3, <2>1 DEF Talks, Air, Turn, Open, d
<1>5. CASE ~c.layer.zip
  <2>1. OneWay(c, p) = <<In(p, s.layer)>>
    BY <1>5 DEF OneWay, Turn
  <2>2. Upward(t, d, s, OneWay(c, p), <<>>)
    BY <1>1, <1>2, <1>5, <2>1 DEF Upward, Turn
  <2> QED
    BY <1>1, <1>3, <2>2 DEF Talks, Air, Turn, Open, d
<1> QED
  BY <1>4, <1>5

(* A client that does not write leaves nothing in the air.                 *)
LEMMA ClientRests ==
    ASSUME NEW t, NEW c, NEW s, Connection(c), Side(s), c.deflating = <<>>,
           c.net # "connecting", c.net = "open" => Zips(t, c, s)
    PROVE  Talks(t, c, s, <<>>, <<>>)
  BY DEF Talks, Air, Quiet

(* The server's turn: it got p, and its one reply goes out as it got it.   *)
LEMMA ServerAnswers ==
    ASSUME NEW t, NEW c, NEW s, NEW p, Open(t, c, s), AnswerTo(t, p, c, s)
    PROVE  Talks(t, c, s, <<>>, <<In(p, c.layer)>>)
<1>1. Downward(t, c, s, <<>>, <<In(p, c.layer)>>)
  BY DEF Downward, Open
<1> QED
  BY <1>1 DEF Talks, Air, Open

-----------------------------------------------------------------------------
(* Compression and the cipher that is switched on at once do not meet.     *)
LEMMA TermsFit ==
    ASSUME WellAsked(options, server), Terms.zips, Terms.crypt
    PROVE  Terms.cipher # "Arc4"
<1>1. options.wireCompression /\ server.zip /\ server.new /\ options.wireCrypt
  BY DEF Terms
<1>2. Compresses(options, server)
  BY <1>1 DEF WellAsked
<1>3. "ChaCha64" \in server.keys
  BY <1>1, <1>2 DEF Compresses
<1> QED
  BY <1>3 DEF Terms, SelectedPlugin

(* What a client that reads finds: the answer to its one request.          *)
LEMMA ReadsWhat ==
    ASSUME ConnectInv, NEW op, Reads(op), op # "op_cont_auth"
    PROVE  /\ Open(Terms, cnx, sv) /\ AnswerTo(Terms, Packet, cnx, sv) /\ Packet.op = op
           /\ toServer = <<>> /\ toClient' = <<>>
<1>1. /\ cnx.net = "open" /\ toClient # <<>> /\ Packet.op = op /\ toClient' = Tail(toClient)
      /\ Connection(cnx) /\ Side(sv) /\ Air(Terms, cnx, sv, toServer, toClient)
  BY DEF Reads, Packet, ConnectInv, Talks
<1>2. ~Zipping(Terms, cnx, sv, toServer, toClient) /\ ~Upward(Terms, cnx, sv, toServer, toClient)
      /\ ~Quiet(cnx, toServer, toClient)
  BY <1>1 DEF Zipping, Upward, Quiet
<1>3. ASSUME DownwardTwo(Terms, cnx, sv, toServer, toClient)
      PROVE  FALSE
  <2>1. PICK p, r : toClient = <<In(p, cnx.layer), In(r, cnx.layer)>> /\ OwnProof(p, cnx)
    BY <1>3 DEF DownwardTwo
  <2>2. Packet = p
    BY <2>1, Pair DEF Packet, In
  <2> QED
    BY <1>1, <2>1, <2>2 DEF OwnProof
<1>4. Downward(Terms, cnx, sv, toServer, toClient) /\ Zips(Terms, cnx, sv)
  BY <1>1, <1>2, <1>3 DEF Air
<1>5. PICK p : /\ cnx.deflating = <<>> /\ toServer = <<>> /\ toClient = <<In(p, cnx.layer)>>
               /\ AnswerTo(Terms, p, cnx, sv)
  BY <1>4 DEF Downward
<1>6. Packet = p /\ toClient' = <<>>
  BY <1>1, <1>5, Single DEF Packet, In
<1> QED
  BY <1>1, <1>4, <1>5, <1>6 DEF Open

(* A client's step leaves the terms and the server's side alone.           *)
LEMMA ReadsKeeps ==
    ASSUME ConnectInv, NEW op, Reads(op),
           Talks(Terms, cnx', sv, toServer', toClient')
    PROVE  ConnectInv'
<1>1. options' = options /\ server' = server /\ sv' = sv
  BY DEF Reads
<1>2. Terms' = Terms
  BY <1>1 DEF Terms, FirstPlugin, SelectedPlugin
<1>3. WellAsked(options', server')
  BY <1>1 DEF ConnectInv
<1> QED
  BY <1>1, <1>2, <1>3 DEF ConnectInv

(* A layer whose cipher is switched on stays a layer.                      *)
LEMMA Ciphered ==
    ASSUME NEW l \in LayerSet, NEW x \in {"Arc4", "ChaCha64"}
    PROVE  [l EXCEPT !.cipher = x] \in LayerSet /\ [l EXCEPT !.cipher = x].zip = l.zip
  BY DEF LayerSet

(* A request is a question of its own.                                     *)
LEMMA OwnQuestion ==
    ASSUME NEW t, NEW c, NEW s, NEW p, c.queue = <<p.op>>,
           p.op \in AttachOps \cup {"op_crypt", "op_drop_database", "op_detach"},
           p.op = "op_crypt" => p.plugin = t.cipher /\ t.crypt
    PROVE  Question(t, p, c, s)
<1>1. p.op \notin {"connect", "op_connect", "op_cont_auth", "op_crypt_key_callback"}
  BY DEF AttachOps
<1>2. p.op \in Questions(p.op)
  BY <1>1 DEF Questions
<1>3. <<p.op>> # <<"connect">>
  BY <1>1, Single
<1>4. Stage(p, c, s)
  BY <1>1, <1>3 DEF Stage
<1> QED
  BY <1>1, <1>2, <1>4 DEF Question

(* Every request for an attachment is one of the three.                    *)
LEMMA AttachRequestIs ==
    ASSUME NEW auth
    PROVE  AttachRequest(auth).op \in AttachOps
<1>1. /\ OpCreate(auth).op = "op_create" /\ OpAttach(auth).op = "op_attach"
      /\ OpServiceAttach.op = "op_service_attach"
  BY DEF OpCreate, OpAttach, OpServiceAttach, Asks, Message
<1> QED
  BY <1>1 DEF AttachRequest, AttachOps

(* After connect(), encrypted or not: op_crypt or an attach is asked.      *)
LEMMA ConnectedKeeps ==
    ASSUME WellAsked(options, server), NEW c, NEW ret, Turn(Terms, c, sv),
           c.queue = <<"connect">>, toServer = <<>>, Connected(c, ret)
    PROVE  Talks(Terms, cnx', sv, toServer', <<>>)
<1> DEFINE accept == AcceptOf(c, ret)
           attach == AttachRequest(accept.auth)
           crypt == Asks("op_crypt", SelectedPlugin, NoData)
           next(op) == [c EXCEPT !.accept = accept, !.pendingAccept = NoAccept,
                                 !.queue = Append(Tail(@), op), !.db = @ \/ op \in DatabaseOps]
<1>1. ASSUME NEW op
      PROVE  Turn(Terms, next(op), sv) /\ next(op).queue = <<op>>
  <2>1. Append(Tail(c.queue), op) = <<op>>
    BY Single
  <2> DEFINE c1 == [c EXCEPT !.accept = accept]
             c2 == [c1 EXCEPT !.pendingAccept = NoAccept]
             c3 == [c2 EXCEPT !.queue = Append(Tail(c.queue), op)]
             c4 == [c3 EXCEPT !.db = c.db \/ op \in DatabaseOps]
  <2>2. next(op) = c4
    OBVIOUS
  <2> HIDE DEF next, accept
  <2>3. Connection(c)
    BY DEF Turn, Open
  <2>4. Only("accept", c1, c)
    BY <2>3, Put
  <2>a. Connection(c1)
    BY <2>4 DEF Only
  <2> HIDE DEF c1
  <2>5. Only("pendingAccept", c2, c1)
    BY <2>a, Put
  <2>b. Connection(c2)
    BY <2>5 DEF Only
  <2> HIDE DEF c2
  <2>6. Only("queue", c3, c2) /\ c3.queue = <<op>>
    BY <2>1, <2>b, Put
  <2>c. Connection(c3)
    BY <2>6 DEF Only
  <2> HIDE DEF c3
  <2>7. Only("db", c4, c3)
    BY <2>c, Put
  <2> HIDE DEF c4
  <2>8. /\ Connection(c4) /\ c4.queue = <<op>> /\ c4.layer = c.layer
        /\ c4.deflating = c.deflating /\ c4.net = c.net
    BY <2>4, <2>5, <2>6, <2>7 DEF Only, Fields
  <2> QED
    BY <2>2, <2>8 DEF Turn, Open, Zips
<1>2. IF accept.session /\ options.wireCrypt
      THEN /\ cnx' = EncryptedAtOnce(Written(next("op_crypt"), <<crypt>>))
           /\ toServer' = Sent(next("op_crypt"), <<crypt>>)
      ELSE /\ cnx' = Written(next(attach.op), <<attach>>)
           /\ toServer' = Sent(next(attach.op), <<attach>>)
  BY DEF Connected, Write
<1>3. attach.op \in AttachOps
  BY AttachRequestIs
<1>4. crypt.op = "op_crypt" /\ crypt.plugin = SelectedPlugin
  BY DEF Asks, Message
<1> HIDE DEF accept, attach, crypt, next
<1>5. CASE ~(accept.session /\ options.wireCrypt)
  <2>1. next(attach.op).queue = <<attach.op>>
    BY <1>1
  <2>2. Question(Terms, attach, next(attach.op), sv)
    BY <1>3, <2>1, OwnQuestion DEF AttachOps
  <2>3. Talks(Terms, Written(next(attach.op), <<attach>>), sv, OneWay(next(attach.op), attach), <<>>)
    BY <1>1, <1>3, <2>2, ClientWrites DEF AttachOps
  <2> QED
    BY <1>2, <1>5, <2>3, SentIs
<1>6. CASE accept.session /\ options.wireCrypt
  <2> DEFINE d == next("op_crypt")
  <2>1. Turn(Terms, d, sv) /\ d.queue = <<"op_crypt">>
    BY <1>1
  <2>2. Terms.cipher = SelectedPlugin /\ Terms.crypt = options.wireCrypt
    BY DEF Terms
  <2>3. Question(Terms, crypt, d, sv)
    BY <1>4, <1>6, <2>1, <2>2, OwnQuestion
  <2>4. cnx' = EncryptedAtOnce(Written(d, <<crypt>>)) /\ toServer' = OneWay(d, crypt)
    BY <1>2, <1>6, SentIs
  <2> HIDE DEF d
  <2>5. CASE SelectedPlugin # "Arc4"
    BY <2>1, <2>2, <2>3, <2>4, <2>5, ClientWrites DEF EncryptedAtOnce
  <2>6. CASE SelectedPlugin = "Arc4"
    <3>1. ~d.layer.zip
      BY <1>6, <2>1, <2>2, <2>6, TermsFit DEF Turn, Open, Zips
    <3>2. Written(d, <<crypt>>) = d /\ OneWay(d, crypt) = <<In(crypt, sv.layer)>>
      BY <2>1, <3>1 DEF Written, OneWay, Turn
    <3> DEFINE e == Encrypted(d)
    <3>3. d.layer \in LayerSet
      BY <2>1 DEF Turn, Open, Connection
    <3> DEFINE l == [d.layer EXCEPT !.cipher = "Arc4"]
    <3>4. l \in LayerSet /\ l.zip = d.layer.zip
      <4>1. "Arc4" \in {"Arc4", "ChaCha64"}
        OBVIOUS
      <4> QED
        BY <3>3, <4>1, Ciphered, Zenon
    <3>5. e = [d EXCEPT !.layer = l]
      BY <2>6 DEF Encrypted
    <3> HIDE DEF e, l
    <3>6. Only("layer", e, d) /\ e.layer = l
      BY <2>1, <3>4, <3>5, PutLayer DEF Turn, Open
    <3>7. /\ Connection(e) /\ e.net = "open" /\ e.deflating = <<>> /\ e.queue = <<"op_crypt">>
          /\ e.layer = [sv.layer EXCEPT !.cipher = "Arc4"] /\ e.layer.zip = d.layer.zip
      BY <2>1, <3>4, <3>6 DEF Only, Fields, Turn, Open, l
    <3>8. Question(Terms, crypt, e, sv)
      BY <1>4, <1>6, <2>2, <3>7, OwnQuestion
    <3>9. Zips(Terms, e, sv)
      BY <2>1, <3>7 DEF Zips, Turn, Open
    <3>10. Upward(Terms, e, sv, OneWay(d, crypt), <<>>)
      BY <1>4, <2>2, <2>6, <3>2, <3>7, <3>8 DEF Upward
    <3>11. Talks(Terms, e, sv, OneWay(d, crypt), <<>>)
      BY <2>1, <3>7, <3>9, <3>10 DEF Talks, Air, Turn, Open
    <3> QED
      BY <2>4, <2>6, <3>2, <3>11 DEF EncryptedAtOnce, e
  <2> QED
    BY <2>5, <2>6
<1> QED
  BY <1>5, <1>6

-----------------------------------------------------------------------------
(* A login is a question, while connect() waits as while an attach does.   *)
LEMMA LoginQuestion ==
    ASSUME NEW t, NEW c, NEW s, NEW p, NEW w, c.queue = <<w>>, p.op = "op_cont_auth",
           w = "connect" \/ w \in AttachOps, w = "connect" <=> s.attaching = "",
           w = "connect" /\ p.data.is = "proof" => c.serverKeys = p.data.of
    PROVE  Question(t, p, c, s)
<1>1. p.op \in Questions(w)
  BY DEF Questions, AttachOps
<1>2. c.queue = <<"connect">> <=> w = "connect"
  BY Single
<1>3. Stage(p, c, s)
  BY <1>2 DEF Stage
<1> QED
  BY <1>1, <1>2, <1>3 DEF Question

(* An accept is the answer to op_connect or a login before an attach, and  *)
(* says what the server has done about compression.                        *)
LEMMA AcceptAnswers ==
    ASSUME NEW t, NEW p, NEW c, NEW s, AnswerTo(t, p, c, s), p.op \in Accepts
    PROVE  /\ c.queue = <<"connect">> /\ s.attaching = ""
           /\ s.layer = ZippedBy(p, c.layer)
<1>1. PICK w : c.queue = <<w>> /\ p.op \in Answers(w)
  BY DEF AnswerTo
<1>2. w = "connect"
  BY <1>1 DEF Answers, Accepts, AttachOps
<1> QED
  BY <1>1, <1>2 DEF AnswerTo, Stage, LayerAfter

(* What sendOpContAuth sends.                                              *)
LEMMA ContAuthIs ==
    ASSUME NEW plugin, NEW data
    PROVE  /\ ContAuth(plugin, data).op = "op_cont_auth"
           /\ ContAuth(plugin, data).plugin = plugin /\ ContAuth(plugin, data).data = data
  BY DEF ContAuth, Asks, Message

(* The proof is for the plugin it was made with.                           *)
LEMMA ProofIs ==
    ASSUME NEW plugin
    PROVE  Proof(plugin).is = "proof" /\ Proof(plugin).of = plugin
  BY DEF Proof, Data

(* Nothing else that a login carries is a proof.                           *)
LEMMA OthersAreNoProof ==
    Public.is = "public" /\ Legacy.is = "legacy" /\ NoData.is = ""
  BY DEF Public, Legacy, Data, NoData

(* The accept: a login in another plugin, its first or its second half, or *)
(* nothing to log in with yet.                                             *)
LEMMA AcceptKeeps ==
    ASSUME ConnectInv, NEW op \in Accepts, Accept(op)
    PROVE  ConnectInv'
<1> DEFINE accept == [NoAccept EXCEPT !.plugin = Packet.plugin]
           srp == Packet.plugin \in SrpList
           login == op # "op_accept" /\ ~Packet.flag
           ret == IF ~login THEN accept
                  ELSE IF srp THEN Proven(accept, Packet.plugin)
                  ELSE [accept EXCEPT !.auth = Legacy]
           zipped == [cnx EXCEPT !.layer.zip = @ \/ Packet.zip,
                                 !.serverKeys = IF login /\ srp THEN Packet.plugin ELSE @]
           held == [zipped EXCEPT !.pendingAccept = ret]
           asked == [cnx EXCEPT !.pendingAccept = accept]
           public == ContAuth(Packet.plugin, Public)
           answer == ContAuth(ret.plugin, ret.auth)
<1>1. /\ Reads(op)
      /\ \/ UNCHANGED <<cnx, toServer>>
         \/ /\ login /\ srp /\ Packet.data = NoData
            /\ cnx' = Written(asked, <<public>>) /\ toServer' = Sent(asked, <<public>>)
         \/ /\ login
            /\ cnx' = Written(held, <<answer>>) /\ toServer' = Sent(held, <<answer>>)
         \/ Connected(zipped, ret)
  BY DEF Accept, Write
<1>2. op # "op_cont_auth"
  BY DEF Accepts
<1>3. /\ Open(Terms, cnx, sv) /\ AnswerTo(Terms, Packet, cnx, sv) /\ Packet.op = op
      /\ toServer = <<>> /\ toClient' = <<>>
  BY <1>1, <1>2, ReadsWhat
<1>4. /\ cnx.queue = <<"connect">> /\ sv.attaching = ""
      /\ sv.layer = ZippedBy(Packet, cnx.layer)
  <2>1. Packet.op \in Accepts
    BY <1>3
  <2>2. AnswerTo(Terms, Packet, cnx, sv)
    BY <1>3
  <2>3. cnx.queue = <<"connect">>
    BY <2>1, <2>2, AcceptAnswers
  <2>4. sv.attaching = ""
    BY <2>1, <2>2, AcceptAnswers
  <2>5. sv.layer = ZippedBy(Packet, cnx.layer)
    BY <2>1, <2>2 DEF AnswerTo, LayerAfter
  <2> QED
    BY <2>3, <2>4, <2>5
<1>5. Connection(cnx) /\ Side(sv) /\ cnx.layer \in LayerSet /\ sv.layer \in LayerSet
  BY <1>3 DEF Open, Connection, Side
<1>6. /\ Turn(Terms, zipped, sv) /\ zipped.queue = <<"connect">>
      /\ login /\ srp => zipped.serverKeys = Packet.plugin
  <2> DEFINE z == [cnx EXCEPT !.layer = sv.layer]
             k == IF login /\ srp THEN Packet.plugin ELSE cnx.serverKeys
  <2>1. Only("layer", z, cnx) /\ z.layer = sv.layer
    BY <1>5, PutLayer
  <2>2. zipped = [z EXCEPT !.serverKeys = k]
    BY <1>4 DEF ZippedBy
  <2>3. Connection(z)
    BY <2>1 DEF Only
  <2> HIDE DEF z, k, zipped
  <2>4. Only("serverKeys", zipped, z) /\ zipped.serverKeys = k
    BY <2>2, <2>3, Put
  <2>5. /\ Connection(zipped) /\ zipped.net = cnx.net /\ zipped.queue = cnx.queue
        /\ zipped.layer = sv.layer /\ zipped.deflating = cnx.deflating
    BY <2>1, <2>4 DEF Only, Fields
  <2> QED
    BY <1>3, <1>4, <2>4, <2>5 DEF Turn, Open, Zips, k
<1> SUFFICES Talks(Terms, cnx', sv, toServer', toClient')
  BY <1>1, ReadsKeeps
<1>7. CASE UNCHANGED <<cnx, toServer>>
  BY <1>3, <1>7, ClientRests DEF Open
<1>8. ASSUME login, srp, Packet.data = NoData,
             cnx' = Written(asked, <<public>>), toServer' = Sent(asked, <<public>>)
      PROVE  Talks(Terms, cnx', sv, toServer', toClient')
  <2>1. ~Packet.zip
    BY <1>3, <1>8 DEF AnswerTo
  <2>2. sv.layer = cnx.layer
    <3>1. cnx.layer.zip \in BOOLEAN
      BY <1>5 DEF LayerSet
    <3>2. (cnx.layer.zip \/ Packet.zip) = cnx.layer.zip
      BY <2>1, <3>1
    <3>3. [cnx.layer EXCEPT !.zip = cnx.layer.zip] = cnx.layer
      BY <1>5 DEF LayerSet
    <3> QED
      BY <1>4, <3>2, <3>3 DEF ZippedBy
  <2>3. Only("pendingAccept", asked, cnx)
    BY <1>5, Put
  <2> HIDE DEF asked
  <2>4. /\ Connection(asked) /\ asked.net = cnx.net /\ asked.queue = cnx.queue
        /\ asked.layer = cnx.layer /\ asked.deflating = cnx.deflating
    BY <2>3 DEF Only, Fields
  <2>5. Turn(Terms, asked, sv)
    BY <1>3, <2>2, <2>4 DEF Turn, Open, Zips
  <2>6. public.op = "op_cont_auth" /\ public.data.is # "proof"
    <3>1. public.op = "op_cont_auth" /\ public.data = Public
      BY ContAuthIs
    <3> QED
      BY <3>1, OthersAreNoProof
  <2> HIDE DEF public
  <2>7. Question(Terms, public, asked, sv)
    BY <1>4, <2>4, <2>6, LoginQuestion
  <2> QED
    BY <1>3, <1>8, <2>5, <2>6, <2>7, ClientWrites, SentIs
<1>9. ASSUME login, cnx' = Written(held, <<answer>>), toServer' = Sent(held, <<answer>>)
      PROVE  Talks(Terms, cnx', sv, toServer', toClient')
  <2>1. answer.op = "op_cont_auth" /\ answer.data = ret.auth
    BY ContAuthIs
  <2>2. IF srp THEN ret.auth = Proof(Packet.plugin) ELSE ret.auth = Legacy
    BY <1>9 DEF Proven, NoAccept
  <2>3. answer.data.is = "proof" => answer.data.of = zipped.serverKeys
    <3> HIDE DEF answer, ret, zipped
    <3>1. CASE srp
      <4>1. answer.data = Proof(Packet.plugin) /\ zipped.serverKeys = Packet.plugin
        BY <1>6, <1>9, <2>1, <2>2, <3>1
      <4> QED
        BY <4>1, ProofIs
    <3>2. CASE ~srp
      BY <2>1, <2>2, <3>2, OthersAreNoProof
    <3> QED
      BY <3>1, <3>2
  <2>4. Connection(zipped)
    BY <1>6 DEF Turn, Open
  <2> HIDE DEF zipped, answer, ret
  <2>5. Only("pendingAccept", held, zipped)
    BY <2>4, Put
  <2> HIDE DEF held
  <2>6. /\ Connection(held) /\ held.net = zipped.net /\ held.queue = zipped.queue
        /\ held.layer = zipped.layer /\ held.deflating = zipped.deflating
        /\ held.serverKeys = zipped.serverKeys
    BY <2>5 DEF Only, Fields
  <2>7. Turn(Terms, held, sv)
    BY <1>6, <2>6 DEF Turn, Open, Zips
  <2>8. Question(Terms, answer, held, sv)
    <3>1. held.queue = <<"connect">>
      BY <1>6, <2>6
    <3>2. answer.data.is = "proof" => held.serverKeys = answer.data.of
      BY <2>3, <2>6
    <3> QED
      BY <1>4, <2>1, <3>1, <3>2, LoginQuestion
  <2> QED
    BY <1>3, <1>9, <2>1, <2>7, <2>8, ClientWrites, SentIs
<1>10. CASE Connected(zipped, ret)
  <2> HIDE DEF zipped, ret
  <2>1. WellAsked(options, server)
    BY DEF ConnectInv
  <2> QED
    BY <1>3, <1>6, <1>10, <2>1, ConnectedKeeps
<1> QED
  BY <1>1, <1>7, <1>8, <1>9, <1>10

-----------------------------------------------------------------------------
(* What a client finds that reads op_cont_auth: the answer to its request, *)
(* or the server's own proof before that answer.                           *)
LEMMA ReadsContAuth ==
    ASSUME ConnectInv, Reads("op_cont_auth")
    PROVE  /\ Open(Terms, cnx, sv) /\ toServer = <<>> /\ Packet.op = "op_cont_auth"
           /\ \/ AnswerTo(Terms, Packet, cnx, sv) /\ toClient' = <<>>
              \/ /\ OwnProof(Packet, cnx)
                 /\ \E r : AnswerTo(Terms, r, cnx, sv) /\ toClient' = <<In(r, cnx.layer)>>
<1>1. /\ cnx.net = "open" /\ toClient # <<>> /\ Packet.op = "op_cont_auth"
      /\ toClient' = Tail(toClient)
      /\ Connection(cnx) /\ Side(sv) /\ Air(Terms, cnx, sv, toServer, toClient)
  BY DEF Reads, Packet, ConnectInv, Talks
<1>2. ~Zipping(Terms, cnx, sv, toServer, toClient) /\ ~Upward(Terms, cnx, sv, toServer, toClient)
      /\ ~Quiet(cnx, toServer, toClient)
  BY <1>1 DEF Zipping, Upward, Quiet
<1>3. Zips(Terms, cnx, sv)
  BY <1>1 DEF Air
<1>4. CASE Downward(Terms, cnx, sv, toServer, toClient)
  <2>1. PICK p : /\ cnx.deflating = <<>> /\ toServer = <<>> /\ toClient = <<In(p, cnx.layer)>>
                 /\ AnswerTo(Terms, p, cnx, sv)
    BY <1>4 DEF Downward
  <2>2. Packet = p /\ toClient' = <<>>
    BY <1>1, <2>1, Single DEF Packet, In
  <2> QED
    BY <1>1, <1>3, <2>1, <2>2 DEF Open
<1>5. CASE DownwardTwo(Terms, cnx, sv, toServer, toClient)
  <2>1. PICK p, r : /\ cnx.deflating = <<>> /\ toServer = <<>>
                    /\ toClient = <<In(p, cnx.layer), In(r, cnx.layer)>>
                    /\ OwnProof(p, cnx) /\ AnswerTo(Terms, r, cnx, sv)
    BY <1>5 DEF DownwardTwo
  <2>2. Packet = p /\ toClient' = <<In(r, cnx.layer)>>
    BY <1>1, <2>1, Pair DEF Packet, In
  <2> QED
    BY <1>1, <1>3, <2>1, <2>2 DEF Open
<1> QED
  BY <1>1, <1>2, <1>4, <1>5 DEF Air

(* A demand or a key callback: of connect() or of an attach.               *)
Demands == {"op_cont_auth", "op_crypt_key_callback"}
Logins == AttachOps \cup {"connect"}

(* A demand changes no layer.                                              *)
LEMMA DemandOnLayer ==
    ASSUME NEW t, NEW p, NEW c, NEW s, AnswerTo(t, p, c, s), p.op \in Demands
    PROVE  s.layer = c.layer
  BY DEF AnswerTo, LayerAfter, Accepts, Demands

(* A demand comes within a login, before the attach or with it.            *)
LEMMA DemandOf ==
    ASSUME NEW t, NEW p, NEW c, NEW s, AnswerTo(t, p, c, s), p.op \in Demands
    PROVE  \E w \in Logins : c.queue = <<w>> /\ (w = "connect" <=> s.attaching = "")
<1>1. PICK w : c.queue = <<w>> /\ p.op \in Answers(w)
  BY DEF AnswerTo
<1>2. w \in Logins
  BY <1>1 DEF Answers, Logins, Demands
<1>3. w = "connect" <=> s.attaching = ""
  <2>1. c.queue = <<"connect">> <=> w = "connect"
    BY <1>1, Single
  <2> QED
    BY <2>1 DEF AnswerTo, Stage, Demands
<1> QED
  BY <1>1, <1>2, <1>3

(* The fields that nothing in the air depends on.                          *)
LEMMA TurnOnly ==
    ASSUME NEW t, NEW c, NEW d, NEW s, Open(t, c, s),
           NEW f \in {"accept", "pendingAccept", "serverKeys", "queue", "db", "ready", "detach"},
           Only(f, d, c)
    PROVE  Open(t, d, s) /\ d.layer = c.layer /\ (f # "queue" => d.queue = c.queue)
<1>1. /\ Connection(d) /\ d.net = c.net /\ d.layer = c.layer /\ d.deflating = c.deflating
      /\ f # "queue" => d.queue = c.queue
  BY DEF Only, Fields
<1> QED
  BY <1>1 DEF Open, Zips

(* A connection that nobody waits on stays one.                            *)
LEMMA StaysOpen ==
    ASSUME NEW t, NEW c, NEW d, NEW s, Open(t, c, s), c.queue = <<>>,
           Only("ready", d, c) \/ Only("detach", d, c)
    PROVE  Open(t, d, s) /\ d.layer = c.layer /\ d.queue = <<>>
<1>1. /\ Connection(d) /\ d.net = c.net /\ d.layer = c.layer /\ d.deflating = c.deflating
      /\ d.queue = c.queue
  BY DEF Only, Fields
<1> QED
  BY <1>1 DEF Open, Zips

(* A login in answer to a demand.                                          *)
LEMMA LoginKeeps ==
    ASSUME NEW t, NEW c, NEW s, NEW w \in Logins, NEW plugin, NEW data, Open(t, c, s), s.layer = c.layer,
           c.queue = <<w>>, w = "connect" <=> s.attaching = "",
           data.is = "proof" => c.serverKeys = data.of
    PROVE  Talks(t, Written(c, <<ContAuth(plugin, data)>>), s, OneWay(c, ContAuth(plugin, data)), <<>>)
<1> DEFINE p == ContAuth(plugin, data)
<1>1. p.op = "op_cont_auth" /\ p.data = data
  BY DEF ContAuth, Asks, Message
<1> HIDE DEF p
<1>2. Question(t, p, c, s)
  BY <1>1, LoginQuestion DEF Logins
<1>3. Turn(t, c, s)
  BY DEF Turn
<1>4. Talks(t, Written(c, <<p>>), s, OneWay(c, p), <<>>)
  BY <1>1, <1>2, <1>3, ClientWrites
<1> QED
  BY <1>4 DEF p

(* op_cont_auth: a challenge is answered, the server's proof is not.       *)
LEMMA ContinueAuthKeeps ==
    ASSUME ConnectInv, ContinueAuth
    PROVE  ConnectInv'
<1> DEFINE plugin == Packet.plugin
           pending == cnx.pendingAccept # NoAccept
           answered == [cnx EXCEPT !.serverKeys = plugin,
                                   !.pendingAccept = Proven(cnx.pendingAccept, plugin)]
           noted == [cnx EXCEPT !.pendingAccept.plugin = plugin]
           fallback == [cnx EXCEPT !.accept.plugin = plugin, !.accept.auth = Legacy]
           proof == ContAuth(plugin, Proof(plugin))
           legacy == ContAuth(plugin, Legacy)
<1>1. /\ Reads("op_cont_auth")
      /\ \/ /\ pending /\ Challenge(plugin) /\ plugin \in SrpList
            /\ cnx' = Written(answered, <<proof>>) /\ toServer' = Sent(answered, <<proof>>)
         \/ cnx' = noted /\ toServer' = toServer
         \/ /\ plugin = "Legacy_Auth"
            /\ cnx' = Written(cnx, <<legacy>>) /\ toServer' = Sent(cnx, <<legacy>>)
         \/ /\ plugin = "Legacy_Auth"
            /\ cnx' = Written(fallback, <<legacy>>) /\ toServer' = Sent(fallback, <<legacy>>)
         \/ UNCHANGED <<cnx, toServer>>
  BY DEF ContinueAuth, Write
<1>2. /\ Open(Terms, cnx, sv) /\ toServer = <<>> /\ Packet.op = "op_cont_auth"
      /\ \/ AnswerTo(Terms, Packet, cnx, sv) /\ toClient' = <<>>
         \/ /\ OwnProof(Packet, cnx)
            /\ \E r : AnswerTo(Terms, r, cnx, sv) /\ toClient' = <<In(r, cnx.layer)>>
  BY <1>1, ReadsContAuth
<1>3. Connection(cnx) /\ Side(sv)
  BY <1>2 DEF Open
<1>4. Only("pendingAccept", noted, cnx)
  <2> DEFINE a == [cnx.pendingAccept EXCEPT !.plugin = plugin]
  <2>1. noted = [cnx EXCEPT !.pendingAccept = a]
    BY <1>3
  <2> HIDE DEF a, noted
  <2> QED
    BY <1>3, <2>1, Put
<1>5. Only("accept", fallback, cnx)
  <2> DEFINE a == [[cnx.accept EXCEPT !.plugin = plugin] EXCEPT !.auth = Legacy]
  <2>1. fallback = [cnx EXCEPT !.accept = a]
    BY <1>3
  <2> HIDE DEF a, fallback
  <2> QED
    BY <1>3, <2>1, Put
<1>6. /\ Open(Terms, answered, sv) /\ answered.layer = cnx.layer
      /\ answered.queue = cnx.queue /\ answered.serverKeys = plugin
  <2> DEFINE k == [cnx EXCEPT !.serverKeys = plugin]
             a == Proven(cnx.pendingAccept, plugin)
  <2>1. Only("serverKeys", k, cnx) /\ k.serverKeys = plugin
    BY <1>3, Put
  <2>2. answered = [k EXCEPT !.pendingAccept = a]
    OBVIOUS
  <2>3. Connection(k)
    BY <2>1 DEF Only
  <2> HIDE DEF k, a, answered
  <2>4. Only("pendingAccept", answered, k)
    BY <2>2, <2>3, Put
  <2>5. Open(Terms, k, sv) /\ k.layer = cnx.layer /\ k.queue = cnx.queue
    BY <1>2, <2>1, TurnOnly
  <2>6. Open(Terms, answered, sv) /\ answered.layer = k.layer /\ answered.queue = k.queue
    BY <2>4, <2>5, TurnOnly
  <2>7. answered.serverKeys = k.serverKeys
    BY <2>4 DEF Only, Fields
  <2> QED
    BY <2>1, <2>5, <2>6, <2>7
<1>7. Open(Terms, noted, sv) /\ noted.layer = cnx.layer /\ noted.queue = cnx.queue
  <2> HIDE DEF noted
  <2> QED
    BY <1>2, <1>4, TurnOnly
<1>8. Open(Terms, fallback, sv) /\ fallback.layer = cnx.layer /\ fallback.queue = cnx.queue
  <2> HIDE DEF fallback
  <2> QED
    BY <1>2, <1>5, TurnOnly
<1> SUFFICES Talks(Terms, cnx', sv, toServer', toClient')
  BY <1>1, ReadsKeeps
<1>9. CASE AnswerTo(Terms, Packet, cnx, sv) /\ toClient' = <<>>
  <2> HIDE DEF answered, noted, fallback
  <2>1. Packet.op \in Demands
    BY <1>2 DEF Demands
  <2>2. sv.layer = cnx.layer
    BY <1>9, <2>1, DemandOnLayer
  <2>0. PICK w \in Logins : cnx.queue = <<w>> /\ (w = "connect" <=> sv.attaching = "")
    BY <1>9, <2>1, DemandOf
  <2>3. CASE cnx' = Written(answered, <<proof>>) /\ toServer' = Sent(answered, <<proof>>)
    <3>1. Talks(Terms, Written(answered, <<proof>>), sv, OneWay(answered, proof), <<>>)
      <4>1. Proof(plugin).is = "proof" => answered.serverKeys = Proof(plugin).of
        BY <1>6, ProofIs
      <4> QED
        BY <1>6, <2>0, <2>2, <4>1, LoginKeeps
    <3> QED
      BY <1>2, <1>9, <2>3, <3>1, SentIs
  <2>4. CASE cnx' = noted /\ toServer' = toServer
    BY <1>2, <1>7, <1>9, <2>4, ClientRests DEF Open
  <2>5. CASE cnx' = Written(cnx, <<legacy>>) /\ toServer' = Sent(cnx, <<legacy>>)
    <3>1. Talks(Terms, Written(cnx, <<legacy>>), sv, OneWay(cnx, legacy), <<>>)
      BY <1>2, <2>0, <2>2, LoginKeeps, OthersAreNoProof
    <3> QED
      BY <1>2, <1>9, <2>5, <3>1, SentIs
  <2>6. CASE cnx' = Written(fallback, <<legacy>>) /\ toServer' = Sent(fallback, <<legacy>>)
    <3>1. Talks(Terms, Written(fallback, <<legacy>>), sv, OneWay(fallback, legacy), <<>>)
      BY <1>8, <2>0, <2>2, LoginKeeps, OthersAreNoProof
    <3> QED
      BY <1>2, <1>9, <2>6, <3>1, SentIs
  <2>7. CASE UNCHANGED <<cnx, toServer>>
    BY <1>2, <1>9, <2>7, ClientRests DEF Open
  <2> QED
    BY <1>1, <2>3, <2>4, <2>5, <2>6, <2>7
<1>10. CASE /\ OwnProof(Packet, cnx)
            /\ \E r : AnswerTo(Terms, r, cnx, sv) /\ toClient' = <<In(r, cnx.layer)>>
  <2>1. PICK r : AnswerTo(Terms, r, cnx, sv) /\ toClient' = <<In(r, cnx.layer)>>
    BY <1>10
  <2>2. plugin \in SrpList /\ (pending => cnx.serverKeys = plugin)
    BY <1>10 DEF OwnProof
  <2>3. (cnx' = noted \/ cnx' = cnx) /\ toServer' = toServer
    BY <1>1, <2>2 DEF Challenge, SrpList
  <2>4. AnswerTo(Terms, r, noted, sv)
    <3> HIDE DEF noted
    <3> QED
      BY <1>7, <2>1 DEF AnswerTo, Stage, LayerAfter
  <2> HIDE DEF noted
  <2>5. /\ Talks(Terms, cnx, sv, <<>>, <<In(r, cnx.layer)>>)
        /\ Talks(Terms, noted, sv, <<>>, <<In(r, noted.layer)>>)
    BY <1>2, <1>7, <2>1, <2>4, ServerAnswers
  <2> QED
    BY <1>2, <1>7, <2>1, <2>3, <2>5
<1> QED
  BY <1>2, <1>9, <1>10

-----------------------------------------------------------------------------
(* The key of an encrypted database is asked for while an attach waits.    *)
LEMMA CryptKeyCallbackKeeps ==
    ASSUME ConnectInv, CryptKeyCallback
    PROVE  ConnectInv'
<1> DEFINE key == Message("op_crypt_key_callback")
<1>1. /\ Reads("op_crypt_key_callback")
      /\ cnx' = Written(cnx, <<key>>) /\ toServer' = Sent(cnx, <<key>>)
  BY DEF CryptKeyCallback, Write
<1>2. /\ Open(Terms, cnx, sv) /\ AnswerTo(Terms, Packet, cnx, sv)
      /\ Packet.op = "op_crypt_key_callback" /\ toServer = <<>> /\ toClient' = <<>>
  BY <1>1, ReadsWhat
<1>3. Packet.op \in Demands
  BY <1>2 DEF Demands
<1>4. Turn(Terms, cnx, sv)
  BY <1>2, <1>3, DemandOnLayer DEF Turn
<1>5. PICK w \in AttachOps : cnx.queue = <<w>>
  <2>1. PICK w : cnx.queue = <<w>> /\ Packet.op \in Answers(w)
    BY <1>2 DEF AnswerTo
  <2>2. w \in AttachOps
    BY <1>2, <2>1 DEF Answers, Accepts
  <2> QED
    BY <2>1, <2>2
<1>6. sv.attaching # ""
  <2>1. cnx.queue # <<"connect">>
    BY <1>5, Single DEF AttachOps
  <2> QED
    BY <1>2, <2>1 DEF AnswerTo, Stage
<1>7. key.op = "op_crypt_key_callback"
  BY DEF Message
<1> HIDE DEF key
<1>8. Question(Terms, key, cnx, sv)
  <2>1. key.op \in Questions(w)
    BY <1>5, <1>7 DEF Questions, AttachOps
  <2> QED
    BY <1>5, <1>6, <1>7, <2>1, Single DEF Question, Stage, AttachOps
<1>9. Talks(Terms, cnx', sv, toServer', toClient')
  BY <1>1, <1>2, <1>4, <1>7, <1>8, ClientWrites, SentIs
<1> QED
  BY <1>1, <1>9, ReadsKeeps

(* An op_response answers the one request there is; that to op_crypt says  *)
(* that the server has its cipher on.                                      *)
LEMMA ResponseAnswers ==
    ASSUME ConnectInv, NEW request, NEW ok, Response(request, ok)
    PROVE  /\ Reads("op_response") /\ Open(Terms, cnx, sv) /\ cnx.queue = <<request>>
           /\ toServer = <<>> /\ toClient' = <<>> /\ Packet.flag = ok
           /\ AnswerTo(Terms, Packet, cnx, sv) /\ Packet.op = "op_response"
<1>1. Reads("op_response") /\ Head(cnx.queue) = request /\ Packet.flag = ok
  BY DEF Response
<1>2. /\ Open(Terms, cnx, sv) /\ AnswerTo(Terms, Packet, cnx, sv)
      /\ Packet.op = "op_response" /\ toServer = <<>> /\ toClient' = <<>>
  BY <1>1, ReadsWhat
<1>3. PICK w : cnx.queue = <<w>>
  BY <1>2 DEF AnswerTo
<1>4. cnx.queue = <<request>>
  BY <1>1, <1>3, Single
<1> QED
  BY <1>1, <1>2, <1>4

(* Only a granted op_crypt changes a layer with an op_response.            *)
LEMMA ResponseOnLayer ==
    ASSUME ConnectInv, NEW request, NEW ok, Response(request, ok), request # "op_crypt" \/ ~ok
    PROVE  sv.layer = cnx.layer
<1>1. /\ cnx.queue = <<request>> /\ Packet.flag = ok
      /\ AnswerTo(Terms, Packet, cnx, sv) /\ Packet.op = "op_response"
  BY ResponseAnswers
<1>2. Packet.op \notin Accepts /\ ~(cnx.queue = <<"op_crypt">> /\ Packet.flag)
  BY <1>1, Single DEF Accepts
<1> QED
  BY <1>1, <1>2 DEF AnswerTo, LayerAfter

(* The queue is empty when its one request was answered.                   *)
LEMMA AnsweredIs ==
    ASSUME ConnectInv, NEW request, NEW ok, Response(request, ok)
    PROVE  /\ Only("queue", Answered, cnx) /\ Answered.queue = <<>>
           /\ Open(Terms, Answered, sv) /\ Answered.layer = cnx.layer
<1>1. Open(Terms, cnx, sv) /\ cnx.queue = <<request>>
  BY ResponseAnswers
<1>2. Tail(cnx.queue) = <<>> /\ Connection(cnx)
  BY <1>1, Single DEF Open
<1>3. Only("queue", Answered, cnx) /\ Answered.queue = <<>>
  BY <1>2, Put DEF Answered
<1> QED
  BY <1>1, <1>3, TurnOnly

(* The next request is asked when the last one is answered.                *)
LEMMA AskedKeeps ==
    ASSUME NEW c, NEW p, Turn(Terms, c, sv), c.queue = <<>>, toServer = <<>>, Asked(c, p),
           p.op \in AttachOps \cup {"op_drop_database", "op_detach"}
    PROVE  Talks(Terms, cnx', sv, toServer', <<>>)
<1> DEFINE d == [c EXCEPT !.queue = Append(@, p.op), !.db = @ \/ p.op \in DatabaseOps]
           k == [c EXCEPT !.queue = <<p.op>>]
           b == c.db \/ p.op \in DatabaseOps
<1>1. cnx' = Written(d, <<p>>) /\ toServer' = Sent(d, <<p>>)
  BY DEF Asked, Write
<1>2. d = [k EXCEPT !.db = b]
  BY Single
<1>3. Connection(c)
  BY DEF Turn, Open
<1>4. Only("queue", k, c) /\ k.queue = <<p.op>>
  BY <1>3, Put
<1>5. Connection(k)
  BY <1>4 DEF Only
<1> HIDE DEF d, k, b
<1>6. Only("db", d, k)
  BY <1>2, <1>5, Put
<1>7. Open(Terms, k, sv) /\ k.layer = c.layer
  BY <1>4, TurnOnly DEF Turn
<1>8. Open(Terms, d, sv) /\ d.layer = k.layer /\ d.queue = k.queue
  BY <1>6, <1>7, TurnOnly
<1>9. Turn(Terms, d, sv) /\ d.queue = <<p.op>>
  BY <1>4, <1>7, <1>8 DEF Turn
<1>10. p.op # "op_crypt"
  BY DEF AttachOps
<1>11. Question(Terms, p, d, sv)
  BY <1>9, <1>10, OwnQuestion
<1> QED
  BY <1>1, <1>9, <1>10, <1>11, ClientWrites, SentIs

(* A connection that is closed after an answer has nothing in the air.     *)
LEMMA EndsKeeps ==
    ASSUME NEW c, NEW result, Connection(c), Side(sv), c.deflating = <<>>, c.net # "connecting",
           c.net = "open" => Zips(Terms, c, sv), toServer = <<>>, Ends(c, result)
    PROVE  Talks(Terms, cnx', sv, toServer', <<>>)
  BY ClientRests DEF Ends

(* An answer that ends the conversation, or goes on to the next request.   *)
LEMMA AnswerEnds ==
    ASSUME ConnectInv, NEW request, NEW ok, Response(request, ok), NEW result,
           NEW c, Ends(c, result), Open(Terms, c, sv)
    PROVE  ConnectInv'
<1>1. Reads("op_response") /\ toServer = <<>> /\ toClient' = <<>>
  BY ResponseAnswers
<1>2. Connection(c) /\ Side(sv) /\ c.deflating = <<>> /\ c.net = "open" /\ Zips(Terms, c, sv)
  BY DEF Open
<1>3. Talks(Terms, cnx', sv, toServer', toClient')
  BY <1>1, <1>2, EndsKeeps
<1> QED
  BY <1>1, <1>3, ReadsKeeps

(* An answer whose callback asks for something next.                       *)
LEMMA AnswerAsks ==
    ASSUME ConnectInv, NEW request, NEW ok, Response(request, ok),
           NEW c, NEW p, Asked(c, p), Turn(Terms, c, sv), c.queue = <<>>,
           p.op \in AttachOps \cup {"op_drop_database", "op_detach"}
    PROVE  ConnectInv'
<1>1. Reads("op_response") /\ toServer = <<>> /\ toClient' = <<>>
  BY ResponseAnswers
<1>2. Talks(Terms, cnx', sv, toServer', toClient')
  BY <1>1, AskedKeeps
<1> QED
  BY <1>1, <1>2, ReadsKeeps

(* connect() goes on to op_crypt, to the attach, or gives up.              *)
LEMMA ConnectAnsweredKeeps ==
    ASSUME ConnectInv, ConnectAnswered
    PROVE  ConnectInv'
<1>1. CASE Response("connect", TRUE) /\ Connected(cnx, NoAccept)
  <2>1. /\ Reads("op_response") /\ Open(Terms, cnx, sv) /\ cnx.queue = <<"connect">>
        /\ toServer = <<>> /\ toClient' = <<>>
    BY <1>1, ResponseAnswers
  <2>2. sv.layer = cnx.layer
    BY <1>1, ResponseOnLayer
  <2>3. Turn(Terms, cnx, sv) /\ WellAsked(options, server)
    BY <2>1, <2>2 DEF Turn, ConnectInv
  <2>4. Talks(Terms, cnx', sv, toServer', toClient')
    BY <1>1, <2>1, <2>3, ConnectedKeeps
  <2> QED
    BY <2>1, <2>4, ReadsKeeps
<1>2. CASE Response("connect", FALSE) /\ Ends(Answered, "error")
  <2>1. Open(Terms, Answered, sv)
    BY <1>2, AnsweredIs
  <2> QED
    BY <1>2, <2>1, AnswerEnds
<1> QED
  BY <1>1, <1>2 DEF ConnectAnswered

(* op_crypt is granted: the client's cipher goes on, as the server's has.  *)
LEMMA CryptAnsweredKeeps ==
    ASSUME ConnectInv, CryptAnswered
    PROVE  ConnectInv'
<1>1. CASE Response("op_crypt", TRUE) /\ Asked(Encrypted(Answered), AttachRequest(cnx.accept.auth))
  <2> DEFINE p == AttachRequest(cnx.accept.auth)
  <2>1. p.op \in AttachOps
    BY AttachRequestIs
  <2>2. Open(Terms, Answered, sv) /\ Answered.queue = <<>> /\ Answered.layer = cnx.layer
    BY <1>1, AnsweredIs
  <2>3. /\ AnswerTo(Terms, Packet, cnx, sv) /\ Packet.op = "op_response"
        /\ cnx.queue = <<"op_crypt">> /\ Packet.flag = TRUE
    BY <1>1, ResponseAnswers
  <2>4. sv.layer = [cnx.layer EXCEPT !.cipher = SelectedPlugin]
    <3>1. Packet.op \notin Accepts
      BY <2>3 DEF Accepts
    <3> QED
      BY <2>3, <3>1 DEF AnswerTo, LayerAfter, Terms
  <2>5. Connection(Answered) /\ sv.layer \in LayerSet
    BY <2>2 DEF Open, Side
  <2> DEFINE e == [Answered EXCEPT !.layer = sv.layer]
  <2>6. Encrypted(Answered) = e
    BY <2>2, <2>4 DEF Encrypted
  <2>7. Only("layer", e, Answered) /\ e.layer = sv.layer
    BY <2>5, PutLayer
  <2> HIDE DEF e, p
  <2>8. /\ Connection(e) /\ e.net = Answered.net /\ e.queue = <<>>
        /\ e.deflating = Answered.deflating /\ e.layer = sv.layer
    BY <2>2, <2>7 DEF Only, Fields
  <2>9. Turn(Terms, e, sv)
    BY <2>2, <2>8 DEF Turn, Open, Zips
  <2>10. Asked(e, p)
    BY <1>1, <2>6 DEF p
  <2> QED
    BY <1>1, <2>1, <2>8, <2>9, <2>10, AnswerAsks
<1>2. CASE Response("op_crypt", FALSE) /\ Ends(Answered, "error")
  <2>1. Open(Terms, Answered, sv)
    BY <1>2, AnsweredIs
  <2> QED
    BY <1>2, <2>1, AnswerEnds
<1> QED
  BY <1>1, <1>2 DEF CryptAnswered

(* A connection that is ready, or detaches, talks as it did.               *)
LEMMA AnsweredPut ==
    ASSUME ConnectInv, NEW request, NEW ok, Response(request, ok), request # "op_crypt"
    PROVE  /\ Turn(Terms, Answered, sv) /\ Answered.queue = <<>>
           /\ LET c == [Answered EXCEPT !.ready = TRUE]
              IN  Turn(Terms, c, sv) /\ c.queue = <<>>
           /\ LET c == [Answered EXCEPT !.detach = IF ok THEN "ok" ELSE "error"]
              IN  Turn(Terms, c, sv) /\ c.queue = <<>>
<1> DEFINE r == [Answered EXCEPT !.ready = TRUE]
           d == [Answered EXCEPT !.detach = IF ok THEN "ok" ELSE "error"]
<1>1. Open(Terms, Answered, sv) /\ Answered.queue = <<>> /\ Answered.layer = cnx.layer
  BY AnsweredIs
<1>2. sv.layer = cnx.layer
  BY ResponseOnLayer
<1>3. Connection(Answered)
  BY <1>1 DEF Open
<1>4. Only("ready", r, Answered) /\ Only("detach", d, Answered)
  BY <1>3, Put
<1> HIDE DEF r, d
<1>5. Open(Terms, r, sv) /\ r.layer = Answered.layer /\ r.queue = <<>>
  BY <1>1, <1>4, StaysOpen
<1>6. Open(Terms, d, sv) /\ d.layer = Answered.layer /\ d.queue = <<>>
  BY <1>1, <1>4, StaysOpen
<1> QED
  BY <1>1, <1>2, <1>5, <1>6 DEF Turn, r, d

(* The attach: it is over, or a database is created instead, or dropped.   *)
LEMMA AttachAnsweredKeeps ==
    ASSUME ConnectInv, AttachAnswered
    PROVE  ConnectInv'
<1> DEFINE attached == [Answered EXCEPT !.ready = TRUE]
<1>1. CASE Response("op_attach", TRUE)
             /\ IF Mode = "drop" THEN Asked(attached, Message("op_drop_database"))
                ELSE Ends(attached, "ok")
  <2>1. Turn(Terms, attached, sv) /\ attached.queue = <<>>
    BY <1>1, AnsweredPut
  <2>2. Message("op_drop_database").op = "op_drop_database"
    BY DEF Message
  <2> HIDE DEF attached
  <2>3. CASE Mode = "drop"
    BY <1>1, <2>1, <2>2, <2>3, AnswerAsks
  <2>4. CASE Mode # "drop"
    BY <1>1, <2>1, <2>4, AnswerEnds DEF Turn
  <2> QED
    BY <2>3, <2>4
<1>2. CASE Response("op_attach", FALSE)
             /\ IF Mode = "attachOrCreate" THEN Asked(Answered, OpCreate(cnx.accept.auth))
                ELSE Ends(Answered, "error")
  <2>1. Turn(Terms, Answered, sv) /\ Answered.queue = <<>>
    BY <1>2, AnsweredPut
  <2>2. OpCreate(cnx.accept.auth).op \in AttachOps
    BY DEF OpCreate, Asks, Message, AttachOps
  <2>3. CASE Mode = "attachOrCreate"
    BY <1>2, <2>1, <2>2, <2>3, AnswerAsks
  <2>4. CASE Mode # "attachOrCreate"
    BY <1>2, <2>1, <2>4, AnswerEnds DEF Turn
  <2> QED
    BY <2>3, <2>4
<1> QED
  BY <1>1, <1>2 DEF AttachAnswered

(* createDatabase() and svcattach() are over.                              *)
LEMMA OthersAnsweredKeep ==
    ASSUME ConnectInv, CreateAnswered \/ ServiceAnswered
    PROVE  ConnectInv'
<1> DEFINE attached == [Answered EXCEPT !.ready = TRUE]
<1>1. PICK request \in {"op_create", "op_service_attach"} :
         \/ Response(request, TRUE) /\ Ends(attached, "ok")
         \/ Response(request, FALSE) /\ Ends(Answered, "error")
  BY DEF CreateAnswered, ServiceAnswered
<1>2. CASE Response(request, TRUE) /\ Ends(attached, "ok")
  <2>1. Open(Terms, attached, sv)
    BY <1>1, <1>2, AnsweredPut DEF Turn
  <2> HIDE DEF attached
  <2> QED
    BY <1>2, <2>1, AnswerEnds
<1>3. CASE Response(request, FALSE) /\ Ends(Answered, "error")
  <2>1. Open(Terms, Answered, sv)
    BY <1>1, <1>3, AnsweredPut DEF Turn
  <2> QED
    BY <1>3, <2>1, AnswerEnds
<1> QED
  BY <1>1, <1>2, <1>3

(* A dropped database is detached.                                         *)
LEMMA DropAnsweredKeeps ==
    ASSUME ConnectInv, DropAnswered
    PROVE  ConnectInv'
<1>0. PICK ok \in BOOLEAN :
         /\ Response("op_drop_database", ok)
         /\ Asked([Answered EXCEPT !.detach = IF ok THEN "ok" ELSE "error"], Message("op_detach"))
  BY DEF DropAnswered
<1> DEFINE c == [Answered EXCEPT !.detach = IF ok THEN "ok" ELSE "error"]
           p == Message("op_detach")
<1>1. Response("op_drop_database", ok) /\ Asked(c, p)
  BY <1>0
<1>2. Turn(Terms, c, sv) /\ c.queue = <<>>
  BY <1>1, AnsweredPut
<1>3. p.op = "op_detach"
  BY DEF Message
<1> HIDE DEF c, p
<1> QED
  BY <1>1, <1>2, <1>3, AnswerAsks

(* A detached one is closed.                                               *)
LEMMA DetachAnsweredKeeps ==
    ASSUME ConnectInv, DetachAnswered
    PROVE  ConnectInv'
<1> DEFINE c == [Answered EXCEPT !.net = "ended"]
<1>1. PICK ok \in BOOLEAN : Response("op_detach", ok) /\ Ends(c, cnx.detach)
  BY DEF DetachAnswered, ToldOfDrop
<1>2. Open(Terms, Answered, sv)
  BY <1>1, AnsweredIs
<1>3. Connection(Answered) /\ Answered.deflating = <<>> /\ Side(sv)
  BY <1>2 DEF Open
<1>4. Only("net", c, Answered) /\ c.net = "ended"
  BY <1>3, Put
<1> HIDE DEF c
<1>5. Connection(c) /\ c.deflating = <<>>
  BY <1>3, <1>4 DEF Only, Fields
<1>6. Reads("op_response") /\ toServer = <<>> /\ toClient' = <<>>
  BY <1>1, ResponseAnswers
<1>7. Talks(Terms, cnx', sv, toServer', toClient')
  BY <1>1, <1>3, <1>4, <1>5, <1>6, EndsKeeps
<1> QED
  BY <1>6, <1>7, ReadsKeeps

(* One step for each packet that the client reads.                         *)
LEMMA ClientReadsKeeps ==
    ASSUME ConnectInv, ClientReads
    PROVE  ConnectInv'
<1>1. ASSUME NEW op \in {"op_accept", "op_cond_accept", "op_accept_data"}, Accept(op)
      PROVE  ConnectInv'
  BY <1>1, AcceptKeeps DEF Accepts
<1> QED
  BY <1>1, ContinueAuthKeeps, CryptKeyCallbackKeeps, ConnectAnsweredKeeps, CryptAnsweredKeeps,
     AttachAnsweredKeeps, OthersAnsweredKeep, DropAnsweredKeeps, DetachAnsweredKeeps
     DEF ClientReads

-----------------------------------------------------------------------------
(* The compressor and the socket.                                          *)
LEMMA SameTerms ==
    ASSUME ConnectInv, options' = options, server' = server,
           Talks(Terms, cnx', sv', toServer', toClient')
    PROVE  ConnectInv'
<1>1. Terms' = Terms
  BY DEF Terms, FirstPlugin, SelectedPlugin
<1> QED
  BY <1>1 DEF ConnectInv

(* What comes out of the compressor takes the cipher of the moment: the    *)
(* cipher does not go on while a packet waits there.                       *)
LEMMA DeflatedKeeps ==
    ASSUME ConnectInv, Deflated
    PROVE  ConnectInv'
<1>1. /\ cnx.net = "open" /\ cnx.deflating # <<>> /\ Connection(cnx) /\ Side(sv)
      /\ WellAsked(options, server) /\ Air(Terms, cnx, sv, toServer, toClient)
  BY DEF Deflated, ConnectInv, Talks
<1>2. Zipping(Terms, cnx, sv, toServer, toClient) /\ Zips(Terms, cnx, sv)
  BY <1>1 DEF Air, Upward, Downward, DownwardTwo, Quiet
<1>3. PICK p : /\ cnx.deflating = <<p>> /\ toServer = <<>> /\ toClient = <<>>
               /\ Question(Terms, p, cnx, sv) /\ cnx.layer = sv.layer /\ cnx.layer.zip
  BY <1>2 DEF Zipping
<1> DEFINE d == [cnx EXCEPT !.deflating = <<>>]
<1>4. cnx' = d
  BY <1>3, Single DEF Deflated
<1>5. toServer' = <<In(p, sv.layer)>> /\ toClient' = <<>>
  <2>1. Head(cnx.deflating) = p
    BY <1>3, Single
  <2>2. On(<<p>>, cnx.layer) = <<In(p, sv.layer)>>
    BY <1>3, OnePacket
  <2> QED
    BY <1>3, <2>1, <2>2, Single DEF Deflated
<1>6. Only("deflating", d, cnx) /\ d.deflating = <<>>
  BY <1>1, Put
<1> HIDE DEF d
<1>7. /\ Connection(d) /\ d.net = cnx.net /\ d.layer = cnx.layer /\ d.queue = cnx.queue
      /\ d.serverKeys = cnx.serverKeys
  BY <1>6 DEF Only, Fields
<1>8. Question(Terms, p, d, sv)
  BY <1>3, <1>7 DEF Question, Stage
<1>9. ~(p.op = "op_crypt" /\ Terms.cipher = "Arc4")
  BY <1>1, <1>2, <1>3, TermsFit DEF Question, Zips
<1>10. Upward(Terms, d, sv, <<In(p, sv.layer)>>, <<>>)
  BY <1>3, <1>6, <1>7, <1>8, <1>9 DEF Upward
<1>11. Talks(Terms, d, sv, <<In(p, sv.layer)>>, <<>>)
  BY <1>1, <1>2, <1>7, <1>10 DEF Talks, Air, Zips
<1>12. options' = options /\ server' = server /\ sv' = sv
  BY DEF Deflated
<1> QED
  BY <1>4, <1>5, <1>11, <1>12, SameTerms

(* op_connect goes out as it is.                                           *)
LEMMA SocketConnectedKeeps ==
    ASSUME ConnectInv, SocketConnected
    PROVE  ConnectInv'
<1> DEFINE k == [cnx EXCEPT !.net = "open"]
           d == [k EXCEPT !.queue = <<"connect">>]
           p == OpConnect
<1>1. /\ cnx.net = "connecting" /\ Connection(cnx) /\ Side(sv)
      /\ Quiet(cnx, toServer, toClient)
      /\ cnx.layer = Plain /\ sv.layer = Plain /\ sv.attaching = ""
  BY DEF SocketConnected, ConnectInv, Talks
<1>2. /\ cnx' = Written(d, <<p>>) /\ toServer' = Sent(d, <<p>>)
      /\ options' = options /\ server' = server /\ sv' = sv /\ toClient' = toClient
  BY DEF SocketConnected, Write
<1>3. p.op = "op_connect" /\ p.plugin = FirstPlugin /\ p.zip = options.wireCompression
  BY DEF OpConnect, Asks, Message
<1>4. Only("net", k, cnx) /\ k.net = "open"
  BY <1>1, Put
<1>5. Connection(k)
  BY <1>4 DEF Only
<1> HIDE DEF k, p
<1>6. Only("queue", d, k) /\ d.queue = <<"connect">>
  BY <1>5, Put
<1> HIDE DEF d
<1>7. Connection(d) /\ d.net = "open" /\ d.deflating = <<>> /\ d.layer = Plain
  BY <1>1, <1>4, <1>6 DEF Only, Fields, Quiet
<1>8. Turn(Terms, d, sv)
  <2>1. Plain.zip = FALSE
    BY DEF Plain, Layer
  <2>2. ~d.layer.zip /\ ~sv.layer.zip
    BY <1>1, <1>7, <2>1
  <2> QED
    BY <1>1, <1>7, <2>2 DEF Turn, Open, Zips
<1>9. Question(Terms, p, d, sv)
  <2>1. p.op \in Questions("connect")
    BY <1>3 DEF Questions, AttachOps
  <2>2. Terms.first = FirstPlugin /\ Terms.zip = options.wireCompression
    BY DEF Terms
  <2>3. Stage(p, d, sv)
    BY <1>1, <1>6 DEF Stage
  <2> QED
    BY <1>3, <1>6, <1>7, <2>1, <2>2, <2>3 DEF Question
<1>10. Talks(Terms, Written(d, <<p>>), sv, OneWay(d, p), <<>>)
  BY <1>3, <1>8, <1>9, ClientWrites
<1>11. toServer = <<>> /\ toClient = <<>>
  BY <1>1 DEF Quiet
<1> QED
  BY <1>2, <1>10, <1>11, SentIs, SameTerms

(* A socket that is refused or lost says no more.                          *)
LEMMA SocketRefusedKeeps ==
    ASSUME ConnectInv, SocketRefused
    PROVE  ConnectInv'
<1> DEFINE k == [cnx EXCEPT !.net = "refused"]
           q == IF again THEN <<"connect">> ELSE cnx.queue
           d == [k EXCEPT !.queue = q]
<1>1. cnx' = d /\ options' = options /\ server' = server /\ sv' = sv
  BY DEF SocketRefused
<1>2. Connection(cnx) /\ Side(sv)
  BY DEF ConnectInv, Talks
<1>3. Only("net", k, cnx) /\ k.net = "refused"
  BY <1>2, Put
<1>4. Connection(k)
  BY <1>3 DEF Only
<1> HIDE DEF k, q
<1>5. Only("queue", d, k)
  BY <1>4, Put
<1> HIDE DEF d
<1>6. Connection(d) /\ d.net = "refused"
  BY <1>3, <1>5 DEF Only, Fields
<1>7. Talks(Terms, cnx', sv', toServer', toClient')
  BY <1>1, <1>2, <1>6 DEF Talks
<1> QED
  BY <1>1, <1>7, SameTerms

(* With the connection everything in the air is gone.                      *)
LEMMA LostKeeps ==
    ASSUME ConnectInv, NEW error, Lost(error)
    PROVE  ConnectInv'
<1> DEFINE k == [cnx EXCEPT !.net = "lost"]
           q == [k EXCEPT !.queue = <<>>]
           d == [q EXCEPT !.deflating = <<>>]
<1>1. cnx' = d /\ options' = options /\ server' = server /\ sv' = sv
  BY DEF Lost
<1>2. Connection(cnx) /\ Side(sv)
  BY DEF ConnectInv, Talks
<1>3. Only("net", k, cnx) /\ k.net = "lost"
  BY <1>2, Put
<1>4. Connection(k)
  BY <1>3 DEF Only
<1> HIDE DEF k
<1>5. Only("queue", q, k)
  BY <1>4, Put
<1>6. Connection(q)
  BY <1>5 DEF Only
<1> HIDE DEF q
<1>7. Only("deflating", d, q)
  BY <1>6, Put
<1> HIDE DEF d
<1>8. Connection(d) /\ d.net = "lost"
  BY <1>3, <1>5, <1>7 DEF Only, Fields
<1>9. Talks(Terms, cnx', sv', toServer', toClient')
  BY <1>1, <1>2, <1>8 DEF Talks
<1> QED
  BY <1>1, <1>9, SameTerms

(* A new connection has said nothing yet.                                  *)
LEMMA NewTalks ==
    ASSUME NEW t, NEW db
    PROVE  Talks(t, NewConnection(db), NewServer, <<>>, <<>>)
<1> DEFINE c == NewConnection(db)
           s == NewServer
<1>1. Plain \in LayerSet
  BY DEF Plain, Layer, LayerSet
<1>2. c.net = "connecting" /\ c.layer = Plain /\ c.deflating = <<>>
  BY DEF NewConnection
<1>3. Record(c, Fields)
  BY DEF NewConnection, Record, Fields
<1>4. Record(s, SideFields) /\ s.layer = Plain /\ s.attaching = ""
  BY DEF NewServer, Record, SideFields
<1> HIDE DEF c, s
<1>5. Talks(t, c, s, <<>>, <<>>)
  BY <1>1, <1>2, <1>3, <1>4 DEF Talks, Connection, Side, Quiet
<1> QED
  BY <1>5 DEF c, s

(* A new Connection starts with nothing switched on.                       *)
LEMMA RetryKeeps ==
    ASSUME ConnectInv, Retry
    PROVE  ConnectInv'
<1>1. /\ cnx' = NewConnection(TRUE) /\ sv' = NewServer /\ toServer' = <<>> /\ toClient' = <<>>
      /\ options' = options /\ server' = server
  BY DEF Retry, Replacement
<1>2. Talks(Terms, cnx', sv', toServer', toClient')
  BY <1>1, NewTalks
<1> QED
  BY <1>1, <1>2, SameTerms

-----------------------------------------------------------------------------
(* What a server that reads finds: the client's one packet.                *)
LEMMA GetsWhat ==
    ASSUME ConnectInv, NEW op, Gets(op)
    PROVE  /\ Open(Terms, cnx, sv) /\ Question(Terms, Got, cnx, sv) /\ Got.op = op
           /\ cnx.layer = IF op = "op_crypt" /\ Terms.cipher = "Arc4"
                          THEN [sv.layer EXCEPT !.cipher = "Arc4"] ELSE sv.layer
           /\ toServer' = <<>> /\ toClient = <<>> /\ cnx' = cnx /\ options' = options
<1>1. /\ cnx.net = "open" /\ toServer # <<>> /\ Got.op = op /\ toServer' = Tail(toServer)
      /\ cnx' = cnx /\ options' = options
      /\ Connection(cnx) /\ Side(sv) /\ Air(Terms, cnx, sv, toServer, toClient)
  BY DEF Gets, Got, ConnectInv, Talks
<1>2. Upward(Terms, cnx, sv, toServer, toClient) /\ Zips(Terms, cnx, sv)
  BY <1>1 DEF Air, Zipping, Downward, DownwardTwo, Quiet
<1>3. PICK p : /\ cnx.deflating = <<>> /\ toServer = <<In(p, sv.layer)>> /\ toClient = <<>>
               /\ Question(Terms, p, cnx, sv)
               /\ cnx.layer = IF p.op = "op_crypt" /\ Terms.cipher = "Arc4"
                              THEN [sv.layer EXCEPT !.cipher = "Arc4"] ELSE sv.layer
  BY <1>2 DEF Upward
<1>4. Got = p /\ toServer' = <<>>
  BY <1>1, <1>3, Single DEF Got, In
<1> QED
  BY <1>1, <1>2, <1>3, <1>4 DEF Open

(* The server's configuration, but for the database that comes and goes.   *)
Same(s2, s1) == s2 = s1 \/ \E b \in BOOLEAN : s2 = [s1 EXCEPT !.exists = b]

(* The server's step leaves the terms and the client's side alone.         *)
LEMMA ServerKeeps ==
    ASSUME ConnectInv, options' = options, cnx' = cnx, Same(server', server),
           Talks(Terms, cnx, sv', toServer', toClient')
    PROVE  ConnectInv'
<1>1. server \in ServerSet /\ WellAsked(options, server)
  BY DEF ConnectInv, WellAsked
<1>2. /\ server' \in ServerSet /\ server'.new = server.new /\ server'.zip = server.zip
      /\ server'.keys = server.keys /\ server'.path = server.path
  BY <1>1 DEF Same, ServerSet
<1>3. Terms' = Terms
  BY <1>2 DEF Terms, FirstPlugin, SelectedPlugin
<1>4. WellAsked(options', server')
  BY <1>1, <1>2 DEF WellAsked, Compresses
<1> QED
  BY <1>3, <1>4 DEF ConnectInv

(* What fits the request that waits.                                       *)
LEMMA ResponseFits ==
    ASSUME NEW t, NEW c, NEW s, NEW p, NEW w, Turn(t, c, s), c.queue = <<w>>, p.op = "op_response",
           w \in Logins \cup {"op_crypt", "op_drop_database", "op_detach"},
           w = "connect" => s.attaching = "", w = "op_crypt" => ~p.flag
    PROVE  AnswerTo(t, p, c, s)
<1>1. p.op \in Answers(w)
  BY DEF Answers, Logins, AttachOps
<1>2. (c.queue = <<"connect">> <=> w = "connect") /\ (c.queue = <<"op_crypt">> <=> w = "op_crypt")
  BY Single
<1>3. Stage(p, c, s)
  BY <1>2 DEF Stage
<1>4. p.op \notin Accepts
  BY DEF Accepts
<1>5. s.layer = LayerAfter(t, p, c)
  BY <1>2, <1>4 DEF LayerAfter, Turn
<1> QED
  BY <1>1, <1>3, <1>4, <1>5 DEF AnswerTo

(* A demand within a login is an answer to it.                             *)
LEMMA DemandFits ==
    ASSUME NEW t, NEW c, NEW s, NEW p, NEW w \in Logins, Turn(t, c, s), c.queue = <<w>>,
           p.op \in Demands, w = "connect" => p.op = "op_cont_auth",
           w = "connect" <=> s.attaching = ""
    PROVE  AnswerTo(t, p, c, s)
<1>1. p.op \in Answers(w)
  BY DEF Answers, Logins, AttachOps, Demands
<1>2. c.queue = <<"connect">> <=> w = "connect"
  BY Single
<1>3. Stage(p, c, s)
  BY <1>2 DEF Stage
<1>4. p.op \notin Accepts /\ p.op # "op_response"
  BY DEF Accepts, Demands
<1>5. s.layer = LayerAfter(t, p, c)
  BY <1>4 DEF LayerAfter, Turn
<1> QED
  BY <1>1, <1>3, <1>4, <1>5 DEF AnswerTo

(* The server's side s after the step, when its layer stays.               *)
LEMMA ReplyKeeps ==
    ASSUME ConnectInv, NEW s, NEW p, Turn(Terms, cnx, s), sv.layer = cnx.layer,
           AnswerTo(Terms, p, cnx, s), Reply(s, <<p>>), toClient = <<>>, toServer' = <<>>,
           cnx' = cnx, options' = options, Same(server', server)
    PROVE  ConnectInv'
<1>1. sv' = s /\ toClient' = <<In(p, cnx.layer)>>
  BY OnePacket, Single DEF Reply
<1>2. Talks(Terms, cnx, s, <<>>, <<In(p, cnx.layer)>>)
  BY ServerAnswers DEF Turn
<1> QED
  BY <1>1, <1>2, ServerKeeps

(* Progress on the server's side that leaves its layer.                    *)
LEMMA SideTurn ==
    ASSUME NEW t, NEW c, NEW s, Turn(t, c, s), NEW f \in SideFields \ {"layer"}, NEW v
    PROVE  LET d == [s EXCEPT ![f] = v]
           IN  Turn(t, c, d) /\ d[f] = v /\ \A g \in SideFields \ {f} : d[g] = s[g]
<1> DEFINE d == [s EXCEPT ![f] = v]
<1>1. Side(s)
  BY DEF Turn, Open
<1>2. Side(d) /\ d[f] = v /\ \A g \in SideFields \ {f} : d[g] = s[g]
  BY <1>1, SidePut
<1> HIDE DEF d
<1>3. d.layer = s.layer
  BY <1>2 DEF SideFields
<1>4. Turn(t, c, d)
  BY <1>2, <1>3 DEF Turn, Open, Zips
<1> QED
  BY <1>2, <1>4 DEF d

(* What op_response carries.                                               *)
LEMMA OpResponseIs ==
    ASSUME NEW ok
    PROVE  OpResponse(ok).op = "op_response" /\ OpResponse(ok).flag = ok /\ OpResponse(ok).zip = FALSE
  BY DEF OpResponse, Message

(* What every reply finds: the client waits for the answer to w.           *)
Waits(w) ==
    /\ ConnectInv /\ Turn(Terms, cnx, sv) /\ cnx.queue = <<w>>
    /\ toClient = <<>> /\ toServer' = <<>> /\ cnx' = cnx /\ options' = options

(* What the server notes for itself touches no layer.                      *)
LEMMA SideSteps ==
    ASSUME NEW s, Turn(Terms, cnx, s), NEW v
    PROVE  /\ Turn(Terms, cnx, [s EXCEPT !.authed = v])
           /\ [s EXCEPT !.authed = v].attaching = s.attaching
           /\ Turn(Terms, cnx, [s EXCEPT !.attached = v])
           /\ [s EXCEPT !.attached = v].attaching = s.attaching
           /\ Turn(Terms, cnx, [s EXCEPT !.attaching = v])
           /\ [s EXCEPT !.attaching = v].attaching = v
           /\ Turn(Terms, cnx, [s EXCEPT !.at = v])
<1>1. ASSUME NEW f \in SideFields \ {"layer"}
      PROVE  /\ Turn(Terms, cnx, [s EXCEPT ![f] = v]) /\ [s EXCEPT ![f] = v][f] = v
             /\ \A g \in SideFields \ {f} : [s EXCEPT ![f] = v][g] = s[g]
  BY SideTurn
<1> QED
  BY <1>1 DEF SideFields

(* A refusal, or an answer that changes no layer.                          *)
LEMMA RefuseKeeps ==
    ASSUME NEW w \in Logins \cup {"op_crypt", "op_drop_database", "op_detach"}, Waits(w),
           NEW s, Turn(Terms, cnx, s), w = "connect" => s.attaching = "",
           NEW ok, w = "op_crypt" => ~ok, Reply(s, <<OpResponse(ok)>>), Same(server', server)
    PROVE  ConnectInv'
<1> DEFINE p == OpResponse(ok)
<1>1. p.op = "op_response" /\ p.flag = ok
  BY OpResponseIs
<1> HIDE DEF p
<1>2. cnx.queue = <<w>>
  BY DEF Waits
<1>3. AnswerTo(Terms, p, cnx, s)
  BY <1>1, <1>2, ResponseFits
<1>4. sv.layer = cnx.layer
  BY DEF Waits, Turn
<1> QED
  BY <1>3, <1>4, ReplyKeeps DEF Waits, p

(* The server attaches, or finds no database.                              *)
LEMMA ServeKeeps ==
    ASSUME NEW w \in AttachOps, Waits(w), NEW s, Turn(Terms, cnx, s), NEW op, Serve(s, op)
    PROVE  ConnectInv'
<1> DEFINE ok == op # "op_attach" \/ server.exists
           d == [s EXCEPT !.attached = ok]
<1>1. Reply(d, <<OpResponse(ok)>>) /\ server' = [server EXCEPT !.exists = @ \/ op = "op_create"]
  BY DEF Serve
<1>2. Same(server', server)
  <2>1. (server.exists \/ op = "op_create") \in BOOLEAN
    OBVIOUS
  <2> QED
    BY <1>1, <2>1 DEF Same
<1> HIDE DEF ok
<1>4. Turn(Terms, cnx, d) /\ d.attaching = s.attaching
  BY SideSteps
<1> HIDE DEF d
<1>5. w \in Logins /\ w # "connect" /\ w # "op_crypt"
  BY DEF Logins, AttachOps
<1> QED
  BY <1>1, <1>2, <1>4, <1>5, RefuseKeeps

(* The server insists on encryption, asks for the key, or serves.          *)
LEMMA AdmitKeeps ==
    ASSUME NEW w \in AttachOps, Waits(w), NEW s, Turn(Terms, cnx, s), NEW op, op # "", Admit(s, op)
    PROVE  ConnectInv'
<1>1. w \in Logins /\ w # "connect" /\ w # "op_crypt"
  BY DEF Logins, AttachOps
<1>2. CASE Reply(s, <<OpResponse(FALSE)>>) /\ server' = server
  BY <1>1, <1>2, RefuseKeeps DEF Same
<1>3. CASE Serve(s, op)
  BY <1>3, ServeKeeps
<1>4. CASE Reply([s EXCEPT !.attaching = op], <<Message("op_crypt_key_callback")>>) /\ server' = server
  <2> DEFINE d == [s EXCEPT !.attaching = op]
             p == Message("op_crypt_key_callback")
  <2>2. Turn(Terms, cnx, d) /\ d.attaching = op
    BY SideSteps
  <2>3. p.op = "op_crypt_key_callback" /\ p.op \in Demands
    BY DEF Message, Demands
  <2> HIDE DEF d, p
  <2>4. cnx.queue = <<w>> /\ sv.layer = cnx.layer
    BY DEF Waits, Turn
  <2>5. AnswerTo(Terms, p, cnx, d)
    BY <1>1, <2>2, <2>3, <2>4, DemandFits
  <2>6. Reply(d, <<p>>) /\ Same(server', server)
    BY <1>4 DEF d, p, Same
  <2> QED
    BY <2>2, <2>4, <2>5, <2>6, ReplyKeeps DEF Waits
<1> QED
  BY <1>2, <1>3, <1>4 DEF Admit

(* A login: the next demand, the server's own proof and the end of the     *)
(* handshake, or what the login was for.                                   *)
LEMMA LogInKeeps ==
    ASSUME NEW w \in Logins, Waits(w), w = "connect" => sv.attaching = "",
           NEW op, w = "connect" <=> op = "",
           NEW data, w = "connect" /\ data.is = "proof" => cnx.serverKeys = data.of,
           LogIn(data, op)
    PROVE  ConnectInv'
<1> DEFINE plugin == Plugin(sv)
           last == sv.at = Len(server.path)
           right == data = (IF plugin \in SrpList THEN Proof(plugin) ELSE Legacy)
           own == IF server.proof /\ plugin \in SrpList
                  THEN <<ContAuth(plugin, Data("own proof", plugin))>> ELSE <<>>
           end == [OpResponse(TRUE) EXCEPT !.op = server.final]
           in == [sv EXCEPT !.authed = TRUE]
           demand == Demand(server.path[sv.at + 1])
           next == [sv EXCEPT !.at = @ + 1, !.attaching = op]
<1>1. \/ Reply(next, <<demand>>) /\ server' = server
      \/ right /\ op = "" /\ Reply(in, Append(own, end)) /\ server' = server
      \/ op # "" /\ Admit(in, op)
      \/ Reply(sv, <<OpResponse(FALSE)>>) /\ server' = server
  BY DEF LogIn
<1>2. /\ Turn(Terms, cnx, sv) /\ cnx.queue = <<w>> /\ sv.layer = cnx.layer
      /\ toClient = <<>> /\ toServer' = <<>> /\ cnx' = cnx /\ options' = options
      /\ ConnectInv
  BY DEF Waits, Turn
<1>4. Turn(Terms, cnx, in) /\ in.attaching = sv.attaching
  BY <1>2, SideSteps
<1>5. CASE Reply(next, <<demand>>) /\ server' = server
  <2> DEFINE at == [sv EXCEPT !.at = sv.at + 1]
  <2>1. next = [at EXCEPT !.attaching = op]
    OBVIOUS
  <2>2. Turn(Terms, cnx, at)
    BY <1>2, SideSteps
  <2> HIDE DEF at, next
  <2>3. Turn(Terms, cnx, next) /\ next.attaching = op
    BY <2>1, <2>2, SideSteps
  <2>4. demand.op = "op_cont_auth"
    BY DEF Demand, ContAuth, Asks, Message
  <2> HIDE DEF demand
  <2>5. demand.op \in Demands
    BY <2>4 DEF Demands
  <2>6. AnswerTo(Terms, demand, cnx, next)
    BY <1>2, <2>3, <2>4, <2>5, DemandFits
  <2> QED
    BY <1>2, <1>5, <2>3, <2>6, ReplyKeeps DEF Same
<1>6. CASE right /\ op = "" /\ Reply(in, Append(own, end)) /\ server' = server
  <2>1. w = "connect" /\ cnx.queue = <<"connect">> /\ in.attaching = ""
    BY <1>2, <1>4, <1>6
  <2>2. server.final \in {"op_response", "op_accept"}
    BY <1>2 DEF ConnectInv, WellAsked, ServerSet
  <2>3. end.op = server.final /\ end.zip = FALSE /\ end.flag = TRUE
    BY DEF OpResponse, Message
  <2> HIDE DEF in, end
  <2>4. AnswerTo(Terms, end, cnx, in)
    <3>1. CASE server.final = "op_response"
      BY <1>4, <2>1, <2>3, <3>1, ResponseFits DEF Logins
    <3>2. CASE server.final = "op_accept"
      <4>1. end.op \in Answers("connect") /\ end.op \in Accepts
        BY <2>3, <3>2 DEF Answers, Accepts, AttachOps
      <4>2. Stage(end, cnx, in)
        BY <2>1 DEF Stage
      <4>3. cnx.layer \in LayerSet /\ in.layer = cnx.layer
        BY <1>4 DEF Turn, Open, Connection
      <4>4. in.layer = LayerAfter(Terms, end, cnx)
        BY <2>3, <4>1, <4>3 DEF LayerAfter, ZippedBy, LayerSet
      <4> QED
        BY <2>1, <2>3, <4>1, <4>2, <4>4 DEF AnswerTo
    <3> QED
      BY <2>2, <3>1, <3>2
  <2>5. CASE ~(server.proof /\ plugin \in SrpList)
    <3>1. Append(own, end) = <<end>>
      BY <2>5, Single
    <3> QED
      BY <1>2, <1>4, <1>6, <2>4, <3>1, ReplyKeeps DEF Same
  <2>6. CASE server.proof /\ plugin \in SrpList
    <3> DEFINE p == ContAuth(plugin, Data("own proof", plugin))
    <3>1. Append(own, end) = <<p, end>>
      BY <2>6, Pair
    <3>2. p.op = "op_cont_auth" /\ p.plugin = plugin
      BY DEF ContAuth, Asks, Message
    <3>3. cnx.serverKeys = plugin
      <4>1. data = Proof(plugin)
        BY <1>6, <2>6
      <4> QED
        BY <2>1, <4>1, ProofIs
    <3> HIDE DEF p
    <3>4. OwnProof(p, cnx)
      BY <2>1, <2>6, <3>2, <3>3 DEF OwnProof
    <3>5. sv' = in /\ toClient' = <<In(p, cnx.layer), In(end, cnx.layer)>>
      <4>1. sv' = in /\ toClient' = <<>> \o On(<<p, end>>, cnx.layer)
        BY <1>2, <1>6, <3>1 DEF Reply
      <4>2. On(<<p, end>>, cnx.layer) = <<In(p, cnx.layer), In(end, cnx.layer)>>
        BY TwoPackets
      <4> QED
        BY <4>1, <4>2, Pair
    <3>6. cnx.deflating = <<>> /\ cnx.net = "open" /\ Connection(cnx) /\ Side(in) /\ Zips(Terms, cnx, in)
      BY <1>4 DEF Turn, Open
    <3>7. DownwardTwo(Terms, cnx, in, toServer', toClient')
      BY <1>2, <2>4, <3>4, <3>5, <3>6 DEF DownwardTwo
    <3>8. Talks(Terms, cnx, sv', toServer', toClient')
      BY <3>5, <3>6, <3>7 DEF Talks, Air
    <3> QED
      BY <1>2, <1>6, <3>8, ServerKeeps DEF Same
  <2> QED
    BY <2>5, <2>6
<1>7. CASE op # "" /\ Admit(in, op)
  <2>1. w \in AttachOps
    BY <1>7 DEF Logins
  <2> HIDE DEF in
  <2> QED
    BY <1>4, <1>7, <2>1, AdmitKeeps
<1>8. CASE Reply(sv, <<OpResponse(FALSE)>>) /\ server' = server
  <2>1. w # "op_crypt"
    BY DEF Logins, AttachOps
  <2> QED
    BY <1>2, <1>8, <2>1, RefuseKeeps DEF Same
<1> QED
  BY <1>1, <1>5, <1>6, <1>7, <1>8

-----------------------------------------------------------------------------
(* The packets that the server reads.                                      *)
LEMMA ConnectFound ==
    ASSUME ConnectInv, Gets("op_connect")
    PROVE  /\ Waits("connect") /\ sv.attaching = "" /\ cnx.layer = Plain
           /\ Got.plugin = FirstPlugin /\ Got.zip = options.wireCompression
<1>1. /\ Open(Terms, cnx, sv) /\ Question(Terms, Got, cnx, sv) /\ Got.op = "op_connect"
      /\ cnx.layer = sv.layer
      /\ toServer' = <<>> /\ toClient = <<>> /\ cnx' = cnx /\ options' = options
  BY GetsWhat
<1>2. PICK w : cnx.queue = <<w>> /\ Got.op \in Questions(w)
  BY <1>1 DEF Question
<1>3. w = "connect"
  BY <1>1, <1>2 DEF Questions, AttachOps
<1>4. sv.attaching = ""
  BY <1>1, <1>2, <1>3 DEF Question, Stage
<1>5. cnx.layer = Plain /\ Got.plugin = Terms.first /\ Got.zip = Terms.zip
  BY <1>1 DEF Question
<1>6. Terms.first = FirstPlugin /\ Terms.zip = options.wireCompression
  BY DEF Terms
<1> QED
  BY <1>1, <1>2, <1>3, <1>4, <1>5, <1>6 DEF Waits, Turn

(* An accept, with the compression that both sides agree on: the plugin is *)
(* then the one asked for, or needs no challenge.                          *)
LEMMA AcceptFits ==
    ASSUME Waits("connect"), sv.attaching = "", cnx.layer = Plain, NEW s, Side(s),
           s.attaching = "", NEW p, p.op \in Accepts,
           s.layer = [sv.layer EXCEPT !.zip = p.zip],
           p.zip \in BOOLEAN, p.zip => Terms.zips /\ (p.plugin \in SrpList => p.data # NoData),
           Reply(s, <<p>>), server' = server
    PROVE  ConnectInv'
<1>1. /\ Open(Terms, cnx, sv) /\ sv.layer = cnx.layer /\ cnx.queue = <<"connect">>
      /\ toClient = <<>> /\ toServer' = <<>> /\ cnx' = cnx /\ options' = options /\ ConnectInv
  BY DEF Waits, Turn
<1>2. sv.layer = Plain /\ Plain \in LayerSet /\ Plain.zip = FALSE
  BY <1>1 DEF Plain, Layer, LayerSet
<1>3. s.layer = ZippedBy(p, cnx.layer)
  <2>1. [Plain EXCEPT !.zip = p.zip] = [Plain EXCEPT !.zip = Plain.zip \/ p.zip]
    BY <1>2
  <2> QED
    BY <1>1, <1>2, <2>1 DEF ZippedBy
<1>4. s.layer.zip = p.zip
  BY <1>2 DEF LayerSet
<1>5. Open(Terms, cnx, s)
  BY <1>1, <1>2, <1>4 DEF Open, Zips
<1>6. p.op \in Answers("connect") /\ Stage(p, cnx, s)
  BY <1>1 DEF Answers, AttachOps, Stage
<1>7. AnswerTo(Terms, p, cnx, s)
  BY <1>1, <1>3, <1>6 DEF AnswerTo, LayerAfter
<1>8. Talks(Terms, cnx, s, <<>>, <<In(p, cnx.layer)>>)
  BY <1>5, <1>7, ServerAnswers
<1>9. sv' = s /\ toClient' = <<In(p, cnx.layer)>>
  <2>1. sv' = s /\ toClient' = <<>> \o On(<<p>>, cnx.layer)
    BY <1>1 DEF Reply
  <2> QED
    BY <2>1, OnePacket, Single
<1> QED
  BY <1>1, <1>8, <1>9, ServerKeeps DEF Same

(* op_connect is accepted, with or without a demand, or is refused.        *)
LEMMA GetsConnectKeeps ==
    ASSUME ConnectInv, GetsConnect
    PROVE  ConnectInv'
<1> DEFINE first == Head(server.path)
           named == Got.plugin = first
           zip == Got.zip /\ server.zip
           accept(op) == [Message(op) EXCEPT !.plugin = first, !.zip = zip]
           asked == [sv EXCEPT !.at = 1, !.layer.zip = zip]
           authed == [asked EXCEPT !.authed = TRUE]
           data == IF named THEN Data("challenge", first) ELSE NoData
           granted == [accept("op_accept_data") EXCEPT !.flag = TRUE]
           demand(op) == [accept(op) EXCEPT !.data = data]
<1>1. /\ Gets("op_connect") /\ server' = server
      /\ \/ Reply(sv, <<Message("op_accept")>>)
         \/ server.new /\ first = "Legacy_Auth" /\ Reply(authed, <<granted>>)
         \/ Reply(sv, <<OpResponse(FALSE)>>)
         \/ server.new /\ \E op \in Accepts : Reply(asked, <<demand(op)>>)
  BY DEF GetsConnect, Accepts
<1>2. /\ Waits("connect") /\ sv.attaching = "" /\ cnx.layer = Plain
      /\ Got.plugin = FirstPlugin /\ Got.zip = options.wireCompression
  BY <1>1, ConnectFound
<1>3. /\ WellAsked(options, server) /\ Turn(Terms, cnx, sv) /\ Side(sv) /\ sv.layer \in LayerSet
  BY <1>2 DEF Waits, ConnectInv, Turn, Open, Side
<1>4. zip \in BOOLEAN
  BY <1>2, <1>3 DEF WellAsked, OptionSet, ServerSet
<1>5. server.new /\ zip => Terms.zips
  BY <1>2 DEF Terms
<1>6. server.new /\ zip /\ first # "Legacy_Auth" => named
  <2>1. FirstPlugin = IF options.pluginName = "" THEN "Srp512" ELSE options.pluginName
    BY DEF FirstPlugin, AuthPluginList
  <2> QED
    BY <1>2, <1>3, <2>1 DEF WellAsked, Compresses
<1>7. /\ Side(asked) /\ asked.attaching = "" /\ asked.layer = [sv.layer EXCEPT !.zip = zip]
      /\ Side(authed) /\ authed.attaching = "" /\ authed.layer = [sv.layer EXCEPT !.zip = zip]
  <2> DEFINE l == [sv.layer EXCEPT !.zip = zip]
             s1 == [sv EXCEPT !.at = 1]
             s2 == [s1 EXCEPT !.layer = l]
  <2>1. l \in LayerSet
    BY <1>3, <1>4 DEF LayerSet
  <2>2. Side(s1) /\ s1.attaching = sv.attaching /\ s1.layer = sv.layer
    <3>1. "at" \in SideFields /\ "attaching" \in SideFields \ {"at"} /\ "layer" \in SideFields \ {"at"}
      BY DEF SideFields
    <3> QED
      BY <1>3, <3>1, SidePut
  <2>3. asked = s2
    BY <1>3, <2>2
  <2> HIDE DEF l, s1, asked
  <2>4. Side(s2) /\ s2.attaching = s1.attaching /\ s2.layer = l
    <3>1. "layer" \in SideFields /\ "attaching" \in SideFields \ {"layer"}
      BY DEF SideFields
    <3> QED
      BY <2>1, <2>2, <3>1, SidePut
  <2>5. Side(authed) /\ authed.attaching = asked.attaching /\ authed.layer = asked.layer
    <3>1. "authed" \in SideFields /\ "attaching" \in SideFields \ {"authed"} /\ "layer" \in SideFields \ {"authed"}
      BY DEF SideFields
    <3>2. Side(asked)
      BY <2>3, <2>4
    <3> QED
      BY <3>1, <3>2, SidePut
  <2> QED
    BY <1>2, <2>2, <2>3, <2>4, <2>5 DEF l
<1> HIDE DEF asked, authed, zip
<1>8. CASE Reply(sv, <<Message("op_accept")>>)
  <2> DEFINE p == Message("op_accept")
  <2>1. p.op = "op_accept" /\ p.zip = FALSE
    BY DEF Message
  <2>2. sv.layer = [sv.layer EXCEPT !.zip = FALSE]
    <3>1. sv.layer = Plain
      BY <1>2, <1>3 DEF Turn
    <3>2. Plain \in LayerSet /\ Plain.zip = FALSE
      BY DEF Plain, Layer, LayerSet
    <3>3. Plain = [Plain EXCEPT !.zip = FALSE]
      BY <3>2 DEF LayerSet
    <3> QED
      BY <3>1, <3>3
  <2> HIDE DEF p
  <2>3. p.op \in Accepts
    BY <2>1 DEF Accepts
  <2> QED
    BY <1>1, <1>2, <1>3, <1>8, <2>1, <2>2, <2>3, AcceptFits DEF p
<1>9. CASE server.new /\ first = "Legacy_Auth" /\ Reply(authed, <<granted>>)
  <2>1. granted.op = "op_accept_data" /\ granted.plugin = first /\ granted.zip = zip
    BY DEF Message
  <2> HIDE DEF granted, first
  <2>2. granted.op \in Accepts /\ granted.plugin \notin SrpList
    BY <1>9, <2>1 DEF Accepts, SrpList
  <2> QED
    BY <1>1, <1>2, <1>4, <1>5, <1>7, <1>9, <2>1, <2>2, AcceptFits
<1>10. CASE Reply(sv, <<OpResponse(FALSE)>>)
  BY <1>1, <1>2, <1>3, <1>10, RefuseKeeps DEF Logins, Same
<1>11. ASSUME server.new, NEW op \in Accepts, Reply(asked, <<demand(op)>>)
       PROVE  ConnectInv'
  <2> DEFINE p == demand(op)
  <2>1. p.op = op /\ p.plugin = first /\ p.zip = zip /\ p.data = data
    BY DEF Message
  <2>2. zip => (p.plugin \in SrpList => p.data # NoData)
    <3>1. Data("challenge", first) # NoData
      BY DEF Data, NoData
    <3> HIDE DEF p
    <3> QED
      BY <1>6, <1>11, <2>1, <3>1 DEF SrpList
  <2> HIDE DEF p
  <2> QED
    BY <1>1, <1>2, <1>4, <1>5, <1>7, <1>11, <2>1, <2>2, AcceptFits DEF p
<1> QED
  BY <1>1, <1>8, <1>9, <1>10, <1>11

(* A login: the next demand, an accept with or without the server's own    *)
(* proof, an attachment, or a refusal.                                     *)
LEMMA GetsContAuthKeeps ==
    ASSUME ConnectInv, GetsContAuth
    PROVE  ConnectInv'
<1>1. /\ Open(Terms, cnx, sv) /\ Question(Terms, Got, cnx, sv) /\ Got.op = "op_cont_auth"
      /\ cnx.layer = sv.layer
      /\ toServer' = <<>> /\ toClient = <<>> /\ cnx' = cnx /\ options' = options
  BY GetsWhat DEF GetsContAuth
<1>2. PICK w : cnx.queue = <<w>> /\ Got.op \in Questions(w)
  BY <1>1 DEF Question
<1>3. w \in Logins
  BY <1>1, <1>2 DEF Questions, Logins
<1>4. cnx.queue = <<"connect">> <=> w = "connect"
  BY <1>2, Single
<1>5. w = "connect" <=> sv.attaching = ""
  BY <1>1, <1>4 DEF Question, Stage
<1>6. w = "connect" /\ Got.data.is = "proof" => cnx.serverKeys = Got.data.of
  BY <1>1, <1>4 DEF Question
<1>7. Waits(w)
  BY <1>1, <1>2 DEF Waits, Turn
<1>8. CASE Reply(sv, <<Demand(Plugin(sv))>>) /\ server' = server
  <2> DEFINE p == Demand(Plugin(sv))
  <2>1. p.op = "op_cont_auth" /\ p.op \in Demands
    BY DEF Demand, ContAuth, Asks, Message, Demands
  <2>2. Turn(Terms, cnx, sv)
    BY <1>7 DEF Waits
  <2> HIDE DEF p
  <2>3. AnswerTo(Terms, p, cnx, sv)
    BY <1>2, <1>3, <1>5, <2>1, <2>2, DemandFits
  <2> QED
    BY <1>1, <1>8, <2>2, <2>3, ReplyKeeps DEF Same, p
<1>9. CASE LogIn(Got.data, sv.attaching)
  BY <1>3, <1>5, <1>6, <1>7, <1>9, LogInKeeps
<1> QED
  BY <1>8, <1>9 DEF GetsContAuth

(* The server finds the one request that the client waits for.             *)
LEMMA RequestFound ==
    ASSUME ConnectInv, NEW op \in AttachOps \cup {"op_drop_database", "op_detach"}, Gets(op)
    PROVE  Waits(op)
<1>1. op \notin {"connect", "op_crypt", "op_cont_auth", "op_crypt_key_callback", "op_connect"}
  BY DEF AttachOps
<1>2. /\ Open(Terms, cnx, sv) /\ Question(Terms, Got, cnx, sv) /\ Got.op = op
      /\ cnx.layer = sv.layer
      /\ toServer' = <<>> /\ toClient = <<>> /\ cnx' = cnx /\ options' = options
  BY <1>1, GetsWhat
<1>3. PICK w : cnx.queue = <<w>> /\ Got.op \in Questions(w)
  BY <1>2 DEF Question
<1>4. w = op
  BY <1>1, <1>2, <1>3 DEF Questions
<1> QED
  BY <1>2, <1>3, <1>4 DEF Waits, Turn

(* A request for an attachment: a login is asked for, or it is served.     *)
LEMMA GetsAttachKeeps ==
    ASSUME ConnectInv, NEW op \in AttachOps, GetsAttach(op)
    PROVE  ConnectInv'
<1>1. Waits(op)
  BY RequestFound DEF GetsAttach
<1>2. /\ op \in Logins /\ op # "connect" /\ op # "" /\ op # "op_crypt"
  BY DEF AttachOps, Logins
<1>3. Turn(Terms, cnx, sv)
  BY <1>1 DEF Waits
<1>4. CASE Admit(sv, op)
  BY <1>1, <1>2, <1>3, <1>4, AdmitKeeps
<1>5. CASE Reply(sv, <<OpResponse(FALSE)>>) /\ server' = server
  BY <1>1, <1>2, <1>3, <1>5, RefuseKeeps DEF Same
<1>6. CASE LogIn(Got.data, op)
  BY <1>1, <1>2, <1>6, LogInKeeps
<1> QED
  BY <1>4, <1>5, <1>6 DEF GetsAttach

(* The key of an encrypted database.                                       *)
LEMMA GetsKeyKeeps ==
    ASSUME ConnectInv, GetsKey
    PROVE  ConnectInv'
<1>1. /\ Open(Terms, cnx, sv) /\ Question(Terms, Got, cnx, sv)
      /\ Got.op = "op_crypt_key_callback" /\ cnx.layer = sv.layer
      /\ toServer' = <<>> /\ toClient = <<>> /\ cnx' = cnx /\ options' = options
  BY GetsWhat DEF GetsKey
<1>2. PICK w : cnx.queue = <<w>> /\ Got.op \in Questions(w)
  BY <1>1 DEF Question
<1>3. w \in AttachOps
  BY <1>1, <1>2 DEF Questions
<1>4. Waits(w) /\ Turn(Terms, cnx, sv)
  BY <1>1, <1>2 DEF Waits, Turn
<1> QED
  BY <1>3, <1>4, ServeKeeps DEF GetsKey

(* op_crypt: the server's cipher goes on with its answer.                  *)
LEMMA GetsCryptKeeps ==
    ASSUME ConnectInv, GetsCrypt
    PROVE  ConnectInv'
<1> DEFINE on == [sv EXCEPT !.layer.cipher = Got.plugin]
           p == OpResponse(TRUE)
<1>1. /\ Open(Terms, cnx, sv) /\ Question(Terms, Got, cnx, sv) /\ Got.op = "op_crypt"
      /\ cnx.layer = IF Terms.cipher = "Arc4"
                     THEN [sv.layer EXCEPT !.cipher = "Arc4"] ELSE sv.layer
      /\ toServer' = <<>> /\ toClient = <<>> /\ cnx' = cnx /\ options' = options
  BY GetsWhat DEF GetsCrypt
<1>2. Got.plugin = Terms.cipher /\ Terms.cipher \in {"Arc4", "ChaCha64"}
  BY <1>1 DEF Question, Terms, SelectedPlugin
<1>3. cnx.queue = <<"op_crypt">>
  <2>1. PICK w : cnx.queue = <<w>> /\ Got.op \in Questions(w)
    BY <1>1 DEF Question
  <2>2. w = "op_crypt"
    BY <1>1, <2>1 DEF Questions, AttachOps
  <2> QED
    BY <2>1, <2>2
<1>4. Side(sv) /\ sv.layer \in LayerSet /\ Connection(cnx) /\ cnx.layer \in LayerSet
  BY <1>1 DEF Open, Side, Connection
<1> DEFINE l == [sv.layer EXCEPT !.cipher = Terms.cipher]
<1>5. l \in LayerSet /\ l.zip = sv.layer.zip
  BY <1>2, <1>4, Ciphered
<1>6. on = [sv EXCEPT !.layer = l]
  BY <1>2, <1>4
<1> HIDE DEF l, on
<1>7. Side(on) /\ on.layer = l
  <2>1. "layer" \in SideFields
    BY DEF SideFields
  <2> QED
    BY <1>4, <1>5, <1>6, <2>1, SidePut
<1>8. Open(Terms, cnx, on)
  BY <1>1, <1>5, <1>7 DEF Open, Zips
<1>9. [cnx.layer EXCEPT !.cipher = Terms.cipher] = l
  <2>1. CASE Terms.cipher = "Arc4"
    BY <1>1, <1>4, <2>1 DEF LayerSet, l
  <2>2. CASE Terms.cipher # "Arc4"
    BY <1>1, <2>2 DEF l
  <2> QED
    BY <2>1, <2>2
<1>10. p.op = "op_response" /\ p.flag = TRUE
  BY OpResponseIs
<1> HIDE DEF p
<1>11. AnswerTo(Terms, p, cnx, on)
  <2>1. p.op \in Answers("op_crypt") /\ p.op \notin Accepts
    BY <1>10 DEF Answers, Accepts, AttachOps
  <2>2. Stage(p, cnx, on)
    BY <1>3, <1>10, Single DEF Stage
  <2>3. on.layer = LayerAfter(Terms, p, cnx)
    BY <1>3, <1>7, <1>9, <1>10, <2>1 DEF LayerAfter
  <2> QED
    BY <1>3, <2>1, <2>2, <2>3 DEF AnswerTo
<1>12. Talks(Terms, cnx, on, <<>>, <<In(p, cnx.layer)>>)
  BY <1>8, <1>11, ServerAnswers
<1>13. server' = server
  BY DEF GetsCrypt
<1>14. CASE Got.plugin = "Arc4" /\ sv' = on /\ toClient' = toClient \o On(<<p>>, on.layer)
  <2>1. on.layer = cnx.layer
    BY <1>1, <1>2, <1>7, <1>14 DEF l
  <2>2. toClient' = <<In(p, cnx.layer)>>
    BY <1>1, <1>14, <2>1, OnePacket, Single
  <2> QED
    BY <1>1, <1>12, <1>13, <1>14, <2>2, ServerKeeps DEF Same
<1>15. CASE Got.plugin # "Arc4" /\ sv' = on /\ toClient' = toClient \o On(<<p>>, sv.layer)
  <2>1. sv.layer = cnx.layer
    BY <1>1, <1>2, <1>15
  <2>2. toClient' = <<In(p, cnx.layer)>>
    BY <1>1, <1>15, <2>1, OnePacket, Single
  <2> QED
    BY <1>1, <1>12, <1>13, <1>15, <2>2, ServerKeeps DEF Same
<1>16. CASE Got.plugin # "Arc4" /\ Reply(sv, <<OpResponse(FALSE)>>)
  <2>1. Turn(Terms, cnx, sv)
    BY <1>1, <1>2, <1>16 DEF Turn
  <2>2. Waits("op_crypt")
    BY <1>1, <1>3, <2>1 DEF Waits
  <2> DEFINE r == OpResponse(FALSE)
  <2>3. r.op = "op_response" /\ r.flag = FALSE
    BY OpResponseIs
  <2> HIDE DEF r
  <2>4. AnswerTo(Terms, r, cnx, sv)
    BY <1>3, <2>1, <2>3, ResponseFits
  <2>5. Reply(sv, <<r>>) /\ Same(server', server) /\ sv.layer = cnx.layer
    BY <1>13, <1>16, <2>1 DEF r, Same, Turn
  <2> QED
    BY <1>1, <2>1, <2>4, <2>5, ReplyKeeps
<1> QED
  BY <1>14, <1>15, <1>16 DEF GetsCrypt, on, p

(* op_drop_database and op_detach.                                         *)
LEMMA GetsEndKeeps ==
    ASSUME ConnectInv, NEW op \in {"op_drop_database", "op_detach"}, GetsEnd(op)
    PROVE  ConnectInv'
<1> DEFINE drops == op = "op_drop_database"
           ok == ~(drops /\ server.busy)
           d == [sv EXCEPT !.attached = @ /\ ~ok]
<1>1. /\ Gets(op) /\ Reply(d, <<OpResponse(ok)>>)
      /\ server' = [server EXCEPT !.exists = @ /\ ~(drops /\ ok)]
  BY DEF GetsEnd
<1>2. Same(server', server)
  <2>1. (server.exists /\ ~(drops /\ ok)) \in BOOLEAN
    OBVIOUS
  <2> QED
    BY <1>1, <2>1 DEF Same
<1>3. Waits(op)
  BY <1>1, RequestFound
<1>4. Turn(Terms, cnx, d)
  BY <1>3, SideSteps DEF Waits
<1> HIDE DEF d
<1>5. op # "connect" /\ op # "op_crypt"
  OBVIOUS
<1> QED
  BY <1>1, <1>2, <1>3, <1>4, <1>5, RefuseKeeps

(* One step for each packet that the server reads.                         *)
LEMMA ServerReadsKeeps ==
    ASSUME ConnectInv, ServerReads
    PROVE  ConnectInv'
<1>1. ASSUME NEW op \in DatabaseOps \cup {"op_service_attach"}, GetsAttach(op)
      PROVE  ConnectInv'
  BY <1>1, GetsAttachKeeps DEF DatabaseOps, AttachOps
<1>2. ASSUME NEW op \in {"op_drop_database", "op_detach"}, GetsEnd(op)
      PROVE  ConnectInv'
  BY <1>2, GetsEndKeeps
<1> QED
  BY <1>1, <1>2, GetsConnectKeeps, GetsContAuthKeeps, GetsKeyKeeps, GetsCryptKeeps DEF ServerReads

-----------------------------------------------------------------------------
(* The conversation holds at first, is kept by every step, and says that   *)
(* what comes next on either side went through the layers of its reader.   *)
LEMMA ConnectInit ==
    ASSUME CompressionFits
    PROVE  Init => ConnectInv
<1> SUFFICES ASSUME Init PROVE ConnectInv
  OBVIOUS
<1>1. WellAsked(options, server)
  BY ConnectAssumption DEF Init, WellAsked, CompressionFits
<1>2. /\ cnx = NewConnection(FALSE) /\ sv = NewServer /\ toServer = <<>> /\ toClient = <<>>
  BY DEF Init
<1>3. Talks(Terms, cnx, sv, toServer, toClient)
  BY <1>2, NewTalks
<1> QED
  BY <1>1, <1>3 DEF ConnectInv

(* Every step of the handshake, of a loss and of a retry.                  *)
LEMMA ConnectStep ==
    ConnectInv /\ [Next]_vars => ConnectInv'
<1> SUFFICES ASSUME ConnectInv, [Next]_vars PROVE ConnectInv'
  OBVIOUS
<1>1. CASE UNCHANGED vars
  <2>1. /\ options' = options /\ server' = server /\ cnx' = cnx /\ sv' = sv
        /\ toServer' = toServer /\ toClient' = toClient
    BY <1>1 DEF vars
  <2>2. Talks(Terms, cnx', sv', toServer', toClient')
    BY <2>1 DEF ConnectInv
  <2> QED
    BY <2>1, <2>2, SameTerms
<1>2. ASSUME NEW error \in BOOLEAN, Lost(error)
      PROVE  ConnectInv'
  BY <1>2, LostKeeps
<1> QED
  BY <1>1, <1>2, SocketConnectedKeeps, SocketRefusedKeeps, DeflatedKeeps, ClientReadsKeeps,
     ServerReadsKeeps, RetryKeeps DEF Next

(* While the conversation holds, whoever reads next undoes what was done.  *)
LEMMA ConnectInvAgrees ==
    ConnectInv => LayersAgree
<1> SUFFICES ASSUME ConnectInv, cnx.net = "open"
             PROVE  /\ toServer # <<>> => Head(toServer).layer = sv.layer
                    /\ toClient # <<>> => Head(toClient).layer = cnx.layer
  BY DEF LayersAgree
<1>1. Air(Terms, cnx, sv, toServer, toClient)
  BY DEF ConnectInv, Talks
<1>2. CASE Upward(Terms, cnx, sv, toServer, toClient)
  BY <1>2, Single DEF Upward, In
<1>3. CASE Downward(Terms, cnx, sv, toServer, toClient)
  BY <1>3, Single DEF Downward, In
<1>4. CASE DownwardTwo(Terms, cnx, sv, toServer, toClient)
  BY <1>4, Pair DEF DownwardTwo, In
<1>5. CASE toServer = <<>> /\ toClient = <<>>
  BY <1>5
<1> QED
  BY <1>1, <1>2, <1>3, <1>4, <1>5 DEF Air, Zipping, Quiet

(* Both sides compress and encrypt a packet alike, at every step of every  *)
(* handshake where compression is asked for as it may be: over any path of *)
(* logins, with either cipher and the moment it goes on at, with the       *)
(* server's own proof in between, for a first connection and for every     *)
(* reconnection (connection.ts:753-755).                                   *)
THEOREM ConnectLayersAgree ==
    ASSUME CompressionFits
    PROVE  Spec => []LayersAgree
<1>1. Init => ConnectInv
  BY ConnectInit
<1>2. Spec => []ConnectInv
  BY <1>1, ConnectStep, PTL DEF Spec
<1> QED
  BY <1>2, ConnectInvAgrees, PTL
-----------------------------------------------------------------------------
(* Who is told what.  A right login succeeds, for one thing, because each  *)
(* packet of the conversation says what it should, and for another because *)
(* nobody is told before it is over.  So the invariant says of the packet  *)
(* in the air, by the request w that the client waits on, what it carries  *)
(* and what both sides have noted (o: what is asked for; z: of what        *)
(* server).  Layers do not matter: where they differ nothing is read.      *)

(* The answer that a login to the plugin is right with.                    *)
Right(plugin) == IF plugin \in SrpList THEN Proof(plugin) ELSE Legacy

(* What is pending has a session key when one of n logins was SRP.         *)
Pending(a) == Record(a, {"plugin", "auth", "session"})
Keyed(z, n, a) == \A i \in 1..n : z.path[i] \in SrpList => a.session

(* Within connect(): the server asks for a login.                          *)
LoggingIn(z, c, s) ==
    /\ z.new /\ ~s.authed /\ s.attaching = "" /\ s.at \in 1..Len(z.path)
    /\ c.pendingAccept # NoAccept

(* connect() is over: the login is done, or goes with the attach.          *)
Ready(o, z, a, s) ==
    /\ s.authed => z.ok
    /\ MayLogIn(o, z) /\ z.new /\ ~s.authed =>
          z.later /\ s.at = 1 /\ Head(z.path) \in SrpList /\ a.auth = Proof(Head(z.path))

(* The attachment w is asked for, and is what the mode is about; the       *)
(* server that insists on encryption has it.                               *)
Wants(o, w) ==
    \/ w = "op_attach" /\ o.mode \in {"attach", "attachOrCreate", "drop"}
    \/ w = "op_create" /\ o.mode \in {"create", "attachOrCreate"}
    \/ w = "op_service_attach" /\ o.mode = "service"
Attaching(o, z, w, c, s) ==
    /\ Wants(o, w) /\ c.pendingAccept = NoAccept
    /\ s.authed => z.ok
    /\ MayLogIn(o, z) /\ z.required => s.layer.cipher # ""
Serving(o, z, w, c, s) == Attaching(o, z, w, c, s) /\ s.attaching = w
LoggingInLate(z, s) == z.new /\ ~s.authed /\ s.at \in 1..Len(z.path)

EndOps == {"op_drop_database", "op_detach"}

(* What the client says.                                                   *)
SaysConnect(o, p, c, s) ==
    /\ p.op = "op_connect"
    /\ p.plugin = "Legacy_Auth" => o.pluginName = "Legacy_Auth"
    /\ c.pendingAccept = NoAccept /\ ~s.authed /\ s.attaching = ""
SaysLogin(z, p, c, s) ==
    /\ p.op = "op_cont_auth" /\ LoggingIn(z, c, s)
    /\ IF p.data = Public THEN s.at = 1
       ELSE /\ p.data = Right(z.path[s.at]) /\ Keyed(z, s.at, c.pendingAccept)
            /\ z.path[s.at] \in SrpList => c.serverKeys = z.path[s.at]
SaysCrypt(o, z, p, c, s) ==
    /\ p.op = "op_crypt" /\ p.plugin \in {"Arc4"} \cup z.keys
    /\ c.pendingAccept = NoAccept /\ Ready(o, z, c.accept, s)
SaysAttach(o, z, w, p, c, s) ==
    /\ p.op = w /\ Attaching(o, z, w, c, s) /\ Ready(o, z, c.accept, s)
    /\ w # "op_service_attach" => p.data = c.accept.auth
SaysLate(o, z, w, p, c, s) ==
    /\ p.op = "op_cont_auth" /\ p.data = Legacy /\ Serving(o, z, w, c, s)
    /\ MayLogIn(o, z) => LoggingInLate(z, s) /\ z.path[s.at] = "Legacy_Auth"
KeyFor(o, z, w, p, c, s) ==
    /\ p.op = "op_crypt_key_callback" /\ Serving(o, z, w, c, s)
    /\ z.ok /\ (z.new => s.authed)
Dropped(z, ok) == IF ok THEN ~z.exists ELSE z.busy
Ending(o, z, w, c) ==
    /\ w \in EndOps /\ z.ok /\ o.mode = "drop"
    /\ w = "op_detach" => c.detach \in {"ok", "error"} /\ Dropped(z, c.detach = "ok")
Says(o, z, w, p, c, s) ==
    \/ w = "connect" /\ (SaysConnect(o, p, c, s) \/ SaysLogin(z, p, c, s))
    \/ w = "op_crypt" /\ SaysCrypt(o, z, p, c, s)
    \/ SaysAttach(o, z, w, p, c, s) \/ SaysLate(o, z, w, p, c, s) \/ KeyFor(o, z, w, p, c, s)
    \/ p.op = w /\ Ending(o, z, w, c)

(* What the client hears.                                                  *)
HearsLogin(z, p, c, s) ==
    /\ p.op \in {"op_cond_accept", "op_accept_data"} /\ ~p.flag
    /\ c.pendingAccept = NoAccept
    /\ z.new /\ ~s.authed /\ s.attaching = "" /\ s.at = 1 /\ p.plugin = Head(z.path)
    /\ p.op = "op_accept_data" => z.later /\ Head(z.path) \in SrpList /\ p.data # NoData
LetIn(o, z, c, s) ==
    /\ s.attaching = ""
    /\ IF z.new THEN /\ s.authed /\ z.ok
                     /\ \/ o.pluginName = "Legacy_Auth"
                        \/ c.pendingAccept # NoAccept /\ Keyed(z, Len(z.path), c.pendingAccept)
       ELSE ~s.authed /\ c.pendingAccept = NoAccept
HearsLetIn(o, z, p, c, s) ==
    /\ p.op = "op_accept" \/ (p.op \in {"op_accept_data", "op_response"} /\ p.flag)
    /\ LetIn(o, z, c, s)
HearsDemand(z, p, c, s) ==
    /\ p.op = "op_cont_auth" /\ LoggingIn(z, c, s)
    /\ p.plugin = z.path[s.at] /\ Keyed(z, s.at - 1, c.pendingAccept)
HearsRefusal(o, z, p) == p.op = "op_response" /\ ~p.flag /\ ~MayLogIn(o, z)
HearsCrypt(o, z, p, c, s) ==
    /\ p.op = "op_response" /\ p.flag /\ s.layer.cipher # ""
    /\ c.pendingAccept = NoAccept /\ Ready(o, z, c.accept, s)
HearsAttach(o, z, w, p, c, s) ==
    /\ p.op = "op_response" /\ Attaching(o, z, w, c, s)
    /\ IF p.flag THEN z.ok /\ s.attached
       ELSE MayLogIn(o, z) => w = "op_attach" /\ ~z.exists /\ (z.new => s.authed)
HearsLate(o, z, w, p, c, s) ==
    /\ p.op = "op_cont_auth" /\ Serving(o, z, w, c, s)
    /\ MayLogIn(o, z) => LoggingInLate(z, s) /\ p.plugin = z.path[s.at]
HearsEnd(o, z, w, p, c) ==
    /\ p.op = "op_response" /\ Ending(o, z, w, c)
    /\ w = "op_drop_database" => Dropped(z, p.flag)
Hears(o, z, w, p, c, s) ==
    \/ /\ w = "connect"
       /\ HearsLogin(z, p, c, s) \/ HearsLetIn(o, z, p, c, s) \/ HearsDemand(z, p, c, s)
    \/ w \in {"connect", "op_crypt"} /\ HearsRefusal(o, z, p)
    \/ w = "op_crypt" /\ HearsCrypt(o, z, p, c, s)
    \/ HearsAttach(o, z, w, p, c, s) \/ HearsLate(o, z, w, p, c, s) \/ KeyFor(o, z, w, p, c, s)
    \/ HearsEnd(o, z, w, p, c)

(* The server's own proof, before the packet that lets the login in.       *)
HearsProof(p, c) ==
    /\ p.op = "op_cont_auth" /\ p.plugin \in SrpList
    /\ c.pendingAccept # NoAccept /\ c.serverKeys = p.plugin

(* What the caller was told.                                               *)
WellTold(o, z, s, said) ==
    /\ Len(said) = 1
    /\ MayLogIn(o, z) =>
          \/ said = <<"ok">>
          \/ o.mode \in {"attach", "drop"} /\ ~z.exists
          \/ o.mode = "drop" /\ z.busy
    /\ said = <<"ok">> => z.ok /\ IF o.mode = "drop" THEN ~z.exists ELSE s.attached

(* The packet in the air, if any.                                          *)
Saying(o, z, c, s, ts, tc) ==
    \E w, p : /\ c.queue = <<w>> /\ Says(o, z, w, p, c, s) /\ tc = <<>>
              /\ \/ c.deflating = <<p>> /\ ts = <<>>
                 \/ c.deflating = <<>> /\ \E l : ts = <<In(p, l)>>
Hearing(o, z, c, s, ts, tc) ==
    \E w, p, l : /\ c.queue = <<w>> /\ Hears(o, z, w, p, c, s)
                 /\ c.deflating = <<>> /\ ts = <<>> /\ tc = <<In(p, l)>>
HearingTwo(o, z, c, s, ts, tc) ==
    \E p, r, l, m : /\ c.queue = <<"connect">> /\ HearsProof(p, c) /\ HearsLetIn(o, z, r, c, s)
                    /\ c.deflating = <<>> /\ ts = <<>> /\ tc = <<In(p, l), In(r, m)>>

(* A connection by the state of its socket.                                *)
Minds(c, s) == Connection(c) /\ Side(s) /\ Pending(c.pendingAccept)
Login(o, z, c, s, ts, tc, said) ==
    /\ Minds(c, s) /\ c.net \in {"connecting", "open", "ended", "refused"}
    /\ c.net = "connecting" =>
          /\ Quiet(c, ts, tc) /\ said = <<>>
          /\ c.pendingAccept = NoAccept /\ ~s.authed /\ s.attaching = ""
    /\ c.net = "open" =>
          \/ /\ said = <<>>
             /\ \/ Saying(o, z, c, s, ts, tc) \/ Hearing(o, z, c, s, ts, tc)
                \/ HearingTwo(o, z, c, s, ts, tc)
          \/ Quiet(c, ts, tc) /\ (said = <<>> \/ WellTold(o, z, s, said))
    /\ c.net = "ended" => WellTold(o, z, s, said)

(* The first connection, until it is lost.                                 *)
First ==
    /\ options \in OptionSet /\ server \in ServerSet /\ ~again /\ ~retry
    /\ Login(options, server, cnx, sv, toServer, toClient, told)
LoginInv == losses \in Nat /\ (losses = 0 => First)

-----------------------------------------------------------------------------
(* A turn of either side: nothing is in the air.                           *)
Talking(c, s) == Minds(c, s) /\ c.net = "open" /\ c.deflating = <<>>

(* The client's notes of the login are the same.                           *)
Alike(d, c) ==
    /\ d.pendingAccept = c.pendingAccept /\ d.accept = c.accept /\ d.serverKeys = c.serverKeys
    /\ d.detach = c.detach

(* What is said depends on what the client notes of the login.             *)
LEMMA SaysAlike ==
    ASSUME NEW o, NEW z, NEW w, NEW p, NEW c, NEW d, NEW s, Alike(d, c), Says(o, z, w, p, c, s)
    PROVE  Says(o, z, w, p, d, s)
<1>1. SaysConnect(o, p, c, s) => SaysConnect(o, p, d, s)
  BY DEF Alike, SaysConnect
<1>2. SaysLogin(z, p, c, s) => SaysLogin(z, p, d, s)
  BY DEF Alike, SaysLogin, LoggingIn
<1>3. SaysCrypt(o, z, p, c, s) => SaysCrypt(o, z, p, d, s)
  BY DEF Alike, SaysCrypt
<1>4. Attaching(o, z, w, c, s) => Attaching(o, z, w, d, s)
  BY DEF Alike, Attaching
<1>5. SaysAttach(o, z, w, p, c, s) => SaysAttach(o, z, w, p, d, s)
  BY <1>4 DEF Alike, SaysAttach
<1>6. SaysLate(o, z, w, p, c, s) => SaysLate(o, z, w, p, d, s)
  BY <1>4 DEF SaysLate, Serving
<1>7. KeyFor(o, z, w, p, c, s) => KeyFor(o, z, w, p, d, s)
  BY <1>4 DEF KeyFor, Serving
<1>8. Ending(o, z, w, c) => Ending(o, z, w, d)
  BY DEF Alike, Ending
<1> QED
  BY <1>1, <1>2, <1>3, <1>5, <1>6, <1>7, <1>8 DEF Says

(* A packet that the client says leaves it at the end of its turn.         *)
LEMMA LoginSays ==
    ASSUME NEW o, NEW z, NEW w, NEW p, NEW c, NEW s, Talking(c, s), c.queue = <<w>>,
           Says(o, z, w, p, c, s)
    PROVE  Login(o, z, Written(c, <<p>>), s, OneWay(c, p), <<>>, <<>>)
<1> DEFINE d == Written(c, <<p>>)
<1>1. /\ Connection(d) /\ d.deflating = IF c.layer.zip THEN <<p>> ELSE <<>>
      /\ d.net = "open" /\ d.queue = c.queue /\ Alike(d, c)
  BY WrittenIs DEF Talking, Minds, Alike
<1> HIDE DEF d
<1>2. Says(o, z, w, p, d, s)
  BY <1>1, SaysAlike
<1>3. Saying(o, z, d, s, OneWay(c, p), <<>>)
  <2>1. CASE c.layer.zip
    BY <1>1, <1>2, <2>1 DEF Saying, OneWay
  <2>2. CASE ~c.layer.zip
    BY <1>1, <1>2, <2>2 DEF Saying, OneWay
  <2> QED
    BY <2>1, <2>2
<1>4. Minds(d, s)
  BY <1>1 DEF Talking, Minds, Alike
<1> QED
  BY <1>1, <1>3, <1>4 DEF Login, d

(* A packet that the client is to hear ends the server's.                  *)
LEMMA LoginHears ==
    ASSUME NEW o, NEW z, NEW w, NEW p, NEW l, NEW c, NEW s, Talking(c, s), c.queue = <<w>>,
           Hears(o, z, w, p, c, s)
    PROVE  Login(o, z, c, s, <<>>, <<In(p, l)>>, <<>>)
<1>1. Hearing(o, z, c, s, <<>>, <<In(p, l)>>)
  BY DEF Hearing, Talking
<1> QED
  BY <1>1 DEF Login, Talking

(* Nothing is said any more: the caller is told, or waits for ever.        *)
LEMMA LoginRests ==
    ASSUME NEW o, NEW z, NEW c, NEW s, NEW said, Talking(c, s),
           said = <<>> \/ WellTold(o, z, s, said)
    PROVE  Login(o, z, c, s, <<>>, <<>>, said)
  BY DEF Login, Talking, Quiet

(* Fields that have nothing to do with the login.                          *)
LEMMA TalkingOnly ==
    ASSUME NEW c, NEW d, NEW s, Talking(c, s),
           NEW f \in {"layer", "accept", "serverKeys", "queue", "db", "ready", "detach"}, Only(f, d, c)
    PROVE  /\ Talking(d, s) /\ d.pendingAccept = c.pendingAccept
           /\ f # "detach" => d.detach = c.detach
           /\ f # "queue" => d.queue = c.queue
           /\ f # "accept" => d.accept = c.accept
           /\ f # "serverKeys" => d.serverKeys = c.serverKeys
<1>1. /\ Connection(d) /\ d.net = c.net /\ d.deflating = c.deflating
      /\ d.pendingAccept = c.pendingAccept
      /\ f # "detach" => d.detach = c.detach
      /\ f # "queue" => d.queue = c.queue
      /\ f # "accept" => d.accept = c.accept
      /\ f # "serverKeys" => d.serverKeys = c.serverKeys
  BY DEF Only, Fields
<1> QED
  BY <1>1 DEF Talking, Minds

(* Another login that is pending.                                          *)
LEMMA TalkingPending ==
    ASSUME NEW c, NEW s, Talking(c, s), NEW a, Pending(a)
    PROVE  LET d == [c EXCEPT !.pendingAccept = a]
           IN  /\ Talking(d, s) /\ d.pendingAccept = a /\ d.queue = c.queue
               /\ d.accept = c.accept /\ d.serverKeys = c.serverKeys
<1> DEFINE d == [c EXCEPT !.pendingAccept = a]
<1>1. Only("pendingAccept", d, c) /\ d.pendingAccept = a
  BY Put DEF Talking, Minds
<1> HIDE DEF d
<1>2. /\ Connection(d) /\ d.net = c.net /\ d.deflating = c.deflating /\ d.queue = c.queue
      /\ d.accept = c.accept /\ d.serverKeys = c.serverKeys
  BY <1>1 DEF Only, Fields
<1>3. Talking(d, s)
  BY <1>1, <1>2 DEF Talking, Minds
<1> QED
  BY <1>1, <1>2, <1>3 DEF d

(* What is pending is a login to a plugin, or none.                        *)
LEMMA NonePending ==
    Pending(NoAccept) /\ NoAccept.plugin = "none"
  BY DEF Pending, Record, NoAccept

(* Another plugin is pending next.                                         *)
LEMMA PendingIs ==
    ASSUME NEW a, Pending(a), NEW plugin
    PROVE  LET b == [a EXCEPT !.plugin = plugin]
           IN  Pending(b) /\ b.plugin = plugin /\ b.session = a.session
  BY DEF Pending, Record

(* The proof for a plugin is pending next.                                 *)
LEMMA ProvenIs ==
    ASSUME NEW a, Pending(a), NEW plugin
    PROVE  /\ Pending(Proven(a, plugin)) /\ Proven(a, plugin).session
           /\ Proven(a, plugin).plugin = plugin /\ Proven(a, plugin).auth = Proof(plugin)
  BY DEF Pending, Record, Proven

(* The plugins that a server asks for.                                     *)
LEMMA PathIs ==
    ASSUME NEW z \in ServerSet
    PROVE  /\ z.path \in Seq(Plugins) /\ Len(z.path) \in Nat \ {0}
           /\ \A i \in 1..Len(z.path) : z.path[i] \in Plugins
           /\ Head(z.path) = z.path[1] /\ Head(z.path) \in Plugins
           /\ z.keys \subseteq {"Arc4", "ChaCha64"}
<1>1. z.path \in Seq(Plugins) /\ z.path # <<>> /\ z.keys \in SUBSET {"Arc4", "ChaCha64"}
  BY DEF ServerSet
<1>2. Len(z.path) \in Nat \ {0}
  BY <1>1
<1>3. \A i \in 1..Len(z.path) : z.path[i] \in Plugins
  BY <1>1
<1>4. Head(z.path) = z.path[1]
  BY <1>1
<1> QED
  BY <1>1, <1>2, <1>3, <1>4

-----------------------------------------------------------------------------
(* What a client that reads hears: the answer to its one request, or the   *)
(* server's own proof before the login is let in.                          *)
LEMMA ReadsLogin ==
    ASSUME First, NEW op, Reads(op)
    PROVE  /\ Talking(cnx, sv) /\ toServer = <<>> /\ told = <<>> /\ Packet.op = op
           /\ \/ /\ toClient' = <<>>
                 /\ \E w : cnx.queue = <<w>> /\ Hears(options, server, w, Packet, cnx, sv)
              \/ /\ cnx.queue = <<"connect">> /\ HearsProof(Packet, cnx)
                 /\ \E r, m : HearsLetIn(options, server, r, cnx, sv) /\ toClient' = <<In(r, m)>>
<1>1. /\ cnx.net = "open" /\ toClient # <<>> /\ Packet.op = op /\ toClient' = Tail(toClient)
      /\ Minds(cnx, sv)
  BY DEF Reads, Packet, First, Login
<1>2. /\ told = <<>>
      /\ \/ Hearing(options, server, cnx, sv, toServer, toClient)
         \/ HearingTwo(options, server, cnx, sv, toServer, toClient)
  BY <1>1 DEF First, Login, Saying, Quiet
<1>3. CASE Hearing(options, server, cnx, sv, toServer, toClient)
  <2>1. PICK w, p, l : /\ cnx.queue = <<w>> /\ Hears(options, server, w, p, cnx, sv)
                       /\ cnx.deflating = <<>> /\ toServer = <<>> /\ toClient = <<In(p, l)>>
    BY <1>3 DEF Hearing
  <2>2. Packet = p /\ toClient' = <<>>
    BY <1>1, <2>1, Single DEF Packet, In
  <2> QED
    BY <1>1, <1>2, <2>1, <2>2 DEF Talking
<1>4. CASE HearingTwo(options, server, cnx, sv, toServer, toClient)
  <2>1. PICK p, r, l, m :
           /\ cnx.queue = <<"connect">> /\ HearsProof(p, cnx)
           /\ HearsLetIn(options, server, r, cnx, sv)
           /\ cnx.deflating = <<>> /\ toServer = <<>> /\ toClient = <<In(p, l), In(r, m)>>
    BY <1>4 DEF HearingTwo
  <2>2. Packet = p /\ toClient' = <<In(r, m)>>
    BY <1>1, <2>1, Pair DEF Packet, In
  <2> QED
    BY <1>1, <1>2, <2>1, <2>2 DEF Talking
<1> QED
  BY <1>2, <1>3, <1>4

(* What a packet is about, by its operation.                               *)
LEMMA Heard ==
    ASSUME NEW o, NEW z, NEW w, NEW p, NEW c, NEW s, Hears(o, z, w, p, c, s)
    PROVE  /\ p.op \in Accepts =>
                 w = "connect" /\ (HearsLogin(z, p, c, s) \/ HearsLetIn(o, z, p, c, s))
           /\ p.op = "op_cont_auth" =>
                 (w = "connect" /\ HearsDemand(z, p, c, s)) \/ HearsLate(o, z, w, p, c, s)
           /\ p.op = "op_crypt_key_callback" => KeyFor(o, z, w, p, c, s)
           /\ p.op = "op_response" =>
                 \/ w = "connect" /\ HearsLetIn(o, z, p, c, s) /\ p.flag
                 \/ w \in {"connect", "op_crypt"} /\ HearsRefusal(o, z, p)
                 \/ w = "op_crypt" /\ HearsCrypt(o, z, p, c, s)
                 \/ HearsAttach(o, z, w, p, c, s) \/ HearsEnd(o, z, w, p, c)
<1>1. HearsLogin(z, p, c, s) => p.op \in {"op_cond_accept", "op_accept_data"}
  BY DEF HearsLogin
<1>2. HearsLetIn(o, z, p, c, s) =>
         p.op = "op_accept" \/ (p.op \in {"op_accept_data", "op_response"} /\ p.flag)
  BY DEF HearsLetIn
<1>3. HearsDemand(z, p, c, s) \/ HearsLate(o, z, w, p, c, s) => p.op = "op_cont_auth"
  BY DEF HearsDemand, HearsLate
<1>4. \/ HearsRefusal(o, z, p) \/ HearsCrypt(o, z, p, c, s)
      \/ HearsAttach(o, z, w, p, c, s) \/ HearsEnd(o, z, w, p, c)
      => p.op = "op_response"
  BY DEF HearsRefusal, HearsCrypt, HearsAttach, HearsEnd
<1>5. KeyFor(o, z, w, p, c, s) => p.op = "op_crypt_key_callback"
  BY DEF KeyFor
<1> QED
  BY <1>1, <1>2, <1>3, <1>4, <1>5 DEF Hears, Accepts

(* The caller's callback, before anything was told.                        *)
LEMMA Tells ==
    ASSUME First, told = <<>>, NEW result, Tell(result)
    PROVE  told' = <<result>>
  BY Single DEF First, Tell

(* A failure is right to tell where the login is not right.                *)
LEMMA ToldError ==
    ASSUME NEW o, NEW z, NEW s,
           MayLogIn(o, z) => \/ o.mode \in {"attach", "drop"} /\ ~z.exists
                             \/ o.mode = "drop" /\ z.busy
    PROVE  WellTold(o, z, s, <<"error">>)
<1>1. Len(<<"error">>) = 1 /\ <<"error">> # <<"ok">>
  OBVIOUS
<1> QED
  BY <1>1 DEF WellTold

(* A success is right to tell where the attachment is there, or what was   *)
(* dropped is gone.                                                        *)
LEMMA ToldOk ==
    ASSUME NEW o, NEW z, NEW s, z.ok, IF o.mode = "drop" THEN ~z.exists ELSE s.attached
    PROVE  WellTold(o, z, s, <<"ok">>)
<1>1. Len(<<"ok">>) = 1
  OBVIOUS
<1> QED
  BY <1>1 DEF WellTold

(* A client's step leaves the server's side alone.                         *)
LEMMA FirstReads ==
    ASSUME First, NEW op, Reads(op), ~retry',
           Login(options, server, cnx', sv, toServer', toClient', told')
    PROVE  First'
  BY DEF First, Reads

(* After connect(): the login is done, or goes with the attach, and has a  *)
(* session key where the server insists on encryption.                     *)
LEMMA ConnectedLogin ==
    ASSUME First, NEW c, NEW ret, Talking(c, sv), c.queue = <<"connect">>, toServer = <<>>,
           told = <<>>, Connected(c, ret), Ready(options, server, AcceptOf(c, ret), sv),
           MayLogIn(options, server) /\ server.required => AcceptOf(c, ret).session
    PROVE  Login(options, server, cnx', sv, toServer', <<>>, told')
<1> DEFINE accept == AcceptOf(c, ret)
           attach == AttachRequest(accept.auth)
           crypt == Asks("op_crypt", SelectedPlugin, NoData)
           next(op) == [c EXCEPT !.accept = accept, !.pendingAccept = NoAccept,
                                 !.queue = Append(Tail(@), op), !.db = @ \/ op \in DatabaseOps]
<1>1. ASSUME NEW op
      PROVE  /\ Talking(next(op), sv) /\ next(op).queue = <<op>>
             /\ next(op).pendingAccept = NoAccept /\ next(op).accept = accept
  <2>1. Append(Tail(c.queue), op) = <<op>>
    BY Single
  <2> DEFINE c1 == [c EXCEPT !.accept = accept]
             c2 == [c1 EXCEPT !.pendingAccept = NoAccept]
             c3 == [c2 EXCEPT !.queue = Append(Tail(c.queue), op)]
             c4 == [c3 EXCEPT !.db = c.db \/ op \in DatabaseOps]
  <2>2. next(op) = c4
    OBVIOUS
  <2> HIDE DEF next, accept
  <2>3. Connection(c)
    BY DEF Talking, Minds
  <2>4. Only("accept", c1, c) /\ c1.accept = accept
    BY <2>3, Put DEF Connection, Record, Fields
  <2>5. Talking(c1, sv)
    BY <2>4, TalkingOnly
  <2> HIDE DEF c1
  <2>6. Pending(NoAccept)
    BY NonePending
  <2>7. Talking(c2, sv) /\ c2.pendingAccept = NoAccept /\ c2.accept = c1.accept
    BY <2>5, <2>6, TalkingPending
  <2> HIDE DEF c2
  <2>8. Only("queue", c3, c2) /\ c3.queue = <<op>>
    <3>1. Connection(c2)
      BY <2>7 DEF Talking, Minds
    <3> QED
      BY <2>1, <3>1, Put
  <2> HIDE DEF c3
  <2>9. Talking(c3, sv) /\ c3.pendingAccept = NoAccept /\ c3.accept = c2.accept
    BY <2>7, <2>8, TalkingOnly
  <2>10. Only("db", c4, c3)
    BY <2>9, Put DEF Talking, Minds
  <2> HIDE DEF c4
  <2>11. /\ Talking(c4, sv) /\ c4.pendingAccept = NoAccept /\ c4.accept = c3.accept
         /\ c4.queue = c3.queue
    BY <2>9, <2>10, TalkingOnly
  <2> QED
    BY <2>2, <2>4, <2>7, <2>8, <2>9, <2>11
<1>2. /\ IF accept.session /\ options.wireCrypt
         THEN /\ cnx' = EncryptedAtOnce(Written(next("op_crypt"), <<crypt>>))
              /\ toServer' = Sent(next("op_crypt"), <<crypt>>)
         ELSE /\ cnx' = Written(next(attach.op), <<attach>>)
              /\ toServer' = Sent(next(attach.op), <<attach>>)
      /\ told' = <<>>
  BY DEF Connected, Write
<1>3. Ready(options, server, accept, sv)
  OBVIOUS
<1>4. options \in OptionSet /\ server \in ServerSet /\ ~again
  BY DEF First
<1>5. CASE ~(accept.session /\ options.wireCrypt)
  <2>1. Wants(options, attach.op)
    <3>1. options.mode \in {"attach", "attachOrCreate", "create", "service", "drop"}
      BY <1>4 DEF OptionSet
    <3> QED
      BY <1>4, <3>1 DEF Wants, AttachRequest, Mode, OpAttach, OpCreate, OpServiceAttach, Asks, Message
  <2>2. attach.op # "op_service_attach" => attach.data = accept.auth
    BY DEF AttachRequest, OpAttach, OpCreate, OpServiceAttach, Asks, Message
  <2> HIDE DEF attach, next, accept
  <2>3. ~(MayLogIn(options, server) /\ server.required)
    BY <1>5 DEF MayLogIn, accept
  <2>4. SaysAttach(options, server, attach.op, attach, next(attach.op), sv)
    BY <1>1, <1>3, <2>1, <2>2, <2>3 DEF SaysAttach, Attaching, Ready
  <2>5. Login(options, server, Written(next(attach.op), <<attach>>), sv,
              OneWay(next(attach.op), attach), <<>>, <<>>)
    BY <1>1, <2>4, LoginSays DEF Says
  <2> QED
    BY <1>2, <1>5, <2>5, SentIs
<1>6. CASE accept.session /\ options.wireCrypt
  <2> DEFINE d == next("op_crypt")
             e == Written(d, <<crypt>>)
  <2>1. /\ Talking(d, sv) /\ d.queue = <<"op_crypt">>
        /\ d.pendingAccept = NoAccept /\ d.accept = accept
    BY <1>1
  <2>2. crypt.op = "op_crypt" /\ crypt.plugin \in {"Arc4"} \cup server.keys
    BY DEF Asks, Message, SelectedPlugin
  <2> HIDE DEF next, accept, crypt
  <2>3. SaysCrypt(options, server, crypt, d, sv)
    BY <1>3, <2>1, <2>2 DEF SaysCrypt
  <2>4. Says(options, server, "op_crypt", crypt, d, sv)
    BY <2>3 DEF Says
  <2>5. Login(options, server, e, sv, OneWay(d, crypt), <<>>, <<>>)
    BY <2>1, <2>4, LoginSays
  <2>6. toServer' = OneWay(d, crypt) /\ cnx' = EncryptedAtOnce(e)
    BY <1>2, <1>6, SentIs
  <2>7. CASE SelectedPlugin # "Arc4"
    BY <1>2, <2>5, <2>6, <2>7 DEF EncryptedAtOnce
  <2>8. CASE SelectedPlugin = "Arc4"
    <3> DEFINE l == [e.layer EXCEPT !.cipher = "Arc4"]
               f == [e EXCEPT !.layer = l]
    <3>1. Connection(d) /\ d.deflating = <<>>
      BY <2>1 DEF Talking, Minds
    <3>2. /\ Connection(e) /\ e.deflating = IF d.layer.zip THEN <<crypt>> ELSE <<>>
          /\ e.net = d.net /\ e.layer = d.layer /\ e.queue = d.queue /\ Alike(e, d)
      BY <3>1, WrittenIs DEF Alike
    <3>3. Minds(e, sv)
      BY <2>1, <3>2 DEF Talking, Minds, Alike
    <3> HIDE DEF d, e
    <3>4. e.layer \in LayerSet
      BY <3>2 DEF Connection
    <3>5. l \in LayerSet
      <4>1. "Arc4" \in {"Arc4", "ChaCha64"}
        OBVIOUS
      <4> QED
        BY <3>4, <4>1, Ciphered, Zenon
    <3>6. cnx' = f
      BY <2>6, <2>8 DEF EncryptedAtOnce, Encrypted
    <3> HIDE DEF l
    <3>7. Only("layer", f, e)
      BY <3>2, <3>5, PutLayer
    <3> HIDE DEF f
    <3>8. /\ Connection(f) /\ f.deflating = e.deflating /\ f.net = "open" /\ f.queue = <<"op_crypt">>
          /\ Alike(f, e) /\ Minds(f, sv)
      BY <2>1, <3>2, <3>3, <3>7 DEF Only, Fields, Alike, Minds, Talking
    <3>9. Says(options, server, "op_crypt", crypt, f, sv)
      <4>1. Alike(f, d)
        BY <3>2, <3>8 DEF Alike
      <4> QED
        BY <2>4, <4>1, SaysAlike
    <3>10. Saying(options, server, f, sv, OneWay(d, crypt), <<>>)
      BY <3>2, <3>8, <3>9 DEF Saying, OneWay
    <3>11. Login(options, server, f, sv, OneWay(d, crypt), <<>>, <<>>)
      BY <3>8, <3>10 DEF Login
    <3> QED
      BY <1>2, <2>6, <3>6, <3>11
  <2> QED
    BY <2>7, <2>8
<1> QED
  BY <1>5, <1>6

(* The login that connect() goes on with, once the server has let it in.   *)
LEMMA LetInConnects ==
    ASSUME First, NEW c, NEW ret, Talking(c, sv), c.queue = <<"connect">>, toServer = <<>>,
           told = <<>>, Connected(c, ret), c.pendingAccept = cnx.pendingAccept,
           LetIn(options, server, cnx, sv)
    PROVE  Login(options, server, cnx', sv, toServer', <<>>, told')
<1>1. Ready(options, server, AcceptOf(c, ret), sv)
  BY DEF LetIn, Ready
<1>2. ASSUME MayLogIn(options, server), server.required
      PROVE  AcceptOf(c, ret).session
  <2>1. /\ server.new /\ options.pluginName # "Legacy_Auth"
        /\ SrpList \cap ToSet(server.path) # {}
    BY <1>2 DEF MayLogIn
  <2>2. cnx.pendingAccept # NoAccept /\ Keyed(server, Len(server.path), cnx.pendingAccept)
    BY <2>1 DEF LetIn
  <2>3. server.path \in Seq(Plugins)
    BY PathIs DEF First
  <2>4. PICK i \in 1..Len(server.path) : server.path[i] \in SrpList
    BY <2>1, <2>3 DEF ToSet
  <2>5. cnx.pendingAccept.session
    BY <2>2, <2>4 DEF Keyed
  <2> QED
    BY <2>2, <2>5 DEF AcceptOf
<1> QED
  BY <1>1, <1>2, ConnectedLogin

(* The accept: a login in another plugin, its first or its second half, or *)
(* nothing to log in with yet.                                             *)
LEMMA AcceptLogin ==
    ASSUME First, NEW op \in Accepts, Accept(op)
    PROVE  First'
<1> DEFINE plugin == Packet.plugin
           accept == [NoAccept EXCEPT !.plugin = plugin]
           srp == plugin \in SrpList
           login == op # "op_accept" /\ ~Packet.flag
           ret == IF ~login THEN accept
                  ELSE IF srp THEN Proven(accept, plugin)
                  ELSE [accept EXCEPT !.auth = Legacy]
           zipped == [cnx EXCEPT !.layer.zip = @ \/ Packet.zip,
                                 !.serverKeys = IF login /\ srp THEN plugin ELSE @]
           asked == [cnx EXCEPT !.pendingAccept = accept]
           held == [zipped EXCEPT !.pendingAccept = ret]
           public == ContAuth(plugin, Public)
           answer == ContAuth(ret.plugin, ret.auth)
<1>1. /\ Reads(op) /\ retry' = retry
      /\ \/ /\ login /\ options.pluginName \notin {"", plugin}
            /\ Tell("error") /\ UNCHANGED <<cnx, toServer>>
         \/ /\ login /\ srp /\ Packet.data = NoData /\ told' = told
            /\ cnx' = Written(asked, <<public>>) /\ toServer' = Sent(asked, <<public>>)
         \/ /\ login /\ told' = told
            /\ cnx' = Written(held, <<answer>>) /\ toServer' = Sent(held, <<answer>>)
         \/ /\ ~(op = "op_cond_accept" /\ login)
            /\ Connected(zipped, ret)
  BY DEF Accept, Write
<1>2. /\ Talking(cnx, sv) /\ toServer = <<>> /\ told = <<>> /\ Packet.op = op
      /\ op # "op_cont_auth" /\ options \in OptionSet /\ server \in ServerSet /\ ~retry
  BY <1>1, ReadsLogin DEF Accepts, First
<1>3. /\ toClient' = <<>> /\ cnx.queue = <<"connect">>
      /\ HearsLogin(server, Packet, cnx, sv) \/ HearsLetIn(options, server, Packet, cnx, sv)
  <2>1. ~HearsProof(Packet, cnx)
    BY <1>2 DEF HearsProof
  <2>2. toClient' = <<>> /\ \E w : cnx.queue = <<w>> /\ Hears(options, server, w, Packet, cnx, sv)
    BY <1>1, <2>1, ReadsLogin
  <2> QED
    BY <1>2, <2>2, Heard
<1> SUFFICES Login(options, server, cnx', sv, toServer', toClient', told')
  BY <1>1, <1>2, FirstReads
<1>4. Connection(cnx) /\ cnx.layer \in LayerSet /\ Pending(cnx.pendingAccept) /\ sv.layer \in LayerSet
  BY <1>2 DEF Talking, Minds, Connection, Side
<1>5. /\ Talking(zipped, sv) /\ zipped.queue = <<"connect">>
      /\ zipped.pendingAccept = cnx.pendingAccept
      /\ login /\ srp => zipped.serverKeys = plugin
  <2> DEFINE l == [cnx.layer EXCEPT !.zip = @ \/ Packet.zip]
             z == [cnx EXCEPT !.layer = l]
             k == IF login /\ srp THEN plugin ELSE cnx.serverKeys
  <2>1. l \in LayerSet
    BY <1>4 DEF LayerSet
  <2>2. zipped = [z EXCEPT !.serverKeys = k]
    OBVIOUS
  <2> HIDE DEF l
  <2>3. Only("layer", z, cnx)
    BY <1>4, <2>1, PutLayer
  <2> HIDE DEF z, k, zipped
  <2>4. Talking(z, sv) /\ z.queue = cnx.queue /\ z.pendingAccept = cnx.pendingAccept
    BY <1>2, <2>3, TalkingOnly
  <2>5. Only("serverKeys", zipped, z) /\ zipped.serverKeys = k
    <3>1. Connection(z)
      BY <2>4 DEF Talking, Minds
    <3> QED
      BY <2>2, <3>1, Put
  <2>6. Talking(zipped, sv) /\ zipped.queue = z.queue /\ zipped.pendingAccept = z.pendingAccept
    BY <2>4, <2>5, TalkingOnly
  <2> QED
    BY <1>3, <2>4, <2>5, <2>6 DEF k
<1>6. CASE HearsLetIn(options, server, Packet, cnx, sv)
  <2>1. ~login /\ LetIn(options, server, cnx, sv)
    BY <1>2, <1>6 DEF HearsLetIn, Accepts
  <2>2. Connected(zipped, ret)
    BY <1>1, <2>1
  <2> HIDE DEF zipped, ret
  <2> QED
    BY <1>2, <1>3, <1>5, <2>1, <2>2, LetInConnects
<1>7. CASE HearsLogin(server, Packet, cnx, sv)
  <2>1. /\ login /\ cnx.pendingAccept = NoAccept /\ plugin = Head(server.path)
        /\ server.new /\ ~sv.authed /\ sv.attaching = "" /\ sv.at = 1
    BY <1>2, <1>7 DEF HearsLogin
  <2>2. /\ server.path[1] = plugin /\ plugin \in Plugins /\ sv.at \in 1..Len(server.path)
        /\ plugin # "none"
    <3> HIDE DEF plugin
    <3>1. server \in ServerSet
      BY <1>2
    <3>2. /\ Head(server.path) = server.path[1] /\ Head(server.path) \in Plugins
          /\ Len(server.path) \in Nat \ {0}
      BY <3>1, PathIs
    <3>3. sv.at \in 1..Len(server.path)
      <4>1. sv.at = 1
        BY <2>1
      <4>2. Len(server.path) \in Nat \ {0}
        BY <3>2
      <4> QED
        BY <4>1, <4>2
    <3>4. server.path[1] = plugin /\ plugin \in Plugins
      BY <2>1, <3>2
    <3> QED
      BY <3>3, <3>4 DEF Plugins
  <2>3. /\ Pending(accept) /\ accept # NoAccept /\ accept.plugin = plugin
        /\ Pending(Proven(accept, plugin)) /\ Proven(accept, plugin) # NoAccept
        /\ Proven(accept, plugin).session /\ Proven(accept, plugin).auth = Proof(plugin)
    <3>1. Pending(NoAccept) /\ NoAccept.plugin = "none"
      BY NonePending
    <3>2. Pending(accept) /\ accept.plugin = plugin
      BY <3>1, PendingIs
    <3> HIDE DEF accept
    <3>3. /\ Pending(Proven(accept, plugin)) /\ Proven(accept, plugin).session
          /\ Proven(accept, plugin).plugin = plugin /\ Proven(accept, plugin).auth = Proof(plugin)
      BY <3>2, ProvenIs
    <3> QED
      BY <2>2, <3>1, <3>2, <3>3
  <2>4. /\ Pending(ret) /\ ret # NoAccept
        /\ IF srp THEN ret.session /\ ret.auth = Proof(plugin) ELSE ret.auth = Legacy
    <3>1. CASE srp
      BY <2>1, <2>3, <3>1
    <3>2. CASE ~srp
      <4>1. ret = [accept EXCEPT !.auth = Legacy]
        BY <2>1, <3>2
      <4> HIDE DEF accept, ret
      <4>2. Pending(ret) /\ ret.plugin = accept.plugin /\ ret.auth = Legacy
        BY <2>3, <4>1 DEF Pending, Record
      <4> QED
        BY <2>2, <2>3, <3>2, <4>2, NonePending
    <3> QED
      BY <3>1, <3>2
  <2>5. CASE options.pluginName \notin {"", plugin} /\ Tell("error") /\ UNCHANGED <<cnx, toServer>>
    <3>1. ~MayLogIn(options, server)
      BY <2>1, <2>5 DEF MayLogIn
    <3>2. told' = <<"error">>
      BY <1>2, <2>5, Tells
    <3>3. WellTold(options, server, sv, told')
      BY <3>1, <3>2, ToldError
    <3> QED
      BY <1>2, <1>3, <2>5, <3>3, LoginRests
  <2>6. CASE told' = told /\ cnx' = Written(asked, <<public>>) /\ toServer' = Sent(asked, <<public>>)
    <3> HIDE DEF accept
    <3>1. /\ Talking(asked, sv) /\ asked.pendingAccept = accept /\ asked.queue = cnx.queue
      BY <1>2, <2>3, TalkingPending
    <3> HIDE DEF asked
    <3>2. public.op = "op_cont_auth" /\ public.data = Public
      BY ContAuthIs
    <3> HIDE DEF public
    <3>3. SaysLogin(server, public, asked, sv)
      BY <2>1, <2>2, <2>3, <3>1, <3>2 DEF SaysLogin, LoggingIn
    <3>4. Says(options, server, "connect", public, asked, sv)
      BY <3>3 DEF Says
    <3>5. Login(options, server, Written(asked, <<public>>), sv, OneWay(asked, public), <<>>, <<>>)
      BY <1>3, <3>1, <3>4, LoginSays
    <3> QED
      BY <1>2, <1>3, <2>6, <3>5, SentIs
  <2>7. CASE told' = told /\ cnx' = Written(held, <<answer>>) /\ toServer' = Sent(held, <<answer>>)
    <3> HIDE DEF ret, zipped
    <3>1. /\ Talking(held, sv) /\ held.pendingAccept = ret /\ held.queue = zipped.queue
          /\ held.serverKeys = zipped.serverKeys
      BY <1>5, <2>4, TalkingPending
    <3> HIDE DEF held
    <3>2. answer.op = "op_cont_auth" /\ answer.data = ret.auth
      BY ContAuthIs
    <3> HIDE DEF answer
    <3>3. ret.auth = Right(server.path[1]) /\ ret.auth # Public
      <4>1. ret.auth = Right(server.path[1])
        BY <2>2, <2>4 DEF Right
      <4>2. Proof(plugin) # Public /\ Legacy # Public
        BY ProofIs, OthersAreNoProof
      <4> QED
        BY <2>4, <4>1, <4>2
    <3>4. Keyed(server, 1, ret)
      BY <2>2, <2>4 DEF Keyed
    <3>5. server.path[1] \in SrpList => held.serverKeys = server.path[1]
      BY <1>5, <2>1, <2>2, <3>1
    <3>6. SaysLogin(server, answer, held, sv)
      BY <2>1, <2>2, <2>4, <3>1, <3>2, <3>3, <3>4, <3>5 DEF SaysLogin, LoggingIn
    <3>7. Says(options, server, "connect", answer, held, sv)
      BY <3>6 DEF Says
    <3>8. Login(options, server, Written(held, <<answer>>), sv, OneWay(held, answer), <<>>, <<>>)
      BY <1>5, <3>1, <3>7, LoginSays
    <3> QED
      BY <1>2, <1>3, <2>7, <3>8, SentIs
  <2>8. CASE ~(op = "op_cond_accept" /\ login) /\ Connected(zipped, ret)
    <3>1. server.later /\ srp
      BY <1>2, <1>7, <2>1, <2>8 DEF HearsLogin
    <3>2. AcceptOf(zipped, ret) = ret
      BY <1>5, <2>1 DEF AcceptOf
    <3> HIDE DEF zipped, ret
    <3>3. Ready(options, server, ret, sv)
      BY <2>1, <2>4, <3>1 DEF Ready
    <3> QED
      BY <1>2, <1>3, <1>5, <2>4, <2>8, <3>1, <3>2, <3>3, ConnectedLogin
  <2> QED
    BY <1>1, <2>5, <2>6, <2>7, <2>8
<1> QED
  BY <1>3, <1>6, <1>7

-----------------------------------------------------------------------------
(* A login in answer to a demand, before connect() is over.                *)
LEMMA DemandLogin ==
    ASSUME NEW o, NEW z, NEW c, NEW d, NEW s, Talking(d, s), d.queue = <<"connect">>,
           LoggingIn(z, c, s), d.pendingAccept # NoAccept,
           NEW plugin, plugin = z.path[s.at], NEW data, data = Right(plugin), data # Public,
           Keyed(z, s.at, d.pendingAccept), plugin \in SrpList => d.serverKeys = plugin
    PROVE  Login(o, z, Written(d, <<ContAuth(plugin, data)>>), s,
                 OneWay(d, ContAuth(plugin, data)), <<>>, <<>>)
<1> DEFINE p == ContAuth(plugin, data)
<1>1. p.op = "op_cont_auth" /\ p.data = data
  BY ContAuthIs
<1> HIDE DEF p
<1>2. SaysLogin(z, p, d, s)
  BY <1>1 DEF SaysLogin, LoggingIn
<1>3. Says(o, z, "connect", p, d, s)
  BY <1>2 DEF Says
<1>4. Login(o, z, Written(d, <<p>>), s, OneWay(d, p), <<>>, <<>>)
  BY <1>3, LoginSays
<1> QED
  BY <1>4 DEF p

(* What proves a login is not the public key, with which one begins.       *)
LEMMA RightIs ==
    ASSUME NEW plugin
    PROVE  Right(plugin) # Public /\ Legacy # Public /\ Proof(plugin) # Public
<1>1. Proof(plugin) # Public /\ Legacy # Public
  BY ProofIs, OthersAreNoProof
<1> QED
  BY <1>1 DEF Right

(* op_cont_auth: a challenge is answered, the server's proof is not, and   *)
(* with the attach the legacy login is all that is left.                   *)
LEMMA ContinueAuthLogin ==
    ASSUME First, ContinueAuth
    PROVE  First'
<1> DEFINE plugin == Packet.plugin
           pending == cnx.pendingAccept # NoAccept
           keyed == [cnx EXCEPT !.serverKeys = plugin]
           answered == [cnx EXCEPT !.serverKeys = plugin,
                                   !.pendingAccept = Proven(cnx.pendingAccept, plugin)]
           noted == [cnx EXCEPT !.pendingAccept.plugin = plugin]
           fallback == [cnx EXCEPT !.accept.plugin = plugin, !.accept.auth = Legacy]
           proof == ContAuth(plugin, Proof(plugin))
           legacy == ContAuth(plugin, Legacy)
<1>1. /\ Reads("op_cont_auth") /\ retry' = retry /\ told' = told
      /\ \/ /\ pending /\ plugin \in SrpList /\ Challenge(plugin)
            /\ cnx' = Written(answered, <<proof>>) /\ toServer' = Sent(answered, <<proof>>)
         \/ /\ pending /\ plugin \in SrpList
            /\ cnx' = noted /\ toServer' = toServer
         \/ /\ pending /\ plugin = "Legacy_Auth"
            /\ cnx' = Written(cnx, <<legacy>>) /\ toServer' = Sent(cnx, <<legacy>>)
         \/ /\ ~pending /\ plugin = "Legacy_Auth"
            /\ cnx' = Written(fallback, <<legacy>>) /\ toServer' = Sent(fallback, <<legacy>>)
         \/ ~(pending /\ plugin \in SrpList) /\ UNCHANGED <<cnx, toServer>>
  BY DEF ContinueAuth, Write
<1>2. /\ Talking(cnx, sv) /\ toServer = <<>> /\ told = <<>> /\ Packet.op = "op_cont_auth"
      /\ options \in OptionSet /\ server \in ServerSet /\ ~retry
  BY <1>1, ReadsLogin DEF First
<1> SUFFICES Login(options, server, cnx', sv, toServer', toClient', told')
  BY <1>1, <1>2, FirstReads
<1>3. Pending(cnx.pendingAccept) /\ Connection(cnx)
  BY <1>2 DEF Talking, Minds
<1>4. /\ Talking(noted, sv) /\ noted.pendingAccept.plugin = plugin
      /\ noted.pendingAccept.session = cnx.pendingAccept.session /\ noted.queue = cnx.queue
  <2> DEFINE a == [cnx.pendingAccept EXCEPT !.plugin = plugin]
  <2>1. noted = [cnx EXCEPT !.pendingAccept = a]
    BY <1>3
  <2>2. Pending(a) /\ a.plugin = plugin /\ a.session = cnx.pendingAccept.session
    BY <1>3, PendingIs
  <2> HIDE DEF a, noted
  <2> QED
    BY <1>2, <2>1, <2>2, TalkingPending
<1>5. /\ Talking(answered, sv) /\ answered.pendingAccept = Proven(cnx.pendingAccept, plugin)
      /\ answered.queue = cnx.queue /\ answered.serverKeys = plugin
      /\ answered.pendingAccept.session /\ answered.pendingAccept.plugin = plugin
  <2> DEFINE a == Proven(cnx.pendingAccept, plugin)
  <2>1. Only("serverKeys", keyed, cnx) /\ keyed.serverKeys = plugin
    BY <1>3, Put
  <2>2. answered = [keyed EXCEPT !.pendingAccept = a]
    OBVIOUS
  <2>3. Pending(a) /\ a.session /\ a.plugin = plugin
    BY <1>3, ProvenIs
  <2> HIDE DEF keyed, a, answered
  <2>4. Talking(keyed, sv) /\ keyed.queue = cnx.queue
    BY <1>2, <2>1, TalkingOnly
  <2>5. /\ Talking(answered, sv) /\ answered.pendingAccept = a /\ answered.queue = keyed.queue
        /\ answered.serverKeys = keyed.serverKeys
    BY <2>2, <2>3, <2>4, TalkingPending
  <2> QED
    BY <2>1, <2>3, <2>4, <2>5 DEF a
<1>6. /\ Talking(fallback, sv) /\ fallback.pendingAccept = cnx.pendingAccept
      /\ fallback.queue = cnx.queue
  <2> DEFINE a == [[cnx.accept EXCEPT !.plugin = plugin] EXCEPT !.auth = Legacy]
  <2>1. fallback = [cnx EXCEPT !.accept = a]
    BY <1>3
  <2> HIDE DEF a, fallback
  <2>2. Only("accept", fallback, cnx)
    BY <1>3, <2>1, Put
  <2> QED
    BY <1>2, <2>2, TalkingOnly
<1>7. NoAccept.plugin # plugin \/ plugin \notin SrpList
  BY NonePending DEF SrpList
<1> HIDE DEF answered, noted, fallback, keyed
<1>8. CASE /\ cnx.queue = <<"connect">> /\ HearsProof(Packet, cnx)
           /\ \E r, m : HearsLetIn(options, server, r, cnx, sv) /\ toClient' = <<In(r, m)>>
  <2>1. PICK r, m : HearsLetIn(options, server, r, cnx, sv) /\ toClient' = <<In(r, m)>>
    BY <1>8
  <2>2. pending /\ plugin \in SrpList /\ ~Challenge(plugin) /\ plugin # "Legacy_Auth"
    BY <1>8 DEF HearsProof, Challenge, SrpList
  <2>3. cnx' = noted /\ toServer' = <<>> /\ told' = <<>>
    BY <1>1, <1>2, <2>2
  <2>4. noted.pendingAccept # NoAccept
    BY <1>4, <1>7, <2>2
  <2>5. HearsLetIn(options, server, r, noted, sv)
    BY <1>4, <2>1, <2>2, <2>4 DEF HearsLetIn, LetIn, Keyed
  <2>6. Hears(options, server, "connect", r, noted, sv)
    BY <2>5 DEF Hears
  <2> QED
    BY <1>4, <1>8, <2>1, <2>3, <2>6, LoginHears
<1>9. CASE toClient' = <<>> /\ \E w : cnx.queue = <<w>> /\ Hears(options, server, w, Packet, cnx, sv)
  <2>1. PICK w : cnx.queue = <<w>> /\ Hears(options, server, w, Packet, cnx, sv)
    BY <1>9
  <2>2. \/ w = "connect" /\ HearsDemand(server, Packet, cnx, sv)
        \/ HearsLate(options, server, w, Packet, cnx, sv)
    BY <1>2, <2>1, Heard
  <2>3. CASE cnx' = noted /\ toServer' = toServer
    BY <1>1, <1>2, <1>4, <1>9, <2>3, LoginRests
  <2>4. CASE UNCHANGED <<cnx, toServer>>
    BY <1>1, <1>2, <1>9, <2>4, LoginRests
  <2>5. CASE w = "connect" /\ HearsDemand(server, Packet, cnx, sv)
    <3>1. /\ LoggingIn(server, cnx, sv) /\ pending /\ plugin = server.path[sv.at]
          /\ Keyed(server, sv.at - 1, cnx.pendingAccept) /\ sv.at \in 1..Len(server.path)
      BY <2>5 DEF HearsDemand, LoggingIn
    <3>2. CASE /\ plugin \in SrpList
               /\ cnx' = Written(answered, <<proof>>) /\ toServer' = Sent(answered, <<proof>>)
      <4>1. Proof(plugin) = Right(plugin) /\ Proof(plugin) # Public
        BY <3>2, RightIs DEF Right
      <4>2. answered.pendingAccept # NoAccept
        BY <1>5, <1>7, <3>2
      <4>3. Keyed(server, sv.at, answered.pendingAccept)
        BY <1>5 DEF Keyed
      <4>4. Login(options, server, Written(answered, <<proof>>), sv, OneWay(answered, proof), <<>>, <<>>)
        BY <1>5, <2>1, <2>5, <3>1, <4>1, <4>2, <4>3, DemandLogin
      <4> QED
        BY <1>1, <1>2, <1>9, <3>2, <4>4, SentIs
    <3>3. CASE /\ plugin = "Legacy_Auth"
               /\ cnx' = Written(cnx, <<legacy>>) /\ toServer' = Sent(cnx, <<legacy>>)
      <4>1. plugin \notin SrpList
        BY <3>3 DEF SrpList
      <4>2. Legacy = Right(plugin) /\ Legacy # Public
        BY <4>1, RightIs DEF Right
      <4>3. Keyed(server, sv.at, cnx.pendingAccept)
        <5>1. \A i \in 1..sv.at : i \in 1..(sv.at - 1) \/ i = sv.at
          BY <3>1
        <5> QED
          BY <3>1, <4>1, <5>1 DEF Keyed
      <4>4. Login(options, server, Written(cnx, <<legacy>>), sv, OneWay(cnx, legacy), <<>>, <<>>)
        BY <1>2, <2>1, <2>5, <3>1, <4>1, <4>2, <4>3, DemandLogin
      <4> QED
        BY <1>1, <1>2, <1>9, <3>3, <4>4, SentIs
    <3> QED
      BY <1>1, <2>3, <2>4, <3>1, <3>2, <3>3
  <2>6. CASE HearsLate(options, server, w, Packet, cnx, sv)
    <3>1. /\ ~pending /\ Serving(options, server, w, cnx, sv)
          /\ MayLogIn(options, server) => LoggingInLate(server, sv) /\ plugin = server.path[sv.at]
      BY <2>6 DEF HearsLate, Serving, Attaching
    <3>2. CASE /\ plugin = "Legacy_Auth"
               /\ cnx' = Written(fallback, <<legacy>>) /\ toServer' = Sent(fallback, <<legacy>>)
      <4>1. Serving(options, server, w, fallback, sv)
        BY <1>6, <3>1 DEF Serving, Attaching
      <4>2. legacy.op = "op_cont_auth" /\ legacy.data = Legacy
        BY ContAuthIs
      <4> HIDE DEF legacy
      <4>3. SaysLate(options, server, w, legacy, fallback, sv)
        BY <3>1, <3>2, <4>1, <4>2 DEF SaysLate
      <4>4. Says(options, server, w, legacy, fallback, sv)
        BY <4>3 DEF Says
      <4>5. Login(options, server, Written(fallback, <<legacy>>), sv, OneWay(fallback, legacy), <<>>, <<>>)
        BY <1>6, <2>1, <4>4, LoginSays
      <4> QED
        BY <1>1, <1>2, <1>9, <3>2, <4>5, SentIs
    <3> QED
      BY <1>1, <2>3, <2>4, <3>1, <3>2
  <2> QED
    BY <2>2, <2>5, <2>6
<1> QED
  BY <1>1, <1>8, <1>9, ReadsLogin

(* The key of an encrypted database is sent while an attach waits.         *)
LEMMA CryptKeyLogin ==
    ASSUME First, CryptKeyCallback
    PROVE  First'
<1> DEFINE key == Message("op_crypt_key_callback")
<1>1. /\ Reads("op_crypt_key_callback") /\ retry' = retry /\ told' = told
      /\ cnx' = Written(cnx, <<key>>) /\ toServer' = Sent(cnx, <<key>>)
  BY DEF CryptKeyCallback, Write
<1>2. /\ Talking(cnx, sv) /\ toServer = <<>> /\ told = <<>>
      /\ Packet.op = "op_crypt_key_callback" /\ ~retry
  BY <1>1, ReadsLogin DEF First
<1>3. ~HearsProof(Packet, cnx)
  BY <1>2 DEF HearsProof
<1>4. toClient' = <<>> /\ \E w : cnx.queue = <<w>> /\ Hears(options, server, w, Packet, cnx, sv)
  BY <1>1, <1>3, ReadsLogin
<1>5. PICK w : cnx.queue = <<w>> /\ Hears(options, server, w, Packet, cnx, sv)
  BY <1>4
<1>6. KeyFor(options, server, w, Packet, cnx, sv)
  BY <1>2, <1>5, Heard
<1>7. key.op = "op_crypt_key_callback"
  BY DEF Message
<1> HIDE DEF key
<1>8. Says(options, server, w, key, cnx, sv)
  BY <1>6, <1>7 DEF KeyFor, Says
<1>9. Login(options, server, Written(cnx, <<key>>), sv, OneWay(cnx, key), <<>>, <<>>)
  BY <1>2, <1>5, <1>8, LoginSays
<1>10. Login(options, server, cnx', sv, toServer', toClient', told')
  BY <1>1, <1>2, <1>4, <1>9, SentIs
<1> QED
  BY <1>1, <1>2, <1>10, FirstReads

-----------------------------------------------------------------------------
(* An op_response answers the one request there is, by what it is about.   *)
LEMMA ResponseLogin ==
    ASSUME First, NEW request, NEW ok, Response(request, ok)
    PROVE  /\ Reads("op_response") /\ ~retry' /\ Talking(cnx, sv) /\ cnx.queue = <<request>>
           /\ toServer = <<>> /\ toClient' = <<>> /\ told = <<>> /\ Packet.flag = ok
           /\ Packet.op = "op_response" /\ Hears(options, server, request, Packet, cnx, sv)
<1>1. /\ Reads("op_response") /\ Head(cnx.queue) = request /\ Packet.flag = ok /\ ~retry'
  BY DEF Response, First
<1>2. Talking(cnx, sv) /\ toServer = <<>> /\ told = <<>> /\ Packet.op = "op_response"
  BY <1>1, ReadsLogin
<1>3. ~HearsProof(Packet, cnx)
  BY <1>2 DEF HearsProof
<1>4. toClient' = <<>> /\ \E w : cnx.queue = <<w>> /\ Hears(options, server, w, Packet, cnx, sv)
  BY <1>1, <1>3, ReadsLogin
<1>5. PICK w : cnx.queue = <<w>> /\ Hears(options, server, w, Packet, cnx, sv)
  BY <1>4
<1>6. w = request
  BY <1>1, <1>5, Single
<1> QED
  BY <1>1, <1>2, <1>4, <1>5, <1>6

(* The request that was answered, and what the answer to it says.          *)
LEMMA AnswerIs ==
    ASSUME First, NEW request, NEW ok, Response(request, ok)
    PROVE  /\ request = "connect" =>
                 HearsRefusal(options, server, Packet) \/ (ok /\ LetIn(options, server, cnx, sv))
           /\ request = "op_crypt" =>
                 \/ HearsRefusal(options, server, Packet)
                 \/ HearsCrypt(options, server, Packet, cnx, sv)
           /\ request \in AttachOps => HearsAttach(options, server, request, Packet, cnx, sv)
           /\ request \in EndOps => HearsEnd(options, server, request, Packet, cnx)
<1>1. /\ Packet.op = "op_response" /\ Packet.flag = ok
      /\ Hears(options, server, request, Packet, cnx, sv)
  BY ResponseLogin
<1>2. \/ request = "connect" /\ HearsLetIn(options, server, Packet, cnx, sv) /\ Packet.flag
      \/ request \in {"connect", "op_crypt"} /\ HearsRefusal(options, server, Packet)
      \/ request = "op_crypt" /\ HearsCrypt(options, server, Packet, cnx, sv)
      \/ HearsAttach(options, server, request, Packet, cnx, sv)
      \/ HearsEnd(options, server, request, Packet, cnx)
  BY <1>1, Heard
<1>3. HearsAttach(options, server, request, Packet, cnx, sv) => request \in AttachOps
  BY DEF HearsAttach, Attaching, Wants, AttachOps
<1>4. HearsEnd(options, server, request, Packet, cnx) => request \in EndOps
  BY DEF HearsEnd, Ending
<1>5. HearsLetIn(options, server, Packet, cnx, sv) => LetIn(options, server, cnx, sv)
  BY DEF HearsLetIn
<1> QED
  BY <1>1, <1>2, <1>3, <1>4, <1>5 DEF AttachOps, EndOps

(* The queue is empty when its one request was answered.                   *)
LEMMA AnsweredLogin ==
    ASSUME First, NEW request, NEW ok, Response(request, ok)
    PROVE  Talking(Answered, sv) /\ Answered.queue = <<>> /\ Alike(Answered, cnx)
<1>1. Talking(cnx, sv) /\ cnx.queue = <<request>>
  BY ResponseLogin
<1>2. Tail(cnx.queue) = <<>> /\ Connection(cnx)
  BY <1>1, Single DEF Talking, Minds
<1>3. Only("queue", Answered, cnx) /\ Answered.queue = <<>>
  BY <1>2, Put DEF Answered
<1> QED
  BY <1>1, <1>3, TalkingOnly DEF Alike

(* A connection that is ready, or detaches, goes on as it did.             *)
LEMMA AnsweredMarked ==
    ASSUME First, NEW request, NEW ok, Response(request, ok)
    PROVE  /\ LET c == [Answered EXCEPT !.ready = TRUE]
              IN  Talking(c, sv) /\ c.queue = <<>> /\ Alike(c, cnx)
           /\ LET result == IF ok THEN "ok" ELSE "error"
                  c == [Answered EXCEPT !.detach = result]
              IN  Talking(c, sv) /\ c.queue = <<>> /\ c.detach = result
<1> DEFINE r == [Answered EXCEPT !.ready = TRUE]
           result == IF ok THEN "ok" ELSE "error"
           d == [Answered EXCEPT !.detach = result]
<1>1. Talking(Answered, sv) /\ Answered.queue = <<>> /\ Alike(Answered, cnx)
  BY AnsweredLogin
<1>2. Only("ready", r, Answered)
  BY <1>1, Put DEF Talking, Minds
<1> HIDE DEF result
<1>3. Only("detach", d, Answered) /\ d.detach = result
  BY <1>1, Put DEF Talking, Minds
<1> HIDE DEF r, d
<1>4. Talking(r, sv) /\ r.queue = <<>> /\ Alike(r, cnx)
  BY <1>1, <1>2, TalkingOnly DEF Alike
<1>5. Talking(d, sv) /\ d.queue = <<>>
  BY <1>1, <1>3, TalkingOnly
<1> QED
  BY <1>3, <1>4, <1>5 DEF r, d, result

(* An answer whose callback asks for something next.                       *)
LEMMA AnswerAsksLogin ==
    ASSUME First, NEW request, NEW ok, Response(request, ok), NEW c, NEW p, Asked(c, p),
           Talking(c, sv), c.queue = <<>>, Says(options, server, p.op, p, c, sv)
    PROVE  First'
<1> DEFINE d == [c EXCEPT !.queue = Append(@, p.op), !.db = @ \/ p.op \in DatabaseOps]
           k == [c EXCEPT !.queue = <<p.op>>]
           b == c.db \/ p.op \in DatabaseOps
<1>1. cnx' = Written(d, <<p>>) /\ toServer' = Sent(d, <<p>>) /\ told' = told
  BY DEF Asked, Write
<1>2. d = [k EXCEPT !.db = b]
  BY Single
<1>3. Connection(c)
  BY DEF Talking, Minds
<1>4. Only("queue", k, c) /\ k.queue = <<p.op>>
  BY <1>3, Put
<1> HIDE DEF d, k, b
<1>5. Talking(k, sv) /\ Alike(k, c)
  BY <1>4, TalkingOnly DEF Alike
<1>6. Connection(k)
  BY <1>5 DEF Talking, Minds
<1>7. Only("db", d, k)
  BY <1>2, <1>6, Put
<1>8. Talking(d, sv) /\ d.queue = <<p.op>> /\ Alike(d, c)
  BY <1>4, <1>5, <1>7, TalkingOnly DEF Alike
<1>9. Says(options, server, p.op, p, d, sv)
  BY <1>8, SaysAlike
<1>10. Login(options, server, Written(d, <<p>>), sv, OneWay(d, p), <<>>, <<>>)
  BY <1>8, <1>9, LoginSays
<1>11. Reads("op_response") /\ ~retry' /\ toServer = <<>> /\ toClient' = <<>> /\ told = <<>>
  BY ResponseLogin
<1>12. Login(options, server, cnx', sv, toServer', toClient', told')
  BY <1>1, <1>10, <1>11, SentIs
<1> QED
  BY <1>11, <1>12, FirstReads

(* An answer that ends the conversation.                                   *)
LEMMA AnswerEndsLogin ==
    ASSUME First, NEW request, NEW ok, Response(request, ok), NEW c, NEW result, Ends(c, result),
           Talking(c, sv), WellTold(options, server, sv, <<result>>)
    PROVE  First'
<1>1. Reads("op_response") /\ ~retry' /\ toServer = <<>> /\ toClient' = <<>> /\ told = <<>>
  BY ResponseLogin
<1>2. cnx' = c /\ toServer' = <<>> /\ told' = <<result>>
  BY <1>1, Tells DEF Ends
<1>3. Login(options, server, c, sv, <<>>, <<>>, <<result>>)
  BY LoginRests
<1> QED
  BY <1>1, <1>2, <1>3, FirstReads

(* connect() goes on to op_crypt, to the attach, or gives up.              *)
LEMMA ConnectAnsweredLogin ==
    ASSUME First, ConnectAnswered
    PROVE  First'
<1>1. CASE Response("connect", TRUE) /\ Connected(cnx, NoAccept)
  <2>1. /\ Reads("op_response") /\ ~retry' /\ Talking(cnx, sv) /\ cnx.queue = <<"connect">>
        /\ toServer = <<>> /\ toClient' = <<>> /\ told = <<>> /\ Packet.flag
    BY <1>1, ResponseLogin
  <2>2. LetIn(options, server, cnx, sv)
    BY <1>1, <2>1, AnswerIs DEF HearsRefusal
  <2>3. Login(options, server, cnx', sv, toServer', <<>>, told')
    BY <1>1, <2>1, <2>2, LetInConnects
  <2> QED
    BY <2>1, <2>3, FirstReads
<1>2. CASE Response("connect", FALSE) /\ Ends(Answered, "error")
  <2>1. ~MayLogIn(options, server)
    BY <1>2, AnswerIs DEF HearsRefusal
  <2>2. WellTold(options, server, sv, <<"error">>)
    BY <2>1, ToldError
  <2>3. Talking(Answered, sv)
    BY <1>2, AnsweredLogin
  <2> QED
    BY <1>2, <2>2, <2>3, AnswerEndsLogin
<1> QED
  BY <1>1, <1>2 DEF ConnectAnswered

(* The attachment that the mode asks for first.                            *)
LEMMA AttachWanted ==
    ASSUME First, NEW auth
    PROVE  LET p == AttachRequest(auth)
           IN  Wants(options, p.op) /\ (p.op # "op_service_attach" => p.data = auth)
<1>1. options.mode \in {"attach", "attachOrCreate", "create", "service", "drop"} /\ ~again
  BY DEF First, OptionSet
<1> QED
  BY <1>1 DEF Wants, AttachRequest, Mode, OpAttach, OpCreate, OpServiceAttach, Asks, Message

(* A request for an attachment, when the login is ready.                   *)
LEMMA AttachSaid ==
    ASSUME NEW o, NEW z, NEW c, NEW s, NEW p, Ready(o, z, c.accept, s), c.pendingAccept = NoAccept,
           Wants(o, p.op), p.op # "op_service_attach" => p.data = c.accept.auth,
           MayLogIn(o, z) /\ z.required => s.layer.cipher # ""
    PROVE  Says(o, z, p.op, p, c, s)
<1>1. SaysAttach(o, z, p.op, p, c, s)
  BY DEF SaysAttach, Attaching, Ready
<1> QED
  BY <1>1 DEF Says

(* op_crypt is granted: the client's cipher goes on, as the server's has.  *)
LEMMA CryptAnsweredLogin ==
    ASSUME First, CryptAnswered
    PROVE  First'
<1>1. CASE Response("op_crypt", TRUE) /\ Asked(Encrypted(Answered), AttachRequest(cnx.accept.auth))
  <2> DEFINE p == AttachRequest(cnx.accept.auth)
             l == [Answered.layer EXCEPT !.cipher = SelectedPlugin]
             e == [Answered EXCEPT !.layer = l]
  <2>1. Packet.flag
    BY <1>1, ResponseLogin
  <2>2. HearsCrypt(options, server, Packet, cnx, sv)
    BY <1>1, <2>1, AnswerIs DEF HearsRefusal
  <2>3. Wants(options, p.op) /\ (p.op # "op_service_attach" => p.data = cnx.accept.auth)
    BY AttachWanted
  <2> HIDE DEF p
  <2>4. Talking(Answered, sv) /\ Answered.queue = <<>> /\ Alike(Answered, cnx)
    BY <1>1, AnsweredLogin
  <2>5. Connection(Answered) /\ Answered.layer \in LayerSet
    BY <2>4 DEF Talking, Minds, Connection
  <2>6. Encrypted(Answered) = e
    BY DEF Encrypted
  <2>7. l \in LayerSet
    <3>1. SelectedPlugin \in {"Arc4", "ChaCha64"}
      BY DEF SelectedPlugin
    <3> QED
      BY <2>5, <3>1, Ciphered, Zenon
  <2> HIDE DEF l
  <2>8. Only("layer", e, Answered)
    BY <2>5, <2>7, PutLayer
  <2>9. Asked(e, p)
    BY <1>1, <2>6 DEF p
  <2> HIDE DEF e
  <2>10. Talking(e, sv) /\ e.queue = <<>> /\ Alike(e, cnx)
    BY <2>4, <2>8, TalkingOnly DEF Alike
  <2>11. Says(options, server, p.op, p, e, sv)
    <3>1. Ready(options, server, e.accept, sv) /\ e.pendingAccept = NoAccept
      BY <2>2, <2>10 DEF HearsCrypt, Alike
    <3>2. sv.layer.cipher # "" /\ e.accept = cnx.accept
      BY <2>2, <2>10 DEF HearsCrypt, Alike
    <3> QED
      BY <2>3, <3>1, <3>2, AttachSaid
  <2> QED
    BY <1>1, <2>9, <2>10, <2>11, AnswerAsksLogin
<1>2. CASE Response("op_crypt", FALSE) /\ Ends(Answered, "error")
  <2>1. ~Packet.flag
    BY <1>2, ResponseLogin
  <2>2. ~MayLogIn(options, server)
    BY <1>2, <2>1, AnswerIs DEF HearsRefusal, HearsCrypt
  <2>3. WellTold(options, server, sv, <<"error">>)
    BY <2>2, ToldError
  <2>4. Talking(Answered, sv)
    BY <1>2, AnsweredLogin
  <2> QED
    BY <1>2, <2>3, <2>4, AnswerEndsLogin
<1> QED
  BY <1>1, <1>2 DEF CryptAnswered

(* What the answer to an attach lets be told.                              *)
LEMMA AttachTold ==
    ASSUME First, NEW w \in AttachOps, NEW ok \in BOOLEAN, Response(w, ok)
    PROVE  /\ Attaching(options, server, w, cnx, sv)
           /\ ok => server.ok
           /\ ok /\ options.mode # "drop" => WellTold(options, server, sv, <<"ok">>)
           /\ ~ok /\ MayLogIn(options, server) =>
                 w = "op_attach" /\ ~server.exists /\ (server.new => sv.authed)
<1>1. HearsAttach(options, server, w, Packet, cnx, sv) /\ Packet.flag = ok
  BY AnswerIs, ResponseLogin
<1> QED
  BY <1>1, ToldOk DEF HearsAttach

(* The attach: it is over, or a database is created instead, or dropped.   *)
LEMMA AttachAnsweredLogin ==
    ASSUME First, AttachAnswered
    PROVE  First'
<1> DEFINE attached == [Answered EXCEPT !.ready = TRUE]
           drop == Message("op_drop_database")
           create == OpCreate(cnx.accept.auth)
<1>0. "op_attach" \in AttachOps /\ Mode = options.mode
  BY DEF AttachOps, Mode, First
<1>1. CASE Response("op_attach", TRUE)
             /\ IF Mode = "drop" THEN Asked(attached, drop) ELSE Ends(attached, "ok")
  <2>1. Talking(attached, sv) /\ attached.queue = <<>>
    BY <1>1, AnsweredMarked
  <2>2. server.ok /\ (Mode # "drop" => WellTold(options, server, sv, <<"ok">>))
    BY <1>0, <1>1, AttachTold
  <2>3. drop.op = "op_drop_database"
    BY DEF Message
  <2> HIDE DEF attached, drop
  <2>4. CASE Mode = "drop"
    <3>1. Says(options, server, drop.op, drop, attached, sv)
      BY <1>0, <2>2, <2>3, <2>4 DEF Says, Ending, EndOps
    <3> QED
      BY <1>1, <2>1, <2>4, <3>1, AnswerAsksLogin
  <2>5. CASE Mode # "drop"
    BY <1>1, <2>1, <2>2, <2>5, AnswerEndsLogin
  <2> QED
    BY <2>4, <2>5
<1>2. CASE Response("op_attach", FALSE)
             /\ IF Mode = "attachOrCreate" THEN Asked(Answered, create) ELSE Ends(Answered, "error")
  <2>1. Talking(Answered, sv) /\ Answered.queue = <<>> /\ Alike(Answered, cnx)
    BY <1>2, AnsweredLogin
  <2>2. /\ Attaching(options, server, "op_attach", cnx, sv)
        /\ MayLogIn(options, server) => ~server.exists /\ (server.new => sv.authed)
    BY <1>0, <1>2, AttachTold
  <2>3. CASE Mode = "attachOrCreate"
    <3>1. create.op = "op_create" /\ create.data = cnx.accept.auth
      BY DEF OpCreate, Asks, Message
    <3> HIDE DEF create
    <3>2. Wants(options, create.op)
      BY <1>0, <2>3, <3>1 DEF Wants
    <3>3. Ready(options, server, Answered.accept, sv)
      BY <2>2 DEF Ready, Attaching
    <3>4. Says(options, server, create.op, create, Answered, sv)
      BY <2>1, <2>2, <3>1, <3>2, <3>3, AttachSaid DEF Alike, Attaching
    <3> QED
      BY <1>2, <2>1, <2>3, <3>4, AnswerAsksLogin
  <2>4. CASE Mode # "attachOrCreate"
    <3>1. options.mode \in {"attach", "drop"}
      BY <1>0, <2>2, <2>4 DEF Attaching, Wants
    <3>2. WellTold(options, server, sv, <<"error">>)
      BY <2>2, <3>1, ToldError
    <3> QED
      BY <1>2, <2>1, <2>4, <3>2, AnswerEndsLogin
  <2> QED
    BY <2>3, <2>4
<1> QED
  BY <1>1, <1>2 DEF AttachAnswered

(* createDatabase() and svcattach() are over.                              *)
LEMMA OthersAnsweredLogin ==
    ASSUME First, CreateAnswered \/ ServiceAnswered
    PROVE  First'
<1> DEFINE attached == [Answered EXCEPT !.ready = TRUE]
<1>1. PICK request \in {"op_create", "op_service_attach"} :
         \/ Response(request, TRUE) /\ Ends(attached, "ok")
         \/ Response(request, FALSE) /\ Ends(Answered, "error")
  BY DEF CreateAnswered, ServiceAnswered
<1>2. request \in AttachOps /\ request # "op_attach"
  BY <1>1 DEF AttachOps
<1>3. CASE Response(request, TRUE) /\ Ends(attached, "ok")
  <2>1. Talking(attached, sv)
    BY <1>3, AnsweredMarked
  <2>2. WellTold(options, server, sv, <<"ok">>)
    <3>1. Attaching(options, server, request, cnx, sv)
      BY <1>2, <1>3, AttachTold
    <3>2. options.mode # "drop"
      BY <1>2, <3>1 DEF Attaching, Wants
    <3> QED
      BY <1>2, <1>3, <3>2, AttachTold
  <2> HIDE DEF attached
  <2> QED
    BY <1>3, <2>1, <2>2, AnswerEndsLogin
<1>4. CASE Response(request, FALSE) /\ Ends(Answered, "error")
  <2>1. Talking(Answered, sv)
    BY <1>4, AnsweredLogin
  <2>2. ~MayLogIn(options, server)
    BY <1>2, <1>4, AttachTold
  <2>3. WellTold(options, server, sv, <<"error">>)
    BY <2>2, ToldError
  <2> QED
    BY <1>4, <2>1, <2>3, AnswerEndsLogin
<1> QED
  BY <1>1, <1>3, <1>4

(* A dropped database is detached.                                         *)
LEMMA DropAnsweredLogin ==
    ASSUME First, DropAnswered
    PROVE  First'
<1>0. PICK ok \in BOOLEAN :
         /\ Response("op_drop_database", ok)
         /\ Asked([Answered EXCEPT !.detach = IF ok THEN "ok" ELSE "error"], Message("op_detach"))
  BY DEF DropAnswered
<1> DEFINE c == [Answered EXCEPT !.detach = IF ok THEN "ok" ELSE "error"]
           p == Message("op_detach")
<1>1. Response("op_drop_database", ok) /\ Asked(c, p)
  BY <1>0
<1>2. Talking(c, sv) /\ c.queue = <<>> /\ c.detach = IF ok THEN "ok" ELSE "error"
  BY <1>1, AnsweredMarked
<1>3. p.op = "op_detach"
  BY DEF Message
<1> HIDE DEF c, p
<1>4. Ending(options, server, "op_drop_database", cnx) /\ Dropped(server, ok)
  BY <1>1, AnswerIs, ResponseLogin DEF HearsEnd, EndOps
<1>5. Ending(options, server, "op_detach", c)
  BY <1>2, <1>4 DEF Ending, EndOps
<1>6. Says(options, server, p.op, p, c, sv)
  BY <1>3, <1>5 DEF Says
<1> QED
  BY <1>1, <1>2, <1>6, AnswerAsksLogin

(* A detached one is closed, and the caller of drop() told.                *)
LEMMA DetachAnsweredLogin ==
    ASSUME First, DetachAnswered
    PROVE  First'
<1> DEFINE c == [Answered EXCEPT !.net = "ended"]
<1>1. PICK ok \in BOOLEAN : Response("op_detach", ok) /\ Ends(c, cnx.detach)
  BY DEF DetachAnswered, ToldOfDrop
<1>2. Reads("op_response") /\ ~retry' /\ toServer = <<>> /\ toClient' = <<>> /\ told = <<>>
  BY <1>1, ResponseLogin
<1>3. Talking(Answered, sv)
  BY <1>1, AnsweredLogin
<1>4. Only("net", c, Answered) /\ c.net = "ended"
  BY <1>3, Put DEF Talking, Minds
<1>5. cnx' = c /\ told' = <<cnx.detach>>
  BY <1>1, <1>2, Tells DEF Ends
<1> HIDE DEF c
<1>6. Minds(c, sv)
  BY <1>3, <1>4 DEF Only, Fields, Talking, Minds
<1>7. Ending(options, server, "op_detach", cnx)
  BY <1>1, AnswerIs DEF EndOps, HearsEnd
<1>8. WellTold(options, server, sv, <<cnx.detach>>)
  <2>1. cnx.detach = "ok" \/ cnx.detach = "error"
    BY <1>7 DEF Ending
  <2>2. CASE cnx.detach = "ok"
    BY <1>7, <2>2, ToldOk DEF Ending, Dropped
  <2>3. CASE cnx.detach = "error"
    BY <1>7, <2>3, ToldError DEF Ending, Dropped
  <2> QED
    BY <2>1, <2>2, <2>3
<1>9. Login(options, server, c, sv, toServer', toClient', <<cnx.detach>>)
  BY <1>4, <1>6, <1>8 DEF Login
<1> QED
  BY <1>2, <1>5, <1>9, FirstReads

(* One step for each packet that the client reads.                         *)
LEMMA ClientReadsLogin ==
    ASSUME First, ClientReads
    PROVE  First'
<1>1. ASSUME NEW op \in {"op_accept", "op_cond_accept", "op_accept_data"}, Accept(op)
      PROVE  First'
  BY <1>1, AcceptLogin DEF Accepts
<1> QED
  BY <1>1, ContinueAuthLogin, CryptKeyLogin, ConnectAnsweredLogin, CryptAnsweredLogin,
     AttachAnsweredLogin, OthersAnsweredLogin, DropAnsweredLogin, DetachAnsweredLogin
     DEF ClientReads

-----------------------------------------------------------------------------
(* What a server that reads gets: what the client says.                    *)
LEMMA GetsLogin ==
    ASSUME First, NEW op, Gets(op)
    PROVE  /\ Talking(cnx, sv) /\ toServer' = <<>> /\ toClient = <<>> /\ told = <<>>
           /\ Got.op = op /\ \E w : cnx.queue = <<w>> /\ Says(options, server, w, Got, cnx, sv)
<1>1. /\ cnx.net = "open" /\ toServer # <<>> /\ Got.op = op /\ toServer' = Tail(toServer)
      /\ Minds(cnx, sv)
  BY DEF Gets, Got, First, Login
<1>2. told = <<>> /\ Saying(options, server, cnx, sv, toServer, toClient)
  BY <1>1 DEF First, Login, Hearing, HearingTwo, Quiet
<1>3. PICK w, p : /\ cnx.queue = <<w>> /\ Says(options, server, w, p, cnx, sv) /\ toClient = <<>>
                  /\ \/ cnx.deflating = <<p>> /\ toServer = <<>>
                     \/ cnx.deflating = <<>> /\ \E l : toServer = <<In(p, l)>>
  BY <1>2 DEF Saying
<1>4. PICK l : toServer = <<In(p, l)>> /\ cnx.deflating = <<>>
  BY <1>1, <1>3
<1>5. Got = p /\ toServer' = <<>>
  BY <1>1, <1>4, Single DEF Got, In
<1> QED
  BY <1>1, <1>2, <1>3, <1>4, <1>5 DEF Talking

(* What a packet that the client says is about, by its operation.          *)
LEMMA Said ==
    ASSUME NEW o, NEW z, NEW w, NEW p, NEW c, NEW s, Says(o, z, w, p, c, s)
    PROVE  /\ p.op = "op_connect" => w = "connect" /\ SaysConnect(o, p, c, s)
           /\ p.op = "op_cont_auth" =>
                 (w = "connect" /\ SaysLogin(z, p, c, s)) \/ SaysLate(o, z, w, p, c, s)
           /\ p.op \in AttachOps => SaysAttach(o, z, w, p, c, s)
           /\ p.op = "op_crypt_key_callback" => KeyFor(o, z, w, p, c, s)
           /\ p.op = "op_crypt" => w = "op_crypt" /\ SaysCrypt(o, z, p, c, s)
           /\ p.op \in EndOps => p.op = w /\ Ending(o, z, w, c)
<1>1. SaysConnect(o, p, c, s) => p.op = "op_connect"
  BY DEF SaysConnect
<1>2. SaysLogin(z, p, c, s) \/ SaysLate(o, z, w, p, c, s) => p.op = "op_cont_auth"
  BY DEF SaysLogin, SaysLate
<1>3. SaysCrypt(o, z, p, c, s) => p.op = "op_crypt"
  BY DEF SaysCrypt
<1>4. SaysAttach(o, z, w, p, c, s) => p.op = w /\ w \in AttachOps
  BY DEF SaysAttach, Attaching, Wants, AttachOps
<1>5. KeyFor(o, z, w, p, c, s) => p.op = "op_crypt_key_callback"
  BY DEF KeyFor
<1>6. Ending(o, z, w, c) => w \in EndOps
  BY DEF Ending
<1> QED
  BY <1>1, <1>2, <1>3, <1>4, <1>5, <1>6 DEF Says, AttachOps, EndOps

(* A server keeps its configuration, but for the database.                 *)
LEMMA SameServer ==
    ASSUME NEW o, NEW z1 \in ServerSet, NEW z2, Same(z2, z1)
    PROVE  /\ z2 \in ServerSet /\ z2.ok = z1.ok /\ z2.new = z1.new /\ z2.required = z1.required
           /\ MayLogIn(o, z2) <=> MayLogIn(o, z1)
<1>1. CASE z2 = z1
  BY <1>1
<1>2. ASSUME NEW b \in BOOLEAN, z2 = [z1 EXCEPT !.exists = b]
      PROVE  /\ z2 \in ServerSet /\ z2.ok = z1.ok /\ z2.new = z1.new /\ z2.required = z1.required
             /\ MayLogIn(o, z2) <=> MayLogIn(o, z1)
  <2>1. /\ z2 \in ServerSet /\ z2.ok = z1.ok /\ z2.new = z1.new /\ z2.required = z1.required
        /\ z2.path = z1.path /\ z2.iv = z1.iv /\ z2.keys = z1.keys /\ z2.later = z1.later
    BY <1>2 DEF ServerSet
  <2> QED
    BY <2>1 DEF MayLogIn
<1> QED
  BY <1>1, <1>2 DEF Same

(* A server's step leaves the client's side alone.                         *)
LEMMA FirstGets ==
    ASSUME First, NEW op, Gets(op), Same(server', server),
           Login(options, server', cnx, sv', toServer', toClient', told)
    PROVE  First'
<1>1. server' \in ServerSet
  BY SameServer DEF First
<1> QED
  BY <1>1 DEF First, Gets

(* A reply ends the server's turn.                                         *)
LEMMA ReplyLogin ==
    ASSUME First, NEW op, Gets(op), NEW w, NEW s, NEW p, cnx.queue = <<w>>, Reply(s, <<p>>),
           Talking(cnx, s), Same(server', server), Hears(options, server', w, p, cnx, s)
    PROVE  First'
<1>1. toServer' = <<>> /\ toClient = <<>> /\ told = <<>>
  BY GetsLogin
<1>2. sv' = s /\ toClient' = <<In(p, sv.layer)>>
  BY <1>1, OnePacket, Single DEF Reply
<1>3. Login(options, server', cnx, s, <<>>, <<In(p, sv.layer)>>, <<>>)
  BY LoginHears
<1> QED
  BY <1>1, <1>2, <1>3, FirstGets

(* Likewise, where the configuration stays as it is.                       *)
LEMMA ReplyStays ==
    ASSUME First, NEW op, Gets(op), NEW w, NEW s, NEW p, cnx.queue = <<w>>, Reply(s, <<p>>),
           Talking(cnx, s), server' = server, Hears(options, server, w, p, cnx, s)
    PROVE  First'
  BY ReplyLogin DEF Same

(* d is what the server's side is once it has noted its field f.           *)
Notes(f, d, c, s) == Talking(c, d) /\ \A g \in SideFields \ {f} : d[g] = s[g]

(* What the server notes for itself, field by field.                       *)
LEMMA SideNotes ==
    ASSUME NEW c, NEW s, Talking(c, s), NEW f \in SideFields, NEW v, f # "layer" \/ v \in LayerSet
    PROVE  LET d == [s EXCEPT ![f] = v]
           IN  Notes(f, d, c, s) /\ d[f] = v
<1> DEFINE d == [s EXCEPT ![f] = v]
<1>1. Side(s)
  BY DEF Talking, Minds
<1>2. Side(d) /\ d[f] = v /\ \A g \in SideFields \ {f} : d[g] = s[g]
  BY <1>1, SidePut
<1> HIDE DEF d
<1>3. Talking(c, d)
  BY <1>2 DEF Talking, Minds
<1> QED
  BY <1>2, <1>3 DEF d, Notes

(* That an attachment is granted.                                          *)
LEMMA NotesAttached ==
    ASSUME NEW c, NEW s, Talking(c, s), NEW v
    PROVE  LET d == [s EXCEPT !.attached = v]
           IN  /\ Talking(c, d) /\ d.attached = v /\ d.layer = s.layer /\ d.authed = s.authed
               /\ d.attaching = s.attaching
<1>1. "attached" \in SideFields
  BY DEF SideFields
<1> DEFINE d == [s EXCEPT !.attached = v]
<1>2. Notes("attached", d, c, s) /\ d.attached = v
  BY <1>1, SideNotes
<1> HIDE DEF d
<1>3. /\ Talking(c, d) /\ d.attached = v /\ d.layer = s.layer /\ d.authed = s.authed
      /\ d.attaching = s.attaching
  BY <1>2 DEF Notes, SideFields
<1> QED
  BY <1>3 DEF d

(* What attachment a login or a key is asked for.                          *)
LEMMA NotesAttaching ==
    ASSUME NEW c, NEW s, Talking(c, s), NEW v
    PROVE  LET d == [s EXCEPT !.attaching = v]
           IN  /\ Talking(c, d) /\ d.attaching = v /\ d.layer = s.layer /\ d.authed = s.authed
               /\ d.at = s.at
<1>1. "attaching" \in SideFields
  BY DEF SideFields
<1> DEFINE d == [s EXCEPT !.attaching = v]
<1>2. Notes("attaching", d, c, s) /\ d.attaching = v
  BY <1>1, SideNotes
<1> HIDE DEF d
<1>3. /\ Talking(c, d) /\ d.attaching = v /\ d.layer = s.layer /\ d.authed = s.authed
      /\ d.at = s.at
  BY <1>2 DEF Notes, SideFields
<1> QED
  BY <1>3 DEF d

(* That a login is done.                                                   *)
LEMMA NotesAuthed ==
    ASSUME NEW c, NEW s, Talking(c, s)
    PROVE  LET d == [s EXCEPT !.authed = TRUE]
           IN  /\ Talking(c, d) /\ d.authed /\ d.layer = s.layer /\ d.at = s.at
               /\ d.attaching = s.attaching
<1>1. "authed" \in SideFields
  BY DEF SideFields
<1> DEFINE d == [s EXCEPT !.authed = TRUE]
<1>2. Notes("authed", d, c, s) /\ d.authed = TRUE
  BY <1>1, SideNotes
<1> HIDE DEF d
<1>3. /\ Talking(c, d) /\ d.authed /\ d.layer = s.layer /\ d.at = s.at
      /\ d.attaching = s.attaching
  BY <1>2 DEF Notes, SideFields
<1> QED
  BY <1>3 DEF d

(* Which plugin of the path the login is at.                               *)
LEMMA NotesAt ==
    ASSUME NEW c, NEW s, Talking(c, s), NEW v
    PROVE  LET d == [s EXCEPT !.at = v]
           IN  /\ Talking(c, d) /\ d.at = v /\ d.layer = s.layer /\ d.authed = s.authed
               /\ d.attaching = s.attaching
<1>1. "at" \in SideFields
  BY DEF SideFields
<1> DEFINE d == [s EXCEPT !.at = v]
<1>2. Notes("at", d, c, s) /\ d.at = v
  BY <1>1, SideNotes
<1> HIDE DEF d
<1>3. /\ Talking(c, d) /\ d.at = v /\ d.layer = s.layer /\ d.authed = s.authed
      /\ d.attaching = s.attaching
  BY <1>2 DEF Notes, SideFields
<1> QED
  BY <1>3 DEF d

(* The layer it reads and writes through.                                  *)
LEMMA NotesLayer ==
    ASSUME NEW c, NEW s, Talking(c, s), NEW v \in LayerSet
    PROVE  LET d == [s EXCEPT !.layer = v]
           IN  /\ Talking(c, d) /\ d.layer = v /\ d.at = s.at /\ d.authed = s.authed
               /\ d.attaching = s.attaching
<1>1. "layer" \in SideFields
  BY DEF SideFields
<1> DEFINE d == [s EXCEPT !.layer = v]
<1>2. Notes("layer", d, c, s) /\ d.layer = v
  BY <1>1, SideNotes
<1> HIDE DEF d
<1>3. /\ Talking(c, d) /\ d.layer = v /\ d.at = s.at /\ d.authed = s.authed
      /\ d.attaching = s.attaching
  BY <1>2 DEF Notes, SideFields
<1> QED
  BY <1>3 DEF d

(* A refusal within the handshake of what may not log in.                  *)
LEMMA RefuseLogin ==
    ASSUME First, NEW op, Gets(op), NEW w \in {"connect", "op_crypt"}, cnx.queue = <<w>>,
           ~MayLogIn(options, server), Reply(sv, <<OpResponse(FALSE)>>), server' = server
    PROVE  First'
<1>1. Talking(cnx, sv)
  BY GetsLogin
<1>2. Hears(options, server, w, OpResponse(FALSE), cnx, sv)
  BY OpResponseIs DEF Hears, HearsRefusal
<1> QED
  BY <1>1, <1>2, ReplyStays

(* The server attaches, or finds no database.                              *)
LEMMA ServeLogin ==
    ASSUME First, NEW op, Gets(op), NEW w, cnx.queue = <<w>>, NEW s, Talking(cnx, s),
           Attaching(options, server, w, cnx, s), server.ok, server.new => s.authed, Serve(s, w)
    PROVE  First'
<1> DEFINE ok == w # "op_attach" \/ server.exists
           d == [s EXCEPT !.attached = ok]
           p == OpResponse(ok)
<1>1. Reply(d, <<p>>) /\ server' = [server EXCEPT !.exists = @ \/ w = "op_create"]
  BY DEF Serve
<1>2. p.op = "op_response" /\ p.flag = ok
  BY OpResponseIs
<1>3. /\ Talking(cnx, d) /\ d.attached = ok /\ d.layer = s.layer /\ d.authed = s.authed
      /\ d.attaching = s.attaching
  <2> HIDE DEF ok
  <2> QED
    BY NotesAttached
<1>4. Same(server', server)
  <2>1. (server.exists \/ w = "op_create") \in BOOLEAN
    OBVIOUS
  <2> QED
    BY <1>1, <2>1 DEF Same
<1>5. server \in ServerSet
  BY DEF First
<1>6. /\ server'.ok = server.ok /\ server'.new = server.new /\ server'.required = server.required
      /\ MayLogIn(options, server') <=> MayLogIn(options, server)
  BY <1>4, <1>5, SameServer
<1>7. ~ok => w = "op_attach" /\ ~server'.exists
  <2>1. server'.exists = (server.exists \/ w = "op_create")
    BY <1>1, <1>5 DEF ServerSet
  <2> QED
    BY <2>1
<1> HIDE DEF d, p, ok
<1>8. Attaching(options, server', w, cnx, d)
  BY <1>3, <1>6 DEF Attaching
<1>9. HearsAttach(options, server', w, p, cnx, d)
  BY <1>2, <1>3, <1>6, <1>7, <1>8 DEF HearsAttach
<1>10. Hears(options, server', w, p, cnx, d)
  BY <1>9 DEF Hears
<1> QED
  BY <1>1, <1>3, <1>4, <1>10, ReplyLogin

(* The server insists on encryption, asks for the key, or serves.          *)
LEMMA AdmitLogin ==
    ASSUME First, NEW op, Gets(op), NEW w, cnx.queue = <<w>>, NEW s, Talking(cnx, s),
           Attaching(options, server, w, cnx, s), server.ok, server.new => s.authed, Admit(s, w)
    PROVE  First'
<1>1. CASE server.required /\ s.layer.cipher = "" /\ Reply(s, <<OpResponse(FALSE)>>) /\ server' = server
  <2> DEFINE p == OpResponse(FALSE)
  <2>1. p.op = "op_response" /\ ~p.flag
    BY OpResponseIs
  <2> HIDE DEF p
  <2>2. HearsAttach(options, server, w, p, cnx, s)
    BY <1>1, <2>1 DEF HearsAttach, Attaching
  <2>3. Hears(options, server, w, p, cnx, s)
    BY <2>2 DEF Hears
  <2> QED
    BY <1>1, <2>3, ReplyStays DEF p
<1>2. CASE /\ Reply([s EXCEPT !.attaching = w], <<Message("op_crypt_key_callback")>>)
           /\ server' = server
  <2> DEFINE d == [s EXCEPT !.attaching = w]
             p == Message("op_crypt_key_callback")
  <2>1. /\ Talking(cnx, d) /\ d.attaching = w /\ d.layer = s.layer /\ d.authed = s.authed
    BY NotesAttaching
  <2>2. p.op = "op_crypt_key_callback"
    BY DEF Message
  <2> HIDE DEF d, p
  <2>3. KeyFor(options, server, w, p, cnx, d)
    <3>1. Attaching(options, server, w, cnx, d)
      BY <2>1 DEF Attaching
    <3>2. server.new => d.authed
      BY <2>1
    <3> QED
      BY <2>1, <2>2, <3>1, <3>2 DEF KeyFor, Serving
  <2>4. Hears(options, server, w, p, cnx, d)
    BY <2>3 DEF Hears
  <2> QED
    BY <1>2, <2>1, <2>4, ReplyStays DEF d, p
<1>3. CASE Serve(s, w)
  BY <1>3, ServeLogin
<1> QED
  BY <1>1, <1>2, <1>3 DEF Admit

-----------------------------------------------------------------------------
(* The server's own proof, from a server that sends it.                    *)
Own(plugin) ==
    IF server.proof /\ plugin \in SrpList
    THEN <<ContAuth(plugin, Data("own proof", plugin))>> ELSE <<>>

(* What a login comes to; one that is right is refused to others only.     *)
LEMMA LogInIs ==
    ASSUME NEW data, NEW op, LogIn(data, op)
    PROVE  LET in == [sv EXCEPT !.authed = TRUE]
               right == data = Right(server.path[sv.at])
               last == sv.at = Len(server.path)
           IN  \/ /\ right /\ ~last /\ server' = server
                  /\ Reply([sv EXCEPT !.at = @ + 1, !.attaching = op],
                           <<Demand(server.path[sv.at + 1])>>)
               \/ /\ right /\ last /\ server.ok /\ op = "" /\ server' = server
                  /\ Reply(in, Append(Own(server.path[sv.at]),
                                      [OpResponse(TRUE) EXCEPT !.op = server.final]))
               \/ right /\ last /\ server.ok /\ op # "" /\ Admit(in, op)
               \/ ~(right /\ server.ok) /\ server' = server /\ Reply(sv, <<OpResponse(FALSE)>>)
<1> DEFINE in == [sv EXCEPT !.authed = TRUE]
           plugin == server.path[sv.at]
           right == data = Right(plugin)
           last == sv.at = Len(server.path)
           next == [sv EXCEPT !.at = @ + 1, !.attaching = op]
           demand == Demand(server.path[sv.at + 1])
           end == [OpResponse(TRUE) EXCEPT !.op = server.final]
<1>1. right <=> data = (IF Plugin(sv) \in SrpList THEN Proof(Plugin(sv)) ELSE Legacy)
  BY DEF Plugin, Right
<1>2. Own(plugin) = IF server.proof /\ Plugin(sv) \in SrpList
                    THEN <<ContAuth(Plugin(sv), Data("own proof", Plugin(sv)))>> ELSE <<>>
  BY DEF Plugin, Own
<1> HIDE DEF plugin, right, last, in, next, demand, end
<1>3. \/ right /\ ~last /\ server' = server /\ Reply(next, <<demand>>)
      \/ /\ right /\ last /\ server.ok /\ op = "" /\ server' = server
         /\ Reply(in, Append(Own(plugin), end))
      \/ right /\ last /\ server.ok /\ op # "" /\ Admit(in, op)
      \/ ~(right /\ server.ok) /\ server' = server /\ Reply(sv, <<OpResponse(FALSE)>>)
  BY <1>1, <1>2 DEF LogIn, last, in, next, demand, end
<1> QED
  BY <1>3 DEF plugin, right, last, in, next, demand, end

(* The next plugin of the path, which its demand names.                    *)
LEMMA NextLogin ==
    ASSUME First, NEW op, Talking(cnx, sv)
    PROVE  LET d == [sv EXCEPT !.at = @ + 1, !.attaching = op]
               p == Demand(server.path[sv.at + 1])
           IN  /\ Talking(cnx, d) /\ d.attaching = op /\ d.layer = sv.layer
               /\ d.authed = sv.authed /\ d.at = sv.at + 1
               /\ p.op = "op_cont_auth" /\ p.plugin = server.path[sv.at + 1]
               /\ sv.at \in 1..Len(server.path) /\ sv.at # Len(server.path) =>
                     d.at \in 1..Len(server.path) /\ d.at - 1 = sv.at
<1> DEFINE at == [sv EXCEPT !.at = sv.at + 1]
           d == [sv EXCEPT !.at = @ + 1, !.attaching = op]
           p == Demand(server.path[sv.at + 1])
<1>1. d = [at EXCEPT !.attaching = op]
  OBVIOUS
<1>2. /\ Talking(cnx, at) /\ at.at = sv.at + 1 /\ at.layer = sv.layer /\ at.authed = sv.authed
      /\ at.attaching = sv.attaching
  BY NotesAt
<1> HIDE DEF at, d
<1>3. /\ Talking(cnx, d) /\ d.attaching = op /\ d.layer = at.layer /\ d.authed = at.authed
      /\ d.at = at.at
  BY <1>1, <1>2, NotesAttaching
<1>4. p.op = "op_cont_auth" /\ p.plugin = server.path[sv.at + 1]
  BY ContAuthIs DEF Demand
<1>5. ASSUME sv.at \in 1..Len(server.path), sv.at # Len(server.path)
      PROVE  d.at \in 1..Len(server.path) /\ d.at - 1 = sv.at
  <2>1. Len(server.path) \in Nat
    BY PathIs DEF First
  <2> QED
    BY <1>2, <1>3, <1>5, <2>1
<1> QED
  BY <1>2, <1>3, <1>4, <1>5 DEF d

(* A login with the attach: who may log in is asked for the next one, or   *)
(* is served.                                                              *)
LEMMA LogInAttach ==
    ASSUME First, NEW op, Gets(op), NEW w \in AttachOps, cnx.queue = <<w>>,
           Attaching(options, server, w, cnx, sv), NEW data, LogIn(data, w),
           MayLogIn(options, server) =>
              LoggingInLate(server, sv) /\ data = Right(server.path[sv.at])
    PROVE  First'
<1> DEFINE in == [sv EXCEPT !.authed = TRUE]
           next == [sv EXCEPT !.at = @ + 1, !.attaching = w]
           demand == Demand(server.path[sv.at + 1])
           right == data = Right(server.path[sv.at])
           last == sv.at = Len(server.path)
<1>1. Talking(cnx, sv) /\ w # ""
  BY GetsLogin DEF AttachOps
<1>2. CASE right /\ ~last /\ server' = server /\ Reply(next, <<demand>>)
  <2>1. /\ Talking(cnx, next) /\ next.attaching = w /\ next.layer = sv.layer
        /\ next.authed = sv.authed /\ next.at = sv.at + 1
        /\ demand.op = "op_cont_auth" /\ demand.plugin = server.path[sv.at + 1]
        /\ sv.at \in 1..Len(server.path) /\ ~last => next.at \in 1..Len(server.path)
    BY <1>1, NextLogin
  <2> HIDE DEF next, demand, last, right
  <2>2. Serving(options, server, w, cnx, next)
    BY <2>1 DEF Serving, Attaching
  <2>3. MayLogIn(options, server) =>
           LoggingInLate(server, next) /\ demand.plugin = server.path[next.at]
    BY <1>2, <2>1 DEF LoggingInLate
  <2>4. Hears(options, server, w, demand, cnx, next)
    BY <2>1, <2>2, <2>3 DEF Hears, HearsLate
  <2> QED
    BY <1>2, <2>1, <2>4, ReplyStays
<1>3. CASE server.ok /\ Admit(in, w)
  <2>1. Talking(cnx, in) /\ in.authed /\ in.layer = sv.layer
    BY <1>1, NotesAuthed
  <2> HIDE DEF in
  <2>2. Attaching(options, server, w, cnx, in)
    BY <1>3, <2>1 DEF Attaching
  <2> QED
    BY <1>3, <2>1, <2>2, AdmitLogin
<1>4. CASE ~(right /\ server.ok) /\ server' = server /\ Reply(sv, <<OpResponse(FALSE)>>)
  <2>1. ~MayLogIn(options, server)
    BY <1>4 DEF MayLogIn
  <2> DEFINE p == OpResponse(FALSE)
  <2>2. p.op = "op_response" /\ ~p.flag
    BY OpResponseIs
  <2> HIDE DEF p
  <2>3. Hears(options, server, w, p, cnx, sv)
    BY <2>1, <2>2 DEF Hears, HearsAttach
  <2> QED
    BY <1>1, <1>4, <2>3, ReplyStays DEF p
<1>5. \/ right /\ ~last /\ server' = server /\ Reply(next, <<demand>>)
      \/ server.ok /\ Admit(in, w)
      \/ ~(right /\ server.ok) /\ server' = server /\ Reply(sv, <<OpResponse(FALSE)>>)
  BY <1>1, LogInIs
<1> QED
  BY <1>2, <1>3, <1>4, <1>5

(* A login within connect(): the next one, the end of it, or a refusal.    *)
LEMMA LogInConnect ==
    ASSUME First, NEW op, Gets(op), cnx.queue = <<"connect">>, NEW data,
           LoggingIn(server, cnx, sv), data = Right(server.path[sv.at]),
           Keyed(server, sv.at, cnx.pendingAccept),
           server.path[sv.at] \in SrpList => cnx.serverKeys = server.path[sv.at],
           LogIn(data, "")
    PROVE  First'
<1> DEFINE in == [sv EXCEPT !.authed = TRUE]
           next == [sv EXCEPT !.at = @ + 1, !.attaching = ""]
           demand == Demand(server.path[sv.at + 1])
           end == [OpResponse(TRUE) EXCEPT !.op = server.final]
           plugin == server.path[sv.at]
           last == sv.at = Len(server.path)
<1>1. /\ Talking(cnx, sv) /\ toServer' = <<>> /\ toClient = <<>> /\ told = <<>>
      /\ sv.at \in 1..Len(server.path)
  BY GetsLogin DEF LoggingIn
<1>2. CASE ~last /\ server' = server /\ Reply(next, <<demand>>)
  <2>1. /\ Talking(cnx, next) /\ next.attaching = "" /\ next.layer = sv.layer
        /\ next.authed = sv.authed /\ next.at = sv.at + 1
        /\ demand.op = "op_cont_auth" /\ demand.plugin = server.path[sv.at + 1]
        /\ next.at \in 1..Len(server.path) /\ next.at - 1 = sv.at
    BY <1>1, <1>2, NextLogin
  <2> HIDE DEF next, demand, last
  <2>2. HearsDemand(server, demand, cnx, next)
    BY <2>1 DEF HearsDemand, LoggingIn
  <2>3. Hears(options, server, "connect", demand, cnx, next)
    BY <2>2 DEF Hears
  <2> QED
    BY <1>2, <2>1, <2>3, ReplyStays
<1>3. CASE last /\ server.ok /\ server' = server /\ Reply(in, Append(Own(plugin), end))
  <2>1. Talking(cnx, in) /\ in.authed /\ in.attaching = sv.attaching
    BY <1>1, NotesAuthed
  <2>2. end.op \in {"op_response", "op_accept"} /\ end.flag = TRUE
    <3>1. server.final \in {"op_response", "op_accept"}
      BY DEF First, ServerSet
    <3>2. end.op = server.final /\ end.flag = TRUE
      BY DEF OpResponse, Message
    <3> QED
      BY <3>1, <3>2
  <2>3. Keyed(server, Len(server.path), cnx.pendingAccept)
    BY <1>3
  <2> HIDE DEF in, end, last
  <2>4. HearsLetIn(options, server, end, cnx, in)
    BY <1>3, <2>1, <2>2, <2>3 DEF HearsLetIn, LetIn, LoggingIn
  <2>5. CASE Own(plugin) = <<>>
    <3>1. Append(Own(plugin), end) = <<end>>
      BY <2>5, Single
    <3>2. Hears(options, server, "connect", end, cnx, in)
      BY <2>4 DEF Hears
    <3> QED
      BY <1>3, <2>1, <3>1, <3>2, ReplyStays
  <2>6. CASE plugin \in SrpList /\ Own(plugin) = <<ContAuth(plugin, Data("own proof", plugin))>>
    <3> DEFINE p == ContAuth(plugin, Data("own proof", plugin))
               l == sv.layer
    <3>1. Own(plugin) = <<p>>
      BY <2>6
    <3>2. p.op = "op_cont_auth" /\ p.plugin = plugin
      BY DEF ContAuth, Asks, Message
    <3>3. cnx.serverKeys = plugin /\ cnx.pendingAccept # NoAccept
      BY <2>6 DEF LoggingIn
    <3> HIDE DEF p, l, plugin
    <3>4. HearsProof(p, cnx)
      BY <2>6, <3>2, <3>3 DEF HearsProof
    <3>5. Append(Own(plugin), end) = <<p, end>>
      BY <3>1, Pair
    <3>6. sv' = in /\ toClient' = <<In(p, l), In(end, l)>>
      <4>1. sv' = in /\ toClient' = <<>> \o On(<<p, end>>, l)
        BY <1>1, <1>3, <3>5 DEF Reply, l
      <4>2. On(<<p, end>>, l) = <<In(p, l), In(end, l)>>
        BY TwoPackets
      <4> QED
        BY <4>1, <4>2, Pair
    <3>7. HearingTwo(options, server, cnx, in, <<>>, <<In(p, l), In(end, l)>>)
      BY <2>1, <2>4, <3>4 DEF HearingTwo, Talking
    <3>8. Login(options, server, cnx, in, <<>>, <<In(p, l), In(end, l)>>, <<>>)
      BY <2>1, <3>7 DEF Login, Talking
    <3> QED
      BY <1>1, <1>3, <3>6, <3>8, FirstGets DEF Same
  <2> QED
    BY <2>5, <2>6 DEF Own
<1>4. CASE ~server.ok /\ server' = server /\ Reply(sv, <<OpResponse(FALSE)>>)
  <2>1. ~MayLogIn(options, server)
    BY <1>4 DEF MayLogIn
  <2> QED
    BY <1>4, <2>1, RefuseLogin
<1>5. \/ ~last /\ server' = server /\ Reply(next, <<demand>>)
      \/ last /\ server.ok /\ server' = server /\ Reply(in, Append(Own(plugin), end))
      \/ ~server.ok /\ server' = server /\ Reply(sv, <<OpResponse(FALSE)>>)
  BY LogInIs
<1> QED
  BY <1>2, <1>3, <1>4, <1>5
-----------------------------------------------------------------------------
(* The packets that the server reads.                                      *)
LEMMA GetsContAuthLogin ==
    ASSUME First, GetsContAuth
    PROVE  First'
<1>1. /\ Gets("op_cont_auth")
      /\ IF Got.data = Public THEN Reply(sv, <<Demand(Plugin(sv))>>) /\ server' = server
         ELSE LogIn(Got.data, sv.attaching)
  BY DEF GetsContAuth
<1>2. PICK w : /\ cnx.queue = <<w>> /\ Talking(cnx, sv)
               /\ \/ w = "connect" /\ SaysLogin(server, Got, cnx, sv)
                  \/ SaysLate(options, server, w, Got, cnx, sv)
  BY <1>1, GetsLogin, Said
<1>3. CASE w = "connect" /\ SaysLogin(server, Got, cnx, sv) /\ Got.data = Public
  <2> DEFINE p == Demand(Plugin(sv))
  <2>1. p.op = "op_cont_auth" /\ p.plugin = server.path[sv.at]
    BY ContAuthIs DEF Demand, Plugin
  <2> HIDE DEF p
  <2>2. LoggingIn(server, cnx, sv) /\ sv.at = 1
    BY <1>3 DEF SaysLogin
  <2>3. Keyed(server, sv.at - 1, cnx.pendingAccept)
    BY <2>2 DEF Keyed
  <2>4. Hears(options, server, w, p, cnx, sv)
    BY <1>3, <2>1, <2>2, <2>3 DEF Hears, HearsDemand
  <2> QED
    BY <1>1, <1>2, <1>3, <2>4, ReplyStays DEF p
<1>4. CASE w = "connect" /\ SaysLogin(server, Got, cnx, sv) /\ Got.data # Public
  <2>1. /\ LoggingIn(server, cnx, sv) /\ Got.data = Right(server.path[sv.at])
        /\ Keyed(server, sv.at, cnx.pendingAccept)
        /\ server.path[sv.at] \in SrpList => cnx.serverKeys = server.path[sv.at]
    BY <1>4 DEF SaysLogin
  <2>2. LogIn(Got.data, "")
    BY <1>1, <1>4, <2>1 DEF LoggingIn
  <2> QED
    BY <1>1, <1>2, <1>4, <2>1, <2>2, LogInConnect
<1>5. CASE SaysLate(options, server, w, Got, cnx, sv)
  <2>1. Serving(options, server, w, cnx, sv) /\ Got.data = Legacy /\ Got.data # Public
    BY <1>5, RightIs DEF SaysLate
  <2>2. /\ Attaching(options, server, w, cnx, sv) /\ w \in AttachOps
        /\ LogIn(Got.data, w)
    BY <1>1, <2>1 DEF Serving, Attaching, Wants, AttachOps
  <2>3. MayLogIn(options, server) =>
           LoggingInLate(server, sv) /\ Got.data = Right(server.path[sv.at])
    BY <1>5, <2>1 DEF SaysLate, Right, SrpList
  <2> QED
    BY <1>1, <1>2, <2>2, <2>3, LogInAttach
<1> QED
  BY <1>2, <1>3, <1>4, <1>5

(* A request for an attachment: served, or a login.                        *)
LEMMA GetsAttachLogin ==
    ASSUME First, NEW op \in AttachOps, GetsAttach(op)
    PROVE  First'
<1>1. /\ Gets(op)
      /\ \/ (~server.new \/ sv.authed) /\ Admit(sv, op) /\ (server.new \/ server.ok)
         \/ ~server.ok /\ Reply(sv, <<OpResponse(FALSE)>>) /\ server' = server
         \/ server.new /\ ~sv.authed /\ LogIn(Got.data, op)
  BY DEF GetsAttach
<1>2. /\ Talking(cnx, sv) /\ cnx.queue = <<op>>
      /\ SaysAttach(options, server, op, Got, cnx, sv)
  <2>1. PICK w : cnx.queue = <<w>> /\ Says(options, server, w, Got, cnx, sv)
    BY <1>1, GetsLogin
  <2>2. Got.op = op /\ Talking(cnx, sv)
    BY <1>1, GetsLogin
  <2>3. SaysAttach(options, server, w, Got, cnx, sv)
    BY <2>1, <2>2, Said
  <2>4. w = op
    BY <2>2, <2>3 DEF SaysAttach
  <2> QED
    BY <2>1, <2>2, <2>3, <2>4
<1>3. Attaching(options, server, op, cnx, sv)
  BY <1>2 DEF SaysAttach
<1>4. CASE (~server.new \/ sv.authed) /\ Admit(sv, op) /\ (server.new \/ server.ok)
  <2>1. server.ok
    BY <1>3, <1>4 DEF Attaching
  <2> QED
    BY <1>1, <1>2, <1>3, <1>4, <2>1, AdmitLogin
<1>5. CASE ~server.ok /\ Reply(sv, <<OpResponse(FALSE)>>) /\ server' = server
  <2> DEFINE p == OpResponse(FALSE)
  <2>1. p.op = "op_response" /\ ~p.flag
    BY OpResponseIs
  <2> HIDE DEF p
  <2>2. ~MayLogIn(options, server)
    BY <1>5 DEF MayLogIn
  <2>3. Hears(options, server, op, p, cnx, sv)
    BY <1>3, <2>1, <2>2 DEF Hears, HearsAttach
  <2> QED
    BY <1>1, <1>2, <1>5, <2>3, ReplyStays DEF p
<1>6. CASE server.new /\ ~sv.authed /\ LogIn(Got.data, op)
  <2>1. ASSUME MayLogIn(options, server)
        PROVE  LoggingInLate(server, sv) /\ Got.data = Right(server.path[sv.at])
    <3>1. /\ server.later /\ sv.at = 1 /\ Head(server.path) \in SrpList
          /\ cnx.accept.auth = Proof(Head(server.path))
      BY <1>2, <1>6, <2>1 DEF SaysAttach, Ready
    <3>2. op # "op_service_attach"
      BY <1>3, <2>1, <3>1 DEF MayLogIn, Attaching, Wants
    <3>3. Got.data = cnx.accept.auth
      BY <1>2, <3>2 DEF SaysAttach
    <3>4. server.path[1] = Head(server.path) /\ Len(server.path) \in Nat \ {0}
      BY PathIs DEF First
    <3>5. Got.data = Right(server.path[sv.at])
      BY <3>1, <3>3, <3>4 DEF Right
    <3>6. sv.at \in 1..Len(server.path)
      BY <3>1, <3>4
    <3> QED
      BY <1>6, <3>5, <3>6 DEF LoggingInLate
  <2> QED
    BY <1>1, <1>2, <1>3, <1>6, <2>1, LogInAttach
<1> QED
  BY <1>1, <1>4, <1>5, <1>6

(* The key of an encrypted database.                                       *)
LEMMA GetsKeyLogin ==
    ASSUME First, GetsKey
    PROVE  First'
<1>1. Gets("op_crypt_key_callback") /\ Serve(sv, sv.attaching)
  BY DEF GetsKey
<1>2. PICK w : cnx.queue = <<w>> /\ KeyFor(options, server, w, Got, cnx, sv)
  BY <1>1, GetsLogin, Said
<1>3. /\ Attaching(options, server, w, cnx, sv) /\ sv.attaching = w
      /\ server.ok /\ (server.new => sv.authed)
  BY <1>2 DEF KeyFor, Serving
<1>4. Talking(cnx, sv)
  BY <1>1, GetsLogin
<1> QED
  BY <1>1, <1>2, <1>3, <1>4, ServeLogin

(* op_crypt: the cipher is on, unless its IV is missing.                   *)
LEMMA GetsCryptLogin ==
    ASSUME First, GetsCrypt
    PROVE  First'
<1> DEFINE on == [sv EXCEPT !.layer.cipher = Got.plugin]
           l == [sv.layer EXCEPT !.cipher = Got.plugin]
           p == OpResponse(TRUE)
<1>1. /\ Gets("op_crypt") /\ server' = server
      /\ \/ sv' = on /\ toClient' = toClient \o On(<<p>>, on.layer)
         \/ sv' = on /\ toClient' = toClient \o On(<<p>>, sv.layer)
         \/ Got.plugin # "Arc4" /\ ~server.iv /\ Reply(sv, <<OpResponse(FALSE)>>)
  BY DEF GetsCrypt
<1>2. /\ Talking(cnx, sv) /\ toServer' = <<>> /\ toClient = <<>> /\ told = <<>>
      /\ cnx.queue = <<"op_crypt">> /\ SaysCrypt(options, server, Got, cnx, sv)
  BY <1>1, GetsLogin, Said
<1>3. Got.plugin \in {"Arc4"} \cup server.keys /\ Got.plugin \in {"Arc4", "ChaCha64"}
  BY <1>2, PathIs DEF SaysCrypt, First
<1>4. /\ Talking(cnx, on) /\ on.layer.cipher # "" /\ on.at = sv.at /\ on.authed = sv.authed
  <2>1. Side(sv) /\ sv.layer \in LayerSet
    BY <1>2 DEF Talking, Minds, Side
  <2>2. l \in LayerSet /\ l.cipher # ""
    BY <1>3, <2>1 DEF LayerSet
  <2>3. on = [sv EXCEPT !.layer = l]
    BY <2>1
  <2> HIDE DEF l, on
  <2>4. /\ Talking(cnx, [sv EXCEPT !.layer = l]) /\ [sv EXCEPT !.layer = l].layer = l
        /\ [sv EXCEPT !.layer = l].at = sv.at /\ [sv EXCEPT !.layer = l].authed = sv.authed
    BY <1>2, <2>2, NotesLayer
  <2> QED
    BY <2>2, <2>3, <2>4
<1>5. p.op = "op_response" /\ p.flag = TRUE
  BY OpResponseIs
<1> HIDE DEF on, l, p
<1>6. HearsCrypt(options, server, p, cnx, on)
  BY <1>2, <1>4, <1>5 DEF HearsCrypt, SaysCrypt, Ready
<1>7. Hears(options, server, "op_crypt", p, cnx, on)
  BY <1>6 DEF Hears
<1>8. ASSUME NEW m, sv' = on, toClient' = toClient \o On(<<p>>, m)
      PROVE  First'
  <2>1. toClient' = <<In(p, m)>>
    BY <1>2, <1>8, OnePacket, Single
  <2>2. Login(options, server, cnx, on, <<>>, <<In(p, m)>>, <<>>)
    BY <1>2, <1>4, <1>7, LoginHears
  <2> QED
    BY <1>1, <1>2, <1>8, <2>1, <2>2, FirstGets DEF Same
<1>9. CASE Got.plugin # "Arc4" /\ ~server.iv /\ Reply(sv, <<OpResponse(FALSE)>>)
  <2>1. ~MayLogIn(options, server)
    BY <1>3, <1>9 DEF MayLogIn
  <2> QED
    BY <1>1, <1>2, <1>9, <2>1, RefuseLogin
<1> QED
  BY <1>1, <1>8, <1>9

(* op_drop_database and op_detach.                                         *)
LEMMA GetsEndLogin ==
    ASSUME First, NEW op \in EndOps, GetsEnd(op)
    PROVE  First'
<1> DEFINE drops == op = "op_drop_database"
           ok == ~(drops /\ server.busy)
           d == [sv EXCEPT !.attached = @ /\ ~ok]
           p == OpResponse(ok)
<1>1. /\ Gets(op) /\ Reply(d, <<p>>)
      /\ server' = [server EXCEPT !.exists = @ /\ ~(drops /\ ok)]
  BY DEF GetsEnd
<1>2. Same(server', server)
  <2>1. (server.exists /\ ~(drops /\ ok)) \in BOOLEAN
    OBVIOUS
  <2> QED
    BY <1>1, <2>1 DEF Same
<1>3. PICK w : cnx.queue = <<w>> /\ Says(options, server, w, Got, cnx, sv)
  BY <1>1, GetsLogin
<1>4. Got.op = op /\ Talking(cnx, sv)
  BY <1>1, GetsLogin
<1>5. w = op /\ Ending(options, server, w, cnx)
  BY <1>3, <1>4, Said
<1>6. /\ server'.ok = server.ok /\ server'.busy = server.busy
      /\ server'.exists = (server.exists /\ ~(drops /\ ok))
  BY <1>1 DEF First, ServerSet
<1>7. p.op = "op_response" /\ p.flag = ok
  BY OpResponseIs
<1> HIDE DEF p
<1>8. /\ Ending(options, server', w, cnx)
      /\ w = "op_drop_database" => Dropped(server', p.flag)
  <2>1. CASE w = "op_drop_database"
    BY <1>5, <1>6, <1>7, <2>1 DEF Ending, Dropped
  <2>2. CASE w # "op_drop_database"
    BY <1>5, <1>6, <2>2 DEF Ending, Dropped
  <2> QED
    BY <2>1, <2>2
<1>9. Talking(cnx, d)
  BY <1>4, NotesAttached
<1> HIDE DEF d
<1>10. Hears(options, server', w, p, cnx, d)
  BY <1>7, <1>8 DEF Hears, HearsEnd
<1> QED
  BY <1>1, <1>2, <1>3, <1>9, <1>10, ReplyLogin

(* op_connect: an accept, with or without a demand, or a refusal.          *)
LEMMA GetsConnectLogin ==
    ASSUME First, GetsConnect
    PROVE  First'
<1> DEFINE first == Head(server.path)
           named == Got.plugin = first
           zip == Got.zip /\ server.zip
           accept(op) == [Message(op) EXCEPT !.plugin = first, !.zip = zip]
           asked == [sv EXCEPT !.at = 1, !.layer.zip = zip]
           authed == [asked EXCEPT !.authed = TRUE]
           op1 == IF server.later /\ named THEN "op_accept_data" ELSE "op_cond_accept"
           data == IF named THEN Data("challenge", first) ELSE NoData
           granted == [accept("op_accept_data") EXCEPT !.flag = TRUE]
           demand == [accept(op1) EXCEPT !.data = data]
<1>1. /\ Gets("op_connect") /\ server' = server
      /\ \/ ~server.new /\ Reply(sv, <<Message("op_accept")>>)
         \/ server.new /\ (~named \/ first # "Legacy_Auth") /\ Reply(asked, <<demand>>)
         \/ /\ server.new /\ named /\ first = "Legacy_Auth" /\ server.ok
            /\ Reply(authed, <<granted>>)
         \/ ~server.ok /\ Reply(sv, <<OpResponse(FALSE)>>)
  BY DEF GetsConnect
<1>2. /\ Talking(cnx, sv) /\ cnx.queue = <<"connect">> /\ SaysConnect(options, Got, cnx, sv)
  BY <1>1, GetsLogin, Said
<1>3. /\ Got.plugin = "Legacy_Auth" => options.pluginName = "Legacy_Auth"
      /\ cnx.pendingAccept = NoAccept /\ ~sv.authed /\ sv.attaching = ""
  BY <1>2 DEF SaysConnect
<1>4. /\ Talking(cnx, asked) /\ asked.at = 1 /\ asked.authed = sv.authed
      /\ asked.attaching = sv.attaching
  <2> DEFINE l == [sv.layer EXCEPT !.zip = zip]
             s1 == [sv EXCEPT !.at = 1]
             s2 == [s1 EXCEPT !.layer = l]
  <2>1. Side(sv) /\ sv.layer \in LayerSet
    BY <1>2 DEF Talking, Minds, Side
  <2>2. zip \in BOOLEAN
    OBVIOUS
  <2>3. l \in LayerSet
    BY <2>1, <2>2 DEF LayerSet
  <2>4. /\ Talking(cnx, s1) /\ s1.at = 1 /\ s1.layer = sv.layer /\ s1.authed = sv.authed
        /\ s1.attaching = sv.attaching
    BY <1>2, NotesAt
  <2>5. asked = s2
    BY <2>1, <2>4
  <2> HIDE DEF l, s1, asked
  <2>6. /\ Talking(cnx, s2) /\ s2.at = s1.at /\ s2.authed = s1.authed
        /\ s2.attaching = s1.attaching
    BY <2>3, <2>4, NotesLayer
  <2> QED
    BY <2>4, <2>5, <2>6
<1> HIDE DEF asked, zip
<1>5. Talking(cnx, authed) /\ authed.authed /\ authed.attaching = asked.attaching
  BY <1>4, NotesAuthed
<1> HIDE DEF authed
<1>6. CASE ~server.new /\ Reply(sv, <<Message("op_accept")>>)
  <2> DEFINE p == Message("op_accept")
  <2>1. p.op = "op_accept"
    BY DEF Message
  <2> HIDE DEF p
  <2>2. HearsLetIn(options, server, p, cnx, sv)
    BY <1>3, <1>6, <2>1 DEF HearsLetIn, LetIn
  <2>3. Hears(options, server, "connect", p, cnx, sv)
    BY <2>2 DEF Hears
  <2> QED
    BY <1>1, <1>2, <1>6, <2>3, ReplyStays DEF p
<1>7. CASE server.new /\ (~named \/ first # "Legacy_Auth") /\ Reply(asked, <<demand>>)
  <2>1. demand.op = op1 /\ demand.plugin = first /\ demand.data = data /\ demand.flag = FALSE
    BY DEF Message
  <2>2. op1 \in {"op_cond_accept", "op_accept_data"}
    OBVIOUS
  <2>3. op1 = "op_accept_data" => server.later /\ first \in SrpList /\ data # NoData
    <3>1. Data("challenge", first) # NoData
      BY DEF Data, NoData
    <3>2. first \in Plugins
      BY PathIs DEF First
    <3> QED
      BY <1>7, <3>1, <3>2 DEF Plugins, SrpList
  <2> HIDE DEF demand, op1, data, named
  <2>4. HearsLogin(server, demand, cnx, asked)
    BY <1>3, <1>4, <1>7, <2>1, <2>2, <2>3 DEF HearsLogin
  <2>5. Hears(options, server, "connect", demand, cnx, asked)
    BY <2>4 DEF Hears
  <2> QED
    BY <1>1, <1>2, <1>4, <1>7, <2>5, ReplyStays
<1>8. CASE /\ server.new /\ named /\ first = "Legacy_Auth" /\ server.ok
           /\ Reply(authed, <<granted>>)
  <2>1. granted.op = "op_accept_data" /\ granted.flag = TRUE
    BY DEF Message
  <2> HIDE DEF granted
  <2>2. HearsLetIn(options, server, granted, cnx, authed)
    BY <1>3, <1>4, <1>5, <1>8, <2>1 DEF HearsLetIn, LetIn
  <2>3. Hears(options, server, "connect", granted, cnx, authed)
    BY <2>2 DEF Hears
  <2> QED
    BY <1>1, <1>2, <1>5, <1>8, <2>3, ReplyStays
<1>9. CASE ~server.ok /\ Reply(sv, <<OpResponse(FALSE)>>)
  <2>1. ~MayLogIn(options, server)
    BY <1>9 DEF MayLogIn
  <2> QED
    BY <1>1, <1>2, <1>9, <2>1, RefuseLogin
<1> QED
  BY <1>1, <1>6, <1>7, <1>8, <1>9

(* One step for each packet that the server reads.                         *)
LEMMA ServerReadsLogin ==
    ASSUME First, ServerReads
    PROVE  First'
<1>1. ASSUME NEW op \in DatabaseOps \cup {"op_service_attach"}, GetsAttach(op)
      PROVE  First'
  BY <1>1, GetsAttachLogin DEF DatabaseOps, AttachOps
<1>2. ASSUME NEW op \in {"op_drop_database", "op_detach"}, GetsEnd(op)
      PROVE  First'
  BY <1>2, GetsEndLogin DEF EndOps
<1> QED
  BY <1>1, <1>2, GetsConnectLogin, GetsContAuthLogin, GetsKeyLogin, GetsCryptLogin
     DEF ServerReads
-----------------------------------------------------------------------------
(* op_connect names the plugin that the caller asked for, or the first.    *)
LEMMA SocketConnectedLogin ==
    ASSUME First, SocketConnected
    PROVE  First'
<1> DEFINE k == [cnx EXCEPT !.net = "open"]
           d == [k EXCEPT !.queue = <<"connect">>]
           p == OpConnect
<1>1. /\ cnx.net = "connecting" /\ Minds(cnx, sv) /\ Quiet(cnx, toServer, toClient) /\ told = <<>>
      /\ cnx.pendingAccept = NoAccept /\ ~sv.authed /\ sv.attaching = ""
  BY DEF SocketConnected, First, Login
<1>2. /\ cnx' = Written(d, <<p>>) /\ toServer' = Sent(d, <<p>>)
      /\ UNCHANGED <<options, server, sv, toClient, again, retry, told>>
  BY DEF SocketConnected, Write
<1>3. p.op = "op_connect" /\ p.plugin = FirstPlugin
  BY DEF OpConnect, Asks, Message
<1>4. FirstPlugin = "Legacy_Auth" => options.pluginName = "Legacy_Auth"
  <2>1. FirstPlugin = IF options.pluginName = "" THEN "Srp512" ELSE options.pluginName
    BY DEF FirstPlugin, AuthPluginList
  <2> QED
    BY <2>1
<1>5. Only("net", k, cnx) /\ k.net = "open"
  BY <1>1, Put DEF Minds
<1>6. Connection(k)
  BY <1>5 DEF Only
<1> HIDE DEF k, p
<1>7. Only("queue", d, k) /\ d.queue = <<"connect">>
  BY <1>6, Put
<1> HIDE DEF d
<1>8. /\ Connection(d) /\ d.net = "open" /\ d.deflating = <<>>
      /\ d.pendingAccept = cnx.pendingAccept
  BY <1>1, <1>5, <1>7 DEF Only, Fields, Quiet
<1>9. Talking(d, sv)
  BY <1>1, <1>8 DEF Talking, Minds
<1>10. Says(options, server, "connect", p, d, sv)
  BY <1>1, <1>3, <1>4, <1>8 DEF Says, SaysConnect
<1>11. Login(options, server, Written(d, <<p>>), sv, OneWay(d, p), <<>>, <<>>)
  BY <1>7, <1>9, <1>10, LoginSays
<1>12. toServer' = OneWay(d, p) /\ toClient' = <<>> /\ told' = <<>>
  BY <1>1, <1>2, SentIs DEF Quiet
<1> QED
  BY <1>2, <1>11, <1>12 DEF First

(* A socket that is refused is about no login.                             *)
LEMMA SocketRefusedLogin ==
    ASSUME First, SocketRefused
    PROVE  First'
<1> DEFINE k == [cnx EXCEPT !.net = "refused"]
           d == [k EXCEPT !.queue = cnx.queue]
<1>1. /\ cnx' = d /\ Minds(cnx, sv) /\ UNCHANGED <<options, server, sv, again, retry>>
  BY DEF SocketRefused, First, Login
<1>2. Only("net", k, cnx) /\ k.net = "refused"
  BY <1>1, Put DEF Minds
<1>3. Connection(k)
  BY <1>2 DEF Only
<1> HIDE DEF k
<1>4. Only("queue", d, k)
  BY <1>3, Put
<1> HIDE DEF d
<1>5. Connection(d) /\ d.net = "refused" /\ d.pendingAccept = cnx.pendingAccept
  BY <1>2, <1>4 DEF Only, Fields
<1>6. Login(options, server, d, sv, toServer', toClient', told')
  BY <1>1, <1>5 DEF Login, Minds
<1> QED
  BY <1>1, <1>6 DEF First

(* What comes out of the compressor is what the client said.               *)
LEMMA DeflatedLogin ==
    ASSUME First, Deflated
    PROVE  First'
<1> DEFINE d == [cnx EXCEPT !.deflating = <<>>]
<1>1. /\ cnx.net = "open" /\ cnx.deflating # <<>> /\ Minds(cnx, sv)
      /\ UNCHANGED <<options, server, sv, toClient, again, retry, told>>
  BY DEF Deflated, First, Login
<1>2. told = <<>> /\ Saying(options, server, cnx, sv, toServer, toClient)
  BY <1>1 DEF First, Login, Hearing, HearingTwo, Quiet
<1>3. PICK w, p : /\ cnx.queue = <<w>> /\ Says(options, server, w, p, cnx, sv)
                  /\ toClient = <<>> /\ cnx.deflating = <<p>> /\ toServer = <<>>
  BY <1>1, <1>2 DEF Saying
<1>4. cnx' = d
  BY <1>3, Single DEF Deflated
<1>5. toServer' = <<In(p, cnx.layer)>>
  <2>1. Head(cnx.deflating) = p
    BY <1>3, Single
  <2>2. On(<<p>>, cnx.layer) = <<In(p, cnx.layer)>>
    BY OnePacket
  <2> QED
    BY <1>3, <2>1, <2>2, Single DEF Deflated
<1>6. Only("deflating", d, cnx) /\ d.deflating = <<>>
  BY <1>1, Put DEF Minds
<1> HIDE DEF d
<1>7. /\ Connection(d) /\ d.net = "open" /\ d.queue = <<w>> /\ Alike(d, cnx)
  BY <1>1, <1>3, <1>6 DEF Only, Fields, Alike
<1>8. Says(options, server, w, p, d, sv)
  BY <1>3, <1>7, SaysAlike
<1>9. Saying(options, server, d, sv, <<In(p, cnx.layer)>>, <<>>)
  BY <1>6, <1>7, <1>8 DEF Saying
<1>10. Minds(d, sv)
  BY <1>1, <1>7 DEF Minds, Alike
<1>11. Login(options, server, d, sv, <<In(p, cnx.layer)>>, <<>>, <<>>)
  BY <1>7, <1>9, <1>10 DEF Login
<1> QED
  BY <1>1, <1>2, <1>3, <1>4, <1>5, <1>11 DEF First

(* Nothing was said yet.                                                   *)
LEMMA LoginInit ==
    Init => LoginInv
<1> SUFFICES ASSUME Init PROVE LoginInv
  OBVIOUS
<1> DEFINE c == NewConnection(FALSE)
           s == NewServer
<1>1. /\ options \in OptionSet /\ server \in ServerSet /\ ~again /\ ~retry /\ losses = 0
      /\ cnx = c /\ sv = s /\ toServer = <<>> /\ toClient = <<>> /\ told = <<>>
  BY ConnectAssumption DEF Init
<1>2. Connection(c) /\ Side(s)
  BY NewTalks DEF Talks
<1>3. /\ c.net = "connecting" /\ c.deflating = <<>> /\ c.pendingAccept = NoAccept
      /\ ~s.authed /\ s.attaching = ""
  BY DEF NewConnection, NewServer
<1> HIDE DEF c, s
<1>4. Minds(c, s)
  BY <1>2, <1>3, NonePending DEF Minds
<1>5. Login(options, server, c, s, <<>>, <<>>, <<>>)
  BY <1>3, <1>4 DEF Login, Quiet
<1> QED
  BY <1>1, <1>5 DEF LoginInv, First

(* Every step of the first connection; a loss ends it.                     *)
LEMMA LoginStep ==
    LoginInv /\ [Next]_vars => LoginInv'
<1> SUFFICES ASSUME LoginInv, [Next]_vars PROVE LoginInv'
  OBVIOUS
<1>1. losses \in Nat /\ (losses = 0 => First)
  BY DEF LoginInv
<1>2. CASE losses' = losses /\ (First => First')
  BY <1>1, <1>2 DEF LoginInv
<1>3. CASE UNCHANGED vars
  <2>1. First => First'
    BY <1>3 DEF First, vars
  <2> QED
    BY <1>2, <1>3, <2>1 DEF vars
<1>4. CASE SocketConnected
  BY <1>2, <1>4, SocketConnectedLogin DEF SocketConnected
<1>5. CASE SocketRefused
  BY <1>2, <1>5, SocketRefusedLogin DEF SocketRefused
<1>6. CASE Deflated
  BY <1>2, <1>6, DeflatedLogin DEF Deflated
<1>7. CASE ClientReads
  <2>1. \E op : Reads(op)
    BY <1>7 DEF ClientReads, Accept, ContinueAuth, CryptKeyCallback, ConnectAnswered,
       CryptAnswered, AttachAnswered, CreateAnswered, ServiceAnswered, DropAnswered,
       DetachAnswered, Response
  <2>2. losses' = losses
    BY <2>1 DEF Reads
  <2> QED
    BY <1>2, <1>7, <2>2, ClientReadsLogin
<1>8. CASE ServerReads
  <2>1. \E op : Gets(op)
    BY <1>8 DEF ServerReads, GetsConnect, GetsContAuth, GetsKey, GetsCrypt, GetsAttach, GetsEnd
  <2>2. losses' = losses
    BY <2>1 DEF Gets
  <2> QED
    BY <1>2, <1>8, <2>2, ServerReadsLogin
<1>9. ASSUME NEW error \in BOOLEAN, Lost(error)
      PROVE  LoginInv'
  <2>1. losses' = losses + 1
    BY <1>9 DEF Lost
  <2> QED
    BY <1>1, <2>1 DEF LoginInv
<1>10. CASE Retry
  <2>1. losses' = losses /\ ~First
    BY <1>10 DEF Retry, First
  <2> QED
    BY <1>2, <2>1
<1> QED
  BY <1>3, <1>4, <1>5, <1>6, <1>7, <1>8, <1>9, <1>10 DEF Next

(* Nobody is told before a login is over, and then what it came to.        *)
LEMMA LoginInvTells ==
    LoginInv => RightLoginSucceeds
<1> SUFFICES ASSUME LoginInv, told # <<>>, losses = 0, cnx.net # "refused"
             PROVE  WellTold(options, server, sv, told)
  BY DEF RightLoginSucceeds, WellTold
<1> QED
  BY DEF LoginInv, First, Login

(* Who may log in, to a database that is there or is to be made, is let    *)
(* in, whatever plugins the server asks for in turn, with the handshake or *)
(* with the attach; nobody else is told so; who drops a database is told   *)
(* "ok" only when it is gone, of an error when it is in use; and each      *)
(* caller is told once (connection.ts:2988-3006, 1049-1055).               *)
THEOREM ConnectLoginSucceeds ==
    Spec => []RightLoginSucceeds
<1>1. Spec => []LoginInv
  BY LoginInit, LoginStep, PTL DEF Spec
<1> QED
  BY <1>1, LoginInvTells, PTL
=============================================================================
