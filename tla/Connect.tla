------------------------------ MODULE Connect -------------------------------
(***************************************************************************)
(* Getting an attachment and getting it back (src/src/wire/connection.ts,  *)
(* socket.ts, index.ts): the handshake of connect() - protocol, login      *)
(* plugin, compression, encryption - then attach(), createDatabase(),      *)
(* svcattach() or dropDatabase() as attach(), attachOrCreate(), create()   *)
(* and drop() chain them, and the reconnection of a lost connection.       *)
(*                                                                         *)
(* The server is external: it does what the client's code and the mock     *)
(* server of the tests (src/test/mock-server.js) expect of one.            *)
(***************************************************************************)
EXTENDS Integers, Sequences, SequencesExt

CONSTANTS
    Cases,      \* [options, server]: what is asked of what server
    MaxLosses,  \* connections lost in a behaviour
    Losable,    \* the phases in which a connection may be lost
    Refusing    \* the sockets that may be refused: first, again

(* What may be asked of what server.                                       *)
Plugins == {"Srp512", "Srp", "Legacy_Auth"}
OptionSet ==
    [mode : {"attach", "attachOrCreate", "create", "service", "drop"},
     pluginName : Plugins \cup {""}, wireCrypt : BOOLEAN, wireCompression : BOOLEAN,
     isPool : BOOLEAN]
ServerSet ==
    [new : BOOLEAN, path : Seq(Plugins) \ {<<>>}, ok : BOOLEAN, proof : BOOLEAN,
     final : {"op_response", "op_accept"}, later : BOOLEAN, iv : BOOLEAN,
     keys : SUBSET {"Arc4", "ChaCha64"}, zip : BOOLEAN, required : BOOLEAN,
     key : BOOLEAN, exists : BOOLEAN, busy : BOOLEAN]

ASSUME ConnectAssumption ==
    /\ MaxLosses \in Nat
    /\ \A case \in Cases : case.options \in OptionSet /\ case.server \in ServerSet

VARIABLES
    options,    \* mode, pluginName, wireCrypt, wireCompression, isPool
    server,     \* the server's configuration; its field "exists" changes
    cnx,        \* the client's Connection and its socket
    sv,         \* the server's side of the connection
    toServer, toClient,   \* the two directions of the socket
    again,      \* the connection is a reconnection
    retry,      \* _retry_connection_id: the timer is armed
    losses,
    told        \* what the caller's callback was called with

vars == <<options, server, cnx, sv, toServer, toClient, again, retry, losses, told>>

-----------------------------------------------------------------------------
(* Plugins; a login answer is made for one of them.                        *)
AuthPluginList == <<"Srp512", "Srp", "Legacy_Auth">>
SrpList == {"Srp512", "Srp"}
Data(is, of) == [is |-> is, of |-> of]
NoData == Data("", "")
Public == Data("public", "")
Proof(plugin) == Data("proof", plugin)
Legacy == Data("legacy", "Legacy_Auth")

(* What the bytes on the socket went through.                              *)
Layer(zip, cipher) == [zip |-> zip, cipher |-> cipher]
Plain == Layer(FALSE, "")

Message(op) == [op |-> op, plugin |-> "", data |-> NoData, flag |-> FALSE, zip |-> FALSE]
Asks(op, plugin, data) == [Message(op) EXCEPT !.plugin = plugin, !.data = data]
ContAuth(plugin, data) == Asks("op_cont_auth", plugin, data)
OpResponse(ok) == [Message("op_response") EXCEPT !.flag = ok]

(* accept, and _pendingAccept.                                             *)
NoAccept == [plugin |-> "none", auth |-> NoData, session |-> FALSE]

\* detach: what drop() will be told, while it detaches.
NewConnection(db) ==
    [net |-> "connecting", layer |-> Plain, deflating |-> <<>>, serverKeys |-> "",
     pendingAccept |-> NoAccept, accept |-> NoAccept, queue |-> <<>>, db |-> db,
     detach |-> "", ready |-> FALSE]
NewServer ==
    [layer |-> Plain, at |-> 0, authed |-> FALSE, attaching |-> "", attached |-> FALSE]

Init ==
    /\ \E case \in Cases : options = case.options /\ server = case.server
    /\ cnx = NewConnection(FALSE) /\ sv = NewServer
    /\ toServer = <<>> /\ toClient = <<>>
    /\ again = FALSE /\ retry = FALSE /\ losses = 0 /\ told = <<>>

-----------------------------------------------------------------------------
(* Socket.write in the state c: the compressor hands a packet on later,    *)
(* and it is encrypted then.                                               *)
On(packets, layer) == [i \in DOMAIN packets |-> [packet |-> packets[i], layer |-> layer]]
Written(c, packets) ==
    IF c.layer.zip THEN [c EXCEPT !.deflating = @ \o packets] ELSE c
Sent(c, packets) == IF c.layer.zip THEN toServer ELSE toServer \o On(packets, c.layer)
Write(c, packets) == cnx' = Written(c, packets) /\ toServer' = Sent(c, packets)

Deflated ==
    /\ cnx.net = "open" /\ cnx.deflating # <<>>
    /\ toServer' = toServer \o On(<<Head(cnx.deflating)>>, cnx.layer)
    /\ cnx' = [cnx EXCEPT !.deflating = Tail(@)]
    /\ UNCHANGED <<options, server, sv, toClient, again, retry, losses, told>>

(* The caller's callback; a reconnection emits an event instead.           *)
Tell(result) == told' = IF again THEN told ELSE Append(told, result)

-----------------------------------------------------------------------------
(* connect(): the plugin and what goes with it.                            *)
FirstPlugin == IF options.pluginName = "" THEN Head(AuthPluginList) ELSE options.pluginName
OpConnect ==
    [Asks("op_connect", FirstPlugin, IF FirstPlugin \in SrpList THEN Public ELSE Legacy)
        EXCEPT !.zip = options.wireCompression]

SocketConnected ==
    /\ cnx.net = "connecting"
    /\ Write([cnx EXCEPT !.net = "open", !.queue = <<"connect">>], <<OpConnect>>)
    /\ UNCHANGED <<options, server, sv, toClient, again, retry, losses, told>>

(* 'error' before 'connect'.  A reconnection does not look at it: its      *)
(* connect() writes to the dead socket, whose 'close' changes nothing.     *)
SocketRefused ==
    /\ (IF again THEN "again" ELSE "first") \in Refusing /\ cnx.net = "connecting"
    /\ cnx' = [cnx EXCEPT !.net = "refused", !.queue = IF again THEN <<"connect">> ELSE @]
    /\ Tell("error")
    /\ UNCHANGED <<options, server, sv, toServer, toClient, again, retry, losses>>

(* What follows a successful connect(): the login that an attachment of a  *)
(* database repeats; a service sends the password alone.                   *)
Mode == IF again THEN "attach" ELSE options.mode
OpAttach(auth) == Asks("op_attach", "", auth)
OpCreate(auth) == Asks("op_create", "", auth)
OpServiceAttach == Asks("op_service_attach", "", Data("password", ""))
DatabaseOps == {"op_attach", "op_create"}

AttachRequest(auth) ==
    CASE Mode = "create" -> OpCreate(auth)
      [] Mode = "service" -> OpServiceAttach
      [] OTHER -> OpAttach(auth)

(* The best of the ciphers that the server has.                            *)
SelectedPlugin == IF "ChaCha64" \in server.keys THEN "ChaCha64" ELSE "Arc4"
Encrypted(c) == [c EXCEPT !.layer.cipher = SelectedPlugin]

\* Mutant: encryption is on after op_crypt whatever the cipher.
EncryptedWithAny(c) == Encrypted(c)
EncryptedAtOnce(c) == IF SelectedPlugin = "Arc4" THEN Encrypted(c) ELSE c

\* Mutant: _pendingAccept is not looked at.
AcceptOfResponse(c, ret) == ret
AcceptOf(c, ret) == IF c.pendingAccept = NoAccept THEN ret ELSE c.pendingAccept

(* connect()'s callback: op_crypt, or on to the attachment.                *)
Connected(c, ret) ==
    LET accept == AcceptOf(c, ret)
        crypt == <<Asks("op_crypt", SelectedPlugin, NoData)>>
        attach == AttachRequest(accept.auth)
        next(op) == [c EXCEPT !.accept = accept, !.pendingAccept = NoAccept,
                              !.queue = Append(Tail(@), op), !.db = @ \/ op \in DatabaseOps]
    IN  /\ IF accept.session /\ options.wireCrypt
           THEN /\ cnx' = EncryptedAtOnce(Written(next("op_crypt"), crypt))
                /\ toServer' = Sent(next("op_crypt"), crypt)
           ELSE Write(next(attach.op), <<attach>>)
        /\ told' = told

-----------------------------------------------------------------------------
(* decodeResponse during the handshake.                                    *)
Reads(op) ==
    /\ cnx.net = "open" /\ toClient # <<>> /\ cnx.queue # <<>>
    /\ Head(toClient).layer = cnx.layer /\ Head(toClient).packet.op = op
    /\ toClient' = Tail(toClient)
    /\ UNCHANGED <<options, server, sv, again, losses>>
Packet == Head(toClient).packet

(* The proof of a login, by the hash of its plugin, and the session key.   *)
Proven(accept, plugin) ==
    [accept EXCEPT !.plugin = plugin, !.auth = Proof(plugin), !.session = TRUE]

(* op_accept, op_cond_accept, op_accept_data.                              *)
Accept(op) ==
    LET accept == [NoAccept EXCEPT !.plugin = Packet.plugin]
        srp == Packet.plugin \in SrpList
        login == op # "op_accept" /\ ~Packet.flag
        ret == IF ~login THEN accept
               ELSE IF srp THEN Proven(accept, Packet.plugin)
               ELSE [accept EXCEPT !.auth = Legacy]
        zipped == [cnx EXCEPT !.layer.zip = @ \/ Packet.zip,
                              !.serverKeys = IF login /\ srp THEN Packet.plugin ELSE @]
    IN  /\ Reads(op) /\ retry' = retry
        /\ IF login /\ options.pluginName \notin {"", Packet.plugin}
           THEN Tell("error") /\ UNCHANGED <<cnx, toServer>>
           ELSE IF login /\ srp /\ Packet.data = NoData
           THEN /\ Write([cnx EXCEPT !.pendingAccept = accept], <<ContAuth(Packet.plugin, Public)>>)
                /\ told' = told
           ELSE IF op = "op_cond_accept" /\ login
           THEN /\ Write([zipped EXCEPT !.pendingAccept = ret], <<ContAuth(ret.plugin, ret.auth)>>)
                /\ told' = told
           ELSE Connected(zipped, ret)

\* Mutant: any op_cont_auth of a SRP plugin is the server's proof (#254).
ProofAlways(plugin) == cnx.serverKeys = ""
Challenge(plugin) == cnx.serverKeys # plugin

(* op_cont_auth: a challenge, the server's own proof, or a demand for the  *)
(* legacy login.  What is not understood leaves the caller waiting: a      *)
(* second demand for the legacy login, too, is read as a challenge.        *)
ContinueAuth ==
    LET plugin == Packet.plugin
        pending == cnx.pendingAccept # NoAccept
        answered == Proven(cnx.pendingAccept, plugin)
        fallback == [cnx EXCEPT !.accept.plugin = plugin, !.accept.auth = Legacy]
    IN  /\ Reads("op_cont_auth") /\ UNCHANGED <<retry, told>>
        /\ CASE pending /\ plugin \in SrpList ->
                  IF Challenge(plugin)
                  THEN Write([cnx EXCEPT !.serverKeys = plugin, !.pendingAccept = answered],
                             <<ContAuth(plugin, Proof(plugin))>>)
                  ELSE cnx' = [cnx EXCEPT !.pendingAccept.plugin = plugin] /\ toServer' = toServer
             [] pending /\ plugin = "Legacy_Auth" /\ cnx.pendingAccept.plugin # plugin ->
                  Write(cnx, <<ContAuth(plugin, Legacy)>>)
             [] ~pending /\ options.pluginName = "" /\ plugin = "Legacy_Auth"
                /\ cnx.accept.plugin # plugin ->
                  Write(fallback, <<ContAuth(plugin, Legacy)>>)
             [] OTHER -> UNCHANGED <<cnx, toServer>>

(* op_crypt_key_callback: the key of an encrypted database.                *)
CryptKeyCallback ==
    /\ Reads("op_crypt_key_callback") /\ UNCHANGED <<retry, told>>
    /\ Write(cnx, <<Message("op_crypt_key_callback")>>)

(* op_response, to the oldest request; one to op_crypt that lacks the IV   *)
(* of its cipher counts as a refusal.                                      *)
Response(request, ok) ==
    /\ Reads("op_response") /\ Head(cnx.queue) = request /\ Packet.flag = ok
    /\ retry' = IF request = "op_detach" THEN FALSE ELSE retry
Answered == [cnx EXCEPT !.queue = Tail(@)]
Ends(c, result) == Tell(result) /\ cnx' = c /\ UNCHANGED toServer
Asked(c, packet) ==
    /\ Write([c EXCEPT !.queue = Append(@, packet.op), !.db = @ \/ packet.op \in DatabaseOps],
             <<packet>>)
    /\ told' = told

ConnectAnswered ==
    \/ Response("connect", TRUE) /\ Connected(cnx, NoAccept)
    \/ Response("connect", FALSE) /\ Ends(Answered, "error")

CryptAnswered ==
    \/ Response("op_crypt", TRUE) /\ Asked(Encrypted(Answered), AttachRequest(cnx.accept.auth))
    \/ Response("op_crypt", FALSE) /\ Ends(Answered, "error")

(* attach()'s callback, and attachOrCreate() and drop() around it.         *)
AttachAnswered ==
    \/ /\ Response("op_attach", TRUE)
       /\ LET attached == [Answered EXCEPT !.ready = TRUE]
          IN  IF Mode = "drop" THEN Asked(attached, Message("op_drop_database"))
              ELSE Ends(attached, "ok")
    \/ /\ Response("op_attach", FALSE)
       /\ IF Mode = "attachOrCreate" THEN Asked(Answered, OpCreate(cnx.accept.auth))
          ELSE Ends(Answered, "error")

CreateAnswered ==
    \/ Response("op_create", TRUE) /\ Ends([Answered EXCEPT !.ready = TRUE], "ok")
    \/ Response("op_create", FALSE) /\ Ends(Answered, "error")

ServiceAnswered ==
    \/ Response("op_service_attach", TRUE) /\ Ends([Answered EXCEPT !.ready = TRUE], "ok")
    \/ Response("op_service_attach", FALSE) /\ Ends(Answered, "error")

(* dropDatabase() detaches whatever the answer; then the socket ends, and  *)
(* the caller is told how the drop went, not how the detach did.           *)
DropAnswered ==
    \E ok \in BOOLEAN :
       /\ Response("op_drop_database", ok)
       /\ Asked([Answered EXCEPT !.detach = IF ok THEN "ok" ELSE "error"], Message("op_detach"))

\* Mutant: the caller is told how the detach went.
ToldOfDetach(ok) == IF ok THEN "ok" ELSE "error"
ToldOfDrop(ok) == cnx.detach
DetachAnswered ==
    \E ok \in BOOLEAN :
       Response("op_detach", ok) /\ Ends([Answered EXCEPT !.net = "ended"], ToldOfDrop(ok))

ClientReads ==
    \/ \E op \in {"op_accept", "op_cond_accept", "op_accept_data"} : Accept(op)
    \/ ContinueAuth \/ CryptKeyCallback
    \/ ConnectAnswered \/ CryptAnswered \/ AttachAnswered \/ CreateAnswered
    \/ ServiceAnswered \/ DropAnswered \/ DetachAnswered

-----------------------------------------------------------------------------
(* The server (external).  It demands a login for each plugin of "path" in *)
(* turn, takes the last one or refuses it, and then serves.                *)
Gets(op) ==
    /\ cnx.net = "open" /\ toServer # <<>>
    /\ Head(toServer).layer = sv.layer /\ Head(toServer).packet.op = op
    /\ toServer' = Tail(toServer)
    /\ UNCHANGED <<options, cnx, again, retry, losses, told>>
Got == Head(toServer).packet
Reply(s, packets) == sv' = s /\ toClient' = toClient \o On(packets, sv.layer)

Plugin(s) == server.path[s.at]
Demand(plugin) ==
    ContAuth(plugin, IF plugin \in SrpList THEN Data("challenge", plugin) ELSE NoData)

(* The first answer; a client that named another plugin is told which.     *)
GetsConnect ==
    /\ Gets("op_connect") /\ server' = server
    /\ LET first == Head(server.path)
           named == Got.plugin = first
           zip == Got.zip /\ server.zip
           accept(op) == [Message(op) EXCEPT !.plugin = first, !.zip = zip]
           asked == [sv EXCEPT !.at = 1, !.layer.zip = zip]
       IN  IF ~server.new THEN Reply(sv, <<Message("op_accept")>>)
           ELSE IF ~named \/ first # "Legacy_Auth"
           THEN Reply(asked,
                      <<[accept(IF server.later /\ named THEN "op_accept_data" ELSE "op_cond_accept")
                           EXCEPT !.data = IF named THEN Data("challenge", first) ELSE NoData]>>)
           ELSE IF server.ok
           THEN Reply([asked EXCEPT !.authed = TRUE],
                      <<[accept("op_accept_data") EXCEPT !.flag = TRUE]>>)
           ELSE Reply(sv, <<OpResponse(FALSE)>>)

(* An attach, when the login is done.                                      *)
Serve(s, op) ==
    LET ok == op # "op_attach" \/ server.exists
    IN  /\ Reply([s EXCEPT !.attached = ok], <<OpResponse(ok)>>)
        /\ server' = [server EXCEPT !.exists = @ \/ op = "op_create"]
Admit(s, op) ==
    IF server.required /\ s.layer.cipher = "" THEN Reply(s, <<OpResponse(FALSE)>>) /\ server' = server
    ELSE IF server.key /\ op # "op_service_attach"
    THEN Reply([s EXCEPT !.attaching = op], <<Message("op_crypt_key_callback")>>) /\ server' = server
    ELSE Serve(s, op)

(* A login: on to the next plugin, or to what it was for.                  *)
LogIn(data, op) ==
    LET last == sv.at = Len(server.path)
        right == data = (IF Plugin(sv) \in SrpList THEN Proof(Plugin(sv)) ELSE Legacy)
        own == IF server.proof /\ Plugin(sv) \in SrpList
               THEN <<ContAuth(Plugin(sv), Data("own proof", Plugin(sv)))>> ELSE <<>>
    IN  CASE right /\ ~last ->
               /\ Reply([sv EXCEPT !.at = @ + 1, !.attaching = op], <<Demand(server.path[sv.at + 1])>>)
               /\ server' = server
          [] right /\ last /\ server.ok /\ op = "" ->
               /\ Reply([sv EXCEPT !.authed = TRUE],
                        Append(own, [OpResponse(TRUE) EXCEPT !.op = server.final]))
               /\ server' = server
          [] right /\ last /\ server.ok /\ op # "" -> Admit([sv EXCEPT !.authed = TRUE], op)
          [] OTHER -> Reply(sv, <<OpResponse(FALSE)>>) /\ server' = server

GetsContAuth ==
    /\ Gets("op_cont_auth")
    /\ IF Got.data = Public THEN Reply(sv, <<Demand(Plugin(sv))>>) /\ server' = server
       ELSE LogIn(Got.data, sv.attaching)

GetsAttach(op) ==
    /\ Gets(op)
    /\ IF ~server.new THEN IF server.ok THEN Admit(sv, op)
                           ELSE Reply(sv, <<OpResponse(FALSE)>>) /\ server' = server
       ELSE IF sv.authed THEN Admit(sv, op)
       ELSE LogIn(Got.data, op)

GetsKey == Gets("op_crypt_key_callback") /\ Serve(sv, sv.attaching)

(* The answer to op_crypt is encrypted, unless it brings the cipher's IV.  *)
GetsCrypt ==
    /\ Gets("op_crypt") /\ server' = server
    /\ LET on == [sv EXCEPT !.layer.cipher = Got.plugin]
       IN  CASE Got.plugin = "Arc4" ->
                  sv' = on /\ toClient' = toClient \o On(<<OpResponse(TRUE)>>, on.layer)
             [] Got.plugin # "Arc4" /\ server.iv ->
                  sv' = on /\ toClient' = toClient \o On(<<OpResponse(TRUE)>>, sv.layer)
             [] OTHER -> Reply(sv, <<OpResponse(FALSE)>>)

(* A database that others use is not dropped.                              *)
GetsEnd(op) ==
    LET drops == op = "op_drop_database"
        ok == ~(drops /\ server.busy)
    IN  /\ Gets(op) /\ Reply([sv EXCEPT !.attached = @ /\ ~ok], <<OpResponse(ok)>>)
        /\ server' = [server EXCEPT !.exists = @ /\ ~(drops /\ ok)]

ServerReads ==
    \/ GetsConnect \/ GetsContAuth \/ GetsKey \/ GetsCrypt
    \/ \E op \in DatabaseOps \cup {"op_service_attach"} : GetsAttach(op)
    \/ \E op \in {"op_drop_database", "op_detach"} : GetsEnd(op)

-----------------------------------------------------------------------------
(* The socket's 'close', after an 'error' or without one: the caller is    *)
(* told by the requests that are rejected, by the 'error', and, as long as *)
(* there is no Database, by connect() or its callback once more.           *)
Phase ==
    IF cnx.detach # "" THEN "detaching" ELSE IF cnx.ready THEN "attached"
    ELSE IF cnx.db THEN "attaching" ELSE "handshake"

Lost(error) ==
    /\ cnx.net = "open" /\ losses < MaxLosses /\ Phase \in Losable
    /\ losses' = losses + 1
    /\ cnx' = [cnx EXCEPT !.net = "lost", !.queue = <<>>, !.deflating = <<>>]
    /\ LET times == (IF error THEN 1 ELSE 0)
                    + (IF cnx.detach # "" THEN 0 ELSE Len(cnx.queue) + (IF cnx.db THEN 0 ELSE 1))
       IN  told' = IF again THEN told ELSE told \o [i \in 1..times |-> "error"]
    /\ retry' = (cnx.db /\ cnx.detach = "" /\ ~options.isPool)
    /\ UNCHANGED <<options, server, sv, toServer, toClient, again>>

\* Mutant: the new connection does not know the Database.
WithoutDatabase == NewConnection(FALSE)
Replacement == NewConnection(TRUE)

(* The timer: a new Connection, whose fields replace those of the old one. *)
Retry ==
    /\ retry /\ retry' = FALSE /\ again' = TRUE
    /\ cnx' = Replacement /\ sv' = NewServer /\ toServer' = <<>> /\ toClient' = <<>>
    /\ UNCHANGED <<options, server, losses, told>>

Next ==
    \/ SocketConnected \/ SocketRefused \/ Deflated \/ ClientReads \/ ServerReads
    \/ \E error \in BOOLEAN : Lost(error)
    \/ Retry

(* Sockets connect, carry packets and are read; timers fire.               *)
Spec ==
    /\ Init /\ [][Next]_vars
    /\ WF_vars(SocketConnected) /\ WF_vars(Deflated) /\ WF_vars(ClientReads)
    /\ WF_vars(ServerReads) /\ WF_vars(Retry)

-----------------------------------------------------------------------------
(* Compression is not asked for with Arc4, nor when the first plugin is    *)
(* not the one that the server asks for: there the client is wrong (two    *)
(* known defects), and LayersAgree does not hold.                          *)
Compresses(o, s) ==
    /\ o.wireCrypt => "ChaCha64" \in s.keys
    /\ Head(s.path) # "Legacy_Auth" =>
          Head(s.path) = IF o.pluginName = "" THEN "Srp512" ELSE o.pluginName
CompressionFits ==
    \A case \in Cases :
       case.options.wireCompression /\ case.server.zip /\ case.server.new
          => Compresses(case.options, case.server)

(* Both sides compress and encrypt a packet alike: what comes next on      *)
(* either side went through what the reader will undo, at every step of    *)
(* the handshake (connection.ts:753-755).                                  *)
LayersAgree ==
    cnx.net = "open" =>
        /\ toServer # <<>> => Head(toServer).layer = sv.layer
        /\ toClient # <<>> => Head(toClient).layer = cnx.layer

(* Who may log in, to a database that is there or is to be made, is let    *)
(* in, and who drops one is told whether it is gone: whatever plugins the  *)
(* server asks for in turn, whether the password goes with the handshake   *)
(* or with the attach (connection.ts:2988-3006, 1049-1055).                *)
(* An old protocol and a legacy login have no key to encrypt with, and a   *)
(* service sends its password alone, so it cannot log in with the attach.  *)
MayLogIn(o, s) ==
    /\ s.ok
    /\ s.new => o.pluginName \in {"", Head(s.path)}
    /\ s.iv \/ "ChaCha64" \notin s.keys
    /\ s.required =>
          /\ s.new /\ o.wireCrypt /\ o.pluginName # "Legacy_Auth"
          /\ SrpList \cap ToSet(s.path) # {}
    /\ s.later => o.mode # "service"
RightLoginSucceeds ==
    told # <<>> /\ losses = 0 /\ cnx.net # "refused" =>
        /\ Len(told) = 1
        /\ MayLogIn(options, server) =>
              \/ told = <<"ok">>
              \/ options.mode \in {"attach", "drop"} /\ ~server.exists
              \/ options.mode = "drop" /\ server.busy
        /\ told = <<"ok">> =>
              server.ok /\ IF options.mode = "drop" THEN ~server.exists ELSE sv.attached

(* Every attach(), create(), attachOrCreate() and drop() is answered.      *)
EveryAttachAnswered == <>(told # <<>>)

(* A database that is lost is attached again (README.md:191, 1306-1307).   *)
Reconnects ==
    cnx.ready /\ cnx.net = "lost" /\ cnx.db /\ ~options.isPool /\ options.mode # "drop"
        ~> cnx.ready /\ cnx.net = "open"
=============================================================================
