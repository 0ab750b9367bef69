------------------------------ MODULE FbEvents ------------------------------
(***************************************************************************)
(* POST_EVENT subscriptions: class FbEventManager of                       *)
(* src/src/wire/fbEventManager.ts, its event socket                        *)
(* (src/src/wire/eventConnection.ts) and queEvents / closeEvents of        *)
(* wire/connection.ts.                                                     *)
(*                                                                         *)
(* Requests go over the main connection, which answers them in order       *)
(* (module Wire); notifications come over the event socket, and nothing    *)
(* orders the two.  A subscription is one-shot: the server keeps an event  *)
(* parameter block (EPB: a count for each name) until a count differs from *)
(* its own, and answers with its counts.  Its counts start at one, so a     *)
(* new name brings a first notification, the baseline.                     *)
(***************************************************************************)
EXTENDS Integers, Sequences, FiniteSets, SequencesExt

CONSTANTS
    Event,     \* event names
    Change,    \* the calls of registerEvent and unregisterEvent
    MaxPosts,  \* how often an event is posted at most
    Faults     \* "refused": the server may refuse a request; "lost": the
               \* event socket may close

ASSUME EventsAssumption ==
    /\ IsFiniteSet(Event) /\ Event # {} /\ IsFiniteSet(Change)
    /\ {"loop", "close", "none"} \cap Change = {}
    /\ MaxPosts \in Nat \ {0} /\ Faults \subseteq {"refused", "lost"}

Absent == -1

VARIABLES
    events,    \* events: the last count of each registered name, or Absent
    active,    \* _hasActiveSubscription
    latest,    \* the call that raised _subscriptionVersion last
    listening, \* eventcallback is set
    socket,    \* the event socket: "open", "ending" (end() called), "closed"
    change,    \* the progress of each call
    closing,   \* the call of close()
    requests,  \* main connection, to the server
    replies,   \* main connection, to the client
    notices,   \* event socket, to the client
    armed,     \* EPBs the server keeps for this event id, oldest first
    posted,    \* the server's counts
    refused    \* history: the server has refused a request

client == <<events, active, latest, listening, socket, change, closing>>
server == <<armed, posted, refused>>
vars == <<client, requests, replies, notices, server>>

NoEpb == [e \in Event |-> Absent]
Names(epb) == {e \in Event : epb[e] # Absent}

Init ==
    /\ events = NoEpb
    /\ active = FALSE /\ latest = "none"
    /\ listening = TRUE /\ socket = "open"
    /\ change = [c \in Change |-> "new"]
    /\ closing = "no"
    /\ requests = <<>> /\ replies = <<>> /\ notices = <<>> /\ armed = <<>>
    /\ posted = [e \in Event |-> 1]
    /\ refused = FALSE

-----------------------------------------------------------------------------
Request(op, by, epb) == [op |-> op, by |-> by, epb |-> epb]

Answer(c, how) == change' = [change EXCEPT ![c] = how]

\* Mutant: the caller is not told that there was nothing to subscribe to.
SubscribeSilently(c, names) ==
    IF Names(names) = {}
    THEN active' = FALSE /\ Answer(c, "asked") /\ UNCHANGED requests
    ELSE /\ active' = TRUE /\ Answer(c, "asked")
         /\ requests' = Append(requests, Request("que", c, names))

\* Mutant: the subscription counts only when it is confirmed.
SubscribeFirst(c, names) ==
    IF Names(names) = {}
    THEN active' = FALSE /\ Answer(c, "ok") /\ UNCHANGED requests
    ELSE /\ active' = FALSE /\ Answer(c, "asked")
         /\ requests' = Append(requests, Request("que", c, names))

(* subscribe(): an empty set of names is not sent; otherwise the           *)
(* subscription counts as active before it is sent.                        *)
Subscribe(c, names) ==
    IF Names(names) = {}
    THEN active' = FALSE /\ Answer(c, "ok") /\ UNCHANGED requests
    ELSE /\ active' = TRUE /\ Answer(c, "asked")
         /\ requests' = Append(requests, Request("que", c, names))

(* _changeEvent(): an active subscription is cancelled first.              *)
ChangeEvent(c) ==
    /\ latest' = c
    /\ IF active
       THEN /\ requests' = Append(requests, Request("cancel", c, NoEpb))
            /\ Answer(c, "asked") /\ UNCHANGED active
       ELSE Subscribe(c, events')

Registered(e) == IF events[e] = Absent THEN 0 ELSE events[e]

Refuse(c) ==
    /\ socket = "closed"
    /\ Answer(c, "failed")
    /\ UNCHANGED <<events, active, latest, requests>>

RegisterEvent(c, names) ==
    /\ change[c] = "new"
    /\ \/ Refuse(c)
       \/ /\ socket # "closed"
          /\ events' = [e \in Event |-> IF e \in names THEN Registered(e) ELSE events[e]]
          /\ ChangeEvent(c)
    /\ UNCHANGED <<listening, socket, closing, replies, notices, server>>

UnregisterEvent(c, names) ==
    /\ change[c] = "new"
    /\ \/ Refuse(c)
       \/ /\ socket # "closed"
          /\ events' = [e \in Event |-> IF e \in names THEN Absent ELSE events[e]]
          /\ ChangeEvent(c)
    /\ UNCHANGED <<listening, socket, closing, replies, notices, server>>

-----------------------------------------------------------------------------
(* op_event on the event socket: the counts of the names still registered  *)
(* are kept, changed ones are emitted, and loop() subscribes again.        *)
\* Mutant: loop() does not subscribe again.
RenewsNever(names) == FALSE
Renews(names) == listening /\ active /\ Names(names) # {}

OpEvent ==
    /\ notices # <<>>
    /\ LET m == Head(notices)
       IN  events' = [e \in Event |->
              IF e \in Names(m) /\ events[e] # Absent THEN m[e] ELSE events[e]]
    /\ notices' = Tail(notices)
    /\ requests' = IF Renews(events')
                   THEN Append(requests, Request("que", "loop", events'))
                   ELSE requests
    /\ UNCHANGED <<active, latest, listening, socket, change, closing, replies, server>>

(* The answer to closeEvents.                                              *)
Cancelled(r) ==
    \/ /\ r.ok /\ r.by \in Change /\ Subscribe(r.by, events)
       /\ UNCHANGED <<socket, closing>>
    \/ /\ ~r.ok /\ r.by \in Change /\ Answer(r.by, "failed")
       /\ UNCHANGED <<active, requests, socket, closing>>
    \/ /\ r.ok /\ r.by = "close" /\ active' = FALSE
       /\ IF socket = "open" THEN socket' = "ending" /\ UNCHANGED closing
          ELSE closing' = "done" /\ UNCHANGED socket
       /\ UNCHANGED <<requests, change>>
    \/ /\ ~r.ok /\ r.by = "close" /\ closing' = "failed"
       /\ UNCHANGED <<active, requests, change, socket>>

Latest(c) == latest = c

(* The answer to queEvents.                                                *)
Queued(r) ==
    /\ IF r.by \in Change THEN Answer(r.by, IF r.ok THEN "ok" ELSE "failed")
       ELSE UNCHANGED change
    /\ active' = IF ~r.ok /\ r.by \in Change /\ Latest(r.by) THEN FALSE ELSE active
    /\ UNCHANGED <<requests, socket, closing>>

Reply ==
    /\ replies # <<>> /\ replies' = Tail(replies)
    /\ LET r == Head(replies)
       IN  \/ r.op = "cancel" /\ Cancelled(r)
           \/ r.op = "que" /\ Queued(r)
    /\ UNCHANGED <<events, latest, listening, notices, server>>

-----------------------------------------------------------------------------
(* close(): no more loop(); cancel what is active, then end the socket and *)
(* wait for its close or for 200 ms.                                       *)
End ==
    IF socket = "open" THEN socket' = "ending" /\ closing' = "asked"
    ELSE closing' = "done" /\ UNCHANGED socket

Close ==
    /\ closing = "no" /\ listening' = FALSE
    /\ \/ ~active /\ End /\ UNCHANGED requests
       \/ /\ active /\ closing' = "asked" /\ UNCHANGED socket
          /\ requests' = Append(requests, Request("cancel", "close", NoEpb))
    /\ UNCHANGED <<events, active, latest, change, replies, notices, server>>

SafetyTimer == socket = "ending" /\ closing = "asked"

CloseTimer ==
    /\ SafetyTimer /\ closing' = "done"
    /\ UNCHANGED <<events, active, latest, listening, socket, change,
                   requests, replies, notices, server>>

SocketCloses ==
    /\ socket = "ending" \/ (socket = "open" /\ "lost" \in Faults)
    /\ socket' = "closed" /\ notices' = <<>>
    /\ closing' = IF socket = "ending" THEN "done" ELSE closing
    /\ UNCHANGED <<events, active, latest, listening, change,
                   requests, replies, server>>

-----------------------------------------------------------------------------
(* The server.  op_cancel_events ends the oldest EPB with the event id.    *)
Reaction(r, ok) == [op |-> r.op, by |-> r.by, ok |-> ok]

ServerHandles ==
    /\ requests # <<>> /\ requests' = Tail(requests)
    /\ LET r == Head(requests)
       IN  \/ /\ replies' = Append(replies, Reaction(r, TRUE))
              /\ armed' = CASE r.op = "que" -> Append(armed, r.epb)
                            [] r.op = "cancel" /\ armed = <<>> -> armed
                            [] OTHER -> Tail(armed)
              /\ UNCHANGED refused
           \/ /\ "refused" \in Faults /\ ~refused /\ refused' = TRUE
              /\ replies' = Append(replies, Reaction(r, FALSE))
              /\ UNCHANGED armed
    /\ UNCHANGED <<client, notices, posted>>

ServerFires ==
    /\ \E i \in DOMAIN armed :
          /\ \E e \in Names(armed[i]) : posted[e] # armed[i][e]
          /\ armed' = RemoveAt(armed, i)
          /\ notices' = IF socket = "closed" THEN notices
                        ELSE Append(notices, [e \in Event |->
                            IF e \in Names(armed[i]) THEN posted[e] ELSE Absent])
    /\ UNCHANGED <<client, requests, replies, posted, refused>>

Post(e) ==
    /\ posted[e] < MaxPosts
    /\ posted' = [posted EXCEPT ![e] = @ + 1]
    /\ UNCHANGED <<client, requests, replies, notices, armed, refused>>

-----------------------------------------------------------------------------
Next ==
    \/ \E c \in Change, names \in SUBSET Event \ {{}} :
          RegisterEvent(c, names) \/ UnregisterEvent(c, names)
    \/ OpEvent \/ Reply
    \/ Close \/ CloseTimer \/ SocketCloses
    \/ ServerHandles \/ ServerFires
    \/ \E e \in Event : Post(e)

Spec == Init /\ [][Next]_vars

(* The server and the two connections go on, the timer of close() fires;   *)
(* a server need not close its end of the event socket.                    *)
FairSpec ==
    /\ Spec
    /\ WF_vars(OpEvent) /\ WF_vars(Reply) /\ WF_vars(CloseTimer)
    /\ WF_vars(ServerHandles) /\ WF_vars(ServerFires)

-----------------------------------------------------------------------------
Epb == [Event -> Nat \cup {Absent}]
By == Change \cup {"loop", "close"}

(* The types of the variables.                                             *)
TypeOK ==
    /\ events \in Epb /\ active \in BOOLEAN /\ latest \in Change \cup {"none"}
    /\ listening \in BOOLEAN /\ socket \in {"open", "ending", "closed"}
    /\ change \in [Change -> {"new", "asked", "ok", "failed"}]
    /\ closing \in {"no", "asked", "done", "failed"}
    /\ requests \in Seq([op : {"que", "cancel"}, by : By, epb : Epb])
    /\ replies \in Seq([op : {"que", "cancel"}, by : By, ok : BOOLEAN])
    /\ notices \in Seq(Epb) /\ armed \in Seq(Epb)
    /\ posted \in [Event -> Nat] /\ refused \in BOOLEAN

(* A subscription the server keeps is known to be active, so that the next *)
(* change and close() will cancel it: until close() meets a change that is *)
(* still on its way.                                                       *)
KnownActive ==
    armed # <<>> /\ Names(events) # {} /\ closing = "no" /\ ~refused => active

(* Every call of registerEvent and unregisterEvent is answered.            *)
EveryChangeAnswered ==
    \A c \in Change : change[c] = "asked" ~> change[c] \in {"ok", "failed"}

(* What is posted while its name is registered is noticed, however often   *)
(* the subscription is cancelled and renewed meanwhile.                    *)
EveryPostNoticed ==
    \A e \in Event : events[e] # Absent ~>
        \/ events[e] = posted[e] \/ events[e] = Absent
        \/ ~listening \/ socket # "open" \/ refused
=============================================================================
