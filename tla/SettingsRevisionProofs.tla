----------------------- MODULE SettingsRevisionProofs -----------------------
(***************************************************************************)
(* Theorems about SettingsRevision for any set of clients and of edits.    *)
(***************************************************************************)
EXTENDS SettingsRevision, TLAPS

\* The operations of a client and the answers of the monitor.
Ops     == [kind : {"none", "save", "pause", "refused", "refresh", "repause"},
            edit : Edits \cup {NoEdit}, attempt : 0..2, was : BOOLEAN]
Replies == {NoReply, [result |-> "http"]}
           \cup [result : {"success", "conflict"}, content : Contents, paused : BOOLEAN]
Begun   == [request : Requests, content : Contents, paused : BOOLEAN]

\* The types, with those of the records that TypeOK leaves open.
ServerOK ==
    /\ content \in Contents /\ paused \in BOOLEAN
    /\ queue \in Seq(Requests) /\ Len(queue) <= MaxQueue
    /\ serving \subseteq Begun
    /\ faults \in 0..MaxFaults

ClientsOK ==
    /\ made \subseteq Edits
    /\ latest \in [Clients -> Bodies]
    /\ shown \in [Clients -> BOOLEAN]
    /\ pc \in [Clients -> {"idle", "wait", "read"}]
    /\ op \in [Clients -> Ops]
    /\ reply \in [Clients -> Replies]
    /\ blocked \in [Clients -> SUBSET {"save", "pause"}]
    /\ \A c \in Clients : /\ pc[c] = "idle" <=> op[c] = Idle
                          /\ reply[c] # NoReply => pc[c] = "wait"

StateOK == ServerOK /\ ClientsOK

\* One mutation is in progress at a time, and nobody else has changed the
\* document it has read.
OneTurn ==
    /\ \A m, n \in serving : m = n
    /\ \A m \in serving : m.content = content /\ m.paused = paused

\* The mutations the monitor has, and the documents that it holds or has answered
\* with.
Held == {queue[i] : i \in 1..Len(queue)} \cup {m.request : m \in serving}
Docs == {content} \cup {reply[c].content : c \in {d \in Clients :
                                              reply[d].result \in {"success", "conflict"}}}

\* A client waits for one mutation, which has not been answered.
LiveOnce ==
    /\ \A r \in Held : r.live => pc[r.client] = "wait" /\ reply[r.client] = NoReply
    /\ \A i, j \in 1..Len(queue) :
          queue[i].live /\ queue[j].live /\ queue[i].client = queue[j].client => i = j
    /\ \A i \in 1..Len(queue), m \in serving :
          queue[i].live /\ m.request.live => queue[i].client # m.request.client

\* No edit is in a document twice, or before it is made.
Plain(f, known)  == \A e \in Edits : f[e] <= 1 /\ (e \notin known => f[e] = 0)
BodyOK(b, known) == /\ Plain(b.content, known) /\ Plain(b.rev, known)
                    /\ \A e \in Edits : b.rev[e] <= b.content[e]

\* A functional edit is under way, and no answer says that it was or may have
\* been applied.
Unapplied(c, e) ==
    /\ op[c].kind = "save" /\ op[c].attempt = 1 /\ op[c].edit = e
    /\ pc[c] = "wait" /\ reply[c].result \in {"none", "conflict"}

\* Then it is nowhere but in the mutation that waits for this answer.
Elsewhere(c, e) ==
    /\ \A f \in Docs : f[e] = 0
    /\ \A d \in Clients : latest[d].content[e] = 0
    /\ \A r \in Held : r.kind = "save" /\ ~(r.client = c /\ r.live)
                          => r.body.content[e] = 0

AppliedOnce ==
    /\ \A f \in Docs : Plain(f, made)
    /\ \A c \in Clients : BodyOK(latest[c], made)
    /\ \A r \in Held : r.kind = "save" => BodyOK(r.body, made)
    /\ \A c \in Clients : op[c].edit \in made \cup {NoEdit}
    /\ \A c, d \in Clients : op[c].edit = op[d].edit /\ op[c].edit # NoEdit => c = d
    /\ \A c \in Clients, e \in Edits : Unapplied(c, e) => Elsewhere(c, e)

IInv == StateOK /\ OneTurn /\ LiveOnce /\ AppliedOnce

-----------------------------------------------------------------------------
(***************************************************************************)
(* What is done to the queue, to requests and to documents.                *)
(***************************************************************************)
\* The monitor holds requests.
LEMMA HeldType ==
    ASSUME StateOK
    PROVE  /\ Held \subseteq Requests
           /\ \A i \in 1..Len(queue) : queue[i] \in Requests /\ queue[i] \in Held
           /\ \A m \in serving : m \in Begun /\ m.request \in Requests /\ m.request \in Held
  <1>1. \A i \in 1..Len(queue) : queue[i] \in Requests
    BY DEF StateOK, ServerOK, ClientsOK
  <1>2. \A m \in serving : m \in Begun /\ m.request \in Requests
    BY DEF StateOK, ServerOK, ClientsOK, Begun
  <1> QED
    BY <1>1, <1>2 DEF Held

\* The place behind the last mutation is free.
LEMMA LenType ==
    ASSUME StateOK
    PROVE  Len(queue) \in Nat /\ Len(queue) + 1 \notin 1..Len(queue)
  BY DEF StateOK, ServerOK, ClientsOK

\* A request names its client, and a save carries a body.
LEMMA RequestType ==
    ASSUME NEW r \in Requests
    PROVE  /\ r.client \in Clients /\ r.live \in BOOLEAN /\ r.kind \in {"save", "pause"}
           /\ r.kind = "save" => r.body \in Bodies
           /\ r.kind = "pause" => r.body \in BOOLEAN
  BY DEF Requests

\* A request of a client that has given up on it.
Forsaken(r, c) == IF r.client = c THEN [r EXCEPT !.live = FALSE] ELSE r

\* It differs in nothing else.
LEMMA ForsakenType ==
    ASSUME NEW r \in Requests, NEW c
    PROVE  /\ Forsaken(r, c) \in Requests
           /\ Forsaken(r, c).client = r.client /\ Forsaken(r, c).kind = r.kind
           /\ Forsaken(r, c).body = r.body
           /\ Forsaken(r, c).live => r.live /\ r.client # c
           /\ r.client # c => Forsaken(r, c) = r
  <1>1. CASE r \in [client : Clients, live : BOOLEAN, kind : {"save"}, body : Bodies]
    BY <1>1 DEF Forsaken, Requests
  <1>2. CASE r \in [client : Clients, live : BOOLEAN, kind : {"pause"}, body : BOOLEAN]
    BY <1>2 DEF Forsaken, Requests
  <1> QED
    BY <1>1, <1>2 DEF Requests

\* A document with one more edit in it.
LEMMA AppliedType ==
    ASSUME NEW f \in Contents, NEW e \in Edits \cup {NoEdit}, e \in Edits => f[e] <= 1
    PROVE  /\ Applied(f, e) \in Contents
           /\ \A d \in Edits : Applied(f, e)[d] = IF d = e THEN f[d] + 1 ELSE f[d]
  <1>1. CASE e = NoEdit
    BY <1>1, SettingsAssumption DEF Applied
  <1>2. CASE e \in Edits
    BY <1>2, SettingsAssumption DEF Applied, Contents
  <1> QED
    BY <1>1, <1>2

\* A body with one more edit in it.
LEMMA EditedType ==
    ASSUME NEW b \in Bodies, NEW e \in Edits \cup {NoEdit}, e \in Edits => b.content[e] <= 1
    PROVE  /\ Edited(b, e) \in Bodies
           /\ Edited(b, e).content = Applied(b.content, e) /\ Edited(b, e).rev = b.rev
  BY AppliedType DEF Edited, Bodies

\* The turn of the oldest mutation.
LEMMA BeginEffect ==
    ASSUME StateOK, Begin
    PROVE  /\ Held' = Held
           /\ queue' \in Seq(Requests) /\ Len(queue') = Len(queue) - 1
           /\ \A i \in 1..Len(queue') : i + 1 \in 1..Len(queue) /\ queue'[i] = queue[i + 1]
           /\ 1 \in 1..Len(queue) /\ serving = {}
           /\ serving' = {[request |-> queue[1], content |-> content, paused |-> paused]}
  <1>1. /\ queue \in Seq(Requests) /\ queue # <<>> /\ queue' = Tail(queue) /\ serving = {}
        /\ serving' = {[request |-> queue[1], content |-> content, paused |-> paused]}
    BY DEF StateOK, ServerOK, ClientsOK, Begin, Turn
  <1>2. /\ queue' \in Seq(Requests) /\ Len(queue') = Len(queue) - 1 /\ 1 \in 1..Len(queue)
        /\ \A i \in 1..Len(queue') : i + 1 \in 1..Len(queue) /\ queue'[i] = queue[i + 1]
    BY <1>1
  <1>3. Held' \subseteq Held
    BY <1>1, <1>2 DEF Held
  <1>4. ASSUME NEW i \in 1..Len(queue) PROVE queue[i] \in Held'
    <2>1. CASE i = 1
      BY <1>1, <2>1 DEF Held
    <2>2. CASE i # 1
      <3>1. i - 1 \in 1..Len(queue') /\ queue'[i - 1] = queue[i]
        BY <1>1, <1>2, <2>2
      <3> QED
        BY <3>1 DEF Held
    <2> QED
      BY <2>1, <2>2
  <1>5. Held \subseteq Held'
    BY <1>1, <1>4 DEF Held
  <1> QED
    BY <1>1, <1>2, <1>3, <1>5

\* A mutation that is answered is no longer held.
LEMMA RespondEffect ==
    ASSUME StateOK, OneTurn, NEW m \in serving, NEW r, Respond(m, r)
    PROVE  /\ serving' = {} /\ queue' = queue
           /\ Held' \subseteq Held /\ m.request \in Held
           /\ \A c \in Clients : reply'[c] = IF m.request.live /\ m.request.client = c
                                             THEN r ELSE reply[c]
  <1>1. serving' = {} /\ queue' = queue
    BY DEF OneTurn, Respond
  <1>2. Held' \subseteq Held /\ m.request \in Held
    BY <1>1, HeldType DEF Held
  <1>3. \A c \in Clients : reply'[c] = IF m.request.live /\ m.request.client = c
                                       THEN r ELSE reply[c]
    BY DEF Respond, StateOK, ServerOK, ClientsOK
  <1> QED
    BY <1>1, <1>2, <1>3

\* The mutation that a client sends.
Sent(c, kind, body) == [client |-> c, live |-> TRUE, kind |-> kind, body |-> body]

\* It goes to the end of the queue, or is lost.
LEMMA DispatchEffect ==
    ASSUME StateOK, NEW c \in Clients, NEW kind, NEW body, Dispatch(c, kind, body),
           Sent(c, kind, body) \in Requests
    PROVE  /\ queue' \in Seq(Requests) /\ Len(queue') <= MaxQueue
           /\ \A i \in 1..Len(queue') :
                 \/ i \in 1..Len(queue) /\ queue'[i] = queue[i]
                 \/ i = Len(queue) + 1 /\ queue'[i] = Sent(c, kind, body)
           /\ Held' \subseteq Held \cup {Sent(c, kind, body)}
           /\ UNCHANGED <<content, paused, serving, faults>>
           /\ reply' = [reply EXCEPT ![c] = NoReply] /\ pc' = [pc EXCEPT ![c] = "wait"]
  <1>1. /\ UNCHANGED <<content, paused, serving, faults>>
        /\ reply' = [reply EXCEPT ![c] = NoReply] /\ pc' = [pc EXCEPT ![c] = "wait"]
    BY DEF Dispatch
  <1>2. \/ Len(queue) < MaxQueue /\ queue' = Append(queue, Sent(c, kind, body))
        \/ queue' = queue
    BY DEF Dispatch, Sent
  <1>3. /\ queue' \in Seq(Requests) /\ Len(queue') <= MaxQueue
        /\ \A i \in 1..Len(queue') :
              \/ i \in 1..Len(queue) /\ queue'[i] = queue[i]
              \/ i = Len(queue) + 1 /\ queue'[i] = Sent(c, kind, body)
    <2>1. queue \in Seq(Requests) /\ Len(queue) <= MaxQueue /\ Len(queue) \in Nat
      BY DEF StateOK, ServerOK, ClientsOK
    <2>2. CASE Len(queue) < MaxQueue /\ queue' = Append(queue, Sent(c, kind, body))
      <3>1. Len(queue') = Len(queue) + 1 /\ queue' \in Seq(Requests)
        BY <2>1, <2>2
      <3>2. \A i \in 1..Len(queue') :
               \/ i \in 1..Len(queue) /\ queue'[i] = queue[i]
               \/ i = Len(queue) + 1 /\ queue'[i] = Sent(c, kind, body)
        BY <2>1, <2>2
      <3> QED
        BY <2>1, <2>2, <3>1, <3>2, SettingsAssumption
    <2> QED
      BY <1>2, <2>1, <2>2
  <1>4. Held' \subseteq Held \cup {Sent(c, kind, body)}
    BY <1>1, <1>3 DEF Held
  <1> QED
    BY <1>1, <1>3, <1>4

\* The client's requests stay where they are, without a client.
LEMMA ForsakeEffect ==
    ASSUME StateOK, NEW c \in Clients, Forsake(c)
    PROVE  /\ queue' \in Seq(Requests) /\ Len(queue') = Len(queue)
           /\ \A i \in 1..Len(queue') : queue'[i] = Forsaken(queue[i], c)
           /\ serving' \subseteq Begun
           /\ \A n \in serving' : \E m \in serving :
                 /\ n.request = Forsaken(m.request, c)
                 /\ n.content = m.content /\ n.paused = m.paused
                 /\ n = IF m.request.client = c THEN [m EXCEPT !.request.live = FALSE] ELSE m
           /\ \A q \in Held' : \E r \in Held : q = Forsaken(r, c)
  <1>1. /\ queue' = [i \in 1..Len(queue) |-> Forsaken(queue[i], c)]
        /\ Len(queue) \in Nat
    BY DEF Forsake, Forsaken, StateOK, ServerOK, ClientsOK
  <1>2. /\ queue' \in Seq(Requests) /\ Len(queue') = Len(queue)
        /\ \A i \in 1..Len(queue') : queue'[i] = Forsaken(queue[i], c)
    <2>1. \A i \in 1..Len(queue) : Forsaken(queue[i], c) \in Requests
      BY HeldType, ForsakenType
    <2> QED
      BY <1>1, <2>1
  <1>3. ASSUME NEW m \in serving, NEW n,
               n = IF m.request.client = c THEN [m EXCEPT !.request.live = FALSE] ELSE m
        PROVE  /\ n.request = Forsaken(m.request, c)
               /\ n.content = m.content /\ n.paused = m.paused /\ n \in Begun
    <2>1. m \in Begun /\ m.request \in Requests
      BY HeldType
    <2>2. Forsaken(m.request, c) \in Requests
      BY <2>1, ForsakenType
    <2>3. /\ n.request = Forsaken(m.request, c)
          /\ n.content = m.content /\ n.paused = m.paused
          /\ n = [request |-> Forsaken(m.request, c), content |-> m.content,
                  paused |-> m.paused]
      BY <1>3, <2>1 DEF Begun, Forsaken
    <2> QED
      BY <2>1, <2>2, <2>3 DEF Begun
  <1>4. \A n \in serving' : \E m \in serving :
           n = IF m.request.client = c THEN [m EXCEPT !.request.live = FALSE] ELSE m
    BY DEF Forsake
  <1>5. \A q \in Held' : \E r \in Held : q = Forsaken(r, c)
    BY <1>2, <1>3, <1>4, HeldType DEF Held
  <1>6. serving' \subseteq Begun
    BY <1>3, <1>4
  <1> QED
    BY <1>2, <1>3, <1>4, <1>5, <1>6

\* What a client sends is a request.
LEMMA SentType ==
    ASSUME NEW c \in Clients
    PROVE  /\ \A b \in Bodies : Sent(c, "save", b) \in Requests
           /\ \A p \in BOOLEAN : Sent(c, "pause", p) \in Requests
           /\ \A k, b : Sent(c, k, b).client = c /\ Sent(c, k, b).live = TRUE
                        /\ Sent(c, k, b).kind = k /\ Sent(c, k, b).body = b
  BY DEF Sent, Requests

\* The end of an operation leaves the client nothing to wait for.
LEMMA EndsEffect ==
    ASSUME StateOK, NEW c \in Clients, Ends(c)
    PROVE  /\ pc' \in [Clients -> {"idle", "wait", "read"}]
           /\ op' \in [Clients -> Ops] /\ reply' \in [Clients -> Replies]
           /\ pc'[c] = "idle" /\ op'[c] = Idle /\ reply'[c] = NoReply
           /\ \A d \in Clients \ {c} :
                 pc'[d] = pc[d] /\ op'[d] = op[d] /\ reply'[d] = reply[d]
  BY DEF StateOK, ServerOK, ClientsOK, Ends, Ops, Replies, Idle

-----------------------------------------------------------------------------
(***************************************************************************)
(* One turn, and one answer to wait for.                                   *)
(***************************************************************************)
\* No request of the client will be answered.
NoLive(c) == \A r \in Held : r.live => r.client # c

\* A client that does not await an answer, or has one, has no live request.
LEMMA NotWaiting ==
    ASSUME StateOK, LiveOnce, NEW c \in Clients, pc[c] # "wait" \/ reply[c] # NoReply
    PROVE  NoLive(c)
  BY DEF LiveOnce, NoLive

\* The monitor is not reached, and the client waits for nothing.
LEMMA LiveUnreached ==
    ASSUME StateOK, LiveOnce, NEW c \in Clients, NoLive(c), UNCHANGED <<queue, serving>>,
           \A d \in Clients \ {c} : pc'[d] = pc[d] /\ reply'[d] = reply[d]
    PROVE  LiveOnce'
  <1>1. Held' = Held
    BY DEF Held
  <1>2. \A r \in Held : r.client \in Clients
    BY HeldType, RequestType
  <1> QED
    BY <1>1, <1>2 DEF LiveOnce, NoLive

\* The client sends a mutation.
LEMMA LiveDispatch ==
    ASSUME StateOK, LiveOnce, NEW c \in Clients, NoLive(c), NEW kind, NEW body,
           Dispatch(c, kind, body), Sent(c, kind, body) \in Requests
    PROVE  LiveOnce'
  <1>1. /\ \A i \in 1..Len(queue') :
              \/ i \in 1..Len(queue) /\ queue'[i] = queue[i]
              \/ i = Len(queue) + 1 /\ queue'[i] = Sent(c, kind, body)
        /\ Held' \subseteq Held \cup {Sent(c, kind, body)}
        /\ serving' = serving
        /\ reply' = [reply EXCEPT ![c] = NoReply] /\ pc' = [pc EXCEPT ![c] = "wait"]
    BY DispatchEffect
  <1>2. pc'[c] = "wait" /\ reply'[c] = NoReply
    BY <1>1 DEF StateOK, ServerOK, ClientsOK
  <1>3. \A d \in Clients \ {c} : pc'[d] = pc[d] /\ reply'[d] = reply[d]
    BY <1>1 DEF StateOK, ServerOK, ClientsOK
  <1>4. \A r \in Held : r.client \in Clients
    BY HeldType, RequestType
  <1>5. \A r \in Held' : r.live => pc'[r.client] = "wait" /\ reply'[r.client] = NoReply
    <2>1. ASSUME NEW r \in Held, r.live
          PROVE  pc'[r.client] = "wait" /\ reply'[r.client] = NoReply
      BY <1>3, <1>4, <2>1 DEF LiveOnce, NoLive
    <2>2. Sent(c, kind, body).client = c
      BY DEF Sent
    <2> QED
      BY <1>1, <1>2, <2>1, <2>2
  <1>6. \A i \in 1..Len(queue) : queue[i].live => queue[i].client # c
    BY HeldType DEF NoLive
  <1>7. ASSUME NEW i \in 1..Len(queue'), NEW j \in 1..Len(queue'),
               queue'[i].live, queue'[j].live, queue'[i].client = queue'[j].client
        PROVE  i = j
    <2>1. Sent(c, kind, body).client = c
      BY DEF Sent
    <2>2. CASE i \in 1..Len(queue) /\ j \in 1..Len(queue)
      BY <1>1, <1>7, <2>2, LenType DEF LiveOnce
    <2>3. CASE i = Len(queue) + 1 \/ j = Len(queue) + 1
      BY <1>1, <1>6, <1>7, <2>1, <2>3, LenType
    <2> QED
      BY <1>1, <2>2, <2>3
  <1>8. ASSUME NEW i \in 1..Len(queue'), NEW m \in serving',
               queue'[i].live, m.request.live
        PROVE  queue'[i].client # m.request.client
    <2>1. Sent(c, kind, body).client = c
      BY DEF Sent
    <2>2. CASE i \in 1..Len(queue)
      BY <1>1, <1>8, <2>2, LenType DEF LiveOnce
    <2>3. CASE i = Len(queue) + 1
      BY <1>1, <1>8, <2>1, <2>3, HeldType, LenType DEF NoLive
    <2> QED
      BY <1>1, <2>2, <2>3
  <1> QED
    BY <1>5, <1>7, <1>8 DEF LiveOnce

\* The client gives up on what it has sent.
LEMMA LiveForsake ==
    ASSUME StateOK, LiveOnce, NEW c \in Clients, Forsake(c),
           \A d \in Clients \ {c} : pc'[d] = pc[d] /\ reply'[d] = reply[d]
    PROVE  LiveOnce'
  <1>1. /\ Len(queue') = Len(queue)
        /\ \A i \in 1..Len(queue') : queue'[i] = Forsaken(queue[i], c)
        /\ \A n \in serving' : \E m \in serving : n.request = Forsaken(m.request, c)
        /\ \A q \in Held' : \E r \in Held : q = Forsaken(r, c)
    BY ForsakeEffect
  <1>2. \A r \in Held : r \in Requests /\ r.client \in Clients
    BY HeldType, RequestType
  <1>3. \A r \in Held' : r.live => pc'[r.client] = "wait" /\ reply'[r.client] = NoReply
    BY <1>1, <1>2, ForsakenType DEF LiveOnce
  <1>4. ASSUME NEW i \in 1..Len(queue'), NEW j \in 1..Len(queue'),
               queue'[i].live, queue'[j].live, queue'[i].client = queue'[j].client
        PROVE  i = j
    <2>1. queue[i] \in Requests /\ queue[j] \in Requests
      BY <1>1, HeldType
    <2> QED
      BY <1>1, <1>4, <2>1, ForsakenType DEF LiveOnce
  <1>5. ASSUME NEW i \in 1..Len(queue'), NEW n \in serving',
               queue'[i].live, n.request.live
        PROVE  queue'[i].client # n.request.client
    <2>1. PICK m \in serving : n.request = Forsaken(m.request, c)
      BY <1>1
    <2>2. queue[i] \in Requests /\ m.request \in Requests
      BY <1>1, HeldType
    <2> QED
      BY <1>1, <1>5, <2>1, <2>2, ForsakenType DEF LiveOnce
  <1> QED
    BY <1>3, <1>4, <1>5 DEF LiveOnce

\* Nobody else's turn: what is in progress has still read the document as it is.
LEMMA TurnForsake ==
    ASSUME StateOK, OneTurn, NEW c \in Clients, Forsake(c)
    PROVE  OneTurn'
  <1>1. \A n \in serving' : \E m \in serving :
           /\ n.content = m.content /\ n.paused = m.paused
           /\ n = IF m.request.client = c THEN [m EXCEPT !.request.live = FALSE] ELSE m
    BY ForsakeEffect
  <1>2. UNCHANGED <<content, paused>>
    BY DEF Forsake
  <1> QED
    BY <1>1, <1>2 DEF OneTurn

\* A step that leaves the document and the mutations alone.
LEMMA TurnUnreached ==
    ASSUME OneTurn, UNCHANGED <<content, paused, serving>>
    PROVE  OneTurn'
  BY DEF OneTurn

-----------------------------------------------------------------------------
(***************************************************************************)
(* The edits after a step of a client.                                     *)
(***************************************************************************)
\* A body for which nobody else waits.
Fresh(b, c) ==
    BodyOK(b, made') /\ \A d \in Clients \ {c}, e \in Edits : Unapplied(d, e) => b.content[e] = 0

\* What the step must see to: the requests the monitor gets, the document the
\* client goes on with, and the edit it has under way.
LEMMA AppliedKept ==
    ASSUME StateOK, AppliedOnce, NEW c \in Clients,
           Docs' \subseteq Docs, made \subseteq made',
           \A d \in Clients \ {c} :
              latest'[d] = latest[d] /\ op'[d] = op[d] /\ pc'[d] = pc[d] /\ reply'[d] = reply[d],
           \A q \in Held' :
              \/ \E r \in Held : /\ q.kind = r.kind /\ q.body = r.body /\ q.client = r.client
                                 /\ r.live /\ r.client # c => q.live
              \/ q.kind = "save" => Fresh(q.body, c),
           Fresh(latest'[c], c),
           op'[c].edit \in made' \cup {NoEdit},
           \A d \in Clients \ {c} : op'[c].edit # NoEdit => op[d].edit # op'[c].edit,
           \A e \in Edits : Unapplied(c, e)' => Elsewhere(c, e)'
    PROVE  AppliedOnce'
  <1>1. \A f : Plain(f, made) => Plain(f, made')
    BY DEF Plain
  <1>2. \A b : BodyOK(b, made) => BodyOK(b, made')
    BY <1>1 DEF BodyOK
  <1>3. \A f \in Docs' : Plain(f, made')
    BY <1>1 DEF AppliedOnce
  <1>4. \A d \in Clients : BodyOK(latest'[d], made')
    BY <1>2 DEF AppliedOnce, Fresh
  <1>5. ASSUME NEW q \in Held', q.kind = "save" PROVE BodyOK(q.body, made')
    BY <1>2, <1>5 DEF AppliedOnce, Fresh
  <1>6. \A d \in Clients : op'[d].edit \in made' \cup {NoEdit}
    BY DEF AppliedOnce
  <1>7. \A d, g \in Clients : op'[d].edit = op'[g].edit /\ op'[d].edit # NoEdit => d = g
    BY DEF AppliedOnce
  <1>8. ASSUME NEW d \in Clients, NEW e \in Edits, Unapplied(d, e)', d # c
        PROVE  Elsewhere(d, e)'
    <2>1. Unapplied(d, e)
      BY <1>8 DEF Unapplied
    <2>2. Elsewhere(d, e)
      BY <2>1 DEF AppliedOnce
    <2>3. \A f \in Docs' : f[e] = 0
      BY <2>2 DEF Elsewhere
    <2>4. \A g \in Clients : latest'[g].content[e] = 0
      BY <1>8, <2>1, <2>2 DEF Elsewhere, Fresh
    <2>5. ASSUME NEW q \in Held', q.kind = "save", ~(q.client = d /\ q.live)
          PROVE  q.body.content[e] = 0
      BY <1>8, <2>1, <2>2, <2>5 DEF Elsewhere, Fresh
    <2> QED
      BY <2>3, <2>4, <2>5 DEF Elsewhere
  <1> QED
    BY <1>3, <1>4, <1>5, <1>6, <1>7, <1>8 DEF AppliedOnce

\* No answer is added to those a client has.
LEMMA DocsShrink ==
    ASSUME StateOK, NEW c \in Clients, UNCHANGED content,
           \A d \in Clients \ {c} : reply'[d] = reply[d],
           reply'[c] = reply[c] \/ reply'[c] = NoReply
    PROVE  Docs' \subseteq Docs
  BY DEF Docs, NoReply

\* The document the client has stays fresh.
LEMMA LatestFresh ==
    ASSUME StateOK, AppliedOnce, NEW c \in Clients, made \subseteq made'
    PROVE  Fresh(latest[c], c)
  <1>1. BodyOK(latest[c], made')
    BY DEF AppliedOnce, BodyOK, Plain
  <1> QED
    BY <1>1 DEF Fresh, AppliedOnce, Elsewhere

\* So is the document the client has, with an edit that nobody has made yet.
LEMMA NewEditFresh ==
    ASSUME IInv, NEW c \in Clients, NEW e \in Edits \ made, made' = made \cup {e}
    PROVE  /\ Edited(latest[c], e) \in Bodies /\ Fresh(Edited(latest[c], e), c)
           /\ Edited(latest[c], e).rev = latest[c].rev
           /\ \A d \in Edits \ {e} : Edited(latest[c], e).content[d] = latest[c].content[d]
  <1>1. /\ latest[c] \in Bodies /\ latest[c].content \in Contents
        /\ latest[c].rev \in Contents /\ BodyOK(latest[c], made)
    BY DEF IInv, StateOK, ClientsOK, AppliedOnce, Bodies
  <1>2. latest[c].content[e] = 0 /\ latest[c].rev[e] = 0
    BY <1>1 DEF BodyOK, Plain
  <1>3. /\ Edited(latest[c], e) \in Bodies
        /\ Edited(latest[c], e).content = Applied(latest[c].content, e)
        /\ Edited(latest[c], e).rev = latest[c].rev
    BY <1>1, <1>2, EditedType
  <1>4. \A d \in Edits : Edited(latest[c], e).content[d]
                            = IF d = e THEN 1 ELSE latest[c].content[d]
    BY <1>1, <1>2, <1>3, AppliedType
  <1>5. BodyOK(Edited(latest[c], e), made')
    BY <1>1, <1>2, <1>3, <1>4 DEF BodyOK, Plain, Contents
  <1>6. \A d \in Clients \ {c}, g \in Edits :
           Unapplied(d, g) => Edited(latest[c], e).content[g] = 0
    <2>1. ASSUME NEW d \in Clients, NEW g \in Edits, Unapplied(d, g)
          PROVE  g # e /\ latest[c].content[g] = 0
      BY <2>1, SettingsAssumption DEF IInv, AppliedOnce, Unapplied, Elsewhere
    <2> QED
      BY <1>4, <2>1
  <1> QED
    BY <1>3, <1>4, <1>5, <1>6 DEF Fresh

\* An idle client waits for nothing.
LEMMA IdleClient ==
    ASSUME IInv, NEW c \in Clients, pc[c] = "idle"
    PROVE  op[c] = Idle /\ reply[c] = NoReply /\ NoLive(c)
  <1>1. op[c] = Idle /\ reply[c] = NoReply
    BY DEF IInv, StateOK, ClientsOK
  <1>2. NoLive(c)
    BY NotWaiting DEF IInv
  <1> QED
    BY <1>1, <1>2

\* A new edit is in no document that anybody has.
LEMMA NewElsewhere ==
    ASSUME IInv, NEW c \in Clients, NEW e \in Edits \ made, Docs' \subseteq Docs,
           UNCHANGED latest, NEW kind, NEW body,
           \A q \in Held' : q \in Held \/ q = Sent(c, kind, body)
    PROVE  Elsewhere(c, e)'
  <1>1. \A f \in Docs' : f[e] = 0
    BY DEF IInv, AppliedOnce, Plain
  <1>2. \A d \in Clients : latest'[d].content[e] = 0
    BY DEF IInv, AppliedOnce, BodyOK, Plain
  <1>3. \A r \in Held : r.kind = "save" => r.body.content[e] = 0
    BY DEF IInv, AppliedOnce, BodyOK, Plain
  <1>4. Sent(c, kind, body).client = c /\ Sent(c, kind, body).live
    BY DEF Sent
  <1> QED
    BY <1>1, <1>2, <1>3, <1>4 DEF Elsewhere

-----------------------------------------------------------------------------
(***************************************************************************)
(* The steps of a client.                                                  *)
(***************************************************************************)
\* A step that does not reach the monitor, and after which the client has no edit
\* under way that it did not have.
LEMMA Unreached ==
    ASSUME IInv, NEW c \in Clients, UNCHANGED server, NoLive(c), made \subseteq made',
           ClientsOK',
           \A d \in Clients \ {c} :
              latest'[d] = latest[d] /\ op'[d] = op[d] /\ pc'[d] = pc[d] /\ reply'[d] = reply[d],
           reply'[c] = reply[c] \/ reply'[c] = NoReply,
           Fresh(latest'[c], c), pc'[c] # "wait",
           op'[c] = Idle \/ op'[c].edit = op[c].edit
    PROVE  IInv'
  <1>1. StateOK' /\ OneTurn'
    BY TurnUnreached DEF IInv, StateOK, ServerOK, server
  <1>2. LiveOnce'
    BY LiveUnreached DEF IInv, server
  <1>3. Docs' \subseteq Docs /\ Held' = Held
    BY DocsShrink DEF IInv, server, Held
  <1>4. op'[c].edit \in {NoEdit, op[c].edit}
    BY DEF Idle
  <1>5. /\ op'[c].edit \in made' \cup {NoEdit}
        /\ \A d \in Clients \ {c} : op'[c].edit # NoEdit => op[d].edit # op'[c].edit
    BY <1>4 DEF IInv, AppliedOnce
  <1>6. \A e \in Edits : ~Unapplied(c, e)'
    BY DEF Unapplied
  <1>7. AppliedOnce'
    BY <1>3, <1>5, <1>6, AppliedKept DEF IInv
  <1> QED
    BY <1>1, <1>2, <1>7 DEF IInv

\* A step that sends a mutation.
LEMMA Reached ==
    ASSUME IInv, NEW c \in Clients, NEW kind, NEW body, Dispatch(c, kind, body),
           Sent(c, kind, body) \in Requests, NoLive(c), made \subseteq made', ClientsOK',
           UNCHANGED latest,
           \A d \in Clients \ {c} : op'[d] = op[d],
           kind = "save" => Fresh(body, c),
           op'[c].edit \in made' \cup {NoEdit},
           \A d \in Clients \ {c} : op'[c].edit # NoEdit => op[d].edit # op'[c].edit,
           \A e \in Edits : Unapplied(c, e)' => e \notin made
    PROVE  IInv'
  <1>1. /\ queue' \in Seq(Requests) /\ Len(queue') <= MaxQueue
        /\ Held' \subseteq Held \cup {Sent(c, kind, body)}
        /\ UNCHANGED <<content, paused, serving, faults>>
        /\ reply' = [reply EXCEPT ![c] = NoReply] /\ pc' = [pc EXCEPT ![c] = "wait"]
    BY DispatchEffect DEF IInv
  <1>2. StateOK' /\ OneTurn'
    BY <1>1, TurnUnreached DEF IInv, StateOK, ServerOK
  <1>3. LiveOnce'
    BY LiveDispatch DEF IInv
  <1>4. /\ reply'[c] = NoReply
        /\ \A d \in Clients \ {c} : reply'[d] = reply[d] /\ pc'[d] = pc[d]
    BY <1>1 DEF IInv, StateOK, ClientsOK
  <1>5. Docs' \subseteq Docs
    BY <1>1, <1>4, DocsShrink DEF IInv
  <1>6. /\ Sent(c, kind, body).client = c /\ Sent(c, kind, body).live
        /\ Sent(c, kind, body).kind = kind /\ Sent(c, kind, body).body = body
    BY DEF Sent
  <1>7. ASSUME NEW e \in Edits, Unapplied(c, e)' PROVE Elsewhere(c, e)'
    <2>1. \A q \in Held' : q \in Held \/ q = Sent(c, kind, body)
      BY <1>1
    <2>2. e \in Edits \ made
      BY <1>7
    <2> QED
      BY <1>5, <2>1, <2>2, NewElsewhere
  <1>8. Fresh(latest'[c], c)
    BY LatestFresh DEF IInv
  <1>9. AppliedOnce'
    BY <1>1, <1>4, <1>5, <1>6, <1>7, <1>8, AppliedKept DEF IInv
  <1> QED
    BY <1>2, <1>3, <1>9 DEF IInv

\* The operation of a save, and of the others.
LEMMA OpsType ==
    /\ Idle \in Ops /\ Idle.edit = NoEdit
    /\ [Idle EXCEPT !.kind = "refresh"] \in Ops
    /\ [Idle EXCEPT !.kind = "repause"] \in Ops
    /\ \A e \in Edits \cup {NoEdit} :
          [kind |-> "save", edit |-> e, attempt |-> 1, was |-> FALSE] \in Ops
    /\ \A p \in BOOLEAN : [Idle EXCEPT !.kind = "pause", !.was = p] \in Ops
  <1>1. Idle \in Ops /\ Idle.edit = NoEdit
    BY DEF Idle, Ops
  <1>2. \A o \in Ops : /\ [o EXCEPT !.kind = "refresh"] \in Ops
                       /\ [o EXCEPT !.kind = "repause"] \in Ops
    BY DEF Ops
  <1>3. \A e \in Edits \cup {NoEdit} :
           [kind |-> "save", edit |-> e, attempt |-> 1, was |-> FALSE] \in Ops
    BY DEF Ops
  <1>4. ASSUME NEW o \in Ops, NEW p \in BOOLEAN
        PROVE  [o EXCEPT !.kind = "pause", !.was = p] \in Ops
    BY DEF Ops
  <1> QED
    BY <1>1, <1>2, <1>3, <1>4

\* persist, with the edit e on top of the latest document.
LEMMA PersistKeeps ==
    ASSUME IInv, NEW c \in Clients, NEW e \in Edits \cup {NoEdit}, Persist(c, e),
           e # NoEdit => e \notin made,
           made' = made \cup ({e} \ {NoEdit})
    PROVE  IInv'
  <1>1. op[c] = Idle /\ reply[c] = NoReply /\ NoLive(c) /\ pc[c] = "idle"
    BY IdleClient DEF Persist
  <1>2. made \subseteq made' /\ made' \subseteq Edits /\ UNCHANGED <<latest, shown, blocked>>
    BY DEF Persist, IInv, StateOK, ClientsOK
  <1>3. Fresh(latest'[c], c)
    BY <1>2, LatestFresh DEF IInv
  <1>4. CASE "save" \in blocked[c]
    <2>1. /\ op' = [op EXCEPT ![c] = [Idle EXCEPT !.kind = "refresh"]]
          /\ pc' = [pc EXCEPT ![c] = "read"]
          /\ UNCHANGED <<server, reply>>
      BY <1>4 DEF Persist
    <2>2. op'[c] = [Idle EXCEPT !.kind = "refresh"] /\ pc'[c] = "read"
      BY <2>1 DEF IInv, StateOK, ClientsOK
    <2>3. ClientsOK'
      BY <1>1, <1>2, <2>1, OpsType DEF IInv, StateOK, ClientsOK, Idle
    <2>4. \A d \in Clients \ {c} :
             latest'[d] = latest[d] /\ op'[d] = op[d] /\ pc'[d] = pc[d] /\ reply'[d] = reply[d]
      BY <1>2, <2>1 DEF IInv, StateOK, ClientsOK
    <2>5. op'[c].edit = op[c].edit
      BY <1>1, <2>2 DEF Idle
    <2> QED
      BY <1>1, <1>2, <1>3, <2>1, <2>2, <2>3, <2>4, <2>5, Unreached
  <1>5. CASE "save" \notin blocked[c]
    <2> DEFINE body == Edited(latest[c], e)
    <2>1. /\ op' = [op EXCEPT ![c] = [kind |-> "save", edit |-> e, attempt |-> 1,
                                      was |-> FALSE]]
          /\ Dispatch(c, "save", body)
      BY <1>5 DEF Persist
    <2>2. body \in Bodies /\ Fresh(body, c)
      <3>1. CASE e = NoEdit
        <4>1. latest[c] \in Bodies
          BY DEF IInv, StateOK, ClientsOK
        <4>2. body = latest[c]
          BY <3>1, <4>1 DEF Edited, Applied, Bodies
        <4> QED
          BY <1>2, <1>3, <4>1, <4>2
      <3>2. CASE e # NoEdit
        BY <3>2, NewEditFresh
      <3> QED
        BY <3>1, <3>2
    <2>3. op'[c].edit = e /\ \A d \in Clients \ {c} : op'[d] = op[d]
      BY <2>1 DEF IInv, StateOK, ClientsOK
    <2>4. Sent(c, "save", body) \in Requests
      BY <2>2, SentType
    <2>5. ClientsOK'
      <3>1. reply' = [reply EXCEPT ![c] = NoReply] /\ pc' = [pc EXCEPT ![c] = "wait"]
        BY <2>1 DEF Dispatch
      <3> QED
        BY <1>1, <1>2, <2>1, <3>1, OpsType DEF IInv, StateOK, ClientsOK, Idle, Replies
    <2>6. e \in made' \cup {NoEdit}
      OBVIOUS
    <2>7. \A d \in Clients \ {c} : e # NoEdit => op[d].edit # e
      BY DEF IInv, AppliedOnce
    <2>8. \A g \in Edits : Unapplied(c, g)' => g \notin made
      BY <2>3, SettingsAssumption DEF Unapplied
    <2> HIDE DEF body
    <2> QED
      BY <1>1, <1>2, <2>1, <2>2, <2>3, <2>4, <2>5, <2>6, <2>7, <2>8, Reached
  <1> QED
    BY <1>4, <1>5

\* A profile is edited.
LEMMA EditProfileKeeps ==
    ASSUME IInv, NEW c \in Clients, NEW e \in Edits, EditProfile(c, e)
    PROVE  IInv'
  <1>1. e # NoEdit /\ e \notin made /\ made' = made \cup ({e} \ {NoEdit}) /\ Persist(c, e)
    BY SettingsAssumption DEF EditProfile
  <1> QED
    BY <1>1, PersistKeeps

\* The form is saved.
LEMMA SaveFormKeeps ==
    ASSUME IInv, NEW c \in Clients, SaveForm(c)
    PROVE  IInv'
  <1>1. made' = made \cup ({NoEdit} \ {NoEdit}) /\ Persist(c, NoEdit)
    BY DEF SaveForm
  <1> QED
    BY <1>1, PersistKeeps

\* A field of the form is changed in place.
LEMMA EditFieldKeeps ==
    ASSUME IInv, NEW c \in Clients, NEW e \in Edits, EditField(c, e)
    PROVE  IInv'
  <1>1. /\ op[c].kind # "save" /\ e \in Edits \ made /\ made' = made \cup {e}
        /\ latest' = [latest EXCEPT ![c] = Edited(@, e)]
        /\ UNCHANGED <<content, paused, queue, serving, faults, shown, pc, op, reply, blocked>>
    BY DEF EditField, server
  <1>2. Edited(latest[c], e) \in Bodies /\ Fresh(Edited(latest[c], e), c)
    BY <1>1, NewEditFresh
  <1>3. latest'[c] = Edited(latest[c], e) /\ \A d \in Clients \ {c} : latest'[d] = latest[d]
    BY <1>1 DEF IInv, StateOK, ClientsOK
  <1>4. ClientsOK'
    BY <1>1, <1>2 DEF IInv, StateOK, ClientsOK
  <1>5. StateOK' /\ OneTurn'
    BY <1>1, <1>4 DEF IInv, StateOK, ServerOK, OneTurn
  <1>6. Held' = Held /\ Docs' = Docs
    BY <1>1 DEF Held, Docs
  <1>7. LiveOnce'
    BY <1>1, <1>6 DEF IInv, LiveOnce
  <1>8. \A g \in Edits : ~Unapplied(c, g)'
    BY <1>1 DEF Unapplied
  <1>9. /\ op'[c].edit \in made' \cup {NoEdit}
        /\ \A d \in Clients \ {c} : op'[c].edit # NoEdit => op[d].edit # op'[c].edit
    BY <1>1 DEF IInv, AppliedOnce
  <1>10. AppliedOnce'
    BY <1>1, <1>2, <1>3, <1>6, <1>8, <1>9, AppliedKept DEF IInv
  <1> QED
    BY <1>5, <1>7, <1>10 DEF IInv

\* The pause is toggled.
LEMMA ToggleKeeps ==
    ASSUME IInv, NEW c \in Clients, Toggle(c)
    PROVE  IInv'
  <1>1. /\ pc[c] = "idle" /\ UNCHANGED <<made, latest, blocked>>
        /\ shown[c] \in BOOLEAN /\ (~shown[c]) \in BOOLEAN
    BY DEF Toggle, IInv, StateOK, ClientsOK
  <1>2. op[c] = Idle /\ reply[c] = NoReply /\ NoLive(c)
    BY <1>1, IdleClient
  <1>3. CASE "pause" \in blocked[c]
    <2>1. /\ op' = [op EXCEPT ![c] = [Idle EXCEPT !.kind = "repause"]]
          /\ pc' = [pc EXCEPT ![c] = "read"]
          /\ UNCHANGED <<server, shown, reply>>
      BY <1>3 DEF Toggle
    <2>2. op'[c] = [Idle EXCEPT !.kind = "repause"] /\ pc'[c] = "read"
      BY <2>1 DEF IInv, StateOK, ClientsOK
    <2>3. ClientsOK'
      BY <1>1, <1>2, <2>1, OpsType DEF IInv, StateOK, ClientsOK, Idle
    <2>4. \A d \in Clients \ {c} :
             latest'[d] = latest[d] /\ op'[d] = op[d] /\ pc'[d] = pc[d] /\ reply'[d] = reply[d]
      BY <1>1, <2>1 DEF IInv, StateOK, ClientsOK
    <2>5. op'[c].edit = op[c].edit
      BY <1>2, <2>2 DEF Idle
    <2>6. Fresh(latest'[c], c) /\ made \subseteq made'
      BY <1>1, LatestFresh DEF IInv
    <2> QED
      BY <1>1, <1>2, <2>1, <2>2, <2>3, <2>4, <2>5, <2>6, Unreached
  <1>4. CASE "pause" \notin blocked[c]
    <2>1. /\ op' = [op EXCEPT ![c] = [Idle EXCEPT !.kind = "pause", !.was = shown[c]]]
          /\ shown' = [shown EXCEPT ![c] = ~@]
          /\ Dispatch(c, "pause", ~shown[c])
      BY <1>4 DEF Toggle
    <2>2. op'[c].edit = NoEdit /\ op'[c].kind = "pause"
          /\ \A d \in Clients \ {c} : op'[d] = op[d]
      BY <2>1 DEF IInv, StateOK, ClientsOK, Idle
    <2>3. Sent(c, "pause", ~shown[c]) \in Requests
      BY <1>1, SentType
    <2>4. ClientsOK'
      <3>1. reply' = [reply EXCEPT ![c] = NoReply] /\ pc' = [pc EXCEPT ![c] = "wait"]
        BY <2>1 DEF Dispatch
      <3>2. [Idle EXCEPT !.kind = "pause", !.was = shown[c]] \in Ops
        BY <1>1, OpsType
      <3>3. [Idle EXCEPT !.kind = "pause", !.was = shown[c]] # Idle
        BY DEF Idle
      <3>4. op' \in [Clients -> Ops] /\ reply' \in [Clients -> Replies]
            /\ pc' \in [Clients -> {"idle", "wait", "read"}]
        BY <2>1, <3>1, <3>2 DEF IInv, StateOK, ClientsOK, Replies
      <3>5. shown' \in [Clients -> BOOLEAN]
        BY <2>1 DEF IInv, StateOK, ClientsOK
      <3>6. \A d \in Clients : /\ pc'[d] = "idle" <=> op'[d] = Idle
                               /\ reply'[d] # NoReply => pc'[d] = "wait"
        BY <2>1, <3>1, <3>3 DEF IInv, StateOK, ClientsOK
      <3> QED
        BY <1>1, <3>4, <3>5, <3>6 DEF IInv, StateOK, ClientsOK
    <2>5. \A g \in Edits : ~Unapplied(c, g)'
      BY <2>2 DEF Unapplied
    <2> QED
      BY <1>1, <1>2, <2>1, <2>2, <2>3, <2>4, <2>5, Reached
  <1> QED
    BY <1>3, <1>4

\* A client that has an answer or reads waits for nothing.
LEMMA BusyClient ==
    ASSUME IInv, NEW c \in Clients, reply[c] # NoReply \/ pc[c] = "read"
    PROVE  NoLive(c) /\ (reply[c] # NoReply => pc[c] = "wait") /\ op[c] # Idle
  <1>1. (reply[c] # NoReply => pc[c] = "wait") /\ op[c] # Idle
    BY DEF IInv, StateOK, ClientsOK
  <1>2. NoLive(c)
    BY NotWaiting DEF IInv
  <1> QED
    BY <1>1, <1>2

\* An answer with a document.
LEMMA ReplyType ==
    ASSUME IInv, NEW c \in Clients, reply[c].result \in {"success", "conflict"}
    PROVE  /\ reply[c].content \in Contents /\ reply[c].paused \in BOOLEAN
           /\ reply[c].content \in Docs
  BY DEF IInv, StateOK, ClientsOK, Replies, NoReply, Docs

\* A document of the monitor, taken as the client's latest.
LEMMA DocFresh ==
    ASSUME IInv, NEW c \in Clients, NEW f \in Docs, f \in Contents, UNCHANGED made
    PROVE  /\ [content |-> f, rev |-> f] \in Bodies
           /\ Fresh([content |-> f, rev |-> f], c)
  <1>1. Plain(f, made')
    BY DEF IInv, AppliedOnce
  <1>2. \A e \in Edits : f[e] <= f[e]
    BY DEF Contents
  <1>3. BodyOK([content |-> f, rev |-> f], made')
    BY <1>1, <1>2 DEF BodyOK
  <1>4. \A d \in Clients \ {c}, e \in Edits : Unapplied(d, e) => f[e] = 0
    BY DEF IInv, AppliedOnce, Elsewhere
  <1> QED
    BY <1>3, <1>4 DEF Bodies, Fresh

\* The edit under way, on the document that came with the refusal.
LEMMA RebaseKeeps ==
    ASSUME IInv, NEW c \in Clients, reply[c] # NoReply, UNCHANGED made,
           MayRebase(c, reply[c].result), Rebase(c, reply[c])
    PROVE  IInv'
  <1> DEFINE e    == op[c].edit
             f    == reply[c].content
             body == [content |-> Applied(f, e), rev |-> f]
  <1>1. /\ op' = [op EXCEPT ![c].attempt = 2]
        /\ Dispatch(c, "save", body)
        /\ UNCHANGED <<latest, shown, blocked>>
    BY DEF Rebase
  <1>2. NoLive(c) /\ pc[c] = "wait" /\ op[c] # Idle
    BY BusyClient
  <1>3. op[c] \in Ops /\ op[c].kind = "save" /\ op[c].attempt = 1 /\ e \in Edits /\ e \in made
    <2>1. op[c] \in Ops /\ op[c].kind = "save" /\ op[c].attempt = 1 /\ e # NoEdit
      BY DEF IInv, StateOK, ClientsOK, MayRebase
    <2> QED
      BY <2>1 DEF Ops, IInv, AppliedOnce
  <1>4. f \in Contents /\ f \in Docs /\ reply[c].result = "conflict"
    BY ReplyType DEF MayRebase
  <1>5. f[e] = 0 /\ Plain(f, made)
    BY <1>2, <1>3, <1>4 DEF IInv, AppliedOnce, Unapplied, Elsewhere
  <1>6. /\ Applied(f, e) \in Contents
        /\ \A d \in Edits : Applied(f, e)[d] = IF d = e THEN 1 ELSE f[d]
    BY <1>3, <1>4, <1>5, AppliedType
  <1>7. body \in Bodies
    BY <1>4, <1>6 DEF Bodies
  <1>8. BodyOK(body, made')
    BY <1>3, <1>4, <1>5, <1>6 DEF BodyOK, Plain, Contents
  <1>9. ASSUME NEW d \in Clients \ {c}, NEW g \in Edits, Unapplied(d, g)
        PROVE  body.content[g] = 0
    <2>1. g # e
      BY <1>3, <1>9, SettingsAssumption DEF IInv, AppliedOnce, Unapplied
    <2>2. f[g] = 0
      BY <1>4, <1>9 DEF IInv, AppliedOnce, Elsewhere
    <2> QED
      BY <1>6, <2>1, <2>2
  <1>10. Fresh(body, c)
    BY <1>8, <1>9 DEF Fresh
  <1>11. Sent(c, "save", body) \in Requests
    BY <1>7, SentType
  <1>12. op'[c] = [op[c] EXCEPT !.attempt = 2] /\ \A d \in Clients \ {c} : op'[d] = op[d]
    BY <1>1 DEF IInv, StateOK, ClientsOK
  <1>13. op'[c] \in Ops /\ op'[c].edit = e /\ op'[c].attempt = 2 /\ op'[c] # Idle
    BY <1>3, <1>12 DEF Ops, Idle
  <1>14. ClientsOK'
    <2>1. reply' = [reply EXCEPT ![c] = NoReply] /\ pc' = [pc EXCEPT ![c] = "wait"]
      BY <1>1 DEF Dispatch
    <2>2. op' \in [Clients -> Ops]
      BY <1>1, <1>12, <1>13 DEF IInv, StateOK, ClientsOK
    <2>3. reply' \in [Clients -> Replies] /\ pc' \in [Clients -> {"idle", "wait", "read"}]
      BY <2>1 DEF IInv, StateOK, ClientsOK, Replies
    <2>4. \A d \in Clients : /\ pc'[d] = "idle" <=> op'[d] = Idle
                             /\ reply'[d] # NoReply => pc'[d] = "wait"
      BY <2>1, <1>12, <1>13 DEF IInv, StateOK, ClientsOK
    <2> QED
      BY <1>1, <2>2, <2>3, <2>4 DEF IInv, StateOK, ClientsOK
  <1>15. /\ e \in made' \cup {NoEdit}
         /\ \A d \in Clients \ {c} : e # NoEdit => op[d].edit # e
    BY <1>3 DEF IInv, AppliedOnce
  <1>16. \A g \in Edits : ~Unapplied(c, g)'
    BY <1>13 DEF Unapplied
  <1> HIDE DEF body, e, f
  <1> QED
    BY <1>1, <1>2, <1>10, <1>11, <1>12, <1>13, <1>14, <1>15, <1>16, Reached

\* The end of an operation, with or without a document of the monitor.
LEMMA EndsKeeps ==
    ASSUME IInv, NEW c \in Clients, NoLive(c), Ends(c), UNCHANGED <<server, made>>,
           shown' \in [Clients -> BOOLEAN],
           blocked' \in [Clients -> SUBSET {"save", "pause"}],
           \/ UNCHANGED latest
           \/ \E f \in Docs \cap Contents :
                 latest' = [latest EXCEPT ![c] = [content |-> f, rev |-> f]]
    PROVE  IInv'
  <1>1. /\ pc' \in [Clients -> {"idle", "wait", "read"}]
        /\ op' \in [Clients -> Ops] /\ reply' \in [Clients -> Replies]
        /\ pc'[c] = "idle" /\ op'[c] = Idle /\ reply'[c] = NoReply
        /\ \A d \in Clients \ {c} :
              pc'[d] = pc[d] /\ op'[d] = op[d] /\ reply'[d] = reply[d]
    BY EndsEffect DEF IInv
  <1>2. /\ latest' \in [Clients -> Bodies] /\ Fresh(latest'[c], c)
        /\ \A d \in Clients \ {c} : latest'[d] = latest[d]
    <2>1. CASE UNCHANGED latest
      BY <2>1, LatestFresh DEF IInv, StateOK, ClientsOK
    <2>2. CASE \E f \in Docs \cap Contents :
                  latest' = [latest EXCEPT ![c] = [content |-> f, rev |-> f]]
      <3>1. PICK f \in Docs \cap Contents :
                  latest' = [latest EXCEPT ![c] = [content |-> f, rev |-> f]]
        BY <2>2
      <3>2. [content |-> f, rev |-> f] \in Bodies /\ Fresh([content |-> f, rev |-> f], c)
        BY DocFresh
      <3> QED
        BY <3>1, <3>2 DEF IInv, StateOK, ClientsOK
    <2> QED
      BY <2>1, <2>2
  <1>3. ClientsOK'
    BY <1>1, <1>2 DEF IInv, StateOK, ClientsOK
  <1> QED
    BY <1>1, <1>2, <1>3, Unreached

\* The client turns to reading after a refused pause.
LEMMA ReadingKeeps ==
    ASSUME IInv, NEW c \in Clients, reply[c] # NoReply, UNCHANGED <<server, made>>,
           op' = [op EXCEPT ![c].kind = "refused"], AwaitRead(c)
    PROVE  IInv'
  <1>1. /\ pc' = [pc EXCEPT ![c] = "read"] /\ reply' = [reply EXCEPT ![c] = NoReply]
        /\ UNCHANGED <<latest, shown, blocked>>
    BY DEF AwaitRead
  <1>2. NoLive(c)
    BY BusyClient
  <1>3. /\ pc'[c] = "read" /\ reply'[c] = NoReply
        /\ \A d \in Clients \ {c} : pc'[d] = pc[d] /\ reply'[d] = reply[d]
    BY <1>1 DEF IInv, StateOK, ClientsOK
  <1>4. /\ op' \in [Clients -> Ops] /\ op'[c].edit = op[c].edit /\ op'[c] # Idle
        /\ \A d \in Clients \ {c} : op'[d] = op[d]
    <2>1. op \in [Clients -> Ops] /\ op[c] \in Ops
      BY DEF IInv, StateOK, ClientsOK
    <2>2. op'[c] = [op[c] EXCEPT !.kind = "refused"]
      BY <2>1
    <2>3. op'[c] \in Ops /\ op'[c].edit = op[c].edit /\ op'[c].kind = "refused"
      BY <2>1, <2>2 DEF Ops
    <2>4. op'[c] # Idle
      BY <2>3 DEF Idle
    <2> QED
      BY <2>1, <2>3, <2>4
  <1>5. ClientsOK'
    BY <1>1, <1>3, <1>4 DEF IInv, StateOK, ClientsOK, Replies
  <1>6. Fresh(latest'[c], c)
    BY <1>1, LatestFresh DEF IInv
  <1> QED
    BY <1>1, <1>2, <1>3, <1>4, <1>5, <1>6, Unreached

\* The monitor's answer arrives.
LEMMA AnsweredKeeps ==
    ASSUME IInv, NEW c \in Clients, Answered(c)
    PROVE  IInv'
  <1> DEFINE r == reply[c]
  <1>1. r # NoReply /\ UNCHANGED made
    BY DEF Answered
  <1>2. NoLive(c)
    BY <1>1, BusyClient
  <1>3. CASE MayRebase(c, r.result) /\ Rebase(c, r)
    BY <1>1, <1>3, RebaseKeeps
  <1>4. CASE /\ UNCHANGED server
             /\ op[c].kind = "save" /\ ~MayRebase(c, r.result)
             /\ Ends(c)
             /\ IF r.result = "success"
                THEN /\ ApplyAuthoritative(c, r.content, r.paused)
                     /\ blocked' = [blocked EXCEPT ![c] = @ \ {"save"}]
                ELSE UNCHANGED <<latest, shown, blocked>>
    <2>1. CASE r.result = "success"
      <3>1. r.content \in Contents /\ r.paused \in BOOLEAN /\ r.content \in Docs
        BY <2>1, ReplyType
      <3>2. /\ latest' = [latest EXCEPT ![c] = [content |-> r.content, rev |-> r.content]]
            /\ shown' = [shown EXCEPT ![c] = r.paused]
            /\ blocked' = [blocked EXCEPT ![c] = @ \ {"save"}]
        BY <1>4, <2>1 DEF ApplyAuthoritative
      <3>3. /\ shown' \in [Clients -> BOOLEAN]
            /\ blocked' \in [Clients -> SUBSET {"save", "pause"}]
        BY <3>1, <3>2 DEF IInv, StateOK, ClientsOK
      <3> QED
        BY <1>1, <1>2, <1>4, <3>1, <3>2, <3>3, EndsKeeps
    <2>2. CASE r.result # "success"
      <3>1. /\ shown' \in [Clients -> BOOLEAN] /\ UNCHANGED latest
            /\ blocked' \in [Clients -> SUBSET {"save", "pause"}]
        BY <1>4, <2>2 DEF IInv, StateOK, ClientsOK
      <3> QED
        BY <1>1, <1>2, <1>4, <3>1, EndsKeeps
    <2> QED
      BY <2>1, <2>2
  <1>5. CASE /\ UNCHANGED server
             /\ op[c].kind = "pause" /\ r.result = "success"
             /\ Ends(c)
             /\ shown' = [shown EXCEPT ![c] = r.paused]
             /\ UNCHANGED <<latest, blocked>>
    <2>1. r.paused \in BOOLEAN
      BY <1>5, ReplyType
    <2>2. /\ shown' \in [Clients -> BOOLEAN]
          /\ blocked' \in [Clients -> SUBSET {"save", "pause"}]
      BY <1>5, <2>1 DEF IInv, StateOK, ClientsOK
    <2> QED
      BY <1>1, <1>2, <1>5, <2>2, EndsKeeps
  <1>6. CASE UNCHANGED server /\ op' = [op EXCEPT ![c].kind = "refused"] /\ AwaitRead(c)
    BY <1>1, <1>6, ReadingKeeps
  <1> QED
    BY <1>3, <1>4, <1>5, <1>6, Zenon DEF Answered

\* The client gives up on its mutation.
LEMMA UnknownKeeps ==
    ASSUME IInv, NEW c \in Clients, Unknown(c)
    PROVE  IInv'
  <1>1. /\ pc[c] = "wait" /\ Forsake(c) /\ UNCHANGED made
        /\ pc' = [pc EXCEPT ![c] = "read"] /\ reply' = [reply EXCEPT ![c] = NoReply]
        /\ UNCHANGED <<latest, shown, op, blocked>>
    BY DEF Unknown, AwaitRead
  <1>2. /\ queue' \in Seq(Requests) /\ Len(queue') = Len(queue)
        /\ serving' \subseteq Begun
        /\ \A q \in Held' : \E r \in Held : q = Forsaken(r, c)
        /\ UNCHANGED <<content, paused, faults>>
    BY <1>1, ForsakeEffect DEF IInv, Forsake
  <1>3. /\ pc'[c] = "read" /\ reply'[c] = NoReply
        /\ \A d \in Clients \ {c} : pc'[d] = pc[d] /\ reply'[d] = reply[d]
    BY <1>1 DEF IInv, StateOK, ClientsOK
  <1>4. ClientsOK'
    BY <1>1, <1>3 DEF IInv, StateOK, ClientsOK, Replies
  <1>5. StateOK'
    BY <1>2, <1>4 DEF IInv, StateOK, ServerOK
  <1>6. OneTurn' /\ LiveOnce'
    BY <1>1, <1>3, TurnForsake, LiveForsake DEF IInv
  <1>7. ASSUME NEW q \in Held'
        PROVE  \E r \in Held : /\ q.kind = r.kind /\ q.body = r.body /\ q.client = r.client
                               /\ r.live /\ r.client # c => q.live
    <2>1. PICK r \in Held : q = Forsaken(r, c)
      BY <1>2
    <2>2. r \in Requests
      BY HeldType DEF IInv
    <2>3. r.client # c => q = r
      BY <2>1, <2>2, ForsakenType
    <2>4. q.kind = r.kind /\ q.body = r.body /\ q.client = r.client
      BY <2>1, <2>2, ForsakenType
    <2> QED
      BY <2>3, <2>4
  <1>8. Docs' \subseteq Docs
    BY <1>2, <1>3, DocsShrink DEF IInv
  <1>9. Fresh(latest'[c], c)
    BY <1>1, LatestFresh DEF IInv
  <1>10. \A e \in Edits : ~Unapplied(c, e)'
    BY <1>3 DEF Unapplied
  <1>11. /\ op'[c].edit \in made' \cup {NoEdit}
         /\ \A d \in Clients \ {c} : op'[c].edit # NoEdit => op[d].edit # op'[c].edit
    BY <1>1 DEF IInv, AppliedOnce
  <1>12. AppliedOnce'
    BY <1>1, <1>3, <1>7, <1>8, <1>9, <1>10, <1>11, AppliedKept DEF IInv
  <1> QED
    BY <1>5, <1>6, <1>12 DEF IInv

\* The read succeeds.
LEMMA ReadSucceedsKeeps ==
    ASSUME IInv, NEW c \in Clients, ReadSucceeds(c)
    PROVE  IInv'
  <1>1. /\ pc[c] = "read" /\ Ends(c) /\ UNCHANGED <<server, made>>
        /\ latest' = [latest EXCEPT ![c] = [content |-> content, rev |-> content]]
        /\ shown' = [shown EXCEPT ![c] = paused]
    BY DEF ReadSucceeds, ApplyAuthoritative
  <1>2. NoLive(c)
    BY <1>1, BusyClient
  <1>3. content \in Docs \cap Contents
    BY DEF Docs, IInv, StateOK, ServerOK
  <1>4. shown' \in [Clients -> BOOLEAN]
    BY <1>1 DEF IInv, StateOK, ServerOK, ClientsOK
  <1>5. blocked' \in [Clients -> SUBSET {"save", "pause"}]
    BY DEF ReadSucceeds, IInv, StateOK, ClientsOK
  <1> QED
    BY <1>1, <1>2, <1>3, <1>4, <1>5, EndsKeeps

\* The read fails.
LEMMA ReadFailsKeeps ==
    ASSUME IInv, NEW c \in Clients, ReadFails(c)
    PROVE  IInv'
  <1>1. pc[c] = "read" /\ Ends(c) /\ UNCHANGED <<server, made, latest>>
    BY DEF ReadFails
  <1>2. NoLive(c)
    BY <1>1, BusyClient
  <1>3. op[c].was \in BOOLEAN
    BY DEF IInv, StateOK, ClientsOK, Ops
  <1>4. shown' \in [Clients -> BOOLEAN]
    BY <1>3 DEF ReadFails, IInv, StateOK, ClientsOK
  <1>5. blocked' \in [Clients -> SUBSET {"save", "pause"}]
    BY DEF ReadFails, IInv, StateOK, ClientsOK
  <1> QED
    BY <1>1, <1>2, <1>4, <1>5, EndsKeeps

-----------------------------------------------------------------------------
(***************************************************************************)
(* The steps of the monitor.                                               *)
(***************************************************************************)
LEMMA BeginKeeps ==
    ASSUME IInv, Begin
    PROVE  IInv'
  <1>1. /\ Held' = Held
        /\ queue' \in Seq(Requests) /\ Len(queue') = Len(queue) - 1
        /\ \A i \in 1..Len(queue') : i + 1 \in 1..Len(queue) /\ queue'[i] = queue[i + 1]
        /\ 1 \in 1..Len(queue) /\ serving = {}
        /\ serving' = {[request |-> queue[1], content |-> content, paused |-> paused]}
    BY BeginEffect DEF IInv
  <1>2. /\ UNCHANGED <<content, paused, faults, made, latest, shown, pc, op, reply, blocked>>
    BY DEF Begin
  <1>3. StateOK'
    <2>1. ClientsOK'
      BY <1>2 DEF IInv, StateOK, ClientsOK
    <2>2. queue[1] \in Requests
      BY <1>1, HeldType DEF IInv
    <2>3. serving' \subseteq Begun
      BY <1>1, <2>2 DEF Begun, IInv, StateOK, ServerOK
    <2>4. Len(queue') <= MaxQueue
      BY <1>1, LenType, SettingsAssumption DEF IInv, StateOK, ServerOK
    <2> QED
      BY <1>1, <1>2, <2>1, <2>3, <2>4 DEF IInv, StateOK, ServerOK
  <1>4. OneTurn'
    BY <1>1, <1>2 DEF OneTurn
  <1>5. LiveOnce'
    <2>1. \A r \in Held' : r.live => pc'[r.client] = "wait" /\ reply'[r.client] = NoReply
      BY <1>1, <1>2 DEF IInv, LiveOnce
    <2>2. ASSUME NEW i \in 1..Len(queue'), NEW j \in 1..Len(queue'),
                 queue'[i].live, queue'[j].live, queue'[i].client = queue'[j].client
          PROVE  i = j
      <3>1. i + 1 = j + 1
        BY <1>1, <2>2 DEF IInv, LiveOnce
      <3> QED
        BY <3>1
    <2>3. ASSUME NEW i \in 1..Len(queue'), NEW m \in serving',
                 queue'[i].live, m.request.live
          PROVE  queue'[i].client # m.request.client
      <3>1. m.request = queue[1] /\ i + 1 # 1
        BY <1>1
      <3> QED
        BY <1>1, <2>3, <3>1 DEF IInv, LiveOnce
    <2> QED
      BY <2>1, <2>2, <2>3 DEF LiveOnce
  <1>6. AppliedOnce'
    <2>1. Docs' = Docs
      BY <1>2 DEF Docs
    <2>2. \A c \in Clients, e \in Edits : Unapplied(c, e)' <=> Unapplied(c, e)
      BY <1>2 DEF Unapplied
    <2>3. \A c \in Clients, e \in Edits : Elsewhere(c, e) => Elsewhere(c, e)'
      BY <1>1, <1>2, <2>1 DEF Elsewhere
    <2> QED
      BY <1>1, <1>2, <2>1, <2>2, <2>3 DEF IInv, AppliedOnce
  <1> QED
    BY <1>3, <1>4, <1>5, <1>6 DEF IInv

\* What a mutation stores is the document or the body of its request; a save has
\* the document the client read or is refused, and a pause keeps the rest.
LEMMA StoredType ==
    ASSUME IInv, NEW m \in serving, ~Conflicts(m)
    PROVE  /\ Stored(m).content \in Contents /\ Stored(m).paused \in BOOLEAN
           /\ m.request.kind = "save" =>
                 /\ Stored(m).content = m.request.body.content
                 /\ m.request.body.rev = content /\ Stored(m).paused = paused
                 /\ m.request.body \in Bodies
           /\ m.request.kind # "save" => Stored(m).content = content
  <1>1. m \in Begun /\ m.request \in Requests /\ m.content = content /\ m.paused = paused
    BY HeldType DEF IInv, OneTurn
  <1>2. content \in Contents /\ paused \in BOOLEAN
    BY DEF IInv, StateOK, ServerOK
  <1>3. CASE m.request.kind = "save"
    <2>1. m.request.body \in Bodies
      BY <1>1, <1>3, RequestType
    <2>2. m.request.body.rev = content
      BY <1>1, <1>3 DEF Conflicts
    <2>3. Stored(m) = [content |-> m.request.body.content, paused |-> m.paused]
      BY <1>3 DEF Stored
    <2> QED
      BY <1>1, <1>2, <1>3, <2>1, <2>2, <2>3 DEF Bodies
  <1>4. CASE m.request.kind # "save"
    <2>1. m.request.body \in BOOLEAN
      BY <1>1, <1>4, RequestType
    <2>2. Stored(m) = [content |-> m.content, paused |-> m.request.body]
      BY <1>4 DEF Stored
    <2> QED
      BY <1>1, <1>2, <1>4, <2>1, <2>2
  <1> QED
    BY <1>3, <1>4

\* A mutation is answered, and the document stays or is what it stores.
LEMMA RespondKeeps ==
    ASSUME IInv, NEW m \in serving, NEW r \in Replies, Respond(m, r), r # NoReply,
           content' \in Contents, paused' \in BOOLEAN, faults' \in 0..MaxFaults,
           \/ content' = content
           \/ m.request.kind = "save" /\ content' = m.request.body.content,
           r.result \in {"success", "conflict"} => r.content = content',
           r.result = "conflict" => content' = content
    PROVE  IInv'
  <1> DEFINE owner == m.request.client
  <1>1. /\ serving' = {} /\ queue' = queue
        /\ Held' \subseteq Held /\ m.request \in Held
        /\ \A c \in Clients : reply'[c] = IF m.request.live /\ owner = c THEN r ELSE reply[c]
    BY RespondEffect DEF IInv
  <1>2. UNCHANGED <<made, latest, shown, pc, op, blocked>>
    BY DEF Respond
  <1>3. /\ m.request \in Requests /\ owner \in Clients
        /\ m.request.live => pc[owner] = "wait" /\ reply[owner] = NoReply
    BY <1>1, HeldType, RequestType DEF IInv, LiveOnce
  <1>4. StateOK'
    <2>1. ServerOK'
      BY <1>1 DEF IInv, StateOK, ServerOK
    <2>2. reply' \in [Clients -> Replies]
      BY DEF Respond, IInv, StateOK, ClientsOK
    <2>3. \A c \in Clients : reply'[c] # NoReply => pc'[c] = "wait"
      BY <1>1, <1>2, <1>3 DEF IInv, StateOK, ClientsOK
    <2> QED
      BY <1>2, <2>1, <2>2, <2>3 DEF IInv, StateOK, ClientsOK
  <1>5. OneTurn'
    BY <1>1 DEF OneTurn
  <1>6. LiveOnce'
    <2>1. ASSUME NEW q \in Held', q.live
          PROVE  pc'[q.client] = "wait" /\ reply'[q.client] = NoReply
      <3>1. PICK i \in 1..Len(queue) : q = queue[i]
        BY <1>1 DEF Held
      <3>2. q \in Requests /\ q.client \in Clients /\ q \in Held
        BY <3>1, HeldType, RequestType DEF IInv
      <3>3. m.request.live => q.client # owner
        BY <2>1, <3>1 DEF IInv, LiveOnce
      <3> QED
        BY <1>1, <1>2, <2>1, <3>2, <3>3 DEF IInv, LiveOnce
    <2> QED
      BY <1>1, <2>1 DEF IInv, LiveOnce
  <1>7. AppliedOnce'
    <2>1. \A f \in Docs' : f \in Docs \/ f = content'
      BY <1>1 DEF Docs
    <2>2. Plain(content', made)
      BY <1>1 DEF IInv, AppliedOnce, BodyOK, Docs
    <2>3. ASSUME NEW c \in Clients, NEW e \in Edits, Unapplied(c, e)'
          PROVE  Elsewhere(c, e)'
      <3>1. Unapplied(c, e) /\ (m.request.live /\ owner = c => content' = content)
        <4>1. /\ op[c].kind = "save" /\ op[c].attempt = 1 /\ op[c].edit = e
              /\ pc[c] = "wait" /\ reply'[c].result \in {"none", "conflict"}
          BY <1>2, <2>3 DEF Unapplied
        <4>2. CASE m.request.live /\ owner = c
          <5>1. reply'[c] = r /\ reply[c] = NoReply
            BY <1>1, <1>3, <4>2
          <5>2. r.result # "none"
            BY DEF Replies, NoReply
          <5>3. r.result = "conflict"
            BY <4>1, <5>1, <5>2
          <5> QED
            BY <4>1, <5>1, <5>3 DEF Unapplied, NoReply
        <4>3. CASE ~(m.request.live /\ owner = c)
          <5>1. reply'[c] = reply[c]
            BY <1>1, <4>3
          <5> QED
            BY <4>1, <4>3, <5>1 DEF Unapplied
        <4> QED
          BY <4>2, <4>3
      <3>2. Elsewhere(c, e)
        BY <3>1 DEF IInv, AppliedOnce
      <3>3. content'[e] = 0
        <4>1. content[e] = 0
          BY <3>2 DEF Elsewhere, Docs
        <4> QED
          BY <1>1, <3>1, <3>2, <4>1 DEF Elsewhere
      <3>4. \A f \in Docs' : f[e] = 0
        BY <2>1, <3>2, <3>3 DEF Elsewhere
      <3> QED
        BY <1>1, <1>2, <3>2, <3>4 DEF Elsewhere
    <2>4. \A f \in Docs' : Plain(f, made')
      BY <1>2, <2>1, <2>2 DEF IInv, AppliedOnce
    <2> QED
      BY <1>1, <1>2, <2>3, <2>4 DEF IInv, AppliedOnce
  <1> QED
    BY <1>4, <1>5, <1>6, <1>7 DEF IInv

\* A save on a stale revision is refused.
LEMMA RefuseKeeps ==
    ASSUME IInv, NEW m \in serving, Refuse(m)
    PROVE  IInv'
  <1> DEFINE r == [result |-> "conflict", content |-> m.content, paused |-> m.paused]
  <1>1. Respond(m, r) /\ UNCHANGED <<content, paused, faults>>
    BY DEF Refuse
  <1>2. m.content = content /\ m.paused = paused
    BY DEF IInv, OneTurn
  <1>3. content \in Contents /\ paused \in BOOLEAN /\ faults \in 0..MaxFaults
    BY DEF IInv, StateOK, ServerOK
  <1>4. /\ r \in Replies /\ r # NoReply /\ r.result = "conflict" /\ r.content = content
    BY <1>2, <1>3 DEF Replies, NoReply
  <1> HIDE DEF r
  <1> QED
    BY <1>1, <1>3, <1>4, RespondKeeps

\* A mutation is stored.
LEMMA StoreKeeps ==
    ASSUME IInv, NEW m \in serving, Store(m)
    PROVE  IInv'
  <1> DEFINE r == [result |-> "success", content |-> content', paused |-> paused']
  <1>1. /\ ~Conflicts(m) /\ Respond(m, r) /\ UNCHANGED faults
        /\ content' = Stored(m).content /\ paused' = Stored(m).paused
    BY DEF Store
  <1>2. content' \in Contents /\ paused' \in BOOLEAN /\ faults' \in 0..MaxFaults
    BY <1>1, StoredType DEF IInv, StateOK, ServerOK
  <1>3. \/ content' = content
        \/ m.request.kind = "save" /\ content' = m.request.body.content
    BY <1>1, StoredType
  <1>4. /\ r \in Replies /\ r # NoReply /\ r.result = "success" /\ r.content = content'
    BY <1>2 DEF Replies, NoReply
  <1> HIDE DEF r
  <1> QED
    BY <1>1, <1>2, <1>3, <1>4, RespondKeeps

\* The database fails under a mutation.
LEMMA FailKeeps ==
    ASSUME IInv, NEW m \in serving, Fail(m)
    PROVE  IInv'
  <1> DEFINE r == [result |-> "http"]
  <1>1. /\ faults < MaxFaults /\ faults' = faults + 1 /\ Respond(m, r)
        /\ \/ UNCHANGED <<content, paused>>
           \/ /\ ~Conflicts(m)
              /\ content' = Stored(m).content /\ paused' = Stored(m).paused
    BY DEF Fail
  <1>2. faults' \in 0..MaxFaults
    BY <1>1, SettingsAssumption DEF IInv, StateOK, ServerOK
  <1>3. content' \in Contents /\ paused' \in BOOLEAN
    BY <1>1, StoredType DEF IInv, StateOK, ServerOK
  <1>4. \/ content' = content
        \/ m.request.kind = "save" /\ content' = m.request.body.content
    BY <1>1, StoredType
  <1>5. r \in Replies /\ r # NoReply /\ r.result \notin {"success", "conflict"}
    BY DEF Replies, NoReply
  <1> HIDE DEF r
  <1> QED
    BY <1>1, <1>2, <1>3, <1>4, <1>5, RespondKeeps

-----------------------------------------------------------------------------
(***************************************************************************)
(* The theorems.                                                           *)
(***************************************************************************)
LEMMA InitKeeps == Init => IInv
  <1> SUFFICES ASSUME Init PROVE IInv
    OBVIOUS
  <1>1. Nothing \in Contents /\ \A e \in Edits : Nothing[e] = 0
    BY DEF Nothing, Contents
  <1>2. ServerOK
    <2>1. queue = <<>> /\ <<>> \in Seq(Requests) /\ Len(queue) = 0
      BY DEF Init
    <2>2. 0 <= MaxQueue /\ faults \in 0..MaxFaults
      BY SettingsAssumption DEF Init
    <2>3. content \in Contents /\ paused \in BOOLEAN /\ serving = {}
      BY <1>1 DEF Init
    <2> QED
      BY <2>1, <2>2, <2>3 DEF ServerOK
  <1>3. ClientsOK
    <2>1. [content |-> Nothing, rev |-> Nothing] \in Bodies
      BY <1>1 DEF Bodies
    <2> QED
      BY <2>1, OpsType DEF Init, ClientsOK, Replies
  <1>4. OneTurn /\ LiveOnce
    BY DEF Init, OneTurn, LiveOnce, Held
  <1>5. AppliedOnce
    <2>1. Held = {}
      BY DEF Init, Held
    <2>2. \A c \in Clients : reply[c].result = "none"
      BY DEF Init, NoReply
    <2>3. Docs = {Nothing}
      BY <2>2 DEF Init, Docs
    <2>4. \A c \in Clients : /\ latest[c].content = Nothing /\ latest[c].rev = Nothing
                             /\ op[c].edit = NoEdit /\ pc[c] = "idle"
      BY DEF Init, Idle
    <2>5. \A c \in Clients, e \in Edits : ~Unapplied(c, e)
      BY <2>4 DEF Unapplied
    <2> QED
      BY <1>1, <2>1, <2>3, <2>4, <2>5 DEF AppliedOnce, BodyOK, Plain
  <1> QED
    BY <1>2, <1>3, <1>4, <1>5 DEF IInv, StateOK

\* Every step keeps the invariant.
LEMMA StepKeeps == IInv /\ [Next]_vars => IInv'
  <1> SUFFICES ASSUME IInv, [Next]_vars PROVE IInv'
    OBVIOUS
  <1>1. CASE Begin
    BY <1>1, BeginKeeps
  <1>2. ASSUME NEW m \in serving, Refuse(m) \/ Store(m) \/ Fail(m) PROVE IInv'
    BY <1>2, RefuseKeeps, StoreKeeps, FailKeeps
  <1>3. ASSUME NEW c \in Clients, NEW e \in Edits, EditProfile(c, e) \/ EditField(c, e)
        PROVE  IInv'
    BY <1>3, EditProfileKeeps, EditFieldKeeps
  <1>4. ASSUME NEW c \in Clients,
               \/ SaveForm(c) \/ Toggle(c) \/ Answered(c) \/ Unknown(c)
               \/ ReadSucceeds(c) \/ ReadFails(c)
        PROVE  IInv'
    BY <1>4, SaveFormKeeps, ToggleKeeps, AnsweredKeeps, UnknownKeeps, ReadSucceedsKeeps,
       ReadFailsKeeps
  <1>5. CASE UNCHANGED vars
    <2>1. UNCHANGED <<content, paused, queue, serving, made, latest, shown, pc, op, reply,
                      blocked, faults>>
      BY <1>5 DEF vars, server
    <2>2. StateOK'
      BY <2>1 DEF IInv, StateOK, ServerOK, ClientsOK
    <2>3. Held' = Held /\ Docs' = Docs
      BY <2>1 DEF Held, Docs
    <2>4. OneTurn' /\ LiveOnce'
      BY <2>1, <2>3 DEF IInv, OneTurn, LiveOnce
    <2>5. \A c \in Clients, e \in Edits :
             (Unapplied(c, e)' <=> Unapplied(c, e)) /\ (Elsewhere(c, e)' <=> Elsewhere(c, e))
      BY <2>1, <2>3 DEF Unapplied, Elsewhere
    <2>6. AppliedOnce'
      BY <2>1, <2>3, <2>5 DEF IInv, AppliedOnce
    <2> QED
      BY <2>2, <2>4, <2>6 DEF IInv
  <1> QED
    BY <1>1, <1>2, <1>3, <1>4, <1>5, Zenon DEF Next

\* Every reachable state keeps the invariant the theorems below rest on: types, one
\* mutation in progress, one answer to wait for, and no edit applied twice.
THEOREM Invariant == Spec => []IInv
  <1> QED
    BY InitKeeps, StepKeeps, PTL DEF Spec

\* The document, the mutations on their way and the clients are of the declared
\* sets, and a client awaits an answer only for the operation it is at.
THEOREM TypeCorrect == Spec => []TypeOK
  <1>1. ASSUME IInv PROVE TypeOK
    <2>1. \A m \in serving : m.request \in Requests /\ m.content \in Contents
                             /\ m.paused \in BOOLEAN
      BY <1>1 DEF IInv, StateOK, ServerOK, Begun
    <2>2. ASSUME NEW c \in Clients
          PROVE  /\ op[c].kind \in {"none", "save", "pause", "refused", "refresh", "repause"}
                 /\ op[c].edit \in Edits \cup {NoEdit}
                 /\ op[c].attempt \in 0..2 /\ op[c].was \in BOOLEAN
      BY <1>1 DEF IInv, StateOK, ClientsOK, Ops
    <2>3. ASSUME NEW c \in Clients
          PROVE  /\ pc[c] = "idle" <=> op[c] = Idle
                 /\ reply[c] # NoReply => pc[c] = "wait"
      BY <1>1 DEF IInv, StateOK, ClientsOK
    <2> QED
      BY <1>1, <2>1, <2>2, <2>3 DEF IInv, StateOK, ServerOK, ClientsOK, TypeOK
  <1> QED
    BY <1>1, Invariant, PTL

\* No edit of an operator is applied twice, whatever is refused and rebased, lost
\* on its way, or carried out after its client has given up on it.
THEOREM NoEditTwice == Spec => []EditAppliedOnce
  <1>1. ASSUME IInv PROVE EditAppliedOnce
    <2>1. content \in Docs
      BY DEF Docs
    <2> QED
      BY <1>1, <2>1 DEF IInv, AppliedOnce, Plain, EditAppliedOnce
  <1> QED
    BY <1>1, Invariant, PTL

\* A save is stored only over the document its client read, so it undoes no edit of
\* another client, and it carries the pause over.
THEOREM OthersKept == Spec => SavesKeepOthers
  <1> DEFINE Step == /\ \A e \in Edits : content'[e] >= content[e]
                     /\ paused' # paused => content' = content
  <1>1. ASSUME IInv PROVE \A e \in Edits : content[e] >= content[e]
    BY <1>1 DEF IInv, StateOK, ServerOK, Contents
  <1>2. ASSUME IInv, [Next]_vars PROVE [Step]_vars
    <2>1. CASE UNCHANGED content
      BY <1>1, <1>2, <2>1
    <2>2. ASSUME NEW m \in serving, ~Conflicts(m), content' = Stored(m).content,
                 paused' = Stored(m).paused
          PROVE  Step
      <3>1. CASE m.request.kind = "save"
        <4>1. /\ content' = m.request.body.content /\ m.request.body.rev = content
              /\ paused' = paused
          BY <1>2, <2>2, <3>1, StoredType
        <4>2. BodyOK(m.request.body, made)
          BY <1>2, <3>1, HeldType DEF IInv, AppliedOnce
        <4>3. \A e \in Edits : content[e] <= content'[e]
          BY <4>1, <4>2 DEF BodyOK
        <4>4. content \in Contents /\ content' \in Contents
          BY <1>2, <2>2, StoredType DEF IInv, StateOK, ServerOK
        <4> QED
          BY <4>1, <4>3, <4>4 DEF Contents
      <3>2. CASE m.request.kind # "save"
        BY <1>1, <1>2, <2>2, <3>2, StoredType
      <3> QED
        BY <3>1, <3>2
    <2>3. \/ UNCHANGED content
          \/ \E m \in serving : /\ ~Conflicts(m) /\ content' = Stored(m).content
                                /\ paused' = Stored(m).paused
      <3>1. CASE Begin
        BY <3>1 DEF Begin
      <3>2. ASSUME NEW m \in serving, Refuse(m) \/ Store(m) \/ Fail(m)
            PROVE  \/ UNCHANGED content
                   \/ /\ ~Conflicts(m) /\ content' = Stored(m).content
                      /\ paused' = Stored(m).paused
        BY <3>2 DEF Refuse, Store, Fail
      <3>3. ASSUME NEW c \in Clients, NEW e \in Edits,
                   EditProfile(c, e) \/ EditField(c, e)
            PROVE  UNCHANGED content
        BY <3>3 DEF EditProfile, EditField, Persist, Dispatch, server
      <3>4. ASSUME NEW c \in Clients, SaveForm(c) \/ Toggle(c)
            PROVE  UNCHANGED content
        BY <3>4 DEF SaveForm, Toggle, Persist, Dispatch, server
      <3>5. ASSUME NEW c \in Clients, Answered(c) \/ Unknown(c)
            PROVE  UNCHANGED content
        BY <3>5 DEF Answered, Unknown, Rebase, Dispatch, Forsake, server
      <3>6. ASSUME NEW c \in Clients, ReadSucceeds(c) \/ ReadFails(c)
            PROVE  UNCHANGED content
        BY <3>6 DEF ReadSucceeds, ReadFails, server
      <3>7. CASE UNCHANGED vars
        BY <3>7 DEF vars, server
      <3> QED
        BY <1>2, <3>1, <3>2, <3>3, <3>4, <3>5, <3>6, <3>7, Zenon DEF Next
    <2> QED
      BY <2>1, <2>2, <2>3
  <1> QED
    BY <1>2, Invariant, PTL DEF SavesKeepOthers, Spec
=============================================================================
