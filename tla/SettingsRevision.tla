-------------------------- MODULE SettingsRevision --------------------------
(***************************************************************************)
(* The settings document between several dashboards and the monitor.  The  *)
(* monitor serializes its mutations, accepts a save on the revision the    *)
(* client read, and changes the pause only by setProcessing (services/     *)
(* settings.js).  A dashboard runs its own mutations one at a time; a      *)
(* refused functional edit is rebased once, an unconfirmed one is never    *)
(* sent again (hooks/settings.js, lib/settings.js, lib/mutation).          *)
(*                                                                         *)
(* The editable part of the document is the number of times each edit has  *)
(* been applied to it, which tells a lost edit from a repeated one.  Its   *)
(* revision is a digest of it, hence that content itself.  A request that  *)
(* the client has given up on may still be carried out.                    *)
(***************************************************************************)
EXTENDS Naturals, Sequences

CONSTANTS
    Clients,     \* mounted settings pages
    Edits,       \* edits an operator makes, each once
    NoEdit,      \* an edit that replaces the document, as the form's does
    MaxQueue,    \* bound on the mutations the monitor holds
    MaxFaults    \* bound on the mutations that fail inside the monitor

ASSUME SettingsAssumption ==
    /\ MaxQueue \in Nat \ {0} /\ MaxFaults \in Nat
    /\ NoEdit \notin Edits

VARIABLES
    content,     \* the editable part of the stored document
    paused,      \* its processingPaused
    queue,       \* mutations waiting for their turn
    serving,     \* mutations in progress, with the document each has read
    made,        \* the edits operators have made
    latest,      \* the document each client works on, with its revision
    shown,       \* the pause each client shows
    pc,          \* what each client awaits
    op,          \* the operation each client is at
    reply,       \* the answer of the monitor to it
    blocked,     \* the mutations a client may not send before a read
    faults

server  == <<content, paused, queue, serving, faults>>
vars    == <<server, made, latest, shown, pc, op, reply, blocked>>

Contents == [Edits -> 0..2]
Bodies   == [content : Contents, rev : Contents]
Idle     == [kind |-> "none", edit |-> NoEdit, attempt |-> 0, was |-> FALSE]
NoReply  == [result |-> "none"]
Requests == [client : Clients, live : BOOLEAN, kind : {"save"}, body : Bodies]
            \cup [client : Clients, live : BOOLEAN, kind : {"pause"}, body : BOOLEAN]

TypeOK ==
    /\ content \in Contents /\ paused \in BOOLEAN
    /\ queue \in Seq(Requests) /\ Len(queue) <= MaxQueue
    /\ \A m \in serving : /\ m.request \in Requests
                          /\ m.content \in Contents /\ m.paused \in BOOLEAN
    /\ made \subseteq Edits
    /\ latest \in [Clients -> Bodies]
    /\ shown \in [Clients -> BOOLEAN]
    /\ pc \in [Clients -> {"idle", "wait", "read"}]
    /\ \A c \in Clients : /\ op[c].kind \in {"none", "save", "pause", "refused",
                                           "refresh", "repause"}
                          /\ op[c].edit \in Edits \cup {NoEdit}
                          /\ op[c].attempt \in 0..2 /\ op[c].was \in BOOLEAN
                          /\ pc[c] = "idle" <=> op[c] = Idle
                          /\ reply[c] # NoReply => pc[c] = "wait"
    /\ blocked \in [Clients -> SUBSET {"save", "pause"}]
    /\ faults \in 0..MaxFaults

Nothing == [e \in Edits |-> 0]

Init ==
    /\ content = Nothing /\ paused = FALSE
    /\ queue = <<>> /\ serving = {} /\ made = {} /\ faults = 0
    /\ latest = [c \in Clients |-> [content |-> Nothing, rev |-> Nothing]]
    /\ shown = [c \in Clients |-> FALSE]
    /\ pc = [c \in Clients |-> "idle"] /\ op = [c \in Clients |-> Idle]
    /\ reply = [c \in Clients |-> NoReply]
    /\ blocked = [c \in Clients |-> {}]

(***************************************************************************)
(* The monitor.  serializeMutation: one mutation at a time, in order.      *)
(***************************************************************************)
AnyTurn == TRUE

Turn == serving = {}

Begin ==
    /\ queue # <<>> /\ Turn
    /\ queue' = Tail(queue)
    /\ serving' = serving \cup {[request |-> Head(queue), content |-> content,
                                 paused |-> paused]}
    /\ UNCHANGED <<content, paused, faults, made, latest, shown, pc, op, reply,
                   blocked>>

Respond(m, r) ==
    /\ serving' = serving \ {m}
    /\ reply' = IF m.request.live THEN [reply EXCEPT ![m.request.client] = r] ELSE reply
    /\ UNCHANGED <<queue, made, latest, shown, pc, op, blocked>>

Conflicts(m) == m.request.kind = "save" /\ m.request.body.rev # m.content

\* What a mutation stores: a save carries the pause forward, a pause the rest.
Stored(m) ==
    IF m.request.kind = "save"
    THEN [content |-> m.request.body.content, paused |-> m.paused]
    ELSE [content |-> m.content, paused |-> m.request.body]

Refuse(m) ==
    /\ Conflicts(m)
    /\ Respond(m, [result |-> "conflict", content |-> m.content, paused |-> m.paused])
    /\ UNCHANGED <<content, paused, faults>>

Store(m) ==
    /\ ~Conflicts(m)
    /\ content' = Stored(m).content /\ paused' = Stored(m).paused
    /\ Respond(m, [result |-> "success", content |-> content', paused |-> paused'])
    /\ UNCHANGED faults

\* The database fails under a mutation, before its write or after it.
Fail(m) ==
    /\ faults < MaxFaults /\ faults' = faults + 1
    /\ Respond(m, [result |-> "http"])
    /\ \/ UNCHANGED <<content, paused>>
       \/ /\ ~Conflicts(m)
          /\ content' = Stored(m).content /\ paused' = Stored(m).paused

(***************************************************************************)
(* A client dispatches a mutation: it reaches the monitor, or is lost.     *)
(***************************************************************************)
Dispatch(c, kind, body) ==
    /\ pc' = [pc EXCEPT ![c] = "wait"]
    /\ reply' = [reply EXCEPT ![c] = NoReply]
    /\ \/ /\ Len(queue) < MaxQueue
          /\ queue' = Append(queue, [client |-> c, live |-> TRUE, kind |-> kind,
                                     body |-> body])
       \/ UNCHANGED queue
    /\ UNCHANGED <<content, paused, serving, faults>>

Applied(f, e) == IF e = NoEdit THEN f ELSE [f EXCEPT ![e] = @ + 1]

Edited(body, e) == [body EXCEPT !.content = Applied(@, e)]

(***************************************************************************)
(* persist: an update is evaluated against the latest document.  After an  *)
(* unconfirmed save without a read, the attempt only reads.                *)
(***************************************************************************)
Persist(c, e) ==
    /\ pc[c] = "idle"
    /\ UNCHANGED <<latest, shown, blocked>>
    /\ IF "save" \in blocked[c]
       THEN /\ op' = [op EXCEPT ![c] = [Idle EXCEPT !.kind = "refresh"]]
            /\ pc' = [pc EXCEPT ![c] = "read"]
            /\ UNCHANGED <<server, reply>>
       ELSE /\ op' = [op EXCEPT ![c] = [kind |-> "save", edit |-> e, attempt |-> 1,
                                        was |-> FALSE]]
            /\ Dispatch(c, "save", Edited(latest[c], e))

\* A profile is toggled, deleted or saved: the update is a function.
EditProfile(c, e) ==
    /\ e \in Edits \ made /\ made' = made \cup {e}
    /\ Persist(c, e)

\* The fields of the form are changed in place, then saved as a document.  They
\* are open unless a save is in flight, also while the pause is being set.
EditField(c, e) ==
    /\ op[c].kind \notin {"save", "refresh"}
    /\ e \in Edits \ made /\ made' = made \cup {e}
    /\ latest' = [latest EXCEPT ![c] = Edited(@, e)]
    /\ UNCHANGED <<server, shown, pc, op, reply, blocked>>

SaveForm(c) ==
    /\ latest[c].content # latest[c].rev
    /\ Persist(c, NoEdit)
    /\ UNCHANGED made

(***************************************************************************)
(* toggleProcessing: optimistic, or a read while the pause is blocked.     *)
(***************************************************************************)
Toggle(c) ==
    /\ pc[c] = "idle"
    /\ UNCHANGED <<made, latest, blocked>>
    /\ IF "pause" \in blocked[c]
       THEN /\ op' = [op EXCEPT ![c] = [Idle EXCEPT !.kind = "repause"]]
            /\ pc' = [pc EXCEPT ![c] = "read"]
            /\ UNCHANGED <<server, shown, reply>>
       ELSE /\ op' = [op EXCEPT ![c] = [Idle EXCEPT !.kind = "pause", !.was = shown[c]]]
            /\ shown' = [shown EXCEPT ![c] = ~@]
            /\ Dispatch(c, "pause", ~shown[c])

(***************************************************************************)
(* The end of an operation, and what it publishes.                         *)
(***************************************************************************)
Ends(c) ==
    /\ pc' = [pc EXCEPT ![c] = "idle"]
    /\ op' = [op EXCEPT ![c] = Idle]
    /\ reply' = [reply EXCEPT ![c] = NoReply]

ApplyAuthoritative(c, body, p) ==
    /\ latest' = [latest EXCEPT ![c] = [content |-> body, rev |-> body]]
    /\ shown' = [shown EXCEPT ![c] = p]

AwaitReadWithReply(c) ==
    /\ pc' = [pc EXCEPT ![c] = "read"]
    /\ UNCHANGED <<latest, shown, reply, blocked>>

AwaitRead(c) ==
    /\ pc' = [pc EXCEPT ![c] = "read"]
    /\ reply' = [reply EXCEPT ![c] = NoReply]
    /\ UNCHANGED <<latest, shown, blocked>>

\* A refused functional edit is evaluated once more, on the refusing document.
Rebase(c, r) ==
    /\ op' = [op EXCEPT ![c].attempt = 2]
    /\ Dispatch(c, "save", [content |-> Applied(r.content, op[c].edit), rev |-> r.content])
    /\ UNCHANGED <<latest, shown, blocked>>

MayRebase(c, result) ==
    op[c].kind = "save" /\ op[c].attempt = 1 /\ op[c].edit # NoEdit /\ result = "conflict"

(***************************************************************************)
(* The monitor's answer to a mutation reaches the client.                  *)
(***************************************************************************)
Answered(c) ==
    /\ reply[c] # NoReply
    /\ UNCHANGED made
    /\ LET r == reply[c] IN
       \/ /\ MayRebase(c, r.result)
          /\ Rebase(c, r)
       \/ /\ UNCHANGED server
          /\ op[c].kind = "save" /\ ~MayRebase(c, r.result)
          /\ Ends(c)
          /\ IF r.result = "success"
             THEN /\ ApplyAuthoritative(c, r.content, r.paused)
                  /\ blocked' = [blocked EXCEPT ![c] = @ \ {"save"}]
             ELSE UNCHANGED <<latest, shown, blocked>>
       \/ /\ UNCHANGED server
          /\ op[c].kind = "pause" /\ r.result = "success"
          /\ Ends(c)
          /\ shown' = [shown EXCEPT ![c] = r.paused]
          /\ UNCHANGED <<latest, blocked>>
       \/ /\ UNCHANGED server
          /\ op[c].kind = "pause" /\ r.result # "success"
          /\ op' = [op EXCEPT ![c].kind = "refused"]
          /\ AwaitRead(c)

(***************************************************************************)
(* No answer is parsed: it is lost, truncated or too late.  The client     *)
(* reads the document, once; the monitor goes on with the request if it    *)
(* has it.                                                                 *)
(***************************************************************************)
Forsake(c) ==
    /\ queue' = [i \in 1..Len(queue) |->
                    IF queue[i].client = c THEN [queue[i] EXCEPT !.live = FALSE]
                                           ELSE queue[i]]
    /\ serving' = {IF m.request.client = c THEN [m EXCEPT !.request.live = FALSE]
                                           ELSE m : m \in serving}
    /\ UNCHANGED <<content, paused, faults>>

UnknownReplayed(c) ==
    /\ pc[c] = "wait"
    /\ UNCHANGED made
    /\ IF op[c].kind = "save" /\ op[c].attempt = 1 /\ op[c].edit # NoEdit
       THEN Rebase(c, [content |-> content])
       ELSE Forsake(c) /\ AwaitRead(c) /\ UNCHANGED op

Unknown(c) ==
    /\ pc[c] = "wait"
    /\ Forsake(c)
    /\ AwaitRead(c)
    /\ UNCHANGED <<made, op>>

(***************************************************************************)
(* The read after an operation, or instead of one, succeeds or fails.  A   *)
(* failed read takes back the pause shown, and closes the gate of what is  *)
(* in doubt: not of a pause the monitor has refused.                       *)
(***************************************************************************)
ReadSucceeds(c) ==
    /\ pc[c] = "read"
    /\ Ends(c)
    /\ ApplyAuthoritative(c, content, paused)
    /\ blocked' = [blocked EXCEPT ![c] =
          CASE op[c].kind \in {"save", "refresh"} -> @ \ {"save"}
            [] op[c].kind = "repause"             -> @ \ {"pause"}
            [] OTHER                              -> @]
    /\ UNCHANGED <<server, made>>

ReadFails(c) ==
    /\ pc[c] = "read"
    /\ Ends(c)
    /\ shown' = [shown EXCEPT ![c] = IF op[c].kind \in {"pause", "refused"}
                                      THEN op[c].was ELSE @]
    /\ blocked' = [blocked EXCEPT ![c] =
          CASE op[c].kind = "save"  -> @ \cup {"save"}
            [] op[c].kind = "pause" -> @ \cup {"pause"}
            [] OTHER                -> @]
    /\ UNCHANGED <<server, made, latest>>

Next ==
    \/ Begin
    \/ \E m \in serving : Refuse(m) \/ Store(m) \/ Fail(m)
    \/ \E c \in Clients :
          \/ \E e \in Edits : EditProfile(c, e) \/ EditField(c, e)
          \/ SaveForm(c) \/ Toggle(c) \/ Answered(c) \/ Unknown(c)
          \/ ReadSucceeds(c) \/ ReadFails(c)

Spec == Init /\ [][Next]_vars

(***************************************************************************)
(* An edit is applied at most once, whatever is refused, lost or answered  *)
(* late: a rebase follows only a refusal, and an unconfirmed save is read  *)
(* back and not sent again (lib/settings.js:7-9, hooks/settings.js:119-    *)
(* 124).                                                                   *)
(***************************************************************************)
EditAppliedOnce == \A e \in Edits : content[e] <= 1

(***************************************************************************)
(* No save undoes an edit another client has stored, and none changes the  *)
(* pause, although its client read both long before (services/settings.js: *)
(* 57-78).                                                                 *)
(***************************************************************************)
SavesKeepOthers ==
    [][/\ \A e \in Edits : content'[e] >= content[e]
       /\ paused' # paused => content' = content]_vars

(***************************************************************************)
(* What the page says after a refused save, "The latest version was        *)
(* loaded; try again." (lib/strings.js:279).                               *)
(***************************************************************************)
ConflictLoadsLatest ==
    [][\A c \in Clients :
          op[c].kind = "save" /\ reply[c].result = "conflict" /\ pc'[c] = "idle"
             => latest'[c].rev = reply[c].content]_vars

(***************************************************************************)
(* What the gate says it waits for, a successful and authoritative read    *)
(* (lib/mutation/gate.js:1-3): once a client may save again, no save it    *)
(* sent before is still to be carried out.                                 *)
(***************************************************************************)
ReconciledIsFinal ==
    \A c \in Clients :
        pc[c] = "idle" /\ "save" \notin blocked[c] =>
           /\ \A i \in 1..Len(queue) : queue[i].client = c => queue[i].kind = "pause"
           /\ \A m \in serving : m.request.client = c => m.request.kind = "pause"
=============================================================================
