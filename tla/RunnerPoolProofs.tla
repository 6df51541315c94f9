-------------------------- MODULE RunnerPoolProofs --------------------------
(***************************************************************************)
(* Theorems about RunnerPool for any number of runners, sockets, jobs and  *)
(* assignments.                                                            *)
(***************************************************************************)
EXTENDS RunnerPool, TLAPS

Unregistered(s) == record[s].phase = "idle" /\ \A r \in Runners : registry[r] # s

\* A socket registers at most once, before anything else it does, and until
\* then no record of it exists.
WiredAt(s) ==
    /\ sock[s] # "new" => rid[s] \in Runners
    /\ sock[s] = "new" => chain[s] = <<>> /\ work[s] = Free /\ Unregistered(s)
    /\ \A i \in 1..Len(chain[s]) :
         chain[s][i].kind = "register" => i = 1 /\ work[s] = Free /\ Unregistered(s)
    /\ work[s].kind = "rejoin" => Unregistered(s)

Wired == \A s \in Sockets : WiredAt(s)

-----------------------------------------------------------------------------
(***************************************************************************)
(* Type correctness.                                                       *)
(***************************************************************************)
\* The helpers of the model return records and sequences of the right sets.
LEMMA HelperTypes ==
    /\ IdleRecord \in Records
    /\ Free \in Work
    /\ NoTask \in Tasks
  BY DEF IdleRecord, Records, Free, Work, NoTask, Tasks, Asgs

\* markIdle and markBusy leave records of the declared set behind.
LEMMA RecordTypes ==
    ASSUME NEW rec \in Records
    PROVE  /\ Idled(rec) \in Records
           /\ \A j \in Jobs, a \in Asgs : Busied(rec, j, a) \in Records
           /\ \A p \in BOOLEAN : [rec EXCEPT !.paused = p] \in Records
           /\ [rec EXCEPT !.cancelSent = TRUE] \in Records
           /\ rec.phase = "running" => rec.job \in Jobs /\ rec.asg \in Asgs
           /\ rec.phase = "running" => [rec EXCEPT !.phase = "settling"] \in Records
           /\ rec.job \in Jobs => rec.phase # "idle"
  BY PoolAssumption DEF Idled, Busied, Records, Asgs

\* The head of a non-empty chain is an event, and so are the rest of it.
LEMMA ReadyTypes ==
    ASSUME TypeOK, NEW s \in Sockets, NEW kind, Ready(s, kind)
    PROVE  /\ Tail(chain[s]) \in Seq(Events)
           /\ Head(chain[s]) \in Events
           /\ chain[s] # <<>>
           /\ work[s] = Free
  <1>1. chain[s] \in Seq(Events)
    BY DEF TypeOK
  <1> QED
    BY <1>1 DEF Ready

\* The pool starts with no record, no socket and every job pending.
LEMMA InitType == Init => TypeOK
  BY HelperTypes, PoolAssumption DEF Init, TypeOK

\* register() keeps the types of the registry, the records and the sockets.
LEMMA RegisterType ==
    ASSUME TypeOK, NEW s \in Sockets, Register(s)
    PROVE  /\ registry' \in [Runners -> Sockets \union {NoSocket}]
           /\ record' \in [Sockets -> Records]
           /\ sock' \in [Sockets -> {"new", "open", "closing", "closed"}]
  BY HelperTypes DEF Register, TypeOK, Terminated

\* Every operation of the pool keeps the types.
LEMMA StepType == TypeOK /\ Wired /\ [Next]_vars => TypeOK'
  <1> SUFFICES ASSUME TypeOK, Wired, [Next]_vars PROVE TypeOK'
    OBVIOUS
  <1>1. ASSUME NEW s \in Sockets, RegisterFresh(s) PROVE TypeOK'
    BY <1>1, ReadyTypes, RegisterType DEF TypeOK, RegisterFresh, registryVars, networkVars, handlerVars, jobVars, Consume
  <1>2. ASSUME NEW s \in Sockets, RegisterOverIdle(s) PROVE TypeOK'
    BY <1>2, ReadyTypes, HelperTypes, RecordTypes DEF TypeOK, RegisterOverIdle, registryVars, networkVars, handlerVars, jobVars, Consume, Terminated, LeaseLost, Work, Wired, WiredAt
  <1>3. ASSUME NEW s \in Sockets, RegisterOverBusy(s) PROVE TypeOK'
    BY <1>3, ReadyTypes, HelperTypes, RecordTypes DEF TypeOK, RegisterOverBusy, registryVars, networkVars, handlerVars, jobVars, Consume, Terminated, LeaseLost, Work, Wired, WiredAt
  <1>4. ASSUME NEW s \in Sockets, RegisterAfterRecovery(s) PROVE TypeOK'
    BY <1>4, RegisterType, HelperTypes DEF TypeOK, RegisterAfterRecovery, registryVars, networkVars, handlerVars, jobVars, RequeueLostWork, Work
  <1>5. ASSUME NEW s \in Sockets, HandleResult(s) PROVE TypeOK'
    <2> DEFINE r == Head(chain[s])
    <2>1. r \in Events /\ r.kind = "result" /\ Tail(chain[s]) \in Seq(Events)
      BY <1>5, ReadyTypes DEF HandleResult, Ready
    <2>2. r.job \in Jobs /\ r.asg \in Asgs
      BY <2>1 DEF Events
    <2>3. CASE ResultClaimable(s, r.job, r.asg)
      <3>1. record[s] \in Records /\ record[s].phase = "running"
        BY <2>3 DEF TypeOK, ResultClaimable
      <3>2. [record[s] EXCEPT !.phase = "settling"] \in Records
        BY <3>1, RecordTypes
      <3>3. [kind |-> "settle", job |-> r.job, asg |-> r.asg] \in Work
        BY <2>2 DEF Work
      <3> HIDE DEF r
      <3>4. record' = [record EXCEPT ![s].phase = "settling"]
            /\ work' = [work EXCEPT ![s] = [kind |-> "settle", job |-> r.job, asg |-> r.asg]]
        BY <1>5, <2>3 DEF HandleResult, r
      <3>5. chain' = [chain EXCEPT ![s] = Tail(@)]
        BY <1>5 DEF HandleResult, Consume
      <3> QED
        BY <1>5, <2>1, <3>2, <3>3, <3>4, <3>5 DEF TypeOK, HandleResult, registryVars, networkVars, handlerVars, jobVars
    <2>4. CASE ~ResultClaimable(s, r.job, r.asg)
      BY <1>5, <2>1, <2>4 DEF TypeOK, HandleResult, Consume, registryVars, networkVars, handlerVars, jobVars
    <2> QED
      BY <2>3, <2>4
  <1>6. ASSUME NEW s \in Sockets, FinishResult(s) PROVE TypeOK'
    BY <1>6, RecordTypes, HelperTypes DEF TypeOK, FinishResult, registryVars, networkVars, handlerVars, jobVars, Work
  <1>7. ASSUME NEW s \in Sockets, HandleClose(s) PROVE TypeOK'
    <2>1. Tail(chain[s]) \in Seq(Events)
      BY <1>7, ReadyTypes DEF HandleClose
    <2>2. LeaseLost(s) =>
            [kind |-> "leave", job |-> record[s].job, asg |-> record[s].asg] \in Work
      BY RecordTypes DEF LeaseLost, TypeOK, Work
    <2>3. work' \in [Sockets -> Work]
      BY <1>7, <2>2 DEF TypeOK, HandleClose
    <2>4. record' \in [Sockets -> Records]
      BY <1>7, HelperTypes DEF TypeOK, HandleClose
    <2>5. registry' \in [Runners -> Sockets \union {NoSocket}]
      BY <1>7 DEF TypeOK, HandleClose
    <2> QED
      BY <1>7, <2>1, <2>3, <2>4, <2>5 DEF TypeOK, HandleClose, Consume, registryVars, networkVars, handlerVars, jobVars
  <1>8. ASSUME NEW s \in Sockets, FinishClose(s) PROVE TypeOK'
    BY <1>8, HelperTypes DEF TypeOK, FinishClose, registryVars, networkVars, handlerVars, jobVars, RequeueLostWork, Work
  <1>9. ASSUME NEW s \in Sockets, SocketClose(s) PROVE TypeOK'
    BY <1>9 DEF TypeOK, SocketClose, registryVars, networkVars, handlerVars, jobVars, Events
  <1>10. ASSUME NEW s \in Sockets, EvictStaleRunner(s) PROVE TypeOK'
    BY <1>10 DEF TypeOK, EvictStaleRunner, registryVars, networkVars, handlerVars, jobVars
  <1>11. ASSUME NEW s \in Sockets, RelayRead(s) PROVE TypeOK'
    BY <1>11 DEF TypeOK, RelayRead, registryVars, networkVars, handlerVars, jobVars
  <1>12. ASSUME NEW s \in Sockets, RelaySend(s) PROVE TypeOK'
    BY <1>12, RecordTypes DEF TypeOK, RelaySend, registryVars, networkVars, handlerVars, jobVars
  <1>13. ASSUME NEW r \in Runners, RunnerDrop(r) PROVE TypeOK'
    BY <1>13, HelperTypes DEF TypeOK, RunnerDrop, registryVars, networkVars, handlerVars, jobVars
  <1>14. ASSUME NEW r \in Runners, RunnerFinish(r) PROVE TypeOK'
    BY <1>14, HelperTypes DEF TypeOK, RunnerFinish, registryVars, networkVars, handlerVars, jobVars, Tasks, Events, NoTask
  <1>15. ASSUME NEW r \in Runners, SetPaused(r) PROVE TypeOK'
    <2>1. registry[r] \in Sockets /\ record[registry[r]] \in Records
      BY <1>15 DEF TypeOK, SetPaused
    <2>2. PICK p \in BOOLEAN : record' = [record EXCEPT ![registry[r]].paused = p]
      BY <1>15 DEF SetPaused
    <2>3. [record[registry[r]] EXCEPT !.paused = p] \in Records
      BY <2>1, RecordTypes
    <2>4. record' \in [Sockets -> Records]
      BY <2>1, <2>2, <2>3 DEF TypeOK
    <2> QED
      BY <1>15, <2>4 DEF TypeOK, SetPaused, registryVars, networkVars, handlerVars, jobVars
  <1>16. ASSUME NEW r \in Runners, NEW s \in Sockets, Connect(r, s) PROVE TypeOK'
    BY <1>16 DEF TypeOK, Connect, registryVars, networkVars, handlerVars, jobVars, Events
  <1>17. ASSUME NEW j \in Jobs, StopFile(j) PROVE TypeOK'
    BY <1>17 DEF TypeOK, StopFile, registryVars, networkVars, handlerVars, jobVars
  <1>18. ASSUME NEW j \in Jobs, NEW s \in Sockets, Assign(j, s) PROVE TypeOK'
    <2>1. asgCount + 1 \in Asgs /\ asgCount + 1 \in 0..MaxAssign
      BY <1>18, PoolAssumption DEF TypeOK, Assign, Asgs
    <2>2. record[s] \in Records
      BY DEF TypeOK
    <2>3. Busied(record[s], j, asgCount + 1) \in Records
      BY <2>1, <2>2, RecordTypes
    <2>4. record' \in [Sockets -> Records]
      BY <1>18, <2>3 DEF TypeOK, Assign
    <2>5. [job |-> j, asg |-> asgCount + 1] \in Tasks
      BY <2>1 DEF Tasks
    <2>6. task' \in [Runners -> Tasks]
      BY <1>18, <2>5 DEF TypeOK, Assign
    <2> QED
      BY <1>18, <2>1, <2>4, <2>6 DEF TypeOK, Assign, registryVars, networkVars, handlerVars, jobVars
  <1>19. CASE BeginShutdown
    BY <1>19 DEF TypeOK, BeginShutdown, registryVars, networkVars, handlerVars, jobVars
  <1>20. CASE UNCHANGED vars
    BY <1>20 DEF TypeOK, vars, registryVars, networkVars, handlerVars, jobVars
  <1> QED
    BY <1>1, <1>2, <1>3, <1>4, <1>5, <1>6, <1>7, <1>8, <1>9, <1>10, <1>11, <1>12, <1>13, <1>14, <1>15, <1>16, <1>17, <1>18, <1>19, <1>20 DEF Next, Handle

-----------------------------------------------------------------------------
(***************************************************************************)
(* Wired is inductive.                                                     *)
(***************************************************************************)
\* What handling an event, and observing another one, does to a chain.
LEMMA TailElements ==
    ASSUME NEW q \in Seq(Events), q # <<>>
    PROVE  /\ Len(Tail(q)) = Len(q) - 1
           /\ \A i \in 1..Len(Tail(q)) : i + 1 \in 1..Len(q) /\ Tail(q)[i] = q[i + 1]
           /\ 1 \in 1..Len(q) /\ Head(q) = q[1]
  OBVIOUS

\* Observing an event adds it at the end of a chain and keeps the others.
LEMMA AppendElements ==
    ASSUME NEW q \in Seq(Events), NEW e \in Events
    PROVE  \A i \in 1..Len(Append(q, e)) :
              \/ i \in 1..Len(q) /\ Append(q, e)[i] = q[i]
              \/ i = Len(q) + 1 /\ Append(q, e)[i] = e
  OBVIOUS

\* A chain holds its register event in front, once the head is gone not at all.
LEMMA TailWired ==
    ASSUME TypeOK, Wired, NEW s \in Sockets, chain[s] # <<>>
    PROVE  \A i \in 1..Len(Tail(chain[s])) : Tail(chain[s])[i].kind # "register"
  <1>1. chain[s] \in Seq(Events)
    BY DEF TypeOK
  <1> QED
    BY <1>1, TailElements DEF Wired, WiredAt

\* Observing an event other than register on a used socket keeps it wired.
LEMMA AppendWired ==
    ASSUME TypeOK, NEW s \in Sockets, NEW e \in Events, e.kind # "register"
    PROVE  \A i \in 1..Len(Append(chain[s], e)) :
              Append(chain[s], e)[i].kind = "register" =>
                 i \in 1..Len(chain[s]) /\ chain[s][i].kind = "register"
  <1>1. chain[s] \in Seq(Events)
    BY DEF TypeOK
  <1> QED
    BY <1>1, AppendElements

\* When a register event is handled the socket has no record yet.
LEMMA ReadyRegister ==
    ASSUME TypeOK, Wired, NEW s \in Sockets, Ready(s, "register")
    PROVE  Unregistered(s)
  <1>1. chain[s] \in Seq(Events)
    BY DEF TypeOK
  <1>2. 1 \in 1..Len(chain[s]) /\ chain[s][1].kind = "register"
    BY <1>1, TailElements DEF Ready
  <1> QED
    BY <1>2 DEF Wired, WiredAt

\* Every operation keeps the sockets wired.
LEMMA StepWired == TypeOK /\ Wired /\ [Next]_vars => Wired'
  <1> SUFFICES ASSUME TypeOK, Wired, [Next]_vars PROVE Wired'
    OBVIOUS
  <1>1. ASSUME NEW s \in Sockets, RegisterFresh(s) PROVE Wired'
    <2>1. chain[s] # <<>> /\ work[s] = Free /\ chain' = [chain EXCEPT ![s] = Tail(@)]
      BY <1>1, ReadyTypes DEF RegisterFresh, Ready, Consume
    <2>2. sock[s] # "new" /\ rid[s] \in Runners
      BY <2>1 DEF Wired, WiredAt, TypeOK
    <2>3. \A i \in 1..Len(chain'[s]) : chain'[s][i].kind # "register"
      BY <2>1, TailWired DEF TypeOK
    <2>4. \A t \in Sockets : t # s /\ Unregistered(t) => Unregistered(t)'
      BY <1>1 DEF TypeOK, RegisterFresh, Unregistered, Register, Terminated, IdleRecord
    <2>5. work'[s].kind = "rejoin" => Unregistered(s)'
      BY <1>1, <2>1 DEF RegisterFresh, Free
    <2>6. sock'[s] # "new" /\ rid' = rid
      BY <1>1, <2>2 DEF TypeOK, RegisterFresh, networkVars, Register, Terminated, IdleRecord
    <2>7. ASSUME NEW t \in Sockets, t # s PROVE WiredAt(t)'
      <3>1. chain'[t] = chain[t] /\ work'[t] = work[t] /\ (sock'[t] = "new" <=> sock[t] = "new")
        BY <1>1, <2>1, <2>7 DEF TypeOK, RegisterFresh, networkVars, Register, Terminated, IdleRecord
      <3> QED
        BY <2>4, <2>6, <2>7, <3>1 DEF Wired, WiredAt
    <2>8. WiredAt(s)'
      BY <2>2, <2>3, <2>5, <2>6 DEF WiredAt
    <2> QED
      BY <2>7, <2>8 DEF Wired
  <1>2. ASSUME NEW s \in Sockets, RegisterOverIdle(s) PROVE Wired'
    <2>1. chain[s] # <<>> /\ work[s] = Free /\ chain' = [chain EXCEPT ![s] = Tail(@)]
      BY <1>2, ReadyTypes DEF RegisterOverIdle, Ready, Consume
    <2>2. sock[s] # "new" /\ rid[s] \in Runners
      BY <2>1 DEF Wired, WiredAt, TypeOK
    <2>3. \A i \in 1..Len(chain'[s]) : chain'[s][i].kind # "register"
      BY <2>1, TailWired DEF TypeOK
    <2>4. \A t \in Sockets : t # s /\ Unregistered(t) => Unregistered(t)'
      BY <1>2 DEF TypeOK, RegisterOverIdle, Unregistered, Terminated, IdleRecord
    <2>5. work'[s].kind = "rejoin" => Unregistered(s)'
      BY <1>2, <2>1 DEF RegisterOverIdle, Free
    <2>6. sock'[s] # "new" /\ rid' = rid
      BY <1>2, <2>2 DEF TypeOK, RegisterOverIdle, networkVars, Terminated, IdleRecord
    <2>7. ASSUME NEW t \in Sockets, t # s PROVE WiredAt(t)'
      <3>1. chain'[t] = chain[t] /\ work'[t] = work[t] /\ (sock'[t] = "new" <=> sock[t] = "new")
        BY <1>2, <2>1, <2>7 DEF TypeOK, RegisterOverIdle, networkVars, Terminated, IdleRecord
      <3> QED
        BY <2>4, <2>6, <2>7, <3>1 DEF Wired, WiredAt
    <2>8. WiredAt(s)'
      BY <2>2, <2>3, <2>5, <2>6 DEF WiredAt
    <2> QED
      BY <2>7, <2>8 DEF Wired
  <1>3. ASSUME NEW s \in Sockets, RegisterOverBusy(s) PROVE Wired'
    <2>1. chain[s] # <<>> /\ work[s] = Free /\ chain' = [chain EXCEPT ![s] = Tail(@)]
      BY <1>3, ReadyTypes DEF RegisterOverBusy, Ready, Consume
    <2>2. sock[s] # "new" /\ rid[s] \in Runners
      BY <2>1 DEF Wired, WiredAt, TypeOK
    <2>3. \A i \in 1..Len(chain'[s]) : chain'[s][i].kind # "register"
      BY <2>1, TailWired DEF TypeOK
    <2>4. \A t \in Sockets : t # s /\ Unregistered(t) => Unregistered(t)'
      BY <1>3, <2>2, PoolAssumption DEF TypeOK, RegisterOverBusy, Unregistered, IdleRecord
    <2>5. work'[s].kind = "rejoin" => Unregistered(s)'
      <3>1. Unregistered(s)
        BY <1>3, ReadyRegister DEF RegisterOverBusy
      <3> QED
        BY <1>3, <2>2, <3>1, PoolAssumption DEF RegisterOverBusy, Unregistered, TypeOK, IdleRecord
    <2>6. sock'[s] # "new" /\ rid' = rid
      BY <1>3, <2>2 DEF TypeOK, RegisterOverBusy, networkVars, Terminated, IdleRecord
    <2>7. ASSUME NEW t \in Sockets, t # s PROVE WiredAt(t)'
      <3>1. chain'[t] = chain[t] /\ work'[t] = work[t] /\ (sock'[t] = "new" <=> sock[t] = "new")
        BY <1>3, <2>1, <2>7 DEF TypeOK, RegisterOverBusy, networkVars, Terminated, IdleRecord
      <3> QED
        BY <2>4, <2>6, <2>7, <3>1 DEF Wired, WiredAt
    <2>8. WiredAt(s)'
      BY <2>2, <2>3, <2>5, <2>6 DEF WiredAt
    <2> QED
      BY <2>7, <2>8 DEF Wired
  <1>4. ASSUME NEW s \in Sockets, RegisterAfterRecovery(s) PROVE Wired'
    BY <1>4 DEF TypeOK, Wired, WiredAt, Unregistered, RegisterAfterRecovery, registryVars, networkVars, handlerVars, jobVars, Register, Terminated, Free, Idled, IdleRecord
  <1>5. ASSUME NEW s \in Sockets, HandleResult(s) PROVE Wired'
    BY <1>5, ReadyTypes, TailWired DEF TypeOK, Wired, WiredAt, Unregistered, HandleResult, registryVars, networkVars, handlerVars, jobVars, Consume, Ready
  <1>6. ASSUME NEW s \in Sockets, FinishResult(s) PROVE Wired'
    BY <1>6 DEF TypeOK, Wired, WiredAt, Unregistered, FinishResult, registryVars, networkVars, handlerVars, jobVars, Free, Idled, IdleRecord
  <1>7. ASSUME NEW s \in Sockets, HandleClose(s) PROVE Wired'
    <2>1. chain[s] # <<>> /\ work[s] = Free /\ chain' = [chain EXCEPT ![s] = Tail(@)]
      BY <1>7, ReadyTypes DEF HandleClose, Ready, Consume
    <2>2. sock[s] # "new" /\ rid[s] \in Runners
      BY <2>1 DEF Wired, WiredAt, TypeOK
    <2>3. \A i \in 1..Len(chain'[s]) : chain'[s][i].kind # "register"
      BY <2>1, TailWired DEF TypeOK
    <2>4. \A t \in Sockets : t # s /\ Unregistered(t) => Unregistered(t)'
      BY <1>7, <2>2, PoolAssumption DEF TypeOK, HandleClose, Unregistered, IdleRecord
    <2>5. work'[s].kind = "rejoin" => Unregistered(s)'
      BY <1>7, <2>1 DEF HandleClose, TypeOK, Free
    <2>6. sock'[s] # "new" /\ rid' = rid
      BY <1>7, <2>2 DEF TypeOK, HandleClose, networkVars, IdleRecord
    <2>7. ASSUME NEW t \in Sockets, t # s PROVE WiredAt(t)'
      <3>1. chain'[t] = chain[t] /\ work'[t] = work[t] /\ (sock'[t] = "new" <=> sock[t] = "new")
        BY <1>7, <2>1, <2>7 DEF TypeOK, HandleClose, networkVars, IdleRecord
      <3> QED
        BY <2>4, <2>6, <2>7, <3>1 DEF Wired, WiredAt
    <2>8. WiredAt(s)'
      BY <2>2, <2>3, <2>5, <2>6 DEF WiredAt
    <2> QED
      BY <2>7, <2>8 DEF Wired
  <1>8. ASSUME NEW s \in Sockets, FinishClose(s) PROVE Wired'
    <2>1. work' = [work EXCEPT ![s] = Free] /\ work[s].kind = "leave"
      BY <1>8 DEF FinishClose
    <2>2. UNCHANGED <<registry, record, sock, rid, chain>>
      BY <1>8 DEF FinishClose, registryVars, networkVars
    <2>3. Free.kind # "rejoin"
      BY DEF Free
    <2> QED
      BY <2>1, <2>2, <2>3 DEF TypeOK, Wired, WiredAt, Unregistered
  <1>9. ASSUME NEW s \in Sockets, SocketClose(s) PROVE Wired'
    BY <1>9, AppendWired DEF TypeOK, Wired, WiredAt, Unregistered, SocketClose, registryVars, networkVars, handlerVars, jobVars
  <1>10. ASSUME NEW s \in Sockets, EvictStaleRunner(s) PROVE Wired'
    BY <1>10 DEF TypeOK, Wired, WiredAt, Unregistered, EvictStaleRunner, registryVars, networkVars, handlerVars, jobVars
  <1>11. ASSUME NEW s \in Sockets, RelayRead(s) PROVE Wired'
    BY <1>11 DEF TypeOK, Wired, WiredAt, Unregistered, RelayRead, registryVars, networkVars, handlerVars, jobVars
  <1>12. ASSUME NEW s \in Sockets, RelaySend(s) PROVE Wired'
    BY <1>12 DEF TypeOK, Wired, WiredAt, Unregistered, RelaySend, registryVars, networkVars, handlerVars, jobVars
  <1>13. ASSUME NEW r \in Runners, RunnerDrop(r) PROVE Wired'
    BY <1>13 DEF TypeOK, Wired, WiredAt, Unregistered, RunnerDrop, registryVars, networkVars, handlerVars, jobVars
  <1>14. ASSUME NEW r \in Runners, RunnerFinish(r) PROVE Wired'
    BY <1>14, AppendWired DEF TypeOK, Wired, WiredAt, Unregistered, RunnerFinish, registryVars, networkVars, handlerVars, jobVars
  <1>15. ASSUME NEW r \in Runners, SetPaused(r) PROVE Wired'
    BY <1>15 DEF TypeOK, Wired, WiredAt, Unregistered, SetPaused, registryVars, networkVars, handlerVars, jobVars
  <1>16. ASSUME NEW r \in Runners, NEW s \in Sockets, Connect(r, s) PROVE Wired'
    BY <1>16, AppendWired DEF TypeOK, Wired, WiredAt, Unregistered, Connect, registryVars, networkVars, handlerVars, jobVars
  <1>17. ASSUME NEW j \in Jobs, StopFile(j) PROVE Wired'
    BY <1>17 DEF TypeOK, Wired, WiredAt, Unregistered, StopFile, registryVars, networkVars, handlerVars, jobVars
  <1>18. ASSUME NEW j \in Jobs, NEW s \in Sockets, Assign(j, s) PROVE Wired'
    <2>1. Registered(s) /\ record' = [record EXCEPT ![s] = Busied(@, j, asgCount + 1)]
      BY <1>18 DEF Assign
    <2>2. ~Unregistered(s)
      BY <2>1 DEF Registered, Unregistered
    <2>3. \A t \in Sockets : Unregistered(t) => Unregistered(t)'
      BY <1>18, <2>1, <2>2 DEF Assign, Unregistered, TypeOK, registryVars, networkVars, handlerVars, jobVars
    <2> QED
      BY <1>18, <2>3 DEF TypeOK, Wired, WiredAt, Assign, registryVars, networkVars, handlerVars, jobVars
  <1>19. CASE BeginShutdown
    BY <1>19 DEF TypeOK, Wired, WiredAt, Unregistered, BeginShutdown, registryVars, networkVars, handlerVars, jobVars
  <1>20. CASE UNCHANGED vars
    BY <1>20 DEF TypeOK, Wired, WiredAt, Unregistered, vars, registryVars, networkVars, handlerVars, jobVars
  <1> QED
    BY <1>1, <1>2, <1>3, <1>4, <1>5, <1>6, <1>7, <1>8, <1>9, <1>10, <1>11, <1>12, <1>13, <1>14, <1>15, <1>16, <1>17, <1>18, <1>19, <1>20 DEF Next, Handle

-----------------------------------------------------------------------------
(***************************************************************************)
(* Every running job has exactly one party that answers for it.            *)
(***************************************************************************)
\* Initially nothing is leased and nothing is connected.
LEMMA InitInvariant == Init => Wired /\ ExclusiveLease
  BY PoolAssumption DEF Init, Wired, WiredAt, Unregistered, IdleRecord, Free,
                        ExclusiveLease, Leased, Handled

\* A step that neither grants nor claims nor ends a lease.
LEMMA LeaseUntouched ==
    ASSUME ExclusiveLease,
           \A s \in Sockets, j \in Jobs : s \in Leased(j)' <=> s \in Leased(j),
           \A s \in Sockets, j \in Jobs : s \in Leased(j) => record'[s].asg = record[s].asg,
           UNCHANGED <<work, lastAsg>>,
           \A j \in Jobs : job'[j] = "running" <=> job[j] = "running"
    PROVE  ExclusiveLease'
  <1>1. \A j \in Jobs : Leased(j)' = Leased(j) /\ Handled(j)' = Handled(j)
    BY DEF Leased, Handled
  <1> QED
    BY <1>1 DEF ExclusiveLease, Leased, Handled

\* A step in which the handler of s claims the lease that the record of t holds.
LEMMA LeaseClaimed ==
    ASSUME TypeOK, ExclusiveLease, NEW s \in Sockets, NEW t \in Sockets,
           record[t].phase = "running", record[t].job \in Jobs, work[s] = Free,
           work'[s].job = record[t].job, work'[s].asg = record[t].asg,
           \A u \in Sockets \ {s} : work'[u] = work[u],
           \A u \in Sockets \ {t} : record'[u] = record[u],
           record'[t].phase # "running",
           UNCHANGED <<job, lastAsg>>
    PROVE  ExclusiveLease'
  <1> SUFFICES ASSUME NEW j \in Jobs
               PROVE  /\ \A u, v \in Leased(j)' \union Handled(j)' : u = v
                      /\ Leased(j)' \intersect Handled(j)' = {}
                      /\ job'[j] = "running" <=> Leased(j)' \union Handled(j)' # {}
                      /\ \A u \in Leased(j)' : record'[u].asg = lastAsg'[j]
                      /\ \A u \in Handled(j)' : work'[u].asg = lastAsg'[j]
    BY DEF ExclusiveLease
  <1>1. Leased(j)' = Leased(j) \ {t}
    BY DEF Leased
  <1>2. Handled(j)' = IF j = record[t].job THEN Handled(j) \union {s} ELSE Handled(j)
    BY PoolAssumption DEF Handled, Free
  <1>3. CASE j = record[t].job
    <2>1. t \in Leased(j) /\ Leased(j) = {t} /\ Handled(j) = {}
      BY <1>3 DEF ExclusiveLease, Leased, Handled
    <2>2. work'[s].asg = lastAsg[j]
      BY <1>3, <2>1 DEF ExclusiveLease
    <2> QED
      BY <1>1, <1>2, <1>3, <2>1, <2>2 DEF ExclusiveLease
  <1>4. CASE j # record[t].job
    <2>1. t \notin Leased(j) /\ Leased(j)' = Leased(j) /\ Handled(j)' = Handled(j)
      BY <1>1, <1>2, <1>4 DEF Leased
    <2>2. \A u \in Leased(j) : record'[u].asg = record[u].asg
      BY <2>1 DEF Leased
    <2>3. \A u \in Handled(j) : work'[u].asg = work[u].asg
      BY <1>4, PoolAssumption DEF Handled, Free
    <2> QED
      BY <2>1, <2>2, <2>3 DEF ExclusiveLease
  <1> QED
    BY <1>3, <1>4

\* A step in which the handler of s settles or recovers the lease it claimed.
LEMMA LeaseEnded ==
    ASSUME TypeOK, ExclusiveLease, NEW s \in Sockets, work[s].job \in Jobs,
           work' = [work EXCEPT ![s] = Free],
           \A u \in Sockets, j \in Jobs : u \in Leased(j)' <=> u \in Leased(j),
           \A u \in Sockets, j \in Jobs : u \in Leased(j) => record'[u].asg = record[u].asg,
           \A j \in Jobs \ {work[s].job} : job'[j] = job[j],
           job'[work[s].job] # "running",
           UNCHANGED lastAsg
    PROVE  ExclusiveLease'
  <1> SUFFICES ASSUME NEW j \in Jobs
               PROVE  /\ \A u, v \in Leased(j)' \union Handled(j)' : u = v
                      /\ Leased(j)' \intersect Handled(j)' = {}
                      /\ job'[j] = "running" <=> Leased(j)' \union Handled(j)' # {}
                      /\ \A u \in Leased(j)' : record'[u].asg = lastAsg'[j]
                      /\ \A u \in Handled(j)' : work'[u].asg = lastAsg'[j]
    BY DEF ExclusiveLease
  <1>1. Leased(j)' = Leased(j)
    BY DEF Leased
  <1>2. Handled(j)' = Handled(j) \ {s}
    BY PoolAssumption DEF TypeOK, Handled, Free
  <1>3. CASE j = work[s].job
    <2>1. Handled(j) = {s} /\ Leased(j) = {}
      BY <1>3 DEF ExclusiveLease, Leased, Handled
    <2> QED
      BY <1>1, <1>2, <1>3, <2>1
  <1>4. CASE j # work[s].job
    <2>1. Handled(j)' = Handled(j) /\ \A u \in Handled(j) : work'[u].asg = work[u].asg
      BY <1>2, <1>4 DEF TypeOK, Handled
    <2>2. \A u \in Leased(j) : record'[u].asg = record[u].asg
      BY DEF Leased
    <2> QED
      BY <1>1, <1>4, <2>1, <2>2 DEF ExclusiveLease
  <1> QED
    BY <1>3, <1>4

\* register() forgets no lease, because the socket has no record yet.
LEMMA RegisterKeepsLeases ==
    ASSUME TypeOK, NEW s \in Sockets, Unregistered(s), Register(s)
    PROVE  \A u \in Sockets, k \in Jobs :
              /\ u \in Leased(k)' <=> u \in Leased(k)
              /\ u \in Leased(k) => record'[u].asg = record[u].asg
  <1>1. record' = record \/ record' = [record EXCEPT ![s] = IdleRecord]
    BY DEF Register
  <1>2. record[s].phase = "idle" /\ IdleRecord.phase = "idle"
    BY DEF Unregistered, IdleRecord
  <1>3. CASE record' = record
    BY <1>3 DEF Leased
  <1>4. CASE record' = [record EXCEPT ![s] = IdleRecord]
    <2>1. record'[s].phase = "idle" /\ \A u \in Sockets \ {s} : record'[u] = record[u]
      BY <1>2, <1>4 DEF TypeOK
    <2> QED
      BY <1>2, <2>1 DEF Leased
  <1> QED
    BY <1>1, <1>3, <1>4

\* Every operation leaves one party to answer for each running job.
LEMMA StepExclusive == TypeOK /\ Wired /\ ExclusiveLease /\ [Next]_vars => ExclusiveLease'
  <1> SUFFICES ASSUME TypeOK, Wired, ExclusiveLease, [Next]_vars PROVE ExclusiveLease'
    OBVIOUS
  <1>1. ASSUME NEW s \in Sockets, RegisterFresh(s) PROVE ExclusiveLease'
    <2>1. Unregistered(s) /\ Register(s)
      BY <1>1, ReadyRegister DEF RegisterFresh
    <2>2. UNCHANGED <<work, job, lastAsg>>
      BY <1>1 DEF RegisterFresh, jobVars
    <2> QED
      BY <2>1, <2>2, RegisterKeepsLeases, LeaseUntouched
  <1>2. ASSUME NEW s \in Sockets, RegisterOverIdle(s) PROVE ExclusiveLease'
    <2>1. Unregistered(s)
      BY <1>2, ReadyRegister DEF RegisterOverIdle
    <2>2. \A t \in Sockets, k \in Jobs : t \in Leased(k)' <=> t \in Leased(k)
      BY <1>2, <2>1 DEF TypeOK, Leased, RegisterOverIdle, registryVars, networkVars, handlerVars, jobVars, IdleRecord, Unregistered, LeaseLost
    <2>3. \A t \in Sockets, k \in Jobs : t \in Leased(k) => record'[t].asg = record[t].asg
      BY <1>2, <2>1 DEF TypeOK, Leased, RegisterOverIdle, registryVars, networkVars, handlerVars, jobVars, IdleRecord, Unregistered, LeaseLost
    <2>4. UNCHANGED <<work, job, lastAsg>>
      BY <1>2 DEF RegisterOverIdle, registryVars, networkVars, handlerVars, jobVars, IdleRecord, Unregistered, LeaseLost
    <2> QED
      BY <2>2, <2>3, <2>4, LeaseUntouched
  <1>3. ASSUME NEW s \in Sockets, RegisterOverBusy(s) PROVE ExclusiveLease'
    <2> DEFINE t == registry[rid[s]]
    <2>1. Unregistered(s) /\ work[s] = Free
      BY <1>3, ReadyRegister, ReadyTypes DEF RegisterOverBusy
    <2>2. rid[s] \in Runners
      BY <1>3, ReadyTypes DEF RegisterOverBusy, Wired, WiredAt, TypeOK
    <2>3. t \in Sockets
      BY <1>3, <2>2 DEF RegisterOverBusy, TypeOK
    <2>4. record[t].phase = "running" /\ record[t].job \in Jobs
      BY <1>3 DEF RegisterOverBusy, LeaseLost
    <2>5. record' = [record EXCEPT ![t] = IdleRecord]
      BY <1>3 DEF RegisterOverBusy
    <2>6. work' = [work EXCEPT ![s] =
                     [kind |-> "rejoin", job |-> record[t].job, asg |-> record[t].asg]]
      BY <1>3 DEF RegisterOverBusy
    <2>7. UNCHANGED <<job, lastAsg>>
      BY <1>3 DEF RegisterOverBusy, jobVars
    <2> HIDE DEF t
    <2>8. /\ work'[s].job = record[t].job /\ work'[s].asg = record[t].asg
          /\ \A u \in Sockets \ {s} : work'[u] = work[u]
      BY <2>6 DEF TypeOK
    <2>9. record'[t].phase # "running" /\ \A u \in Sockets \ {t} : record'[u] = record[u]
      BY <2>3, <2>5 DEF TypeOK, IdleRecord
    <2> QED
      BY <2>1, <2>3, <2>4, <2>7, <2>8, <2>9, LeaseClaimed
  <1>4. ASSUME NEW s \in Sockets, RegisterAfterRecovery(s) PROVE ExclusiveLease'
    <2>1. work[s].job \in Jobs
      BY <1>4 DEF RegisterAfterRecovery, TypeOK, Work
    <2>2. Unregistered(s)
      BY <1>4 DEF RegisterAfterRecovery, Wired, WiredAt
    <2>3. \A u \in Sockets, k \in Jobs :
            /\ u \in Leased(k)' <=> u \in Leased(k)
            /\ u \in Leased(k) => record'[u].asg = record[u].asg
      <3>1. Register(s)
        BY <1>4 DEF RegisterAfterRecovery
      <3> QED
        BY <2>2, <3>1, RegisterKeepsLeases
    <2>4. /\ job'[work[s].job] # "running"
          /\ \A k \in Jobs \ {work[s].job} : job'[k] = job[k]
      BY <1>4, <2>1 DEF RegisterAfterRecovery, RequeueLostWork, TypeOK
    <2>5. work' = [work EXCEPT ![s] = Free] /\ UNCHANGED lastAsg
      BY <1>4 DEF RegisterAfterRecovery
    <2> QED
      BY <2>1, <2>3, <2>4, <2>5, LeaseEnded
  <1>5. ASSUME NEW s \in Sockets, HandleResult(s) PROVE ExclusiveLease'
    <2> DEFINE r == Head(chain[s])
    <2>1. work[s] = Free /\ UNCHANGED <<job, lastAsg>>
      BY <1>5, ReadyTypes DEF HandleResult, jobVars
    <2>2. CASE ~ResultClaimable(s, r.job, r.asg)
      BY <1>5, <2>1, <2>2, LeaseUntouched DEF HandleResult, Leased
    <2>3. CASE ResultClaimable(s, r.job, r.asg)
      <3>1. record[s].phase = "running" /\ record[s].job = r.job /\ record[s].asg = r.asg
        BY <2>3 DEF ResultClaimable, Matches
      <3>2. record[s].job \in Jobs
        BY <3>1, RecordTypes DEF TypeOK
      <3>3. /\ record' = [record EXCEPT ![s].phase = "settling"]
            /\ work' = [work EXCEPT ![s] =
                          [kind |-> "settle", job |-> record[s].job, asg |-> record[s].asg]]
        BY <1>5, <2>3, <3>1 DEF HandleResult
      <3>4. /\ work'[s].job = record[s].job /\ work'[s].asg = record[s].asg
            /\ \A u \in Sockets \ {s} : work'[u] = work[u]
        BY <3>3 DEF TypeOK
      <3>5. record'[s].phase # "running" /\ \A u \in Sockets \ {s} : record'[u] = record[u]
        BY <3>3 DEF TypeOK, Records
      <3> QED
        BY <2>1, <3>1, <3>2, <3>3, <3>4, <3>5, LeaseClaimed
    <2> QED
      BY <2>2, <2>3
  <1>6. ASSUME NEW s \in Sockets, FinishResult(s) PROVE ExclusiveLease'
    <2>1. work[s].job \in Jobs
      BY <1>6 DEF FinishResult, TypeOK, Work
    <2>2. \A u \in Sockets, k \in Jobs :
            /\ u \in Leased(k)' <=> u \in Leased(k)
            /\ u \in Leased(k) => record'[u].asg = record[u].asg
      BY <1>6 DEF FinishResult, TypeOK, Leased, Idled
    <2>3. /\ job'[work[s].job] # "running"
          /\ \A k \in Jobs \ {work[s].job} : job'[k] = job[k]
      BY <1>6, <2>1 DEF FinishResult, TypeOK
    <2>4. work' = [work EXCEPT ![s] = Free] /\ UNCHANGED lastAsg
      BY <1>6 DEF FinishResult
    <2> QED
      BY <2>1, <2>2, <2>3, <2>4, LeaseEnded
  <1>7. ASSUME NEW s \in Sockets, HandleClose(s) PROVE ExclusiveLease'
    <2>1. work[s] = Free /\ UNCHANGED <<job, lastAsg>>
      BY <1>7, ReadyTypes DEF HandleClose, jobVars
    <2>2. CASE Registered(s) /\ LeaseLost(s)
      <3>1. record[s].phase = "running" /\ record[s].job \in Jobs
        BY <2>2 DEF LeaseLost
      <3>2. /\ record' = [record EXCEPT ![s] = IdleRecord]
            /\ work' = [work EXCEPT ![s] =
                          [kind |-> "leave", job |-> record[s].job, asg |-> record[s].asg]]
        BY <1>7, <2>2 DEF HandleClose
      <3>3. /\ work'[s].job = record[s].job /\ work'[s].asg = record[s].asg
            /\ \A u \in Sockets \ {s} : work'[u] = work[u]
        BY <3>2 DEF TypeOK
      <3>4. record'[s].phase # "running" /\ \A u \in Sockets \ {s} : record'[u] = record[u]
        BY <3>2 DEF TypeOK, IdleRecord
      <3> QED
        BY <2>1, <3>1, <3>2, <3>3, <3>4, LeaseClaimed
    <2>3. CASE Registered(s) /\ ~LeaseLost(s)
      <3>1. UNCHANGED work /\ record' = [record EXCEPT ![s] = IdleRecord]
        BY <1>7, <2>3 DEF HandleClose
      <3>2. record[s].phase # "running"
        BY <2>3, RecordTypes DEF LeaseLost, TypeOK
      <3>3. \A u \in Sockets, k \in Jobs :
              /\ u \in Leased(k)' <=> u \in Leased(k)
              /\ u \in Leased(k) => record'[u].asg = record[u].asg
        BY <3>1, <3>2 DEF TypeOK, Leased, IdleRecord
      <3> QED
        BY <2>1, <3>1, <3>3, LeaseUntouched
    <2>4. CASE ~Registered(s)
      BY <1>7, <2>1, <2>4, LeaseUntouched DEF HandleClose, Leased
    <2> QED
      BY <2>2, <2>3, <2>4
  <1>8. ASSUME NEW s \in Sockets, FinishClose(s) PROVE ExclusiveLease'
    <2>1. work[s].job \in Jobs
      BY <1>8 DEF FinishClose, TypeOK, Work
    <2>2. work' = [work EXCEPT ![s] = Free] /\ UNCHANGED <<record, lastAsg>>
      BY <1>8 DEF FinishClose, registryVars
    <2>3. /\ job'[work[s].job] # "running"
          /\ \A k \in Jobs \ {work[s].job} : job'[k] = job[k]
      BY <1>8, <2>1 DEF FinishClose, RequeueLostWork, TypeOK
    <2> QED
      BY <2>1, <2>2, <2>3, LeaseEnded DEF Leased
  <1>9. ASSUME NEW s \in Sockets, SocketClose(s) PROVE ExclusiveLease'
    BY <1>9, LeaseUntouched DEF Leased, SocketClose, registryVars, networkVars, handlerVars, jobVars
  <1>10. ASSUME NEW s \in Sockets, EvictStaleRunner(s) PROVE ExclusiveLease'
    BY <1>10, LeaseUntouched DEF Leased, EvictStaleRunner, registryVars, networkVars, handlerVars, jobVars
  <1>11. ASSUME NEW s \in Sockets, RelayRead(s) PROVE ExclusiveLease'
    BY <1>11, LeaseUntouched DEF Leased, RelayRead, registryVars, networkVars, handlerVars, jobVars
  <1>12. ASSUME NEW s \in Sockets, RelaySend(s) PROVE ExclusiveLease'
    <2>2. \A t \in Sockets, k \in Jobs : t \in Leased(k)' <=> t \in Leased(k)
      BY <1>12 DEF TypeOK, Leased, RelaySend, registryVars, networkVars, handlerVars, jobVars
    <2>3. \A t \in Sockets, k \in Jobs : t \in Leased(k) => record'[t].asg = record[t].asg
      BY <1>12 DEF TypeOK, Leased, RelaySend, registryVars, networkVars, handlerVars, jobVars
    <2>4. UNCHANGED <<work, job, lastAsg>>
      BY <1>12 DEF RelaySend, registryVars, networkVars, handlerVars, jobVars
    <2> QED
      BY <2>2, <2>3, <2>4, LeaseUntouched
  <1>13. ASSUME NEW r \in Runners, RunnerDrop(r) PROVE ExclusiveLease'
    BY <1>13, LeaseUntouched DEF Leased, RunnerDrop, registryVars, networkVars, handlerVars, jobVars
  <1>14. ASSUME NEW r \in Runners, RunnerFinish(r) PROVE ExclusiveLease'
    BY <1>14, LeaseUntouched DEF Leased, RunnerFinish, registryVars, networkVars, handlerVars, jobVars
  <1>15. ASSUME NEW r \in Runners, SetPaused(r) PROVE ExclusiveLease'
    <2>2. \A t \in Sockets, k \in Jobs : t \in Leased(k)' <=> t \in Leased(k)
      BY <1>15, RecordTypes DEF TypeOK, Leased, SetPaused, registryVars, networkVars, handlerVars, jobVars
    <2>3. \A t \in Sockets, k \in Jobs : t \in Leased(k) => record'[t].asg = record[t].asg
      BY <1>15, RecordTypes DEF TypeOK, Leased, SetPaused, registryVars, networkVars, handlerVars, jobVars
    <2>4. UNCHANGED <<work, job, lastAsg>>
      BY <1>15 DEF SetPaused, registryVars, networkVars, handlerVars, jobVars
    <2> QED
      BY <2>2, <2>3, <2>4, LeaseUntouched
  <1>16. ASSUME NEW r \in Runners, NEW s \in Sockets, Connect(r, s) PROVE ExclusiveLease'
    BY <1>16, LeaseUntouched DEF Leased, Connect, registryVars, networkVars, handlerVars, jobVars
  <1>17. ASSUME NEW j \in Jobs, StopFile(j) PROVE ExclusiveLease'
    <2>1. UNCHANGED <<record, work, lastAsg>>
      BY <1>17 DEF StopFile, registryVars, networkVars, handlerVars, jobVars
    <2>2. \A k \in Jobs : job'[k] = "running" <=> job[k] = "running"
      BY <1>17 DEF TypeOK, StopFile, registryVars, networkVars, handlerVars, jobVars
    <2> QED
      BY <2>1, <2>2, LeaseUntouched DEF Leased
  <1>18. ASSUME NEW j \in Jobs, NEW s \in Sockets, Assign(j, s) PROVE ExclusiveLease'
    <2>1. /\ record' = [record EXCEPT ![s] = Busied(@, j, asgCount + 1)]
          /\ lastAsg' = [lastAsg EXCEPT ![j] = asgCount + 1]
          /\ job' = [job EXCEPT ![j] = "running"]
          /\ UNCHANGED work
      BY <1>18 DEF Assign, handlerVars
    <2>2. Leased(j) = {} /\ Handled(j) = {}
      BY <1>18 DEF Assign, ExclusiveLease
    <2>3. record[s].phase = "idle"
      BY <1>18 DEF Assign, IsAvailable
    <2>4. Leased(j)' = {s} /\ record'[s].asg = asgCount + 1
      BY <2>1, <2>2 DEF TypeOK, Leased, Busied
    <2>5. \A k \in Jobs : Handled(k)' = Handled(k)
      BY <2>1 DEF Handled
    <2>6. \A k \in Jobs \ {j} : Leased(k)' = Leased(k)
      BY <2>1, <2>3 DEF TypeOK, Leased, Busied
    <2>7. \A k \in Jobs \ {j} : \A u \in Leased(k) : record'[u].asg = record[u].asg
      BY <2>1, <2>3 DEF TypeOK, Leased
    <2>8. lastAsg'[j] = asgCount + 1 /\ job'[j] = "running"
      BY <2>1 DEF TypeOK
    <2>9. \A k \in Jobs \ {j} : lastAsg'[k] = lastAsg[k] /\ job'[k] = job[k]
      BY <2>1 DEF TypeOK
    <2> SUFFICES ASSUME NEW k \in Jobs
                 PROVE  /\ \A u, v \in Leased(k)' \union Handled(k)' : u = v
                        /\ Leased(k)' \intersect Handled(k)' = {}
                        /\ job'[k] = "running" <=> Leased(k)' \union Handled(k)' # {}
                        /\ \A u \in Leased(k)' : record'[u].asg = lastAsg'[k]
                        /\ \A u \in Handled(k)' : work'[u].asg = lastAsg'[k]
      BY DEF ExclusiveLease
    <2>10. CASE k = j
      BY <2>2, <2>4, <2>5, <2>8, <2>10
    <2>11. CASE k # j
      BY <2>1, <2>5, <2>6, <2>7, <2>9, <2>11 DEF ExclusiveLease
    <2> QED
      BY <2>10, <2>11
  <1>19. CASE BeginShutdown
    BY <1>19, LeaseUntouched DEF Leased, BeginShutdown, registryVars, networkVars, handlerVars, jobVars
  <1>20. CASE UNCHANGED vars
    BY <1>20, LeaseUntouched DEF Leased, vars, registryVars, networkVars, handlerVars, jobVars
  <1> QED
    BY <1>1, <1>2, <1>3, <1>4, <1>5, <1>6, <1>7, <1>8, <1>9, <1>10, <1>11, <1>12, <1>13, <1>14, <1>15, <1>16, <1>17, <1>18, <1>19, <1>20 DEF Next, Handle

\* Every reachable state has the type the model declares (the whole registry,
\* the handlers and the runners: register, assign, handleResult, handleClose).
THEOREM TypeCorrect == Spec => []TypeOK
  <1>1. Init => TypeOK /\ Wired
    BY InitType, InitInvariant
  <1>2. TypeOK /\ Wired /\ [Next]_vars => TypeOK' /\ Wired'
    BY StepType, StepWired
  <1> QED
    BY <1>1, <1>2, PTL DEF Spec

\* A running job is answered for by exactly one record or handler, and nobody
\* answers for any other job (claimResult, claimRecovery, handleResult).
THEOREM LeaseExclusive == Spec => []ExclusiveLease
  <1>1. Init => TypeOK /\ Wired /\ ExclusiveLease
    BY InitType, InitInvariant
  <1>2. TypeOK /\ Wired /\ ExclusiveLease /\ [Next]_vars => TypeOK' /\ Wired' /\ ExclusiveLease'
    BY StepType, StepWired, StepExclusive
  <1> QED
    BY <1>1, <1>2, PTL DEF Spec

-----------------------------------------------------------------------------
(***************************************************************************)
(* Cancellations reach stopped work only.                                  *)
(***************************************************************************)
\* Between the read and the send of relayCancellations the record it is about
\* can lose its job but not take another one.
RelayTarget == relay # NoSocket => record[relay].job \in stopped \union {NoJob}

\* Claiming a result changes the phase of a record and nothing else of it.
LEMMA SettlingKeeps ==
    ASSUME NEW rec \in Records
    PROVE  /\ [rec EXCEPT !.phase = "settling"].job = rec.job
           /\ [rec EXCEPT !.phase = "settling"].cancelSent = rec.cancelSent
  BY DEF Records

\* While relayCancellations awaits the file, its record keeps a stopped job.
LEMMA StepRelay == TypeOK /\ RelayTarget /\ [Next]_vars => RelayTarget'
  <1> SUFFICES ASSUME TypeOK, RelayTarget, [Next]_vars PROVE RelayTarget'
    OBVIOUS
  <1>1. ASSUME NEW s \in Sockets, RegisterFresh(s) PROVE RelayTarget'
    <2>1. (record' = record \/ record' = [record EXCEPT ![s] = IdleRecord]) /\ UNCHANGED <<relay, stopped>>
      BY <1>1 DEF RegisterFresh, Register, jobVars
    <2>2. \A t \in Sockets : record'[t] = record[t] \/ record'[t] = IdleRecord
      BY <2>1 DEF TypeOK
    <2>3. \A t \in Sockets : record'[t].job \in {record[t].job, NoJob}
      BY <2>2 DEF IdleRecord
    <2> QED
      BY <2>1, <2>3, PoolAssumption DEF RelayTarget, TypeOK
  <1>2. ASSUME NEW s \in Sockets, RegisterOverIdle(s) PROVE RelayTarget'
    BY <1>2, PoolAssumption DEF RelayTarget, TypeOK, RegisterOverIdle, registryVars, networkVars, handlerVars, jobVars, IdleRecord
  <1>3. ASSUME NEW s \in Sockets, RegisterOverBusy(s) PROVE RelayTarget'
    BY <1>3, PoolAssumption DEF RelayTarget, TypeOK, RegisterOverBusy, registryVars, networkVars, handlerVars, jobVars, IdleRecord
  <1>4. ASSUME NEW s \in Sockets, RegisterAfterRecovery(s) PROVE RelayTarget'
    <2>1. (record' = record \/ record' = [record EXCEPT ![s] = IdleRecord]) /\ UNCHANGED <<relay, stopped>>
      BY <1>4 DEF RegisterAfterRecovery, Register
    <2>2. \A t \in Sockets : record'[t] = record[t] \/ record'[t] = IdleRecord
      BY <2>1 DEF TypeOK
    <2>3. \A t \in Sockets : record'[t].job \in {record[t].job, NoJob}
      BY <2>2 DEF IdleRecord
    <2> QED
      BY <2>1, <2>3, PoolAssumption DEF RelayTarget, TypeOK
  <1>5. ASSUME NEW s \in Sockets, HandleResult(s) PROVE RelayTarget'
    <2>1. (record' = record \/ record' = [record EXCEPT ![s].phase = "settling"]) /\ UNCHANGED <<relay, stopped>>
      BY <1>5 DEF HandleResult, jobVars
    <2>2. \A t \in Sockets : record'[t] = record[t] \/ record'[t] = [record[t] EXCEPT !.phase = "settling"]
      BY <2>1 DEF TypeOK
    <2>3. \A t \in Sockets : record'[t].job \in {record[t].job, NoJob}
      BY <2>2, SettlingKeeps DEF TypeOK
    <2> QED
      BY <2>1, <2>3, PoolAssumption DEF RelayTarget, TypeOK
  <1>6. ASSUME NEW s \in Sockets, FinishResult(s) PROVE RelayTarget'
    BY <1>6, PoolAssumption DEF RelayTarget, TypeOK, FinishResult, registryVars, networkVars, handlerVars, jobVars, Idled
  <1>7. ASSUME NEW s \in Sockets, HandleClose(s) PROVE RelayTarget'
    <2>1. (record' = record \/ record' = [record EXCEPT ![s] = IdleRecord]) /\ UNCHANGED <<relay, stopped>>
      BY <1>7 DEF HandleClose, jobVars
    <2>2. \A t \in Sockets : record'[t] = record[t] \/ record'[t] = IdleRecord
      BY <2>1 DEF TypeOK
    <2>3. \A t \in Sockets : record'[t].job \in {record[t].job, NoJob}
      BY <2>2 DEF IdleRecord
    <2> QED
      BY <2>1, <2>3, PoolAssumption DEF RelayTarget, TypeOK
  <1>8. ASSUME NEW s \in Sockets, FinishClose(s) PROVE RelayTarget'
    BY <1>8, PoolAssumption DEF RelayTarget, TypeOK, FinishClose, registryVars, networkVars, handlerVars, jobVars
  <1>9. ASSUME NEW s \in Sockets, SocketClose(s) PROVE RelayTarget'
    BY <1>9, PoolAssumption DEF RelayTarget, TypeOK, SocketClose, registryVars, networkVars, handlerVars, jobVars
  <1>10. ASSUME NEW s \in Sockets, EvictStaleRunner(s) PROVE RelayTarget'
    BY <1>10, PoolAssumption DEF RelayTarget, TypeOK, EvictStaleRunner, registryVars, networkVars, handlerVars, jobVars
  <1>11. ASSUME NEW s \in Sockets, RelayRead(s) PROVE RelayTarget'
    BY <1>11, PoolAssumption DEF RelayTarget, TypeOK, RelayRead, registryVars, networkVars, handlerVars, jobVars
  <1>12. ASSUME NEW s \in Sockets, RelaySend(s) PROVE RelayTarget'
    BY <1>12, PoolAssumption DEF RelayTarget, TypeOK, RelaySend, registryVars, networkVars, handlerVars, jobVars
  <1>13. ASSUME NEW r \in Runners, RunnerDrop(r) PROVE RelayTarget'
    BY <1>13, PoolAssumption DEF RelayTarget, TypeOK, RunnerDrop, registryVars, networkVars, handlerVars, jobVars
  <1>14. ASSUME NEW r \in Runners, RunnerFinish(r) PROVE RelayTarget'
    BY <1>14, PoolAssumption DEF RelayTarget, TypeOK, RunnerFinish, registryVars, networkVars, handlerVars, jobVars
  <1>15. ASSUME NEW r \in Runners, SetPaused(r) PROVE RelayTarget'
    BY <1>15, PoolAssumption DEF RelayTarget, TypeOK, SetPaused, registryVars, networkVars, handlerVars, jobVars
  <1>16. ASSUME NEW r \in Runners, NEW s \in Sockets, Connect(r, s) PROVE RelayTarget'
    BY <1>16, PoolAssumption DEF RelayTarget, TypeOK, Connect, registryVars, networkVars, handlerVars, jobVars
  <1>17. ASSUME NEW j \in Jobs, StopFile(j) PROVE RelayTarget'
    BY <1>17, PoolAssumption DEF RelayTarget, TypeOK, StopFile, registryVars, networkVars, handlerVars, jobVars
  <1>18. ASSUME NEW j \in Jobs, NEW s \in Sockets, Assign(j, s) PROVE RelayTarget'
    BY <1>18, PoolAssumption DEF RelayTarget, TypeOK, Assign, registryVars, networkVars, handlerVars, jobVars, LoopFree
  <1>19. CASE BeginShutdown
    BY <1>19, PoolAssumption DEF RelayTarget, TypeOK, BeginShutdown, registryVars, networkVars, handlerVars, jobVars
  <1>20. CASE UNCHANGED vars
    BY <1>20, PoolAssumption DEF RelayTarget, TypeOK, vars, registryVars, networkVars, handlerVars, jobVars
  <1> QED
    BY <1>1, <1>2, <1>3, <1>4, <1>5, <1>6, <1>7, <1>8, <1>9, <1>10, <1>11, <1>12, <1>13, <1>14, <1>15, <1>16, <1>17, <1>18, <1>19, <1>20 DEF Next, Handle

\* What CancelTargetsStopped asks of one step.
CancelOK ==
    \A s \in Sockets :
        ~record[s].cancelSent /\ record'[s].cancelSent
            => record[s].job \in stopped \union {NoJob}

\* A step that sends a cancel sends it for a stopped job or for none.
LEMMA StepCancel == TypeOK /\ RelayTarget /\ [Next]_vars => CancelOK
  <1> SUFFICES ASSUME TypeOK, RelayTarget, [Next]_vars PROVE CancelOK
    OBVIOUS
  <1>1. ASSUME NEW s \in Sockets, RegisterFresh(s) PROVE CancelOK
    <2>1. record' = record \/ record' = [record EXCEPT ![s] = IdleRecord]
      BY <1>1 DEF RegisterFresh, Register, jobVars
    <2>2. \A t \in Sockets : record'[t] = record[t] \/ record'[t] = IdleRecord
      BY <2>1 DEF TypeOK
    <2>3. \A t \in Sockets : record'[t].cancelSent => record[t].cancelSent
      BY <2>2 DEF IdleRecord
    <2> QED
      BY <2>3 DEF CancelOK
  <1>2. ASSUME NEW s \in Sockets, RegisterOverIdle(s) PROVE CancelOK
    BY <1>2 DEF TypeOK, CancelOK, RegisterOverIdle, registryVars, networkVars, handlerVars, jobVars, IdleRecord
  <1>3. ASSUME NEW s \in Sockets, RegisterOverBusy(s) PROVE CancelOK
    BY <1>3 DEF TypeOK, CancelOK, RegisterOverBusy, registryVars, networkVars, handlerVars, jobVars, IdleRecord
  <1>4. ASSUME NEW s \in Sockets, RegisterAfterRecovery(s) PROVE CancelOK
    <2>1. record' = record \/ record' = [record EXCEPT ![s] = IdleRecord]
      BY <1>4 DEF RegisterAfterRecovery, Register
    <2>2. \A t \in Sockets : record'[t] = record[t] \/ record'[t] = IdleRecord
      BY <2>1 DEF TypeOK
    <2>3. \A t \in Sockets : record'[t].cancelSent => record[t].cancelSent
      BY <2>2 DEF IdleRecord
    <2> QED
      BY <2>3 DEF CancelOK
  <1>5. ASSUME NEW s \in Sockets, HandleResult(s) PROVE CancelOK
    <2>1. record' = record \/ record' = [record EXCEPT ![s].phase = "settling"]
      BY <1>5 DEF HandleResult, jobVars
    <2>2. \A t \in Sockets : record'[t] = record[t] \/ record'[t] = [record[t] EXCEPT !.phase = "settling"]
      BY <2>1 DEF TypeOK
    <2>3. \A t \in Sockets : record'[t].cancelSent => record[t].cancelSent
      BY <2>2, SettlingKeeps DEF TypeOK
    <2> QED
      BY <2>3 DEF CancelOK
  <1>6. ASSUME NEW s \in Sockets, FinishResult(s) PROVE CancelOK
    BY <1>6 DEF TypeOK, CancelOK, FinishResult, registryVars, networkVars, handlerVars, jobVars, Idled
  <1>7. ASSUME NEW s \in Sockets, HandleClose(s) PROVE CancelOK
    <2>1. record' = record \/ record' = [record EXCEPT ![s] = IdleRecord]
      BY <1>7 DEF HandleClose, jobVars
    <2>2. \A t \in Sockets : record'[t] = record[t] \/ record'[t] = IdleRecord
      BY <2>1 DEF TypeOK
    <2>3. \A t \in Sockets : record'[t].cancelSent => record[t].cancelSent
      BY <2>2 DEF IdleRecord
    <2> QED
      BY <2>3 DEF CancelOK
  <1>8. ASSUME NEW s \in Sockets, FinishClose(s) PROVE CancelOK
    BY <1>8 DEF TypeOK, CancelOK, FinishClose, registryVars, networkVars, handlerVars, jobVars
  <1>9. ASSUME NEW s \in Sockets, SocketClose(s) PROVE CancelOK
    BY <1>9 DEF TypeOK, CancelOK, SocketClose, registryVars, networkVars, handlerVars, jobVars
  <1>10. ASSUME NEW s \in Sockets, EvictStaleRunner(s) PROVE CancelOK
    BY <1>10 DEF TypeOK, CancelOK, EvictStaleRunner, registryVars, networkVars, handlerVars, jobVars
  <1>11. ASSUME NEW s \in Sockets, RelayRead(s) PROVE CancelOK
    BY <1>11 DEF TypeOK, CancelOK, RelayRead, registryVars, networkVars, handlerVars, jobVars
  <1>12. ASSUME NEW s \in Sockets, RelaySend(s) PROVE CancelOK
    BY <1>12, PoolAssumption DEF TypeOK, CancelOK, RelaySend, registryVars, networkVars, handlerVars, jobVars, RelayTarget
  <1>13. ASSUME NEW r \in Runners, RunnerDrop(r) PROVE CancelOK
    BY <1>13 DEF TypeOK, CancelOK, RunnerDrop, registryVars, networkVars, handlerVars, jobVars
  <1>14. ASSUME NEW r \in Runners, RunnerFinish(r) PROVE CancelOK
    BY <1>14 DEF TypeOK, CancelOK, RunnerFinish, registryVars, networkVars, handlerVars, jobVars
  <1>15. ASSUME NEW r \in Runners, SetPaused(r) PROVE CancelOK
    BY <1>15 DEF TypeOK, CancelOK, SetPaused, registryVars, networkVars, handlerVars, jobVars
  <1>16. ASSUME NEW r \in Runners, NEW s \in Sockets, Connect(r, s) PROVE CancelOK
    BY <1>16 DEF TypeOK, CancelOK, Connect, registryVars, networkVars, handlerVars, jobVars
  <1>17. ASSUME NEW j \in Jobs, StopFile(j) PROVE CancelOK
    BY <1>17 DEF TypeOK, CancelOK, StopFile, registryVars, networkVars, handlerVars, jobVars
  <1>18. ASSUME NEW j \in Jobs, NEW s \in Sockets, Assign(j, s) PROVE CancelOK
    BY <1>18 DEF TypeOK, CancelOK, Assign, registryVars, networkVars, handlerVars, jobVars, Busied
  <1>19. CASE BeginShutdown
    BY <1>19 DEF TypeOK, CancelOK, BeginShutdown, registryVars, networkVars, handlerVars, jobVars
  <1>20. CASE UNCHANGED vars
    BY <1>20 DEF TypeOK, CancelOK, vars, registryVars, networkVars, handlerVars, jobVars
  <1> QED
    BY <1>1, <1>2, <1>3, <1>4, <1>5, <1>6, <1>7, <1>8, <1>9, <1>10, <1>11, <1>12, <1>13, <1>14, <1>15, <1>16, <1>17, <1>18, <1>19, <1>20 DEF Next, Handle

\* relayCancellations sends a cancel for a stopped job, or to a record that has
\* lost its job while the file was read: never for a later assignment.
THEOREM CancelsOnlyStopped == Spec => CancelTargetsStopped
  <1>1. Init => TypeOK /\ Wired /\ RelayTarget
    BY InitType, InitInvariant DEF Init, RelayTarget
  <1>2. TypeOK /\ Wired /\ RelayTarget /\ [Next]_vars => TypeOK' /\ Wired' /\ RelayTarget'
    BY StepType, StepWired, StepRelay
  <1>3. TypeOK /\ RelayTarget /\ [Next]_vars
          => CancelOK
    BY StepCancel
  <1> QED
    BY <1>1, <1>2, <1>3, PTL DEF Spec, CancelTargetsStopped, CancelOK

-----------------------------------------------------------------------------
(***************************************************************************)
(* The pool implements TaskLease.                                          *)
(***************************************************************************)
\* leaseOf depends on the status of the jobs and on the suspended handlers.
LEMMA LeaseValue ==
    ASSUME TypeOK, ExclusiveLease, NEW j \in Jobs
    PROVE  /\ job[j] # "running" => leaseOf[j] = job[j]
           /\ job[j] = "running" /\ Handled(j) = {} => leaseOf[j] = "leased"
           /\ \A s \in Sockets : work[s].job = j /\ work[s].kind = "settle" =>
                 leaseOf[j] = "settling"
           /\ \A s \in Sockets : work[s].job = j /\ work[s].kind # "settle" =>
                 leaseOf[j] = "recovering"
  BY DEF leaseOf, Handled, ExclusiveLease

\* A step that changes neither is a stutter of TaskLease.
LEMMA LeaseStutter ==
    ASSUME UNCHANGED <<job, work>>
    PROVE  UNCHANGED leaseOf
  BY DEF leaseOf

\* A step that changes the lease of one job as TaskLease allows.
LEMMA LeaseMove ==
    ASSUME NEW j \in Jobs, NEW from, NEW to,
           leaseOf[j] = from, leaseOf'[j] = to,
           \A k \in Jobs \ {j} : leaseOf'[k] = leaseOf[k],
           <<from, to>> \in
              {<<"pending", "leased">>, <<"leased", "settling">>, <<"leased", "recovering">>,
               <<"settling", "done">>, <<"settling", "failed">>,
               <<"recovering", "pending">>, <<"recovering", "failed">>, <<"pending", "failed">>}
    PROVE  Lease!Next
  <1>0. /\ leaseOf = [k \in Jobs |-> leaseOf[k]]
        /\ leaseOf' = [k \in Jobs |-> leaseOf'[k]]
    BY DEF leaseOf
  <1>1. leaseOf' = [leaseOf EXCEPT ![j] = to]
    BY <1>0
  <1>2. \/ Lease!Grant(j) \/ Lease!Settle(j) \/ Lease!Lose(j)
        \/ Lease!Finish(j) \/ Lease!Retry(j) \/ Lease!Cancel(j)
    BY <1>1 DEF Lease!Grant, Lease!Settle, Lease!Lose, Lease!Finish, Lease!Retry, Lease!Cancel,
                Lease!Move, Lease!Terminal
  <1> QED
    BY <1>2 DEF Lease!Next

\* The handler of s claims the lease of j.
LEMMA ClaimMoves ==
    ASSUME TypeOK, ExclusiveLease, TypeOK', ExclusiveLease', NEW s \in Sockets, NEW j \in Jobs,
           work[s] = Free, Leased(j) # {}, work'[s].job = j,
           \A u \in Sockets \ {s} : work'[u] = work[u], UNCHANGED job
    PROVE  Lease!Next
  <1>1. job[j] = "running" /\ Handled(j) = {}
    BY DEF ExclusiveLease
  <1>2. leaseOf[j] = "leased"
    BY <1>1, LeaseValue
  <1>3. leaseOf'[j] \in {"settling", "recovering"}
    BY <1>1 DEF leaseOf
  <1>4. \A k \in Jobs \ {j} : leaseOf'[k] = leaseOf[k]
    BY PoolAssumption DEF leaseOf, Free
  <1> QED
    BY <1>2, <1>3, <1>4, LeaseMove

\* The handler of s ends the lease of j.
LEMMA EndMoves ==
    ASSUME TypeOK, ExclusiveLease, NEW s \in Sockets, NEW j \in Jobs, work[s].job = j,
           work' = [work EXCEPT ![s] = Free],
           \A k \in Jobs \ {j} : job'[k] = job[k],
           job'[j] \in (IF work[s].kind = "settle" THEN {"done", "failed"} ELSE {"pending", "failed"})
    PROVE  Lease!Next
  <1>1. job[j] = "running"
    BY DEF ExclusiveLease, Handled
  <1>2. leaseOf[j] = IF work[s].kind = "settle" THEN "settling" ELSE "recovering"
    BY LeaseValue
  <1>3. leaseOf'[j] = job'[j]
    BY DEF leaseOf
  <1>4. \A k \in Jobs \ {j} : leaseOf'[k] = leaseOf[k]
    <2>1. \A k \in Jobs \ {j}, u \in Sockets : work'[u].job = k <=> work[u].job = k
      BY PoolAssumption DEF TypeOK, Free
    <2>2. \A k \in Jobs \ {j}, u \in Sockets : work[u].job = k => work'[u] = work[u]
      BY DEF TypeOK
    <2> QED
      BY <2>1, <2>2 DEF leaseOf
  <1> QED
    BY <1>1, <1>2, <1>3, <1>4, LeaseMove

\* Every operation of the pool is a move of TaskLease or a stutter.
LEMMA StepRefines ==
    TypeOK /\ Wired /\ ExclusiveLease /\ TypeOK' /\ ExclusiveLease' /\ [Next]_vars
        => Lease!Next \/ UNCHANGED leaseOf
  <1> SUFFICES ASSUME TypeOK, Wired, ExclusiveLease, TypeOK', ExclusiveLease', [Next]_vars
               PROVE  Lease!Next \/ UNCHANGED leaseOf
    OBVIOUS
  <1>1. ASSUME NEW s \in Sockets, RegisterFresh(s) PROVE Lease!Next \/ UNCHANGED leaseOf
    BY <1>1, LeaseStutter DEF RegisterFresh, jobVars, handlerVars
  <1>2. ASSUME NEW s \in Sockets, RegisterOverIdle(s) PROVE Lease!Next \/ UNCHANGED leaseOf
    BY <1>2, LeaseStutter DEF RegisterOverIdle, jobVars, handlerVars
  <1>3. ASSUME NEW s \in Sockets, RegisterOverBusy(s) PROVE Lease!Next \/ UNCHANGED leaseOf
    <2> DEFINE t == registry[rid[s]]
    <2>1. rid[s] \in Runners /\ work[s] = Free
      BY <1>3, ReadyTypes DEF RegisterOverBusy, Wired, WiredAt, TypeOK
    <2>2. t \in Sockets /\ record[t].phase = "running" /\ record[t].job \in Jobs
      BY <1>3, <2>1 DEF RegisterOverBusy, LeaseLost, TypeOK
    <2>3. work' = [work EXCEPT ![s] =
                     [kind |-> "rejoin", job |-> record[t].job, asg |-> record[t].asg]]
      BY <1>3 DEF RegisterOverBusy
    <2> HIDE DEF t
    <2>4. work'[s].job = record[t].job /\ \A u \in Sockets \ {s} : work'[u] = work[u]
      BY <2>3 DEF TypeOK
    <2>5. Leased(record[t].job) # {}
      BY <2>2 DEF Leased
    <2>6. UNCHANGED job
      BY <1>3 DEF RegisterOverBusy, jobVars
    <2> QED
      BY <2>1, <2>2, <2>4, <2>5, <2>6, ClaimMoves
  <1>4. ASSUME NEW s \in Sockets, RegisterAfterRecovery(s) PROVE Lease!Next \/ UNCHANGED leaseOf
    <2>1. work[s].job \in Jobs /\ work[s].kind = "rejoin"
      BY <1>4 DEF RegisterAfterRecovery, TypeOK, Work
    <2>2. job[work[s].job] = "running"
      BY <2>1 DEF ExclusiveLease, Handled
    <2>3. PICK outcome \in {"pending", "failed"} : job' = [job EXCEPT ![work[s].job] = outcome]
      BY <1>4, <2>2 DEF RegisterAfterRecovery, RequeueLostWork
    <2>4. work' = [work EXCEPT ![s] = Free]
      BY <1>4 DEF RegisterAfterRecovery
    <2>5. job'[work[s].job] = outcome /\ \A k \in Jobs \ {work[s].job} : job'[k] = job[k]
      BY <2>1, <2>3 DEF TypeOK
    <2> QED
      BY <2>1, <2>4, <2>5, EndMoves
  <1>5. ASSUME NEW s \in Sockets, HandleResult(s) PROVE Lease!Next \/ UNCHANGED leaseOf
    <2> DEFINE r == Head(chain[s])
    <2>1. work[s] = Free /\ UNCHANGED job
      BY <1>5, ReadyTypes DEF HandleResult, jobVars
    <2>2. CASE ~ResultClaimable(s, r.job, r.asg)
      BY <1>5, <2>1, <2>2, LeaseStutter DEF HandleResult
    <2>3. CASE ResultClaimable(s, r.job, r.asg)
      <3>1. record[s].phase = "running" /\ record[s].job = r.job
        BY <2>3 DEF ResultClaimable, Matches
      <3>2. work' = [work EXCEPT ![s] = [kind |-> "settle", job |-> r.job, asg |-> r.asg]]
        BY <1>5, <2>3 DEF HandleResult
      <3>3. r.job \in Jobs
        BY <3>1, RecordTypes DEF TypeOK
      <3> HIDE DEF r
      <3>4. work'[s].job = r.job /\ \A u \in Sockets \ {s} : work'[u] = work[u]
        BY <3>2 DEF TypeOK
      <3>5. Leased(r.job) # {}
        BY <3>1 DEF Leased
      <3> QED
        BY <2>1, <3>3, <3>4, <3>5, ClaimMoves
    <2> QED
      BY <2>2, <2>3
  <1>6. ASSUME NEW s \in Sockets, FinishResult(s) PROVE Lease!Next \/ UNCHANGED leaseOf
    <2>1. work[s].job \in Jobs /\ work[s].kind = "settle"
      BY <1>6 DEF FinishResult, TypeOK, Work
    <2>2. job[work[s].job] = "running"
      BY <2>1 DEF ExclusiveLease, Handled
    <2>3. PICK outcome \in {"done", "failed"} : job' = [job EXCEPT ![work[s].job] = outcome]
      BY <1>6, <2>2 DEF FinishResult
    <2>4. work' = [work EXCEPT ![s] = Free]
      BY <1>6 DEF FinishResult
    <2>5. job'[work[s].job] = outcome /\ \A k \in Jobs \ {work[s].job} : job'[k] = job[k]
      BY <2>1, <2>3 DEF TypeOK
    <2> QED
      BY <2>1, <2>4, <2>5, EndMoves
  <1>7. ASSUME NEW s \in Sockets, HandleClose(s) PROVE Lease!Next \/ UNCHANGED leaseOf
    <2>1. work[s] = Free /\ UNCHANGED job
      BY <1>7, ReadyTypes DEF HandleClose, jobVars
    <2>2. CASE ~(Registered(s) /\ LeaseLost(s))
      BY <1>7, <2>1, <2>2, LeaseStutter DEF HandleClose
    <2>3. CASE Registered(s) /\ LeaseLost(s)
      <3>1. record[s].phase = "running" /\ record[s].job \in Jobs
        BY <2>3 DEF LeaseLost
      <3>2. work' = [work EXCEPT ![s] =
                       [kind |-> "leave", job |-> record[s].job, asg |-> record[s].asg]]
        BY <1>7, <2>3 DEF HandleClose
      <3>3. work'[s].job = record[s].job /\ \A u \in Sockets \ {s} : work'[u] = work[u]
        BY <3>2 DEF TypeOK
      <3>4. Leased(record[s].job) # {}
        BY <3>1 DEF Leased
      <3> QED
        BY <2>1, <3>1, <3>3, <3>4, ClaimMoves
    <2> QED
      BY <2>2, <2>3
  <1>8. ASSUME NEW s \in Sockets, FinishClose(s) PROVE Lease!Next \/ UNCHANGED leaseOf
    <2>1. work[s].job \in Jobs /\ work[s].kind = "leave"
      BY <1>8 DEF FinishClose, TypeOK, Work
    <2>2. job[work[s].job] = "running"
      BY <2>1 DEF ExclusiveLease, Handled
    <2>3. PICK outcome \in {"pending", "failed"} : job' = [job EXCEPT ![work[s].job] = outcome]
      BY <1>8, <2>2 DEF FinishClose, RequeueLostWork
    <2>4. work' = [work EXCEPT ![s] = Free]
      BY <1>8 DEF FinishClose
    <2>5. job'[work[s].job] = outcome /\ \A k \in Jobs \ {work[s].job} : job'[k] = job[k]
      BY <2>1, <2>3 DEF TypeOK
    <2> QED
      BY <2>1, <2>4, <2>5, EndMoves
  <1>9. ASSUME NEW s \in Sockets, SocketClose(s) PROVE Lease!Next \/ UNCHANGED leaseOf
    BY <1>9, LeaseStutter DEF SocketClose, jobVars, handlerVars
  <1>10. ASSUME NEW s \in Sockets, EvictStaleRunner(s) PROVE Lease!Next \/ UNCHANGED leaseOf
    BY <1>10, LeaseStutter DEF EvictStaleRunner, jobVars, handlerVars
  <1>11. ASSUME NEW s \in Sockets, RelayRead(s) PROVE Lease!Next \/ UNCHANGED leaseOf
    BY <1>11, LeaseStutter DEF RelayRead, jobVars, handlerVars
  <1>12. ASSUME NEW s \in Sockets, RelaySend(s) PROVE Lease!Next \/ UNCHANGED leaseOf
    BY <1>12, LeaseStutter DEF RelaySend, jobVars, handlerVars
  <1>13. ASSUME NEW r \in Runners, RunnerDrop(r) PROVE Lease!Next \/ UNCHANGED leaseOf
    BY <1>13, LeaseStutter DEF RunnerDrop, jobVars, handlerVars
  <1>14. ASSUME NEW r \in Runners, RunnerFinish(r) PROVE Lease!Next \/ UNCHANGED leaseOf
    BY <1>14, LeaseStutter DEF RunnerFinish, jobVars, handlerVars
  <1>15. ASSUME NEW r \in Runners, SetPaused(r) PROVE Lease!Next \/ UNCHANGED leaseOf
    BY <1>15, LeaseStutter DEF SetPaused, jobVars, handlerVars
  <1>16. ASSUME NEW r \in Runners, NEW s \in Sockets, Connect(r, s) PROVE Lease!Next \/ UNCHANGED leaseOf
    BY <1>16, LeaseStutter DEF Connect, jobVars, handlerVars
  <1>17. ASSUME NEW j \in Jobs, StopFile(j) PROVE Lease!Next \/ UNCHANGED leaseOf
    <2>1. UNCHANGED work
      BY <1>17 DEF StopFile, handlerVars
    <2>2. CASE UNCHANGED job
      BY <2>1, <2>2, LeaseStutter
    <2>3. CASE job[j] = "pending" /\ job' = [job EXCEPT ![j] = "failed"]
      <3>1. leaseOf[j] = "pending" /\ leaseOf'[j] = "failed"
        BY <2>3 DEF leaseOf, TypeOK
      <3>2. \A k \in Jobs \ {j} : leaseOf'[k] = leaseOf[k]
        BY <2>1, <2>3 DEF leaseOf, TypeOK
      <3> QED
        BY <3>1, <3>2, LeaseMove
    <2> QED
      BY <1>17, <2>2, <2>3 DEF StopFile
  <1>18. ASSUME NEW j \in Jobs, NEW s \in Sockets, Assign(j, s) PROVE Lease!Next \/ UNCHANGED leaseOf
    <2>1. job[j] = "pending" /\ job' = [job EXCEPT ![j] = "running"] /\ UNCHANGED work
      BY <1>18 DEF Assign, handlerVars
    <2>2. \A u \in Sockets : work[u].job # j
      BY <2>1 DEF ExclusiveLease, Handled
    <2>3. leaseOf[j] = "pending" /\ leaseOf'[j] = "leased"
      BY <2>1, <2>2 DEF leaseOf, TypeOK
    <2>4. \A k \in Jobs \ {j} : leaseOf'[k] = leaseOf[k]
      BY <2>1 DEF leaseOf, TypeOK
    <2> QED
      BY <2>3, <2>4, LeaseMove
  <1>19. CASE BeginShutdown
    BY <1>19, LeaseStutter DEF BeginShutdown, jobVars, handlerVars
  <1>20. CASE UNCHANGED vars
    BY <1>20, LeaseStutter DEF vars, jobVars, handlerVars
  <1> QED
    BY <1>1, <1>2, <1>3, <1>4, <1>5, <1>6, <1>7, <1>8, <1>9, <1>10, <1>11, <1>12, <1>13, <1>14, <1>15, <1>16, <1>17, <1>18, <1>19, <1>20 DEF Next, Handle

\* The pool implements TaskLease: a job is leased once at a time, its lease is
\* settled or recovered once, and a terminal job never moves.
THEOREM PoolImplementsLease == Spec => LeaseSpec
  <1>1. Init => TypeOK /\ Wired /\ ExclusiveLease
    BY InitType, InitInvariant
  <1>2. TypeOK /\ Wired /\ ExclusiveLease /\ [Next]_vars => TypeOK' /\ Wired' /\ ExclusiveLease'
    BY StepType, StepWired, StepExclusive
  <1>3. Init => Lease!Init
    BY DEF Init, Lease!Init, leaseOf
  <1>4. TypeOK /\ Wired /\ ExclusiveLease /\ TypeOK' /\ ExclusiveLease' /\ [Next]_vars
          => [Lease!Next]_leaseOf
    BY StepRefines
  <1> QED
    BY <1>1, <1>2, <1>3, <1>4, PTL DEF Spec, LeaseSpec, Lease!Spec
=============================================================================
