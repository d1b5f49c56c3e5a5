--------------------------- MODULE SupervisionProofs --------------------------
(****************************************************************************)
(* Proofs about a supervised protocol, for any bounds on messages, sessions, *)
(* panics and incarnations and any policy: no two incarnations overlap, the  *)
(* in-flight count is exact, and session replay misses no peer.              *)
(****************************************************************************)
EXTENDS Supervision, TLAPS, FiniteSetTheorems, SequenceTheorems
------------------------------------------------------------------------------
(* One loop at a time. *)

\* A loop runs for the current instance only, and not from the end of stopLoop
\* to startLoop.
LoopInv ==
    \A i \in Inst : Running(i) => /\ i = inst
                                  /\ sup \notin {"drain", "clean", "backoff", "start", "lift"}

\* stopLoop waits for the loop of the current instance, and only startLoop
\* starts another.
LEMMA LoopInvariance == Spec => []LoopInv
<1>1. Init => LoopInv
  BY DEF Init, LoopInv, Running
<1>2. LoopInv /\ [Next]_vars => LoopInv'
  <2> SUFFICES ASSUME LoopInv, [Next]_vars, NEW i \in Inst, Running(i)'
               PROVE  i = inst' /\ sup' \notin {"drain", "clean", "backoff", "start", "lift"}
    BY DEF LoopInv
  <2>1. ASSUME NEW g \in Goroutine, enqueue(g) PROVE UNCHANGED <<inst, sup, loop>>
    BY <2>1 DEF enqueue, enqueueCheck, enqueueLoad, enqueuePush, enqueueAborted,
                protoVars, supVars, loopVars
  <2>2. ASSUME NEW j \in Inst, eventHandler(j)
        PROVE  /\ UNCHANGED <<inst, sup>>
               /\ loop[i] \in {"next", "dispatch", "balance"}
    <3>1. UNCHANGED <<inst, sup>>
      BY <2>2 DEF eventHandler, LoopTake, LoopExit, dispatch, safeCall, LoopBalance,
                  protoVars, supVars
    <3>2. /\ loop[j] \in {"next", "dispatch", "balance"}
          /\ \E s \in {"next", "dispatch", "balance", "exited"} :
                loop' = [loop EXCEPT ![j] = s]
      BY <2>2 DEF eventHandler, LoopTake, LoopExit, dispatch, safeCall, LoopBalance
    <3>3. loop'[i] \in {"next", "dispatch", "balance"}
      BY DEF Running
    <3> QED  BY <3>1, <3>2, <3>3
  <2>3. CASE environment \/ Cancel \/ UNCHANGED vars
    <3>1. UNCHANGED <<inst, sup, loop>>
      BY <2>3 DEF environment, processMessage, dispatchSessionEvent, timerFires, Cancel,
                  vars, protoVars, supVars, loopVars
    <3> QED  BY <3>1 DEF LoopInv, Running
  <2>4. CASE supervisor
    <3>1. CASE startLoop
      BY <3>1 DEF startLoop, LoopInv, Running
    <3>2. CASE resetForRestart
      BY <3>2 DEF resetForRestart, LoopInv, Running, loopVars
    <3>3. CASE stopLoop
      BY <3>3 DEF stopLoop, LoopInv, Running, loopVars, protoVars
    <3>4. CASE ~startLoop /\ ~resetForRestart /\ ~stopLoop
      <4>1. /\ UNCHANGED <<inst, loop>>
            /\ \/ sup' \notin {"drain", "clean", "backoff", "start", "lift"}
               \/ sup \in {"drain", "clean", "backoff", "start", "lift"}
        BY <2>4, <3>4 DEF supervisor, run, recordPanic, quarantine,
             drainMailboxToDeadLetter, cleanUp, callStart, callInit,
             snapshotEstablished, replaySession, finishRestart, Restarted,
             removeProtocol, supervisorEnds, protoVars, loopVars
      <4> QED  BY <4>1 DEF LoopInv, Running
    <3> QED  BY <3>1, <3>2, <3>3, <3>4
  <2>5. CASE \E g \in Goroutine : enqueue(g)
    BY <2>1, <2>5 DEF LoopInv, Running
  <2>6. CASE \E j \in Inst : eventHandler(j)
    BY <2>2, <2>6 DEF LoopInv, Running
  <2> QED  BY <2>3, <2>4, <2>5, <2>6 DEF Next
<1> QED  BY <1>1, <1>2, PTL DEF Spec
\* Handlers of two incarnations never overlap, whatever panics when.
THEOREM LoopsDoNotOverlap == Spec => []OneLoop
<1>1. LoopInv => OneLoop
  BY DEF LoopInv, OneLoop
<1> QED  BY <1>1, LoopInvariance, PTL
------------------------------------------------------------------------------
(* Events, mailboxes and how many events they hold. *)

\* The events that the producers enqueue are events.
LEMMA EventsAreEvents ==
  /\ \A m \in 1 .. Messages : [kind |-> "message", arg |-> m] \in Event
  /\ \A h \in Host : /\ [kind |-> "up", arg |-> h] \in Event
                     /\ [kind |-> "down", arg |-> h] \in Event
  /\ \A i \in Inst : /\ [kind |-> "timer", arg |-> i] \in Event
                     /\ [kind |-> "callback", arg |-> i] \in Event
  /\ \A e \in Event : e.kind \in {"up", "down"} => e.arg \in Host
BY DEF Event

\* A push appends the event, or trades it against one that it drops.
LEMMA PushResult ==
  ASSUME NEW pol \in OverflowPolicy, NEW q \in Seq(Event), NEW e \in Event
  PROVE  /\ enqueueLocked(pol, q, e) \in Seq(Event)
         /\ Dropped(pol, q, e) = NoEvent => enqueueLocked(pol, q, e) = Append(q, e)
         /\ Dropped(pol, q, e) # NoEvent =>
               Len(enqueueLocked(pol, q, e)) = Len(q)
         /\ pol \in {"block", "unbounded"} => Dropped(pol, q, e) = NoEvent
<1>1. Len(q) \in Nat
  BY LenProperties
<1>2. CASE ~Full(pol, q)
  BY <1>2 DEF enqueueLocked, Dropped
<1>3. CASE Full(pol, q)
  <2>1. q # <<>> /\ pol \notin {"block", "unbounded"}
    BY <1>1, <1>3, CapacityAssumption DEF Full
  <2>2. /\ Head(q) \in Event /\ Tail(q) \in Seq(Event) /\ Len(Tail(q)) = Len(q) - 1
    BY <2>1, HeadTailProperties
  <2>3. /\ Append(Tail(q), e) \in Seq(Event) /\ Len(Append(Tail(q), e)) = Len(Tail(q)) + 1
    BY <2>2, AppendProperties
  <2>4. Dropped(pol, q, e) # NoEvent
    BY <1>3, <2>2, NoEventAssumption DEF Dropped
  <2>5. CASE pol = "drop_newest"
    BY <1>1, <1>3, <2>1, <2>4, <2>5 DEF enqueueLocked
  <2>6. CASE pol # "drop_newest"
    <3>1. enqueueLocked(pol, q, e) = Append(Tail(q), e)
      BY <1>3, <2>6 DEF enqueueLocked
    <3>2. Len(Append(Tail(q), e)) = Len(q)
      BY <1>1, <2>2, <2>3
    <3> QED  BY <2>1, <2>3, <2>4, <3>1, <3>2
  <2> QED  BY <2>5, <2>6
<1> QED  BY <1>2, <1>3

\* The places that hold an event in the mailboxes m.
PlacesIn(m) == UNION {{i} \X (1 .. Len(m[i])) : i \in Inst}

\* A mailbox of n events has n places.
LEMMA RowCount ==
  ASSUME NEW b, NEW n \in Nat
  PROVE  IsFiniteSet({b} \X (1 .. n)) /\ Cardinality({b} \X (1 .. n)) = n
<1>1. IsFiniteSet(1 .. n) /\ Cardinality(1 .. n) = n
  BY FS_Interval
<1>2. IsFiniteSet({b}) /\ Cardinality({b}) = 1
  BY FS_Singleton
<1>3. /\ IsFiniteSet({b} \X (1 .. n))
      /\ Cardinality({b} \X (1 .. n)) = Cardinality({b}) * Cardinality(1 .. n)
  BY <1>1, <1>2, FS_Product
<1> QED  BY <1>1, <1>2, <1>3

\* The values of a function on a finite set are finitely many.
LEMMA ImageFinite ==
  ASSUME NEW S, IsFiniteSet(S), NEW f, f = [x \in S |-> f[x]]
  PROVE  IsFiniteSet({f[x] : x \in S})
<1>1. f \in Surjection(S, {f[x] : x \in S})
  BY DEF Surjection
<1> QED  BY <1>1, FS_Surjection

\* The incarnations and the goroutines are finitely many.
LEMMA Finite == IsFiniteSet(Inst) /\ IsFiniteSet(Goroutine)
<1>1. IsFiniteSet(Inst) /\ IsFiniteSet(1 .. Messages)
  <2>1. 0 \in Int /\ 1 \in Int /\ MaxInst \in Int /\ Messages \in Int
    BY BoundAssumption
  <2>2. IsFiniteSet(0 .. MaxInst) /\ IsFiniteSet(1 .. Messages)
    BY <2>1, FS_Interval
  <2> QED  BY <2>2 DEF Inst
<1> DEFINE who == {"dispatcher", "timer", "pump", "supervisor"}
           what == (1 .. Messages) \cup Inst \cup {0}
<1>2. IsFiniteSet(what)
  <2>1. IsFiniteSet({0}) /\ IsFiniteSet((1 .. Messages) \cup Inst)
    BY <1>1, FS_Singleton, FS_Union
  <2> QED  BY <2>1, FS_Union
<1>3. IsFiniteSet(who)
  <2>1. IsFiniteSet({"dispatcher"}) /\ IsFiniteSet({"timer"})
        /\ IsFiniteSet({"pump"}) /\ IsFiniteSet({"supervisor"})
    BY FS_Singleton
  <2>2. IsFiniteSet({"dispatcher"} \cup {"timer"}) /\ IsFiniteSet({"pump"} \cup {"supervisor"})
    BY <2>1, FS_Union
  <2>3. IsFiniteSet(({"dispatcher"} \cup {"timer"}) \cup ({"pump"} \cup {"supervisor"}))
    BY <2>2, FS_Union
  <2>4. who = ({"dispatcher"} \cup {"timer"}) \cup ({"pump"} \cup {"supervisor"})
    OBVIOUS
  <2> QED  BY <2>3, <2>4
<1>4. Goroutine \subseteq who \X what
  BY DEF Goroutine, dispatcher, timer, pump, replayer
<1>5. IsFiniteSet(who \X what)
  <2> HIDE DEF who, what
  <2> QED  BY <1>2, <1>3, FS_Product
<1> HIDE DEF who, what
<1> QED  BY <1>1, <1>4, <1>5, FS_Subset

\* Disjoint finite sets have as many elements together as each of them.
LEMMA DisjointCount ==
  ASSUME NEW S, NEW T, IsFiniteSet(S), IsFiniteSet(T), S \cap T = {}
  PROVE  Cardinality(S \cup T) = Cardinality(S) + Cardinality(T)
<1>1. /\ Cardinality(S) \in Nat /\ Cardinality(T) \in Nat
      /\ Cardinality(S \cup T) = Cardinality(S) + Cardinality(T) - Cardinality(S \cap T)
  BY FS_Union, FS_CardinalityType
<1>2. Cardinality(S \cap T) = 0
  BY FS_EmptySet
<1> QED  BY <1>1, <1>2

\* Putting the queue t into mailbox b changes the number of places by as many
\* as t is longer than what it replaces.
LEMMA PlacesCount ==
  ASSUME NEW m \in [Inst -> Seq(Event)], NEW b \in Inst, NEW t \in Seq(Event)
  PROVE  /\ Cardinality(PlacesIn(m)) \in Nat
         /\ Cardinality(PlacesIn([m EXCEPT ![b] = t]))
              = Cardinality(PlacesIn(m)) - Len(m[b]) + Len(t)
<1> DEFINE w == [m EXCEPT ![b] = t]
           R == UNION {{i} \X (1 .. Len(m[i])) : i \in Inst \ {b}}
           row(s) == {b} \X (1 .. Len(s))
<1>1. Len(m[b]) \in Nat /\ Len(t) \in Nat /\ \A i \in Inst : Len(m[i]) \in Nat
  BY LenProperties
<1>2. IsFiniteSet(R)
  <2>1. IsFiniteSet(Inst \ {b})
    BY Finite, FS_Difference
  <2> DEFINE f == [i \in Inst \ {b} |-> {i} \X (1 .. Len(m[i]))]
  <2>2. R = UNION {f[i] : i \in Inst \ {b}}
    OBVIOUS
  <2>3. \A i \in Inst \ {b} : IsFiniteSet(f[i])
    <3>1. \A i \in Inst : IsFiniteSet({i} \X (1 .. Len(m[i])))
      BY <1>1, RowCount
    <3> QED  BY <3>1
  <2>4. f = [i \in Inst \ {b} |-> f[i]]
    OBVIOUS
  <2> HIDE DEF f
  <2>5. IsFiniteSet({f[i] : i \in Inst \ {b}})
    BY <2>1, <2>4, ImageFinite, SMTT(30)
  <2>6. \A T \in {f[i] : i \in Inst \ {b}} : IsFiniteSet(T)
    BY <2>3
  <2>7. IsFiniteSet(UNION {f[i] : i \in Inst \ {b}})
    BY <2>5, <2>6, FS_UNION
  <2> QED  BY <2>2, <2>7
<1>3. PlacesIn(m) = R \cup row(m[b])
  BY DEF PlacesIn
<1>4. PlacesIn(w) = R \cup row(t)
  <2>1. w[b] = t /\ \A i \in Inst \ {b} : w[i] = m[i]
    OBVIOUS
  <2> HIDE DEF w
  <2> QED  BY <2>1 DEF PlacesIn
<1>5. R \cap row(m[b]) = {} /\ R \cap row(t) = {}
  OBVIOUS
<1>6. /\ IsFiniteSet(row(m[b])) /\ Cardinality(row(m[b])) = Len(m[b])
      /\ IsFiniteSet(row(t)) /\ Cardinality(row(t)) = Len(t)
  BY <1>1, RowCount
<1> HIDE DEF R, row, w
<1>7. Cardinality(R) \in Nat
  BY <1>2, FS_CardinalityType
<1>8. Cardinality(PlacesIn(m)) = Cardinality(R) + Len(m[b])
  BY <1>1, <1>2, <1>3, <1>5, <1>6, <1>7, DisjointCount
<1>9. Cardinality(PlacesIn(w)) = Cardinality(R) + Len(t)
  BY <1>1, <1>2, <1>4, <1>5, <1>6, <1>7, DisjointCount
<1>10. Cardinality(PlacesIn(w)) = Cardinality(PlacesIn(m)) - Len(m[b]) + Len(t)
  BY <1>1, <1>7, <1>8, <1>9
<1> QED  BY <1>1, <1>7, <1>8, <1>10 DEF w
------------------------------------------------------------------------------
(* Types.  The count of the events in flight is left for the next section. *)

Flags == {quarantined, exitLoop, registered, removed, cancelled} \subseteq BOOLEAN

Controls ==
    /\ Flags
    /\ policy \in Policies /\ onPanic \in OnPanic /\ onGiveUp \in OnGiveUp
    /\ inst \in Inst
    /\ signals \in Inst \cup {NoInst} /\ failed \in Inst \cup {NoInst}
    /\ sup \in Places
    /\ count \in Nat
    /\ outcome \in {"none", "Restart", "Stop", "Escalate"}
    /\ replay \subseteq Host
    /\ established \subseteq Host /\ view \subseteq Host
    /\ fromPeers \in 0 .. Messages /\ flaps \in 0 .. MaxFlaps
    /\ panics \in Nat

Hands ==
    /\ mail \in [Inst -> Seq(Event)]
    /\ loop \in [Inst -> {"none", "next", "dispatch", "balance", "exited"}]
    /\ cur \in [Inst -> Event \cup {NoEvent}]
    /\ stopping \in [Inst -> BOOLEAN]
    /\ epc \in [Goroutine -> {"idle", "check", "load", "push"}]
    /\ eev \in [Goroutine -> Event \cup {NoEvent}]
    /\ ebox \in [Goroutine -> Inst]
    /\ armed \in [Inst -> {"none", "armed", "fired", "cancelled"}]

\* A goroutine in enqueue and a loop in a handler hold an event.
Holding ==
    /\ \A g \in Goroutine : epc[g] # "idle" => eev[g] \in Event
    /\ \A i \in Inst : loop[i] = "dispatch" => cur[i] \in Event

\* The typed state but for the count of the events in flight.
Shape == Controls /\ Hands /\ Holding

\* The states without a step of the goroutines.
LEMMA ShapeInit == Init => Shape
<1> SUFFICES ASSUME Init PROVE Shape
  OBVIOUS
<1>1. 0 \in Inst /\ 0 \in 0 .. Messages /\ 0 \in 0 .. MaxFlaps
  BY BoundAssumption DEF Inst
<1>2. Controls
  <2>1. Flags
    <3>1. PICK boot \in {"ok", "Start", "Init"} :
            quarantined = (boot # "ok") /\ exitLoop = (boot = "Init")
      BY DEF Init
    <3>2. quarantined \in BOOLEAN /\ exitLoop \in BOOLEAN
      BY <3>1
    <3>3. registered = TRUE /\ removed = FALSE /\ cancelled = FALSE
      BY DEF Init
    <3> QED  BY <3>2, <3>3 DEF Flags
  <2>2. signals \in Inst \cup {NoInst} /\ panics \in Nat
    BY <1>1 DEF Init
  <2> QED  BY <1>1, <2>1, <2>2 DEF Init, Controls, Places
<1>3. Hands
  BY <1>1 DEF Init, Hands, Timer
<1>4. Holding
  BY DEF Init, Holding
<1> QED  BY <1>2, <1>3, <1>4 DEF Shape

\* Calling enqueue with an event and returning from it.
LEMMA CallShape ==
  ASSUME Hands, Holding, NEW g \in Goroutine, NEW e \in Event, Call(g, e) \/ Return(g)
  PROVE  /\ epc' \in [Goroutine -> {"idle", "check", "load", "push"}]
         /\ eev' \in [Goroutine -> Event \cup {NoEvent}]
         /\ ebox' \in [Goroutine -> Inst]
         /\ \A p \in Goroutine : epc'[p] # "idle" => eev'[p] \in Event
BY DEF Hands, Holding, Call, Return

\* enqueue keeps the types.
LEMMA EnqueueShape ==
  ASSUME Shape, NEW g \in Goroutine, enqueue(g)
  PROVE  Shape'
<1> USE DEF Shape, Flags
<1>1. policy \in OverflowPolicy
  BY PolicyAssumption DEF Controls
<1>2. Controls'
  <2>1. UNCHANGED <<directiveVars, inst, quarantined, exitLoop, registered, removed,
                    cancelled, supVars, sessVars, bounds>>
    BY DEF enqueue, enqueueCheck, enqueueLoad, enqueuePush, enqueueAborted, protoVars
  <2> QED  BY <2>1 DEF Controls, directiveVars, supVars, sessVars, bounds
<1>3. epc[g] # "idle" /\ eev[g] \in Event
  BY DEF enqueue, enqueueCheck, enqueueLoad, enqueuePush, enqueueAborted, Holding
<1>4. UNCHANGED <<loop, cur, stopping, armed>>
  BY DEF enqueue, enqueueCheck, enqueueLoad, enqueuePush, enqueueAborted, loopVars
<1>5. CASE enqueueLoad(g) \/ (enqueueCheck(g) /\ ~Return(g))
  <2>1. UNCHANGED <<mail, eev>> /\ \E s \in {"load", "push"} : epc' = [epc EXCEPT ![g] = s]
    BY <1>5 DEF enqueueLoad, enqueueCheck, protoVars
  <2>2. ebox' \in [Goroutine -> Inst]
    BY <1>5 DEF enqueueLoad, enqueueCheck, Hands, Controls
  <2> QED  BY <1>2, <1>3, <1>4, <2>1, <2>2 DEF Hands, Holding
<1>6. CASE Return(g)
  <2>1. mail' \in [Inst -> Seq(Event)]
    <3>1. CASE enqueuePush(g)
      <4>1. ebox[g] \in Inst /\ mail[ebox[g]] \in Seq(Event)
        BY DEF Hands
      <4>2. enqueueLocked(policy, mail[ebox[g]], eev[g]) \in Seq(Event)
        BY <1>1, <1>3, <4>1, PushResult
      <4>3. mail' = [mail EXCEPT ![ebox[g]] = enqueueLocked(policy, mail[ebox[g]], eev[g])]
        BY <3>1 DEF enqueuePush
      <4> QED  BY <4>1, <4>2, <4>3 DEF Hands
    <3>2. CASE ~enqueuePush(g)
      <4>1. UNCHANGED mail
        BY <3>2 DEF enqueue, enqueueCheck, enqueueLoad, enqueueAborted, protoVars
      <4> QED  BY <4>1 DEF Hands
    <3> QED  BY <3>1, <3>2
  <2>2. /\ epc' \in [Goroutine -> {"idle", "check", "load", "push"}]
        /\ eev' \in [Goroutine -> Event \cup {NoEvent}]
        /\ ebox' \in [Goroutine -> Inst]
        /\ \A p \in Goroutine : epc'[p] # "idle" => eev'[p] \in Event
    BY <1>3, <1>6, CallShape
  <2> QED  BY <1>2, <1>4, <2>1, <2>2 DEF Hands, Holding
<1> QED  BY <1>5, <1>6 DEF enqueue, enqueuePush, enqueueAborted

\* An event loop keeps the types.
LEMMA LoopShape ==
  ASSUME Shape, NEW i \in Inst, eventHandler(i)
  PROVE  Shape'
<1> USE DEF Shape, Flags
<1>1. UNCHANGED <<directiveVars, enqVars, stopping, armed, established>>
  BY DEF eventHandler, LoopTake, LoopExit, dispatch, safeCall, LoopBalance, loopVars,
         sessVars
<1>2. Controls'
  <2>1. CASE dispatch(i)
    <3>1. cur[i] \in Event
      BY <2>1 DEF dispatch, Holding
    <3>2. view' \subseteq Host
      BY <2>1, <3>1, EventsAreEvents DEF dispatch, Controls
    <3> QED  BY <2>1, <3>2 DEF dispatch, Controls, directiveVars, protoVars, supVars, bounds
  <2>2. CASE safeCall(i)
    BY <2>2 DEF safeCall, Controls, directiveVars, sessVars
  <2>3. CASE LoopTake(i) \/ LoopExit(i) \/ LoopBalance(i)
    BY <2>3 DEF LoopTake, LoopExit, LoopBalance, Controls, directiveVars, protoVars,
                supVars, sessVars, bounds
  <2> QED  BY <2>1, <2>2, <2>3 DEF eventHandler
<1>3. CASE LoopTake(i)
  <2>1. mail[i] \in Seq(Event) /\ mail[i] # <<>>
    BY <1>3 DEF LoopTake, Hands
  <2>2. Head(mail[i]) \in Event /\ Tail(mail[i]) \in Seq(Event)
    BY <2>1, HeadTailProperties
  <2>3. /\ mail' = [mail EXCEPT ![i] = Tail(mail[i])]
        /\ cur' = [cur EXCEPT ![i] = Head(mail[i])]
        /\ loop' = [loop EXCEPT ![i] = "dispatch"]
    BY <1>3 DEF LoopTake
  <2> QED  BY <1>1, <1>2, <2>2, <2>3 DEF Hands, Holding, enqVars
<1>4. CASE LoopExit(i) \/ dispatch(i) \/ safeCall(i) \/ LoopBalance(i)
  <2>1. /\ UNCHANGED mail
        /\ \E s \in {"next", "balance", "exited"} : loop' = [loop EXCEPT ![i] = s]
        /\ UNCHANGED cur \/ cur' = [cur EXCEPT ![i] = NoEvent]
    BY <1>4 DEF LoopExit, dispatch, safeCall, LoopBalance, protoVars
  <2>2. PICK s \in {"next", "balance", "exited"} : loop' = [loop EXCEPT ![i] = s]
    BY <2>1
  <2>3. loop' \in [Inst -> {"none", "next", "dispatch", "balance", "exited"}]
    BY <2>2 DEF Hands
  <2>4. /\ cur' \in [Inst -> Event \cup {NoEvent}]
        /\ \A j \in Inst : loop'[j] = "dispatch" => cur'[j] \in Event
    BY <2>1, <2>2 DEF Hands, Holding
  <2>5. Hands'
    BY <1>1, <2>1, <2>3, <2>4 DEF Hands, enqVars
  <2> QED  BY <1>1, <1>2, <2>4, <2>5 DEF Holding, enqVars
<1> QED  BY <1>3, <1>4 DEF eventHandler

\* The producers keep the types.
LEMMA EnvironmentShape ==
  ASSUME Shape, environment \/ Cancel
  PROVE  Shape'
<1> USE DEF Shape, Flags
<1>1. UNCHANGED <<mail, loopVars>>
  BY DEF environment, processMessage, dispatchSessionEvent, timerFires, Cancel, protoVars
<1>2. Controls'
  <2>1. CASE \E m \in 1 .. Messages : processMessage(m)
    BY <2>1, BoundAssumption
       DEF processMessage, Controls, directiveVars, protoVars, supVars, sessVars
  <2>2. CASE \E h \in Host : dispatchSessionEvent(h)
    BY <2>2, BoundAssumption
       DEF dispatchSessionEvent, Controls, directiveVars, protoVars, supVars
  <2>3. CASE \E i \in Inst : timerFires(i)
    BY <2>3 DEF timerFires, Controls, directiveVars, protoVars, supVars, sessVars, bounds
  <2>4. CASE Cancel
    BY <2>4 DEF Cancel, Controls, directiveVars, protoVars, supVars, sessVars, bounds
  <2> QED  BY <2>1, <2>2, <2>3, <2>4 DEF environment
<1>3. armed' \in [Inst -> {"none", "armed", "fired", "cancelled"}]
  BY ZenonT(40) DEF environment, processMessage, dispatchSessionEvent, timerFires, Cancel, Hands
<1>4. CASE UNCHANGED enqVars
  BY <1>1, <1>2, <1>3, <1>4 DEF Hands, Holding, enqVars, loopVars
<1>5. CASE \E g \in Goroutine, e \in Event : Call(g, e)
  BY <1>1, <1>2, <1>3, <1>5, CallShape DEF Hands, Holding, loopVars
<1>6. UNCHANGED enqVars \/ \E g \in Goroutine, e \in Event : Call(g, e)
  <2>1. CASE \E m \in 1 .. Messages : processMessage(m)
    BY <2>1, EventsAreEvents DEF processMessage, Goroutine
  <2>2. CASE \E h \in Host : dispatchSessionEvent(h)
    BY <2>2, EventsAreEvents DEF dispatchSessionEvent, Goroutine
  <2>3. CASE \E i \in Inst : timerFires(i)
    BY <2>3, EventsAreEvents DEF timerFires, Goroutine
  <2> QED  BY <2>1, <2>2, <2>3 DEF environment, Cancel
<1> QED  BY <1>4, <1>5, <1>6

\* The supervisor keeps the types.
LEMMA SupervisorShape ==
  ASSUME Shape, supervisor
  PROVE  Shape'
<1> USE DEF Shape
<1>1. UNCHANGED <<cur, onPanic, onGiveUp, policy, quarantined, bounds>>
      \/ UNCHANGED <<cur, onPanic, onGiveUp, policy>>
  BY DEF supervisor, run, recordPanic, quarantine, stopLoop, drainMailboxToDeadLetter,
         cleanUp, resetForRestart, callStart, startLoop, callInit, snapshotEstablished,
         replaySession, finishRestart, Restarted, removeProtocol, supervisorEnds,
         directiveVars, loopVars
<1>10. Flags'
  <2> USE DEF Controls, Flags
  <2>1. CASE quarantine \/ startLoop
    BY <2>1 DEF quarantine, startLoop
  <2>2. CASE cleanUp \/ callStart
    BY <2>2 DEF cleanUp, callStart
  <2>3. CASE resetForRestart
    BY <2>3 DEF resetForRestart
  <2>4. CASE removeProtocol
    BY <2>4 DEF removeProtocol, protoVars
  <2>5. CASE drainMailboxToDeadLetter
    BY <2>5 DEF drainMailboxToDeadLetter
  <2>6. CASE \/ run \/ recordPanic \/ stopLoop \/ callInit \/ snapshotEstablished
             \/ (\E h \in Host : replaySession(h)) \/ finishRestart \/ Restarted
             \/ supervisorEnds
    <3>1. UNCHANGED <<quarantined, exitLoop, registered, removed, cancelled>>
      BY <2>6 DEF run, recordPanic, stopLoop, callInit, snapshotEstablished, replaySession,
                  finishRestart, Restarted, supervisorEnds, protoVars
    <3> QED  BY <3>1
  <2> QED  BY <2>1, <2>2, <2>3, <2>4, <2>5, <2>6 DEF supervisor
<1>2. Controls'
  <2> USE <1>10
  <2>1. CASE run
    BY <2>1, DirectiveAssumption
       DEF run, Controls, Places, directiveVars, protoVars, sessVars, bounds
  <2>2. CASE recordPanic
    BY <2>2, DirectiveAssumption
       DEF recordPanic, Controls, Places, directiveVars, protoVars, sessVars, bounds
  <2>3. CASE quarantine \/ stopLoop \/ drainMailboxToDeadLetter \/ cleanUp
    BY <2>3 DEF quarantine, stopLoop, drainMailboxToDeadLetter, cleanUp, Controls, Places,
                directiveVars, protoVars, supVars, sessVars, bounds
  <2>4. CASE resetForRestart
    <3>1. inst' \in Inst
      BY <2>4, BoundAssumption DEF resetForRestart, Controls, Inst
    <3> QED  BY <2>4, <3>1 DEF resetForRestart, Controls, Places, directiveVars, bounds
  <2>5. CASE callStart
    BY <2>5 DEF callStart, Controls, Places, directiveVars, sessVars
  <2>6. CASE startLoop \/ callInit \/ snapshotEstablished
    BY <2>6 DEF startLoop, callInit, snapshotEstablished, Controls, Places,
                directiveVars, protoVars, sessVars, bounds
  <2>7. CASE (\E h \in Host : replaySession(h)) \/ finishRestart \/ Restarted
    BY <2>7 DEF replaySession, finishRestart, Restarted, Controls, Places,
                directiveVars, protoVars, sessVars, bounds
  <2>8. CASE removeProtocol \/ supervisorEnds
    BY <2>8 DEF removeProtocol, supervisorEnds, Controls, Places,
                directiveVars, protoVars, sessVars, bounds
  <2> QED  BY <2>1, <2>2, <2>3, <2>4, <2>5, <2>6, <2>7, <2>8 DEF supervisor
<1>3. inst \in Inst
  BY DEF Controls
<1>4. /\ mail' \in [Inst -> Seq(Event)]
      /\ loop' \in [Inst -> {"none", "next", "dispatch", "balance", "exited"}]
      /\ \A i \in Inst : loop'[i] = "dispatch" => loop[i] = "dispatch"
      /\ stopping' \in [Inst -> BOOLEAN]
      /\ armed' \in [Inst -> {"none", "armed", "fired", "cancelled"}]
  <2>1. CASE quarantine
    BY <1>3, <2>1 DEF quarantine, Hands
  <2>2. CASE drainMailboxToDeadLetter
    BY <1>3, <2>2 DEF drainMailboxToDeadLetter, Hands, loopVars
  <2>3. CASE cleanUp
    BY <2>3 DEF cleanUp, Hands, loopVars
  <2>4. CASE startLoop
    BY <1>3, <2>4 DEF startLoop, Hands
  <2>5. CASE callInit
    BY <1>3, <2>5 DEF callInit, Hands, loopVars, protoVars, Timer
  <2>6. CASE ~(quarantine \/ drainMailboxToDeadLetter \/ cleanUp \/ startLoop \/ callInit)
    <3>1. UNCHANGED <<mail, loop, stopping, armed>>
      BY <2>6 DEF supervisor, run, recordPanic, stopLoop, resetForRestart, callStart,
         snapshotEstablished, replaySession, finishRestart, Restarted,
         removeProtocol, supervisorEnds, protoVars, loopVars
    <3> QED  BY <3>1 DEF Hands
  <2> QED  BY <2>1, <2>2, <2>3, <2>4, <2>5, <2>6
<1>5. UNCHANGED enqVars \/ \E g \in Goroutine, e \in Event : Call(g, e)
  <2>1. CASE \E h \in Host : replaySession(h)
    BY <2>1, EventsAreEvents DEF replaySession, Goroutine
  <2>2. CASE finishRestart
    BY <1>3, <2>2, EventsAreEvents DEF finishRestart, Goroutine
  <2>3. CASE ~(\E h \in Host : replaySession(h)) /\ ~finishRestart
    BY <2>3 DEF supervisor, run, recordPanic, quarantine, stopLoop,
         drainMailboxToDeadLetter, cleanUp, resetForRestart, callStart, startLoop,
         callInit, snapshotEstablished, Restarted, removeProtocol, supervisorEnds
  <2> QED  BY <2>1, <2>2, <2>3
<1>6. UNCHANGED cur
  BY <1>1
<1>7. /\ epc' \in [Goroutine -> {"idle", "check", "load", "push"}]
      /\ eev' \in [Goroutine -> Event \cup {NoEvent}]
      /\ ebox' \in [Goroutine -> Inst]
      /\ \A p \in Goroutine : epc'[p] # "idle" => eev'[p] \in Event
  <2>1. CASE UNCHANGED enqVars
    BY <2>1 DEF Hands, Holding, enqVars
  <2>2. CASE \E g \in Goroutine, e \in Event : Call(g, e)
    BY <2>2, CallShape
  <2> QED  BY <1>5, <2>1, <2>2
<1>8. Hands'
  BY <1>4, <1>6, <1>7 DEF Hands
<1>9. Holding'
  BY <1>4, <1>6, <1>7 DEF Holding
<1> QED  BY <1>2, <1>8, <1>9

\* Every step keeps the types.
LEMMA ShapeStep == Shape /\ [Next]_vars => Shape'
<1> SUFFICES ASSUME Shape, [Next]_vars PROVE Shape'
  OBVIOUS
<1>1. CASE UNCHANGED vars
  BY <1>1 DEF Shape, Controls, Flags, Hands, Holding, vars, directiveVars, protoVars, loopVars,
              supVars, enqVars, sessVars, bounds
<1> QED  BY <1>1, EnqueueShape, LoopShape, EnvironmentShape, SupervisorShape DEF Next
------------------------------------------------------------------------------
(* The count of the events in flight. *)

\* The members of S that f maps into V.
Marked(S, f, V) == {x \in S : f[x] \in V}

\* Changing f at b changes how many it maps into V by what changes at b.
LEMMA MarkedCount ==
  ASSUME NEW S, IsFiniteSet(S), NEW f, f = [x \in S |-> f[x]], NEW V,
         NEW b \in S, NEW v
  PROVE  /\ Cardinality(Marked(S, f, V)) \in Nat
         /\ (f[b] \in V <=> v \in V) =>
               Cardinality(Marked(S, [f EXCEPT ![b] = v], V)) = Cardinality(Marked(S, f, V))
         /\ f[b] \notin V /\ v \in V =>
               Cardinality(Marked(S, [f EXCEPT ![b] = v], V)) = Cardinality(Marked(S, f, V)) + 1
         /\ f[b] \in V /\ v \notin V =>
               Cardinality(Marked(S, [f EXCEPT ![b] = v], V)) = Cardinality(Marked(S, f, V)) - 1
<1> DEFINE m == Marked(S, f, V)
           w == Marked(S, [f EXCEPT ![b] = v], V)
<1>1. IsFiniteSet(m) /\ Cardinality(m) \in Nat
  <2>1. m \subseteq S
    BY DEF Marked
  <2> QED  BY <2>1, FS_Subset, FS_CardinalityType
<1>2. /\ (f[b] \in V <=> v \in V) => w = m
      /\ f[b] \notin V /\ v \in V => b \notin m /\ w = m \cup {b}
      /\ f[b] \in V /\ v \notin V => b \in m /\ w = m \ {b}
  BY DEF Marked
<1> HIDE DEF m, w
<1>3. b \notin m => Cardinality(m \cup {b}) = Cardinality(m) + 1
  BY <1>1, FS_AddElement
<1>4. b \in m => Cardinality(m \ {b}) = Cardinality(m) - 1
  BY <1>1, FS_RemoveElement
<1> QED  BY <1>1, <1>2, <1>3, <1>4 DEF m, w

\* How many events are queued, dispatched and pushed.
QueuedIn(m)  == Cardinality(PlacesIn(m))
BusyIn(l)    == Cardinality(Marked(Inst, l, {"dispatch", "balance"}))
PushingIn(e) == Cardinality(Marked(Goroutine, e, {"push"}))
Exact        == inFlight = QueuedIn(mail) + BusyIn(loop) + PushingIn(epc)

\* The three counts, and what a step of a mailbox, a loop or a goroutine makes
\* of them.
LEMMA Counts ==
  ASSUME Hands
  PROVE  /\ QueuedIn(mail) \in Nat /\ BusyIn(loop) \in Nat /\ PushingIn(epc) \in Nat
         /\ \A i \in Inst : \A t \in Seq(Event) :
               QueuedIn([mail EXCEPT ![i] = t]) = QueuedIn(mail) - Len(mail[i]) + Len(t)
         /\ \A i \in Inst : \A s :
               /\ (loop[i] \in {"dispatch", "balance"} <=> s \in {"dispatch", "balance"}) =>
                     BusyIn([loop EXCEPT ![i] = s]) = BusyIn(loop)
               /\ loop[i] \notin {"dispatch", "balance"} /\ s \in {"dispatch", "balance"} =>
                     BusyIn([loop EXCEPT ![i] = s]) = BusyIn(loop) + 1
               /\ loop[i] \in {"dispatch", "balance"} /\ s \notin {"dispatch", "balance"} =>
                     BusyIn([loop EXCEPT ![i] = s]) = BusyIn(loop) - 1
         /\ \A g \in Goroutine : \A s :
               /\ epc[g] # "push" /\ s # "push" =>
                     PushingIn([epc EXCEPT ![g] = s]) = PushingIn(epc)
               /\ epc[g] # "push" =>
                     PushingIn([epc EXCEPT ![g] = "push"]) = PushingIn(epc) + 1
               /\ epc[g] = "push" /\ s # "push" =>
                     PushingIn([epc EXCEPT ![g] = s]) = PushingIn(epc) - 1
<1>1. /\ mail \in [Inst -> Seq(Event)] /\ loop = [i \in Inst |-> loop[i]]
      /\ epc = [g \in Goroutine |-> epc[g]]
  BY DEF Hands
<1>2. 0 \in Inst /\ pump \in Goroutine /\ <<>> \in Seq(Event)
  BY BoundAssumption DEF Inst, Goroutine
<1>3. QueuedIn(mail) \in Nat /\ BusyIn(loop) \in Nat /\ PushingIn(epc) \in Nat
  BY <1>1, <1>2, Finite, PlacesCount, MarkedCount DEF QueuedIn, BusyIn, PushingIn
<1>4. \A i \in Inst : \A t \in Seq(Event) :
         QueuedIn([mail EXCEPT ![i] = t]) = QueuedIn(mail) - Len(mail[i]) + Len(t)
  BY <1>1, PlacesCount DEF QueuedIn
<1>5. ASSUME NEW i \in Inst, NEW s
      PROVE  /\ (loop[i] \in {"dispatch", "balance"} <=> s \in {"dispatch", "balance"}) =>
                   BusyIn([loop EXCEPT ![i] = s]) = BusyIn(loop)
             /\ loop[i] \notin {"dispatch", "balance"} /\ s \in {"dispatch", "balance"} =>
                   BusyIn([loop EXCEPT ![i] = s]) = BusyIn(loop) + 1
             /\ loop[i] \in {"dispatch", "balance"} /\ s \notin {"dispatch", "balance"} =>
                   BusyIn([loop EXCEPT ![i] = s]) = BusyIn(loop) - 1
  <2> DEFINE V == {"dispatch", "balance"}
             m(f) == Cardinality(Marked(Inst, f, V))
  <2>1. loop = [x \in Inst |-> loop[x]] /\ IsFiniteSet(Inst)
    BY <1>1, Finite
  <2>2. /\ (loop[i] \in V <=> s \in V) => m([loop EXCEPT ![i] = s]) = m(loop)
        /\ loop[i] \notin V /\ s \in V => m([loop EXCEPT ![i] = s]) = m(loop) + 1
        /\ loop[i] \in V /\ s \notin V => m([loop EXCEPT ![i] = s]) = m(loop) - 1
    <3> HIDE DEF V
    <3> QED  BY <2>1, MarkedCount
  <2> QED  BY <2>2 DEF BusyIn
<1>6. ASSUME NEW g \in Goroutine, NEW s
      PROVE  /\ epc[g] # "push" /\ s # "push" =>
                   PushingIn([epc EXCEPT ![g] = s]) = PushingIn(epc)
             /\ epc[g] # "push" =>
                   PushingIn([epc EXCEPT ![g] = "push"]) = PushingIn(epc) + 1
             /\ epc[g] = "push" /\ s # "push" =>
                   PushingIn([epc EXCEPT ![g] = s]) = PushingIn(epc) - 1
  <2> DEFINE V == {"push"}
             m(f) == Cardinality(Marked(Goroutine, f, V))
  <2>1. epc = [x \in Goroutine |-> epc[x]] /\ IsFiniteSet(Goroutine)
    BY <1>1, Finite
  <2>2. \A v : /\ (epc[g] \in V <=> v \in V) => m([epc EXCEPT ![g] = v]) = m(epc)
               /\ epc[g] \notin V /\ v \in V => m([epc EXCEPT ![g] = v]) = m(epc) + 1
               /\ epc[g] \in V /\ v \notin V => m([epc EXCEPT ![g] = v]) = m(epc) - 1
    <3> HIDE DEF V
    <3> QED  BY <2>1, MarkedCount
  <2>3. \A x : x \in V <=> x = "push"
    OBVIOUS
  <2> HIDE DEF V
  <2>4. \A v : /\ epc[g] # "push" /\ v # "push" => m([epc EXCEPT ![g] = v]) = m(epc)
               /\ epc[g] # "push" /\ v = "push" => m([epc EXCEPT ![g] = v]) = m(epc) + 1
               /\ epc[g] = "push" /\ v # "push" => m([epc EXCEPT ![g] = v]) = m(epc) - 1
    BY <2>2, <2>3
  <2>5. \A f : PushingIn(f) = m(f)
    BY DEF PushingIn, V
  <2> HIDE DEF m
  <2> QED  BY <2>4, <2>5
<1> QED  BY <1>3, <1>4, <1>5, <1>6

\* enqueue counts what it pushes, and what it drops or gives up not.
LEMMA EnqueueExact ==
  ASSUME Shape, inFlight \in Nat, Exact, NEW g \in Goroutine, enqueue(g)
  PROVE  Exact'
<1>1. Hands
  BY DEF Shape
<1>2. QueuedIn(mail) \in Nat /\ BusyIn(loop) \in Nat /\ PushingIn(epc) \in Nat
  BY <1>1, Counts
<1>3. inFlight = QueuedIn(mail) + BusyIn(loop) + PushingIn(epc)
  BY DEF Exact
<1>4. \A s : /\ epc[g] # "push" /\ s # "push" => PushingIn([epc EXCEPT ![g] = s]) = PushingIn(epc)
             /\ epc[g] # "push" => PushingIn([epc EXCEPT ![g] = "push"]) = PushingIn(epc) + 1
             /\ epc[g] = "push" /\ s # "push" =>
                   PushingIn([epc EXCEPT ![g] = s]) = PushingIn(epc) - 1
  BY <1>1, Counts
<1>5. UNCHANGED loop
  BY DEF enqueue, enqueueCheck, enqueueLoad, enqueuePush, enqueueAborted, loopVars
<1>6. CASE enqueueCheck(g)
  <2>1. UNCHANGED <<mail, inFlight>> /\ epc[g] = "check"
        /\ \/ epc' = [epc EXCEPT ![g] = "idle"]
           \/ epc' = [epc EXCEPT ![g] = "load"]
    BY <1>6 DEF enqueueCheck, Return, protoVars
  <2>2. /\ PushingIn([epc EXCEPT ![g] = "idle"]) = PushingIn(epc)
        /\ PushingIn([epc EXCEPT ![g] = "load"]) = PushingIn(epc)
    BY <1>4, <2>1
  <2>3. PushingIn(epc') = PushingIn(epc)
    BY <2>1, <2>2
  <2> QED  BY <1>5, <2>1, <2>3 DEF Exact
<1>7. CASE enqueueLoad(g)
  <2>1. UNCHANGED mail /\ inFlight' = inFlight + 1 /\ epc[g] = "load"
        /\ epc' = [epc EXCEPT ![g] = "push"]
    BY <1>7 DEF enqueueLoad
  <2>2. PushingIn(epc') = PushingIn(epc) + 1
    BY <1>4, <2>1
  <2> QED  BY <1>2, <1>3, <1>5, <2>1, <2>2 DEF Exact
<1>8. CASE enqueueAborted(g)
  <2>1. UNCHANGED mail /\ inFlight' = inFlight - 1 /\ epc[g] = "push"
        /\ epc' = [epc EXCEPT ![g] = "idle"]
    BY <1>8 DEF enqueueAborted, Return
  <2>2. PushingIn(epc') = PushingIn(epc) - 1
    BY <1>4, <2>1
  <2> QED  BY <1>2, <1>3, <1>5, <2>1, <2>2 DEF Exact
<1>9. CASE enqueuePush(g)
  <2> DEFINE b == ebox[g]
             e == eev[g]
             q == mail[b]
             t == enqueueLocked(policy, q, e)
             drop == Dropped(policy, q, e)
  <2>1. epc[g] = "push" /\ epc' = [epc EXCEPT ![g] = "idle"] /\ mail' = [mail EXCEPT ![b] = t]
    BY <1>9 DEF enqueuePush, Return
  <2>2. inFlight' = IF drop = NoEvent THEN inFlight ELSE inFlight - 1
    BY <1>9 DEF enqueuePush
  <2>3. PushingIn(epc') = PushingIn(epc) - 1
    BY <1>4, <2>1
  <2>4. b \in Inst /\ q \in Seq(Event) /\ e \in Event /\ policy \in OverflowPolicy
    BY <1>1, <2>1, PolicyAssumption DEF Shape, Hands, Holding, Controls
  <2> HIDE DEF b, e, q
  <2>5. t \in Seq(Event) /\ (drop = NoEvent => t = Append(q, e)) /\ (drop # NoEvent => Len(t) = Len(q))
    BY <2>4, PushResult
  <2>6. Len(q) \in Nat /\ Len(Append(q, e)) = Len(q) + 1
    BY <2>4, LenProperties, AppendProperties
  <2>7. QueuedIn(mail') = QueuedIn(mail) - Len(q) + Len(t)
    <3> HIDE DEF t
    <3>1. \A i \in Inst : \A s \in Seq(Event) :
             QueuedIn([mail EXCEPT ![i] = s]) = QueuedIn(mail) - Len(mail[i]) + Len(s)
      BY <1>1, Counts
    <3> QED  BY <2>1, <2>4, <2>5, <3>1 DEF q
  <2>8. CASE drop = NoEvent
    <3>1. Len(t) = Len(q) + 1 /\ inFlight' = inFlight
      BY <2>2, <2>5, <2>6, <2>8
    <3> HIDE DEF t, drop
    <3> QED  BY <1>2, <1>3, <1>5, <2>3, <2>6, <2>7, <3>1 DEF Exact
  <2>9. CASE drop # NoEvent
    <3>1. Len(t) = Len(q) /\ inFlight' = inFlight - 1
      BY <2>2, <2>5, <2>9
    <3> HIDE DEF t, drop
    <3> QED  BY <1>2, <1>3, <1>5, <2>3, <2>6, <2>7, <3>1 DEF Exact
  <2> QED  BY <2>8, <2>9
<1> QED  BY <1>6, <1>7, <1>8, <1>9 DEF enqueue

\* A loop hands its event from the mailbox to the handler, and then gives its
\* count back, a panicking handler's too.
LEMMA LoopExact ==
  ASSUME Shape, inFlight \in Nat, Exact, NEW i \in Inst, eventHandler(i)
  PROVE  Exact'
<1>1. Hands
  BY DEF Shape
<1>2. QueuedIn(mail) \in Nat /\ BusyIn(loop) \in Nat /\ PushingIn(epc) \in Nat
  BY <1>1, Counts
<1>3. inFlight = QueuedIn(mail) + BusyIn(loop) + PushingIn(epc)
  BY DEF Exact
<1>4. \A s : /\ (loop[i] \in {"dispatch", "balance"} <=> s \in {"dispatch", "balance"}) =>
                   BusyIn([loop EXCEPT ![i] = s]) = BusyIn(loop)
             /\ loop[i] \notin {"dispatch", "balance"} /\ s \in {"dispatch", "balance"} =>
                   BusyIn([loop EXCEPT ![i] = s]) = BusyIn(loop) + 1
             /\ loop[i] \in {"dispatch", "balance"} /\ s \notin {"dispatch", "balance"} =>
                   BusyIn([loop EXCEPT ![i] = s]) = BusyIn(loop) - 1
  BY <1>1, Counts
<1>5. UNCHANGED epc
  BY DEF eventHandler, LoopTake, LoopExit, dispatch, safeCall, LoopBalance, enqVars
<1>6. CASE LoopTake(i)
  <2>1. /\ UNCHANGED inFlight /\ loop[i] = "next" /\ mail[i] # <<>>
        /\ mail' = [mail EXCEPT ![i] = Tail(mail[i])]
        /\ loop' = [loop EXCEPT ![i] = "dispatch"]
    BY <1>6 DEF LoopTake
  <2>2. BusyIn(loop') = BusyIn(loop) + 1
    BY <1>4, <2>1
  <2>3. mail[i] \in Seq(Event)
    BY <1>1 DEF Hands
  <2>4. Tail(mail[i]) \in Seq(Event) /\ Len(Tail(mail[i])) = Len(mail[i]) - 1 /\ Len(mail[i]) \in Nat
    BY <2>1, <2>3, HeadTailProperties, LenProperties
  <2>5. QueuedIn(mail') = QueuedIn(mail) - Len(mail[i]) + Len(Tail(mail[i]))
    <3>1. \A s \in Seq(Event) :
             QueuedIn([mail EXCEPT ![i] = s]) = QueuedIn(mail) - Len(mail[i]) + Len(s)
      BY <1>1, Counts
    <3> QED  BY <2>1, <2>4, <3>1
  <2> QED  BY <1>2, <1>3, <1>5, <2>1, <2>2, <2>4, <2>5 DEF Exact
<1>7. CASE LoopExit(i) \/ dispatch(i) \/ safeCall(i)
  <2>1. UNCHANGED <<mail, inFlight>>
        /\ \/ loop[i] = "next" /\ loop' = [loop EXCEPT ![i] = "exited"]
           \/ loop[i] = "dispatch" /\ loop' = [loop EXCEPT ![i] = "balance"]
    BY <1>7 DEF LoopExit, dispatch, safeCall, protoVars
  <2>2. BusyIn(loop') = BusyIn(loop)
    BY <1>4, <2>1
  <2> QED  BY <1>5, <2>1, <2>2 DEF Exact
<1>8. CASE LoopBalance(i)
  <2>1. UNCHANGED mail /\ inFlight' = inFlight - 1 /\ loop[i] = "balance"
        /\ \E s \in {"exited", "next"} : loop' = [loop EXCEPT ![i] = s]
    BY <1>8 DEF LoopBalance
  <2>2. BusyIn(loop') = BusyIn(loop) - 1
    BY <1>4, <2>1
  <2> QED  BY <1>2, <1>3, <1>5, <2>1, <2>2 DEF Exact
<1> QED  BY <1>6, <1>7, <1>8 DEF eventHandler

\* The producers and the supervisor: calling enqueue counts nothing yet, a
\* drained mailbox takes its events out of the count, and a started loop holds
\* no event.
LEMMA RestExact ==
  ASSUME Shape, LoopInv, inFlight \in Nat, Exact,
         environment \/ Cancel \/ supervisor
  PROVE  Exact'
<1>1. Hands
  BY DEF Shape
<1>2. QueuedIn(mail) \in Nat /\ BusyIn(loop) \in Nat /\ PushingIn(epc) \in Nat
  BY <1>1, Counts
<1>3. inFlight = QueuedIn(mail) + BusyIn(loop) + PushingIn(epc)
  BY DEF Exact
<1>4. inst \in Inst
  BY DEF Shape, Controls
<1>5. PushingIn(epc') = PushingIn(epc)
  <2>1. UNCHANGED epc \/ \E g \in Goroutine : epc[g] = "idle" /\ epc' = [epc EXCEPT ![g] = "check"]
    <3>1. CASE environment \/ Cancel
      BY <3>1 DEF environment, processMessage, dispatchSessionEvent, timerFires, Cancel,
                  Call, enqVars, Goroutine
    <3>2. CASE supervisor
      <4>1. UNCHANGED enqVars \/ \E e : Call(replayer, e)
        BY <3>2 DEF supervisor, run, recordPanic, quarantine, stopLoop,
             drainMailboxToDeadLetter, cleanUp, resetForRestart, callStart, startLoop,
             callInit, snapshotEstablished, replaySession, finishRestart, Restarted,
             removeProtocol, supervisorEnds
      <4> QED  BY <4>1 DEF Call, enqVars, Goroutine
    <3> QED  BY <3>1, <3>2
  <2>2. \A g \in Goroutine : \A s : epc[g] # "push" /\ s # "push" =>
           PushingIn([epc EXCEPT ![g] = s]) = PushingIn(epc)
    BY <1>1, Counts
  <2> QED  BY <2>1, <2>2
<1>6. CASE drainMailboxToDeadLetter
  <2>1. /\ UNCHANGED loop /\ inFlight' = inFlight - Len(mail[inst])
        /\ mail' = [mail EXCEPT ![inst] = <<>>]
    BY <1>6 DEF drainMailboxToDeadLetter, loopVars
  <2>2. /\ \A s \in Seq(Event) :
             QueuedIn([mail EXCEPT ![inst] = s]) = QueuedIn(mail) - Len(mail[inst]) + Len(s)
        /\ mail[inst] \in Seq(Event)
    BY <1>1, <1>4, Counts DEF Hands
  <2>3. <<>> \in Seq(Event) /\ Len(<<>>) = 0 /\ Len(mail[inst]) \in Nat
    BY <2>2, LenProperties, EmptySeq
  <2>4. QueuedIn([mail EXCEPT ![inst] = <<>>]) = QueuedIn(mail) - Len(mail[inst]) + 0
    BY <2>2, <2>3
  <2>5. QueuedIn(mail') = QueuedIn(mail) - Len(mail[inst])
    BY <1>2, <2>1, <2>3, <2>4
  <2> QED  BY <1>2, <1>3, <1>5, <2>1, <2>3, <2>5 DEF Exact
<1>7. CASE startLoop
  <2>1. UNCHANGED <<mail, inFlight>> /\ sup = "lift" /\ loop' = [loop EXCEPT ![inst] = "next"]
    BY <1>7 DEF startLoop
  <2>2. loop[inst] \notin {"dispatch", "balance"}
    BY <1>4, <2>1 DEF LoopInv, Running
  <2>3. BusyIn(loop') = BusyIn(loop)
    <3>1. \A i \in Inst : \A s :
             (loop[i] \in {"dispatch", "balance"} <=> s \in {"dispatch", "balance"}) =>
                BusyIn([loop EXCEPT ![i] = s]) = BusyIn(loop)
      BY <1>1, Counts
    <3> QED  BY <1>4, <2>1, <2>2, <3>1
  <2> QED  BY <1>5, <2>1, <2>3 DEF Exact
<1>8. CASE ~drainMailboxToDeadLetter /\ ~startLoop
  <2>1. UNCHANGED <<mail, loop, inFlight>>
    BY <1>8 DEF environment, processMessage, dispatchSessionEvent, timerFires, Cancel,
         supervisor, run, recordPanic, quarantine, stopLoop, cleanUp, resetForRestart,
         callStart, callInit, snapshotEstablished, replaySession, finishRestart, Restarted,
         removeProtocol, supervisorEnds, protoVars, loopVars
  <2> QED  BY <1>5, <2>1 DEF Exact
<1> QED  BY <1>6, <1>7, <1>8

\* The counts are naturals.
LEMMA CountsNat ==
  Hands => QueuedIn(mail) \in Nat /\ BusyIn(loop) \in Nat /\ PushingIn(epc) \in Nat
BY Counts

\* The types and the count.
CountInv == Shape /\ inFlight \in Nat /\ Exact

\* No step makes the count differ from what it counts.
LEMMA CountInvariance == Spec => []CountInv
<1>1. Init => CountInv
  <2> SUFFICES ASSUME Init PROVE CountInv
    OBVIOUS
  <2>1. Shape
    BY ShapeInit
  <2>2. PlacesIn(mail) = {} /\ Marked(Goroutine, epc, {"push"}) = {}
        /\ Marked(Inst, loop, {"dispatch", "balance"}) = {}
    BY DEF Init, PlacesIn, Marked
  <2>3. inFlight = 0 /\ QueuedIn(mail) = 0 /\ BusyIn(loop) = 0 /\ PushingIn(epc) = 0
    BY <2>2, FS_EmptySet DEF Init, QueuedIn, BusyIn, PushingIn
  <2> QED  BY <2>1, <2>3 DEF CountInv, Exact
<1>2. LoopInv /\ CountInv /\ [Next]_vars => CountInv'
  <2> SUFFICES ASSUME LoopInv, CountInv, [Next]_vars PROVE CountInv'
    OBVIOUS
  <2>1. Shape /\ Exact /\ inFlight \in Nat
    BY DEF CountInv
  <2>2. Shape'
    BY <2>1, ShapeStep
  <2>3. Exact'
    <3>1. CASE UNCHANGED vars
      BY <2>1, <3>1 DEF Exact, vars, protoVars, loopVars, enqVars
    <3> QED  BY <2>1, <3>1, EnqueueExact, LoopExact, RestExact DEF Next
  <2>4. inFlight' \in Nat
    <3>1. (Hands => QueuedIn(mail) \in Nat /\ BusyIn(loop) \in Nat /\ PushingIn(epc) \in Nat)'
      BY CountsNat, PTL
    <3> QED  BY <2>2, <2>3, <3>1 DEF Exact, Shape
  <2> QED  BY <2>2, <2>3, <2>4 DEF CountInv
<1> QED  BY <1>1, <1>2, LoopInvariance, PTL DEF Spec

\* The count of events in flight is exact over restarts, panics, drops and
\* drained mailboxes, for any number of producers.
THEOREM InFlightIsExact == Spec => []InFlightExact
<1>1. CountInv => InFlightExact
  <2> SUFFICES ASSUME CountInv PROVE InFlightExact
    OBVIOUS
  <2>1. TypeOK
    BY DEF CountInv, Shape, Controls, Flags, Hands, TypeOK
  <2>2. QueuedIn(mail) = Cardinality(Queued) /\ BusyIn(loop) = Cardinality(Busy)
    BY DEF QueuedIn, PlacesIn, Queued, BusyIn, Marked, Busy
  <2>3. PushingIn(epc) = Cardinality(Pushing)
    <3>1. Marked(Goroutine, epc, {"push"}) = Pushing
      BY DEF Marked, Pushing
    <3> QED  BY <3>1 DEF PushingIn
  <2> QED  BY <2>1, <2>2, <2>3 DEF CountInv, Exact, InFlightExact
<1> QED  BY <1>1, CountInvariance, PTL
------------------------------------------------------------------------------
(* Session replay. *)

\* The supervisor has the failed protocol stopped, or takes it to its end, ...
Doomed == {"record", "quarantine", "stopLoop", "drain", "clean", "backoff", "remove", "gone"}

\* ... or has it rebuilt and not yet looked at the established peers.
Rebuild == Doomed \cup {"start", "lift", "init", "snapshot"}

Up(h)   == [kind |-> "up", arg |-> h]
Down(h) == [kind |-> "down", arg |-> h]

\* Goroutine g has e on its way to the current mailbox.
Reaching(g, e) ==
    /\ eev[g] = e
    /\ epc[g] \in {"check", "load"} \/ (epc[g] = "push" /\ ebox[g] = inst)

\* The last that the events of q say of h, if anything, is that it is up.
EndsUp(q, h) ==
    \E k \in 1 .. Len(q) : q[k] = Up(h) /\ \A j \in k + 1 .. Len(q) : q[j] # Down(h)
NoDown(q, h) == \A j \in 1 .. Len(q) : q[j] # Down(h)

\* The instance will take h for up once it has dispatched what it was sent.
Heard(h) ==
    \/ EndsUp(mail[inst], h)
    \/ /\ NoDown(mail[inst], h)
       /\ \/ loop[inst] = "dispatch" /\ cur[inst] = Up(h)
          \/ h \in view /\ (loop[inst] = "dispatch" => cur[inst] # Down(h))

\* The restart to come replays h, or the runtime ends.
ToReplay(h) ==
    \/ signals # NoInst \/ sup \in Rebuild \/ cancelled
    \/ sup = "replay" /\ h \in replay

\* An established session of h is known to the instance, or will be.
Tracked(h) == ToReplay(h) \/ Reaching(pump, Up(h)) \/ Reaching(replayer, Up(h)) \/ Heard(h)

\* A quarantined protocol has a restart, or its end, to come.
QuarantineInv == quarantined => signals # NoInst \/ sup \in Doomed \cup {"start", "lift"}

\* Only a supervisor that replays enqueues.
ReplayerInv ==
    /\ removed => sup = "gone"
    /\ sup \notin {"replay", "finish"} => epc[replayer] = "idle"

\* Only the session pump brings the news that a peer went down, and until it
\* has, the peer is not established again.
DownInv ==
    \A g \in Goroutine, h \in Host :
        epc[g] # "idle" /\ eev[g] = Down(h) => g = pump /\ h \notin established

TrackInv == policy \in {"block", "unbounded"} => \A h \in established : Tracked(h)

ReplayInv == QuarantineInv /\ ReplayerInv /\ DownInv /\ TrackInv

\* The goroutines that enqueue are told apart, and so are their events.
LEMMA Apart ==
  /\ pump \in Goroutine /\ replayer \in Goroutine /\ pump # replayer
  /\ \A m \in 1 .. Messages : /\ dispatcher(m) \in Goroutine
                              /\ dispatcher(m) # pump /\ dispatcher(m) # replayer
  /\ \A i \in Inst : timer(i) \in Goroutine /\ timer(i) # pump /\ timer(i) # replayer
  /\ \A e \in Event : e.kind = "down" => e = Down(e.arg)
  /\ \A h, x : /\ [kind |-> "message", arg |-> x] # Down(h)
               /\ [kind |-> "timer", arg |-> x] # Down(h)
               /\ [kind |-> "callback", arg |-> x] # Down(h)
               /\ Up(x) # Down(h) /\ (Up(x) = Up(h) <=> x = h) /\ (Down(x) = Down(h) <=> x = h)
<1>1. /\ pump \in Goroutine /\ replayer \in Goroutine /\ pump # replayer
      /\ \A m \in 1 .. Messages : /\ dispatcher(m) \in Goroutine
                                  /\ dispatcher(m) # pump /\ dispatcher(m) # replayer
      /\ \A i \in Inst : timer(i) \in Goroutine /\ timer(i) # pump /\ timer(i) # replayer
  BY DEF Goroutine, dispatcher, timer, pump, replayer
<1>2. \A e \in Event : e.kind = "down" => e = Down(e.arg)
  BY DEF Event, Down
<1>3. ASSUME NEW h, NEW x
      PROVE  /\ [kind |-> "message", arg |-> x] # Down(h)
             /\ [kind |-> "timer", arg |-> x] # Down(h)
             /\ [kind |-> "callback", arg |-> x] # Down(h)
             /\ Up(x) # Down(h) /\ (Up(x) = Up(h) <=> x = h) /\ (Down(x) = Down(h) <=> x = h)
  BY DEF Up, Down
<1> QED  BY <1>1, <1>2, <1>3

\* What is known of h after one more event, and after one fewer.
LEMMA NewsAppended ==
  ASSUME NEW q \in Seq(Event), NEW e \in Event, NEW h
  PROVE  /\ e = Up(h) => EndsUp(Append(q, e), h)
         /\ e # Down(h) /\ EndsUp(q, h) => EndsUp(Append(q, e), h)
         /\ e # Down(h) /\ NoDown(q, h) => NoDown(Append(q, e), h)
<1>1. /\ Len(q) \in Nat /\ Len(Append(q, e)) = Len(q) + 1
      /\ Append(q, e)[Len(q) + 1] = e
      /\ \A j \in 1 .. Len(q) : Append(q, e)[j] = q[j]
  BY AppendProperties, LenProperties
<1>2. e = Up(h) => EndsUp(Append(q, e), h)
  <2>1. Len(q) + 1 \in 1 .. Len(q) + 1 /\ (Len(q) + 1) + 1 .. Len(q) + 1 = {}
    BY <1>1
  <2> QED  BY <1>1, <2>1 DEF EndsUp
<1>3. ASSUME e # Down(h), EndsUp(q, h) PROVE EndsUp(Append(q, e), h)
  <2>1. PICK k \in 1 .. Len(q) : q[k] = Up(h) /\ \A j \in k + 1 .. Len(q) : q[j] # Down(h)
    BY <1>3 DEF EndsUp
  <2>2. k \in 1 .. Len(q) + 1 /\ Append(q, e)[k] = Up(h)
    BY <1>1, <2>1
  <2>3. ASSUME NEW j \in k + 1 .. Len(q) + 1 PROVE Append(q, e)[j] # Down(h)
    <3>1. j = Len(q) + 1 \/ (j \in k + 1 .. Len(q) /\ j \in 1 .. Len(q))
      BY <1>1
    <3> QED  BY <1>1, <1>3, <2>1, <3>1
  <2> QED  BY <1>1, <2>2, <2>3 DEF EndsUp
<1>4. e # Down(h) /\ NoDown(q, h) => NoDown(Append(q, e), h)
  BY <1>1 DEF NoDown
<1> QED  BY <1>2, <1>3, <1>4

\* The event that a loop takes is remembered until it is dispatched.
LEMMA NewsTaken ==
  ASSUME NEW q \in Seq(Event), q # <<>>, NEW h
  PROVE  /\ EndsUp(q, h) => EndsUp(Tail(q), h) \/ (Head(q) = Up(h) /\ NoDown(Tail(q), h))
         /\ NoDown(q, h) => NoDown(Tail(q), h) /\ Head(q) # Down(h)
<1>1. /\ Len(q) \in Nat \ {0} /\ Head(q) = q[1] /\ Len(Tail(q)) = Len(q) - 1
      /\ \A j \in 1 .. Len(q) - 1 : Tail(q)[j] = q[j + 1]
  BY HeadTailProperties, LenProperties, EmptySeq
<1>2. ASSUME EndsUp(q, h)
      PROVE  EndsUp(Tail(q), h) \/ (Head(q) = Up(h) /\ NoDown(Tail(q), h))
  <2>1. PICK k \in 1 .. Len(q) : q[k] = Up(h) /\ \A j \in k + 1 .. Len(q) : q[j] # Down(h)
    BY <1>2 DEF EndsUp
  <2>2. CASE k = 1
    <3>1. \A j \in 1 .. Len(q) - 1 : j + 1 \in 2 .. Len(q)
      BY <1>1
    <3>2. \A j \in 1 .. Len(q) - 1 : Tail(q)[j] # Down(h)
      BY <1>1, <2>1, <2>2, <3>1
    <3> QED  BY <1>1, <2>1, <2>2, <3>2 DEF NoDown
  <2>3. CASE k # 1
    <3>1. k - 1 \in 1 .. Len(q) - 1 /\ (k - 1) + 1 = k
      BY <1>1, <2>3
    <3>2. Tail(q)[k - 1] = Up(h)
      BY <1>1, <2>1, <3>1
    <3>3. ASSUME NEW j \in (k - 1) + 1 .. Len(q) - 1 PROVE Tail(q)[j] # Down(h)
      <4>1. j \in 1 .. Len(q) - 1 /\ j + 1 \in k + 1 .. Len(q)
        BY <1>1
      <4> QED  BY <1>1, <2>1, <4>1
    <3> QED  BY <1>1, <3>1, <3>2, <3>3 DEF EndsUp
  <2> QED  BY <2>2, <2>3
<1>3. ASSUME NoDown(q, h) PROVE NoDown(Tail(q), h) /\ Head(q) # Down(h)
  <2>1. 1 \in 1 .. Len(q) /\ \A j \in 1 .. Len(q) - 1 : j + 1 \in 1 .. Len(q)
    BY <1>1
  <2> QED  BY <1>1, <1>3, <2>1 DEF NoDown
<1> QED  BY <1>2, <1>3

\* enqueue loses no news of an established peer, but to a restart to come.
LEMMA ReplayEnqueue ==
  ASSUME Shape, ReplayInv, NEW g \in Goroutine, enqueue(g)
  PROVE  ReplayInv'
<1>1. UNCHANGED <<quarantined, signals, sup, removed, cancelled, replay, established,
                  inst, loop, cur, view, policy>>
  BY DEF enqueue, enqueueCheck, enqueueLoad, enqueuePush, enqueueAborted, protoVars,
         supVars, loopVars, sessVars, directiveVars
<1>2. Hands /\ Holding /\ epc[g] # "idle" /\ eev[g] \in Event
  BY DEF enqueue, enqueueCheck, enqueueLoad, enqueuePush, enqueueAborted, Shape, Holding
<1>3. /\ epc' = [epc EXCEPT ![g] = epc'[g]]
      /\ \/ UNCHANGED eev
         \/ epc'[g] = "idle" /\ eev' = [eev EXCEPT ![g] = NoEvent]
  BY <1>2 DEF enqueue, enqueueCheck, enqueueLoad, enqueuePush, enqueueAborted, Return, Hands
<1>4. QuarantineInv'
  BY <1>1 DEF ReplayInv, QuarantineInv
<1>5. ReplayerInv'
  BY <1>1, <1>2, <1>3, Apart DEF ReplayInv, ReplayerInv, Hands
<1>6. DownInv'
  BY <1>1, <1>2, <1>3 DEF ReplayInv, DownInv, Hands
<1>7. TrackInv'
  <2> SUFFICES ASSUME policy \in {"block", "unbounded"}, NEW h \in established
               PROVE  Tracked(h)'
    BY <1>1 DEF TrackInv
  <2>1. Tracked(h) /\ h \in Host
    BY DEF ReplayInv, TrackInv, Shape, Controls
  <2>2. CASE ToReplay(h)
    BY <1>1, <2>2 DEF Tracked, ToReplay
  <2>3. ASSUME ~ToReplay(h), NEW p \in {pump, replayer}, Reaching(p, Up(h))
        PROVE  Reaching(p, Up(h))' \/ Heard(h)'
    <3>1. p \in Goroutine
      BY Apart
    <3>2. CASE p # g
      <4>1. UNCHANGED ebox \/ ebox' = [ebox EXCEPT ![g] = inst]
        BY DEF enqueue, enqueueCheck, enqueueLoad, enqueuePush, enqueueAborted, Return
      <4>2. epc'[p] = epc[p] /\ eev'[p] = eev[p] /\ ebox'[p] = ebox[p]
        BY <1>2, <1>3, <3>1, <3>2, <4>1 DEF Hands
      <4> QED  BY <1>1, <2>3, <4>2 DEF Reaching
    <3>3. CASE p = g /\ enqueueCheck(g)
      <4>1. ~quarantined
        BY <2>3 DEF ToReplay, ReplayInv, QuarantineInv, Rebuild
      <4>2. epc'[g] = "load" /\ eev' = eev
        BY <1>2, <3>3, <4>1 DEF enqueueCheck, Hands
      <4> QED  BY <2>3, <3>3, <4>2 DEF Reaching
    <3>4. CASE p = g /\ enqueueLoad(g)
      <4>1. epc'[g] = "push" /\ eev' = eev /\ ebox'[g] = inst
        BY <1>2, <3>4 DEF enqueueLoad, Hands
      <4> QED  BY <1>1, <2>3, <3>4, <4>1 DEF Reaching
    <3>5. CASE p = g /\ enqueuePush(g)
      <4>1. ebox[g] = inst /\ eev[g] = Up(h)
        BY <2>3, <3>5 DEF Reaching, enqueuePush
      <4>2. mail'[inst] = Append(mail[inst], eev[g]) /\ mail[inst] \in Seq(Event)
        <5>1. mail' = [mail EXCEPT ![inst] = enqueueLocked(policy, mail[inst], eev[g])]
          BY <3>5, <4>1 DEF enqueuePush
        <5>2. mail[inst] \in Seq(Event) /\ inst \in Inst /\ policy \in OverflowPolicy
          BY <1>2, PolicyAssumption DEF Hands, Shape, Controls
        <5>3. enqueueLocked(policy, mail[inst], eev[g]) = Append(mail[inst], eev[g])
          BY <1>2, <5>2, PushResult
        <5> QED  BY <1>2, <5>1, <5>2, <5>3 DEF Hands
      <4>3. EndsUp(mail'[inst], h)
        BY <1>2, <4>1, <4>2, NewsAppended
      <4> QED  BY <1>1, <4>3 DEF Heard
    <3>6. ~enqueueAborted(g)
      BY <2>3 DEF enqueueAborted, ToReplay
    <3> QED  BY <3>2, <3>3, <3>4, <3>5, <3>6 DEF enqueue
  <2>4. ASSUME Heard(h) PROVE Heard(h)'
    <3>1. CASE mail'[inst] = mail[inst]
      BY <1>1, <2>4, <3>1 DEF Heard
    <3>2. CASE mail'[inst] # mail[inst]
      <4>1. enqueuePush(g) /\ ebox[g] = inst
        <5>1. enqueuePush(g)
          BY <3>2 DEF enqueue, enqueueCheck, enqueueLoad, enqueueAborted, protoVars
        <5>2. mail' = [mail EXCEPT ![ebox[g]] = mail'[ebox[g]]]
          BY <1>2, <5>1 DEF enqueuePush, Hands
        <5>3. inst \in Inst
          BY DEF Shape, Controls
        <5> QED  BY <1>2, <3>2, <5>1, <5>2, <5>3 DEF Hands
      <4>2. eev[g] # Down(h)
        BY <1>2, <2>1 DEF ReplayInv, DownInv
      <4>3. mail[inst] \in Seq(Event) /\ inst \in Inst /\ policy \in OverflowPolicy
        BY <1>2, PolicyAssumption DEF Hands, Shape, Controls
      <4>4. mail'[inst] = Append(mail[inst], eev[g])
        <5>1. mail' = [mail EXCEPT ![inst] = enqueueLocked(policy, mail[inst], eev[g])]
          BY <4>1 DEF enqueuePush
        <5>2. enqueueLocked(policy, mail[inst], eev[g]) = Append(mail[inst], eev[g])
          BY <1>2, <4>3, PushResult
        <5> QED  BY <1>2, <4>3, <5>1, <5>2 DEF Hands
      <4>5. /\ EndsUp(mail[inst], h) => EndsUp(mail'[inst], h)
            /\ NoDown(mail[inst], h) => NoDown(mail'[inst], h)
        BY <1>2, <4>2, <4>3, <4>4, NewsAppended
      <4> QED  BY <1>1, <2>4, <4>5 DEF Heard
    <3> QED  BY <3>1, <3>2
  <2> QED  BY <2>1, <2>2, <2>3, <2>4 DEF Tracked
<1> QED  BY <1>4, <1>5, <1>6, <1>7 DEF ReplayInv

\* The loop passes the news on to the instance, or panics and is replaced.
LEMMA ReplayLoop ==
  ASSUME Shape, LoopInv, ReplayInv, NEW i \in Inst, eventHandler(i)
  PROVE  ReplayInv'
<1>1. /\ UNCHANGED <<quarantined, sup, removed, cancelled, replay, established, inst,
                     policy, epc, eev, ebox>>
      /\ signals' = signals \/ signals' # NoInst
  <2>1. UNCHANGED <<quarantined, sup, removed, cancelled, replay, established, inst,
                    policy, epc, eev, ebox>>
    BY DEF eventHandler, LoopTake, LoopExit, dispatch, safeCall, LoopBalance, protoVars,
           supVars, sessVars, directiveVars, enqVars
  <2>2. CASE safeCall(i)
    <3>1. i # NoInst
      BY DEF NoInst, Inst
    <3> QED  BY <2>1, <2>2, <3>1 DEF safeCall
  <2>3. CASE ~safeCall(i)
    BY <2>1, <2>3 DEF eventHandler, LoopTake, LoopExit, dispatch, LoopBalance, supVars
  <2> QED  BY <2>1, <2>2, <2>3
<1>2. Hands /\ Holding
  BY DEF Shape
<1>3. QuarantineInv' /\ ReplayerInv' /\ DownInv'
  BY <1>1 DEF ReplayInv, QuarantineInv, ReplayerInv, DownInv
<1>4. TrackInv'
  <2> SUFFICES ASSUME policy \in {"block", "unbounded"}, NEW h \in established,
                      signals' = NoInst
               PROVE  Tracked(h)'
    BY <1>1 DEF TrackInv, Tracked, ToReplay
  <2>1. Tracked(h) /\ signals' = signals
    BY <1>1 DEF ReplayInv, TrackInv
  <2>2. CASE ToReplay(h) \/ Reaching(pump, Up(h)) \/ Reaching(replayer, Up(h))
    BY <1>1, <2>1, <2>2 DEF Tracked, ToReplay, Reaching
  <2>3. CASE Heard(h)
    <3>1. i = inst /\ inst \in Inst
      BY DEF LoopInv, Running, eventHandler, LoopTake, LoopExit, dispatch, safeCall, LoopBalance
    <3>2. CASE LoopTake(i)
      <4>1. /\ loop[inst] = "next" /\ mail[inst] # <<>> /\ view' = view
            /\ loop'[inst] = "dispatch" /\ cur'[inst] = Head(mail[inst])
            /\ mail'[inst] = Tail(mail[inst])
        BY <1>2, <3>1, <3>2 DEF LoopTake, Hands, sessVars
      <4>2. mail[inst] \in Seq(Event)
        BY <1>2, <3>1 DEF Hands
      <4>3. /\ EndsUp(mail[inst], h) =>
                  EndsUp(mail'[inst], h) \/ (cur'[inst] = Up(h) /\ NoDown(mail'[inst], h))
            /\ NoDown(mail[inst], h) => NoDown(mail'[inst], h) /\ cur'[inst] # Down(h)
        BY <4>1, <4>2, NewsTaken
      <4>4. Heard(h)'
        BY <1>1, <2>3, <4>1, <4>3 DEF Heard
      <4> QED  BY <4>4 DEF Tracked
    <3>3. CASE dispatch(i)
      <4>1. /\ loop[inst] = "dispatch" /\ loop'[inst] = "balance" /\ mail' = mail
            /\ cur[inst].kind = "up" => view' = view \cup {cur[inst].arg}
            /\ cur[inst].kind = "down" => view' = view \ {cur[inst].arg}
            /\ cur[inst].kind \notin {"up", "down"} => view' = view
        BY <1>2, <3>1, <3>3 DEF dispatch, Hands, protoVars
      <4>2. cur[inst] \in Event
        BY <1>2, <3>1, <4>1 DEF Holding
      <4>3. CASE EndsUp(mail[inst], h)
        BY <1>1, <4>1, <4>3 DEF Heard, Tracked
      <4>4. cur[inst] = Up(h) \/ (h \in view /\ cur[inst] # Down(h)) => h \in view'
        <5>1. cur[inst] = Up(h) => h \in view'
          BY <4>1 DEF Up
        <5>2. h \in view /\ cur[inst] # Down(h) => h \in view'
          BY <4>1, <4>2, Apart
        <5> QED  BY <5>1, <5>2
      <4> QED  BY <1>1, <2>3, <4>1, <4>3, <4>4 DEF Heard, Tracked
    <3>4. CASE LoopExit(i) \/ LoopBalance(i)
      <4>1. /\ UNCHANGED <<mail, view>>
            /\ loop[inst] # "dispatch" /\ loop'[inst] # "dispatch"
        BY <1>2, <3>1, <3>4 DEF LoopExit, LoopBalance, Hands, protoVars, sessVars
      <4> QED  BY <1>1, <2>3, <4>1 DEF Heard, Tracked
    <3>5. CASE safeCall(i)
      BY <3>5 DEF safeCall, NoInst, Inst
    <3> QED  BY <3>2, <3>3, <3>4, <3>5 DEF eventHandler
  <2> QED  BY <2>1, <2>2, <2>3 DEF Tracked
<1> QED  BY <1>3, <1>4 DEF ReplayInv

\* Session events reach the pump in the order of the established peers.
LEMMA ReplayEnvironment ==
  ASSUME Shape, ReplayInv, environment \/ Cancel
  PROVE  ReplayInv'
<1>1. /\ UNCHANGED <<quarantined, signals, sup, removed, replay, inst, mail, loop, cur,
                     view, policy>>
      /\ cancelled => cancelled'
  <2>1. UNCHANGED <<quarantined, signals, sup, removed, replay, inst, mail, loop, cur,
                    view, policy>>
    BY DEF environment, processMessage, dispatchSessionEvent, timerFires, Cancel, protoVars,
           supVars, loopVars, sessVars, directiveVars
  <2>2. cancelled => cancelled'
    BY DEF environment, processMessage, dispatchSessionEvent, timerFires, Cancel
  <2> QED  BY <2>1, <2>2
<1>2. Hands
  BY DEF Shape
<1>3. QuarantineInv'
  BY <1>1 DEF ReplayInv, QuarantineInv
<1>4. ASSUME NEW g \in Goroutine \ {pump, replayer}, NEW e, Call(g, e),
             UNCHANGED established, \A h : e # Down(h)
      PROVE  ReplayInv'
  <2>1. /\ eev'[g] = e /\ epc'[pump] = epc[pump] /\ epc'[replayer] = epc[replayer]
        /\ UNCHANGED ebox
        /\ \A p \in Goroutine \ {g} : eev'[p] = eev[p] /\ epc'[p] = epc[p]
    BY <1>2, <1>4, Apart DEF Call, Hands
  <2>2. ReplayerInv'
    BY <1>1, <2>1 DEF ReplayInv, ReplayerInv
  <2>3. DownInv'
    BY <1>4, <2>1 DEF ReplayInv, DownInv
  <2>4. \A h : Tracked(h) => Tracked(h)'
    BY <1>1, <1>4, <2>1, Apart DEF Tracked, ToReplay, Reaching, Heard
  <2>5. TrackInv'
    BY <1>1, <1>4, <2>4 DEF ReplayInv, TrackInv
  <2> QED  BY <1>3, <2>2, <2>3, <2>5 DEF ReplayInv
<1>5. ASSUME UNCHANGED <<epc, eev, ebox, established>> PROVE ReplayInv'
  <2>1. ReplayerInv'
    BY <1>1, <1>5 DEF ReplayInv, ReplayerInv
  <2>2. DownInv'
    BY <1>5 DEF ReplayInv, DownInv
  <2>3. \A h : Tracked(h) => Tracked(h)'
    BY <1>1, <1>5 DEF Tracked, ToReplay, Reaching, Heard
  <2>4. TrackInv'
    BY <1>1, <1>5, <2>3 DEF ReplayInv, TrackInv
  <2> QED  BY <1>3, <2>1, <2>2, <2>4 DEF ReplayInv
<1>6. CASE \E m \in 1 .. Messages : processMessage(m)
  <2>1. PICK m \in 1 .. Messages : processMessage(m)
    BY <1>6
  <2>2. CASE registered
    BY <1>4, <2>1, <2>2, Apart DEF processMessage, sessVars
  <2>3. CASE ~registered
    BY <1>5, <2>1, <2>3 DEF processMessage, sessVars, enqVars
  <2> QED  BY <2>2, <2>3
<1>7. CASE \E i \in Inst : timerFires(i)
  <2>1. PICK i \in Inst : timerFires(i)
    BY <1>7
  <2> QED  BY <1>4, <2>1, Apart DEF timerFires, sessVars
<1>8. CASE Cancel
  BY <1>5, <1>8 DEF Cancel, sessVars, enqVars
<1>9. CASE \E h \in Host : dispatchSessionEvent(h)
  <2>1. PICK h \in Host : dispatchSessionEvent(h)
    BY <1>9
  <2> DEFINE e == IF h \notin established THEN Up(h) ELSE Down(h)
  <2>2. epc[pump] = "idle" /\ established' = IF h \notin established
                                             THEN established \cup {h} ELSE established \ {h}
    BY <2>1 DEF dispatchSessionEvent
  <2>3. CASE removed
    <3>1. sup = "gone" /\ UNCHANGED <<epc, eev, ebox>>
      BY <2>1, <2>3 DEF dispatchSessionEvent, enqVars, ReplayInv, ReplayerInv
    <3>2. ReplayerInv'
      BY <1>1, <3>1 DEF ReplayInv, ReplayerInv
    <3>3. TrackInv'
      BY <1>1, <3>1 DEF TrackInv, Tracked, ToReplay, Rebuild, Doomed
    <3>4. DownInv'
      BY <2>2, <3>1 DEF ReplayInv, DownInv
    <3> QED  BY <1>3, <3>2, <3>3, <3>4 DEF ReplayInv
  <2>4. CASE ~removed
    <3>1. Call(pump, e)
      BY <2>1, <2>4 DEF dispatchSessionEvent, Up, Down
    <3>2. /\ eev'[pump] = e /\ epc'[pump] = "check" /\ UNCHANGED ebox
          /\ \A p \in Goroutine \ {pump} : eev'[p] = eev[p] /\ epc'[p] = epc[p]
      BY <1>2, <3>1, Apart DEF Call, Hands
    <3>3. ReplayerInv'
      BY <1>1, <3>2, Apart DEF ReplayInv, ReplayerInv
    <3>4. DownInv'
      <4> SUFFICES ASSUME NEW g \in Goroutine, NEW d \in Host,
                          epc'[g] # "idle", eev'[g] = Down(d)
                   PROVE  g = pump /\ d \notin established'
        BY DEF DownInv
      <4>1. g = pump
        BY <2>2, <3>2 DEF ReplayInv, DownInv
      <4>2. e = Down(d)
        BY <3>2, <4>1
      <4>3. h \in established /\ d = h
        BY <4>2, Apart
      <4> QED  BY <2>2, <4>1, <4>3
    <3>5. TrackInv'
      <4> SUFFICES ASSUME policy \in {"block", "unbounded"}, NEW d \in established'
                   PROVE  Tracked(d)'
        BY <1>1 DEF TrackInv
      <4>1. CASE d = h
        <5>1. h \notin established
          BY <2>2, <4>1
        <5> QED  BY <3>2, <4>1, <5>1 DEF Tracked, Reaching
      <4>2. CASE d # h
        <5>1. Tracked(d) /\ ~Reaching(pump, Up(d))
          BY <2>2, <4>2 DEF ReplayInv, TrackInv, Reaching
        <5>2. CASE ToReplay(d)
          BY <1>1, <5>2 DEF Tracked, ToReplay
        <5>3. CASE Reaching(replayer, Up(d))
          BY <1>1, <3>2, <5>3, Apart DEF Tracked, Reaching
        <5>4. CASE Heard(d)
          BY <1>1, <5>4 DEF Tracked, Heard
        <5> QED  BY <5>1, <5>2, <5>3, <5>4 DEF Tracked
      <4> QED  BY <4>1, <4>2
    <3> QED  BY <1>3, <3>3, <3>4, <3>5 DEF ReplayInv
  <2> QED  BY <2>3, <2>4
<1> QED  BY <1>6, <1>7, <1>8, <1>9 DEF environment

\* The supervisor replays what is established after the quarantine.
LEMMA ReplaySupervisor ==
  ASSUME Shape, ReplayInv, supervisor
  PROVE  ReplayInv'
<1>1. UNCHANGED <<established, policy, cur>>
  BY DEF supervisor, run, recordPanic, quarantine, stopLoop, drainMailboxToDeadLetter,
         cleanUp, resetForRestart, callStart, startLoop, callInit, snapshotEstablished,
         replaySession, finishRestart, Restarted, removeProtocol, supervisorEnds,
         sessVars, directiveVars, loopVars
<1>2. Hands
  BY DEF Shape
<1>3. CASE sup' \in Rebuild
  <2>1. UNCHANGED <<epc, eev, ebox>> /\ epc[replayer] = "idle"
    BY <1>3 DEF supervisor, run, recordPanic, quarantine, stopLoop,
         drainMailboxToDeadLetter, cleanUp, resetForRestart, callStart, startLoop,
         callInit, snapshotEstablished, replaySession, finishRestart, Restarted,
         removeProtocol, supervisorEnds, Rebuild, Doomed, enqVars, ReplayInv, ReplayerInv
  <2>2. TrackInv'
    BY <1>3 DEF TrackInv, Tracked, ToReplay
  <2>3. DownInv'
    BY <1>1, <2>1 DEF ReplayInv, DownInv
  <2>4. ReplayerInv'
    <3>1. removed' => sup' = "gone"
      BY DEF supervisor, run, recordPanic, quarantine, stopLoop,
         drainMailboxToDeadLetter, cleanUp, resetForRestart, callStart, startLoop,
         callInit, snapshotEstablished, replaySession, finishRestart, Restarted,
         removeProtocol, supervisorEnds, ReplayInv, ReplayerInv
    <3> QED  BY <2>1, <3>1 DEF ReplayerInv
  <2>5. QuarantineInv'
    BY DEF supervisor, run, recordPanic, quarantine, stopLoop,
         drainMailboxToDeadLetter, cleanUp, resetForRestart, callStart, startLoop,
         callInit, snapshotEstablished, replaySession, finishRestart, Restarted,
         removeProtocol, supervisorEnds, ReplayInv, QuarantineInv, Doomed, protoVars
  <2> QED  BY <2>2, <2>3, <2>4, <2>5 DEF ReplayInv
<1>4. CASE sup' \notin Rebuild
  <2>1. snapshotEstablished \/ (\E h \in Host : replaySession(h)) \/ finishRestart \/ Restarted
    BY <1>4 DEF supervisor, run, recordPanic, quarantine, stopLoop,
         drainMailboxToDeadLetter, cleanUp, resetForRestart, callStart, startLoop,
         callInit, removeProtocol, supervisorEnds, Rebuild, Doomed
  <2>2. UNCHANGED <<quarantined, signals, removed, cancelled, inst, mail, loop, view>>
    BY <2>1 DEF snapshotEstablished, replaySession, finishRestart, Restarted, protoVars,
                loopVars, sessVars
  <2>3. sup \notin Doomed \cup {"start", "lift", "gone"} /\ sup' # "gone"
    BY <2>1 DEF snapshotEstablished, replaySession, finishRestart, Restarted, Doomed
  <2>4. QuarantineInv'
    BY <2>2, <2>3 DEF ReplayInv, QuarantineInv
  <2>5. ~removed
    BY <2>3 DEF ReplayInv, ReplayerInv
  <2>6. \/ UNCHANGED <<epc, eev, ebox>>
        \/ /\ sup' \in {"replay", "finish"}
           /\ epc[replayer] = "idle"
           /\ \E e : Call(replayer, e) /\ \A h : e # Down(h)
    <3>1. CASE snapshotEstablished \/ Restarted
      BY <3>1 DEF snapshotEstablished, Restarted, enqVars
    <3>2. CASE \E d \in Host : replaySession(d)
      <4>1. PICK d \in Host : replaySession(d)
        BY <3>2
      <4>2. sup' = "replay" /\ Call(replayer, Up(d)) /\ epc[replayer] = "idle"
        BY <4>1 DEF replaySession, Call, Up
      <4> QED  BY <4>2, Apart
    <3>3. CASE finishRestart
      <4> DEFINE e == [kind |-> "callback", arg |-> inst]
      <4>1. sup' = "finish" /\ Call(replayer, e)
        BY <3>3 DEF finishRestart
      <4>2. \A h : e # Down(h)
        BY Apart
      <4> HIDE DEF e
      <4> QED  BY <4>1, <4>2 DEF Call
    <3> QED  BY <2>1, <3>1, <3>2, <3>3
  <2>7. ReplayerInv'
    <3>1. sup' \notin {"replay", "finish"} => epc'[replayer] = "idle"
      BY <2>1 DEF snapshotEstablished, replaySession, finishRestart, Restarted, enqVars
    <3> QED  BY <2>2, <2>5, <3>1 DEF ReplayerInv
  <2>8. DownInv'
    <3>1. CASE UNCHANGED <<epc, eev, ebox>>
      BY <1>1, <3>1 DEF ReplayInv, DownInv
    <3>2. CASE \E e : Call(replayer, e) /\ \A h : e # Down(h)
      <4>1. PICK e : Call(replayer, e) /\ \A h : e # Down(h)
        BY <3>2
      <4>2. /\ eev'[replayer] = e
            /\ \A p \in Goroutine \ {replayer} : eev'[p] = eev[p] /\ epc'[p] = epc[p]
        BY <1>2, <4>1, Apart DEF Call, Hands
      <4> QED  BY <1>1, <4>1, <4>2 DEF ReplayInv, DownInv
    <3> QED  BY <2>6, <3>1, <3>2
  <2>9. TrackInv'
    <3> SUFFICES ASSUME policy \in {"block", "unbounded"}, NEW h \in established
                 PROVE  Tracked(h)'
      BY <1>1 DEF TrackInv
    <3>1. Tracked(h) /\ h \in Host
      BY DEF ReplayInv, TrackInv, Shape, Controls
    <3>2. CASE signals # NoInst \/ cancelled
      BY <2>2, <3>2 DEF Tracked, ToReplay
    <3>3. CASE snapshotEstablished
      BY <3>3 DEF snapshotEstablished, Tracked, ToReplay
    <3>4. CASE sup = "replay" /\ h \in replay
      <4>1. CASE replaySession(h)
        <5>1. Call(replayer, Up(h))
          BY <4>1 DEF replaySession, Up
        <5>2. epc'[replayer] = "check" /\ eev'[replayer] = Up(h)
          BY <1>2, <5>1, Apart DEF Call, Hands
        <5> QED  BY <5>2 DEF Tracked, Reaching
      <4>2. CASE \E d \in Host \ {h} : replaySession(d)
        BY <3>4, <4>2 DEF replaySession, Tracked, ToReplay
      <4> QED  BY <2>1, <3>1, <3>3, <3>4, <4>1, <4>2 DEF finishRestart, Restarted
    <3>5. CASE Heard(h)
      BY <1>1, <2>2, <3>5 DEF Heard, Tracked
    <3>6. CASE Reaching(pump, Up(h))
      <4>1. epc'[pump] = epc[pump] /\ eev'[pump] = eev[pump] /\ ebox'[pump] = ebox[pump]
        BY <1>2, <2>6, Apart DEF Call, Hands
      <4> QED  BY <2>2, <3>6, <4>1 DEF Reaching, Tracked
    <3>7. CASE Reaching(replayer, Up(h))
      <4>1. epc[replayer] # "idle"
        BY <3>7 DEF Reaching
      <4>2. UNCHANGED <<epc, eev, ebox>>
        BY <2>6, <4>1
      <4> QED  BY <2>2, <3>7, <4>2 DEF Reaching, Tracked
    <3>8. sup \in Rebuild => snapshotEstablished
      BY <2>1 DEF replaySession, finishRestart, Restarted, Rebuild, Doomed
    <3> QED  BY <3>1, <3>2, <3>3, <3>4, <3>5, <3>6, <3>7, <3>8 DEF Tracked, ToReplay
  <2> QED  BY <2>4, <2>7, <2>8, <2>9 DEF ReplayInv
<1> QED  BY <1>3, <1>4

\* No step loses track of an established session.
LEMMA ReplayInvariance == Spec => []ReplayInv
<1>1. Init => ReplayInv
  <2> SUFFICES ASSUME Init PROVE ReplayInv
    OBVIOUS
  <2>1. established = {} /\ removed = FALSE /\ \A g \in Goroutine : epc[g] = "idle"
    BY DEF Init
  <2>2. quarantined => signals # NoInst
    <3>1. PICK boot \in {"ok", "Start", "Init"} :
            quarantined = (boot # "ok") /\ signals = IF boot = "ok" THEN NoInst ELSE 0
      BY DEF Init
    <3>2. NoInst # 0
      BY DEF NoInst
    <3>3. CASE boot = "ok"
      BY <3>1, <3>3
    <3>4. CASE boot # "ok"
      BY <3>1, <3>2, <3>4
    <3> QED  BY <3>3, <3>4
  <2> QED  BY <2>1, <2>2, Apart
           DEF ReplayInv, QuarantineInv, ReplayerInv, DownInv, TrackInv
<1>2. Shape /\ LoopInv /\ ReplayInv /\ [Next]_vars => ReplayInv'
  <2> SUFFICES ASSUME Shape, LoopInv, ReplayInv, [Next]_vars PROVE ReplayInv'
    OBVIOUS
  <2>1. CASE UNCHANGED vars
    BY <2>1 DEF ReplayInv, QuarantineInv, ReplayerInv, DownInv, TrackInv, Tracked,
       ToReplay, Reaching, Heard, vars, protoVars, supVars, loopVars, sessVars,
       directiveVars, enqVars
  <2> QED  BY <2>1, ReplayEnqueue, ReplayLoop, ReplayEnvironment, ReplaySupervisor DEF Next
<1>3. CountInv => Shape
  BY DEF CountInv
<1> QED  BY <1>1, <1>2, <1>3, LoopInvariance, CountInvariance, PTL DEF Spec

\* Session replay misses no peer over a mailbox that drops nothing: when
\* nothing is under way, the instance knows every established session.
THEOREM ReplayMissesNoPeer == Spec => []EstablishedKnown
<1>1. Shape /\ ReplayInv => EstablishedKnown
  <2> SUFFICES ASSUME Shape, ReplayInv, Settled, policy \in {"block", "unbounded"},
                      NEW h \in established
               PROVE  h \in view
    BY DEF EstablishedKnown
  <2>1. Tracked(h)
    BY DEF ReplayInv, TrackInv
  <2>2. ~ToReplay(h)
    BY DEF Settled, ToReplay, Rebuild, Doomed
  <2>3. ~Reaching(pump, Up(h)) /\ ~Reaching(replayer, Up(h))
    BY Apart DEF Settled, Reaching
  <2>4. ~EndsUp(mail[inst], h)
    BY DEF Settled, EndsUp
  <2> QED  BY <2>1, <2>2, <2>3, <2>4 DEF Tracked, Heard, Settled
<1>2. CountInv => Shape
  BY DEF CountInv
<1> QED  BY <1>1, <1>2, CountInvariance, ReplayInvariance, PTL
==============================================================================
