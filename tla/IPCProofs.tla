------------------------------ MODULE IPCProofs -------------------------------
(****************************************************************************)
(* Proofs about requests, notifications and timers between supervised        *)
(* protocols, for any protocols, requests, timers and panics: a request is   *)
(* answered once and by an answer of its own, and no callback of a rebuilt    *)
(* instance runs on the next one.                                            *)
(****************************************************************************)
EXTENDS IPC, TLAPS, FiniteSetTheorems, SequenceTheorems, WellFoundedInduction
------------------------------------------------------------------------------
(* The invariant. *)

Sub     == [proto : Proto, inst : Nat]
Pending == [id : Nat, inst : Nat, by : {"loop", "callback"}]
Mail    == [kind : {"request", "reply", "timer", "notification"}, id : Nat, from : Proto,
            inst : Nat, sender : Nat]
Handle  == [kind : {"none", "once", "every"}, owner : Proto \cup {"nobody"}, inst : Nat,
            tracked : BOOLEAN, cancelled : BOOLEAN, clock : SUBSET Nat, arms : Nat, stop : Nat]
Under   == [clock : Nat, at : {"start", "push", "rearm", "setStop", "recheck"}]

TimerTypes ==
    /\ timers \in [TimerId -> Handle]
    /\ callbacks \in [TimerId -> SUBSET Under]

Types ==
    /\ inst \in [Proto -> Nat \ {0}]
    /\ quarantined \in [Proto -> BOOLEAN]
    /\ loop \in [Proto -> {"up", "exited", "down"}]
    /\ supervisor \in [Proto -> {"idle", "timers", "requests", "failed", "backoff",
                                 "started", "stopped"}]
    /\ call = [p \in Proto |-> call[p]]
    /\ mail = [p \in Proto |-> mail[p]]
    /\ pending \in [Proto -> SUBSET Pending]
    /\ nextRequestID \in [Proto -> 0 .. MaxRequests]
    /\ requestRoutes \subseteq Sub
    /\ fanout \in Seq(Sub)
    /\ answers \in [Proto -> [1 .. MaxRequests -> {0, 1}]]

\* The token t names a request that was sent, and if its entry is still there,
\* the instance that sent it.
Good(t) ==
    /\ t.from \in Proto /\ t.id \in 1 .. nextRequestID[t.from] /\ t.sender \in Nat
    /\ \A r \in pending[t.from] : r.id = t.id => r.inst = t.sender

GoodFire(p, e) ==
    /\ e.id \in TimerId
    /\ timers[e.id].kind # "none" /\ timers[e.id].owner = p /\ timers[e.id].inst = e.inst

GoodEvents(p) ==
    {e \in Mail : /\ e.kind = "reply"   => Good(Token(p, e.id, e.sender))
                  /\ e.kind = "request" => Good(Token(e.from, e.id, e.sender))
                  /\ e.kind = "timer"   => GoodFire(p, e)}

MailInv == \A p \in Proto : mail[p] \in Seq(GoodEvents(p))

\* A call under way has a request of its own, or subscriptions to go.
CallOK(c) ==
    /\ c.op = "request" => Good(c.token) /\ c.route \in Sub
    /\ c.op = "publish" => c.left \in Seq(Sub) /\ c.left # <<>>

TokenInv ==
    /\ \A t \in held \cup timeouts : Good(t)
    /\ \A p \in Proto : CallOK(call[p])

\* A request has one entry until it has one answer.
PendingInv ==
    \A p \in Proto :
        /\ \A r \in pending[p] : r.id \in 1 .. nextRequestID[p] /\ r.inst = inst[p]
        /\ \A r, s \in pending[p] : r.id = s.id => r = s
        /\ \A n \in 1 .. MaxRequests :
              answers[p][n] = 1 => n <= nextRequestID[p] /\ \A r \in pending[p] : r.id # n

\* A periodic timer that is not cancelled is the current instance's, and in the
\* table from which the supervisor cancels it.
TimerInv ==
    /\ \A t \in TimerId :
        /\ timers[t].kind = "none" => timers[t] = NoTimer /\ callbacks[t] = {}
        /\ timers[t].kind # "none" => timers[t].owner \in Proto
        /\ timers[t].kind = "every" /\ ~timers[t].cancelled =>
              timers[t].tracked /\ timers[t].inst = inst[timers[t].owner]
    /\ \A t \in cancelling : t \in TimerId /\ timers[t].kind # "none"

SupervisorInv ==
    \A p \in Proto :
        /\ supervisor[p] # "idle" => loop[p] = "down"
        /\ supervisor[p] \notin {"idle", "timers"} =>
              \A t \in TimerId : timers[t].kind = "every" /\ timers[t].owner = p =>
                                    timers[t].cancelled

IPCInv ==
    /\ Types /\ TimerTypes
    /\ MailInv /\ TokenInv /\ PendingInv /\ TimerInv /\ SupervisorInv
    /\ NoStaleClosure
------------------------------------------------------------------------------
(* Sequences of subscriptions. *)

\* A non-empty set of naturals has a least element.
LEMMA LeastNat ==
  ASSUME NEW T, T \subseteq Nat, T # {}
  PROVE  \E x \in T : \A y \in T : x <= y
<1>1. \E x \in T : \A y \in T : ~(<<y, x>> \in OpToRel(<, Nat))
  BY NatLessThanWellFounded, WFMin, Zenon
<1>2. PICK x \in T : \A y \in T : ~(<<y, x>> \in OpToRel(<, Nat))
  BY <1>1
<1>3. \A y \in T : ~(y < x)
  BY <1>2 DEF OpToRel
<1> QED  BY <1>3

\* What removeSub and Subscribe make of subscriptions are subscriptions.
LEMMA RemoveResult ==
  ASSUME NEW s \in Seq(Sub), NEW p
  PROVE  removeSub(s, p) \in Seq(Sub)
<1> DEFINE own == {n \in DOMAIN s : s[n].proto = p}
           first == CHOOSE n \in own : \A m \in own : n <= m
<1>1. CASE own = {}
  BY <1>1 DEF removeSub
<1>2. CASE own # {}
  <2>1. Len(s) \in Nat /\ DOMAIN s = 1 .. Len(s)
    BY LenProperties
  <2>2. own \subseteq Nat
    BY <2>1
  <2>3. \E n \in own : \A m \in own : n <= m
    <3> HIDE DEF own
    <3> QED  BY <1>2, <2>2, LeastNat
  <2>4. first \in own
    <3> HIDE DEF own
    <3> QED  BY <2>3
  <2>5. first \in 1 .. Len(s)
    BY <2>1, <2>4
  <2> HIDE DEF first
  <2>6. SubSeq(s, 1, first - 1) \in Seq(Sub) /\ SubSeq(s, first + 1, Len(s)) \in Seq(Sub)
    BY <2>1, <2>5
  <2>7. SubSeq(s, 1, first - 1) \o SubSeq(s, first + 1, Len(s)) \in Seq(Sub)
    BY <2>6
  <2> QED  BY <1>2, <2>7 DEF removeSub, first
<1> QED  BY <1>1, <1>2

\* The same of a subscription in place of an earlier one, or last.
LEMMA SubscribeResult ==
  ASSUME NEW s \in Seq(Sub), NEW p \in Proto, NEW i \in Nat
  PROVE  Subscribe(s, p, i) \in Seq(Sub)
<1> DEFINE new == [proto |-> p, inst |-> i]
           t == [n \in DOMAIN s |-> IF s[n].proto = p THEN new ELSE s[n]]
<1>1. new \in Sub
  BY DEF Sub
<1>2. Append(s, new) \in Seq(Sub)
  BY <1>1, AppendProperties
<1>3. t \in Seq(Sub)
  <2>1. Len(s) \in Nat /\ DOMAIN s = 1 .. Len(s) /\ \A n \in 1 .. Len(s) : s[n] \in Sub
    BY LenProperties, ElementOfSeq
  <2> HIDE DEF new
  <2>2. t \in [1 .. Len(s) -> Sub]
    BY <1>1, <2>1
  <2> HIDE DEF t
  <2> QED  BY <2>1, <2>2, IsASeq
<1> QED  BY <1>2, <1>3 DEF Subscribe
------------------------------------------------------------------------------
(* What a step leaves of requests and timers: what was said of a token or a *)
(* fire still holds.                                                         *)

KeepsRequests ==
    \A p \in Proto :
        /\ nextRequestID'[p] >= nextRequestID[p]
        /\ \A r \in pending'[p] : r \in pending[p] \/ r.id > nextRequestID[p]

KeepsTimers ==
    \A t \in TimerId :
        /\ timers[t].kind # "none" =>
              /\ timers'[t].kind = timers[t].kind /\ timers'[t].owner = timers[t].owner
              /\ timers'[t].inst = timers[t].inst
              /\ timers[t].cancelled => timers'[t].cancelled
        /\ timers[t].kind = "none" /\ timers'[t].kind # "none" =>
              loop[timers'[t].owner] = "up"

\* A token of a request that was sent stays one.
LEMMA GoodKept ==
  ASSUME nextRequestID \in [Proto -> 0 .. MaxRequests],
         nextRequestID' \in [Proto -> 0 .. MaxRequests], KeepsRequests
  PROVE  \A t : Good(t) => Good(t)'
<1> SUFFICES ASSUME NEW t, Good(t)  PROVE Good(t)'
  OBVIOUS
<1>1. /\ t.from \in Proto /\ t.id \in 1 .. nextRequestID[t.from] /\ t.sender \in Nat
      /\ \A r \in pending[t.from] : r.id = t.id => r.inst = t.sender
  BY DEF Good
<1>2. /\ nextRequestID[t.from] \in Int /\ nextRequestID'[t.from] \in Int
      /\ nextRequestID'[t.from] >= nextRequestID[t.from]
      /\ \A r \in pending'[t.from] : r \in pending[t.from] \/ r.id > nextRequestID[t.from]
  BY <1>1, IPCAssumption DEF KeepsRequests
<1>3. t.id \in 1 .. nextRequestID'[t.from]
  BY <1>1, <1>2
<1>4. \A r \in pending'[t.from] : r.id = t.id => r.inst = t.sender
  BY <1>1, <1>2
<1> QED  BY <1>1, <1>3, <1>4 DEF Good

\* So the events that may be in a mailbox may still be in it.
LEMMA EventsKept ==
  ASSUME \A t : Good(t) => Good(t)', KeepsTimers
  PROVE  \A p : GoodEvents(p) \subseteq GoodEvents(p)'
<1> SUFFICES ASSUME NEW p, NEW e \in GoodEvents(p)  PROVE e \in GoodEvents(p)'
  OBVIOUS
<1>1. e \in Mail
  BY DEF GoodEvents
<1>2. e.kind = "reply" => Good(Token(p, e.id, e.sender))'
  BY DEF GoodEvents, Token
<1>3. e.kind = "request" => Good(Token(e.from, e.id, e.sender))'
  BY DEF GoodEvents, Token
<1>4. e.kind = "timer" => GoodFire(p, e)'
  BY DEF GoodEvents, GoodFire, KeepsTimers
<1> QED  BY <1>1, <1>2, <1>3, <1>4 DEF GoodEvents
------------------------------------------------------------------------------
(* Timers. *)

\* A step of a handle's callbacks, or of its cancel, leaves it what it is.
LEMMA HandleChange ==
  ASSUME TimerTypes, TimerInv, inst' = inst,
         NEW t \in TimerId, NEW h \in Handle,
         timers[t].kind # "none",
         h.kind = timers[t].kind, h.owner = timers[t].owner, h.inst = timers[t].inst,
         h.cancelled = timers[t].cancelled,
         h.kind = "every" => h.tracked = timers[t].tracked,
         timers' = [timers EXCEPT ![t] = h],
         callbacks' \in [TimerId -> SUBSET Under],
         \A s \in TimerId \ {t} : callbacks'[s] = callbacks[s],
         cancelling' \subseteq cancelling
  PROVE  TimerTypes' /\ TimerInv' /\ KeepsTimers
<1>1. timers \in [TimerId -> Handle]
  BY DEF TimerTypes
<1>2. TimerTypes'
  BY <1>1 DEF TimerTypes
<1>3. timers'[t] = h /\ \A s \in TimerId \ {t} : timers'[s] = timers[s]
  BY <1>1
<1>4. KeepsTimers
  BY <1>3 DEF KeepsTimers
<1>5. \A s \in TimerId :
        /\ timers'[s].kind = "none" => timers'[s] = NoTimer /\ callbacks'[s] = {}
        /\ timers'[s].kind # "none" => timers'[s].owner \in Proto
        /\ timers'[s].kind = "every" /\ ~timers'[s].cancelled =>
              timers'[s].tracked /\ timers'[s].inst = inst'[timers'[s].owner]
  BY <1>3 DEF TimerInv
<1>6. \A s \in cancelling' : s \in TimerId /\ timers'[s].kind # "none"
  BY <1>3 DEF TimerInv
<1> QED  BY <1>2, <1>4, <1>5, <1>6 DEF TimerInv

\* Creating a timer.
LEMMA ScheduleKeeps ==
  ASSUME Types, TimerTypes, TimerInv, inst' = inst,
         NEW p \in Proto, NEW t \in TimerId, NEW k \in {"once", "every"}, Schedule(p, t, k),
         loop[p] = "up"
  PROVE  TimerTypes' /\ TimerInv' /\ KeepsTimers
<1> DEFINE h == [kind |-> k, owner |-> p, inst |-> inst[p], tracked |-> TRUE,
                 cancelled |-> FALSE, clock |-> {1}, arms |-> 1, stop |-> 1]
<1>1. timers \in [TimerId -> Handle] /\ inst[p] \in Nat
  BY DEF TimerTypes, Types
<1>2. h \in Handle
  BY <1>1 DEF Handle
<1>3. /\ timers[t] = NoTimer /\ timers' = [timers EXCEPT ![t] = h]
      /\ callbacks' = callbacks /\ cancelling' = cancelling
  BY DEF Schedule
<1>4. h.kind = k /\ h.owner = p /\ h.inst = inst[p] /\ h.tracked
  OBVIOUS
<1> HIDE DEF h
<1>5. TimerTypes'
  BY <1>1, <1>2, <1>3 DEF TimerTypes
<1>6. timers'[t] = h /\ \A s \in TimerId \ {t} : timers'[s] = timers[s]
  BY <1>1, <1>3
<1>7. KeepsTimers
  BY <1>3, <1>4, <1>6 DEF KeepsTimers, NoTimer
<1>8. \A s \in TimerId :
        /\ timers'[s].kind = "none" => timers'[s] = NoTimer /\ callbacks'[s] = {}
        /\ timers'[s].kind # "none" => timers'[s].owner \in Proto
        /\ timers'[s].kind = "every" /\ ~timers'[s].cancelled =>
              timers'[s].tracked /\ timers'[s].inst = inst'[timers'[s].owner]
  BY <1>3, <1>4, <1>6 DEF TimerInv
<1>9. \A s \in cancelling' : s \in TimerId /\ timers'[s].kind # "none"
  BY <1>3, <1>4, <1>6 DEF TimerInv
<1> QED  BY <1>5, <1>7, <1>8, <1>9 DEF TimerInv

\* A step of the clock: a callback begins, or goes on.
LEMMA ClockKeeps ==
  ASSUME TimerTypes, TimerInv, inst' = inst, NEW t \in TimerId,
         ClockFires(t) \/ CallbackStep(t)
  PROVE  TimerTypes' /\ TimerInv' /\ KeepsTimers
<1> DEFINE h == timers[t]
<1>1. /\ timers \in [TimerId -> Handle] /\ callbacks \in [TimerId -> SUBSET Under]
      /\ h \in Handle
  BY DEF TimerTypes
<1>2. /\ h.kind \in {"none", "once", "every"} /\ h.clock \subseteq Nat /\ h.arms \in Nat
      /\ h.tracked \in BOOLEAN
  BY <1>1 DEF Handle
<1>3. h.kind = "none" => h = NoTimer /\ callbacks[t] = {}
  BY DEF TimerInv
<1>4. h.kind = "none" => h.clock = {} /\ callbacks[t] = {}
  BY <1>3 DEF NoTimer
<1>5. CASE ClockFires(t)
  <2>1. PICK g \in h.clock :
           /\ timers' = [timers EXCEPT ![t].clock = @ \ {g}]
           /\ callbacks' = [callbacks EXCEPT ![t] = @ \cup {Callback(g, "start")}]
    BY <1>5 DEF ClockFires
  <2>2. cancelling' = cancelling
    BY <1>5 DEF ClockFires
  <2> DEFINE k == [h EXCEPT !.clock = @ \ {g}]
  <2>3. k \in Handle /\ timers' = [timers EXCEPT ![t] = k]
    BY <1>1, <2>1 DEF Handle
  <2>4. /\ k.kind = h.kind /\ k.owner = h.owner /\ k.inst = h.inst
        /\ k.cancelled = h.cancelled /\ k.tracked = h.tracked
    BY <1>1 DEF Handle
  <2>5. Callback(g, "start") \in Under
    BY <1>2, <2>1 DEF Callback, Under
  <2>6. /\ callbacks' \in [TimerId -> SUBSET Under]
        /\ \A s \in TimerId \ {t} : callbacks'[s] = callbacks[s]
    BY <1>1, <2>1, <2>5
  <2> HIDE DEF k
  <2> QED  BY <1>4, <2>1, <2>2, <2>3, <2>4, <2>6, HandleChange
<1>6. CASE CallbackStep(t)
  <2>1. PICK c \in callbacks[t] :
          \/ CallbackStarts(t, c) \/ CallbackPushes(t, c) \/ CallbackRearms(t, c)
          \/ CallbackSetsStop(t, c) \/ CallbackRechecks(t, c)
    BY <1>6 DEF CallbackStep
  <2>2. c \in Under /\ c.clock \in Nat /\ h.kind # "none"
    BY <1>1, <1>4 DEF Under
  <2>3. \A g \in Nat : \A l \in {"start", "push", "rearm", "setStop", "recheck"} :
          Callback(g, l) \in Under
    BY DEF Callback, Under
  <2>4. \A d \in Under : Goes(t, c, d) \/ Done(t, c) =>
          /\ callbacks' \in [TimerId -> SUBSET Under]
          /\ \A s \in TimerId \ {t} : callbacks'[s] = callbacks[s]
    BY <1>1 DEF Goes, Done
  <2>5. /\ callbacks' \in [TimerId -> SUBSET Under]
        /\ \A s \in TimerId \ {t} : callbacks'[s] = callbacks[s]
    <3>1. CASE CallbackStarts(t, c)
      BY <2>2, <2>3, <2>4, <3>1 DEF CallbackStarts
    <3>2. CASE CallbackPushes(t, c)
      BY <2>2, <2>3, <2>4, <3>2 DEF CallbackPushes
    <3>3. CASE CallbackRearms(t, c)
      <4>1. h.arms + 1 \in Nat
        BY <1>2
      <4> QED  BY <2>2, <2>3, <2>4, <3>3, <4>1 DEF CallbackRearms
    <3>4. CASE CallbackSetsStop(t, c)
      BY <2>2, <2>3, <2>4, <3>4 DEF CallbackSetsStop
    <3>5. CASE CallbackRechecks(t, c)
      BY <2>2, <2>3, <2>4, <3>5 DEF CallbackRechecks
    <3> QED  BY <2>1, <3>1, <3>2, <3>3, <3>4, <3>5
  <2>6. cancelling' = cancelling
    BY <2>1 DEF CallbackStarts, CallbackPushes, CallbackRearms, CallbackSetsStop,
                CallbackRechecks
  <2>7. \E k \in Handle :
          /\ timers' = [timers EXCEPT ![t] = k]
          /\ k.kind = h.kind /\ k.owner = h.owner /\ k.inst = h.inst
          /\ k.cancelled = h.cancelled
          /\ k.kind = "every" => k.tracked = h.tracked
    <3>1. CASE CallbackStarts(t, c)
      <4> DEFINE b == h.tracked /\ h.kind = "every"
      <4>1. b \in BOOLEAN /\ (h.kind = "every" => b = h.tracked)
        BY <1>2
      <4>2. timers' = [timers EXCEPT ![t] = [h EXCEPT !.tracked = b]]
        BY <1>1, <3>1 DEF CallbackStarts
      <4> HIDE DEF b
      <4>3. [h EXCEPT !.tracked = b] \in Handle
        BY <1>1, <4>1 DEF Handle
      <4>4. [h EXCEPT !.tracked = b].tracked = b
        BY <1>1 DEF Handle
      <4>5. /\ [h EXCEPT !.tracked = b].kind = h.kind
            /\ [h EXCEPT !.tracked = b].owner = h.owner
            /\ [h EXCEPT !.tracked = b].inst = h.inst
            /\ [h EXCEPT !.tracked = b].cancelled = h.cancelled
        BY <1>1 DEF Handle
      <4> QED  BY <4>1, <4>2, <4>3, <4>4, <4>5
    <3>2. CASE timers' = timers
      <4>1. timers' = [timers EXCEPT ![t] = h]
        BY <1>1, <3>2
      <4> QED  BY <1>1, <4>1
    <3>3. ASSUME NEW g \in Nat, timers' = [timers EXCEPT ![t].clock = @ \cup {g}, ![t].arms = g]
          PROVE  \E k \in Handle :
                   /\ timers' = [timers EXCEPT ![t] = k]
                   /\ k.kind = h.kind /\ k.owner = h.owner /\ k.inst = h.inst
                   /\ k.cancelled = h.cancelled
                   /\ k.kind = "every" => k.tracked = h.tracked
      <4> DEFINE k == [h EXCEPT !.clock = @ \cup {g}, !.arms = g]
      <4>1. k \in Handle
        BY <1>1, <3>3 DEF Handle
      <4>2. timers' = [timers EXCEPT ![t] = k]
        BY <1>1, <3>3
      <4>3. /\ k.kind = h.kind /\ k.owner = h.owner /\ k.inst = h.inst
            /\ k.cancelled = h.cancelled /\ k.tracked = h.tracked
        BY <1>1 DEF Handle
      <4> HIDE DEF k
      <4> QED  BY <4>1, <4>2, <4>3
    <3>4. CASE CallbackRearms(t, c)
      <4>1. h.arms + 1 \in Nat
        BY <1>2
      <4>2. \/ timers' = timers
            \/ timers' = [timers EXCEPT ![t].clock = @ \cup {h.arms + 1},
                                        ![t].arms = h.arms + 1]
        BY <3>4 DEF CallbackRearms
      <4> QED  BY <3>2, <3>3, <4>1, <4>2
    <3>5. CASE CallbackSetsStop(t, c)
      <4> DEFINE k == [h EXCEPT !.stop = c.clock]
      <4>1. k \in Handle
        BY <1>1, <2>2 DEF Handle
      <4>2. timers' = [timers EXCEPT ![t] = k]
        BY <1>1, <3>5 DEF CallbackSetsStop
      <4>3. /\ k.kind = h.kind /\ k.owner = h.owner /\ k.inst = h.inst
            /\ k.cancelled = h.cancelled /\ k.tracked = h.tracked
        BY <1>1 DEF Handle
      <4> HIDE DEF k
      <4> QED  BY <4>1, <4>2, <4>3
    <3>6. CASE CallbackRechecks(t, c)
      <4> DEFINE C == IF h.cancelled THEN h.clock \ {c.clock} ELSE h.clock
                 k == [h EXCEPT !.clock = C]
      <4>1. C \subseteq Nat
        BY <1>2
      <4>2. timers' = [timers EXCEPT ![t] = k]
        BY <1>1, <3>6 DEF CallbackRechecks
      <4> HIDE DEF C
      <4>3. k \in Handle
        BY <1>1, <4>1 DEF Handle
      <4>4. /\ k.kind = h.kind /\ k.owner = h.owner /\ k.inst = h.inst
            /\ k.cancelled = h.cancelled /\ k.tracked = h.tracked
        BY <1>1 DEF Handle
      <4> HIDE DEF k
      <4> QED  BY <4>2, <4>3, <4>4
    <3> QED  BY <2>1, <3>1, <3>2, <3>4, <3>5, <3>6 DEF CallbackPushes
  <2> QED
    <3>1. PICK k \in Handle :
          /\ timers' = [timers EXCEPT ![t] = k]
          /\ k.kind = h.kind /\ k.owner = h.owner /\ k.inst = h.inst
          /\ k.cancelled = h.cancelled
          /\ k.kind = "every" => k.tracked = h.tracked
      BY <2>7
    <3> QED  BY <2>2, <2>5, <2>6, <3>1, HandleChange
<1> QED  BY <1>5, <1>6

\* Cancel's second half.
LEMMA CancelStopsKeeps ==
  ASSUME TimerTypes, TimerInv, inst' = inst, NEW t \in TimerId, CancelStops(t)
  PROVE  TimerTypes' /\ TimerInv' /\ KeepsTimers
<1> DEFINE h == timers[t]
           k == [h EXCEPT !.clock = @ \ {h.stop}]
<1>1. /\ timers \in [TimerId -> Handle] /\ callbacks \in [TimerId -> SUBSET Under]
      /\ h \in Handle
  BY DEF TimerTypes
<1>2. h.kind # "none"
  BY DEF CancelStops, TimerInv
<1>3. /\ timers' = [timers EXCEPT ![t].clock = @ \ {h.stop}]
      /\ cancelling' \subseteq cancelling /\ callbacks' = callbacks
  BY DEF CancelStops
<1>4. timers' = [timers EXCEPT ![t] = k]
  BY <1>1, <1>3
<1>5. k \in Handle
  BY <1>1 DEF Handle
<1>6. /\ k.kind = h.kind /\ k.owner = h.owner /\ k.inst = h.inst
      /\ k.cancelled = h.cancelled /\ k.tracked = h.tracked
  BY <1>1 DEF Handle
<1> HIDE DEF k
<1> QED  BY <1>1, <1>2, <1>3, <1>4, <1>5, <1>6, HandleChange

\* Cancel's first half, of one handle or of all of a protocol's.
LEMMA CancelsKeeps ==
  ASSUME TimerTypes, TimerInv, inst' = inst, NEW T, T \subseteq TimerId,
         \A t \in T : timers[t].kind # "none", Cancels(T)
  PROVE  /\ TimerTypes' /\ TimerInv' /\ KeepsTimers
         /\ \A t \in T : timers'[t].cancelled
         /\ \A t \in TimerId \ T : timers'[t] = timers[t]
<1>1. timers \in [TimerId -> Handle]
  BY DEF TimerTypes
<1>2. /\ timers' = [t \in TimerId |-> IF t \in T
                      THEN [timers[t] EXCEPT !.cancelled = TRUE, !.tracked = FALSE]
                      ELSE timers[t]]
      /\ callbacks' = callbacks
      /\ cancelling' = cancelling \cup {t \in T : ~timers[t].cancelled}
  BY DEF Cancels
<1>3. \A t \in TimerId \ T : timers'[t] = timers[t]
  BY <1>2
<1>4. ASSUME NEW t \in T
      PROVE  /\ timers'[t] \in Handle /\ timers'[t].cancelled
             /\ timers'[t].kind = timers[t].kind /\ timers'[t].owner = timers[t].owner
             /\ timers'[t].inst = timers[t].inst
  <2> DEFINE k == [timers[t] EXCEPT !.cancelled = TRUE, !.tracked = FALSE]
  <2>1. timers'[t] = k /\ timers[t] \in Handle
    BY <1>1, <1>2
  <2>2. k \in Handle
    BY <2>1 DEF Handle
  <2>3. k.cancelled
    BY <2>1 DEF Handle
  <2>4. k.kind = timers[t].kind /\ k.owner = timers[t].owner /\ k.inst = timers[t].inst
    BY <2>1 DEF Handle
  <2> HIDE DEF k
  <2> QED  BY <2>1, <2>2, <2>3, <2>4
<1>5. TimerTypes'
  <2>1. timers' = [t \in TimerId |-> timers'[t]]
    BY <1>2
  <2>2. \A t \in TimerId : timers'[t] \in Handle
    BY <1>1, <1>3, <1>4
  <2>3. timers' \in [TimerId -> Handle]
    BY <2>1, <2>2
  <2> QED  BY <1>2, <2>3 DEF TimerTypes
<1>6. KeepsTimers
  BY <1>3, <1>4 DEF KeepsTimers
<1>7. \A s \in TimerId :
        /\ timers'[s].kind = "none" => timers'[s] = NoTimer /\ callbacks'[s] = {}
        /\ timers'[s].kind # "none" => timers'[s].owner \in Proto
        /\ timers'[s].kind = "every" /\ ~timers'[s].cancelled =>
              timers'[s].tracked /\ timers'[s].inst = inst'[timers'[s].owner]
  BY <1>2, <1>3, <1>4, ZenonT(40) DEF TimerInv
<1>8. \A s \in cancelling' : s \in TimerId /\ timers'[s].kind # "none"
  BY <1>2, <1>3, <1>4, ZenonT(40) DEF TimerInv
<1>9. TimerInv'
  BY <1>7, <1>8 DEF TimerInv
<1> QED  BY <1>3, <1>4, <1>5, <1>6, <1>9

\* A new instance forgets the table: its protocol's periodic timers were
\* cancelled before.
LEMMA ForgetKeeps ==
  ASSUME Types, TimerTypes, TimerInv, NEW p \in Proto,
         \A t \in TimerId : timers[t].kind = "every" /\ timers[t].owner = p =>
                               timers[t].cancelled,
         ForgetTable(p), inst' = [inst EXCEPT ![p] = @ + 1]
  PROVE  /\ TimerTypes' /\ TimerInv' /\ KeepsTimers
         /\ \A t \in TimerId : timers'[t].cancelled = timers[t].cancelled
<1>1. timers \in [TimerId -> Handle]
  BY DEF TimerTypes
<1>2. /\ timers' = [t \in TimerId |-> [timers[t] EXCEPT !.tracked = @ /\ timers[t].owner # p]]
      /\ callbacks' = callbacks /\ cancelling' = cancelling
  BY DEF ForgetTable
<1>3. \A q \in Proto : q # p => inst'[q] = inst[q]
  BY DEF Types
<1>4. ASSUME NEW t \in TimerId
      PROVE  /\ timers'[t] \in Handle /\ timers'[t].cancelled = timers[t].cancelled
             /\ timers'[t].kind = timers[t].kind /\ timers'[t].owner = timers[t].owner
             /\ timers'[t].inst = timers[t].inst
             /\ timers'[t].tracked <=> timers[t].tracked /\ timers[t].owner # p
  <2> DEFINE b == timers[t].tracked /\ timers[t].owner # p
             k == [timers[t] EXCEPT !.tracked = b]
  <2>1. timers'[t] = k /\ timers[t] \in Handle
    BY <1>1, <1>2
  <2>2. b \in BOOLEAN
    OBVIOUS
  <2>3. b <=> timers[t].tracked /\ timers[t].owner # p
    OBVIOUS
  <2> HIDE DEF b
  <2>4. k \in Handle
    BY <2>1, <2>2 DEF Handle
  <2>5. k.tracked = b
    BY <2>1 DEF Handle
  <2>6. /\ k.kind = timers[t].kind /\ k.owner = timers[t].owner /\ k.inst = timers[t].inst
        /\ k.cancelled = timers[t].cancelled
    BY <2>1 DEF Handle
  <2> HIDE DEF k
  <2> QED  BY <2>1, <2>3, <2>4, <2>5, <2>6
<1>5. TimerTypes'
  <2>1. timers' = [t \in TimerId |-> timers'[t]]
    BY <1>2
  <2>2. timers' \in [TimerId -> Handle]
    BY <2>1, <1>4
  <2> QED  BY <1>2, <2>2 DEF TimerTypes
<1>6. KeepsTimers
  BY <1>4 DEF KeepsTimers
<1>7. ASSUME NEW s \in TimerId
      PROVE  /\ timers'[s].kind = "none" => timers'[s] = NoTimer /\ callbacks'[s] = {}
             /\ timers'[s].kind # "none" => timers'[s].owner \in Proto
             /\ timers'[s].kind = "every" /\ ~timers'[s].cancelled =>
                   timers'[s].tracked /\ timers'[s].inst = inst'[timers'[s].owner]
  <2>1. ASSUME timers'[s].kind = "none"  PROVE timers'[s] = NoTimer /\ callbacks'[s] = {}
    <3>1. timers[s] = NoTimer /\ callbacks[s] = {}
      BY <1>4, <2>1 DEF TimerInv
    <3>2. timers'[s] = [timers[s] EXCEPT !.tracked = timers[s].tracked /\ timers[s].owner # p]
      BY <1>2
    <3>3. (timers[s].tracked /\ timers[s].owner # p) = FALSE
      BY <3>1 DEF NoTimer
    <3>4. timers'[s] = [NoTimer EXCEPT !.tracked = FALSE]
      BY <3>1, <3>2, <3>3
    <3>5. timers'[s] = NoTimer
      BY <3>4, ZenonT(40) DEF NoTimer
    <3> QED  BY <1>2, <3>1, <3>5
  <2>2. timers'[s].kind # "none" => timers'[s].owner \in Proto
    BY <1>4 DEF TimerInv
  <2>3. ASSUME timers'[s].kind = "every" /\ ~timers'[s].cancelled
        PROVE  timers'[s].tracked /\ timers'[s].inst = inst'[timers'[s].owner]
    <3>1. timers[s].kind = "every" /\ ~timers[s].cancelled
      BY <1>4, <2>3
    <3>2. timers[s].owner # p /\ timers[s].owner \in Proto
      BY <3>1 DEF TimerInv
    <3>3. timers[s].tracked /\ timers[s].inst = inst[timers[s].owner]
      BY <3>1 DEF TimerInv
    <3> QED  BY <1>3, <1>4, <3>2, <3>3
  <2> QED  BY <2>1, <2>2, <2>3
<1>8. \A s \in cancelling' : s \in TimerId /\ timers'[s].kind # "none"
  BY <1>2, <1>4 DEF TimerInv
<1> QED  BY <1>4, <1>5, <1>6, <1>7, <1>8 DEF TimerInv

\* The steps that touch timers or build an instance.
LEMMA TimerFrame ==
  ASSUME [Next]_vars
  PROVE  \/ UNCHANGED <<inst, timerVars>>
         \/ \E p \in Proto : \E t \in TimerId : After(p, t) \/ Every(p, t) \/ Cancel(p, t)
         \/ \E t \in TimerId : clock(t) \/ stops(t)
         \/ \E p \in Proto : CancelTimers(p) \/ Rebuild(p)
<1>1. ASSUME NEW p \in Proto, asks(p)
      PROVE  \/ UNCHANGED <<inst, timerVars>>
             \/ \E t \in TimerId : After(p, t) \/ Every(p, t) \/ Cancel(p, t)
  BY <1>1 DEF asks, SendRequest, CallbackSends, sendRequest, PublishNotification, Unsubscribe
<1>2. ASSUME NEW p \in Proto, returns(p)  PROVE UNCHANGED <<inst, timerVars>>
  BY <1>2 DEF returns, RequestEnqueued, NotificationEnqueued
<1>3. ASSUME NEW p \in Proto, dispatch(p) \/ HandleRequestPanics(p) \/ HandlerPanics(p)
      PROVE  UNCHANGED <<inst, timerVars>>
  BY <1>3 DEF dispatch, HandleRequestLater, HandleRequest, deliverReply, DispatchTimer,
              DispatchNotification, HandleRequestPanics, HandlerPanics
<1>4. ASSUME NEW p \in Proto, supervises(p) \/ GivesUp(p)
      PROVE  UNCHANGED <<inst, timerVars>> \/ CancelTimers(p) \/ Rebuild(p)
  BY <1>4 DEF supervises, GivesUp, Quarantine, failPendingRestarting, RemoveOwner, Lift
<1>5. ASSUME NEW t \in timeouts, RequestTimesOut(t)  PROVE UNCHANGED <<inst, timerVars>>
  BY <1>5 DEF RequestTimesOut
<1>6. ASSUME NEW t \in held, Responds(t)  PROVE UNCHANGED <<inst, timerVars>>
  BY <1>6 DEF Responds
<1>7. UNCHANGED vars => UNCHANGED <<inst, timerVars>>
  BY DEF vars
<1> QED  BY <1>1, <1>2, <1>3, <1>4, <1>5, <1>6, <1>7 DEF Next

\* Whatever the step, timers stay what they are and are tracked as they must be.
LEMMA TimersStep ==
  ASSUME IPCInv, [Next]_vars
  PROVE  TimerTypes' /\ TimerInv' /\ KeepsTimers
<1>1. Types /\ TimerTypes /\ TimerInv
  BY DEF IPCInv
<1>2. CASE UNCHANGED <<inst, timerVars>>
  BY <1>1, <1>2 DEF timerVars, TimerTypes, TimerInv, KeepsTimers
<1>3. ASSUME NEW p \in Proto, NEW t \in TimerId, After(p, t) \/ Every(p, t) \/ Cancel(p, t)
      PROVE  TimerTypes' /\ TimerInv' /\ KeepsTimers
  <2>1. inst' = inst
    BY <1>3 DEF After, Every, Cancel, notTimers
  <2>2. CASE After(p, t) \/ Every(p, t)
    <3>1. (Schedule(p, t, "once") \/ Schedule(p, t, "every")) /\ loop[p] = "up"
      BY <2>2 DEF After, Every, Free
    <3> QED  BY <1>1, <2>1, <3>1, ScheduleKeeps
  <2>3. CASE Cancel(p, t)
    <3>1. Cancels({t}) /\ timers[t].inst = inst[p]
      BY <2>3 DEF Cancel
    <3>2. timers[t].kind # "none"
      BY <1>1, <3>1 DEF Types, TimerInv, NoTimer
    <3>3. {t} \subseteq TimerId /\ \A s \in {t} : timers[s].kind # "none"
      BY <3>2
    <3> QED  BY <1>1, <2>1, <3>1, <3>3, CancelsKeeps
  <2> QED  BY <1>3, <2>2, <2>3
<1>4. ASSUME NEW t \in TimerId, clock(t) \/ stops(t)
      PROVE  TimerTypes' /\ TimerInv' /\ KeepsTimers
  BY <1>1, <1>4, ClockKeeps, CancelStopsKeeps DEF clock, stops, notTimers
<1>5. ASSUME NEW p \in Proto, CancelTimers(p)
      PROVE  TimerTypes' /\ TimerInv' /\ KeepsTimers
  <2>1. Cancels(Owned(p)) /\ inst' = inst
    BY <1>5 DEF CancelTimers, cancelAllTimers
  <2>2. Owned(p) \subseteq TimerId /\ \A t \in Owned(p) : timers[t].kind # "none"
    BY <1>1 DEF Owned, TimerInv, NoTimer
  <2> HIDE DEF Owned
  <2> QED  BY <1>1, <2>1, <2>2, CancelsKeeps
<1>6. ASSUME NEW p \in Proto, Rebuild(p)
      PROVE  TimerTypes' /\ TimerInv' /\ KeepsTimers
  <2>1. ForgetTable(p) /\ inst' = [inst EXCEPT ![p] = @ + 1]
    BY <1>6 DEF Rebuild, resetForRestart
  <2>2. supervisor[p] = "backoff"
    BY <1>6 DEF Rebuild, At
  <2>3. \A t \in TimerId : timers[t].kind = "every" /\ timers[t].owner = p =>
                              timers[t].cancelled
    BY <2>2 DEF IPCInv, SupervisorInv
  <2> QED  BY <1>1, <2>1, <2>3, ForgetKeeps
<1> QED  BY <1>2, <1>3, <1>4, <1>5, <1>6, TimerFrame
------------------------------------------------------------------------------
(* Requests. *)

RequestTypes ==
    /\ inst \in [Proto -> Nat \ {0}]
    /\ pending \in [Proto -> SUBSET Pending]
    /\ nextRequestID \in [Proto -> 0 .. MaxRequests]
    /\ answers \in [Proto -> [1 .. MaxRequests -> {0, 1}]]

\* The entries of one id are one or none.
LEMMA AtMostOne ==
  ASSUME NEW S, \A r, s \in S : r = s
  PROVE  /\ S = {} => Cardinality(S) = 0
         /\ S # {} => Cardinality(S) = 1
<1>1. ASSUME S # {}  PROVE Cardinality(S) = 1
  <2>1. PICK r \in S : TRUE
    BY <1>1
  <2>2. S = {r}
    BY <2>1
  <2> QED  BY <2>2, FS_Singleton
<1> QED  BY <1>1, FS_EmptySet

\* What PendingInv says of one protocol, of any values of its variables.
PendingOf(i, P, n, A) ==
    /\ \A r \in P : r.id \in 1 .. n /\ r.inst = i
    /\ \A r, s \in P : r.id = s.id => r = s
    /\ \A k \in 1 .. MaxRequests : A[k] = 1 => k <= n /\ \A r \in P : r.id # k

\* Only one protocol's requests change.
LEMMA PendingChange ==
  ASSUME RequestTypes, PendingInv, NEW p \in Proto,
         NEW i \in Nat \ {0}, NEW P, P \subseteq Pending, NEW n \in 0 .. MaxRequests,
         NEW A \in [1 .. MaxRequests -> {0, 1}],
         inst' = [inst EXCEPT ![p] = i], pending' = [pending EXCEPT ![p] = P],
         nextRequestID' = [nextRequestID EXCEPT ![p] = n],
         answers' = [answers EXCEPT ![p] = A],
         PendingOf(i, P, n, A),
         n >= nextRequestID[p],
         \A r \in P : r \in pending[p] \/ r.id > nextRequestID[p]
  PROVE  RequestTypes' /\ PendingInv' /\ KeepsRequests
<1>1. RequestTypes'
  BY DEF RequestTypes
<1>2. /\ inst'[p] = i /\ pending'[p] = P /\ nextRequestID'[p] = n /\ answers'[p] = A
      /\ \A q \in Proto \ {p} :
           /\ inst'[q] = inst[q] /\ pending'[q] = pending[q]
           /\ nextRequestID'[q] = nextRequestID[q] /\ answers'[q] = answers[q]
  BY DEF RequestTypes
<1>3. \A q \in Proto : nextRequestID[q] \in Int /\ nextRequestID[q] >= nextRequestID[q]
  BY IPCAssumption DEF RequestTypes
<1>4. KeepsRequests
  BY <1>2, <1>3 DEF KeepsRequests
<1>5. \A q \in Proto : PendingOf(inst[q], pending[q], nextRequestID[q], answers[q])
  BY DEF PendingInv, PendingOf
<1>6. \A q \in Proto : PendingOf(inst'[q], pending'[q], nextRequestID'[q], answers'[q])
  BY <1>2, <1>5
<1>7. PendingInv'
  BY <1>6 DEF PendingInv, PendingOf
<1> QED  BY <1>1, <1>4, <1>7

\* A new request has an id of its own.
LEMMA SendKeeps ==
  ASSUME RequestTypes, PendingInv, NEW p \in Proto, NEW by \in {"loop", "callback"},
         sendRequest(p, by)
  PROVE  RequestTypes' /\ PendingInv' /\ KeepsRequests
<1> DEFINE id == nextRequestID[p] + 1
           r == [id |-> id, inst |-> inst[p], by |-> by]
           P == pending[p] \cup {r}
<1>1. /\ id <= MaxRequests /\ nextRequestID' = [nextRequestID EXCEPT ![p] = id]
      /\ pending' = [pending EXCEPT ![p] = P]
      /\ inst' = inst /\ answers' = answers
  BY DEF sendRequest
<1>2. /\ nextRequestID[p] \in Nat /\ id \in 1 .. MaxRequests /\ id > nextRequestID[p]
      /\ inst[p] \in Nat \ {0}
      /\ pending[p] \subseteq Pending /\ answers[p] \in [1 .. MaxRequests -> {0, 1}]
  BY <1>1, IPCAssumption DEF RequestTypes
<1>3. inst' = [inst EXCEPT ![p] = inst[p]] /\ answers' = [answers EXCEPT ![p] = answers[p]]
  BY <1>1 DEF RequestTypes
<1>4. r \in Pending /\ r.id = id /\ r.inst = inst[p]
  BY <1>2 DEF Pending
<1>5. PendingOf(inst[p], pending[p], nextRequestID[p], answers[p])
  BY DEF PendingInv, PendingOf
<1> HIDE DEF r
<1>6. P \subseteq Pending /\ \A s \in P : s \in pending[p] \/ s.id > nextRequestID[p]
  BY <1>2, <1>4
<1>7. PendingOf(inst[p], P, id, answers[p])
  <2>1. \A s \in pending[p] : s.id \in 1 .. nextRequestID[p] /\ s.inst = inst[p]
    BY <1>5 DEF PendingOf
  <2>2. \A s \in P : s.id \in 1 .. id /\ s.inst = inst[p]
    BY <1>2, <1>4, <2>1
  <2>3. \A s, t \in P : s.id = t.id => s = t
    BY <1>2, <1>4, <1>5, <2>1 DEF PendingOf
  <2>4. \A k \in 1 .. MaxRequests :
          answers[p][k] = 1 => k <= id /\ \A s \in P : s.id # k
    BY <1>2, <1>4, <1>5, IPCAssumption DEF PendingOf
  <2> QED  BY <2>2, <2>3, <2>4 DEF PendingOf
<1> HIDE DEF P
<1>8. id >= nextRequestID[p] /\ id \in 0 .. MaxRequests
  BY <1>2, IPCAssumption
<1> HIDE DEF id
<1> QED  BY <1>1, <1>2, <1>3, <1>6, <1>7, <1>8, PendingChange

\* A reply in the mailbox answers a request that was sent.
LEMMA HeadIsGood ==
  ASSUME Types, MailInv, NEW p \in Proto, mail[p] # <<>>
  PROVE  Head(mail[p]) \in GoodEvents(p) /\ Tail(mail[p]) \in Seq(GoodEvents(p))
BY HeadTailProperties DEF MailInv

\* The first answer takes the entry.
LEMMA DeliverKeeps ==
  ASSUME IPCInv, RequestTypes, NEW p \in Proto, deliverReply(p)
  PROVE  /\ RequestTypes' /\ PendingInv' /\ KeepsRequests
         /\ stale' = stale
<1> DEFINE e == Head(mail[p])
           m == {r \in pending[p] : r.id = e.id}
           P == pending[p] \ m
           c == Cardinality(m)
           A == [answers[p] EXCEPT ![e.id] = @ + c]
<1>1. /\ mail[p] # <<>> /\ e.kind = "reply"
      /\ pending' = [pending EXCEPT ![p] = P]
      /\ answers' = [answers EXCEPT ![p][e.id] = @ + c]
      /\ stale' = stale \cup (IF \E r \in m : r.inst # inst[p] THEN {"reply"} ELSE {})
      /\ inst' = inst /\ nextRequestID' = nextRequestID
  BY DEF deliverReply, Takes
<1>2. e \in GoodEvents(p)
  BY <1>1, HeadIsGood DEF IPCInv
<1>3. Good(Token(p, e.id, e.sender))
  BY <1>1, <1>2 DEF GoodEvents
<1>4. /\ nextRequestID[p] \in 0 .. MaxRequests /\ inst[p] \in Nat \ {0}
      /\ pending[p] \subseteq Pending /\ answers[p] \in [1 .. MaxRequests -> {0, 1}]
  BY DEF RequestTypes
<1>5. e.id \in 1 .. nextRequestID[p]
  BY <1>3 DEF Good, Token
<1>6. e.id \in 1 .. MaxRequests
  BY <1>4, <1>5, IPCAssumption
<1>7. PendingOf(inst[p], pending[p], nextRequestID[p], answers[p])
  BY DEF IPCInv, PendingInv, PendingOf
<1> HIDE DEF e
<1>8. \A r, s \in m : r = s
  BY <1>7 DEF PendingOf
<1>9. /\ inst' = [inst EXCEPT ![p] = inst[p]] /\ answers' = [answers EXCEPT ![p] = A]
      /\ nextRequestID' = [nextRequestID EXCEPT ![p] = nextRequestID[p]]
  BY <1>1 DEF RequestTypes
<1>10. (m = {} => c = 0) /\ (m # {} => c = 1)
  <2> HIDE DEF m
  <2> QED  BY <1>8, AtMostOne
<1>11. m # {} => answers[p][e.id] = 0
  BY <1>4, <1>6, <1>7 DEF PendingOf
<1> HIDE DEF c
<1>12. /\ A \in [1 .. MaxRequests -> {0, 1}]
       /\ A[e.id] = answers[p][e.id] + c
       /\ \A k \in 1 .. MaxRequests : k # e.id => A[k] = answers[p][k]
  <2>1. answers[p][e.id] \in {0, 1}
    BY <1>4, <1>6
  <2>2. answers[p][e.id] + c \in {0, 1}
    <3> HIDE DEF m
    <3>1. CASE m = {}
      BY <1>10, <2>1, <3>1
    <3>2. CASE m # {}
      BY <1>10, <1>11, <3>2
    <3> QED  BY <3>1, <3>2
  <2> QED  BY <1>4, <1>6, <2>2
<1> HIDE DEF A
<1>13. PendingOf(inst[p], P, nextRequestID[p], A)
  <2>1. /\ \A r \in P : r.id \in 1 .. nextRequestID[p] /\ r.inst = inst[p]
        /\ \A r, s \in P : r.id = s.id => r = s
    BY <1>7 DEF PendingOf
  <2>2. ASSUME NEW k \in 1 .. MaxRequests, A[k] = 1
        PROVE  k <= nextRequestID[p] /\ \A r \in P : r.id # k
    <3>1. CASE k = e.id
      BY <1>4, <1>5, <3>1
    <3>2. CASE k # e.id
      BY <1>7, <1>12, <2>2, <3>2 DEF PendingOf
    <3> QED  BY <3>1, <3>2
  <2> HIDE DEF P
  <2> QED  BY <2>1, <2>2 DEF PendingOf
<1>14. /\ nextRequestID[p] >= nextRequestID[p] /\ P \subseteq Pending
       /\ \A r \in P : r \in pending[p] \/ r.id > nextRequestID[p]
  BY <1>4, IPCAssumption
<1>15. stale' = stale
  BY <1>1, <1>7 DEF PendingOf
<1> HIDE DEF P
<1> QED  BY <1>1, <1>4, <1>9, <1>12, <1>13, <1>14, <1>15, PendingChange, ZenonT(40) DEF IPCInv

\* The supervisor answers what is left.
LEMMA FailKeeps ==
  ASSUME RequestTypes, PendingInv, NEW p \in Proto, failPendingRestarting(p)
  PROVE  RequestTypes' /\ PendingInv' /\ KeepsRequests
<1> DEFINE m(n) == {r \in pending[p] : r.id = n}
           A == [n \in 1 .. MaxRequests |-> answers[p][n] + Cardinality(m(n))]
<1>1. /\ nextRequestID[p] \in 0 .. MaxRequests /\ inst[p] \in Nat \ {0}
      /\ pending[p] \subseteq Pending /\ answers[p] \in [1 .. MaxRequests -> {0, 1}]
  BY DEF RequestTypes
<1>2. PendingOf(inst[p], pending[p], nextRequestID[p], answers[p])
  BY DEF PendingInv, PendingOf
<1>3. /\ pending' = [pending EXCEPT ![p] = {}]
      /\ answers' = [answers EXCEPT ![p] = A]
      /\ inst' = inst /\ nextRequestID' = nextRequestID
  BY DEF failPendingRestarting, RequestTypes
<1>4. /\ inst' = [inst EXCEPT ![p] = inst[p]]
      /\ nextRequestID' = [nextRequestID EXCEPT ![p] = nextRequestID[p]]
  BY <1>3 DEF RequestTypes
<1>5. ASSUME NEW n \in 1 .. MaxRequests
      PROVE  A[n] \in {0, 1} /\ (A[n] = 1 => n <= nextRequestID[p])
  <2>1. \A r, s \in m(n) : r = s
    BY <1>2 DEF PendingOf
  <2>2. m(n) # {} => n \in 1 .. nextRequestID[p] /\ answers[p][n] # 1
    BY <1>2 DEF PendingOf
  <2>3. answers[p][n] = 1 => n <= nextRequestID[p]
    BY <1>2 DEF PendingOf
  <2>4. A[n] = answers[p][n] + Cardinality(m(n)) /\ answers[p][n] \in {0, 1}
    BY <1>1
  <2> HIDE DEF A, m
  <2>5. (m(n) = {} => Cardinality(m(n)) = 0) /\ (m(n) # {} => Cardinality(m(n)) = 1)
    BY <2>1, AtMostOne
  <2>6. CASE m(n) = {}
    BY <2>3, <2>4, <2>5, <2>6
  <2>7. CASE m(n) # {}
    BY <1>1, <2>2, <2>4, <2>5, <2>7
  <2> QED  BY <2>6, <2>7
<1>6. A \in [1 .. MaxRequests -> {0, 1}]
  BY <1>5
<1> HIDE DEF A
<1> DEFINE P == {}
<1>7. PendingOf(inst[p], P, nextRequestID[p], A)
  BY <1>5 DEF PendingOf
<1>8. /\ nextRequestID[p] >= nextRequestID[p] /\ P \subseteq Pending
      /\ pending' = [pending EXCEPT ![p] = P]
      /\ \A r \in P : r \in pending[p] \/ r.id > nextRequestID[p]
  BY <1>1, <1>3, IPCAssumption
<1> HIDE DEF P
<1> QED  BY <1>1, <1>3, <1>4, <1>6, <1>7, <1>8, PendingChange

\* A new instance has no request of the last one's.
LEMMA RebuildKeeps ==
  ASSUME RequestTypes, PendingInv, NEW p \in Proto, Rebuild(p)
  PROVE  RequestTypes' /\ PendingInv' /\ KeepsRequests
<1>1. /\ nextRequestID[p] \in 0 .. MaxRequests /\ inst[p] + 1 \in Nat \ {0}
      /\ answers[p] \in [1 .. MaxRequests -> {0, 1}]
  BY DEF RequestTypes
<1>2. /\ pending' = [pending EXCEPT ![p] = {}] /\ inst' = [inst EXCEPT ![p] = inst[p] + 1]
      /\ answers' = answers /\ nextRequestID' = nextRequestID
  BY DEF Rebuild, resetForRestart
<1>3. /\ answers' = [answers EXCEPT ![p] = answers[p]]
      /\ nextRequestID' = [nextRequestID EXCEPT ![p] = nextRequestID[p]]
  BY <1>2 DEF RequestTypes
<1> DEFINE P == {}
<1>4. PendingOf(inst[p] + 1, P, nextRequestID[p], answers[p])
  BY DEF PendingInv, PendingOf
<1>5. /\ nextRequestID[p] >= nextRequestID[p] /\ P \subseteq Pending
      /\ pending' = [pending EXCEPT ![p] = P]
      /\ \A r \in P : r \in pending[p] \/ r.id > nextRequestID[p]
  BY <1>1, <1>2, IPCAssumption
<1> HIDE DEF P
<1> QED  BY <1>1, <1>2, <1>3, <1>4, <1>5, PendingChange

\* The steps that touch requests or build an instance.
LEMMA RequestFrame ==
  ASSUME [Next]_vars
  PROVE  \/ UNCHANGED <<inst, pending, nextRequestID, answers>>
         \/ \E p \in Proto : sendRequest(p, "loop") \/ sendRequest(p, "callback")
         \/ \E p \in Proto : deliverReply(p) \/ failPendingRestarting(p) \/ Rebuild(p)
<1>1. ASSUME NEW p \in Proto, asks(p)
      PROVE  \/ UNCHANGED <<inst, pending, nextRequestID, answers>>
             \/ sendRequest(p, "loop") \/ sendRequest(p, "callback")
  BY <1>1 DEF asks, SendRequest, CallbackSends, PublishNotification, Unsubscribe,
              After, Every, Cancel, notTimers, ipcVars
<1>2. ASSUME NEW p \in Proto, returns(p)
      PROVE  UNCHANGED <<inst, pending, nextRequestID, answers>>
  BY <1>2 DEF returns, RequestEnqueued, NotificationEnqueued
<1>3. ASSUME NEW p \in Proto, dispatch(p) \/ HandleRequestPanics(p) \/ HandlerPanics(p)
      PROVE  UNCHANGED <<inst, pending, nextRequestID, answers>> \/ deliverReply(p)
  BY <1>3 DEF dispatch, HandleRequestLater, HandleRequest, DispatchTimer,
              DispatchNotification, HandleRequestPanics, HandlerPanics, ipcVars
<1>4. ASSUME NEW p \in Proto, supervises(p) \/ GivesUp(p)
      PROVE  \/ UNCHANGED <<inst, pending, nextRequestID, answers>>
             \/ failPendingRestarting(p) \/ Rebuild(p)
  BY <1>4 DEF supervises, GivesUp, Quarantine, CancelTimers, RemoveOwner, Lift, ipcVars
<1>5. ASSUME NEW t \in timeouts, RequestTimesOut(t)
      PROVE  UNCHANGED <<inst, pending, nextRequestID, answers>>
  BY <1>5 DEF RequestTimesOut
<1>6. ASSUME NEW t \in held, Responds(t)
      PROVE  UNCHANGED <<inst, pending, nextRequestID, answers>>
  BY <1>6 DEF Responds
<1>7. ASSUME NEW t \in TimerId, clock(t) \/ stops(t)
      PROVE  UNCHANGED <<inst, pending, nextRequestID, answers>>
  BY <1>7 DEF clock, stops, notTimers, ipcVars
<1>8. UNCHANGED vars => UNCHANGED <<inst, pending, nextRequestID, answers>>
  BY DEF vars, ipcVars
<1> QED  BY <1>1, <1>2, <1>3, <1>4, <1>5, <1>6, <1>7, <1>8 DEF Next

\* Whatever the step, requests are pending until they are answered, once.
LEMMA RequestsStep ==
  ASSUME IPCInv, [Next]_vars
  PROVE  RequestTypes' /\ PendingInv' /\ KeepsRequests
<1>1. RequestTypes /\ PendingInv
  BY DEF IPCInv, Types, RequestTypes
<1>2. CASE UNCHANGED <<inst, pending, nextRequestID, answers>>
  <2>1. RequestTypes' /\ PendingInv'
    BY <1>1, <1>2 DEF RequestTypes, PendingInv
  <2>2. \A p \in Proto : nextRequestID[p] >= nextRequestID[p]
    BY <1>1, IPCAssumption DEF RequestTypes
  <2> QED  BY <1>2, <2>1, <2>2 DEF KeepsRequests
<1> QED  BY <1>1, <1>2, RequestFrame, SendKeeps, DeliverKeeps, FailKeeps, RebuildKeeps
------------------------------------------------------------------------------
(* Loops and supervisors. *)

ControlTypes ==
    /\ quarantined \in [Proto -> BOOLEAN]
    /\ loop \in [Proto -> {"up", "exited", "down"}]
    /\ supervisor \in [Proto -> {"idle", "timers", "requests", "failed", "backoff",
                                 "started", "stopped"}]

\* What a step does to a protocol's loop and supervisor.
Moves(p) ==
    \/ loop'[p] = loop[p] /\ supervisor'[p] = supervisor[p]
    \/ loop[p] = "up" /\ supervisor'[p] = supervisor[p]
    \/ supervisor'[p] = "idle"
    \/ supervisor[p] = "idle" /\ supervisor'[p] = "timers" /\ loop'[p] = "down"
    \/ loop'[p] = loop[p] /\ supervisor[p] = "timers" /\ CancelTimers(p)
    \/ loop'[p] = loop[p] /\ supervisor[p] \notin {"idle", "timers"}

\* The loop's and the supervisor's steps are these moves.
LEMMA ControlFrame ==
  ASSUME ControlTypes, [Next]_vars
  PROVE  ControlTypes' /\ \A p \in Proto : Moves(p)
<1>1. CASE UNCHANGED <<quarantined, loop, supervisor>>
  BY <1>1 DEF ControlTypes, Moves
<1>2. ASSUME NEW p \in Proto, HandlerPanics(p) \/ HandleRequestPanics(p)
      PROVE  ControlTypes' /\ \A q \in Proto : Moves(q)
  <2>1. /\ loop[p] = "up" /\ loop' = [loop EXCEPT ![p] = "exited"]
        /\ UNCHANGED <<quarantined, supervisor>>
    BY <1>2 DEF HandlerPanics, HandleRequestPanics, Takes, Free
  <2> QED  BY <2>1 DEF ControlTypes, Moves
<1>3. ASSUME NEW p \in Proto, Quarantine(p)
      PROVE  ControlTypes' /\ \A q \in Proto : Moves(q)
  <2>1. /\ supervisor[p] = "idle" /\ supervisor' = [supervisor EXCEPT ![p] = "timers"]
        /\ loop' = [loop EXCEPT ![p] = "down"]
        /\ quarantined' = [quarantined EXCEPT ![p] = TRUE]
    BY <1>3 DEF Quarantine, At
  <2>2. quarantined' \in [Proto -> BOOLEAN]
    BY <2>1 DEF ControlTypes
  <2> QED  BY <2>1, <2>2 DEF ControlTypes, Moves
<1>4. ASSUME NEW p \in Proto, Lift(p)
      PROVE  ControlTypes' /\ \A q \in Proto : Moves(q)
  <2>1. /\ supervisor' = [supervisor EXCEPT ![p] = "idle"]
        /\ loop' = [loop EXCEPT ![p] = "up"]
        /\ quarantined' = [quarantined EXCEPT ![p] = FALSE]
    BY <1>4 DEF Lift, At
  <2>2. quarantined' \in [Proto -> BOOLEAN]
    BY <2>1 DEF ControlTypes
  <2> QED  BY <2>1, <2>2 DEF ControlTypes, Moves
<1>5. ASSUME NEW p \in Proto, CancelTimers(p)
      PROVE  ControlTypes' /\ \A q \in Proto : Moves(q)
  <2>1. /\ supervisor[p] = "timers" /\ supervisor' = [supervisor EXCEPT ![p] = "requests"]
        /\ UNCHANGED <<loop, quarantined>>
    BY <1>5 DEF CancelTimers, At
  <2> QED  BY <1>5, <2>1 DEF ControlTypes, Moves
<1>6. ASSUME NEW p \in Proto,
             failPendingRestarting(p) \/ RemoveOwner(p) \/ Rebuild(p) \/ GivesUp(p)
      PROVE  ControlTypes' /\ \A q \in Proto : Moves(q)
  <2>1. /\ supervisor[p] \notin {"idle", "timers"}
        /\ \E l \in {"failed", "backoff", "started", "stopped"} :
             supervisor' = [supervisor EXCEPT ![p] = l]
        /\ UNCHANGED <<loop, quarantined>>
    BY <1>6 DEF failPendingRestarting, RemoveOwner, Rebuild, GivesUp, At
  <2> QED  BY <2>1 DEF ControlTypes, Moves
<1>7. ASSUME NEW p \in Proto, asks(p)  PROVE UNCHANGED <<quarantined, loop, supervisor>>
  BY <1>7 DEF asks, SendRequest, CallbackSends, sendRequest, PublishNotification,
              Unsubscribe, After, Every, Cancel, notTimers
<1>8. ASSUME NEW p \in Proto, returns(p) \/ dispatch(p)
      PROVE  UNCHANGED <<quarantined, loop, supervisor>>
  BY <1>8 DEF returns, RequestEnqueued, NotificationEnqueued, dispatch, HandleRequestLater,
              HandleRequest, deliverReply, DispatchTimer, DispatchNotification
<1>9. ASSUME NEW t \in TimerId, clock(t) \/ stops(t)
      PROVE  UNCHANGED <<quarantined, loop, supervisor>>
  BY <1>9 DEF clock, stops, notTimers
<1>10. ASSUME NEW t, RequestTimesOut(t) \/ Responds(t)
       PROVE  UNCHANGED <<quarantined, loop, supervisor>>
  BY <1>10 DEF RequestTimesOut, Responds
<1>11. UNCHANGED vars => UNCHANGED <<quarantined, loop, supervisor>>
  BY DEF vars
<1> QED
  BY <1>1, <1>2, <1>3, <1>4, <1>5, <1>6, <1>7, <1>8, <1>9, <1>10, <1>11 DEF Next, supervises

\* The supervisor has cancelled all periodic timers before it does the rest.
LEMMA SupervisorStep ==
  ASSUME IPCInv, [Next]_vars
  PROVE  ControlTypes' /\ SupervisorInv'
<1>1. ControlTypes /\ SupervisorInv /\ TimerInv
  BY DEF IPCInv, Types, ControlTypes
<1>2. ControlTypes' /\ \A p \in Proto : Moves(p)
  BY <1>1, ControlFrame
<1>3. KeepsTimers /\ TimerInv'
  BY TimersStep
<1>4. ASSUME NEW p \in Proto, CancelTimers(p), NEW t \in TimerId,
             timers'[t].kind = "every", timers'[t].owner = p
      PROVE  timers'[t].cancelled
  <2>1. Cancels(Owned(p)) /\ inst' = inst
    BY <1>4 DEF CancelTimers, cancelAllTimers
  <2>2. Owned(p) \subseteq TimerId /\ \A s \in Owned(p) : timers[s].kind # "none"
    BY <1>1 DEF Owned, TimerInv, NoTimer
  <2>3. /\ \A s \in Owned(p) : timers'[s].cancelled
        /\ \A s \in TimerId \ Owned(p) : timers'[s] = timers[s]
    <3> HIDE DEF Owned
    <3> QED  BY <2>1, <2>2, CancelsKeeps DEF IPCInv
  <2> QED  BY <1>1, <1>4, <2>3 DEF Owned, TimerInv
<1>5. ASSUME NEW p \in Proto
      PROVE  /\ supervisor'[p] # "idle" => loop'[p] = "down"
             /\ supervisor'[p] \notin {"idle", "timers"} =>
                  \A t \in TimerId : timers'[t].kind = "every" /\ timers'[t].owner = p =>
                                        timers'[t].cancelled
  <2>1. Moves(p)
    BY <1>2
  <2>2. supervisor[p] # "idle" => loop[p] = "down"
    BY <1>1 DEF SupervisorInv
  <2>3. supervisor'[p] # "idle" => loop'[p] = "down"
    BY <2>1, <2>2 DEF Moves
  <2>4. ASSUME supervisor'[p] \notin {"idle", "timers"}, NEW t \in TimerId,
               timers'[t].kind = "every", timers'[t].owner = p
        PROVE  timers'[t].cancelled
    <3>1. \/ supervisor[p] \notin {"idle", "timers"}
          \/ CancelTimers(p)
      BY <2>1, <2>2, <2>4 DEF Moves
    <3>2. CASE supervisor[p] \notin {"idle", "timers"}
      <4>1. loop[p] # "up"
        BY <2>2, <3>2
      <4>2. timers[t].kind # "none"
        BY <1>3, <2>4, <4>1 DEF KeepsTimers
      <4>3. timers[t].kind = "every" /\ timers[t].owner = p
        BY <1>3, <2>4, <4>2 DEF KeepsTimers
      <4>4. timers[t].cancelled
        BY <1>1, <3>2, <4>3 DEF SupervisorInv
      <4> QED  BY <1>3, <4>2, <4>4 DEF KeepsTimers
    <3> QED  BY <1>4, <2>4, <3>1, <3>2
  <2> QED  BY <2>3, <2>4
<1> QED  BY <1>2, <1>5 DEF SupervisorInv
------------------------------------------------------------------------------
(* Tokens, calls and mailboxes. *)

RouteTypes == requestRoutes \subseteq Sub /\ fanout \in Seq(Sub)

CallTypes == call = [p \in Proto |-> call[p]]

MailTypes == mail = [p \in Proto |-> mail[p]]

\* Every mailbox is left, loses its head or is emptied, and may get one event.
MailMoves ==
    /\ MailTypes'
    /\ \A p \in Proto : \E s \in Seq(GoodEvents(p)) :
          mail'[p] = s \/ \E e \in GoodEvents(p)' : mail'[p] = Append(s, e)

\* Then what is in the mailboxes is as good as before.
LEMMA MailKept ==
  ASSUME \A p : GoodEvents(p) \subseteq GoodEvents(p)', MailMoves
  PROVE  MailInv'
<1> SUFFICES ASSUME NEW p \in Proto  PROVE mail'[p] \in Seq(GoodEvents(p)')
  BY DEF MailInv
<1> DEFINE G == GoodEvents(p)'
<1>1. PICK s \in Seq(GoodEvents(p)) : mail'[p] = s \/ \E e \in G : mail'[p] = Append(s, e)
  BY DEF MailMoves
<1>2. GoodEvents(p) \subseteq G
  OBVIOUS
<1> HIDE DEF G
<1>3. s \in Seq(G)
  BY <1>2, SeqMonotonic
<1> QED  BY <1>1, <1>3, AppendProperties DEF G

\* Enqueueing a good event, at most.
LEMMA EnqueuedMoves ==
  ASSUME MailTypes, MailInv, NEW p \in Proto, NEW e, e \in GoodEvents(p)', Enqueued(p, e)
  PROVE  MailMoves
<1>1. mail' = [mail EXCEPT ![p] = IF quarantined[p] THEN @ ELSE Append(@, e)]
  BY DEF Enqueued
<1>2. MailTypes'
  BY <1>1 DEF MailTypes
<1>3. ASSUME NEW q \in Proto
      PROVE  mail'[q] = mail[q] \/ (q = p /\ mail'[q] = Append(mail[q], e))
  BY <1>1 DEF MailTypes
<1>4. \A q \in Proto : mail[q] \in Seq(GoodEvents(q))
  BY DEF MailInv
<1> QED  BY <1>2, <1>3, <1>4 DEF MailMoves

\* Taking the head.
LEMMA DropMoves ==
  ASSUME MailTypes, MailInv, NEW p \in Proto, mail[p] # <<>>, Drop(p)
  PROVE  MailMoves
<1>1. mail' = [mail EXCEPT ![p] = Tail(@)]
  BY DEF Drop
<1>2. MailTypes'
  BY <1>1 DEF MailTypes
<1>3. Tail(mail[p]) \in Seq(GoodEvents(p))
  BY HeadTailProperties DEF MailInv
<1>4. \A q \in Proto : mail'[q] = mail[q] \/ (q = p /\ mail'[q] = Tail(mail[p]))
  BY <1>1 DEF MailTypes
<1>5. \A q \in Proto : mail[q] \in Seq(GoodEvents(q))
  BY DEF MailInv
<1> QED  BY <1>2, <1>3, <1>4, <1>5 DEF MailMoves

\* Taking the head and enqueueing the answer.
LEMMA ExchangeMoves ==
  ASSUME MailTypes, MailInv, NEW p \in Proto, mail[p] # <<>>, NEW q \in Proto,
         NEW e, e \in GoodEvents(q)', Exchange(p, q, e)
  PROVE  MailMoves
<1> DEFINE left(r) == IF r = p THEN Tail(mail[r]) ELSE mail[r]
<1>1. mail' = [r \in Proto |-> IF r = q /\ ~quarantined[q] THEN Append(left(r), e) ELSE left(r)]
  BY DEF Exchange
<1>2. MailTypes'
  BY <1>1 DEF MailTypes
<1>3. \A r \in Proto : left(r) \in Seq(GoodEvents(r))
  BY HeadTailProperties DEF MailInv
<1> HIDE DEF left
<1>4. \A r \in Proto : mail'[r] = left(r) \/ (r = q /\ mail'[r] = Append(left(r), e))
  BY <1>1
<1> QED  BY <1>2, <1>3, <1>4 DEF MailMoves

\* A mailbox is emptied.
LEMMA EmptyMoves ==
  ASSUME MailTypes, MailInv, NEW p \in Proto, mail' = [mail EXCEPT ![p] = <<>>]
  PROVE  MailMoves
<1>1. MailTypes'
  BY DEF MailTypes
<1>2. \A q \in Proto : mail'[q] = mail[q] \/ mail'[q] = <<>>
  BY DEF MailTypes
<1>3. \A q \in Proto : mail[q] \in Seq(GoodEvents(q)) /\ <<>> \in Seq(GoodEvents(q))
  BY EmptySeq DEF MailInv
<1> QED  BY <1>1, <1>2, <1>3 DEF MailMoves

\* No mailbox changes.
LEMMA SameMoves ==
  ASSUME MailTypes, MailInv, mail' = mail
  PROVE  MailMoves
BY DEF MailTypes, MailInv, MailMoves

\* The events about a good token are good.
LEMMA TokenEvents ==
  ASSUME NEW t, Good(t), nextRequestID \in [Proto -> 0 .. MaxRequests]
  PROVE  /\ t.from \in Proto
         /\ Event("reply", t, 0) \in GoodEvents(t.from)
         /\ \A p \in Proto, i \in Nat : Event("request", t, i) \in GoodEvents(p)
<1>1. t.from \in Proto /\ t.id \in 1 .. nextRequestID[t.from] /\ t.sender \in Nat
  BY DEF Good
<1>2. t.id \in Nat
  <2>1. nextRequestID[t.from] \in Nat
    BY <1>1, IPCAssumption
  <2> QED  BY <1>1, <2>1
<1>3. Good(Token(t.from, t.id, t.sender))
  BY DEF Good, Token
<1>4. Event("reply", t, 0) \in GoodEvents(t.from)
  <2> DEFINE e == Event("reply", t, 0)
  <2>1. /\ e \in Mail /\ e.kind = "reply" /\ e.id = t.id /\ e.sender = t.sender
    BY <1>1, <1>2 DEF Mail, Event
  <2> HIDE DEF e
  <2> QED  BY <1>3, <2>1 DEF GoodEvents, e
<1>5. ASSUME NEW p \in Proto, NEW i \in Nat
      PROVE  Event("request", t, i) \in GoodEvents(p)
  <2> DEFINE e == Event("request", t, i)
  <2>1. /\ e \in Mail /\ e.kind = "request" /\ e.id = t.id /\ e.sender = t.sender
        /\ e.from = t.from
    BY <1>1, <1>2 DEF Mail, Event
  <2> HIDE DEF e
  <2> QED  BY <1>3, <2>1 DEF GoodEvents, e
<1> QED  BY <1>1, <1>4, <1>5

\* A token of the head of a mailbox.
LEMMA HeadToken ==
  ASSUME Types, MailInv, NEW p \in Proto, mail[p] # <<>>, Head(mail[p]).kind = "request"
  PROVE  Good(Token(Head(mail[p]).from, Head(mail[p]).id, Head(mail[p]).sender))
BY HeadIsGood DEF GoodEvents

\* Tokens and calls that are as good as before, and one more of each.
LEMMA TokenChange ==
  ASSUME CallTypes, TokenInv, \A t : Good(t) => Good(t)',
         \A t \in held' \cup timeouts' : t \in held \cup timeouts \/ Good(t)',
         NEW p, NEW c, CallOK(c)',
         call' = call \/ call' = [call EXCEPT ![p] = c]
  PROVE  CallTypes' /\ TokenInv'
<1>1. \A t \in held' \cup timeouts' : Good(t)'
  BY DEF TokenInv
<1>2. \A q \in Proto : CallOK(call[q])
  BY DEF TokenInv
<1>3. CallTypes' /\ \A q \in Proto : call'[q] = call[q] \/ call'[q] = c
  BY DEF CallTypes
<1>4. \A d : CallOK(d) => CallOK(d)'
  BY DEF CallOK
<1>5. ASSUME NEW q \in Proto  PROVE CallOK(call[q])'
  <2>1. PICK d : d = call'[q] /\ CallOK(d)'
    BY <1>2, <1>3, <1>4
  <2> QED  BY <2>1 DEF CallOK, Good
<1>6. (\A q \in Proto : CallOK(call[q]))'
  BY <1>5
<1> QED  BY <1>1, <1>3, <1>6 DEF TokenInv

\* The same of the next state.
LEMMA NextTokenEvents ==
  ASSUME TRUE
  PROVE  (\A t : Good(t) /\ nextRequestID \in [Proto -> 0 .. MaxRequests] =>
            /\ t.from \in Proto
            /\ Event("reply", t, 0) \in GoodEvents(t.from)
            /\ \A p \in Proto, i \in Nat : Event("request", t, i) \in GoodEvents(p))'
<1>1. \A t : Good(t) /\ nextRequestID \in [Proto -> 0 .. MaxRequests] =>
            /\ t.from \in Proto
            /\ Event("reply", t, 0) \in GoodEvents(t.from)
            /\ \A p \in Proto, i \in Nat : Event("request", t, i) \in GoodEvents(p)
  BY TokenEvents
<1> QED  BY <1>1, PTL

\* What the steps of requests and timers leave to the lemmas below, ...
Keeps ==
    /\ IPCInv
    /\ \A t : Good(t) => Good(t)'
    /\ \A p : GoodEvents(p) \subseteq GoodEvents(p)'
    /\ KeepsTimers
    /\ nextRequestID' \in [Proto -> 0 .. MaxRequests]

\* ... and what they show of a step.
Delivers == CallTypes' /\ TokenInv' /\ MailMoves /\ RouteTypes' /\ NoStaleClosure'

\* The parts of the invariant that they read.
LEMMA KeepsParts ==
  ASSUME Keeps
  PROVE  /\ Types /\ MailInv /\ TokenInv /\ PendingInv /\ TimerInv /\ NoStaleClosure
         /\ MailTypes /\ CallTypes /\ RouteTypes
         /\ \A t : Good(t) => Good(t)'
         /\ \A t : Good(t)' =>
              /\ t.from \in Proto
              /\ Event("reply", t, 0) \in GoodEvents(t.from)'
              /\ \A p \in Proto, i \in Nat : Event("request", t, i) \in GoodEvents(p)'
<1>1. /\ Types /\ MailInv /\ TokenInv /\ PendingInv /\ TimerInv /\ NoStaleClosure
      /\ MailTypes /\ CallTypes /\ RouteTypes
      /\ \A t : Good(t) => Good(t)'
  BY DEF Keeps, IPCInv, Types, MailTypes, CallTypes, RouteTypes
<1>2. \A t : Good(t)' =>
              /\ t.from \in Proto
              /\ Event("reply", t, 0) \in GoodEvents(t.from)'
              /\ \A p \in Proto, i \in Nat : Event("request", t, i) \in GoodEvents(p)'
  BY NextTokenEvents DEF Keeps
<1> QED  BY <1>1, <1>2

\* Tokens and calls are as before, or one call is over.
LEMMA SameTokens ==
  ASSUME Keeps, held' \subseteq held, timeouts' \subseteq timeouts,
         call' = call \/ \E p \in Proto : call' = [call EXCEPT ![p] = NoCall]
  PROVE  CallTypes' /\ TokenInv'
<1>1. CallOK(NoCall)'
  BY DEF CallOK, NoCall
<1>2. CallTypes /\ TokenInv /\ \A t : Good(t) => Good(t)'
  BY KeepsParts
<1>3. PICK p : call' = call \/ call' = [call EXCEPT ![p] = NoCall]
  OBVIOUS
<1>4. \A t \in held' \cup timeouts' : t \in held \cup timeouts \/ Good(t)'
  OBVIOUS
<1> DEFINE c == NoCall
<1>5. CallOK(c)' /\ (call' = call \/ call' = [call EXCEPT ![p] = c])
  BY <1>1, <1>3
<1> HIDE DEF c
<1> QED  BY <1>2, <1>4, <1>5, TokenChange

\* A request is sent.
LEMMA SendDelivers ==
  ASSUME Keeps, NEW p \in Proto, NEW by, sendRequest(p, by)
  PROVE  Delivers
<1>0. PICK id, token : id = nextRequestID[p] + 1 /\ token = Token(p, id, inst[p])
  OBVIOUS
<1>1. /\ nextRequestID' = [nextRequestID EXCEPT ![p] = id]
      /\ pending' = [pending EXCEPT ![p] = @ \cup {[id |-> id, inst |-> inst[p], by |-> by]}]
      /\ UNCHANGED <<requestRoutes, fanout, held, stale>>
      /\ \/ /\ Reply(p, token)
            /\ UNCHANGED <<call, timeouts>>
         \/ \E r \in requestRoutes :
              /\ timeouts' = timeouts \cup {token}
              /\ call' = [call EXCEPT ![p] = [op |-> "request", token |-> token, route |-> r]]
              /\ UNCHANGED mail
  BY <1>0 DEF sendRequest
<1>2. /\ Types /\ MailInv /\ TokenInv /\ PendingInv /\ NoStaleClosure
      /\ MailTypes /\ CallTypes /\ RouteTypes
      /\ \A t : Good(t) => Good(t)'
      /\ \A t : Good(t)' => Event("reply", t, 0) \in GoodEvents(t.from)'
  BY KeepsParts
<1>3. /\ nextRequestID[p] \in Nat /\ inst[p] \in Nat
      /\ nextRequestID'[p] = id
      /\ pending'[p] = pending[p] \cup {[id |-> id, inst |-> inst[p], by |-> by]}
  BY <1>0, <1>1, <1>2, IPCAssumption DEF Types
<1>4. \A r \in pending'[p] : r.id = id => r.inst = inst[p]
  BY <1>0, <1>2, <1>3 DEF PendingInv
<1>5. token.from = p /\ token.id = id /\ token.sender = inst[p]
  BY <1>0 DEF Token
<1>6. Good(token)'
  BY <1>0, <1>3, <1>4, <1>5 DEF Good
<1>7. CASE Reply(p, token) /\ UNCHANGED <<call, timeouts>>
  <2>1. MailMoves
    <3>1. Enqueued(p, Event("reply", token, 0))
      BY <1>7 DEF Reply
    <3>2. Event("reply", token, 0) \in GoodEvents(p)'
      BY <1>2, <1>5, <1>6
    <3> QED  BY <1>2, <3>1, <3>2, EnqueuedMoves
  <2>2. CallTypes' /\ TokenInv'
    BY <1>1, <1>7, SameTokens
  <2> QED  BY <1>1, <1>2, <2>1, <2>2 DEF Delivers, RouteTypes, NoStaleClosure
<1>8. ASSUME NEW r \in requestRoutes, timeouts' = timeouts \cup {token},
             call' = [call EXCEPT ![p] = [op |-> "request", token |-> token, route |-> r]],
             UNCHANGED mail
      PROVE  Delivers
  <2> DEFINE c == [op |-> "request", token |-> token, route |-> r]
  <2>1. c.op = "request" /\ c.token = token /\ c.route = r
    OBVIOUS
  <2>2. call' = [call EXCEPT ![p] = c]
    BY <1>8
  <2> HIDE DEF c
  <2>3. CallOK(c)'
    BY <1>2, <1>6, <2>1 DEF CallOK, RouteTypes
  <2>4. \A t \in held' \cup timeouts' : t \in held \cup timeouts \/ Good(t)'
    BY <1>1, <1>6, <1>8
  <2>5. CallTypes' /\ TokenInv'
    BY <1>2, <2>2, <2>3, <2>4, TokenChange
  <2>6. MailMoves
    BY <1>2, <1>8, SameMoves
  <2> QED  BY <1>1, <1>2, <2>5, <2>6 DEF Delivers, RouteTypes, NoStaleClosure
<1> QED  BY <1>1, <1>7, <1>8

\* A call goes on.
LEMMA ReturnDelivers ==
  ASSUME Keeps, NEW p \in Proto, returns(p)
  PROVE  Delivers
<1>1. /\ Types /\ MailInv /\ TokenInv /\ NoStaleClosure
      /\ MailTypes /\ CallTypes /\ RouteTypes /\ CallOK(call[p])
      /\ \A t : Good(t) => Good(t)'
      /\ \A t : Good(t)' =>
           \A q \in Proto, i \in Nat : Event("request", t, i) \in GoodEvents(q)'
  BY KeepsParts DEF TokenInv
<1>2. CASE RequestEnqueued(p)
  <2>0. PICK r, t : r = call[p].route /\ t = call[p].token
    OBVIOUS
  <2> DEFINE e == Event("request", t, r.inst)
  <2>1. /\ call[p].op = "request" /\ Enqueued(r.proto, e)
        /\ call' = [call EXCEPT ![p] = NoCall]
        /\ UNCHANGED <<requestRoutes, fanout, held, timeouts, stale>>
    BY <1>2, <2>0 DEF RequestEnqueued
  <2>2. Good(t) /\ r \in Sub
    <3>1. Good(call[p].token) /\ r \in Sub
      BY <1>1, <2>0, <2>1 DEF CallOK
    <3> QED  BY <2>0, <3>1 DEF Good
  <2>3. r.proto \in Proto /\ r.inst \in Nat
    BY <2>2 DEF Sub
  <2>4. Good(t)'
    BY <1>1, <2>2
  <2>5. e \in GoodEvents(r.proto)'
    BY <1>1, <2>3, <2>4
  <2> HIDE DEF e
  <2>7. MailMoves
    BY <1>1, <2>1, <2>3, <2>5, EnqueuedMoves
  <2>8. CallTypes' /\ TokenInv'
    BY <2>1, SameTokens
  <2> QED  BY <1>1, <2>1, <2>7, <2>8 DEF Delivers, RouteTypes, NoStaleClosure
<1>3. CASE NotificationEnqueued(p)
  <2>0. PICK l : l = call[p].left
    OBVIOUS
  <2> DEFINE sub == Head(l)
             e == Event("notification", Token(p, 0, 0), sub.inst)
             c == IF Len(l) = 1 THEN NoCall ELSE [op |-> "publish", left |-> Tail(l)]
  <2>1. /\ call[p].op = "publish" /\ Enqueued(sub.proto, e)
        /\ call' = [call EXCEPT ![p] = c]
        /\ UNCHANGED <<requestRoutes, fanout, held, timeouts, stale>>
    BY <1>3, <2>0 DEF NotificationEnqueued
  <2>2. l \in Seq(Sub) /\ l # <<>>
    BY <1>1, <2>0, <2>1 DEF CallOK
  <2>3. sub \in Sub /\ Tail(l) \in Seq(Sub) /\ Len(l) \in Nat /\ Len(Tail(l)) = Len(l) - 1
    BY <2>2, HeadTailProperties
  <2>4. sub.proto \in Proto /\ sub.inst \in Nat
    BY <2>3 DEF Sub
  <2>5. e \in Mail /\ e.kind = "notification"
    BY <2>4 DEF Mail, Event, Token
  <2> HIDE DEF e
  <2>6. \A q \in Proto : e \in GoodEvents(q)'
    BY <2>5 DEF GoodEvents
  <2>7. e \in GoodEvents(sub.proto)'
    BY <2>4, <2>6
  <2>8. MailMoves
    BY <1>1, <2>1, <2>4, <2>7, EnqueuedMoves
  <2>10. CallOK(c)'
    <3>1. CASE Len(l) = 1
      BY <3>1 DEF CallOK, NoCall
    <3>2. CASE Len(l) # 1
      <4>1. Len(Tail(l)) # 0
        BY <2>3, <3>2
      <4>2. Tail(l) # <<>>
        BY <2>3, <4>1, EmptySeq
      <4>3. c = [op |-> "publish", left |-> Tail(l)]
        BY <3>2
      <4> QED  BY <2>3, <4>2, <4>3 DEF CallOK
    <3> QED  BY <3>1, <3>2
  <2>11. \A t \in held' \cup timeouts' : t \in held \cup timeouts \/ Good(t)'
    BY <2>1
  <2> HIDE DEF c
  <2>13. CallTypes' /\ TokenInv'
    BY <1>1, <2>1, <2>10, <2>11, TokenChange
  <2> QED  BY <1>1, <2>1, <2>8, <2>13 DEF Delivers, RouteTypes, NoStaleClosure
<1> QED  BY <1>2, <1>3 DEF returns

\* The rest of what a handler asks for.
LEMMA AskDelivers ==
  ASSUME Keeps, NEW p \in Proto, asks(p)
  PROVE  Delivers
<1>1. /\ MailInv /\ MailTypes /\ CallTypes /\ RouteTypes /\ NoStaleClosure /\ TokenInv
      /\ \A t : Good(t) => Good(t)'
  BY KeepsParts
<1>2. CASE SendRequest(p) \/ CallbackSends(p)
  BY <1>2, SendDelivers DEF SendRequest, CallbackSends
<1>3. CASE PublishNotification(p)
  <2>1. PICK l : l = fanout
    OBVIOUS
  <2> DEFINE c == [op |-> "publish", left |-> l]
  <2>2. /\ l # <<>> /\ call' = [call EXCEPT ![p] = c]
        /\ UNCHANGED <<mail, requestRoutes, fanout, held, timeouts, stale>>
    BY <1>3, <2>1 DEF PublishNotification
  <2>3. CallOK(c)'
    BY <1>1, <2>1, <2>2 DEF CallOK, RouteTypes
  <2> HIDE DEF c
  <2>4. \A t \in held' \cup timeouts' : t \in held \cup timeouts \/ Good(t)'
    BY <2>2
  <2>5. CallTypes' /\ TokenInv'
    BY <1>1, <2>2, <2>3, <2>4, TokenChange
  <2>6. MailMoves
    BY <1>1, <2>2, SameMoves
  <2> QED  BY <1>1, <2>2, <2>5, <2>6 DEF Delivers, RouteTypes, NoStaleClosure
<1>4. CASE Unsubscribe(p)
  <2>1. /\ fanout' = removeSub(fanout, p)
        /\ UNCHANGED <<mail, requestRoutes, call, held, timeouts, stale>>
    BY <1>4 DEF Unsubscribe
  <2>2. CallTypes' /\ TokenInv' /\ MailMoves
    BY <1>1, <2>1, SameTokens, SameMoves
  <2>3. fanout' \in Seq(Sub)
    BY <1>1, <2>1, RemoveResult DEF RouteTypes
  <2> QED  BY <1>1, <2>1, <2>2, <2>3 DEF Delivers, RouteTypes, NoStaleClosure
<1>5. ASSUME NEW t \in TimerId, After(p, t) \/ Every(p, t) \/ Cancel(p, t)
      PROVE  Delivers
  <2>1. UNCHANGED <<mail, requestRoutes, fanout, call, held, timeouts, stale>>
    BY <1>5 DEF After, Every, Cancel, Schedule, Cancels, notTimers, ipcVars
  <2>2. CallTypes' /\ TokenInv' /\ MailMoves
    BY <1>1, <2>1, SameTokens, SameMoves
  <2> QED  BY <1>1, <2>1, <2>2 DEF Delivers, RouteTypes, NoStaleClosure
<1> QED  BY <1>2, <1>3, <1>4, <1>5 DEF asks

\* A token is answered, by its timeout or by the responder.
LEMMA AnswerDelivers ==
  ASSUME Keeps, NEW t, \/ t \in timeouts /\ RequestTimesOut(t)
                       \/ t \in held /\ Responds(t)
  PROVE  Delivers
<1>1. /\ MailInv /\ MailTypes /\ CallTypes /\ RouteTypes /\ NoStaleClosure /\ TokenInv
      /\ \A u : Good(u) => Good(u)'
      /\ \A u : Good(u)' =>
              /\ u.from \in Proto
              /\ Event("reply", u, 0) \in GoodEvents(u.from)'
  BY KeepsParts
<1>2. Good(t)'
  BY <1>1 DEF TokenInv
<1>3. t.from \in Proto /\ Event("reply", t, 0) \in GoodEvents(t.from)'
  BY <1>1, <1>2
<1>4. /\ Enqueued(t.from, Event("reply", t, 0))
      /\ held' \subseteq held /\ timeouts' \subseteq timeouts
      /\ UNCHANGED <<call, requestRoutes, fanout, stale>>
  BY DEF RequestTimesOut, Responds, Reply
<1>5. MailMoves
  BY <1>1, <1>3, <1>4, EnqueuedMoves
<1>6. CallTypes' /\ TokenInv'
  BY <1>3, <1>4, SameTokens
<1> QED  BY <1>1, <1>4, <1>5, <1>6 DEF Delivers, RouteTypes, NoStaleClosure

\* The loop takes an event.
LEMMA DispatchDelivers ==
  ASSUME Keeps, NEW p \in Proto, dispatch(p) \/ HandleRequestPanics(p)
  PROVE  Delivers
<1>0. PICK e : e = Head(mail[p])
  OBVIOUS
<1>1. /\ Types /\ MailInv /\ MailTypes /\ CallTypes /\ RouteTypes /\ NoStaleClosure
      /\ TokenInv /\ TimerInv
      /\ \A t : Good(t) => Good(t)'
      /\ \A t : Good(t)' =>
              /\ t.from \in Proto
              /\ Event("reply", t, 0) \in GoodEvents(t.from)'
  BY KeepsParts
<1>2. ASSUME NEW k, Takes(p, k)
      PROVE  mail[p] # <<>> /\ e.kind = k /\ e \in GoodEvents(p)
  BY <1>0, <1>1, <1>2, HeadIsGood DEF Takes
<1>3. CASE HandleRequestLater(p)
  <2> DEFINE t == Token(e.from, e.id, e.sender)
  <2>1. /\ Takes(p, "request") /\ Drop(p) /\ held' = held \cup {t} /\ Runs(p, e)
        /\ UNCHANGED <<call, requestRoutes, fanout, timeouts>>
    BY <1>0, <1>3 DEF HandleRequestLater
  <2>2. Good(t)'
    BY <1>1, <1>2, <2>1 DEF GoodEvents
  <2> HIDE DEF t
  <2>3. \A u \in held' \cup timeouts' : u \in held \cup timeouts \/ Good(u)'
    BY <2>1, <2>2
  <2>4. CallOK(NoCall)'
    BY DEF CallOK, NoCall
  <2>5. CallTypes' /\ TokenInv'
    <3> DEFINE c == NoCall
    <3>1. CallOK(c)' /\ call' = call
      BY <2>1, <2>4
    <3> HIDE DEF c
    <3> QED  BY <1>1, <2>3, <3>1, TokenChange
  <2>6. MailMoves
    BY <1>1, <1>2, <2>1, DropMoves
  <2>7. NoStaleClosure'
    BY <1>1, <1>2, <2>1 DEF NoStaleClosure, Runs
  <2> QED  BY <1>1, <2>1, <2>5, <2>6, <2>7 DEF Delivers, RouteTypes
<1>4. CASE HandleRequest(p) \/ HandleRequestPanics(p)
  <2> DEFINE t == Token(e.from, e.id, e.sender)
             r == Event("reply", t, 0)
  <2>1. /\ Takes(p, "request") /\ Exchange(p, e.from, r) /\ Runs(p, e)
        /\ UNCHANGED <<call, requestRoutes, fanout, timeouts, held>>
    BY <1>0, <1>4 DEF HandleRequest, HandleRequestPanics, ipcVars
  <2>2. Good(t)'
    BY <1>1, <1>2, <2>1 DEF GoodEvents
  <2>3. t.from = e.from
    BY DEF Token
  <2> HIDE DEF t
  <2>4. e.from \in Proto /\ r \in GoodEvents(e.from)'
    BY <1>1, <2>2, <2>3
  <2> HIDE DEF r
  <2>5. MailMoves
    BY <1>1, <1>2, <2>1, <2>4, ExchangeMoves
  <2>6. CallTypes' /\ TokenInv'
    BY <2>1, <2>4, SameTokens
  <2>7. NoStaleClosure'
    BY <1>1, <1>2, <2>1 DEF NoStaleClosure, Runs
  <2> QED  BY <1>1, <2>1, <2>5, <2>6, <2>7 DEF Delivers, RouteTypes
<1>5. CASE deliverReply(p)
  <2>1. /\ Takes(p, "reply") /\ Drop(p)
        /\ UNCHANGED <<call, requestRoutes, fanout, timeouts, held>>
    BY <1>5 DEF deliverReply
  <2>2. stale' = stale
    <3>1. RequestTypes
      BY <1>1 DEF Types, RequestTypes
    <3> QED  BY <1>5, <3>1, DeliverKeeps DEF Keeps
  <2>3. MailMoves
    BY <1>1, <1>2, <2>1, DropMoves
  <2>4. CallTypes' /\ TokenInv'
    BY <2>1, SameTokens
  <2> QED  BY <1>1, <2>1, <2>2, <2>3, <2>4 DEF Delivers, RouteTypes, NoStaleClosure
<1>6. CASE DispatchTimer(p)
  <2> DEFINE kind == IF timers[e.id].kind = "every" THEN "every" ELSE "once"
  <2>1. /\ Takes(p, "timer") /\ Drop(p)
        /\ stale' = IF timers[e.id].cancelled \/ e.inst = inst[p]
                    THEN stale ELSE stale \cup {kind}
        /\ UNCHANGED <<call, requestRoutes, fanout, timeouts, held>>
    BY <1>0, <1>6 DEF DispatchTimer, ipcVars
  <2>2. GoodFire(p, e)
    BY <1>2, <2>1 DEF GoodEvents
  <2>3. timers[e.id].kind = "every" /\ ~timers[e.id].cancelled => e.inst = inst[p]
    BY <1>1, <2>2 DEF GoodFire, TimerInv
  <2>4. NoStaleClosure'
    BY <1>1, <2>1, <2>3 DEF NoStaleClosure
  <2>5. MailMoves
    BY <1>1, <1>2, <2>1, DropMoves
  <2>6. CallTypes' /\ TokenInv'
    BY <2>1, SameTokens
  <2> QED  BY <1>1, <2>1, <2>4, <2>5, <2>6 DEF Delivers, RouteTypes
<1>7. CASE DispatchNotification(p)
  <2>1. /\ Takes(p, "notification") /\ Drop(p) /\ Runs(p, e)
        /\ UNCHANGED <<call, requestRoutes, fanout, timeouts, held>>
    BY <1>0, <1>7 DEF DispatchNotification, ipcVars
  <2>2. MailMoves
    BY <1>1, <1>2, <2>1, DropMoves
  <2>3. CallTypes' /\ TokenInv'
    BY <2>1, SameTokens
  <2>4. NoStaleClosure'
    BY <1>1, <1>2, <2>1 DEF NoStaleClosure, Runs
  <2> QED  BY <1>1, <2>1, <2>2, <2>3, <2>4 DEF Delivers, RouteTypes
<1> QED  BY <1>3, <1>4, <1>5, <1>6, <1>7 DEF dispatch

\* A timer fires or is stopped.
LEMMA ClockDelivers ==
  ASSUME Keeps, NEW t \in TimerId, clock(t) \/ stops(t)
  PROVE  Delivers
<1>1. /\ MailInv /\ MailTypes /\ CallTypes /\ RouteTypes /\ NoStaleClosure /\ TimerInv
      /\ KeepsTimers
  BY KeepsParts DEF Keeps
<1>2. UNCHANGED <<call, requestRoutes, fanout, held, timeouts, stale>>
  BY DEF clock, stops, notTimers, ipcVars
<1>3. CallTypes' /\ TokenInv'
  BY <1>2, SameTokens
<1>4. MailMoves
  <2>1. CASE mail' = mail
    BY <1>1, <2>1, SameMoves
  <2>2. ASSUME NEW c \in callbacks[t], CallbackPushes(t, c)
        PROVE  MailMoves
    <3>1. timers[t].kind # "none" /\ timers[t].owner \in Proto
      BY <1>1, <2>2 DEF TimerInv
    <3>2. PICK p, e : p = timers[t].owner /\ e = Fire(t)
      OBVIOUS
    <3>3. Enqueued(p, e)
      BY <2>2, <3>2 DEF CallbackPushes
    <3>4. t \in Nat /\ timers[t].inst \in Nat
      <4>1. timers[t] \in Handle
        BY DEF Keeps, IPCInv, TimerTypes
      <4> QED  BY <4>1, TimerAssumption DEF Handle
    <3>5. /\ e \in Mail /\ e.kind = "timer" /\ e.id = t /\ e.inst = timers[t].inst
      BY <3>1, <3>2, <3>4 DEF Fire, Mail
    <3>6. GoodFire(p, e)
      BY <3>1, <3>2, <3>5 DEF GoodFire
    <3>7. e \in GoodEvents(p)
      BY <3>5, <3>6 DEF GoodEvents
    <3>8. e \in GoodEvents(p)'
      BY <3>7 DEF Keeps
    <3> QED  BY <1>1, <3>1, <3>2, <3>3, <3>8, EnqueuedMoves
  <2> QED
    BY <2>1, <2>2 DEF clock, stops, ClockFires, CancelStops, CallbackStep, CallbackStarts,
                      CallbackRearms, CallbackSetsStop, CallbackRechecks
<1> QED  BY <1>1, <1>2, <1>3, <1>4 DEF Delivers, RouteTypes, NoStaleClosure

\* The supervisor cleans up and rebuilds.
LEMMA SuperviseDelivers ==
  ASSUME Keeps, NEW p \in Proto, supervises(p) \/ GivesUp(p) \/ HandlerPanics(p)
  PROVE  Delivers
<1>1. /\ Types /\ MailInv /\ MailTypes /\ CallTypes /\ RouteTypes /\ NoStaleClosure
  BY KeepsParts
<1>2. UNCHANGED <<call, held, timeouts, stale>>
  BY DEF supervises, GivesUp, HandlerPanics, Quarantine, CancelTimers, failPendingRestarting,
         RemoveOwner, Rebuild, Lift, ipcVars
<1>3. CallTypes' /\ TokenInv'
  BY <1>2, SameTokens
<1>4. MailMoves
  <2>1. mail' = mail \/ mail' = [mail EXCEPT ![p] = <<>>]
    BY DEF supervises, GivesUp, HandlerPanics, Quarantine, CancelTimers, cancelAllTimers,
           Cancels, failPendingRestarting, RemoveOwner, Rebuild, resetForRestart, Lift
  <2> QED  BY <1>1, <2>1, SameMoves, EmptyMoves
<1>5. RouteTypes'
  <2>1. CASE RemoveOwner(p)
    BY <1>1, <2>1, RemoveResult DEF RemoveOwner, RouteTypes
  <2>2. CASE Rebuild(p)
    <3>1. inst[p] + 1 \in Nat
      BY <1>1 DEF Types
    <3>2. requestRoutes' \subseteq Sub
      BY <1>1, <2>2, <3>1 DEF Rebuild, RegisterRequestRoute, RouteTypes, Sub
    <3>3. fanout' \in Seq(Sub)
      BY <1>1, <2>2, <3>1, SubscribeResult DEF Rebuild, RouteTypes
    <3> QED  BY <3>2, <3>3 DEF RouteTypes
  <2>3. UNCHANGED <<requestRoutes, fanout>> \/ RemoveOwner(p) \/ Rebuild(p)
    BY DEF supervises, GivesUp, HandlerPanics, Quarantine, CancelTimers,
           failPendingRestarting, Lift, ipcVars
  <2> QED  BY <1>1, <2>1, <2>2, <2>3 DEF RouteTypes
<1> QED  BY <1>1, <1>2, <1>3, <1>4, <1>5 DEF Delivers, NoStaleClosure
------------------------------------------------------------------------------
(* The invariant of the specification. *)

\* Nothing happens.
LEMMA StutterDelivers ==
  ASSUME Keeps, UNCHANGED vars
  PROVE  Delivers
<1>1. /\ MailInv /\ MailTypes /\ CallTypes /\ RouteTypes /\ NoStaleClosure
  BY KeepsParts
<1>2. UNCHANGED <<mail, call, requestRoutes, fanout, held, timeouts, stale>>
  BY DEF vars, ipcVars
<1>3. CallTypes' /\ TokenInv' /\ MailMoves
  BY <1>1, <1>2, SameTokens, SameMoves
<1> QED  BY <1>1, <1>2, <1>3 DEF Delivers, RouteTypes, NoStaleClosure

\* Every step keeps the invariant.
LEMMA IPCStep ==
  ASSUME IPCInv, [Next]_vars
  PROVE  IPCInv'
<1>1. TimerTypes' /\ TimerInv' /\ KeepsTimers
  BY TimersStep
<1>2. RequestTypes' /\ PendingInv' /\ KeepsRequests
  BY RequestsStep
<1>3. ControlTypes' /\ SupervisorInv'
  BY SupervisorStep
<1>4. Keeps
  <2>1. /\ nextRequestID \in [Proto -> 0 .. MaxRequests]
        /\ nextRequestID' \in [Proto -> 0 .. MaxRequests]
    BY <1>2 DEF IPCInv, Types, RequestTypes
  <2>2. \A t : Good(t) => Good(t)'
    BY <1>2, <2>1, GoodKept
  <2>3. \A p : GoodEvents(p) \subseteq GoodEvents(p)'
    BY <1>1, <2>2, EventsKept
  <2> QED  BY <1>1, <2>1, <2>2, <2>3 DEF Keeps
<1>5. Delivers
  <2>1. CASE UNCHANGED vars
    BY <1>4, <2>1, StutterDelivers
  <2>2. ASSUME NEW p \in Proto,
               \/ asks(p) \/ returns(p) \/ dispatch(p) \/ HandleRequestPanics(p)
               \/ HandlerPanics(p) \/ supervises(p) \/ GivesUp(p)
        PROVE  Delivers
    BY <1>4, <2>2, AskDelivers, ReturnDelivers, DispatchDelivers, SuperviseDelivers
  <2>3. ASSUME NEW t \in TimerId, clock(t) \/ stops(t)  PROVE Delivers
    BY <1>4, <2>3, ClockDelivers
  <2>4. ASSUME NEW t, \/ t \in timeouts /\ RequestTimesOut(t)
                      \/ t \in held /\ Responds(t)
        PROVE  Delivers
    BY <1>4, <2>4, AnswerDelivers
  <2> QED  BY <2>1, <2>2, <2>3, <2>4 DEF Next
<1>6. Types'
  BY <1>2, <1>3, <1>5
     DEF Types, RequestTypes, ControlTypes, Delivers, CallTypes, RouteTypes, MailMoves, MailTypes
<1>7. MailInv'
  BY <1>4, <1>5, MailKept DEF Keeps, Delivers
<1> QED  BY <1>1, <1>2, <1>3, <1>5, <1>6, <1>7 DEF IPCInv, Delivers

\* It holds when the runtime has started.
LEMMA IPCInit == Init => IPCInv
<1> SUFFICES ASSUME Init  PROVE IPCInv
  OBVIOUS
<1>1. Handlers \subseteq Proto /\ Subscribers \subseteq Proto /\ MaxRequests \in Nat
  BY IPCAssumption
<1>2. \A p \in Proto : inst[p] = 1
  BY DEF Init
<1>3. RouteTypes
  <2>1. requestRoutes \subseteq Sub
    BY <1>1 DEF Init, Sub
  <2>2. Cardinality(Subscribers) \in Nat
    BY <1>1, TimerAssumption, FS_Subset, FS_CardinalityType
  <2>3. {Entry(p) : p \in Subscribers} \subseteq Sub
    BY <1>1, <1>2 DEF Entry, Sub
  <2>4. fanout \in [1 .. Cardinality(Subscribers) -> {Entry(p) : p \in Subscribers}]
    BY DEF Init
  <2>5. fanout \in [1 .. Cardinality(Subscribers) -> Sub]
    BY <2>3, <2>4
  <2>6. fanout \in Seq(Sub)
    BY <2>2, <2>5, IsASeq
  <2> QED  BY <2>1, <2>6 DEF RouteTypes
<1>4. Types
  <2>1. /\ inst \in [Proto -> Nat \ {0}] /\ loop \in [Proto -> {"up", "exited", "down"}]
        /\ supervisor \in [Proto -> {"idle", "timers", "requests", "failed", "backoff",
                                     "started", "stopped"}]
        /\ call = [p \in Proto |-> call[p]] /\ mail = [p \in Proto |-> mail[p]]
        /\ pending \in [Proto -> SUBSET Pending]
    BY DEF Init
  <2>2. quarantined \in [Proto -> BOOLEAN]
    BY DEF Init
  <2>3. /\ nextRequestID \in [Proto -> 0 .. MaxRequests]
        /\ answers \in [Proto -> [1 .. MaxRequests -> {0, 1}]]
    BY <1>1 DEF Init
  <2> QED  BY <1>3, <2>1, <2>2, <2>3 DEF Types, RouteTypes
<1>5. TimerTypes /\ TimerInv
  <2>1. NoTimer \in Handle /\ NoTimer.kind = "none"
    BY DEF NoTimer, Handle
  <2>2. /\ timers = [t \in TimerId |-> NoTimer] /\ callbacks = [t \in TimerId |-> {}]
        /\ cancelling = {}
    BY DEF Init, TimersInit
  <2>3. TimerTypes
    BY <2>1, <2>2 DEF TimerTypes
  <2>4. TimerInv
    BY <2>1, <2>2 DEF TimerInv
  <2> QED  BY <2>3, <2>4
<1>6. MailInv
  <2>1. \A p \in Proto : mail[p] = <<>>
    BY DEF Init
  <2> QED  BY <2>1, EmptySeq DEF MailInv
<1>7. TokenInv
  <2>1. held = {} /\ timeouts = {} /\ \A p \in Proto : call[p] = NoCall
    BY DEF Init
  <2> QED  BY <2>1 DEF TokenInv, CallOK, NoCall
<1>8. PendingInv
  <2>1. \A p \in Proto : pending[p] = {} /\ \A n \in 1 .. MaxRequests : answers[p][n] = 0
    BY DEF Init
  <2> QED  BY <2>1 DEF PendingInv
<1>9. SupervisorInv
  <2>1. \A p \in Proto : supervisor[p] = "idle"
    BY DEF Init
  <2> QED  BY <2>1 DEF SupervisorInv
<1>10. NoStaleClosure
  BY DEF Init, NoStaleClosure
<1> QED  BY <1>4, <1>5, <1>6, <1>7, <1>8, <1>9, <1>10 DEF IPCInv

\* The invariant holds throughout.
LEMMA IPCAlways == Spec => []IPCInv
<1>1. IPCInv /\ [Next]_vars => IPCInv'
  BY IPCStep
<1> QED  BY IPCInit, <1>1, PTL DEF Spec

\* RequestsAnsweredOnce, for any protocols, requests, timers, panics and
\* restarts: the callback of a request runs at most once, and no answer, of
\* whatever origin, meets the entry of a request that is not its own
\* (deliverReply, failPendingRestarting, resetForRestart).
THEOREM AnsweredOnce == Spec => []RequestsAnsweredOnce
<1>1. IPCInv => RequestsAnsweredOnce
  <2> SUFFICES ASSUME IPCInv, NEW p \in Proto
               PROVE  /\ \A n \in 1 .. MaxRequests : answers[p][n] <= 1
                      /\ \A r \in pending[p], t \in TokensOf(p) : t.id = r.id => t.sender = r.inst
    BY DEF RequestsAnsweredOnce
  <2>1. \A n \in 1 .. MaxRequests : answers[p][n] <= 1
    <3>1. answers[p] \in [1 .. MaxRequests -> {0, 1}]
      BY DEF IPCInv, Types
    <3>2. \A n \in 1 .. MaxRequests : answers[p][n] \in {0, 1}
      BY <3>1
    <3>3. \A k \in {0, 1} : k <= 1
      OBVIOUS
    <3> QED  BY <3>2, <3>3
  <2>2. ASSUME NEW r \in pending[p], NEW t \in TokensOf(p), t.id = r.id
        PROVE  t.sender = r.inst
    <3>1. Good(t) /\ t.from = p
      <4>1. CASE t \in held \cup timeouts /\ t.from = p
        BY <4>1 DEF IPCInv, TokenInv
      <4>2. ASSUME NEW n \in DOMAIN mail[p], mail[p][n].kind = "reply",
                   t = Token(p, mail[p][n].id, mail[p][n].sender)
            PROVE  Good(t) /\ t.from = p
        <5>1. mail[p] \in Seq(GoodEvents(p))
          BY DEF IPCInv, MailInv
        <5>2. mail[p][n] \in GoodEvents(p)
          BY <5>1, <4>2, ElementOfSeq, LenProperties
        <5>3. Good(Token(p, mail[p][n].id, mail[p][n].sender))
          BY <4>2, <5>2 DEF GoodEvents
        <5>4. t.from = p
          BY <4>2 DEF Token
        <5> QED  BY <4>2, <5>3, <5>4 DEF Good
      <4>3. \/ t \in held \cup timeouts /\ t.from = p
            \/ \E n \in DOMAIN mail[p] :
                 /\ mail[p][n].kind = "reply"
                 /\ t = Token(p, mail[p][n].id, mail[p][n].sender)
        BY DEF TokensOf
      <4> QED  BY <4>1, <4>2, <4>3
    <3> QED  BY <2>2, <3>1 DEF Good
  <2> QED  BY <2>1, <2>2
<1> QED  BY IPCAlways, <1>1, PTL

\* NoStaleClosure: no reply callback and no function of a periodic timer runs
\* on the loop of an instance built after its own, whatever the restart raced
\* with (cancelAllTimers before failPendingRestarting before resetForRestart).
THEOREM ClosuresAreFresh == Spec => []NoStaleClosure
<1>1. IPCInv => NoStaleClosure
  BY DEF IPCInv
<1> QED  BY IPCAlways, <1>1, PTL
------------------------------------------------------------------------------
(* Periodic timers. *)

\* The place from which a periodic timer is armed again: a clock timer, or a
\* callback that is not past arming.  Callbacks past that do not count, and a
\* cancel stops clock timers of cancelled handles only.
Going(t) ==
    \/ timers[t].clock # {}
    \/ \E c \in callbacks[t] : c.at \in {"start", "push", "rearm"}

GoingInv ==
    /\ \A t \in TimerId : timers[t].kind = "every" /\ ~timers[t].cancelled => Going(t)
    /\ \A t \in cancelling : timers[t].cancelled

\* A step of one handle keeps the others' going.
LEMMA GoingChange ==
  ASSUME TimerTypes, TimerInv, GoingInv, NEW t \in TimerId, NEW h,
         timers' = [timers EXCEPT ![t] = h],
         h.cancelled = timers[t].cancelled,
         \A s \in TimerId \ {t} : callbacks'[s] = callbacks[s],
         cancelling' \subseteq cancelling,
         h.kind = "every" /\ ~h.cancelled =>
            h.clock # {} \/ \E c \in callbacks'[t] : c.at \in {"start", "push", "rearm"}
  PROVE  GoingInv'
<1>1. timers'[t] = h /\ \A s \in TimerId \ {t} : timers'[s] = timers[s]
  BY DEF TimerTypes
<1>2. \A s \in TimerId : timers'[s].kind = "every" /\ ~timers'[s].cancelled => Going(s)'
  BY <1>1 DEF GoingInv, Going
<1>3. \A s \in cancelling' : timers'[s].cancelled
  <2> SUFFICES ASSUME NEW s \in cancelling'  PROVE timers'[s].cancelled
    OBVIOUS
  <2>1. s \in TimerId /\ timers[s].cancelled
    BY DEF GoingInv, TimerInv
  <2> QED  BY <1>1, <2>1
<1> QED  BY <1>2, <1>3 DEF GoingInv

\* A callback hands on: from the clock to its start, from there to the push, to
\* the next clock timer.
LEMMA ClockGoes ==
  ASSUME TimerTypes, TimerInv, GoingInv, NEW t \in TimerId,
         ClockFires(t) \/ CallbackStep(t)
  PROVE  GoingInv'
<1> DEFINE h == timers[t]
           Before == {"start", "push", "rearm"}
<1>1. /\ timers \in [TimerId -> Handle] /\ callbacks \in [TimerId -> SUBSET Under]
      /\ h \in Handle
  BY DEF TimerTypes
<1>2. h.clock \subseteq Nat /\ h.arms \in Nat
  BY <1>1 DEF Handle
<1>3. ASSUME h.kind = "every" /\ ~h.cancelled  PROVE Going(t)
  BY <1>3 DEF GoingInv
<1>4. CASE ClockFires(t)
  <2>1. PICK g \in h.clock :
           /\ timers' = [timers EXCEPT ![t].clock = @ \ {g}]
           /\ callbacks' = [callbacks EXCEPT ![t] = @ \cup {Callback(g, "start")}]
    BY <1>4 DEF ClockFires
  <2> DEFINE k == [h EXCEPT !.clock = @ \ {g}]
  <2>2. timers' = [timers EXCEPT ![t] = k] /\ k.cancelled = h.cancelled
    BY <1>1, <2>1 DEF Handle
  <2>3. Callback(g, "start") \in callbacks'[t] /\ Callback(g, "start").at = "start"
    BY <1>1, <2>1 DEF Callback
  <2>4. \A s \in TimerId \ {t} : callbacks'[s] = callbacks[s]
    BY <1>1, <2>1
  <2>5. cancelling' \subseteq cancelling
    BY <1>4 DEF ClockFires
  <2> HIDE DEF k
  <2> QED  BY <2>2, <2>3, <2>4, <2>5, GoingChange
<1>5. CASE CallbackStep(t)
  <2>1. PICK c \in callbacks[t] :
          \/ CallbackStarts(t, c) \/ CallbackPushes(t, c) \/ CallbackRearms(t, c)
          \/ CallbackSetsStop(t, c) \/ CallbackRechecks(t, c)
    BY <1>5 DEF CallbackStep
  <2>2. c \in Under
    BY <1>1
  <2>3. cancelling' \subseteq cancelling
    BY <2>1 DEF CallbackStarts, CallbackPushes, CallbackRearms, CallbackSetsStop,
                CallbackRechecks
  <2>4. ASSUME NEW d, Goes(t, c, d)
        PROVE  /\ d \in callbacks'[t]
               /\ \A b \in callbacks[t] : b # c => b \in callbacks'[t]
               /\ \A s \in TimerId \ {t} : callbacks'[s] = callbacks[s]
    BY <1>1, <2>4 DEF Goes
  <2>5. ASSUME Done(t, c)
        PROVE  /\ \A b \in callbacks[t] : b # c => b \in callbacks'[t]
               /\ \A s \in TimerId \ {t} : callbacks'[s] = callbacks[s]
    BY <1>1, <2>5 DEF Done
  <2>6. CASE CallbackStarts(t, c)
    <3> DEFINE k == [h EXCEPT !.tracked = @ /\ h.kind = "every"]
    <3>1. timers' = [timers EXCEPT ![t] = k] /\ k.cancelled = h.cancelled
      BY <1>1, <2>6 DEF CallbackStarts, Handle
    <3>2. Callback(c.clock, "push").at = "push"
      BY DEF Callback
    <3>3. /\ \A s \in TimerId \ {t} : callbacks'[s] = callbacks[s]
          /\ ~h.cancelled => Callback(c.clock, "push") \in callbacks'[t]
      BY <2>4, <2>5, <2>6 DEF CallbackStarts
    <3> HIDE DEF k
    <3> QED  BY <2>3, <3>1, <3>2, <3>3, GoingChange
  <2>7. CASE CallbackPushes(t, c)
    <3>1. timers' = [timers EXCEPT ![t] = h]
      BY <1>1, <2>7 DEF CallbackPushes
    <3>2. Callback(c.clock, "rearm").at = "rearm"
      BY DEF Callback
    <3>3. /\ \A s \in TimerId \ {t} : callbacks'[s] = callbacks[s]
          /\ h.kind = "every" => Callback(c.clock, "rearm") \in callbacks'[t]
      BY <2>4, <2>5, <2>7 DEF CallbackPushes
    <3> QED  BY <2>3, <3>1, <3>2, <3>3, GoingChange
  <2>8. CASE CallbackRearms(t, c)
    <3> DEFINE g == h.arms + 1
               k == [h EXCEPT !.clock = @ \cup {g}, !.arms = g]
    <3>1. CASE h.cancelled
      <4>1. timers' = [timers EXCEPT ![t] = h] /\ Done(t, c)
        BY <1>1, <2>8, <3>1 DEF CallbackRearms
      <4> QED  BY <2>3, <2>5, <3>1, <4>1, GoingChange
    <3>2. CASE ~h.cancelled
      <4>1. /\ timers' = [timers EXCEPT ![t].clock = @ \cup {g}, ![t].arms = g]
            /\ Goes(t, c, Callback(g, "setStop"))
        BY <2>8, <3>2 DEF CallbackRearms
      <4>2. timers' = [timers EXCEPT ![t] = k]
        BY <1>1, <4>1
      <4>3. k.cancelled = h.cancelled /\ g \in k.clock
        BY <1>1 DEF Handle
      <4>4. \A s \in TimerId \ {t} : callbacks'[s] = callbacks[s]
        BY <2>4, <4>1
      <4> HIDE DEF k
      <4> QED  BY <2>3, <4>2, <4>3, <4>4, GoingChange
    <3> QED  BY <3>1, <3>2
  <2>9. ASSUME NEW k, timers' = [timers EXCEPT ![t] = k],
               k.kind = h.kind, k.cancelled = h.cancelled, ~h.cancelled => k.clock = h.clock,
               c.at \notin Before,
               \A b \in callbacks[t] : b # c => b \in callbacks'[t],
               \A s \in TimerId \ {t} : callbacks'[s] = callbacks[s]
        PROVE  GoingInv'
    <3>1. ASSUME k.kind = "every" /\ ~k.cancelled
          PROVE  k.clock # {} \/ \E b \in callbacks'[t] : b.at \in Before
      <4>1. Going(t)
        BY <1>3, <2>9, <3>1
      <4> QED  BY <2>9, <3>1, <4>1 DEF Going
    <3> QED  BY <2>3, <2>9, <3>1, GoingChange
  <2>10. CASE CallbackSetsStop(t, c)
    <3> DEFINE k == [h EXCEPT !.stop = c.clock]
    <3>1. timers' = [timers EXCEPT ![t] = k]
      BY <1>1, <2>10 DEF CallbackSetsStop
    <3>2. k.kind = h.kind /\ k.cancelled = h.cancelled /\ k.clock = h.clock
      BY <1>1 DEF Handle
    <3>3. c.at \notin Before /\ Goes(t, c, Callback(c.clock, "recheck"))
      BY <2>10 DEF CallbackSetsStop
    <3> HIDE DEF k
    <3> QED  BY <2>4, <2>9, <3>1, <3>2, <3>3
  <2>11. CASE CallbackRechecks(t, c)
    <3> DEFINE C == IF h.cancelled THEN h.clock \ {c.clock} ELSE h.clock
               k == [h EXCEPT !.clock = C]
    <3>1. timers' = [timers EXCEPT ![t] = k]
      BY <1>1, <2>11 DEF CallbackRechecks
    <3>2. ~h.cancelled => C = h.clock
      OBVIOUS
    <3> HIDE DEF C
    <3>3. k.kind = h.kind /\ k.cancelled = h.cancelled /\ k.clock = C
      BY <1>1 DEF Handle
    <3>4. c.at \notin Before /\ Done(t, c)
      BY <2>11 DEF CallbackRechecks
    <3> HIDE DEF k
    <3> QED  BY <2>5, <2>9, <3>1, <3>2, <3>3, <3>4
  <2> QED  BY <2>1, <2>6, <2>7, <2>8, <2>10, <2>11
<1> QED  BY <1>4, <1>5

LEMMA GoingStep ==
  ASSUME IPCInv, GoingInv, [Next]_vars
  PROVE  GoingInv'
<1>1. Types /\ TimerTypes /\ TimerInv /\ timers \in [TimerId -> Handle]
  BY DEF IPCInv, TimerTypes
<1>2. CASE UNCHANGED <<inst, timerVars>>
  BY <1>2 DEF timerVars, GoingInv, Going
<1>3. ASSUME NEW T, T \subseteq TimerId, Cancels(T)  PROVE GoingInv'
  <2>1. /\ timers' = [t \in TimerId |-> IF t \in T
                        THEN [timers[t] EXCEPT !.cancelled = TRUE, !.tracked = FALSE]
                        ELSE timers[t]]
        /\ callbacks' = callbacks
        /\ cancelling' = cancelling \cup {t \in T : ~timers[t].cancelled}
    BY <1>3 DEF Cancels
  <2>2. \A t \in TimerId \ T : timers'[t] = timers[t]
    BY <2>1
  <2>3. ASSUME NEW t \in T  PROVE timers'[t].cancelled
    <3>1. timers'[t] = [timers[t] EXCEPT !.cancelled = TRUE, !.tracked = FALSE]
      BY <1>3, <2>1
    <3>2. timers[t] \in Handle
      BY <1>1, <1>3
    <3> QED  BY <3>1, <3>2 DEF Handle
  <2>4. \A t \in TimerId : timers'[t].kind = "every" /\ ~timers'[t].cancelled => Going(t)'
    BY <2>1, <2>2, <2>3 DEF GoingInv, Going
  <2>5. \A t \in cancelling' : timers'[t].cancelled
    BY <1>1, <1>3, <2>1, <2>2, <2>3 DEF GoingInv, TimerInv
  <2> QED  BY <2>4, <2>5 DEF GoingInv
<1>4. ASSUME NEW p \in Proto, NEW t \in TimerId, After(p, t) \/ Every(p, t) \/ Cancel(p, t)
      PROVE  GoingInv'
  <2>1. ASSUME NEW k, Schedule(p, t, k)  PROVE GoingInv'
    <3> DEFINE h == [kind |-> k, owner |-> p, inst |-> inst[p], tracked |-> TRUE,
                     cancelled |-> FALSE, clock |-> {1}, arms |-> 1, stop |-> 1]
    <3>1. /\ timers' = [timers EXCEPT ![t] = h] /\ callbacks' = callbacks
          /\ cancelling' = cancelling /\ timers[t] = NoTimer
      BY <2>1 DEF Schedule
    <3>2. h.clock # {} /\ h.cancelled = timers[t].cancelled
      BY <3>1 DEF NoTimer
    <3> HIDE DEF h
    <3> QED  BY <1>1, <3>1, <3>2, GoingChange
  <2>2. CASE Cancel(p, t)
    <3>1. Cancels({t}) /\ {t} \subseteq TimerId
      BY <2>2 DEF Cancel
    <3> QED  BY <1>3, <3>1
  <2> QED  BY <1>4, <2>1, <2>2 DEF After, Every
<1>5. ASSUME NEW t \in TimerId, clock(t)  PROVE GoingInv'
  BY <1>1, <1>5, ClockGoes DEF clock
<1>6. ASSUME NEW t \in TimerId, stops(t)  PROVE GoingInv'
  <2> DEFINE k == [timers[t] EXCEPT !.clock = @ \ {timers[t].stop}]
  <2>1. /\ t \in cancelling /\ cancelling' \subseteq cancelling /\ callbacks' = callbacks
        /\ timers' = [timers EXCEPT ![t].clock = @ \ {timers[t].stop}]
    BY <1>6 DEF stops, CancelStops
  <2>2. timers' = [timers EXCEPT ![t] = k] /\ timers[t] \in Handle
    BY <1>1, <2>1
  <2>3. k.cancelled = timers[t].cancelled
    BY <2>2 DEF Handle
  <2>4. timers[t].cancelled
    BY <2>1 DEF GoingInv
  <2> HIDE DEF k
  <2> QED  BY <1>1, <2>1, <2>2, <2>3, <2>4, GoingChange
<1>7. ASSUME NEW p \in Proto, CancelTimers(p)  PROVE GoingInv'
  BY <1>3, <1>7 DEF CancelTimers, cancelAllTimers, Owned
<1>8. ASSUME NEW p \in Proto, Rebuild(p)  PROVE GoingInv'
  <2>1. /\ timers' = [t \in TimerId |->
                        [timers[t] EXCEPT !.tracked = @ /\ timers[t].owner # p]]
        /\ callbacks' = callbacks /\ cancelling' = cancelling
    BY <1>8 DEF Rebuild, resetForRestart, ForgetTable
  <2>2. ASSUME NEW t \in TimerId
        PROVE  /\ timers'[t].kind = timers[t].kind /\ timers'[t].clock = timers[t].clock
               /\ timers'[t].cancelled = timers[t].cancelled
    <3>1. /\ timers'[t] = [timers[t] EXCEPT !.tracked = @ /\ timers[t].owner # p]
          /\ timers[t] \in Handle
      BY <1>1, <2>1
    <3> QED  BY <3>1 DEF Handle
  <2>3. \A t \in TimerId : timers'[t].kind = "every" /\ ~timers'[t].cancelled => Going(t)'
    BY <2>1, <2>2 DEF GoingInv, Going
  <2>4. \A t \in cancelling' : timers'[t].cancelled
    BY <1>1, <2>1, <2>2 DEF GoingInv, TimerInv
  <2> QED  BY <2>3, <2>4 DEF GoingInv
<1> QED  BY <1>2, <1>4, <1>5, <1>6, <1>7, <1>8, TimerFrame

\* The safety half of TimersObey, for any number of timers,
\* overlapping callbacks, cancels and restarts: a periodic timer that was not
\* cancelled has a clock timer armed or a callback that arms the next one
\* (every's callback checks, pushes, arms, and only then looks again).
THEOREM PeriodicsStayArmed == Spec => [](\A t \in TimerId : GoesOn(t))
<1>1. Init => GoingInv
  BY DEF Init, TimersInit, GoingInv, NoTimer
<1>2. IPCInv /\ GoingInv /\ [Next]_vars => GoingInv'
  BY GoingStep
<1>3. GoingInv => \A t \in TimerId : GoesOn(t)
  BY DEF GoingInv, Going, GoesOn
<1> QED  BY IPCAlways, <1>1, <1>2, <1>3, PTL DEF Spec
==============================================================================
