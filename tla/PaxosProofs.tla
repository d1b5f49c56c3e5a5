----------------------------- MODULE PaxosProofs -----------------------------
(****************************************************************************)
(* Type correctness, agreement and refinement of Paxos, for every synod,    *)
(* every set of values and every range of ballots.                          *)
(****************************************************************************)
EXTENDS Paxos, TLAPS, FiniteSetTheorems, WellFoundedInduction
------------------------------------------------------------------------------
(* The inductive invariant. *)

\* The ballots node n draws from.
Own(n) == {b \in Ballot : \E r \in 0 .. b : b = r * N + Index[n]}

\* What an acceptor holds is what its Storage holds, and a ballot it promised
\* is one it has seen.
AcceptorInv ==
    \A n \in Node :
        /\ disk[n] = [promised |-> promised[n], accepted |-> accepted[n]]
        /\ promised[n] <= maxSeen[n]

\* The vote an acceptor reports is its last one, and no vote is above the
\* promise.
VoteInv ==
    \A n \in Node :
        /\ accepted[n].bal <= promised[n]
        /\ accepted[n].val # None => Voted(n, accepted[n].bal, accepted[n].val)
        /\ \A b \in Ballot, v \in Value :
              Voted(n, b, v) => /\ accepted[n].val # None
                                /\ b <= accepted[n].bal
                                /\ <<b, v>> \in proposals

\* A proposal's ballot is drawn by a node that has promised it; a round in
\* Phase 1 has not proposed yet.
BallotInv ==
    /\ \A p \in proposals : \E n \in Node : p[1] \in Own(n) /\ p[1] <= promised[n]
    /\ \A n \in Node :
          phase[n] # 0 => myBallot[n] \in Own(n) /\ myBallot[n] <= promised[n]
    /\ \A n \in Node, p \in proposals : phase[n] = 1 => p[1] # myBallot[n]
    /\ \A n \in Node : proposing[n] => phase[n] # 0

\* No value but v has been or can still be chosen at ballot c.
OnlyChoosable(c, v) ==
    \E Q \in Quorum : \A a \in Q :
        \/ Voted(a, c, v)
        \/ promised[a] > c /\ \A w \in Value : ~Voted(a, c, w)

SafeAt(b, v) == \A c \in Ballot : c < b => OnlyChoosable(c, v)

SafeInv == \A p \in proposals : SafeAt(p[1], p[2])

\* What a promise for ballot b with summary info says of acceptor a, for ever.
Promise(a, b, info) ==
    /\ promised[a] >= b
    /\ info.val # None => info.bal < b /\ Voted(a, info.bal, info.val)
    /\ \A c \in Ballot, w \in Value :
          Voted(a, c, w) /\ c < b => info.val # None /\ c <= info.bal

PromiseInv ==
    /\ \A m \in net : m.type = "Promise" /\ m.ok => Promise(m.from, m.bal, m.info)
    /\ \A n, a \in Node :
          phase[n] = 1 /\ promises[n][a] # None
              => Promise(a, myBallot[n], promises[n][a])

\* What the other messages and the learner's tally say of the voting.
LearnInv ==
    /\ \A m \in net : m.type = "Accept" => <<m.bal, m.val>> \in proposals
    /\ \A m \in net : m.type = "Accepted" => Voted(m.from, m.bal, m.val)
    /\ \A n, a \in Node, b \in Ballot :
          a \in accepts[n][b] => Voted(a, b, valueAt[n][b])
    /\ \A n \in Node, b \in Ballot :
          valueAt[n][b] # None => <<b, valueAt[n][b]>> \in proposals

IInv ==
    /\ TypeOK
    /\ AcceptorInv
    /\ VoteInv
    /\ BallotInv
    /\ OneValuePerBallot
    /\ SafeInv
    /\ PromiseInv
    /\ LearnInv
    /\ DecisionIsChosen
------------------------------------------------------------------------------
(* Arithmetic, quorums and the adoption rule. *)

\* The group has a positive size.
LEMMA SizeIsPositive == N \in Nat \ {0}
  BY NodeAssumption, FS_CardinalityType, FS_EmptySet DEF N

\* A non-empty set of naturals has a least element.
LEMMA NatMin ==
  ASSUME NEW T, T \subseteq Nat, T # {}
  PROVE  \E x \in T : \A y \in T : x <= y
<1>1. \E x \in T : \A y \in T : ~(<<y, x>> \in OpToRel(<, Nat))
  BY NatLessThanWellFounded, WFMin, Zenon
<1>2. PICK x \in T : \A y \in T : ~(<<y, x>> \in OpToRel(<, Nat))
  BY <1>1
<1>3. \A y \in T : ~(y < x)
  BY <1>2 DEF OpToRel
<1> QED  BY <1>3

\* A non-empty bounded set of naturals has a greatest element.
LEMMA BoundedMax ==
  ASSUME NEW T, T \subseteq Nat, T # {},
         NEW k \in Nat, \A x \in T : x <= k
  PROVE  \E x \in T : \A y \in T : y <= x
<1> DEFINE U == {k - x : x \in T}
<1>1. U \subseteq Nat
  BY SMT DEF U
<1>2. U # {}
  <2>1. PICK x \in T : TRUE
    OBVIOUS
  <2>2. k - x \in U
    BY <2>1
  <2> QED  BY <2>2
<1> HIDE DEF U
<1>3. PICK u \in U : \A w \in U : u <= w
  BY <1>1, <1>2, NatMin
<1>4. PICK x \in T : u = k - x
  BY DEF U
<1>5. ASSUME NEW y \in T PROVE y <= x
  <2>1. k - y \in U
    BY DEF U
  <2> QED  BY <2>1, <1>3, <1>4
<1> QED  BY <1>5

\* Disjointness: two nodes never draw the same ballot.
LEMMA BallotsDisjoint ==
  ASSUME NEW m \in Node, NEW n \in Node, NEW b, b \in Own(m), b \in Own(n)
  PROVE  m = n
<1>1. PICK r \in 0 .. b : b = r * N + Index[m]
  BY DEF Own
<1>2. PICK s \in 0 .. b : b = s * N + Index[n]
  BY DEF Own
<1>3. /\ b \in Nat /\ N \in Nat \ {0}
      /\ Index[m] \in 0 .. N - 1 /\ Index[n] \in 0 .. N - 1
  BY SizeIsPositive, IndexAssumption, BallotAssumption DEF Own, N
<1>4. ASSUME NEW K \in Nat \ {0}, NEW x \in Nat, NEW y \in Nat,
             NEW i \in 0 .. K - 1, NEW j \in 0 .. K - 1, x < y
      PROVE  x * K + i # y * K + j
  <2>1. y * K >= (x + 1) * K
    BY <1>4
  <2> QED  BY <2>1
<1>5. ~(r < s) /\ ~(s < r)
  BY <1>1, <1>2, <1>3, <1>4
<1>6. r = s
  BY <1>1, <1>2, <1>3, <1>5
<1>7. Index[m] = Index[n]
  BY <1>1, <1>2, <1>3, <1>6
<1> QED  BY <1>7, IndexAssumption

\* Monotonicity: the next ballot is the node's own and above all it has seen.
LEMMA NextBallotIsHigher ==
  ASSUME NEW n \in Node, NEW seen \in Ballot, nextBallot(seen, n) \in Ballot
  PROVE  nextBallot(seen, n) > seen /\ nextBallot(seen, n) \in Own(n)
<1> DEFINE r == seen \div N + 1
<1>1. N \in Nat \ {0} /\ Index[n] \in 0 .. N - 1 /\ seen \in Nat
  BY SizeIsPositive, IndexAssumption, BallotAssumption DEF N
<1>2. ASSUME NEW K \in Nat \ {0}, NEW x \in Nat, NEW i \in 0 .. K - 1
      PROVE  /\ x \div K \in Nat
             /\ (x \div K + 1) * K + i > x
  <2> DEFINE q == x \div K
  <2>1. q \in Nat /\ x < (q + 1) * K
    OBVIOUS
  <2> QED  BY <2>1
<1>3. r \in Nat /\ r * N + Index[n] > seen
  BY <1>1, <1>2
<1>4. ASSUME NEW K \in Nat \ {0}, NEW x \in Nat, NEW i \in 0 .. K - 1
      PROVE  x <= x * K + i
  <2>1. x * K >= x * 1
    OBVIOUS
  <2> QED  BY <2>1
<1> HIDE DEF r
<1>5. nextBallot(seen, n) = r * N + Index[n]
  BY DEF nextBallot, r
<1>6. r <= r * N + Index[n]
  BY <1>1, <1>3, <1>4
<1>7. r \in 0 .. nextBallot(seen, n)
  BY <1>3, <1>5, <1>6, BallotAssumption
<1> QED  BY <1>3, <1>5, <1>7 DEF Own

\* A count that majoritySize admits is a strict majority.
LEMMA MajorityIsQuorum ==
  ASSUME NEW S \in SUBSET Node, IsMajority(S)
  PROVE  S \in Quorum
<1>1. Cardinality(S) \in Nat /\ N \in Nat
  BY NodeAssumption, FS_Subset, FS_CardinalityType DEF N
<1> QED  BY <1>1 DEF IsMajority, majoritySize, Quorum

\* Any two quorums share an acceptor.
LEMMA QuorumsIntersect ==
  ASSUME NEW P \in Quorum, NEW Q \in Quorum
  PROVE  \E a \in P : a \in Q
<1>1. /\ Cardinality(P) \in Nat /\ Cardinality(Q) \in Nat /\ N \in Nat
      /\ P \subseteq Node /\ Q \subseteq Node
  BY NodeAssumption, FS_Subset, FS_CardinalityType DEF N, Quorum
<1>2. Cardinality(P) + Cardinality(Q) > Cardinality(Node)
  BY <1>1 DEF Quorum, N
<1> QED  BY <1>1, <1>2, NodeAssumption, FS_MajoritiesIntersect

\* The adoption rule: chooseValue returns the proposer's value when nobody has
\* voted, else the value of a summary no other exceeds.
LEMMA Adoption ==
  ASSUME NEW infos \in SUBSET Summary, NEW own
  PROVE  \/ /\ \A in \in infos : in.val = None
            /\ chooseValue(infos, own) = own
         \/ \E in \in infos :
               /\ in.val # None
               /\ \A o \in infos : o.val # None => o.bal <= in.bal
               /\ chooseValue(infos, own) = in.val
<1> DEFINE voted == {in \in infos : in.val # None}
<1>1. CASE voted = {}
  BY <1>1 DEF chooseValue
<1>2. CASE voted # {}
  <2> DEFINE T == {in.bal : in \in voted}
  <2>1. T \subseteq Nat /\ T # {}
    BY <1>2, BallotAssumption DEF Summary
  <2>2. PICK k \in Nat : \A x \in T : x <= k
    BY BallotAssumption DEF Summary
  <2>3. PICK x \in T : \A y \in T : y <= x
    BY <2>1, <2>2, BoundedMax
  <2>4. \E in \in voted : \A o \in voted : o.bal <= in.bal
    BY <2>3
  <2> DEFINE best == CHOOSE in \in voted : \A o \in voted : o.bal <= in.bal
  <2>5. best \in voted /\ \A o \in voted : o.bal <= best.bal
    BY <2>4
  <2>6. chooseValue(infos, own) = best.val
    BY <1>2 DEF chooseValue
  <2> HIDE DEF best
  <2> QED  BY <2>5, <2>6
<1> QED  BY <1>1, <1>2
------------------------------------------------------------------------------
(* Type correctness. *)

\* What a proposer takes into Phase 2 from well-typed summaries is a value.
LEMMA ChosenValueType ==
  ASSUME NEW infos \in SUBSET Summary, NEW own \in Value
  PROVE  chooseValue(infos, own) \in Value
  BY Adoption DEF Summary

\* The messages a node sends are well typed.
LEMMA SentType ==
  ASSUME NEW n \in Node, NEW b \in Ballot, NEW v \in Value
  PROVE  /\ Sent(PrepareFrom(n, b)) \subseteq Message
         /\ Sent(AcceptFrom(n, b, v)) \subseteq Message
         /\ Sent(AcceptedFrom(n, b, v)) \subseteq Message
         /\ Sent(AcceptedFrom(n, b, v) \cup AcceptFrom(n, b, v)) \subseteq Message
  BY DEF Sent, PrepareFrom, AcceptFrom, AcceptedFrom, Message, Peers

\* Seeing a ballot, promising and accepting keep the acceptor well typed.
LEMMA ObservedType ==
  ASSUME TypeOK, NEW n \in Node, NEW b \in Ballot, observeBallot(n, b)
  PROVE  maxSeen' \in [Node -> Ballot]
  BY DEF TypeOK, observeBallot, Larger

\* The acceptor variables keep their types when acceptPrepare promises.
LEMMA PromisedType ==
  ASSUME TypeOK, NEW n \in Node, NEW b \in Ballot,
         Promised(n, b) \/ UNCHANGED <<acceptorVars, votes>>
  PROVE  /\ promised' \in [Node -> Ballot]
         /\ accepted' \in [Node -> Summary]
         /\ disk' \in [Node -> [promised : Ballot, accepted : Summary]]
         /\ votes' \in [Node -> SUBSET (Ballot \X Value)]
<1>1. CASE Promised(n, b)
  <2>1. [promised |-> b, accepted |-> accepted[n]]
            \in [promised : Ballot, accepted : Summary]
    BY DEF TypeOK
  <2> QED  BY <1>1, <2>1 DEF TypeOK, Promised
<1>2. CASE UNCHANGED <<acceptorVars, votes>>
  BY <1>2 DEF TypeOK, acceptorVars
<1> QED  BY <1>1, <1>2

\* The acceptor variables keep their types when acceptAccept accepts.
LEMMA AcceptsType ==
  ASSUME TypeOK, NEW n \in Node, NEW b \in Ballot, NEW v \in Value,
         Accepts(n, b, v)
  PROVE  /\ promised' \in [Node -> Ballot]
         /\ accepted' \in [Node -> Summary]
         /\ disk' \in [Node -> [promised : Ballot, accepted : Summary]]
         /\ votes' \in [Node -> SUBSET (Ballot \X Value)]
  BY DEF Accepts, TypeOK, Summary

\* The learner's tally stays well typed, and deciding only stops a proposer.
LEMMA RecordType ==
  ASSUME TypeOK, NEW n \in Node, NEW b \in Ballot, NEW v \in Value,
         NEW from \in Node, NEW active \in BOOLEAN,
         recordAccepted(n, b, v, from, active)
  PROVE  /\ accepts' \in [Node -> [Ballot -> SUBSET Node]]
         /\ valueAt' \in [Node -> [Ballot -> Value \cup {None}]]
         /\ decision' \in [Node -> Summary]
         /\ proposing' \in [Node -> BOOLEAN]
         /\ proposing'[n] => active
         /\ \A m \in Node \ {n} : proposing'[m] = proposing[m]
<1> DEFINE set == accepts[n][b] \cup {from}
           val == IF valueAt[n][b] = None THEN v ELSE valueAt[n][b]
<1>1. set \in SUBSET Node /\ val \in Value /\ [bal |-> b, val |-> val] \in Summary
  BY DEF TypeOK, Summary
<1>2. CASE Decided(n) \/ from \in accepts[n][b]
  BY <1>2 DEF TypeOK, recordAccepted, learnerVars
<1>3. CASE ~(Decided(n) \/ from \in accepts[n][b])
  <2>1. /\ accepts' = [accepts EXCEPT ![n] = [@ EXCEPT ![b] = set]]
        /\ valueAt' = [valueAt EXCEPT ![n] = [@ EXCEPT ![b] = val]]
        /\ \/ /\ decision' = [decision EXCEPT ![n] = [bal |-> b, val |-> val]]
              /\ proposing' = [proposing EXCEPT ![n] = FALSE]
           \/ /\ decision' = decision
              /\ proposing' = [proposing EXCEPT ![n] = active]
    BY <1>3 DEF recordAccepted
  <2> HIDE DEF set, val
  <2>2. /\ accepts' \in [Node -> [Ballot -> SUBSET Node]]
        /\ valueAt' \in [Node -> [Ballot -> Value \cup {None}]]
    BY <1>1, <2>1 DEF TypeOK
  <2>3. decision' \in [Node -> Summary]
    BY <1>1, <2>1 DEF TypeOK
  <2>4. /\ proposing' \in [Node -> BOOLEAN]
        /\ \A m \in Node \ {n} : proposing'[m] = proposing[m]
    BY <2>1 DEF TypeOK
  <2>5. proposing'[n] => active
    BY <2>1, Zenon DEF TypeOK
  <2> QED  BY <2>2, <2>3, <2>4, <2>5
<1> QED  BY <1>2, <1>3

\* Phase 2a leaves everything it changes well typed.
LEMMA Phase2Type ==
  ASSUME TypeOK, NEW n \in Node, NEW b \in Ballot, NEW prom,
         NEW infos \in SUBSET Summary, NEW own \in Value,
         NEW inFlight \in SUBSET Message,
         beginPhase2(n, b, prom, infos, own, inFlight)
  PROVE  /\ promised' \in [Node -> Ballot]
         /\ accepted' \in [Node -> Summary]
         /\ disk' \in [Node -> [promised : Ballot, accepted : Summary]]
         /\ proposing' \in [Node -> BOOLEAN]
         /\ phase' \in [Node -> 0 .. 2]
         /\ accepts' \in [Node -> [Ballot -> SUBSET Node]]
         /\ valueAt' \in [Node -> [Ballot -> Value \cup {None}]]
         /\ decision' \in [Node -> Summary]
         /\ net' \subseteq Message
         /\ votes' \in [Node -> SUBSET (Ballot \X Value)]
         /\ proposals' \subseteq Ballot \X Value
         /\ \A m \in Node \ {n} : proposing'[m] = proposing[m]
<1> DEFINE v == chooseValue(infos, own)
<1>1. v \in Value
  BY ChosenValueType
<1> HIDE DEF v
<1>2. phase' \in [Node -> 0 .. 2] /\ proposals' \subseteq Ballot \X Value
  BY <1>1 DEF beginPhase2, TypeOK, v
<1>3. CASE canAccept(b, prom)
  <2>1. /\ Accepts(n, b, v)
        /\ recordAccepted(n, b, v, n, TRUE)
        /\ net' = inFlight \cup Sent(AcceptedFrom(n, b, v) \cup AcceptFrom(n, b, v))
    BY <1>3 DEF beginPhase2, v
  <2>2. /\ promised' \in [Node -> Ballot]
        /\ accepted' \in [Node -> Summary]
        /\ disk' \in [Node -> [promised : Ballot, accepted : Summary]]
        /\ votes' \in [Node -> SUBSET (Ballot \X Value)]
    BY <1>1, <2>1, AcceptsType
  <2> QED  BY <1>1, <1>2, <2>1, <2>2, RecordType, SentType
<1>4. CASE ~canAccept(b, prom)
  <2>1. /\ net' = inFlight \cup Sent(AcceptFrom(n, b, v))
        /\ UNCHANGED <<acceptorVars, votes, learnerVars, proposing>>
    BY <1>4 DEF beginPhase2, v
  <2> QED  BY <1>1, <1>2, <2>1, SentType DEF TypeOK, acceptorVars, learnerVars
<1> QED  BY <1>3, <1>4

\* Opening a round leaves everything well typed.
LEMMA StartRoundType ==
  ASSUME TypeOK, NEW n \in Node, NEW v \in Value, startRound(n, v)
  PROVE  TypeOK'
<1> DEFINE b == nextBallot(maxSeen[n], n)
           ok == canPromise(b, promised[n])
           self == [Fresh(n) EXCEPT ![n] = IF ok THEN accepted[n] ELSE None]
<1>1. /\ b \in Ballot
      /\ myBallot' = [myBallot EXCEPT ![n] = b]
      /\ myValue' = [myValue EXCEPT ![n] = v]
      /\ promises' = [promises EXCEPT ![n] = self]
      /\ observeBallot(n, b)
      /\ UNCHANGED <<up, sessions>>
      /\ \/ beginPhase2(n, b, b, {accepted[n]}, v, net)
         \/ /\ phase' = [phase EXCEPT ![n] = 1]
            /\ proposing' = [proposing EXCEPT ![n] = TRUE]
            /\ Promised(n, b) \/ UNCHANGED <<acceptorVars, votes>>
            /\ net' = net \cup Sent(PrepareFrom(n, b))
            /\ UNCHANGED <<learnerVars, proposals>>
  BY DEF startRound, sessionVars
<1>2. self \in [Node -> Summary \cup {None}]
  BY DEF TypeOK, Fresh
<1> HIDE DEF b, ok, self
<1>3. /\ myBallot' \in [Node -> Ballot]
      /\ myValue' \in [Node -> Value \cup {None}]
      /\ myValue'[n] = v
      /\ \A m \in Node \ {n} : myValue'[m] = myValue[m]
      /\ promises' \in [Node -> [Node -> Summary \cup {None}]]
      /\ maxSeen' \in [Node -> Ballot]
      /\ up' \subseteq SUBSET Node
      /\ sessions' \in [Node -> SUBSET Node]
  BY <1>1, <1>2 DEF TypeOK, observeBallot, Larger
<1>4. CASE beginPhase2(n, b, b, {accepted[n]}, v, net)
  <2>1. {accepted[n]} \in SUBSET Summary /\ net \in SUBSET Message
    BY DEF TypeOK
  <2>2. \A m \in Node \ {n} : proposing'[m] = proposing[m]
    BY <1>1, <1>4, <2>1, Phase2Type
  <2>3. \A m \in Node : proposing'[m] => myValue'[m] \in Value
    BY <1>3, <2>2 DEF TypeOK
  <2>4. /\ promised' \in [Node -> Ballot]
        /\ accepted' \in [Node -> Summary]
        /\ disk' \in [Node -> [promised : Ballot, accepted : Summary]]
        /\ proposing' \in [Node -> BOOLEAN]
        /\ phase' \in [Node -> 0 .. 2]
        /\ accepts' \in [Node -> [Ballot -> SUBSET Node]]
        /\ valueAt' \in [Node -> [Ballot -> Value \cup {None}]]
        /\ decision' \in [Node -> Summary]
        /\ net' \subseteq Message
        /\ votes' \in [Node -> SUBSET (Ballot \X Value)]
        /\ proposals' \subseteq Ballot \X Value
    BY <1>1, <1>4, <2>1, Phase2Type
  <2> QED  BY <1>3, <2>3, <2>4 DEF TypeOK
<1>5. CASE /\ phase' = [phase EXCEPT ![n] = 1]
           /\ proposing' = [proposing EXCEPT ![n] = TRUE]
           /\ Promised(n, b) \/ UNCHANGED <<acceptorVars, votes>>
           /\ net' = net \cup Sent(PrepareFrom(n, b))
           /\ UNCHANGED <<learnerVars, proposals>>
  <2>1. /\ promised' \in [Node -> Ballot]
        /\ accepted' \in [Node -> Summary]
        /\ disk' \in [Node -> [promised : Ballot, accepted : Summary]]
        /\ votes' \in [Node -> SUBSET (Ballot \X Value)]
    BY <1>1, <1>5, PromisedType
  <2>2. net' \subseteq Message
    BY <1>1, <1>5, SentType DEF TypeOK
  <2>3. \A m \in Node : proposing'[m] => myValue'[m] \in Value
    BY <1>3, <1>5 DEF TypeOK
  <2>4. phase' \in [Node -> 0 .. 2] /\ proposing' \in [Node -> BOOLEAN]
    BY <1>5 DEF TypeOK
  <2> QED  BY <1>3, <1>5, <2>1, <2>2, <2>3, <2>4 DEF TypeOK, learnerVars
<1> QED  BY <1>1, <1>4, <1>5

\* Every handler and every fault keeps the state well typed.
LEMMA TypeStep ==
  ASSUME TypeOK, [Next]_vars
  PROVE  TypeOK'
<1>1. CASE \E n \in Node, v \in Value : handlePropose(n, v)
  BY <1>1, StartRoundType DEF handlePropose
<1>2. CASE \E n \in Node : onRetryTimeout(n)
  <2>1. PICK n \in Node : onRetryTimeout(n)
    BY <1>2
  <2>2. myValue[n] \in Value
    BY <2>1 DEF onRetryTimeout, TypeOK
  <2> QED  BY <2>1, <2>2, StartRoundType DEF onRetryTimeout
<1>3. ASSUME NEW m \in net, onPrepare(m)
      PROVE  TypeOK'
  <2>1. /\ m.from \in Node /\ m.to \in Node /\ m.bal \in Ballot
    BY <1>3 DEF onPrepare, TypeOK, Message
  <2> DEFINE ok == canPromise(m.bal, promised[m.to])
             reply == [type |-> "Promise", from |-> m.to, to |-> m.from,
                       bal |-> m.bal, ok |-> ok,
                       maxBal |-> IF ok THEN m.bal ELSE promised[m.to],
                       info |-> IF ok THEN accepted[m.to] ELSE NoSummary]
  <2>2. ok \in BOOLEAN
    BY DEF canPromise
  <2>3. reply \in Message
    <3>1. /\ (IF ok THEN m.bal ELSE promised[m.to]) \in Ballot
          /\ (IF ok THEN accepted[m.to] ELSE NoSummary) \in Summary
      BY <2>1, BallotAssumption DEF TypeOK, Summary, NoSummary
    <3> HIDE DEF ok
    <3> QED  BY <2>1, <2>2, <3>1 DEF Message
  <2>4. /\ promised' \in [Node -> Ballot]
        /\ accepted' \in [Node -> Summary]
        /\ disk' \in [Node -> [promised : Ballot, accepted : Summary]]
        /\ votes' \in [Node -> SUBSET (Ballot \X Value)]
    <3>1. Promised(m.to, m.bal) \/ UNCHANGED <<acceptorVars, votes>>
      BY <1>3 DEF onPrepare
    <3> QED  BY <2>1, <3>1, PromisedType
  <2>5. maxSeen' \in [Node -> Ballot]
    BY <1>3, <2>1, ObservedType DEF onPrepare
  <2>6. net' = (net \ {m}) \cup Sent({reply})
    BY <1>3 DEF onPrepare
  <2> HIDE DEF reply
  <2>7. net' \subseteq Message
    BY <2>3, <2>6 DEF Sent, TypeOK
  <2> QED  BY <1>3, <2>4, <2>5, <2>7
           DEF onPrepare, TypeOK, proposerVars, learnerVars, sessionVars
<1>4. ASSUME NEW m \in net, onPromise(m)
      PROVE  TypeOK'
  <2>1. /\ m.from \in Node /\ m.to \in Node /\ m.bal \in Ballot
        /\ m.maxBal \in Ballot /\ m.info \in Summary
    BY <1>4 DEF onPromise, TypeOK, Message
  <2> DEFINE n == m.to
             wanted == /\ m.ok
                       /\ ~Decided(n)
                       /\ proposing[n]
                       /\ phase[n] = 1
                       /\ m.bal = myBallot[n]
             got == [promises[n] EXCEPT ![m.from] = m.info]
             voters == {p \in Node : got[p] # None}
             infos == {got[p] : p \in voters}
  <2>2. got \in [Node -> Summary \cup {None}] /\ infos \in SUBSET Summary
    BY <2>1 DEF TypeOK
  <2>3. maxSeen' \in [Node -> Ballot]
    <3>1. maxSeen' = maxSeen \/ observeBallot(m.to, m.maxBal)
      BY <1>4 DEF onPromise
    <3> QED  BY <2>1, <3>1, ObservedType DEF TypeOK
  <2>4. promises' \in [Node -> [Node -> Summary \cup {None}]]
    <3>1. promises' = IF wanted THEN [promises EXCEPT ![n] = got] ELSE promises
      BY <1>4 DEF onPromise
    <3> HIDE DEF wanted, got
    <3> QED  BY <2>1, <2>2, <3>1 DEF TypeOK
  <2>5. UNCHANGED <<myBallot, myValue, up, sessions>>
    BY <1>4 DEF onPromise, sessionVars
  <2>6. CASE /\ wanted
             /\ beginPhase2(n, myBallot[n], promised[n], infos, myValue[n], net \ {m})
    <3>1. /\ myBallot[n] \in Ballot /\ myValue[n] \in Value
          /\ net \ {m} \in SUBSET Message
      BY <2>1, <2>6 DEF TypeOK
    <3> HIDE DEF wanted, got, infos
    <3>2. \A a \in Node : proposing'[a] => myValue'[a] \in Value
      BY <2>1, <2>2, <2>5, <2>6, <3>1, Phase2Type DEF TypeOK
    <3> QED  BY <2>1, <2>2, <2>3, <2>4, <2>5, <2>6, <3>1, <3>2, Phase2Type DEF TypeOK
  <2>7. CASE /\ net' = net \ {m}
             /\ UNCHANGED <<acceptorVars, proposing, phase, learnerVars, history>>
    BY <2>3, <2>4, <2>5, <2>7 DEF TypeOK, acceptorVars, learnerVars, history
  <2> QED  BY <1>4, <2>6, <2>7 DEF onPromise
<1>5. ASSUME NEW m \in net, onAccept(m)
      PROVE  TypeOK'
  <2>1. /\ m.from \in Node /\ m.to \in Node /\ m.bal \in Ballot /\ m.val \in Value
    BY <1>5 DEF onAccept, TypeOK, Message
  <2>2. /\ maxSeen' \in [Node -> Ballot]
        /\ UNCHANGED <<phase, myBallot, myValue, promises, up, sessions, proposals>>
    BY <1>5, <2>1, ObservedType DEF onAccept, sessionVars
  <2>3. CASE canAccept(m.bal, promised[m.to])
    <3>1. /\ Accepts(m.to, m.bal, m.val)
          /\ recordAccepted(m.to, m.bal, m.val, m.to, proposing[m.to])
          /\ net' = (net \ {m}) \cup Sent(AcceptedFrom(m.to, m.bal, m.val))
      BY <1>5, <2>3 DEF onAccept
    <3>2. /\ promised' \in [Node -> Ballot]
          /\ accepted' \in [Node -> Summary]
          /\ disk' \in [Node -> [promised : Ballot, accepted : Summary]]
          /\ votes' \in [Node -> SUBSET (Ballot \X Value)]
      BY <2>1, <3>1, AcceptsType
    <3>3. net' \subseteq Message
      BY <2>1, <3>1, SentType DEF TypeOK
    <3>4. proposing[m.to] \in BOOLEAN
      BY <2>1 DEF TypeOK
    <3>5. \A a \in Node : proposing'[a] => proposing[a]
      <4>1. /\ proposing'[m.to] => proposing[m.to]
            /\ \A a \in Node \ {m.to} : proposing'[a] = proposing[a]
        BY <2>1, <3>1, <3>4, RecordType
      <4> QED  BY <4>1, Zenon
    <3>6. \A a \in Node : proposing'[a] => myValue'[a] \in Value
      BY <2>2, <3>5 DEF TypeOK
    <3> QED  BY SMTT(30), <2>1, <2>2, <3>1, <3>2, <3>3, <3>4, <3>6, RecordType DEF TypeOK
  <2>4. CASE ~canAccept(m.bal, promised[m.to])
    <3> DEFINE nack == [type |-> "AcceptNack", from |-> m.to, to |-> m.from,
                        maxBal |-> promised[m.to]]
    <3>1. nack \in Message
      BY <2>1 DEF TypeOK, Message
    <3>2. /\ net' = (net \ {m}) \cup Sent({nack})
          /\ UNCHANGED <<acceptorVars, votes, learnerVars, proposing>>
      BY <1>5, <2>4 DEF onAccept
    <3> QED  BY <2>2, <3>1, <3>2 DEF TypeOK, Sent, acceptorVars, learnerVars
  <2> QED  BY <2>3, <2>4
<1>6. ASSUME NEW m \in net, onAccepted(m)
      PROVE  TypeOK'
  <2>1. /\ m.from \in Node /\ m.to \in Node /\ m.bal \in Ballot /\ m.val \in Value
        /\ proposing[m.to] \in BOOLEAN
    BY <1>6 DEF onAccepted, TypeOK, Message
  <2>2. maxSeen' \in [Node -> Ballot]
    BY <1>6, <2>1, ObservedType DEF onAccepted
  <2>3. recordAccepted(m.to, m.bal, m.val, m.from, proposing[m.to])
    BY <1>6 DEF onAccepted
  <2> QED  BY <1>6, <2>1, <2>2, <2>3, RecordType
           DEF onAccepted, TypeOK, acceptorVars, sessionVars, history
<1>7. ASSUME NEW m \in net, onAcceptNack(m)
      PROVE  TypeOK'
  <2>1. m.to \in Node /\ m.maxBal \in Ballot
    BY <1>7 DEF onAcceptNack, TypeOK, Message
  <2> QED  BY <1>7, <2>1
           DEF onAcceptNack, observeBallot, Larger, TypeOK, acceptorVars,
               proposerVars, learnerVars, sessionVars, history
<1>8. ASSUME NEW n \in Node, NEW h \in Node, OnSessionConnected(n, h)
      PROVE  TypeOK'
  <2> DEFINE m == [type |-> "Accepted", from |-> n, to |-> h,
                   bal |-> accepted[n].bal, val |-> accepted[n].val]
  <2>1. accepted[n].val # None => m \in Message
    BY DEF TypeOK, Summary, Message
  <2>2. net' = net \/ (accepted[n].val # None /\ net' = net \cup {m})
    BY <1>8 DEF OnSessionConnected
  <2> HIDE DEF m
  <2>3. net' \subseteq Message
    BY <2>1, <2>2 DEF TypeOK
  <2>4. sessions' \in [Node -> SUBSET Node]
    BY <1>8 DEF OnSessionConnected, TypeOK
  <2> QED  BY <1>8, <2>3, <2>4
           DEF OnSessionConnected, TypeOK, acceptorVars, proposerVars,
               learnerVars, history
<1>9. ASSUME NEW n \in Node, NEW h \in Node, ensureConnections(n, h)
      PROVE  TypeOK'
  BY ZenonT(40), <1>9 DEF ensureConnections, TypeOK, acceptorVars, proposerVars,
              learnerVars, history
<1>10. ASSUME NEW n \in Node, NEW h \in Node, OnSessionDisconnected(n, h)
       PROVE  TypeOK'
  <2>1. sessions' \in [Node -> SUBSET Node]
    BY <1>10 DEF OnSessionDisconnected, TypeOK
  <2> QED  BY <1>10, <2>1
           DEF OnSessionDisconnected, TypeOK, acceptorVars, proposerVars,
               learnerVars, history
<1>11. ASSUME NEW n \in Node, Restart(n)
       PROVE  TypeOK'
  <2>1. /\ promised' \in [Node -> Ballot]
        /\ accepted' \in [Node -> Summary]
        /\ maxSeen' \in [Node -> Ballot]
        /\ disk' \in [Node -> [promised : Ballot, accepted : Summary]]
    BY <1>11 DEF Restart, TypeOK
  <2>2. /\ proposing' \in [Node -> BOOLEAN]
        /\ phase' \in [Node -> 0 .. 2]
        /\ myBallot' \in [Node -> Ballot]
        /\ myValue' \in [Node -> Value \cup {None}]
        /\ promises' \in [Node -> [Node -> Summary \cup {None}]]
    BY <1>11, BallotAssumption DEF Restart, Fresh, TypeOK
  <2>3. /\ accepts' \in [Node -> [Ballot -> SUBSET Node]]
        /\ valueAt' \in [Node -> [Ballot -> Value \cup {None}]]
    BY <1>11 DEF Restart, TypeOK
  <2>4. decision' \in [Node -> Summary]
    BY <1>11, BallotAssumption DEF Restart, TypeOK, Summary, NoSummary
  <2>5. \A m \in Node : proposing'[m] => myValue'[m] \in Value
    BY <1>11 DEF Restart, TypeOK
  <2>6. /\ up' \subseteq SUBSET Node
        /\ sessions' \in [Node -> SUBSET Node]
        /\ net' \subseteq Message
    BY <1>11 DEF Restart, TypeOK
  <2>7. /\ votes' \in [Node -> SUBSET (Ballot \X Value)]
        /\ proposals' \subseteq Ballot \X Value
    BY <1>11 DEF Restart, TypeOK, history
  <2> QED  BY <2>1, <2>2, <2>3, <2>4, <2>5, <2>6, <2>7 DEF TypeOK
<1>12. CASE UNCHANGED vars
  BY <1>12 DEF TypeOK, vars, acceptorVars, proposerVars, learnerVars,
               sessionVars, history
<1> QED
  BY <1>1, <1>2, <1>3, <1>4, <1>5, <1>6, <1>7, <1>8, <1>9, <1>10, <1>11, <1>12
  DEF Next, Handler, Fault, Deliver

\* A new synod is well typed.
LEMMA TypeInit == Init => TypeOK
  BY BallotAssumption DEF Init, Booted, TypeOK, Fresh, NoSummary, Summary

\* Every state of every synod is well typed: in particular no round ever
\* proposes nil, whatever the promises it collected.
THEOREM TypeCorrect == Spec => []TypeOK
<1>1. Init => TypeOK
  BY TypeInit
<1>2. TypeOK /\ [Next]_vars => TypeOK'
  BY TypeStep
<1> QED  BY <1>1, <1>2, PTL DEF Spec
------------------------------------------------------------------------------
(* How one step changes the acceptors. *)

\* The acceptor a of this step: idle, promising a higher ballot, or casting
\* the vote <<b, v>> for a proposal its promise allows.
Idle(a) ==
    /\ promised'[a] = promised[a]
    /\ accepted'[a] = accepted[a]
    /\ votes'[a] = votes[a]

Promises(a) ==
    /\ promised'[a] > promised[a]
    /\ accepted'[a] = accepted[a]
    /\ votes'[a] = votes[a]

Votes(a, b, v) ==
    /\ b >= promised[a]
    /\ promised'[a] = b
    /\ accepted'[a] = [bal |-> b, val |-> v]
    /\ votes'[a] = votes[a] \cup {<<b, v>>}
    /\ <<b, v>> \in proposals'

AcceptorSteps ==
    /\ proposals \subseteq proposals'
    /\ \A a \in Node :
          \/ Idle(a)
          \/ Promises(a)
          \/ \E b \in Ballot, v \in Value : Votes(a, b, v)

\* Ballots are naturals.
LEMMA BallotsAreNat ==
  ASSUME NEW f \in [Node -> Ballot], NEW n \in Node
  PROVE  f[n] \in Nat
  BY BallotAssumption

\* The two ways a round opens; in both, the node's own promise succeeds.
LEMMA RoundOpens ==
  ASSUME IInv, NEW n \in Node, NEW v \in Value, startRound(n, v)
  PROVE  \E b \in Ballot :
            /\ b > maxSeen[n] /\ b > promised[n] /\ b \in Own(n)
            /\ myBallot' = [myBallot EXCEPT ![n] = b]
            /\ promises' = [promises EXCEPT ![n] = [Fresh(n) EXCEPT ![n] = accepted[n]]]
            /\ maxSeen' = [maxSeen EXCEPT ![n] = b]
            /\ \/ /\ Promised(n, b)
                  /\ phase' = [phase EXCEPT ![n] = 1]
                  /\ proposing' = [proposing EXCEPT ![n] = TRUE]
                  /\ net' = net \cup Sent(PrepareFrom(n, b))
                  /\ UNCHANGED <<learnerVars, proposals>>
               \/ /\ IsMajority({n})
                  /\ beginPhase2(n, b, b, {accepted[n]}, v, net)
<1> DEFINE b == nextBallot(maxSeen[n], n)
<1>1. b \in Ballot /\ b > maxSeen[n] /\ b \in Own(n)
  BY NextBallotIsHigher DEF startRound, IInv, TypeOK
<1>2. b > promised[n] /\ b \in Nat /\ maxSeen[n] \in Nat
  <2>1. b \in Nat /\ maxSeen[n] \in Nat /\ promised[n] \in Nat
    BY <1>1, BallotAssumption, BallotsAreNat DEF IInv, TypeOK
  <2>2. promised[n] <= maxSeen[n]
    BY DEF IInv, AcceptorInv
  <2> HIDE DEF b
  <2> QED  BY <1>1, <2>1, <2>2
<1>3. canPromise(b, promised[n])
  BY <1>2 DEF canPromise
<1>4. maxSeen' = [maxSeen EXCEPT ![n] = b]
  <2>1. Larger(maxSeen[n], b) = b
    BY <1>1, <1>2 DEF Larger
  <2> QED  BY <2>1 DEF startRound, observeBallot
<1> QED  BY <1>1, <1>2, <1>3, <1>4 DEF startRound

\* Acceptor effects of the pieces of handlers.
LEMMA AcceptsSteps ==
  ASSUME TypeOK, AcceptorInv, NEW n \in Node, NEW b \in Ballot, NEW v \in Value,
         Accepts(n, b, v), b >= promised[n], <<b, v>> \in proposals',
         proposals \subseteq proposals', maxSeen' \in [Node -> Ballot],
         maxSeen'[n] >= b, \A m \in Node : maxSeen'[m] >= maxSeen[m]
  PROVE  AcceptorInv' /\ AcceptorSteps
<1>1. Votes(n, b, v) /\ \A m \in Node \ {n} : Idle(m)
  BY DEF Accepts, Votes, Idle, TypeOK
<1>2. AcceptorInv'
  <2>1. \A m \in Node : disk'[m] = [promised |-> promised'[m], accepted |-> accepted'[m]]
    BY DEF Accepts, AcceptorInv, TypeOK
  <2>2. \A m \in Node : promised'[m] <= maxSeen'[m]
    <3>1. ASSUME NEW m \in Node PROVE promised'[m] <= maxSeen'[m]
      <4>1. /\ promised[m] \in Nat /\ maxSeen[m] \in Nat
            /\ maxSeen'[m] \in Nat /\ b \in Nat
        BY BallotAssumption, BallotsAreNat DEF TypeOK
      <4>2. promised'[m] = IF m = n THEN b ELSE promised[m]
        BY DEF Accepts, TypeOK
      <4>3. promised[m] <= maxSeen[m] /\ maxSeen'[m] >= maxSeen[m]
        BY DEF AcceptorInv
      <4> QED  BY <4>1, <4>2, <4>3
    <3> QED  BY <3>1
  <2> QED  BY <2>1, <2>2 DEF AcceptorInv
<1> QED  BY <1>1, <1>2 DEF AcceptorSteps

\* A promise above the acceptor's own keeps its bookkeeping and is a
\* Promises step of that node.
LEMMA PromisedSteps ==
  ASSUME TypeOK, AcceptorInv, NEW n \in Node, NEW b \in Ballot,
         Promised(n, b), b > promised[n], UNCHANGED proposals,
         maxSeen' \in [Node -> Ballot],
         maxSeen'[n] >= b, \A m \in Node : maxSeen'[m] >= maxSeen[m]
  PROVE  AcceptorInv' /\ AcceptorSteps
<1>1. Promises(n) /\ \A m \in Node \ {n} : Idle(m)
  BY DEF Promised, Promises, Idle, TypeOK
<1>2. AcceptorInv'
  <2>1. \A m \in Node : disk'[m] = [promised |-> promised'[m], accepted |-> accepted'[m]]
    BY DEF Promised, AcceptorInv, TypeOK
  <2>2. \A m \in Node : promised'[m] <= maxSeen'[m]
    <3>1. ASSUME NEW m \in Node PROVE promised'[m] <= maxSeen'[m]
      <4>1. /\ promised[m] \in Nat /\ maxSeen[m] \in Nat
            /\ maxSeen'[m] \in Nat /\ b \in Nat
        BY BallotAssumption, BallotsAreNat DEF TypeOK
      <4>2. promised'[m] = IF m = n THEN b ELSE promised[m]
        BY DEF Promised, TypeOK
      <4>3. promised[m] <= maxSeen[m] /\ maxSeen'[m] >= maxSeen[m]
        BY DEF AcceptorInv
      <4> QED  BY <4>1, <4>2, <4>3
    <3> QED  BY <3>1
  <2> QED  BY <2>1, <2>2 DEF AcceptorInv
<1> QED  BY <1>1, <1>2 DEF AcceptorSteps

\* A step that leaves the acceptors alone is an Idle step.
LEMMA IdleSteps ==
  ASSUME TypeOK, AcceptorInv, UNCHANGED <<promised, accepted, disk, votes>>,
         proposals \subseteq proposals', maxSeen' \in [Node -> Ballot],
         \A m \in Node : maxSeen'[m] >= maxSeen[m]
  PROVE  AcceptorInv' /\ AcceptorSteps
<1>1. \A m \in Node : Idle(m)
  BY DEF Idle
<1>2. AcceptorInv'
  <2>1. ASSUME NEW m \in Node PROVE promised'[m] <= maxSeen'[m]
    <3>1. promised[m] \in Nat /\ maxSeen[m] \in Nat /\ maxSeen'[m] \in Nat
      BY BallotsAreNat DEF TypeOK
    <3>2. promised[m] <= maxSeen[m] /\ maxSeen'[m] >= maxSeen[m] /\ promised' = promised
      BY DEF AcceptorInv
    <3> QED  BY <3>1, <3>2
  <2> QED  BY <2>1 DEF AcceptorInv
<1> QED  BY <1>1, <1>2 DEF AcceptorSteps

\* beginPhase2 is at most a vote of the proposer's own acceptor, for the
\* proposal it has just made.
LEMMA Phase2Steps ==
  ASSUME TypeOK, AcceptorInv, NEW n \in Node, NEW b \in Ballot,
         NEW prom \in Ballot, prom >= promised[n],
         NEW infos \in SUBSET Summary, NEW own \in Value, NEW inFlight,
         beginPhase2(n, b, prom, infos, own, inFlight),
         maxSeen' \in [Node -> Ballot],
         maxSeen'[n] >= b, \A m \in Node : maxSeen'[m] >= maxSeen[m]
  PROVE  AcceptorInv' /\ AcceptorSteps
<1> DEFINE v == chooseValue(infos, own)
<1>1. v \in Value
  BY ChosenValueType
<1>2. proposals \subseteq proposals' /\ <<b, v>> \in proposals'
  BY DEF beginPhase2
<1>3. CASE canAccept(b, prom)
  <2>1. Accepts(n, b, v)
    BY <1>3 DEF beginPhase2
  <2>2. b >= promised[n]
    <3>1. promised[n] \in Nat /\ prom \in Nat /\ b \in Nat
      BY BallotAssumption, BallotsAreNat DEF TypeOK
    <3> QED  BY <1>3, <3>1 DEF canAccept
  <2> HIDE DEF v
  <2> QED  BY <1>1, <1>2, <2>1, <2>2, AcceptsSteps
<1>4. CASE ~canAccept(b, prom)
  <2>1. UNCHANGED <<promised, accepted, disk, votes>>
    BY <1>4 DEF beginPhase2, acceptorVars
  <2> QED  BY <1>2, <2>1, IdleSteps
<1> QED  BY <1>3, <1>4

\* observeBallot never lowers maxSeen, and covers the ballot it is given.
LEMMA Observed ==
  ASSUME TypeOK, NEW n \in Node, NEW b \in Ballot, observeBallot(n, b)
  PROVE  /\ maxSeen'[n] >= b
         /\ \A m \in Node : maxSeen'[m] >= maxSeen[m]
<1>1. b \in Nat /\ \A m \in Node : maxSeen[m] \in Nat
  BY BallotAssumption, BallotsAreNat DEF TypeOK
<1>2. \A m \in Node : maxSeen'[m] = IF m = n THEN Larger(maxSeen[n], b) ELSE maxSeen[m]
  BY DEF observeBallot, TypeOK
<1> QED  BY <1>1, <1>2 DEF Larger

\* Every step of the synod is an acceptor step, and storage follows memory.
LEMMA AcceptorStep ==
  ASSUME IInv, TypeOK', [Next]_vars
  PROVE  AcceptorInv' /\ AcceptorSteps
<1> USE DEF IInv
<1>0. maxSeen' \in [Node -> Ballot] /\ \A n \in Node : maxSeen[n] >= maxSeen[n]
  <2>1. \A n \in Node : maxSeen[n] \in Nat
    BY BallotsAreNat DEF TypeOK
  <2> QED  BY <2>1 DEF TypeOK
<1>1. ASSUME NEW n \in Node, NEW v \in Value, startRound(n, v)
      PROVE  AcceptorInv' /\ AcceptorSteps
  <2>1. PICK b \in Ballot :
            /\ b > maxSeen[n] /\ b > promised[n]
            /\ maxSeen' = [maxSeen EXCEPT ![n] = b]
            /\ \/ Promised(n, b) /\ UNCHANGED proposals
               \/ beginPhase2(n, b, b, {accepted[n]}, v, net)
    BY <1>1, RoundOpens, Zenon
  <2>2. /\ maxSeen'[n] >= b
        /\ \A m \in Node : maxSeen'[m] >= maxSeen[m]
    <3>1. b \in Nat /\ \A m \in Node : maxSeen[m] \in Nat
      BY BallotAssumption, BallotsAreNat DEF TypeOK
    <3>2. \A m \in Node : maxSeen'[m] = IF m = n THEN b ELSE maxSeen[m]
      BY <2>1 DEF TypeOK
    <3> QED  BY <2>1, <3>1, <3>2
  <2>3. CASE Promised(n, b) /\ UNCHANGED proposals
    BY <1>0, <2>1, <2>2, <2>3, PromisedSteps
  <2>4. CASE beginPhase2(n, b, b, {accepted[n]}, v, net)
    <3>1. b >= promised[n] /\ {accepted[n]} \in SUBSET Summary
      <4>1. b \in Nat /\ promised[n] \in Nat
        BY BallotAssumption, BallotsAreNat DEF TypeOK
      <4> QED  BY <2>1, <4>1 DEF TypeOK
    <3> QED  BY <1>0, <2>2, <2>4, <3>1, Phase2Steps
  <2> QED  BY <2>1, <2>3, <2>4
<1>2. CASE \E n \in Node, v \in Value : handlePropose(n, v)
  BY <1>1, <1>2 DEF handlePropose
<1>3. CASE \E n \in Node : onRetryTimeout(n)
  <2>1. PICK n \in Node : onRetryTimeout(n)
    BY <1>3
  <2>2. myValue[n] \in Value
    BY <2>1 DEF onRetryTimeout, TypeOK
  <2> QED  BY <1>1, <2>1, <2>2 DEF onRetryTimeout
<1>4. ASSUME NEW m \in net, onPrepare(m)
      PROVE  AcceptorInv' /\ AcceptorSteps
  <2>1. m.to \in Node /\ m.bal \in Ballot
    BY <1>4 DEF onPrepare, TypeOK, Message
  <2>2. /\ maxSeen'[m.to] >= m.bal
        /\ \A n \in Node : maxSeen'[n] >= maxSeen[n]
    BY <1>4, <2>1, Observed DEF onPrepare
  <2>3. UNCHANGED proposals
    BY <1>4 DEF onPrepare
  <2>4. CASE canPromise(m.bal, promised[m.to])
    <3>1. Promised(m.to, m.bal)
      BY <1>4, <2>4 DEF onPrepare
    <3>2. m.bal > promised[m.to]
      BY <2>4 DEF canPromise
    <3> QED  BY <1>0, <2>1, <2>2, <2>3, <3>1, <3>2, PromisedSteps
  <2>5. CASE ~canPromise(m.bal, promised[m.to])
    <3>1. UNCHANGED <<promised, accepted, disk, votes>>
      BY <1>4, <2>5 DEF onPrepare, acceptorVars
    <3> QED  BY <1>0, <2>2, <2>3, <3>1, IdleSteps
  <2> QED  BY <2>4, <2>5
<1>5. ASSUME NEW m \in net, onPromise(m)
      PROVE  AcceptorInv' /\ AcceptorSteps
  <2>1. /\ m.from \in Node /\ m.to \in Node /\ m.maxBal \in Ballot
        /\ m.info \in Summary
    BY <1>5 DEF onPromise, TypeOK, Message
  <2> DEFINE n == m.to
             got == [promises[n] EXCEPT ![m.from] = m.info]
             voters == {p \in Node : got[p] # None}
             infos == {got[p] : p \in voters}
  <2>2. \A a \in Node : maxSeen'[a] >= maxSeen[a]
    <3>1. maxSeen' = maxSeen \/ observeBallot(n, m.maxBal)
      BY <1>5 DEF onPromise
    <3> QED  BY <1>0, <2>1, <3>1, Observed
  <2>3. CASE /\ proposing[n] /\ phase[n] = 1
             /\ beginPhase2(n, myBallot[n], promised[n], infos, myValue[n], net \ {m})
    <3>1. /\ myBallot[n] \in Ballot /\ promised[n] \in Ballot
          /\ promised[n] >= promised[n] /\ myValue[n] \in Value
      <4>1. promised[n] \in Nat
        BY <2>1, BallotsAreNat DEF TypeOK
      <4> QED  BY <2>1, <2>3, <4>1 DEF TypeOK
    <3>2. infos \in SUBSET Summary
      BY <2>1 DEF TypeOK
    <3>3. maxSeen'[n] >= myBallot[n]
      <4>1. myBallot[n] <= promised[n] /\ promised[n] <= maxSeen[n]
        BY <2>1, <2>3 DEF BallotInv, AcceptorInv
      <4>2. /\ myBallot[n] \in Nat /\ promised[n] \in Nat
            /\ maxSeen[n] \in Nat /\ maxSeen'[n] \in Nat
        BY <1>0, <2>1, BallotsAreNat DEF TypeOK
      <4> QED  BY <2>1, <2>2, <4>1, <4>2
    <3> HIDE DEF infos, IInv
    <3> QED  BY <1>0, <2>1, <2>2, <2>3, <3>1, <3>2, <3>3, Phase2Steps DEF IInv
  <2>4. CASE UNCHANGED <<acceptorVars, history>>
    BY <1>0, <2>2, <2>4, IdleSteps DEF acceptorVars, history
  <2> QED  BY <1>5, <2>3, <2>4 DEF onPromise
<1>6. ASSUME NEW m \in net, onAccept(m)
      PROVE  AcceptorInv' /\ AcceptorSteps
  <2>1. m.to \in Node /\ m.bal \in Ballot /\ m.val \in Value
    BY <1>6 DEF onAccept, TypeOK, Message
  <2>2. /\ maxSeen'[m.to] >= m.bal
        /\ \A n \in Node : maxSeen'[n] >= maxSeen[n]
    BY <1>6, <2>1, Observed DEF onAccept
  <2>3. UNCHANGED proposals /\ <<m.bal, m.val>> \in proposals
    BY <1>6 DEF onAccept, LearnInv
  <2>4. CASE canAccept(m.bal, promised[m.to])
    <3>1. Accepts(m.to, m.bal, m.val)
      BY <1>6, <2>4 DEF onAccept
    <3>2. m.bal >= promised[m.to]
      BY <2>4 DEF canAccept
    <3> QED  BY <1>0, <2>1, <2>2, <2>3, <3>1, <3>2, AcceptsSteps
  <2>5. CASE ~canAccept(m.bal, promised[m.to])
    <3>1. UNCHANGED <<promised, accepted, disk, votes>>
      BY <1>6, <2>5 DEF onAccept, acceptorVars
    <3> QED  BY <1>0, <2>2, <2>3, <3>1, IdleSteps
  <2> QED  BY <2>4, <2>5
<1>7. ASSUME NEW m \in net, onAccepted(m) \/ onAcceptNack(m)
      PROVE  AcceptorInv' /\ AcceptorSteps
  <2>1. \/ m.to \in Node /\ m.bal \in Ballot /\ observeBallot(m.to, m.bal)
        \/ m.to \in Node /\ m.maxBal \in Ballot /\ observeBallot(m.to, m.maxBal)
    BY <1>7 DEF onAccepted, onAcceptNack, TypeOK, Message
  <2>2. \A n \in Node : maxSeen'[n] >= maxSeen[n]
    BY <2>1, Observed
  <2> QED  BY <1>0, <1>7, <2>2, IdleSteps
           DEF onAccepted, onAcceptNack, acceptorVars, history
<1>8. CASE \/ \E n, h \in Node : OnSessionConnected(n, h)
           \/ \E n, h \in Node : ensureConnections(n, h)
           \/ \E n, h \in Node : OnSessionDisconnected(n, h)
           \/ UNCHANGED vars
  <2>1. UNCHANGED <<promised, accepted, disk, votes, proposals, maxSeen>>
    BY <1>8 DEF OnSessionConnected, ensureConnections, OnSessionDisconnected,
                vars, acceptorVars, history
  <2> QED  BY <1>0, <2>1, IdleSteps
<1>9. ASSUME NEW n \in Node, Restart(n)
      PROVE  AcceptorInv' /\ AcceptorSteps
  <2>1. disk[n] = [promised |-> promised[n], accepted |-> accepted[n]]
    BY DEF AcceptorInv
  <2>2. promised' = promised /\ accepted' = accepted
    BY <1>9, <2>1 DEF Restart, TypeOK
  <2>3. disk' = disk /\ votes' = votes /\ proposals' = proposals
    BY <1>9 DEF Restart, history
  <2>4. \A a \in Node : Idle(a)
    BY <2>2, <2>3 DEF Idle
  <2>5. ASSUME NEW a \in Node PROVE promised'[a] <= maxSeen'[a]
    <3>1. maxSeen'[a] = IF a = n THEN promised[n] ELSE maxSeen[a]
      BY <1>9, <2>1 DEF Restart, TypeOK
    <3>2. promised[a] <= maxSeen[a] /\ promised[a] \in Nat
      BY BallotsAreNat DEF AcceptorInv, TypeOK
    <3> QED  BY <2>2, <3>1, <3>2
  <2>6. AcceptorInv'
    BY <2>2, <2>3, <2>5 DEF AcceptorInv
  <2> QED  BY <2>3, <2>4, <2>6 DEF AcceptorSteps
<1> QED
  BY <1>2, <1>3, <1>4, <1>5, <1>6, <1>7, <1>8, <1>9
  DEF Next, Handler, Fault, Deliver

\* Promises only rise, votes are never withdrawn, and no vote is cast below
\* the promise.
Monotone ==
    \A a \in Node :
        /\ promised'[a] >= promised[a]
        /\ \A b \in Ballot, v \in Value :
              /\ Voted(a, b, v) => Voted(a, b, v)'
              /\ Voted(a, b, v)' /\ ~Voted(a, b, v) => b >= promised[a]

\* Acceptor steps keep the votes consistent, and only add votes and raise
\* promises.
LEMMA VoteStep ==
  ASSUME IInv, TypeOK', AcceptorSteps
  PROVE  VoteInv' /\ Monotone
<1> USE DEF IInv
<1>1. ASSUME NEW a \in Node
      PROVE  /\ promised'[a] >= promised[a]
             /\ \A b \in Ballot, v \in Value :
                   /\ Voted(a, b, v) => Voted(a, b, v)'
                   /\ Voted(a, b, v)' /\ ~Voted(a, b, v) => b >= promised[a]
             /\ accepted'[a].bal <= promised'[a]
             /\ accepted'[a].val # None
                   => Voted(a, accepted[a].bal, accepted[a].val)'
             /\ \A b \in Ballot, v \in Value :
                   Voted(a, b, v)' => /\ accepted'[a].val # None
                                      /\ b <= accepted'[a].bal
                                      /\ <<b, v>> \in proposals'
  <2>1. /\ promised[a] \in Nat /\ promised'[a] \in Nat
        /\ accepted[a] \in Summary /\ accepted'[a] \in Summary
        /\ accepted[a].bal \in Nat
    <3>1. /\ promised \in [Node -> Ballot] /\ promised' \in [Node -> Ballot]
          /\ accepted \in [Node -> Summary] /\ accepted' \in [Node -> Summary]
      BY DEF TypeOK
    <3>2. accepted[a].bal \in Ballot
      BY <3>1 DEF Summary
    <3> QED  BY <3>1, <3>2, BallotAssumption
  <2>2. /\ accepted[a].bal <= promised[a]
        /\ accepted[a].val # None => Voted(a, accepted[a].bal, accepted[a].val)
        /\ \A b \in Ballot, v \in Value :
              Voted(a, b, v) => /\ accepted[a].val # None
                                /\ b <= accepted[a].bal
                                /\ <<b, v>> \in proposals
    BY DEF VoteInv
  <2>3. proposals \subseteq proposals'
    BY DEF AcceptorSteps
  <2>4. CASE Idle(a) \/ Promises(a)
    <3>1. /\ promised'[a] >= promised[a]
          /\ accepted'[a] = accepted[a] /\ votes'[a] = votes[a]
      BY <2>1, <2>4 DEF Idle, Promises
    <3>2. \A b, v : Voted(a, b, v)' <=> Voted(a, b, v)
      BY <3>1 DEF Voted
    <3>3. Voted(a, accepted[a].bal, accepted[a].val)' <=> Voted(a, accepted[a].bal, accepted[a].val)
      BY <3>1 DEF Voted
    <3> QED  BY <2>1, <2>2, <2>3, <3>1, <3>2, <3>3
  <2>5. ASSUME NEW b \in Ballot, NEW v \in Value, Votes(a, b, v)
        PROVE  /\ promised'[a] >= promised[a]
               /\ \A c \in Ballot, w \in Value :
                     /\ Voted(a, c, w) => Voted(a, c, w)'
                     /\ Voted(a, c, w)' /\ ~Voted(a, c, w) => c >= promised[a]
               /\ accepted'[a].bal <= promised'[a]
               /\ accepted'[a].val # None
                     => Voted(a, accepted[a].bal, accepted[a].val)'
               /\ \A c \in Ballot, w \in Value :
                     Voted(a, c, w)' => /\ accepted'[a].val # None
                                        /\ c <= accepted'[a].bal
                                        /\ <<c, w>> \in proposals'
    <3>1. b \in Nat /\ v # None
      BY BallotAssumption, ValueAssumption
    <3>2. accepted'[a].bal = b /\ accepted'[a].val = v
      BY <2>5 DEF Votes
    <3>3. ASSUME NEW c \in Ballot, NEW w \in Value
          PROVE  Voted(a, c, w)' <=> Voted(a, c, w) \/ (c = b /\ w = v)
      BY <2>5 DEF Votes, Voted
    <3>4. \A c \in Ballot : c \in Nat
      BY BallotAssumption
    <3>5. b >= promised[a] /\ promised'[a] = b /\ <<b, v>> \in proposals'
      BY <2>5 DEF Votes
    <3>6. Voted(a, accepted[a].bal, accepted[a].val)'
      BY <2>5, <3>2 DEF Votes, Voted
    <3> QED  BY <2>1, <2>2, <2>3, <3>1, <3>2, <3>3, <3>4, <3>5, <3>6
  <2> QED  BY <2>4, <2>5 DEF AcceptorSteps
<1> QED  BY <1>1 DEF VoteInv, Monotone

\* Being promised, being safe and being chosen are for ever.
LEMMA PromiseStable ==
  ASSUME TypeOK, TypeOK', Monotone, NEW a \in Node, NEW b \in Ballot, NEW info \in Summary,
         Promise(a, b, info)
  PROVE  Promise(a, b, info)'
<1>1. /\ promised[a] \in Nat /\ promised'[a] \in Nat
      /\ \A c \in Ballot : c \in Nat
  BY BallotAssumption, BallotsAreNat DEF TypeOK
<1>2. /\ promised'[a] >= promised[a]
      /\ \A c \in Ballot, w \in Value :
            /\ Voted(a, c, w) => Voted(a, c, w)'
            /\ Voted(a, c, w)' /\ ~Voted(a, c, w) => c >= promised[a]
  BY DEF Monotone
<1>3. promised'[a] >= b
  BY <1>1, <1>2 DEF Promise
<1>4. info.val # None => info.bal < b /\ Voted(a, info.bal, info.val)'
  BY <1>2 DEF Promise, Summary
<1>5. ASSUME NEW c \in Ballot, NEW w \in Value, Voted(a, c, w)', c < b
      PROVE  info.val # None /\ c <= info.bal
  <2>1. ~(c >= promised[a])
    BY <1>1, <1>5 DEF Promise
  <2> QED  BY <1>2, <1>5, <2>1 DEF Promise
<1> QED  BY <1>3, <1>4, <1>5 DEF Promise

\* A value that is safe at b stays safe: promises and votes only grow.
LEMMA SafeStable ==
  ASSUME TypeOK, TypeOK', Monotone, NEW b \in Ballot, NEW v \in Value, SafeAt(b, v)
  PROVE  SafeAt(b, v)'
<1> SUFFICES ASSUME NEW c \in Ballot, c < b
             PROVE  OnlyChoosable(c, v)'
  BY DEF SafeAt
<1>1. PICK Q \in Quorum : \A a \in Q :
          \/ Voted(a, c, v)
          \/ promised[a] > c /\ \A w \in Value : ~Voted(a, c, w)
  BY DEF SafeAt, OnlyChoosable
<1>2. ASSUME NEW a \in Q
      PROVE  \/ Voted(a, c, v)'
             \/ promised'[a] > c /\ \A w \in Value : ~Voted(a, c, w)'
  <2>1. a \in Node
    BY DEF Quorum
  <2>2. promised[a] \in Nat /\ promised'[a] \in Nat /\ c \in Nat
    BY <2>1, BallotAssumption, BallotsAreNat DEF TypeOK
  <2>3. /\ promised'[a] >= promised[a]
        /\ \A w \in Value :
              /\ Voted(a, c, w) => Voted(a, c, w)'
              /\ Voted(a, c, w)' /\ ~Voted(a, c, w) => c >= promised[a]
    BY <2>1 DEF Monotone
  <2> QED  BY <1>1, <2>2, <2>3
<1> QED  BY <1>2 DEF OnlyChoosable

\* A chosen value stays chosen: acceptances are never withdrawn.
LEMMA ChosenStable ==
  ASSUME Monotone, NEW b \in Ballot, NEW v \in Value, ChosenAt(b, v)
  PROVE  ChosenAt(b, v)'
  BY DEF ChosenAt, Monotone, Quorum
------------------------------------------------------------------------------
(* Proposals: one per ballot, and safe. *)

\* The round of n proposes v at its ballot b on the promises got of voters.
Proposes(n, b, v, got, voters, own) ==
    /\ proposals' = proposals \cup {<<b, v>>}
    /\ \A p \in proposals : p[1] # b
    /\ phase'[n] = 2
    /\ b \in Own(n) /\ b <= promised'[n]
    /\ v = chooseValue({got[p] : p \in voters}, own)
    /\ \A a \in voters : got[a] \in Summary /\ Promise(a, b, got[a])'

\* A proposal is only ever made by beginPhase2, from a quorum of promises
\* that name its ballot.
LEMMA ProposalStep ==
  ASSUME IInv, TypeOK', AcceptorSteps, Monotone, VoteInv', [Next]_vars
  PROVE  \/ UNCHANGED proposals
         \/ \E n \in Node, b \in Ballot, v \in Value, voters \in Quorum,
               own \in Value, got \in [Node -> Summary \cup {None}] :
               Proposes(n, b, v, got, voters, own)
<1> USE DEF IInv
<1>1. ASSUME NEW n \in Node, NEW own \in Value, startRound(n, own), ~UNCHANGED proposals
      PROVE  \E b \in Ballot, v \in Value, voters \in Quorum,
                got \in [Node -> Summary \cup {None}] :
                Proposes(n, b, v, got, voters, own)
  <2>1. PICK b \in Ballot :
            /\ b > maxSeen[n] /\ b > promised[n] /\ b \in Own(n)
            /\ IsMajority({n})
            /\ beginPhase2(n, b, b, {accepted[n]}, own, net)
    BY <1>1, RoundOpens, Zenon
  <2>2. PICK info \in Summary : info = accepted[n]
    BY DEF TypeOK
  <2> DEFINE got == [p \in Node |-> info]
             v == chooseValue({info}, own)
  <2>3. b \in Nat /\ promised[n] \in Nat /\ info.bal \in Nat
    BY BallotAssumption, BallotsAreNat DEF TypeOK, Summary
  <2>4. {got[p] : p \in {n}} = {info} /\ got[n] = info
    OBVIOUS
  <2>5. v \in Value
    BY ChosenValueType
  <2> HIDE DEF v
  <2>6. proposals' = proposals \cup {<<b, v>>} /\ phase'[n] = 2
    BY <2>1, <2>2 DEF beginPhase2, v, TypeOK
  <2>7. Accepts(n, b, v)
    <3>1. canAccept(b, b)
      BY <2>3 DEF canAccept
    <3> QED  BY <2>1, <2>2, <3>1 DEF beginPhase2, v
  <2>8. promised'[n] = b /\ votes'[n] = votes[n] \cup {<<b, v>>}
    BY <2>7 DEF Accepts, TypeOK
  <2>9. \A p \in proposals : p[1] # b
    <3> SUFFICES ASSUME NEW p \in proposals, p[1] = b
                 PROVE  FALSE
      OBVIOUS
    <3>1. PICK m \in Node : p[1] \in Own(m) /\ p[1] <= promised[m]
      BY DEF BallotInv
    <3>2. m = n
      BY <2>1, <3>1, BallotsDisjoint
    <3> QED  BY <2>1, <2>3, <3>1, <3>2
  <2>10. Promise(n, b, info)'
    <3>1. /\ info.bal <= promised[n]
          /\ info.val # None => Voted(n, info.bal, info.val)
          /\ \A c \in Ballot, w \in Value :
                Voted(n, c, w) => info.val # None /\ c <= info.bal
      BY <2>2 DEF VoteInv
    <3>2. \A c \in Ballot, w \in Value :
              Voted(n, c, w)' <=> Voted(n, c, w) \/ (c = b /\ w = v)
      BY <2>8 DEF Voted
    <3>3. info.val # None => Voted(n, info.bal, info.val)'
      BY <2>8, <3>1 DEF Voted
    <3> QED  BY <2>1, <2>3, <2>8, <3>1, <3>2, <3>3 DEF Promise
  <2>11. Proposes(n, b, v, got, {n}, own)
    BY <2>1, <2>3, <2>4, <2>6, <2>8, <2>9, <2>10 DEF Proposes, v
  <2>12. {n} \in Quorum /\ got \in [Node -> Summary \cup {None}]
    BY <2>1, MajorityIsQuorum
  <2> QED  BY <2>5, <2>11, <2>12
<1>2. CASE \E n \in Node, v \in Value : handlePropose(n, v)
  BY <1>1, <1>2 DEF handlePropose
<1>3. CASE \E n \in Node : onRetryTimeout(n)
  <2>1. PICK n \in Node : onRetryTimeout(n)
    BY <1>3
  <2>2. myValue[n] \in Value
    BY <2>1 DEF onRetryTimeout, TypeOK
  <2> QED  BY <1>1, <2>1, <2>2 DEF onRetryTimeout
<1>4. ASSUME NEW m \in net, onPromise(m), ~UNCHANGED proposals
      PROVE  \E n \in Node, b \in Ballot, v \in Value, voters \in Quorum,
                own \in Value, got \in [Node -> Summary \cup {None}] :
                Proposes(n, b, v, got, voters, own)
  <2>1. /\ m.from \in Node /\ m.to \in Node /\ m.bal \in Ballot
        /\ m.info \in Summary /\ m.type = "Promise"
    BY <1>4 DEF onPromise, TypeOK, Message
  <2>2. PICK n \in Node : n = m.to
    BY <2>1
  <2>3. PICK b \in Ballot, own \in Value :
            /\ b = myBallot[n] /\ own = myValue[n]
            /\ m.ok /\ proposing[n] /\ phase[n] = 1 /\ m.bal = b
    BY <1>4, <2>2 DEF onPromise, history, TypeOK
  <2>4. PICK got \in [Node -> Summary \cup {None}] :
            got = [promises[n] EXCEPT ![m.from] = m.info]
    BY <2>1 DEF TypeOK
  <2> DEFINE voters == {p \in Node : got[p] # None}
             infos == {got[p] : p \in voters}
             v == chooseValue(infos, own)
  <2>5. /\ IsMajority(voters)
        /\ beginPhase2(n, b, promised[n], infos, own, net \ {m})
    BY <1>4, <2>2, <2>3, <2>4 DEF onPromise, history
  <2>6. infos \in SUBSET Summary
    BY <2>4
  <2>7. v \in Value
    BY <2>6, ChosenValueType
  <2>8. proposals' = proposals \cup {<<b, v>>} /\ phase'[n] = 2
    BY <2>5 DEF beginPhase2, TypeOK
  <2>9. /\ \A p \in proposals : p[1] # b
        /\ b \in Own(n) /\ b <= promised[n]
    BY <2>3 DEF BallotInv
  <2>10. b <= promised'[n]
    <3>1. b \in Nat /\ promised[n] \in Nat /\ promised'[n] \in Nat
      BY BallotAssumption, BallotsAreNat DEF TypeOK
    <3> QED  BY <2>9, <3>1 DEF Monotone
  <2>11. ASSUME NEW a \in voters
         PROVE  got[a] \in Summary /\ Promise(a, b, got[a])'
    <3>1. got[a] \in Summary /\ a \in Node
      BY <2>4
    <3>2. Promise(a, b, got[a])
      <4>1. CASE a = m.from
        BY <2>1, <2>3, <2>4, <4>1 DEF PromiseInv, TypeOK
      <4>2. CASE a # m.from
        <5>1. got[a] = promises[n][a] /\ promises[n][a] # None
          BY <2>4, <3>1, <4>2 DEF TypeOK
        <5> QED  BY <2>3, <3>1, <5>1 DEF PromiseInv
      <4> QED  BY <4>1, <4>2
    <3> QED  BY <3>1, <3>2, PromiseStable
  <2>12. voters \in Quorum
    BY <2>5, MajorityIsQuorum
  <2>13. Proposes(n, b, v, got, voters, own)
    <3> HIDE DEF voters, v
    <3> QED  BY <2>8, <2>9, <2>10, <2>11 DEF Proposes, v
  <2> QED  BY <2>7, <2>12, <2>13
<1>5. CASE \/ \E m \in net : onPrepare(m) \/ onAccept(m) \/ onAccepted(m) \/ onAcceptNack(m)
           \/ \E n, h \in Node : \/ OnSessionConnected(n, h)
                                 \/ ensureConnections(n, h)
                                 \/ OnSessionDisconnected(n, h)
           \/ \E n \in Node : Restart(n)
           \/ UNCHANGED vars
  BY <1>5 DEF onPrepare, onAccept, onAccepted, onAcceptNack, OnSessionConnected,
              ensureConnections, OnSessionDisconnected, Restart, vars, history
<1> QED
  BY <1>2, <1>3, <1>4, <1>5 DEF Next, Handler, Fault, Deliver

\* A ballot carries one value.
LEMMA OneValueStep ==
  ASSUME IInv, TypeOK', AcceptorSteps, Monotone, VoteInv', [Next]_vars
  PROVE  OneValuePerBallot'
<1>1. CASE UNCHANGED proposals
  BY <1>1 DEF IInv, OneValuePerBallot
<1>2. ASSUME NEW n \in Node, NEW b \in Ballot, NEW v \in Value, NEW voters \in Quorum,
             NEW own \in Value, NEW got \in [Node -> Summary \cup {None}],
             Proposes(n, b, v, got, voters, own)
      PROVE  OneValuePerBallot'
  BY <1>2 DEF Proposes, IInv, OneValuePerBallot
<1> QED  BY <1>1, <1>2, ProposalStep

\* The heart of the matter: the adoption rule makes a new proposal safe.
LEMMA SafeStep ==
  ASSUME IInv, TypeOK', AcceptorSteps, Monotone, VoteInv', [Next]_vars
  PROVE  SafeInv'
<1> USE DEF IInv
<1>1. ASSUME NEW p \in proposals PROVE SafeAt(p[1], p[2])'
  <2>1. PICK b \in Ballot, v \in Value : p = <<b, v>>
    BY DEF TypeOK
  <2>2. SafeAt(b, v)
    BY <2>1 DEF SafeInv
  <2>3. SafeAt(b, v)'
    BY <2>2, SafeStable
  <2> QED  BY <2>1, <2>3
<1>2. CASE UNCHANGED proposals
  BY <1>1, <1>2 DEF SafeInv
<1>3. ASSUME NEW n \in Node, NEW b \in Ballot, NEW v \in Value, NEW voters \in Quorum,
             NEW own \in Value, NEW got \in [Node -> Summary \cup {None}],
             Proposes(n, b, v, got, voters, own)
      PROVE  SafeInv'
  <2> DEFINE infos == {got[p] : p \in voters}
  <2>1. infos \in SUBSET Summary /\ voters \subseteq Node
    BY <1>3 DEF Proposes, Quorum
  <2>2. v = chooseValue(infos, own)
    BY <1>3 DEF Proposes
  <2>3. \A c \in Ballot : c \in Nat
    BY BallotAssumption
  <2>4. ASSUME NEW c \in Ballot, c < b
        PROVE  OnlyChoosable(c, v)'
    <3>1. ASSUME NEW a \in voters
          PROVE  /\ promised'[a] > c
                 /\ got[a] \in Summary
                 /\ got[a].val # None => Voted(a, got[a].bal, got[a].val)'
                 /\ \A w \in Value : Voted(a, c, w)' => got[a].val # None /\ c <= got[a].bal
      <4>1. promised'[a] \in Nat
        BY <2>1, BallotsAreNat DEF TypeOK
      <4>2. got[a] \in Summary /\ Promise(a, b, got[a])'
        BY <1>3 DEF Proposes
      <4> QED  BY <2>3, <2>4, <4>1, <4>2 DEF Promise
    <3>2. CASE \A in \in infos : in.val = None
      <4>1. \A a \in voters : promised'[a] > c /\ \A w \in Value : ~Voted(a, c, w)'
        BY <3>1, <3>2
      <4> QED  BY <4>1 DEF OnlyChoosable
    <3>3. ASSUME NEW in \in infos, in.val # None,
                 \A o \in infos : o.val # None => o.bal <= in.bal, v = in.val
          PROVE  OnlyChoosable(c, v)'
      <4>1. PICK x \in voters : got[x] = in
        OBVIOUS
      <4>2. in.bal \in Ballot /\ x \in Node /\ Voted(x, in.bal, v)'
        BY <2>1, <3>1, <3>3, <4>1 DEF Summary
      <4>3. <<in.bal, v>> \in proposals'
        BY <4>2 DEF VoteInv
      <4>4. CASE c > in.bal
        <5>1. \A a \in voters : promised'[a] > c /\ \A w \in Value : ~Voted(a, c, w)'
          BY <2>3, <3>1, <3>3, <4>2, <4>4 DEF Summary
        <5> QED  BY <5>1 DEF OnlyChoosable
      <4>5. CASE c = in.bal
        <5>1. OneValuePerBallot'
          BY OneValueStep
        <5>2. ASSUME NEW a \in voters, NEW w \in Value, Voted(a, c, w)'
              PROVE  w = v
          <6>1. <<c, w>> \in proposals'
            BY <2>1, <5>2 DEF VoteInv
          <6> QED  BY <4>3, <4>5, <5>1, <6>1 DEF OneValuePerBallot
        <5>3. \A a \in voters :
                  \/ Voted(a, c, v)'
                  \/ promised'[a] > c /\ \A w \in Value : ~Voted(a, c, w)'
          BY <3>1, <5>2
        <5> QED  BY <5>3 DEF OnlyChoosable
      <4>6. CASE c < in.bal
        <5>1. <<in.bal, v>> \in proposals
          <6>1. in.bal # b
            <7>1. Promise(x, b, in)'
              BY <1>3, <4>1 DEF Proposes
            <7> QED  BY <2>3, <3>3, <4>2, <7>1 DEF Promise
          <6> QED  BY <1>3, <4>3, <6>1 DEF Proposes
        <5>2. SafeAt(in.bal, v)'
          BY <1>1, <5>1
        <5> QED  BY <4>6, <5>2 DEF SafeAt
      <4> QED  BY <2>3, <4>2, <4>4, <4>5, <4>6
    <3> HIDE DEF infos
    <3> QED  BY <2>1, <2>2, <3>2, <3>3, Adoption
  <2>5. SafeAt(b, v)'
    BY <2>4 DEF SafeAt
  <2> QED  BY <1>1, <1>3, <2>5 DEF SafeInv, Proposes
<1> QED  BY <1>2, <1>3, ProposalStep
------------------------------------------------------------------------------
(* Rounds: how one step changes the proposer of x. *)

RoundKept(x) ==
    /\ myBallot'[x] = myBallot[x]
    /\ phase'[x] = phase[x] \/ (phase[x] = 1 /\ phase'[x] = 2)
    /\ proposing'[x] => proposing[x]

RoundClosed(x) == phase'[x] = 0 /\ ~proposing'[x]

RoundOpened(x) ==
    /\ phase'[x] # 0
    /\ myBallot'[x] \in Own(x)
    /\ promised[x] < myBallot'[x] /\ myBallot'[x] <= promised'[x]
    /\ phase'[x] = 1 => UNCHANGED proposals

\* A step leaves a node's round alone, closes it, or opens a higher one.
LEMMA RoundStep ==
  ASSUME IInv, TypeOK', [Next]_vars
  PROVE  \A x \in Node : RoundKept(x) \/ RoundClosed(x) \/ RoundOpened(x)
<1> USE DEF IInv
<1>1. ASSUME NEW n \in Node, NEW v \in Value, startRound(n, v)
      PROVE  \A x \in Node : RoundKept(x) \/ RoundOpened(x)
  <2>1. PICK b \in Ballot :
            /\ b > promised[n] /\ b \in Own(n)
            /\ myBallot' = [myBallot EXCEPT ![n] = b]
            /\ \/ /\ Promised(n, b)
                  /\ phase' = [phase EXCEPT ![n] = 1]
                  /\ proposing' = [proposing EXCEPT ![n] = TRUE]
                  /\ UNCHANGED <<learnerVars, proposals>>
               \/ beginPhase2(n, b, b, {accepted[n]}, v, net)
    BY <1>1, RoundOpens, Zenon
  <2>2. b \in Nat /\ promised[n] \in Nat
    BY BallotAssumption, BallotsAreNat DEF TypeOK
  <2>3. /\ myBallot'[n] = b
        /\ \A x \in Node \ {n} : myBallot'[x] = myBallot[x]
    BY <2>1 DEF TypeOK
  <2>4. CASE /\ Promised(n, b)
             /\ phase' = [phase EXCEPT ![n] = 1]
             /\ proposing' = [proposing EXCEPT ![n] = TRUE]
             /\ UNCHANGED <<learnerVars, proposals>>
    <3>1. promised'[n] = b
      BY <2>4 DEF Promised, TypeOK
    <3>2. /\ phase'[n] = 1
          /\ \A x \in Node \ {n} : phase'[x] = phase[x] /\ proposing'[x] = proposing[x]
      BY <2>4 DEF TypeOK
    <3>3. RoundOpened(n)
      BY <2>1, <2>2, <2>3, <2>4, <3>1, <3>2 DEF RoundOpened
    <3>4. \A x \in Node \ {n} : RoundKept(x)
      BY <2>3, <3>2, Zenon DEF RoundKept
    <3> QED  BY <3>3, <3>4
  <2>5. CASE beginPhase2(n, b, b, {accepted[n]}, v, net)
    <3>1. {accepted[n]} \in SUBSET Summary /\ net \in SUBSET Message
      BY DEF TypeOK
    <3>2. \A x \in Node \ {n} : proposing'[x] = proposing[x]
      BY <2>5, <3>1, Phase2Type
    <3>3. phase'[n] = 2 /\ \A x \in Node \ {n} : phase'[x] = phase[x]
      BY <2>5 DEF beginPhase2, TypeOK
    <3>4. promised'[n] = b
      <4>1. canAccept(b, b)
        BY <2>2 DEF canAccept
      <4>2. Accepts(n, b, chooseValue({accepted[n]}, v))
        BY <2>5, <4>1 DEF beginPhase2
      <4> QED  BY <4>2 DEF Accepts, TypeOK
    <3>5. RoundOpened(n)
      BY <2>1, <2>2, <2>3, <3>3, <3>4 DEF RoundOpened
    <3>6. \A x \in Node \ {n} : RoundKept(x)
      BY <2>3, <3>2, <3>3, Zenon DEF RoundKept
    <3> QED  BY <3>5, <3>6
  <2> QED  BY <2>1, <2>4, <2>5
<1>2. CASE \E n \in Node, v \in Value : handlePropose(n, v)
  BY <1>1, <1>2 DEF handlePropose
<1>3. CASE \E n \in Node : onRetryTimeout(n)
  <2>1. PICK n \in Node : onRetryTimeout(n)
    BY <1>3
  <2>2. myValue[n] \in Value
    BY <2>1 DEF onRetryTimeout, TypeOK
  <2> QED  BY <1>1, <2>1, <2>2 DEF onRetryTimeout
<1>4. ASSUME NEW m \in net, onPromise(m)
      PROVE  \A x \in Node : RoundKept(x)
  <2>1. /\ m.from \in Node /\ m.to \in Node /\ m.info \in Summary
    BY <1>4 DEF onPromise, TypeOK, Message
  <2> DEFINE n == m.to
             got == [promises[n] EXCEPT ![m.from] = m.info]
             voters == {p \in Node : got[p] # None}
             infos == {got[p] : p \in voters}
  <2>2. myBallot' = myBallot
    BY <1>4 DEF onPromise
  <2>3. CASE /\ proposing[n] /\ phase[n] = 1
             /\ beginPhase2(n, myBallot[n], promised[n], infos, myValue[n], net \ {m})
    <3>1. /\ myBallot[n] \in Ballot /\ myValue[n] \in Value
          /\ net \ {m} \in SUBSET Message /\ infos \in SUBSET Summary
      BY <2>1, <2>3 DEF TypeOK
    <3> HIDE DEF infos
    <3>2. \A x \in Node \ {n} : proposing'[x] = proposing[x]
      BY <2>1, <2>3, <3>1, Phase2Type
    <3>3. phase'[n] = 2 /\ \A x \in Node \ {n} : phase'[x] = phase[x]
      BY <2>1, <2>3 DEF beginPhase2, TypeOK
    <3> QED  BY <2>2, <2>3, <3>2, <3>3, Zenon DEF RoundKept
  <2>4. CASE UNCHANGED <<proposing, phase>>
    BY <2>2, <2>4 DEF RoundKept
  <2> QED  BY <1>4, <2>3, <2>4 DEF onPromise
<1>5. ASSUME NEW m \in net, onAccept(m) \/ onAccepted(m)
      PROVE  \A x \in Node : RoundKept(x)
  <2>1. UNCHANGED <<phase, myBallot>>
    BY <1>5 DEF onAccept, onAccepted
  <2>2. /\ m.to \in Node /\ m.from \in Node /\ m.bal \in Ballot /\ m.val \in Value
        /\ proposing[m.to] \in BOOLEAN
    BY <1>5 DEF onAccept, onAccepted, TypeOK, Message
  <2>3. \/ UNCHANGED proposing
        \/ \E from \in Node : recordAccepted(m.to, m.bal, m.val, from, proposing[m.to])
    BY <1>5, <2>2 DEF onAccept, onAccepted
  <2>4. CASE UNCHANGED proposing
    BY <2>1, <2>4 DEF RoundKept
  <2>5. CASE \E from \in Node : recordAccepted(m.to, m.bal, m.val, from, proposing[m.to])
    <3>1. /\ proposing'[m.to] => proposing[m.to]
          /\ \A x \in Node \ {m.to} : proposing'[x] = proposing[x]
      BY <2>2, <2>5, RecordType
    <3> QED  BY <2>1, <3>1, Zenon DEF RoundKept
  <2> QED  BY <2>3, <2>4, <2>5
<1>6. CASE \/ \E m \in net : onPrepare(m) \/ onAcceptNack(m)
           \/ \E n, h \in Node : \/ OnSessionConnected(n, h)
                                 \/ ensureConnections(n, h)
                                 \/ OnSessionDisconnected(n, h)
           \/ UNCHANGED vars
  <2>1. UNCHANGED <<phase, myBallot, proposing>>
    BY <1>6 DEF onPrepare, onAcceptNack, OnSessionConnected, ensureConnections,
                OnSessionDisconnected, vars, proposerVars
  <2> QED  BY <2>1 DEF RoundKept
<1>7. ASSUME NEW n \in Node, Restart(n)
      PROVE  \A x \in Node : RoundKept(x) \/ RoundClosed(x)
  <2>1. /\ phase'[n] = 0 /\ proposing'[n] = FALSE
        /\ \A x \in Node \ {n} : /\ phase'[x] = phase[x]
                                 /\ myBallot'[x] = myBallot[x]
                                 /\ proposing'[x] = proposing[x]
    BY <1>7 DEF Restart, TypeOK
  <2> QED  BY <2>1, Zenon DEF RoundKept, RoundClosed
<1> QED
  BY <1>2, <1>3, <1>4, <1>5, <1>6, <1>7 DEF Next, Handler, Fault, Deliver

\* Ballots stay with their owners, and a round in Phase 1 has not proposed.
LEMMA BallotStep ==
  ASSUME IInv, TypeOK', AcceptorSteps, Monotone, VoteInv', [Next]_vars
  PROVE  BallotInv'
<1> USE DEF IInv
<1>1. /\ \A n \in Node : /\ promised[n] \in Nat /\ promised'[n] \in Nat
                         /\ promised[n] <= promised'[n]
                         /\ myBallot[n] \in Nat /\ myBallot'[n] \in Nat
      /\ \A p \in proposals : p[1] \in Nat
  <2>1. /\ promised \in [Node -> Ballot] /\ promised' \in [Node -> Ballot]
        /\ myBallot \in [Node -> Ballot] /\ myBallot' \in [Node -> Ballot]
        /\ proposals \subseteq Ballot \X Value
    BY DEF TypeOK
  <2>2. \A n \in Node : promised[n] \in Nat /\ promised'[n] \in Nat
                        /\ myBallot[n] \in Nat /\ myBallot'[n] \in Nat
    BY <2>1, BallotsAreNat
  <2>3. \A p \in proposals : p[1] \in Nat
    BY <2>1, BallotAssumption
  <2> QED  BY <2>2, <2>3 DEF Monotone
<1>2. \A x \in Node : RoundKept(x) \/ RoundClosed(x) \/ RoundOpened(x)
  BY RoundStep
<1>3. ASSUME NEW p \in proposals
      PROVE  \E n \in Node : p[1] \in Own(n) /\ p[1] <= promised'[n]
  <2>1. PICK n \in Node : p[1] \in Own(n) /\ p[1] <= promised[n]
    BY DEF BallotInv
  <2> QED  BY <1>1, <2>1
<1>4. \A p \in proposals' : \E n \in Node : p[1] \in Own(n) /\ p[1] <= promised'[n]
  <2>1. CASE UNCHANGED proposals
    BY <1>3, <2>1
  <2>2. CASE \E n \in Node, b \in Ballot, v \in Value, voters \in Quorum,
               own \in Value, got \in [Node -> Summary \cup {None}] :
               Proposes(n, b, v, got, voters, own)
    BY <1>3, <2>2 DEF Proposes
  <2> QED  BY <2>1, <2>2, ProposalStep
<1>5. ASSUME NEW n \in Node, phase'[n] # 0
      PROVE  myBallot'[n] \in Own(n) /\ myBallot'[n] <= promised'[n]
  <2>1. CASE RoundKept(n)
    BY <1>1, <1>5, <2>1 DEF RoundKept, BallotInv
  <2>2. CASE RoundOpened(n)
    BY <2>2 DEF RoundOpened
  <2> QED  BY <1>2, <1>5, <2>1, <2>2 DEF RoundClosed
<1>6. ASSUME NEW n \in Node, phase'[n] = 1, NEW p \in proposals', p[1] = myBallot'[n]
      PROVE  FALSE
  <2>1. CASE RoundKept(n)
    <3>1. phase[n] = 1 /\ myBallot'[n] = myBallot[n]
      BY <1>6, <2>1 DEF RoundKept
    <3>2. p \notin proposals
      BY <1>6, <3>1 DEF BallotInv
    <3>3. ~UNCHANGED proposals
      BY <1>6, <3>2
    <3>4. PICK m \in Node, b \in Ballot, v \in Value, voters \in Quorum,
               own \in Value, got \in [Node -> Summary \cup {None}] :
               Proposes(m, b, v, got, voters, own)
      BY <3>3, ProposalStep
    <3>5. p = <<b, v>> /\ phase'[m] = 2 /\ b \in Own(m)
      BY <1>6, <3>2, <3>4 DEF Proposes
    <3>6. p[1] = b /\ phase'[n] # 0
      BY <1>6, <3>5
    <3>7. b \in Own(n)
      BY <1>5, <1>6, <3>6
    <3>8. m = n
      BY <3>5, <3>7, BallotsDisjoint
    <3> QED  BY <1>6, <3>5, <3>8
  <2>2. CASE RoundOpened(n)
    <3>1. p \in proposals /\ myBallot'[n] \in Own(n) /\ promised[n] < myBallot'[n]
      BY <1>6, <2>2 DEF RoundOpened
    <3>2. PICK m \in Node : p[1] \in Own(m) /\ p[1] <= promised[m]
      BY <3>1 DEF BallotInv
    <3>3. m = n
      BY <1>6, <3>1, <3>2, BallotsDisjoint
    <3> QED  BY <1>1, <1>6, <3>1, <3>2, <3>3
  <2> QED  BY <1>2, <1>6, <2>1, <2>2 DEF RoundClosed
<1>7. ASSUME NEW n \in Node, proposing'[n]
      PROVE  phase'[n] # 0
  <2>1. CASE RoundKept(n)
    BY <1>7, <2>1 DEF RoundKept, BallotInv
  <2>2. CASE RoundOpened(n)
    BY <2>2 DEF RoundOpened
  <2> QED  BY <1>2, <1>7, <2>1, <2>2 DEF RoundClosed
<1> QED  BY <1>4, <1>5, <1>6, <1>7 DEF BallotInv, Own
------------------------------------------------------------------------------
(* Messages, promises received and the learner's tally. *)

Truthful(m) ==
    /\ m.type = "Promise" /\ m.ok => Promise(m.from, m.bal, m.info)
    /\ m.type = "Accept" => <<m.bal, m.val>> \in proposals
    /\ m.type = "Accepted" => Voted(m.from, m.bal, m.val)

\* What Phase 2a sends is true when it is sent.
LEMMA Phase2Truthful ==
  ASSUME TypeOK, NEW n \in Node, NEW b \in Ballot, NEW prom,
         NEW infos \in SUBSET Summary, NEW own \in Value, NEW inFlight,
         beginPhase2(n, b, prom, infos, own, inFlight)
  PROVE  \A m \in net' : m \in inFlight \/ Truthful(m)'
<1> DEFINE v == chooseValue(infos, own)
<1>1. <<b, v>> \in proposals'
  BY DEF beginPhase2
<1>2. CASE canAccept(b, prom)
  <2>1. /\ Accepts(n, b, v)
        /\ net' = inFlight \cup Sent(AcceptedFrom(n, b, v) \cup AcceptFrom(n, b, v))
    BY <1>2 DEF beginPhase2
  <2> HIDE DEF v
  <2>2. Voted(n, b, v)'
    BY <2>1 DEF Accepts, Voted, TypeOK
  <2> QED  BY <1>1, <2>1, <2>2 DEF Sent, AcceptedFrom, AcceptFrom, Truthful
<1>3. CASE ~canAccept(b, prom)
  <2>1. net' = inFlight \cup Sent(AcceptFrom(n, b, v))
    BY <1>3 DEF beginPhase2
  <2> HIDE DEF v
  <2> QED  BY <1>1, <2>1 DEF Sent, AcceptFrom, Truthful
<1> QED  BY <1>2, <1>3

\* Every message sent is true when it is sent.
LEMMA NetStep ==
  ASSUME IInv, TypeOK', AcceptorSteps, Monotone, VoteInv', [Next]_vars
  PROVE  \A m \in net' : m \in net \/ Truthful(m)'
<1> USE DEF IInv
<1>1. ASSUME NEW n \in Node, NEW v \in Value, startRound(n, v)
      PROVE  \A m \in net' : m \in net \/ Truthful(m)'
  <2>1. PICK b \in Ballot :
            \/ net' = net \cup Sent(PrepareFrom(n, b))
            \/ beginPhase2(n, b, b, {accepted[n]}, v, net)
    BY <1>1, RoundOpens, Zenon
  <2>2. CASE net' = net \cup Sent(PrepareFrom(n, b))
    BY <2>2 DEF Sent, PrepareFrom, Truthful
  <2>3. CASE beginPhase2(n, b, b, {accepted[n]}, v, net)
    <3>1. {accepted[n]} \in SUBSET Summary
      BY DEF TypeOK
    <3> QED  BY <2>3, <3>1, Phase2Truthful
  <2> QED  BY <2>1, <2>2, <2>3
<1>2. CASE \E n \in Node, v \in Value : handlePropose(n, v)
  BY <1>1, <1>2 DEF handlePropose
<1>3. CASE \E n \in Node : onRetryTimeout(n)
  <2>1. PICK n \in Node : onRetryTimeout(n)
    BY <1>3
  <2>2. myValue[n] \in Value
    BY <2>1 DEF onRetryTimeout, TypeOK
  <2> QED  BY <1>1, <2>1, <2>2 DEF onRetryTimeout
<1>4. ASSUME NEW q \in net, onPrepare(q)
      PROVE  \A m \in net' : m \in net \/ Truthful(m)'
  <2>1. PICK n \in Node, b \in Ballot : n = q.to /\ b = q.bal
    BY <1>4 DEF onPrepare, TypeOK, Message
  <2>2. PICK info \in Summary : info = accepted[n]
    BY DEF TypeOK
  <2> DEFINE ok == canPromise(b, promised[n])
  <2>3. ASSUME NEW m \in net', m \notin net
        PROVE  Truthful(m)'
    <3>1. /\ m.type = "Promise" /\ m.from = n /\ m.bal = b
          /\ m.ok = ok /\ m.info = IF ok THEN info ELSE NoSummary
      BY <1>4, <2>1, <2>2, <2>3 DEF onPrepare, Sent
    <3>2. ASSUME ok
          PROVE  Promise(n, b, info)'
      <4>1. Promised(n, b)
        BY <1>4, <2>1, <3>2 DEF onPrepare
      <4>2. promised'[n] = b /\ votes' = votes
        BY <4>1 DEF Promised, TypeOK
      <4>3. b > promised[n]
        BY <3>2 DEF canPromise
      <4>4. b \in Nat /\ promised[n] \in Nat /\ info.bal \in Nat
        BY BallotAssumption, BallotsAreNat DEF TypeOK, Summary
      <4>5. /\ info.bal <= promised[n]
            /\ info.val # None => Voted(n, info.bal, info.val)
            /\ \A c \in Ballot, w \in Value :
                  Voted(n, c, w) => info.val # None /\ c <= info.bal
        BY <2>2 DEF VoteInv
      <4> QED  BY <4>2, <4>3, <4>4, <4>5 DEF Promise, Voted
    <3> HIDE DEF ok
    <3> QED  BY <3>1, <3>2 DEF Truthful
  <2> QED  BY <2>3
<1>5. ASSUME NEW q \in net, onPromise(q)
      PROVE  \A m \in net' : m \in net \/ Truthful(m)'
  <2>1. /\ q.from \in Node /\ q.to \in Node /\ q.info \in Summary
    BY <1>5 DEF onPromise, TypeOK, Message
  <2> DEFINE n == q.to
             got == [promises[n] EXCEPT ![q.from] = q.info]
             voters == {p \in Node : got[p] # None}
             infos == {got[p] : p \in voters}
  <2>2. CASE /\ proposing[n]
             /\ beginPhase2(n, myBallot[n], promised[n], infos, myValue[n], net \ {q})
    <3>1. /\ myBallot[n] \in Ballot /\ myValue[n] \in Value
          /\ infos \in SUBSET Summary
      BY <2>1, <2>2 DEF TypeOK
    <3> HIDE DEF infos
    <3>2. \A m \in net' : m \in (net \ {q}) \/ Truthful(m)'
      BY <2>1, <2>2, <3>1, Phase2Truthful
    <3> QED  BY <3>2
  <2>3. CASE net' = net \ {q}
    BY <2>3
  <2> QED  BY <1>5, <2>2, <2>3 DEF onPromise
<1>6. ASSUME NEW q \in net, onAccept(q)
      PROVE  \A m \in net' : m \in net \/ Truthful(m)'
  <2>1. PICK n \in Node, b \in Ballot, v \in Value : n = q.to /\ b = q.bal /\ v = q.val
    BY <1>6 DEF onAccept, TypeOK, Message
  <2>2. CASE canAccept(b, promised[n])
    <3>1. /\ Accepts(n, b, v)
          /\ net' = (net \ {q}) \cup Sent(AcceptedFrom(n, b, v))
      BY <1>6, <2>1, <2>2 DEF onAccept
    <3>2. Voted(n, b, v)'
      BY <3>1 DEF Accepts, Voted, TypeOK
    <3> QED  BY <3>1, <3>2 DEF Sent, AcceptedFrom, Truthful
  <2>3. CASE ~canAccept(b, promised[n])
    <3> DEFINE nack == [type |-> "AcceptNack", from |-> q.to, to |-> q.from,
                        maxBal |-> promised[q.to]]
    <3>1. net' = (net \ {q}) \cup Sent({nack})
      BY <1>6, <2>1, <2>3 DEF onAccept
    <3>2. nack.type = "AcceptNack"
      OBVIOUS
    <3> HIDE DEF nack
    <3>3. \A m \in net' : m \in net \/ m.type = "AcceptNack"
      BY <3>1, <3>2 DEF Sent
    <3> QED  BY <3>3 DEF Truthful
  <2> QED  BY <2>2, <2>3
<1>7. ASSUME NEW n \in Node, NEW h \in Node, OnSessionConnected(n, h)
      PROVE  \A m \in net' : m \in net \/ Truthful(m)'
  <2>1. ASSUME NEW m \in net', m \notin net
        PROVE  Truthful(m)'
    <3>1. /\ accepted[n].val # None /\ m.type = "Accepted" /\ m.from = n
          /\ m.bal = accepted[n].bal /\ m.val = accepted[n].val
      BY <1>7, <2>1 DEF OnSessionConnected
    <3>2. Voted(n, accepted[n].bal, accepted[n].val) /\ UNCHANGED votes
      BY <1>7, <3>1 DEF VoteInv, OnSessionConnected, history
    <3> QED  BY <3>1, <3>2 DEF Truthful, Voted
  <2> QED  BY <2>1
<1>8. CASE \/ \E m \in net : onAccepted(m) \/ onAcceptNack(m)
           \/ \E n, h \in Node : ensureConnections(n, h) \/ OnSessionDisconnected(n, h)
           \/ \E n \in Node : Restart(n)
           \/ UNCHANGED vars
  <2>1. net' \subseteq net
    BY <1>8 DEF onAccepted, onAcceptNack, ensureConnections,
                OnSessionDisconnected, Restart, vars
  <2> QED  BY <2>1
<1> QED
  BY <1>2, <1>3, <1>4, <1>5, <1>6, <1>7, <1>8 DEF Next, Handler, Fault, Deliver

\* The promises a round holds are promises for its ballot.
Held(x) ==
    phase[x] = 1 =>
        \A a \in Node : promises[x][a] # None =>
            Promise(a, myBallot[x], promises[x][a])

\* Promises a round already holds stay true while the round is untouched.
LEMMA HeldKept ==
  ASSUME IInv, TypeOK', Monotone, NEW x \in Node, phase'[x] = phase[x],
         myBallot'[x] = myBallot[x], promises'[x] = promises[x]
  PROVE  Held(x)'
<1> SUFFICES ASSUME phase'[x] = 1, NEW a \in Node, promises'[x][a] # None
             PROVE  Promise(a, myBallot[x], promises[x][a])'
  BY DEF Held
<1>1. PICK b \in Ballot, info \in Summary : b = myBallot[x] /\ info = promises[x][a]
  BY DEF IInv, TypeOK
<1>2. Promise(a, b, info)
  BY <1>1 DEF IInv, PromiseInv
<1>3. Promise(a, b, info)'
  BY <1>2, PromiseStable DEF IInv
<1> QED  BY <1>1, <1>3 DEF Promise, Voted

\* The promises every round holds are those of its ballot, after any step.
LEMMA HeldStep ==
  ASSUME IInv, TypeOK', AcceptorSteps, Monotone, VoteInv', [Next]_vars
  PROVE  \A x \in Node : Held(x)'
<1> USE DEF IInv
<1>1. ASSUME NEW n \in Node, NEW v \in Value, startRound(n, v)
      PROVE  \A x \in Node : Held(x)'
  <2>1. PICK b \in Ballot :
            /\ b > promised[n]
            /\ myBallot' = [myBallot EXCEPT ![n] = b]
            /\ promises' = [promises EXCEPT ![n] = [Fresh(n) EXCEPT ![n] = accepted[n]]]
            /\ \/ /\ Promised(n, b)
                  /\ phase' = [phase EXCEPT ![n] = 1]
               \/ phase' = [phase EXCEPT ![n] = 2]
    BY <1>1, RoundOpens, Zenon DEF beginPhase2
  <2>2. ASSUME NEW x \in Node, x # n PROVE Held(x)'
    <3>1. phase'[x] = phase[x] /\ myBallot'[x] = myBallot[x] /\ promises'[x] = promises[x]
      BY <2>1, <2>2 DEF TypeOK
    <3> QED  BY <3>1, HeldKept
  <2>3. CASE phase' = [phase EXCEPT ![n] = 2]
    <3>1. phase'[n] = 2
      BY <2>3 DEF TypeOK
    <3> QED  BY <2>2, <3>1 DEF Held
  <2>4. CASE Promised(n, b)
    <3>1. PICK info \in Summary : info = accepted[n]
      BY DEF TypeOK
    <3>2. /\ myBallot'[n] = b
          /\ \A a \in Node : promises'[n][a] = IF a = n THEN info ELSE None
      BY <2>1, <3>1 DEF TypeOK, Fresh
    <3>3. promised'[n] = b /\ votes' = votes
      BY <2>4 DEF Promised, TypeOK
    <3>4. b \in Nat /\ promised[n] \in Nat /\ info.bal \in Nat
      BY BallotAssumption, BallotsAreNat DEF TypeOK, Summary
    <3>5. /\ info.bal <= promised[n]
          /\ info.val # None => Voted(n, info.bal, info.val)
          /\ \A c \in Ballot, w \in Value :
                Voted(n, c, w) => info.val # None /\ c <= info.bal
      BY <3>1 DEF VoteInv
    <3>6. Promise(n, b, info)'
      BY <2>1, <3>3, <3>4, <3>5 DEF Promise, Voted
    <3>7. Held(n)'
      <4> SUFFICES ASSUME NEW a \in Node, promises'[n][a] # None
                   PROVE  Promise(a, myBallot[n], promises[n][a])'
        BY DEF Held
      <4>1. a = n /\ promises'[n][a] = info
        BY <3>2
      <4> QED  BY <3>2, <3>6, <4>1 DEF Promise, Voted
    <3> QED  BY <2>2, <3>7
  <2> QED  BY <2>1, <2>3, <2>4
<1>2. CASE \E n \in Node, v \in Value : handlePropose(n, v)
  BY <1>1, <1>2 DEF handlePropose
<1>3. CASE \E n \in Node : onRetryTimeout(n)
  <2>1. PICK n \in Node : onRetryTimeout(n)
    BY <1>3
  <2>2. myValue[n] \in Value
    BY <2>1 DEF onRetryTimeout, TypeOK
  <2> QED  BY <1>1, <2>1, <2>2 DEF onRetryTimeout
<1>4. ASSUME NEW m \in net, onPromise(m)
      PROVE  \A x \in Node : Held(x)'
  <2>1. /\ m.from \in Node /\ m.to \in Node /\ m.bal \in Ballot
        /\ m.info \in Summary /\ m.type = "Promise"
    BY <1>4 DEF onPromise, TypeOK, Message
  <2>2. PICK n \in Node : n = m.to
    BY <2>1
  <2> DEFINE wanted == /\ m.ok /\ ~Decided(n) /\ proposing[n]
                       /\ phase[n] = 1 /\ m.bal = myBallot[n]
             got == [promises[n] EXCEPT ![m.from] = m.info]
  <2>3. /\ myBallot' = myBallot
        /\ promises' = IF wanted THEN [promises EXCEPT ![n] = got] ELSE promises
        /\ phase' = phase \/ (wanted /\ phase' = [phase EXCEPT ![n] = 2])
    BY <1>4, <2>2 DEF onPromise, beginPhase2
  <2> HIDE DEF got
  <2>4. ASSUME NEW x \in Node, x # n PROVE Held(x)'
    <3>1. phase'[x] = phase[x] /\ myBallot'[x] = myBallot[x] /\ promises'[x] = promises[x]
      BY <2>3, <2>4 DEF TypeOK
    <3> QED  BY <3>1, HeldKept
  <2>5. CASE ~wanted
    <3>1. phase' = phase /\ promises' = promises
      BY <2>3, <2>5
    <3> QED  BY <2>3, <3>1, HeldKept
  <2>6. CASE wanted /\ phase' = phase
    <3>1. PICK b \in Ballot : b = myBallot[n] /\ b = m.bal
      BY <2>1, <2>6
    <3>2. Promise(m.from, b, m.info)'
      <4>1. Promise(m.from, b, m.info)
        BY <2>1, <2>6, <3>1 DEF PromiseInv
      <4> QED  BY <2>1, <4>1, PromiseStable
    <3>3. Held(n)'
      <4> SUFFICES ASSUME NEW a \in Node, promises'[n][a] # None
                   PROVE  Promise(a, myBallot[n], promises[n][a])'
        BY DEF Held
      <4>1. promises'[n][a] = IF a = m.from THEN m.info ELSE promises[n][a]
        BY <2>1, <2>3, <2>6 DEF got, TypeOK
      <4>2. CASE a = m.from
        BY <2>3, <3>1, <3>2, <4>1, <4>2 DEF Promise, Voted
      <4>3. CASE a # m.from
        <5>1. PICK info \in Summary : info = promises[n][a]
          BY <4>1, <4>3 DEF TypeOK
        <5>2. Promise(a, b, info)
          BY <2>6, <3>1, <4>1, <4>3, <5>1 DEF PromiseInv
        <5>3. Promise(a, b, info)'
          BY <5>2, PromiseStable
        <5> QED  BY <2>3, <3>1, <4>1, <4>3, <5>1, <5>3 DEF Promise, Voted
      <4> QED  BY <4>2, <4>3
    <3> QED  BY <2>4, <3>3
  <2>7. CASE phase' = [phase EXCEPT ![n] = 2]
    <3>1. phase'[n] = 2
      BY <2>7 DEF TypeOK
    <3> QED  BY <2>4, <3>1 DEF Held
  <2> QED  BY <2>3, <2>5, <2>6, <2>7
<1>5. CASE \/ \E m \in net : onPrepare(m) \/ onAccept(m) \/ onAccepted(m) \/ onAcceptNack(m)
           \/ \E n, h \in Node : \/ OnSessionConnected(n, h)
                                 \/ ensureConnections(n, h)
                                 \/ OnSessionDisconnected(n, h)
           \/ UNCHANGED vars
  <2>1. UNCHANGED <<phase, myBallot, promises>>
    BY <1>5 DEF onPrepare, onAccept, onAccepted, onAcceptNack, OnSessionConnected,
                ensureConnections, OnSessionDisconnected, vars, proposerVars
  <2> QED  BY <2>1, HeldKept
<1>6. ASSUME NEW n \in Node, Restart(n)
      PROVE  \A x \in Node : Held(x)'
  <2>1. /\ phase'[n] = 0
        /\ \A x \in Node \ {n} : /\ phase'[x] = phase[x]
                                 /\ myBallot'[x] = myBallot[x]
                                 /\ promises'[x] = promises[x]
    BY <1>6 DEF Restart, TypeOK
  <2>2. Held(n)'
    BY <2>1 DEF Held
  <2> QED  BY <2>1, <2>2, HeldKept
<1> QED
  BY <1>2, <1>3, <1>4, <1>5, <1>6 DEF Next, Handler, Fault, Deliver

\* Promises, in flight and received, stay true.
LEMMA PromiseStep ==
  ASSUME IInv, TypeOK', AcceptorSteps, Monotone, VoteInv', [Next]_vars
  PROVE  PromiseInv'
<1>1. ASSUME NEW m \in net', m.type = "Promise", m.ok
      PROVE  Promise(m.from, m.bal, m.info)'
  <2>1. CASE Truthful(m)'
    BY <1>1, <2>1 DEF Truthful
  <2>2. CASE m \in net
    <3>1. m.from \in Node /\ m.bal \in Ballot /\ m.info \in Summary
      BY <1>1, <2>2 DEF IInv, TypeOK, Message
    <3>2. Promise(m.from, m.bal, m.info)
      BY <1>1, <2>2 DEF IInv, PromiseInv
    <3> QED  BY <3>1, <3>2, PromiseStable DEF IInv
  <2> QED  BY <2>1, <2>2, NetStep
<1>2. \A x \in Node : Held(x)'
  BY HeldStep
<1> QED  BY <1>1, <1>2 DEF PromiseInv, Held

\* What the learner of x has tallied and decided is true of the voting.
Tallied(x) ==
    /\ \A a \in Node, b \in Ballot :
          a \in accepts[x][b] => Voted(a, b, valueAt[x][b])
    /\ \A b \in Ballot : valueAt[x][b] # None => <<b, valueAt[x][b]>> \in proposals
    /\ Decided(x) => ChosenAt(decision[x].bal, decision[x].val)

\* A tally nobody touches stays true: the votes it counted remain.
LEMMA TallyKept ==
  ASSUME IInv, TypeOK', Monotone, proposals \subseteq proposals', NEW x \in Node,
         accepts'[x] = accepts[x], valueAt'[x] = valueAt[x],
         decision'[x] = decision[x]
  PROVE  Tallied(x)'
<1> USE DEF IInv
<1>1. ASSUME NEW a \in Node, NEW b \in Ballot, a \in accepts'[x][b]
      PROVE  Voted(a, b, valueAt[x][b])'
  <2>1. Voted(a, b, valueAt[x][b])
    BY <1>1 DEF LearnInv
  <2>2. PICK v \in Value : v = valueAt[x][b]
    BY <2>1 DEF Voted, TypeOK
  <2>3. Voted(a, b, v)'
    BY <2>1, <2>2 DEF Monotone
  <2> QED  BY <2>2, <2>3 DEF Voted
<1>2. \A b \in Ballot : valueAt'[x][b] # None => <<b, valueAt'[x][b]>> \in proposals'
  BY DEF LearnInv
<1>3. ASSUME Decided(x)'
      PROVE  ChosenAt(decision[x].bal, decision[x].val)'
  <2>1. PICK b \in Ballot, v \in Value : b = decision[x].bal /\ v = decision[x].val
    BY <1>3 DEF Decided, TypeOK, Summary
  <2>2. ChosenAt(b, v)
    BY <1>3, <2>1 DEF DecisionIsChosen, Decided
  <2>3. ChosenAt(b, v)'
    BY <2>2, ChosenStable
  <2> QED  BY <2>1, <2>3 DEF ChosenAt, Voted
<1> QED  BY <1>1, <1>2, <1>3 DEF Tallied

\* Tallying a vote that was cast keeps the tally true, and a majority of the
\* tally of a ballot is a choice.
LEMMA RecordTallied ==
  ASSUME IInv, TypeOK', Monotone, VoteInv', OneValuePerBallot',
         proposals \subseteq proposals',
         NEW n \in Node, NEW b \in Ballot, NEW v \in Value,
         NEW from \in Node, NEW active,
         recordAccepted(n, b, v, from, active), Voted(from, b, v)'
  PROVE  \A x \in Node : Tallied(x)'
<1> USE DEF IInv
<1>1. CASE Decided(n) \/ from \in accepts[n][b]
  <2>1. UNCHANGED <<accepts, valueAt, decision>>
    BY <1>1 DEF recordAccepted, learnerVars
  <2> QED  BY <2>1, TallyKept
<1>2. CASE ~(Decided(n) \/ from \in accepts[n][b])
  <2>1. PICK set \in SUBSET Node : set = accepts[n][b] \cup {from}
    <3>1. accepts[n][b] \cup {from} \in SUBSET Node
      BY DEF TypeOK
    <3> QED  BY <3>1
  <2>2. PICK val \in Value : val = IF valueAt[n][b] = None THEN v ELSE valueAt[n][b]
    BY DEF TypeOK
  <2>3. /\ accepts' = [accepts EXCEPT ![n] = [@ EXCEPT ![b] = set]]
        /\ valueAt' = [valueAt EXCEPT ![n] = [@ EXCEPT ![b] = val]]
        /\ \/ /\ IsMajority(set)
              /\ decision' = [decision EXCEPT ![n] = [bal |-> b, val |-> val]]
           \/ decision' = decision
    BY <1>2, <2>1, <2>2 DEF recordAccepted
  <2>4. ASSUME NEW x \in Node, x # n PROVE Tallied(x)'
    <3>1. accepts'[x] = accepts[x] /\ valueAt'[x] = valueAt[x] /\ decision'[x] = decision[x]
      BY <2>3, <2>4 DEF TypeOK
    <3> QED  BY <3>1, TallyKept
  <2>5. /\ \A c \in Ballot : accepts'[n][c] = IF c = b THEN set ELSE accepts[n][c]
        /\ \A c \in Ballot : valueAt'[n][c] = IF c = b THEN val ELSE valueAt[n][c]
    BY <2>3 DEF TypeOK
  <2>6. <<b, v>> \in proposals'
    BY DEF VoteInv
  <2>7. val = v
    <3>1. CASE valueAt[n][b] = None
      BY <2>2, <3>1
    <3>2. CASE valueAt[n][b] # None
      <4>1. <<b, val>> \in proposals'
        BY <2>2, <3>2 DEF LearnInv
      <4> QED  BY <2>6, <4>1 DEF OneValuePerBallot
    <3> QED  BY <3>1, <3>2
  <2>8. ASSUME NEW a \in set PROVE Voted(a, b, val)'
    <3>1. CASE a = from
      BY <2>7, <3>1
    <3>2. CASE a # from
      <4>1. a \in Node /\ a \in accepts[n][b]
        BY <2>1, <3>2
      <4>2. Voted(a, b, valueAt[n][b])
        BY <4>1 DEF LearnInv
      <4>3. valueAt[n][b] = val
        <5>1. valueAt[n][b] \in Value
          BY <4>1, <4>2 DEF Voted, TypeOK
        <5> QED  BY <2>2, <5>1, ValueAssumption
      <4> QED  BY <4>1, <4>2, <4>3 DEF Monotone
    <3> QED  BY <3>1, <3>2
  <2>9. ASSUME NEW a \in Node, NEW c \in Ballot, a \in accepts'[n][c]
        PROVE  Voted(a, c, valueAt[n][c])'
    <3>1. CASE c = b
      <4>1. Voted(a, b, val)'
        BY <2>5, <2>8, <2>9, <3>1
      <4> QED  BY <2>5, <3>1, <4>1 DEF Voted
    <3>2. CASE c # b
      <4>1. a \in accepts[n][c]
        BY <2>5, <2>9, <3>2
      <4>2. Voted(a, c, valueAt[n][c])
        BY <4>1 DEF LearnInv
      <4>3. PICK w \in Value : w = valueAt[n][c]
        BY <4>2 DEF Voted, TypeOK
      <4>4. Voted(a, c, w)' /\ valueAt'[n][c] = w
        BY <2>5, <3>2, <4>2, <4>3 DEF Monotone
      <4> QED  BY <4>4 DEF Voted
    <3> QED  BY <3>1, <3>2
  <2>10. ASSUME NEW c \in Ballot, valueAt'[n][c] # None
         PROVE  <<c, valueAt'[n][c]>> \in proposals'
    <3>1. CASE c = b
      BY <2>5, <2>6, <2>7, <3>1
    <3>2. CASE c # b
      BY <2>5, <2>10, <3>2 DEF LearnInv
    <3> QED  BY <3>1, <3>2
  <2>11. Decided(n)' => ChosenAt(decision[n].bal, decision[n].val)'
    <3>1. CASE IsMajority(set) /\ decision' = [decision EXCEPT ![n] = [bal |-> b, val |-> val]]
      <4>1. decision'[n].bal = b /\ decision'[n].val = val
        BY <3>1 DEF TypeOK
      <4>2. ChosenAt(b, val)'
        BY <2>8, <3>1, MajorityIsQuorum DEF ChosenAt
      <4> QED  BY <4>1, <4>2 DEF ChosenAt, Voted
    <3>2. CASE decision' = decision
      BY <1>2, <3>2 DEF Decided
    <3> QED  BY <2>3, <3>1, <3>2
  <2>12. Tallied(n)'
    BY <2>9, <2>10, <2>11 DEF Tallied
  <2> QED  BY <2>4, <2>12
<1> QED  BY <1>1, <1>2

\* The proposer's own acceptance is tallied after it was cast.
LEMMA Phase2Tallied ==
  ASSUME IInv, TypeOK', Monotone, VoteInv', OneValuePerBallot',
         proposals \subseteq proposals',
         NEW n \in Node, NEW b \in Ballot, NEW prom,
         NEW infos \in SUBSET Summary, NEW own \in Value, NEW inFlight,
         beginPhase2(n, b, prom, infos, own, inFlight)
  PROVE  \A x \in Node : Tallied(x)'
<1>1. PICK v \in Value : v = chooseValue(infos, own)
  BY ChosenValueType
<1>2. CASE canAccept(b, prom)
  <2>1. Accepts(n, b, v) /\ recordAccepted(n, b, v, n, TRUE)
    BY <1>1, <1>2 DEF beginPhase2
  <2>2. Voted(n, b, v)'
    BY <2>1 DEF Accepts, Voted, IInv, TypeOK
  <2> QED  BY <2>1, <2>2, RecordTallied
<1>3. CASE ~canAccept(b, prom)
  <2>1. UNCHANGED <<accepts, valueAt, decision>>
    BY <1>3 DEF beginPhase2, learnerVars
  <2> QED  BY <2>1, TallyKept
<1> QED  BY <1>2, <1>3

\* Every tally counts votes that were really cast, after any step.
LEMMA TallyStep ==
  ASSUME IInv, TypeOK', AcceptorSteps, Monotone, VoteInv', OneValuePerBallot', [Next]_vars
  PROVE  \A x \in Node : Tallied(x)'
<1> USE DEF IInv
<1>0. proposals \subseteq proposals'
  BY DEF AcceptorSteps
<1>1. ASSUME NEW n \in Node, NEW v \in Value, startRound(n, v)
      PROVE  \A x \in Node : Tallied(x)'
  <2>1. PICK b \in Ballot :
            \/ UNCHANGED <<learnerVars, proposals>>
            \/ beginPhase2(n, b, b, {accepted[n]}, v, net)
    BY <1>1, RoundOpens, Zenon
  <2>2. CASE UNCHANGED <<learnerVars, proposals>>
    BY <1>0, <2>2, TallyKept DEF learnerVars
  <2>3. CASE beginPhase2(n, b, b, {accepted[n]}, v, net)
    <3>1. {accepted[n]} \in SUBSET Summary
      BY DEF TypeOK
    <3> QED  BY <1>0, <2>3, <3>1, Phase2Tallied
  <2> QED  BY <2>1, <2>2, <2>3
<1>2. CASE \E n \in Node, v \in Value : handlePropose(n, v)
  BY <1>1, <1>2 DEF handlePropose
<1>3. CASE \E n \in Node : onRetryTimeout(n)
  <2>1. PICK n \in Node : onRetryTimeout(n)
    BY <1>3
  <2>2. myValue[n] \in Value
    BY <2>1 DEF onRetryTimeout, TypeOK
  <2> QED  BY <1>1, <2>1, <2>2 DEF onRetryTimeout
<1>4. ASSUME NEW m \in net, onPromise(m)
      PROVE  \A x \in Node : Tallied(x)'
  <2>1. /\ m.from \in Node /\ m.to \in Node /\ m.info \in Summary
    BY <1>4 DEF onPromise, TypeOK, Message
  <2> DEFINE n == m.to
             got == [promises[n] EXCEPT ![m.from] = m.info]
             voters == {p \in Node : got[p] # None}
             infos == {got[p] : p \in voters}
  <2>2. CASE /\ proposing[n]
             /\ beginPhase2(n, myBallot[n], promised[n], infos, myValue[n], net \ {m})
    <3>1. /\ myBallot[n] \in Ballot /\ myValue[n] \in Value
          /\ infos \in SUBSET Summary
      BY <2>1, <2>2 DEF TypeOK
    <3> HIDE DEF infos
    <3> QED  BY <1>0, <2>1, <2>2, <3>1, Phase2Tallied
  <2>3. CASE UNCHANGED learnerVars
    BY <1>0, <2>3, TallyKept DEF learnerVars
  <2> QED  BY <1>4, <2>2, <2>3 DEF onPromise
<1>5. ASSUME NEW m \in net, onAccept(m)
      PROVE  \A x \in Node : Tallied(x)'
  <2>1. m.to \in Node /\ m.bal \in Ballot /\ m.val \in Value
    BY <1>5 DEF onAccept, TypeOK, Message
  <2>2. CASE canAccept(m.bal, promised[m.to])
    <3>1. /\ Accepts(m.to, m.bal, m.val)
          /\ recordAccepted(m.to, m.bal, m.val, m.to, proposing[m.to])
      BY <1>5, <2>2 DEF onAccept
    <3>2. Voted(m.to, m.bal, m.val)'
      BY <2>1, <3>1 DEF Accepts, Voted, TypeOK
    <3> QED  BY <1>0, <2>1, <3>1, <3>2, RecordTallied
  <2>3. CASE ~canAccept(m.bal, promised[m.to])
    BY <1>0, <1>5, <2>3, TallyKept DEF onAccept, learnerVars
  <2> QED  BY <2>2, <2>3
<1>6. ASSUME NEW m \in net, onAccepted(m)
      PROVE  \A x \in Node : Tallied(x)'
  <2>1. m.to \in Node /\ m.from \in Node /\ m.bal \in Ballot /\ m.val \in Value
    BY <1>6 DEF onAccepted, TypeOK, Message
  <2>2. recordAccepted(m.to, m.bal, m.val, m.from, proposing[m.to])
    BY <1>6 DEF onAccepted
  <2>3. Voted(m.from, m.bal, m.val)'
    BY <1>6, <2>1 DEF onAccepted, LearnInv, Monotone
  <2> QED  BY <1>0, <2>1, <2>2, <2>3, RecordTallied
<1>7. CASE \/ \E m \in net : onPrepare(m) \/ onAcceptNack(m)
           \/ \E n, h \in Node : \/ OnSessionConnected(n, h)
                                 \/ ensureConnections(n, h)
                                 \/ OnSessionDisconnected(n, h)
           \/ UNCHANGED vars
  <2>1. UNCHANGED <<accepts, valueAt, decision>>
    BY <1>7 DEF onPrepare, onAcceptNack, OnSessionConnected, ensureConnections,
                OnSessionDisconnected, vars, learnerVars
  <2> QED  BY <1>0, <2>1, TallyKept
<1>8. ASSUME NEW n \in Node, Restart(n)
      PROVE  \A x \in Node : Tallied(x)'
  <2>1. /\ \A b \in Ballot : accepts'[n][b] = {} /\ valueAt'[n][b] = None
        /\ decision'[n].val = None
        /\ \A x \in Node \ {n} : /\ accepts'[x] = accepts[x]
                                 /\ valueAt'[x] = valueAt[x]
                                 /\ decision'[x] = decision[x]
    BY <1>8 DEF Restart, TypeOK, NoSummary
  <2>2. Tallied(n)'
    BY <2>1 DEF Tallied, Decided
  <2> QED  BY <1>0, <2>1, <2>2, TallyKept
<1> QED
  BY <1>2, <1>3, <1>4, <1>5, <1>6, <1>7, <1>8 DEF Next, Handler, Fault, Deliver
------------------------------------------------------------------------------
(* The invariant, and what follows from it. *)

\* The inductive invariant holds of freshly started nodes.
LEMMA InvInit == Init => IInv
<1> SUFFICES ASSUME Init PROVE IInv
  OBVIOUS
<1>1. TypeOK
  BY TypeInit
<1>2. AcceptorInv /\ VoteInv
  BY DEF Init, Booted, AcceptorInv, VoteInv, NoSummary, Voted
<1>3. BallotInv /\ OneValuePerBallot /\ SafeInv
  BY DEF Init, Booted, BallotInv, OneValuePerBallot, SafeInv
<1>4. PromiseInv /\ LearnInv /\ DecisionIsChosen
  BY DEF Init, Booted, PromiseInv, LearnInv, DecisionIsChosen, Decided, NoSummary
<1> QED  BY <1>1, <1>2, <1>3, <1>4 DEF IInv

\* Every handler, disconnection and restart preserves the invariant.
LEMMA InvStep ==
  ASSUME IInv, [Next]_vars
  PROVE  IInv'
<1>1. TypeOK'
  BY TypeStep DEF IInv
<1>2. AcceptorInv' /\ AcceptorSteps
  BY <1>1, AcceptorStep
<1>3. VoteInv' /\ Monotone
  BY <1>1, <1>2, VoteStep
<1>4. BallotInv'
  BY <1>1, <1>2, <1>3, BallotStep
<1>5. OneValuePerBallot'
  BY <1>1, <1>2, <1>3, OneValueStep
<1>6. SafeInv'
  BY <1>1, <1>2, <1>3, SafeStep
<1>7. PromiseInv'
  BY <1>1, <1>2, <1>3, PromiseStep
<1>8. \A x \in Node : Tallied(x)'
  BY <1>1, <1>2, <1>3, <1>5, TallyStep
<1>9. LearnInv'
  <2>1. ASSUME NEW m \in net', m.type = "Accept"
        PROVE  <<m.bal, m.val>> \in proposals'
    BY <1>1, <1>2, <1>3, <2>1, NetStep DEF IInv, LearnInv, Truthful, AcceptorSteps
  <2>2. ASSUME NEW m \in net', m.type = "Accepted"
        PROVE  Voted(m.from, m.bal, m.val)'
    <3>1. CASE Truthful(m)'
      BY <2>2, <3>1 DEF Truthful
    <3>2. CASE m \in net
      <4>1. m.from \in Node /\ m.bal \in Ballot /\ m.val \in Value
        BY <2>2, <3>2 DEF IInv, TypeOK, Message
      <4>2. Voted(m.from, m.bal, m.val)
        BY <2>2, <3>2 DEF IInv, LearnInv
      <4> QED  BY <1>3, <4>1, <4>2 DEF Monotone
    <3> QED  BY <1>1, <1>2, <1>3, <3>1, <3>2, NetStep
  <2> QED  BY <1>8, <2>1, <2>2 DEF LearnInv, Tallied
<1>10. DecisionIsChosen'
  BY <1>8 DEF DecisionIsChosen, Tallied
<1> QED
  BY <1>1, <1>2, <1>3, <1>4, <1>5, <1>6, <1>7, <1>9, <1>10 DEF IInv

\* The inductive invariant holds of every synod.
THEOREM Invariance == Spec => []IInv
<1>1. IInv /\ [Next]_vars => IInv'
  BY InvStep
<1> QED  BY InvInit, <1>1, PTL DEF Spec

\* The invariant implies that a chosen value is the only one proposed above.
LEMMA Forced == IInv => ChosenIsForced
<1> SUFFICES ASSUME IInv, NEW p \in proposals, NEW b \in Ballot, NEW v \in Value,
                    ChosenAt(b, v), p[1] >= b
             PROVE  p[2] = v
  BY DEF ChosenIsForced
<1> USE DEF IInv
<1>1. PICK c \in Ballot, w \in Value : p = <<c, w>>
  BY DEF TypeOK
<1>2. PICK Q \in Quorum : \A a \in Q : Voted(a, b, v)
  BY DEF ChosenAt
<1>3. c >= b /\ c \in Nat /\ b \in Nat
  BY <1>1, BallotAssumption
<1>4. \A a \in Node, u \in Value : Voted(a, b, u) => <<b, u>> \in proposals
  BY DEF VoteInv
<1>5. CASE c = b
  <2>1. PICK a \in Q : TRUE
    BY QuorumsIntersect
  <2>2. <<b, v>> \in proposals
    BY <1>2, <1>4, <2>1 DEF Quorum
  <2> QED  BY <1>1, <1>5, <2>2 DEF OneValuePerBallot
<1>6. CASE c > b
  <2>1. OnlyChoosable(b, w)
    BY <1>1, <1>6 DEF SafeInv, SafeAt
  <2>2. PICK P \in Quorum : \A a \in P :
            \/ Voted(a, b, w)
            \/ promised[a] > b /\ \A u \in Value : ~Voted(a, b, u)
    BY <2>1 DEF OnlyChoosable
  <2>3. PICK a \in P : a \in Q
    BY QuorumsIntersect
  <2>4. Voted(a, b, w) /\ Voted(a, b, v) /\ a \in Node
    BY <1>2, <2>2, <2>3 DEF Quorum
  <2>5. <<b, w>> \in proposals /\ <<b, v>> \in proposals
    BY <1>4, <2>4
  <2> QED  BY <1>1, <2>5 DEF OneValuePerBallot
<1> QED  BY <1>3, <1>5, <1>6

\* The invariant implies agreement.
LEMMA Agreed == IInv => Agreement
<1> SUFFICES ASSUME IInv, NEW v \in Chosen, NEW w \in Chosen
             PROVE  v = w
  BY DEF Agreement
<1>1. PICK b \in Ballot : ChosenAt(b, v)
  BY DEF Chosen
<1>2. PICK c \in Ballot : ChosenAt(c, w)
  BY DEF Chosen
<1>3. v \in Value /\ w \in Value /\ b \in Nat /\ c \in Nat
  BY BallotAssumption DEF Chosen
<1>4. ASSUME NEW d \in Ballot, NEW u \in Value, ChosenAt(d, u)
      PROVE  <<d, u>> \in proposals
  <2>1. PICK Q \in Quorum : \A a \in Q : Voted(a, d, u)
    BY <1>4 DEF ChosenAt
  <2>2. PICK a \in Q : TRUE
    BY QuorumsIntersect
  <2> QED  BY <2>1, <2>2 DEF IInv, VoteInv, Quorum
<1>5. <<b, v>> \in proposals /\ <<c, w>> \in proposals
  BY <1>1, <1>2, <1>3, <1>4
<1>6. CASE b >= c
  BY <1>2, <1>3, <1>5, <1>6, Forced DEF ChosenIsForced
<1>7. CASE c >= b
  BY <1>1, <1>3, <1>5, <1>7, Forced DEF ChosenIsForced
<1> QED  BY <1>3, <1>6, <1>7

\* Agreement: for every synod, every value set and every run of crashes,
\* losses and duelling rounds, at most one value is accepted by a majority.
THEOREM AgreementHolds == Spec => []Agreement
  BY Invariance, Agreed, PTL

\* The claim under chooseValue: no proposal above a chosen ballot differs.
THEOREM ChoiceIsForced == Spec => []ChosenIsForced
  BY Invariance, Forced, PTL

\* recordAccepted decides only what a majority accepted.
THEOREM DecisionsAreChosen == Spec => []DecisionIsChosen
<1>1. IInv => DecisionIsChosen
  BY DEF IInv
<1> QED  BY <1>1, Invariance, PTL

\* recordAccepted may count per ballot: a ballot carries one value, across
\* nodes and restarts.
THEOREM BallotsCarryOneValue == Spec => []OneValuePerBallot
<1>1. IInv => OneValuePerBallot
  BY DEF IInv
<1> QED  BY <1>1, Invariance, PTL

\* No handler and no restart lowers a promised or an accepted ballot.
THEOREM PromisesKept == Spec => PromisesAreKept
<1>1. ASSUME IInv, [Next]_vars
      PROVE  [\A n \in Node : /\ promised'[n] >= promised[n]
                              /\ accepted'[n].bal >= accepted[n].bal]_vars
  <2>1. TypeOK' /\ AcceptorSteps
    BY <1>1, TypeStep, AcceptorStep DEF IInv
  <2>2. ASSUME NEW n \in Node
        PROVE  promised'[n] >= promised[n] /\ accepted'[n].bal >= accepted[n].bal
    <3>1. promised'[n] >= promised[n]
      BY <1>1, <2>1, VoteStep DEF Monotone
    <3>2. accepted[n].bal <= promised[n]
      BY <1>1 DEF IInv, VoteInv
    <3>3. /\ accepted[n].bal \in Nat /\ promised[n] \in Nat
          /\ \A b \in Ballot : b \in Nat
      BY <1>1, BallotAssumption, BallotsAreNat DEF IInv, TypeOK, Summary
    <3>4. \/ accepted'[n] = accepted[n]
          \/ \E b \in Ballot, v \in Value :
                b >= promised[n] /\ accepted'[n] = [bal |-> b, val |-> v]
      BY <2>1 DEF AcceptorSteps, Idle, Promises, Votes
    <3>5. CASE accepted'[n] = accepted[n]
      BY <3>1, <3>3, <3>5
    <3>6. CASE \E b \in Ballot, v \in Value :
                 b >= promised[n] /\ accepted'[n] = [bal |-> b, val |-> v]
      <4>1. PICK b \in Ballot, v \in Value :
                 b >= promised[n] /\ accepted'[n] = [bal |-> b, val |-> v]
        BY <3>6
      <4>2. accepted'[n].bal = b
        BY <4>1
      <4>3. b \in Nat
        BY <3>3
      <4>4. b >= accepted[n].bal
        BY <3>2, <3>3, <4>1, <4>3
      <4> QED  BY <3>1, <4>2, <4>4
    <3> QED  BY <3>4, <3>5, <3>6
  <2> QED  BY <2>2
<1> QED  BY <1>1, Invariance, PTL DEF Spec, PromisesAreKept
------------------------------------------------------------------------------
(* The synod implements a single choice. *)

\* A step chooses at most one value, and never another.
LEMMA ChosenStep ==
  ASSUME IInv, IInv', Monotone
  PROVE  Chosen' = Chosen \/ (Chosen = {} /\ \E v \in Value : Chosen' = {v})
<1>1. Chosen \subseteq Chosen'
  BY ChosenStable DEF Chosen
<1>2. /\ \A v, w \in Chosen' : v = w
      /\ Chosen' \subseteq Value
  <2>1. (IInv => Agreement)'
    BY Agreed, PTL
  <2> QED  BY <2>1 DEF Agreement, Chosen
<1>3. CASE Chosen # {}
  BY <1>1, <1>2, <1>3
<1>4. CASE Chosen = {} /\ Chosen' # {}
  BY <1>2, <1>4
<1> QED  BY <1>3, <1>4

\* A step changes at most one decision: from none to a choice, or to none.
LEMMA DecisionStep ==
  ASSUME IInv, TypeOK', [Next]_vars
  PROVE  \/ UNCHANGED decision
         \/ \E n \in Node, d \in Summary :
               /\ decision' = [decision EXCEPT ![n] = d]
               /\ d.val = None \/ decision[n].val = None
<1> USE DEF IInv
<1>1. ASSUME NEW n \in Node, NEW b, NEW v, NEW from, NEW active,
             recordAccepted(n, b, v, from, active)
      PROVE  \/ UNCHANGED decision
             \/ \E x \in Node, d \in Summary :
                   /\ decision' = [decision EXCEPT ![x] = d]
                   /\ d.val = None \/ decision[x].val = None
  <2>1. CASE UNCHANGED decision
    BY <2>1
  <2>2. CASE ~UNCHANGED decision
    <3>1. PICK val : decision' = [decision EXCEPT ![n] = [bal |-> b, val |-> val]]
      BY <1>1, <2>2 DEF recordAccepted, learnerVars
    <3>2. decision[n].val = None
      BY <1>1, <2>2 DEF recordAccepted, learnerVars, Decided
    <3>3. [bal |-> b, val |-> val] \in Summary
      BY <3>1 DEF TypeOK
    <3> QED  BY <3>1, <3>2, <3>3
  <2> QED  BY <2>1, <2>2
<1>2. ASSUME NEW n \in Node, NEW b, NEW prom, NEW infos, NEW own, NEW inFlight,
             beginPhase2(n, b, prom, infos, own, inFlight)
      PROVE  \/ UNCHANGED decision
             \/ \E x \in Node, d \in Summary :
                   /\ decision' = [decision EXCEPT ![x] = d]
                   /\ d.val = None \/ decision[x].val = None
  BY <1>1, <1>2 DEF beginPhase2, learnerVars
<1>3. CASE \E n \in Node : \E v \in Value : startRound(n, v)
  <2>1. PICK n \in Node : \E v \in Value : startRound(n, v)
    BY <1>3
  <2>2. PICK v \in Value, b \in Ballot :
            \/ UNCHANGED <<learnerVars, proposals>>
            \/ beginPhase2(n, b, b, {accepted[n]}, v, net)
    BY <2>1, RoundOpens, Zenon
  <2> QED  BY <1>2, <2>2 DEF learnerVars
<1>4. CASE \E n \in Node : onRetryTimeout(n)
  <2>1. PICK n \in Node : onRetryTimeout(n)
    BY <1>4
  <2>2. myValue[n] \in Value
    BY <2>1 DEF onRetryTimeout, TypeOK
  <2> QED  BY <1>3, <2>1, <2>2 DEF onRetryTimeout
<1>5. ASSUME NEW m \in net, onPromise(m)
      PROVE  \/ UNCHANGED decision
             \/ \E x \in Node, d \in Summary :
                   /\ decision' = [decision EXCEPT ![x] = d]
                   /\ d.val = None \/ decision[x].val = None
  <2>1. m.to \in Node
    BY <1>5 DEF onPromise, TypeOK, Message
  <2> QED  BY <1>2, <1>5, <2>1 DEF onPromise, learnerVars
<1>6. ASSUME NEW m \in net, onAccept(m) \/ onAccepted(m)
      PROVE  \/ UNCHANGED decision
             \/ \E x \in Node, d \in Summary :
                   /\ decision' = [decision EXCEPT ![x] = d]
                   /\ d.val = None \/ decision[x].val = None
  <2>1. m.to \in Node
    BY <1>6 DEF onAccept, onAccepted, TypeOK, Message
  <2> QED  BY <1>1, <1>6, <2>1 DEF onAccept, onAccepted, learnerVars
<1>7. CASE \/ \E m \in net : onPrepare(m) \/ onAcceptNack(m)
           \/ \E n, h \in Node : \/ OnSessionConnected(n, h)
                                 \/ ensureConnections(n, h)
                                 \/ OnSessionDisconnected(n, h)
           \/ UNCHANGED vars
  BY <1>7 DEF onPrepare, onAcceptNack, OnSessionConnected, ensureConnections,
              OnSessionDisconnected, vars, learnerVars
<1>8. CASE \E n \in Node : Restart(n)
  <2>1. NoSummary \in Summary /\ NoSummary.val = None
    BY BallotAssumption DEF NoSummary, Summary
  <2> QED  BY <1>8, <2>1 DEF Restart
<1> QED
  BY <1>3, <1>4, <1>5, <1>6, <1>7, <1>8
  DEF Next, Handler, Fault, Deliver, handlePropose

\* The promise of the package, in full: one value is chosen once and for ever,
\* and every Decided notification carries it.
THEOREM Implements == Spec => Refinement
<1>1. Init => Abstract!Init
  <2> SUFFICES ASSUME Init PROVE Abstract!Init
    OBVIOUS
  <2>1. Chosen = {}
    <3> SUFFICES ASSUME NEW b \in Ballot, NEW v \in Value, ChosenAt(b, v)
                 PROVE  FALSE
      BY DEF Chosen
    <3>1. PICK Q \in Quorum : \A a \in Q : Voted(a, b, v)
      BY DEF ChosenAt
    <3>2. PICK a \in Q : TRUE
      BY QuorumsIntersect
    <3> QED  BY <3>1, <3>2 DEF Quorum, Voted, Init, Booted
  <2>2. [n \in Node |-> decision[n].val] = [n \in Node |-> None]
    BY DEF Init, Booted, NoSummary
  <2> QED  BY <2>1, <2>2 DEF Abstract!Init
<1>2. ASSUME IInv, IInv', [Next]_vars
      PROVE  [Abstract!Next]_<<Chosen, [n \in Node |-> decision[n].val]>>
  <2> DEFINE learned == [n \in Node |-> decision[n].val]
  <2>1. TypeOK' /\ AcceptorSteps /\ Monotone
    BY <1>2, AcceptorStep, VoteStep DEF IInv
  <2>2. Abstract!Choose \/ Chosen' = Chosen
    BY <1>2, <2>1, ChosenStep DEF Abstract!Choose
  <2>3. CASE UNCHANGED decision
    <3>1. learned' = learned
      BY <2>3
    <3> QED  BY <2>2, <3>1 DEF Abstract!Next
  <2>4. ASSUME NEW n \in Node, NEW d \in Summary,
               decision' = [decision EXCEPT ![n] = d],
               d.val = None \/ decision[n].val = None
        PROVE  Abstract!Next
    <3>1. learned' = [learned EXCEPT ![n] = d.val]
      BY <1>2, <2>4 DEF IInv, TypeOK
    <3>2. CASE d.val = None
      <4>1. Abstract!Forget(n)
        BY <3>1, <3>2 DEF Abstract!Forget
      <4> QED  BY <2>2, <4>1 DEF Abstract!Next
    <3>3. CASE d.val # None
      <4>1. learned[n] = None
        BY <2>4, <3>3
      <4>2. decision'[n] = d
        BY <1>2, <2>4 DEF IInv, TypeOK
      <4>3. d.val \in Chosen'
        BY <1>2, <3>3, <4>2 DEF IInv, DecisionIsChosen, Decided, Chosen, Summary
      <4>4. Abstract!Learn(n)
        BY <3>1, <4>1, <4>3 DEF Abstract!Learn
      <4> QED  BY <2>2, <4>4 DEF Abstract!Next
    <3> QED  BY <3>2, <3>3
  <2> QED  BY <1>2, <2>1, <2>3, <2>4, DecisionStep
<1> QED  BY <1>1, <1>2, Invariance, PTL DEF Spec, Refinement, Abstract!Spec
==============================================================================
