------------------------------ MODULE RaftProofs ------------------------------
(****************************************************************************)
(* Proofs about Raft, for any group and any commands: type correctness, the  *)
(* timers, election safety and log matching; then what Raft commits: a       *)
(* leader holds every entry applied before it, no step takes back what a     *)
(* node told its state machine to apply, and these follow one log.           *)
(****************************************************************************)
EXTENDS Raft, TLAPS, FiniteSetTheorems, SequenceTheorems, WellFoundedInduction
------------------------------------------------------------------------------
(* Majorities, and least and greatest naturals. *)

\* Any two majorities of the group share a node.
LEMMA MajoritiesMeet ==
  ASSUME NEW P \in SUBSET Node, NEW Q \in SUBSET Node, IsMajority(P), IsMajority(Q)
  PROVE  \E n \in P : n \in Q
<1>1. Cardinality(P) \in Nat /\ Cardinality(Q) \in Nat /\ N \in Nat
  BY NodeAssumption, FS_Subset, FS_CardinalityType DEF N
<1>2. Cardinality(P) + Cardinality(Q) > Cardinality(Node)
  BY <1>1 DEF IsMajority, N
<1> QED  BY <1>1, <1>2, NodeAssumption, FS_MajoritiesIntersect

\* A non-empty set of naturals has a least element.
LEMMA LeastNat ==
  ASSUME NEW T, T \subseteq Nat, T # {}
  PROVE  \E x \in T : \A y \in T : x <= y
<1>1. \E x \in T : \A y \in T : ~(<<y, x>> \in OpToRel(<, Nat))
  BY NatLessThanWellFounded, WFMin, Zenon
<1>2. PICK x \in T : \A y \in T : ~(<<y, x>> \in OpToRel(<, Nat))
  BY <1>1
<1>3. \A y \in T : ~(y < x)
  BY <1>2 DEF OpToRel
<1> QED  BY <1>3

\* A non-empty set of naturals with an upper bound has a greatest element.
LEMMA GreatestNat ==
  ASSUME NEW T, T \subseteq Nat, T # {},
         NEW k \in Nat, \A x \in T : x <= k
  PROVE  \E x \in T : \A y \in T : y <= x
<1> DEFINE U == {u \in Nat : \A x \in T : x <= u}
<1>1. U \subseteq Nat /\ k \in U
  OBVIOUS
<1>2. PICK u \in U : \A w \in U : u <= w
  BY <1>1, LeastNat
<1>3. u \in T
  <2>1. SUFFICES ASSUME u \notin T PROVE FALSE
    OBVIOUS
  <2>2. \A x \in T : x <= u - 1
    BY <2>1
  <2>3. PICK x \in T : x \in Nat /\ x <= u - 1
    BY <2>2
  <2>4. u - 1 \in Nat
    BY <1>2, <2>3
  <2>5. u - 1 \in U
    BY <2>2, <2>4
  <2> QED  BY <1>2, <2>5
<1> QED  BY <1>3
------------------------------------------------------------------------------
(* The log operations. *)

\* The term at any place of a log is a natural.
LEMMA TermAtType ==
  ASSUME NEW lg \in Seq(Entry), NEW i \in Int
  PROVE  termAt(lg, i) \in Nat
<1>1. i \in 1 .. Len(lg) => lg[i] \in Entry
  BY ElementOfSeq
<1> QED  BY <1>1 DEF termAt, Entry

\* What sliceFrom sends is the log from the index on.
LEMMA SliceResult ==
  ASSUME NEW lg \in Seq(Entry), NEW i \in Nat \ {0}
  PROVE  /\ sliceFrom(lg, i) \in Seq(Entry)
         /\ Len(sliceFrom(lg, i)) = IF i <= Len(lg) THEN Len(lg) - i + 1 ELSE 0
         /\ \A j \in 1 .. Len(sliceFrom(lg, i)) : sliceFrom(lg, i)[j] = lg[i + j - 1]
<1>1. i \in Int /\ Len(lg) \in Int /\ \A j \in i .. Len(lg) : lg[j] \in Entry
  OBVIOUS
<1>2. /\ SubSeq(lg, i, Len(lg)) \in Seq(Entry)
      /\ Len(SubSeq(lg, i, Len(lg))) = IF i <= Len(lg) THEN Len(lg) - i + 1 ELSE 0
      /\ \A j \in 1 .. Len(lg) - i + 1 : SubSeq(lg, i, Len(lg))[j] = lg[i + j - 1]
  BY <1>1, SubSeqProperties
<1> QED  BY <1>1, <1>2 DEF sliceFrom

\* Storage.AppendEntries keeps what is before from and puts es there.
LEMMA AppendEntriesResult ==
  ASSUME NEW lg \in Seq(Entry), NEW es \in Seq(Entry), NEW from \in 1 .. Len(lg) + 1
  PROVE  /\ AppendEntries(lg, from, es) \in Seq(Entry)
         /\ Len(AppendEntries(lg, from, es)) = from - 1 + Len(es)
         /\ \A i \in 1 .. from - 1 : AppendEntries(lg, from, es)[i] = lg[i]
         /\ \A i \in 1 .. Len(es) : AppendEntries(lg, from, es)[from - 1 + i] = es[i]
<1> DEFINE head == SubSeq(lg, 1, from - 1)
<1>1. /\ head \in Seq(Entry) /\ Len(head) = from - 1
      /\ \A i \in 1 .. from - 1 : head[i] = lg[i]
  <2>1. from - 1 \in Int /\ \A i \in 1 .. from - 1 : lg[i] \in Entry
    OBVIOUS
  <2>2. /\ head \in Seq(Entry)
        /\ Len(head) = IF 1 <= from - 1 THEN from - 1 - 1 + 1 ELSE 0
        /\ \A i \in 1 .. from - 1 - 1 + 1 : head[i] = lg[1 + i - 1]
    BY <2>1, SubSeqProperties
  <2> QED  BY <2>2
<1> HIDE DEF head
<1>2. /\ head \o es \in Seq(Entry)
      /\ Len(head \o es) = Len(head) + Len(es)
      /\ \A i \in 1 .. Len(head) + Len(es) :
            (head \o es)[i] = IF i <= Len(head) THEN head[i] ELSE es[i - Len(head)]
  BY <1>1, ConcatProperties
<1>3. AppendEntries(lg, from, es) = head \o es
  BY DEF AppendEntries, head
<1> QED  BY SMTT(30), <1>1, <1>2, <1>3

\* FirstNew: up to it the log holds the terms of es, and there it does not.
LEMMA FirstNewResult ==
  ASSUME NEW lg \in Seq(Entry), NEW es \in Seq(Entry), NEW prev \in Nat
  PROVE  /\ FirstNew(lg, prev, es) \in 1 .. Len(es) + 1
         /\ FirstNew(lg, prev, es) <= Len(es) =>
               \/ prev + FirstNew(lg, prev, es) > Len(lg)
               \/ lg[prev + FirstNew(lg, prev, es)].term # es[FirstNew(lg, prev, es)].term
         /\ \A j \in 1 .. FirstNew(lg, prev, es) - 1 :
               prev + j <= Len(lg) /\ lg[prev + j].term = es[j].term
<1> DEFINE Differ(i) == termAt(lg, prev + i) # es[i].term \/ prev + i > Len(lg)
           T == {i \in 1 .. Len(es) + 1 : i <= Len(es) => Differ(i)}
<1>1. T \subseteq Nat /\ Len(es) + 1 \in T
  OBVIOUS
<1>2. PICK x \in T : \A y \in T : x <= y
  BY <1>1, LeastNat
<1>3. /\ x \in 1 .. Len(es) + 1
      /\ x <= Len(es) => Differ(x)
      /\ \A j \in 1 .. x - 1 : prev + j <= Len(lg) /\ termAt(lg, prev + j) = es[j].term
  <2>1. \A j \in 1 .. x - 1 : j \in 1 .. Len(es) /\ j \notin T
    BY <1>2
  <2>2. \A j \in 1 .. x - 1 : ~Differ(j)
    BY <2>1
  <2>3. x \in 1 .. Len(es) + 1 /\ (x <= Len(es) => Differ(x))
    BY <1>2
  <2>4. ASSUME NEW j \in 1 .. x - 1
        PROVE  prev + j <= Len(lg) /\ termAt(lg, prev + j) = es[j].term
    <3>1. prev + j \in Int /\ Len(lg) \in Int
      BY <2>3
    <3>2. ~Differ(j)
      BY <2>2
    <3> QED  BY <3>1, <3>2
  <2> QED  BY <2>3, <2>4
<1> DEFINE P(i) == /\ i <= Len(es) => Differ(i)
                   /\ \A j \in 1 .. i - 1 : prev + j <= Len(lg) /\ termAt(lg, prev + j) = es[j].term
           f == CHOOSE i \in 1 .. Len(es) + 1 : P(i)
<1>4. f \in 1 .. Len(es) + 1 /\ P(f)
  BY <1>3
<1>5. FirstNew(lg, prev, es) = f
  BY DEF FirstNew
<1> HIDE DEF f
<1>6. \A j \in 1 .. f - 1 : prev + j \in 1 .. Len(lg)
  BY <1>4
<1>7. f <= Len(es) /\ prev + f <= Len(lg) => prev + f \in 1 .. Len(lg)
  BY <1>4
<1> QED  BY <1>4, <1>5, <1>6, <1>7 DEF termAt

\* appendConflictFree leaves the log alone when it holds the terms of es after
\* prev, or else replaces it from the first entry that differs.
LEMMA ConflictFreeResult ==
  ASSUME NEW lg \in Seq(Entry), NEW es \in Seq(Entry), NEW prev \in 0 .. Len(lg)
  PROVE  LET r == appendConflictFree(lg, prev, es) IN
         /\ r \in Seq(Entry)
         /\ \/ /\ r = lg
               /\ prev + Len(es) <= Len(lg)
               /\ \A j \in 1 .. Len(es) : lg[prev + j].term = es[j].term
            \/ \E k \in 1 .. Len(es) :
                  /\ prev + k - 1 <= Len(lg)
                  /\ \A j \in 1 .. k - 1 : lg[prev + j].term = es[j].term
                  /\ prev + k <= Len(lg) => lg[prev + k].term # es[k].term
                  /\ Len(r) = prev + Len(es)
                  /\ \A i \in 1 .. prev + k - 1 : r[i] = lg[i]
                  /\ \A j \in k .. Len(es) : r[prev + j] = es[j]
<1> DEFINE k == FirstNew(lg, prev, es)
           tail == SubSeq(es, k, Len(es))
           r == appendConflictFree(lg, prev, es)
<1>1. /\ k \in 1 .. Len(es) + 1
      /\ k <= Len(es) => prev + k > Len(lg) \/ lg[prev + k].term # es[k].term
      /\ \A j \in 1 .. k - 1 : prev + j <= Len(lg) /\ lg[prev + j].term = es[j].term
  <2>1. prev \in Nat
    OBVIOUS
  <2> QED  BY <2>1, FirstNewResult
<1>2. r = IF k > Len(es) THEN lg ELSE AppendEntries(lg, prev + k, tail)
  BY DEF appendConflictFree
<1> HIDE DEF k, r
<1>3. CASE k > Len(es)
  <2>1. k = Len(es) + 1 /\ r = lg
    BY <1>1, <1>2, <1>3
  <2>2. prev + Len(es) <= Len(lg)
    <3>1. CASE Len(es) = 0
      BY <3>1
    <3>2. CASE Len(es) # 0
      <4>1. Len(es) \in 1 .. k - 1
        BY <2>1, <3>2
      <4> QED  BY <4>1, <1>1
    <3> QED  BY <3>1, <3>2
  <2> QED  BY <2>1, <2>2, <1>1 DEF r
<1>4. CASE k <= Len(es)
  <2>1. k \in 1 .. Len(es) /\ prev + k - 1 <= Len(lg)
    <3>1. CASE k = 1
      BY <3>1, <1>1, <1>4
    <3>2. CASE k # 1
      <4>1. k - 1 \in 1 .. k - 1
        BY <1>1, <3>2
      <4>2. prev + (k - 1) <= Len(lg)
        BY <4>1, <1>1
      <4> QED  BY <4>2, <1>1, <1>4
    <3> QED  BY <3>1, <3>2
  <2>2. /\ tail \in Seq(Entry) /\ Len(tail) = Len(es) - k + 1
        /\ \A j \in 1 .. Len(tail) : tail[j] = es[k + j - 1]
    BY <2>1, SliceResult DEF sliceFrom
  <2> HIDE DEF tail
  <2>a. r = AppendEntries(lg, prev + k, tail)
    BY <1>2, <2>1
  <2>4. /\ r \in Seq(Entry)
        /\ Len(r) = prev + k - 1 + Len(tail)
        /\ \A i \in 1 .. prev + k - 1 : r[i] = lg[i]
        /\ \A j \in 1 .. Len(tail) : r[prev + k - 1 + j] = tail[j]
    <3> DEFINE from == prev + k
    <3>1. from \in 1 .. Len(lg) + 1 /\ from - 1 = prev + k - 1
      BY <2>1
    <3> HIDE DEF from
    <3>2. /\ AppendEntries(lg, from, tail) \in Seq(Entry)
          /\ Len(AppendEntries(lg, from, tail)) = from - 1 + Len(tail)
          /\ \A i \in 1 .. from - 1 : AppendEntries(lg, from, tail)[i] = lg[i]
          /\ \A i \in 1 .. Len(tail) : AppendEntries(lg, from, tail)[from - 1 + i] = tail[i]
      BY <3>1, <2>2, AppendEntriesResult
    <3>3. r = AppendEntries(lg, from, tail)
      BY <2>a DEF from
    <3> QED  BY <3>1, <3>2, <3>3
  <2>5. \A j \in k .. Len(es) : r[prev + j] = es[j]
    <3>1. TAKE j \in k .. Len(es)
    <3>2. j - k + 1 \in 1 .. Len(tail) /\ prev + k - 1 + (j - k + 1) = prev + j
      BY <2>1, <2>2
    <3>3. r[prev + j] = tail[j - k + 1]
      BY <2>4, <3>2
    <3>4. tail[j - k + 1] = es[k + (j - k + 1) - 1]
      BY <2>2, <3>2
    <3>5. k + (j - k + 1) - 1 = j
      BY <2>1
    <3> QED  BY <3>3, <3>4, <3>5
  <2>6. /\ Len(r) = prev + Len(es)
        /\ prev + k <= Len(lg) => lg[prev + k].term # es[k].term
    BY <1>1, <2>1, <2>2, <2>4
  <2>7. \E i \in 1 .. Len(es) :
          /\ prev + i - 1 <= Len(lg)
          /\ \A j \in 1 .. i - 1 : lg[prev + j].term = es[j].term
          /\ prev + i <= Len(lg) => lg[prev + i].term # es[i].term
          /\ Len(r) = prev + Len(es)
          /\ \A j \in 1 .. prev + i - 1 : r[j] = lg[j]
          /\ \A j \in i .. Len(es) : r[prev + j] = es[j]
    BY <1>1, <2>1, <2>4, <2>5, <2>6
  <2> QED  BY <2>4, <2>7 DEF r
<1> QED  BY <1>1, <1>3, <1>4

\* A majority holds the first k entries.
MajorityHolds(matches, k) ==
    \E Q \in SUBSET Node : IsMajority(Q) /\ \A q \in Q : matches[q] >= k

\* advanceCommitIndex raises the commit index only to an entry of the log of
\* the given term that a majority holds.
LEMMA AdvanceResult ==
  ASSUME NEW commit \in Nat, NEW term \in Nat, NEW lg \in Seq(Entry), NEW matches
  PROVE  LET k == advanceCommitIndex(commit, term, lg, matches) IN
         /\ k \in Nat
         /\ k > commit => /\ k \in 1 .. Len(lg)
                          /\ lg[k].term = term
                          /\ MajorityHolds(matches, k)
<1> DEFINE Holders(k) == {n \in Node : matches[n] >= k}
           Ours(k) == (\A j \in k .. Len(lg) : lg[j].term = term) /\ IsMajority(Holders(k))
           ours == {k \in commit + 1 .. Len(lg) : Ours(k)}
           top == CHOOSE k \in ours : \A j \in ours : j <= k
           k == advanceCommitIndex(commit, term, lg, matches)
<1>1. k = IF ours = {} THEN commit ELSE top
  BY DEF advanceCommitIndex
<1> HIDE DEF k, Holders
<1>2. \A i \in ours : i \in 1 .. Len(lg) /\ lg[i].term = term /\ IsMajority(Holders(i))
  OBVIOUS
<1>3. ours # {} => top \in ours
  <2>1. ours \subseteq Nat /\ Len(lg) \in Nat /\ \A i \in ours : i <= Len(lg)
    OBVIOUS
  <2> HIDE DEF ours
  <2>2. ours # {} => \E i \in ours : \A j \in ours : j <= i
    BY <2>1, GreatestNat
  <2> QED  BY <2>2
<1> HIDE DEF ours, top
<1>4. k = commit \/ (k \in 1 .. Len(lg) /\ lg[k].term = term /\ IsMajority(Holders(k)))
  BY <1>1, <1>2, <1>3
<1>5. ASSUME NEW i, IsMajority(Holders(i)) PROVE MajorityHolds(matches, i)
  <2>1. Holders(i) \in SUBSET Node /\ \A q \in Holders(i) : matches[q] >= i
    BY DEF Holders
  <2> QED  BY <1>5, <2>1 DEF MajorityHolds
<1>6. k \in Nat /\ (k > commit => k \in 1 .. Len(lg) /\ lg[k].term = term
                                  /\ MajorityHolds(matches, k))
  BY <1>4, <1>5
<1> QED  BY <1>6 DEF k
------------------------------------------------------------------------------
(* Type correctness, and the Storage seam. *)

\* Between two handlers Storage holds what the node's memory holds.
WrittenThrough ==
    \A n \in Node :
        disk[n] = [term |-> currentTerm[n], vote |-> votedFor[n], log |-> log[n]]

\* The fields of a message, by its type.
LEMMA MessageFields ==
  ASSUME NEW m \in Message
  PROVE  /\ m.from \in Node /\ m.to \in Node /\ m.term \in Nat
         /\ m.type = "RequestVote" => m.lastIndex \in Nat /\ m.lastTerm \in Nat
         /\ m.type = "RequestVoteReply" => m.granted \in BOOLEAN
         /\ m.type = "AppendEntries" =>
               /\ m.prev \in Nat /\ m.prevTerm \in Nat /\ m.commit \in Nat
               /\ m.entries \in Seq(Entry)
         /\ m.type = "AppendEntriesReply" => m.match \in Nat /\ m.success \in BOOLEAN
  BY DEF Message

\* The fields of an AppendEntries that sendAppendEntries builds.
LEMMA AppendToType ==
  ASSUME NEW n \in Node, NEW p \in Node, NEW term \in Nat, NEW lg \in Seq(Entry),
         NEW next \in Nat, NEW commit \in Nat
  PROVE  AppendTo(n, p, term, lg, next, commit) \in Message
<1> DEFINE ni == Larger(next, 1)
<1>1. ni \in Nat \ {0} /\ ni - 1 \in Nat /\ ni - 1 \in Int
  BY DEF Larger
<1> HIDE DEF ni
<1>2. termAt(lg, ni - 1) \in Nat /\ sliceFrom(lg, ni) \in Seq(Entry)
  BY <1>1, TermAtType, SliceResult
<1> QED  BY <1>1, <1>2 DEF AppendTo, Message, ni

\* And of the ones broadcastAppendEntries builds.
LEMMA AppendToAllType ==
  ASSUME NEW n \in Node, NEW term \in Nat, NEW lg \in Seq(Entry),
         NEW next \in [Node -> Nat], NEW commit \in Nat
  PROVE  AppendToAll(n, term, lg, next, commit) \subseteq Message
  BY AppendToType DEF AppendToAll, Peers

\* A vote and an answer to an AppendEntries are well typed.
LEMMA ReplyType ==
  ASSUME NEW m \in Message, NEW term \in Nat, NEW b \in BOOLEAN, NEW match \in Nat
  PROVE  VoteReply(m, term, b) \in Message /\ AppendReply(m, term, match, b) \in Message
  BY MessageFields DEF VoteReply, AppendReply, Message

\* applyCommitted reports entries of the log it is given.
LEMMA ApplyType ==
  ASSUME TypeOK, NEW n \in Node, NEW lg \in Seq(Entry), NEW commit \in 0 .. Len(lg),
         NEW term \in Nat, applyCommitted(n, commit, lg, term)
  PROVE  /\ commitIndex' \in [Node -> Nat]
         /\ lastApplied' \in [Node -> Nat]
         /\ applied' \subseteq [index : Nat \ {0}, entry : Entry, term : Nat]
<1>1. commitIndex' \in [Node -> Nat] /\ lastApplied' \in [Node -> Nat]
  BY DEF TypeOK, applyCommitted, Larger
<1>2. ASSUME NEW i \in lastApplied[n] + 1 .. commit
      PROVE  [index |-> i, entry |-> lg[i], term |-> term]
                \in [index : Nat \ {0}, entry : Entry, term : Nat]
  <2>1. i \in Nat \ {0} /\ i \in 1 .. Len(lg)
    BY DEF TypeOK
  <2>2. lg[i] \in Entry
    BY <2>1, ElementOfSeq
  <2> QED  BY <2>1, <2>2
<1> QED  BY SMTT(30), <1>1, <1>2 DEF TypeOK, applyCommitted

\* maybeAdvanceCommit's result.
LEMMA CommitType ==
  ASSUME TypeOK, NEW n \in Node, NEW lg \in Seq(Entry), NEW match
  PROVE  /\ Commit(n, lg, match) \in Nat
         /\ Commit(n, lg, match) > commitIndex[n] => Commit(n, lg, match) \in 0 .. Len(lg)
<1> DEFINE matches == [match EXCEPT ![n] = Len(lg)]
<1>1. commitIndex[n] \in Nat /\ currentTerm[n] \in Nat
  BY DEF TypeOK
<1>2. Commit(n, lg, match) = advanceCommitIndex(commitIndex[n], currentTerm[n], lg, matches)
  BY DEF Commit
<1> HIDE DEF matches
<1>3. LET k == advanceCommitIndex(commitIndex[n], currentTerm[n], lg, matches) IN
         k \in Nat /\ (k > commitIndex[n] => k \in 1 .. Len(lg))
  BY <1>1, AdvanceResult
<1> QED  BY <1>2, <1>3

\* persistTerm keeps the types.
LEMMA PersistType ==
  ASSUME TypeOK, NEW n \in Node, NEW term \in Nat, NEW vote \in Node \cup {None},
         persistTerm(n, term, vote)
  PROVE  /\ currentTerm' \in [Node -> Nat]
         /\ votedFor' \in [Node -> Node \cup {None}]
         /\ disk' = [disk EXCEPT ![n] = [term |-> term, vote |-> vote, log |-> disk[n].log]]
         /\ disk' \in [Node -> [term : Nat, vote : Node \cup {None}, log : Seq(Entry)]]
<1> DEFINE Stored == [term : Nat, vote : Node \cup {None}, log : Seq(Entry)]
           d == [term |-> term, vote |-> vote, log |-> disk[n].log]
<1>1. /\ disk \in [Node -> Stored]
      /\ currentTerm \in [Node -> Nat]
      /\ votedFor \in [Node -> Node \cup {None}]
  BY DEF TypeOK
<1>2. d \in Stored
  BY <1>1
<1>3. disk' = [disk EXCEPT ![n] = d]
  <2> DEFINE d1 == [disk EXCEPT ![n].term = term]
             d2 == [d1 EXCEPT ![n].vote = vote]
  <2>1. disk' = d2
    BY DEF persistTerm
  <2>2. /\ d1 \in [Node -> Stored]
        /\ d1[n] = [term |-> term, vote |-> disk[n].vote, log |-> disk[n].log]
        /\ \A p \in Node \ {n} : d1[p] = disk[p]
    BY <1>1
  <2> HIDE DEF d1
  <2>3. /\ d2 \in [Node -> Stored]
        /\ d2[n] = d
        /\ \A p \in Node \ {n} : d2[p] = d1[p]
    BY <2>2
  <2> HIDE DEF d2, d, Stored
  <2> QED  BY <1>1, <2>1, <2>2, <2>3
<1> HIDE DEF d, Stored
<1>4. disk' \in [Node -> Stored]
  BY <1>1, <1>2, <1>3
<1>5. currentTerm' \in [Node -> Nat] /\ votedFor' \in [Node -> Node \cup {None}]
  BY <1>1 DEF persistTerm
<1> QED  BY <1>3, <1>4, <1>5 DEF d, Stored

\* follow keeps the types.
LEMMA FollowType ==
  ASSUME TypeOK, NEW n \in Node, follow(n)
  PROVE  /\ role' \in [Node -> {"Follower", "Candidate", "Leader"}]
         /\ electionTimer' \in [Node -> BOOLEAN]
         /\ heartbeatTimer' \in [Node -> BOOLEAN]
<1>1. /\ role \in [Node -> {"Follower", "Candidate", "Leader"}]
      /\ electionTimer \in [Node -> BOOLEAN]
      /\ heartbeatTimer \in [Node -> BOOLEAN]
  BY DEF TypeOK
<1> QED  BY <1>1 DEF follow

\* setLeader keeps the types.
LEMMA SetLeaderType ==
  ASSUME TypeOK, NEW n \in Node, NEW h \in Node, NEW term \in Nat, NEW believed,
         setLeader(n, h, term, believed)
  PROVE  leader' \in [Node -> Node \cup {None}] /\ leaders' \subseteq Nat \X Node
<1>1. leader \in [Node -> Node \cup {None}] /\ leaders \subseteq Nat \X Node
  BY DEF TypeOK
<1> QED  BY <1>1 DEF setLeader

\* becomeLeader keeps the types.
LEMMA BecomeLeaderType ==
  ASSUME TypeOK, NEW n \in Node, NEW term \in Nat, NEW believed,
         NEW msgs \in SUBSET Message, becomeLeader(n, term, believed, msgs)
  PROVE  /\ role' \in [Node -> {"Follower", "Candidate", "Leader"}]
         /\ electionTimer' \in [Node -> BOOLEAN]
         /\ heartbeatTimer' \in [Node -> BOOLEAN]
         /\ leader' \in [Node -> Node \cup {None}]
         /\ leaders' \subseteq Nat \X Node
         /\ nextIndex' \in [Node -> [Node -> Nat \ {0}]]
         /\ matchIndex' \in [Node -> [Node -> Nat]]
         /\ net' \subseteq Message
<1> DEFINE next == [p \in Node |-> Len(log[n]) + 1]
<1>1. /\ role \in [Node -> {"Follower", "Candidate", "Leader"}]
      /\ electionTimer \in [Node -> BOOLEAN]
      /\ heartbeatTimer \in [Node -> BOOLEAN]
      /\ nextIndex \in [Node -> [Node -> Nat \ {0}]]
      /\ matchIndex \in [Node -> [Node -> Nat]]
      /\ log[n] \in Seq(Entry) /\ commitIndex[n] \in Nat
  BY DEF TypeOK
<1>2. next \in [Node -> Nat \ {0}] /\ next \in [Node -> Nat]
  BY <1>1
<1>3. /\ nextIndex' = [nextIndex EXCEPT ![n] = next]
      /\ net' = msgs \cup Sent(AppendToAll(n, term, log[n], next, commitIndex[n]))
  BY DEF becomeLeader
<1> HIDE DEF next
<1>4. nextIndex' \in [Node -> [Node -> Nat \ {0}]] /\ net' \subseteq Message
  BY <1>1, <1>2, <1>3, AppendToAllType DEF Sent
<1>5. /\ role' \in [Node -> {"Follower", "Candidate", "Leader"}]
      /\ electionTimer' \in [Node -> BOOLEAN]
      /\ heartbeatTimer' \in [Node -> BOOLEAN]
      /\ matchIndex' \in [Node -> [Node -> Nat]]
  BY <1>1 DEF becomeLeader
<1>6. setLeader(n, n, term, believed)
  BY DEF becomeLeader
<1> QED  BY <1>4, <1>5, <1>6, SetLeaderType

\* A timeout keeps the types.
LEMMA TimeoutType ==
  ASSUME TypeOK, NEW n \in Node, onElectionTimeout(n)
  PROVE  TypeOK'
<1> DEFINE term == currentTerm[n] + 1
           ask(p) == [type |-> "RequestVote", from |-> n, to |-> p, term |-> term,
                      lastIndex |-> Len(log[n]), lastTerm |-> lastTerm(log[n])]
           msgs == net \cup Sent({ask(p) : p \in Peers(n)})
<1>1. term \in Nat /\ Len(log[n]) \in Nat /\ lastTerm(log[n]) \in Nat /\ net \subseteq Message
  <2>1. currentTerm[n] \in Nat /\ log[n] \in Seq(Entry) /\ net \subseteq Message
    BY DEF TypeOK
  <2>2. Len(log[n]) \in Nat /\ Len(log[n]) \in Int
    BY <2>1
  <2>3. termAt(log[n], Len(log[n])) \in Nat
    BY <2>1, <2>2, TermAtType
  <2> QED  BY <2>1, <2>2, <2>3 DEF lastTerm
<1>2. msgs \subseteq Message
  <2>1. \A p \in Peers(n) : ask(p) \in Message
    BY <1>1 DEF Peers, Message
  <2> HIDE DEF ask
  <2> QED  BY <1>1, <2>1 DEF Sent
<1>3. /\ persistTerm(n, term, n)
      /\ votesGranted' = [votesGranted EXCEPT ![n] = {n}]
      /\ UNCHANGED <<log, commitVars, sessionVars>>
      /\ \/ becomeLeader(n, term, None, msgs)
         \/ /\ role' = [role EXCEPT ![n] = "Candidate"]
            /\ electionTimer' = [electionTimer EXCEPT ![n] = TRUE]
            /\ leader' = [leader EXCEPT ![n] = None]
            /\ net' = msgs
            /\ UNCHANGED <<heartbeatTimer, leaderVars, leaders>>
  BY DEF onElectionTimeout
<1> HIDE DEF term, msgs
<1>4. /\ currentTerm' \in [Node -> Nat]
      /\ votedFor' \in [Node -> Node \cup {None}]
      /\ disk' \in [Node -> [term : Nat, vote : Node \cup {None}, log : Seq(Entry)]]
  BY <1>1, <1>3, PersistType
<1>5. /\ role' \in [Node -> {"Follower", "Candidate", "Leader"}]
      /\ electionTimer' \in [Node -> BOOLEAN]
      /\ heartbeatTimer' \in [Node -> BOOLEAN]
      /\ leader' \in [Node -> Node \cup {None}]
      /\ leaders' \subseteq Nat \X Node
      /\ nextIndex' \in [Node -> [Node -> Nat \ {0}]]
      /\ matchIndex' \in [Node -> [Node -> Nat]]
      /\ net' \subseteq Message
  <2>1. CASE becomeLeader(n, term, None, msgs)
    BY <1>1, <1>2, <2>1, BecomeLeaderType
  <2>2. CASE ~becomeLeader(n, term, None, msgs)
    <3>1. /\ role \in [Node -> {"Follower", "Candidate", "Leader"}]
          /\ electionTimer \in [Node -> BOOLEAN]
          /\ heartbeatTimer \in [Node -> BOOLEAN]
          /\ leader \in [Node -> Node \cup {None}]
          /\ leaders \subseteq Nat \X Node
          /\ nextIndex \in [Node -> [Node -> Nat \ {0}]]
          /\ matchIndex \in [Node -> [Node -> Nat]]
      BY DEF TypeOK
    <3> QED  BY <1>2, <1>3, <2>2, <3>1 DEF leaderVars
  <2> QED  BY <2>1, <2>2
<1>6. votesGranted' \in [Node -> SUBSET Node]
  BY <1>3 DEF TypeOK
<1> QED  BY <1>3, <1>4, <1>5, <1>6 DEF TypeOK, commitVars, sessionVars

\* A request for a vote keeps the types.
LEMMA RequestVoteType ==
  ASSUME TypeOK, NEW m \in net, onRequestVote(m)
  PROVE  TypeOK'
<1> DEFINE n     == m.to
           newer == m.term > currentTerm[n]
           term  == Larger(m.term, currentTerm[n])
           voted == IF newer THEN None ELSE votedFor[n]
           grant == /\ m.term = term
                    /\ voted \in {None, m.from}
                    /\ logIsUpToDate(m.lastTerm, m.lastIndex, lastTerm(log[n]), Len(log[n]))
<1>1. m \in Message /\ n \in Node /\ m.from \in Node /\ term \in Nat
      /\ voted \in Node \cup {None} /\ grant \in BOOLEAN
  BY MessageFields DEF TypeOK, Larger
<1>2. net' \subseteq Message
  <2>1. VoteReply(m, term, grant) \in Message
    BY <1>1, ReplyType
  <2>2. net' = (net \ {m}) \cup Sent({VoteReply(m, term, grant)})
    BY DEF onRequestVote
  <2> QED  BY <2>1, <2>2 DEF TypeOK, Sent
<1>3. /\ currentTerm' \in [Node -> Nat]
      /\ votedFor' \in [Node -> Node \cup {None}]
      /\ disk' \in [Node -> [term : Nat, vote : Node \cup {None}, log : Seq(Entry)]]
  <2>1. CASE newer \/ grant
    <3>1. persistTerm(n, term, IF grant THEN m.from ELSE voted)
      BY <2>1 DEF onRequestVote
    <3>2. (IF grant THEN m.from ELSE voted) \in Node \cup {None}
      BY <1>1
    <3> HIDE DEF grant, voted, term, n
    <3> QED  BY <3>1, <3>2, <1>1, PersistType
  <2>2. CASE ~(newer \/ grant)
    BY <2>2 DEF onRequestVote, TypeOK, termVars
  <2> QED  BY <2>1, <2>2
<1>4. /\ role' \in [Node -> {"Follower", "Candidate", "Leader"}]
      /\ leader' \in [Node -> Node \cup {None}]
      /\ electionTimer' \in [Node -> BOOLEAN]
      /\ heartbeatTimer' \in [Node -> BOOLEAN]
  <2>1. CASE newer
    <3>1. follow(n) /\ leader' = [leader EXCEPT ![n] = None]
      BY <2>1 DEF onRequestVote
    <3>2. leader' \in [Node -> Node \cup {None}]
      BY <3>1 DEF TypeOK
    <3> QED  BY <1>1, <3>1, <3>2, FollowType
  <2>2. CASE ~newer
    <3>1. /\ electionTimer' = [electionTimer EXCEPT ![n] = @ \/ grant]
          /\ UNCHANGED <<role, heartbeatTimer, leader>>
      BY <2>2 DEF onRequestVote
    <3> HIDE DEF grant
    <3> QED  BY <1>1, <3>1, Zenon DEF TypeOK
  <2> QED  BY <2>1, <2>2
<1> QED  BY <1>2, <1>3, <1>4
         DEF TypeOK, onRequestVote, commitVars, leaderVars, sessionVars

\* An answer to one keeps the types.
LEMMA RequestVoteReplyType ==
  ASSUME TypeOK, NEW m \in net, onRequestVoteReply(m)
  PROVE  TypeOK'
<1> DEFINE n == m.to
           votes == votesGranted[n] \cup {m.from}
<1>1. /\ m \in Message /\ n \in Node /\ m.from \in Node /\ m.term \in Nat
      /\ net \subseteq Message
  BY MessageFields DEF TypeOK
<1>2. votes \subseteq Node /\ votesGranted \in [Node -> SUBSET Node]
  <2>1. votesGranted \in [Node -> SUBSET Node]
    BY DEF TypeOK
  <2> QED  BY <1>1, <2>1
<1>3. UNCHANGED <<log, commitVars, sessionVars>>
  BY DEF onRequestVoteReply
<1>4. CASE /\ stepDown(n, m.term)
           /\ net' = net \ {m}
           /\ UNCHANGED <<leaderVars, votesGranted>>
  <2>1. persistTerm(n, m.term, None) /\ follow(n) /\ UNCHANGED leaders
        /\ leader' = [leader EXCEPT ![n] = None]
    BY <1>4 DEF stepDown
  <2>2. leader' \in [Node -> Node \cup {None}]
    BY <2>1 DEF TypeOK
  <2> QED  BY <1>1, <1>3, <1>4, <2>1, <2>2, PersistType, FollowType
           DEF TypeOK, commitVars, sessionVars, leaderVars
<1>5. CASE /\ votesGranted' = [votesGranted EXCEPT ![n] = votes]
           /\ becomeLeader(n, m.term, leader[n], net \ {m})
           /\ UNCHANGED <<termVars, disk>>
  <2>1. votesGranted' \in [Node -> SUBSET Node]
    BY <1>2, <1>5
  <2>2. net \ {m} \in SUBSET Message
    BY <1>1
  <2>3. /\ role' \in [Node -> {"Follower", "Candidate", "Leader"}]
        /\ electionTimer' \in [Node -> BOOLEAN]
        /\ heartbeatTimer' \in [Node -> BOOLEAN]
        /\ leader' \in [Node -> Node \cup {None}]
        /\ leaders' \subseteq Nat \X Node
        /\ nextIndex' \in [Node -> [Node -> Nat \ {0}]]
        /\ matchIndex' \in [Node -> [Node -> Nat]]
        /\ net' \subseteq Message
    BY <1>1, <1>5, <2>2, BecomeLeaderType
  <2> QED  BY <1>3, <1>5, <2>1, <2>3 DEF TypeOK, termVars, commitVars, sessionVars
<1>6. CASE /\ votesGranted' = [votesGranted EXCEPT ![n] = votes]
           /\ net' = net \ {m}
           /\ UNCHANGED <<role, beliefVars, leaderVars, timerVars>>
           /\ UNCHANGED <<termVars, disk>>
  <2>1. votesGranted' \in [Node -> SUBSET Node]
    BY <1>2, <1>6
  <2> QED  BY <1>1, <1>3, <1>6, <2>1
           DEF TypeOK, termVars, commitVars, sessionVars, leaderVars, beliefVars, timerVars
<1>7. CASE /\ net' = net \ {m}
           /\ UNCHANGED <<termVars, disk, role, beliefVars, leaderVars,
                          votesGranted, timerVars>>
  BY <1>1, <1>3, <1>7
     DEF TypeOK, termVars, commitVars, sessionVars, leaderVars, beliefVars, timerVars
<1> QED  BY <1>4, <1>5, <1>6, <1>7 DEF onRequestVoteReply

\* What a handler that changes no term, vote or log leaves in Storage.
LEMMA SameThrough ==
  ASSUME WrittenThrough, UNCHANGED <<termVars, log, disk>>
  PROVE  WrittenThrough'
  BY DEF WrittenThrough, termVars

\* What persistTerm leaves in Storage.
LEMMA PersistThrough ==
  ASSUME TypeOK, WrittenThrough, NEW n \in Node, NEW term \in Nat,
         NEW vote \in Node \cup {None}, persistTerm(n, term, vote), UNCHANGED log
  PROVE  WrittenThrough'
<1>1. /\ disk' = [disk EXCEPT ![n] = [term |-> term, vote |-> vote, log |-> disk[n].log]]
      /\ currentTerm' = [currentTerm EXCEPT ![n] = term]
      /\ votedFor' = [votedFor EXCEPT ![n] = vote]
  BY PersistType DEF persistTerm
<1>2. /\ DOMAIN disk = Node /\ DOMAIN currentTerm = Node /\ DOMAIN votedFor = Node
  BY DEF TypeOK
<1>3. ASSUME NEW p \in Node
      PROVE  disk'[p] = [term |-> currentTerm'[p], vote |-> votedFor'[p], log |-> log'[p]]
  <2>0. disk[n] = [term |-> currentTerm[n], vote |-> votedFor[n], log |-> log[n]]
    BY DEF WrittenThrough
  <2>1. disk[n].log = log[n]
    BY <2>0
  <2>2. CASE p = n
    BY <1>1, <1>2, <2>1, <2>2
  <2>3. CASE p # n
    BY <1>1, <1>2, <2>3 DEF WrittenThrough
  <2> QED  BY <2>2, <2>3
<1> QED  BY <1>3 DEF WrittenThrough

\* What an AppendEntries that is taken in does to the log and to Storage.
LEMMA TakenIn ==
  ASSUME TypeOK, WrittenThrough, NEW m \in net, onAppendEntries(m)
  PROVE  LET n == m.to
             lg == IF PrevMatches(log[n], m.prev, m.prevTerm)
                   THEN appendConflictFree(log[n], m.prev, m.entries)
                   ELSE log[n]
             vote == IF m.term > currentTerm[n] THEN None ELSE votedFor[n]
         IN  /\ lg \in Seq(Entry)
             /\ log' = [log EXCEPT ![n] = lg]
             /\ currentTerm' = [currentTerm EXCEPT ![n] = m.term]
             /\ votedFor' = [votedFor EXCEPT ![n] = vote]
             /\ disk' = [disk EXCEPT ![n] = [term |-> m.term, vote |-> vote, log |-> lg]]
<1> DEFINE n     == m.to
           newer == m.term > currentTerm[n]
           ok    == PrevMatches(log[n], m.prev, m.prevTerm)
           lg    == IF ok THEN appendConflictFree(log[n], m.prev, m.entries) ELSE log[n]
           vote  == IF newer THEN None ELSE votedFor[n]
           i     == FirstNew(log[n], m.prev, m.entries)
           tail  == SubSeq(m.entries, i, Len(m.entries))
           saved == IF ok /\ i <= Len(m.entries)
                    THEN AppendEntries(disk[n].log, m.prev + i, tail)
                    ELSE disk[n].log
<1>1. m \in Message /\ m.type = "AppendEntries"
  BY DEF TypeOK, onAppendEntries
<1>2. /\ n \in Node /\ m.term \in Nat /\ m.prev \in Nat /\ m.entries \in Seq(Entry)
      /\ log[n] \in Seq(Entry) /\ currentTerm[n] \in Nat
      /\ disk[n] = [term |-> currentTerm[n], vote |-> votedFor[n], log |-> log[n]]
      /\ log = [log EXCEPT ![n] = log[n]]
      /\ currentTerm = [currentTerm EXCEPT ![n] = currentTerm[n]]
      /\ votedFor = [votedFor EXCEPT ![n] = votedFor[n]]
      /\ disk \in [Node -> [term : Nat, vote : Node \cup {None}, log : Seq(Entry)]]
  BY <1>1, MessageFields DEF TypeOK, WrittenThrough
<1>3. /\ m.term >= currentTerm[n]
      /\ IF newer
         THEN /\ currentTerm' = [currentTerm EXCEPT ![n] = m.term]
              /\ votedFor' = [votedFor EXCEPT ![n] = None]
              /\ disk' = [disk EXCEPT ![n] =
                            [term |-> m.term, vote |-> None, log |-> saved]]
         ELSE /\ disk' = [disk EXCEPT ![n].log = saved]
              /\ UNCHANGED termVars
      /\ log' = IF ok
                THEN [log EXCEPT ![n] = appendConflictFree(log[n], m.prev, m.entries)]
                ELSE log
  BY DEF onAppendEntries
<1>4. lg \in Seq(Entry)
  <2>1. ok => m.prev \in 0 .. Len(log[n])
    BY <1>2 DEF PrevMatches
  <2> QED  BY <1>2, <2>1, ConflictFreeResult
<1>5. saved = lg
  <2>1. i \in Nat /\ Len(m.entries) \in Nat
    <3>1. m.prev \in Nat /\ m.entries \in Seq(Entry) /\ log[n] \in Seq(Entry)
      BY <1>2
    <3>2. i \in 1 .. Len(m.entries) + 1
      BY <3>1, FirstNewResult, Zenon
    <3> HIDE DEF i
    <3> QED  BY <3>1, <3>2
  <2>2. disk[n].log = log[n]
    BY <1>2
  <2>3. appendConflictFree(log[n], m.prev, m.entries)
          = IF i > Len(m.entries) THEN log[n] ELSE AppendEntries(log[n], m.prev + i, tail)
    BY DEF appendConflictFree
  <2> HIDE DEF i, tail
  <2> QED  BY <2>1, <2>2, <2>3
<1> HIDE DEF saved, i
<1>6. log' = [log EXCEPT ![n] = lg]
  BY <1>2, <1>3
<1> HIDE DEF lg, ok
<1>7. /\ currentTerm' = [currentTerm EXCEPT ![n] = m.term]
      /\ votedFor' = [votedFor EXCEPT ![n] = vote]
      /\ disk' = [disk EXCEPT ![n] = [term |-> m.term, vote |-> vote, log |-> lg]]
  <2>1. CASE newer
    BY <1>2, <1>3, <1>5, <2>1
  <2>2. CASE ~newer
    <3>1. m.term = currentTerm[n] /\ vote = votedFor[n]
      BY <1>2, <1>3, <2>2
    <3>2. disk' = [disk EXCEPT ![n] = [disk[n] EXCEPT !.log = lg]]
      BY <1>2, <1>3, <1>5, <2>2
    <3>3. [disk[n] EXCEPT !.log = lg] = [term |-> m.term, vote |-> vote, log |-> lg]
      BY <1>2, <3>1
    <3> QED  BY <1>2, <1>3, <2>2, <3>1, <3>2, <3>3 DEF termVars
  <2> QED  BY <2>1, <2>2
<1> QED  BY <1>4, <1>6, <1>7 DEF lg, ok

\* Taking in an AppendEntries keeps the types and the Storage.
LEMMA AppendEntriesType ==
  ASSUME TypeOK, WrittenThrough, NEW m \in net, onAppendEntries(m)
  PROVE  TypeOK' /\ WrittenThrough'
<1> DEFINE n     == m.to
           newer == m.term > currentTerm[n]
           match == m.prev + Len(m.entries)
           new   == appendConflictFree(log[n], m.prev, m.entries)
           ok    == PrevMatches(log[n], m.prev, m.prevTerm)
           lg    == IF ok THEN new ELSE log[n]
           vote  == IF newer THEN None ELSE votedFor[n]
           d     == [term |-> m.term, vote |-> vote, log |-> lg]
<1>1. m \in Message /\ m.type = "AppendEntries" /\ net \subseteq Message
  BY DEF TypeOK, onAppendEntries
<1>2. /\ n \in Node /\ m.from \in Node /\ m.term \in Nat /\ m.prev \in Nat
      /\ m.commit \in Nat /\ m.entries \in Seq(Entry)
  BY <1>1, MessageFields
<1>3. /\ log \in [Node -> Seq(Entry)]
      /\ currentTerm \in [Node -> Nat]
      /\ votedFor \in [Node -> Node \cup {None}]
      /\ disk \in [Node -> [term : Nat, vote : Node \cup {None}, log : Seq(Entry)]]
      /\ role \in [Node -> {"Follower", "Candidate", "Leader"}]
      /\ electionTimer \in [Node -> BOOLEAN]
      /\ heartbeatTimer \in [Node -> BOOLEAN]
  BY DEF TypeOK
<1>4. /\ lg \in Seq(Entry)
      /\ log' = [log EXCEPT ![n] = lg]
      /\ currentTerm' = [currentTerm EXCEPT ![n] = m.term]
      /\ votedFor' = [votedFor EXCEPT ![n] = vote]
      /\ disk' = [disk EXCEPT ![n] = d]
  BY TakenIn
<1>5. ok => match \in 0 .. Len(new)
  <2> SUFFICES ASSUME ok PROVE match \in 0 .. Len(new)
    OBVIOUS
  <2>1. m.prev \in 0 .. Len(log[n]) /\ log[n] \in Seq(Entry) /\ Len(m.entries) \in Nat
    BY <1>2, <1>3 DEF PrevMatches
  <2> HIDE DEF ok
  <2>2. /\ new \in Seq(Entry)
        /\ new = log[n] => m.prev + Len(m.entries) <= Len(new)
        /\ new # log[n] => Len(new) = m.prev + Len(m.entries)
    <3> DEFINE old == log[n]
               es == m.entries
               prev == m.prev
    <3>1. old \in Seq(Entry) /\ es \in Seq(Entry) /\ prev \in 0 .. Len(old)
      BY <1>2, <2>1
    <3>2. new = appendConflictFree(old, prev, es)
      OBVIOUS
    <3> HIDE DEF old, es, prev, new
    <3>3. /\ new \in Seq(Entry)
          /\ new = old => prev + Len(es) <= Len(new)
          /\ new # old => Len(new) = prev + Len(es)
      BY SMTT(30), <3>1, <3>2, ConflictFreeResult
    <3> QED  BY <3>3 DEF old, es, prev
  <2> HIDE DEF new
  <2>3. Len(new) \in Nat
    BY <2>2
  <2> QED  BY <1>2, <2>1, <2>2, <2>3
<1>6. /\ commitIndex' \in [Node -> Nat]
      /\ lastApplied' \in [Node -> Nat]
      /\ applied' \subseteq [index : Nat \ {0}, entry : Entry, term : Nat]
  <2>1. CASE ok /\ m.commit > commitIndex[n]
    <3>1. applyCommitted(n, Smaller(m.commit, match), new, m.term)
      BY <2>1 DEF onAppendEntries
    <3>2. Smaller(m.commit, match) \in 0 .. Len(new) /\ new \in Seq(Entry)
      BY <1>2, <1>4, <1>5, <2>1 DEF Smaller
    <3> QED  BY <1>2, <3>1, <3>2, ApplyType
  <2>2. CASE ~(ok /\ m.commit > commitIndex[n])
    BY <2>2 DEF onAppendEntries, TypeOK, commitVars
  <2> QED  BY <2>1, <2>2
<1>7. net' \subseteq Message
  <2>1. (IF ok THEN match ELSE 0) \in Nat /\ ok \in BOOLEAN
    BY <1>2, <1>5 DEF PrevMatches
  <2>2. AppendReply(m, m.term, IF ok THEN match ELSE 0, ok) \in Message
    BY <1>1, <1>2, <2>1, ReplyType
  <2>3. net' = (net \ {m}) \cup Sent({AppendReply(m, m.term, IF ok THEN match ELSE 0, ok)})
    BY DEF onAppendEntries
  <2> QED  BY <1>1, <2>2, <2>3 DEF Sent
<1>8. /\ role' \in [Node -> {"Follower", "Candidate", "Leader"}]
      /\ electionTimer' \in [Node -> BOOLEAN]
      /\ heartbeatTimer' \in [Node -> BOOLEAN]
  <2>1. CASE newer
    <3>1. follow(n)
      BY <2>1 DEF onAppendEntries
    <3> QED  BY <1>2, <3>1, FollowType
  <2>2. CASE ~newer
    <3>1. /\ role' = [role EXCEPT ![n] = "Follower"]
          /\ electionTimer' = [electionTimer EXCEPT ![n] = TRUE]
          /\ UNCHANGED heartbeatTimer
      BY <2>2 DEF onAppendEntries
    <3> QED  BY <1>2, <1>3, <3>1
  <2> QED  BY <2>1, <2>2
<1>9. leader' \in [Node -> Node \cup {None}] /\ leaders' \subseteq Nat \X Node
  <2>1. setLeader(n, m.from, m.term, IF newer THEN None ELSE leader[n])
    BY DEF onAppendEntries
  <2> QED  BY <1>2, <2>1, SetLeaderType
<1>10. UNCHANGED <<leaderVars, votesGranted, sessionVars>>
  BY DEF onAppendEntries
<1> HIDE DEF lg, vote, n
<1>11. vote \in Node \cup {None} /\ d \in [term : Nat, vote : Node \cup {None}, log : Seq(Entry)]
  BY <1>2, <1>3, <1>4 DEF vote
<1>12. /\ log' \in [Node -> Seq(Entry)]
       /\ currentTerm' \in [Node -> Nat]
       /\ votedFor' \in [Node -> Node \cup {None}]
       /\ disk' \in [Node -> [term : Nat, vote : Node \cup {None}, log : Seq(Entry)]]
  BY <1>2, <1>3, <1>4, <1>11
<1>13. WrittenThrough'
  BY <1>2, <1>3, <1>4 DEF WrittenThrough
<1> QED  BY <1>6, <1>7, <1>8, <1>9, <1>10, <1>12, <1>13 DEF TypeOK, leaderVars, sessionVars

\* An AppendEntries of an older term keeps the types and the Storage.
LEMMA StaleAppendEntriesType ==
  ASSUME TypeOK, WrittenThrough, NEW m \in net, onStaleAppendEntries(m)
  PROVE  TypeOK' /\ WrittenThrough'
<1>1. m \in Message /\ m.to \in Node /\ net \subseteq Message /\ currentTerm[m.to] \in Nat
  BY MessageFields DEF TypeOK
<1>2. AppendReply(m, currentTerm[m.to], 0, FALSE) \in Message
  BY <1>1, ReplyType
<1>3. net' \subseteq Message
  BY <1>1, <1>2 DEF onStaleAppendEntries, Sent
<1>4. UNCHANGED <<termVars, log, disk, role, commitVars, beliefVars, leaderVars,
                  votesGranted, timerVars, sessionVars>>
  BY DEF onStaleAppendEntries
<1>5. WrittenThrough'
  BY <1>4, SameThrough
<1> QED  BY <1>3, <1>4, <1>5
         DEF TypeOK, termVars, commitVars, beliefVars, leaderVars, timerVars, sessionVars

\* A reply that is not waited for keeps the types and the Storage.
LEMMA StaleAppendEntriesReplyType ==
  ASSUME TypeOK, WrittenThrough, NEW m \in net, onStaleAppendEntriesReply(m)
  PROVE  TypeOK' /\ WrittenThrough'
<1> DEFINE n == m.to
<1>1. m \in Message /\ n \in Node /\ m.term \in Nat /\ net \subseteq Message
  BY MessageFields DEF TypeOK
<1>2. /\ net' = net \ {m}
      /\ UNCHANGED <<log, commitVars, leaderVars, votesGranted, sessionVars>>
      /\ \/ stepDown(n, m.term)
         \/ UNCHANGED <<termVars, disk, role, beliefVars, timerVars>>
  BY DEF onStaleAppendEntriesReply
<1>3. CASE stepDown(n, m.term)
  <2>1. /\ persistTerm(n, m.term, None) /\ follow(n) /\ UNCHANGED leaders
        /\ leader' = [leader EXCEPT ![n] = None]
    BY <1>3 DEF stepDown
  <2>2. leader' \in [Node -> Node \cup {None}]
    BY <2>1 DEF TypeOK
  <2>3. WrittenThrough'
    BY <1>1, <1>2, <2>1, PersistThrough
  <2> QED  BY <1>1, <1>2, <2>1, <2>2, <2>3, PersistType, FollowType
           DEF TypeOK, commitVars, sessionVars, leaderVars
<1>4. CASE UNCHANGED <<termVars, disk, role, beliefVars, timerVars>>
  <2>1. WrittenThrough'
    BY <1>2, <1>4, SameThrough
  <2> QED  BY <1>1, <1>2, <1>4, <2>1
           DEF TypeOK, termVars, commitVars, sessionVars, leaderVars, beliefVars, timerVars
<1> QED  BY <1>2, <1>3, <1>4

\* A reply the leader waits for keeps the types and the Storage.
LEMMA AppendEntriesReplyType ==
  ASSUME TypeOK, WrittenThrough, NEW m \in net, onAppendEntriesReply(m)
  PROVE  TypeOK' /\ WrittenThrough'
<1> DEFINE n     == m.to
           p     == m.from
           match == [matchIndex[n] EXCEPT ![p] = Larger(@, m.match)]
           ni    == BackedOff(nextIndex[n][p])
           again == AppendTo(n, p, currentTerm[n], log[n], ni, commitIndex[n])
           commit == Commit(n, log[n], match)
<1>1. m \in Message /\ m.type = "AppendEntriesReply" /\ net \subseteq Message
  BY DEF TypeOK, onAppendEntriesReply
<1>2. /\ n \in Node /\ p \in Node /\ m.match \in Nat
  BY <1>1, MessageFields
<1>3. /\ nextIndex \in [Node -> [Node -> Nat \ {0}]]
      /\ matchIndex \in [Node -> [Node -> Nat]]
      /\ log[n] \in Seq(Entry) /\ currentTerm[n] \in Nat /\ commitIndex[n] \in Nat
  BY <1>2 DEF TypeOK
<1>4. UNCHANGED <<termVars, log, disk, role, beliefVars, votesGranted, timerVars,
                  sessionVars>>
  BY DEF onAppendEntriesReply
<1>5. WrittenThrough'
  BY <1>4, SameThrough
<1>6. match \in [Node -> Nat] /\ match[p] \in Nat
  BY <1>2, <1>3 DEF Larger
<1>7. CASE /\ matchIndex' = [matchIndex EXCEPT ![n] = match]
           /\ nextIndex' = [nextIndex EXCEPT ![n][p] = match[p] + 1]
           /\ IF commit > commitIndex[n]
              THEN applyCommitted(n, commit, log[n], currentTerm[n])
              ELSE UNCHANGED commitVars
           /\ net' = net \ {m}
  <2>1. /\ commitIndex' \in [Node -> Nat]
        /\ lastApplied' \in [Node -> Nat]
        /\ applied' \subseteq [index : Nat \ {0}, entry : Entry, term : Nat]
    <3> HIDE DEF match
    <3>1. CASE commit > commitIndex[n]
      <4>1. commit \in 0 .. Len(log[n])
        BY <1>2, <1>3, <3>1, CommitType
      <4> QED  BY <1>2, <1>3, <1>7, <3>1, <4>1, ApplyType
    <3>2. CASE ~(commit > commitIndex[n])
      BY <1>7, <3>2 DEF TypeOK, commitVars
    <3> QED  BY <3>1, <3>2
  <2>2. match[p] + 1 \in Nat \ {0}
    BY <1>6
  <2> HIDE DEF match
  <2>3. /\ nextIndex' \in [Node -> [Node -> Nat \ {0}]]
        /\ matchIndex' \in [Node -> [Node -> Nat]]
    BY <1>2, <1>3, <1>6, <1>7, <2>2
  <2> QED  BY <1>1, <1>4, <1>5, <1>7, <2>1, <2>3
           DEF TypeOK, termVars, beliefVars, timerVars, sessionVars
<1>8. CASE /\ nextIndex' = [nextIndex EXCEPT ![n][p] = ni]
           /\ net' = (net \ {m}) \cup Sent({again})
           /\ UNCHANGED <<matchIndex, commitVars>>
  <2>1. ni \in Nat \ {0}
    BY SMTT(30), <1>2, <1>3 DEF BackedOff
  <2> HIDE DEF ni
  <2>2. again \in Message
    BY <1>2, <1>3, <2>1, AppendToType
  <2>3. nextIndex' \in [Node -> [Node -> Nat \ {0}]] /\ net' \subseteq Message
    BY <1>1, <1>2, <1>3, <1>8, <2>1, <2>2 DEF Sent
  <2> QED  BY <1>4, <1>5, <1>8, <2>3
           DEF TypeOK, termVars, beliefVars, timerVars, sessionVars, commitVars
<1> QED  BY <1>7, <1>8 DEF onAppendEntriesReply

\* A heartbeat keeps the types and the Storage.
LEMMA HeartbeatType ==
  ASSUME TypeOK, WrittenThrough, NEW n \in Node, onHeartbeat(n)
  PROVE  TypeOK' /\ WrittenThrough'
<1>1. /\ currentTerm[n] \in Nat /\ log[n] \in Seq(Entry) /\ net \subseteq Message
      /\ nextIndex[n] \in [Node -> Nat] /\ commitIndex[n] \in Nat
  BY DEF TypeOK
<1>2. net' \subseteq Message
  BY <1>1, AppendToAllType DEF onHeartbeat, Sent
<1>3. UNCHANGED <<termVars, log, disk, role, commitVars, beliefVars, leaderVars,
                  votesGranted, timerVars, sessionVars>>
  BY DEF onHeartbeat
<1>4. WrittenThrough'
  BY <1>3, SameThrough
<1> QED  BY <1>2, <1>3, <1>4
         DEF TypeOK, termVars, commitVars, beliefVars, leaderVars, timerVars, sessionVars

\* What a proposal does to the leader's log and Storage.
LEMMA Proposed ==
  ASSUME TypeOK, WrittenThrough, NEW n \in Node, NEW c \in Command, handlePropose(n, c)
  PROVE  LET lg == Append(log[n], [term |-> currentTerm[n], cmd |-> c])
         IN  /\ lg \in Seq(Entry)
             /\ log' = [log EXCEPT ![n] = lg]
             /\ disk' = [disk EXCEPT ![n] =
                   [term |-> currentTerm[n], vote |-> votedFor[n], log |-> lg]]
<1> DEFINE e == [term |-> currentTerm[n], cmd |-> c]
           lg == Append(log[n], e)
           old == log[n]
<1>1. /\ currentTerm[n] \in Nat /\ old \in Seq(Entry)
      /\ disk[n] = [term |-> currentTerm[n], vote |-> votedFor[n], log |-> old]
      /\ disk \in [Node -> [term : Nat, vote : Node \cup {None}, log : Seq(Entry)]]
  BY DEF TypeOK, WrittenThrough
<1>2. e \in Entry
  BY <1>1 DEF Entry
<1>3. /\ log' = [log EXCEPT ![n] = lg]
      /\ disk' = [disk EXCEPT ![n].log = AppendEntries(@, Len(lg), <<e>>)]
  BY DEF handlePropose
<1>4. /\ lg \in Seq(Entry) /\ Len(lg) = Len(old) + 1
      /\ Len(old) \in Nat
  BY <1>1, <1>2, AppendProperties
<1>5. AppendEntries(old, Len(lg), <<e>>) = lg
  <2>1. SubSeq(old, 1, Len(lg) - 1) = old
    <3>1. Len(lg) - 1 = Len(old)
      BY <1>4
    <3> QED  BY <1>1, <3>1, SubSeqFull
  <2>2. old \o <<e>> = Append(old, e)
    BY <1>1, <1>2, AppendIsConcat
  <2> QED  BY <2>1, <2>2 DEF AppendEntries
<1> HIDE DEF lg, e
<1>6. disk' = [disk EXCEPT ![n] = [disk[n] EXCEPT !.log = lg]]
  <2>1. disk' = [disk EXCEPT ![n].log = AppendEntries(disk[n].log, Len(lg), <<e>>)]
    BY <1>1, <1>3
  <2>2. disk[n].log = old
    BY <1>1
  <2> QED  BY <1>1, <1>5, <2>1, <2>2
<1>7. [disk[n] EXCEPT !.log = lg] = [term |-> currentTerm[n], vote |-> votedFor[n], log |-> lg]
  BY <1>1
<1> QED  BY <1>3, <1>4, <1>6, <1>7 DEF lg, e

\* A proposal keeps the types and the Storage.
LEMMA ProposeType ==
  ASSUME TypeOK, WrittenThrough, NEW n \in Node, NEW c \in Command, handlePropose(n, c)
  PROVE  TypeOK' /\ WrittenThrough'
<1> DEFINE lg == Append(log[n], [term |-> currentTerm[n], cmd |-> c])
           d  == [term |-> currentTerm[n], vote |-> votedFor[n], log |-> lg]
           commit == Commit(n, lg, matchIndex[n])
<1>1. /\ log \in [Node -> Seq(Entry)]
      /\ disk \in [Node -> [term : Nat, vote : Node \cup {None}, log : Seq(Entry)]]
      /\ nextIndex[n] \in [Node -> Nat] /\ commitIndex[n] \in Nat
      /\ currentTerm[n] \in Nat /\ votedFor[n] \in Node \cup {None}
      /\ net \subseteq Message
  <2>1. nextIndex \in [Node -> [Node -> Nat \ {0}]]
    BY DEF TypeOK
  <2>2. nextIndex[n] \in [Node -> Nat]
    BY <2>1
  <2> QED  BY <2>2 DEF TypeOK
<1>2. /\ lg \in Seq(Entry)
      /\ log' = [log EXCEPT ![n] = lg]
      /\ disk' = [disk EXCEPT ![n] = d]
  BY Proposed
<1>3. /\ IF commit > commitIndex[n]
         THEN applyCommitted(n, commit, lg, currentTerm[n])
         ELSE UNCHANGED commitVars
      /\ net' = net \cup Sent(AppendToAll(n, currentTerm[n], lg, nextIndex[n], commit))
      /\ UNCHANGED <<termVars, role, beliefVars, leaderVars, votesGranted, timerVars,
                     sessionVars>>
  BY DEF handlePropose
<1> HIDE DEF lg
<1>4. commit \in Nat
  BY <1>2, CommitType
<1>5. /\ commitIndex' \in [Node -> Nat]
      /\ lastApplied' \in [Node -> Nat]
      /\ applied' \subseteq [index : Nat \ {0}, entry : Entry, term : Nat]
  <2>1. CASE commit > commitIndex[n]
    <3>1. commit \in 0 .. Len(lg)
      BY <1>2, <2>1, CommitType
    <3> QED  BY <1>1, <1>2, <1>3, <2>1, <3>1, ApplyType
  <2>2. CASE ~(commit > commitIndex[n])
    BY <1>3, <2>2 DEF TypeOK, commitVars
  <2> QED  BY <2>1, <2>2
<1> HIDE DEF commit
<1>6. net' \subseteq Message
  BY <1>1, <1>2, <1>3, <1>4, AppendToAllType DEF Sent
<1>7. /\ log' \in [Node -> Seq(Entry)]
      /\ disk' \in [Node -> [term : Nat, vote : Node \cup {None}, log : Seq(Entry)]]
  BY <1>1, <1>2
<1>8. WrittenThrough'
  BY <1>1, <1>2, <1>3 DEF WrittenThrough, termVars
<1> QED  BY <1>3, <1>5, <1>6, <1>7, <1>8
         DEF TypeOK, termVars, beliefVars, leaderVars, timerVars, sessionVars

\* The session callbacks and a lost session keep the types and the Storage.
LEMMA SessionType ==
  ASSUME TypeOK, WrittenThrough, NEW n \in Node, NEW h \in Node,
         \/ OnSessionConnected(n, h)
         \/ ensureConnections(n, h)
         \/ OnSessionDisconnected(n, h)
  PROVE  TypeOK' /\ WrittenThrough'
<1>1. /\ up \subseteq SUBSET Node /\ sessions \in [Node -> SUBSET Node]
      /\ net \subseteq Message
  BY DEF TypeOK
<1>2. /\ up' \subseteq SUBSET Node /\ sessions' \in [Node -> SUBSET Node]
      /\ net' \subseteq Message
  BY <1>1 DEF OnSessionConnected, ensureConnections, OnSessionDisconnected
<1>3. UNCHANGED <<termVars, log, disk, role, commitVars, beliefVars, leaderVars,
                  votesGranted, timerVars>>
  BY DEF OnSessionConnected, ensureConnections, OnSessionDisconnected
<1>4. WrittenThrough'
  BY <1>3, SameThrough
<1> QED  BY <1>2, <1>3, <1>4
         DEF TypeOK, termVars, commitVars, beliefVars, leaderVars, timerVars

\* A restart keeps the types and the Storage.
LEMMA RebootType ==
  ASSUME TypeOK, WrittenThrough, NEW n \in Node,
         NEW d \in [term : Nat, vote : Node \cup {None}, log : Seq(Entry)],
         Rebooted(n, d)
  PROVE  TypeOK' /\ WrittenThrough'
<1>1. /\ d.term \in Nat /\ d.vote \in Node \cup {None} /\ d.log \in Seq(Entry)
      /\ d = [term |-> d.term, vote |-> d.vote, log |-> d.log]
  OBVIOUS
<1>2. /\ currentTerm \in [Node -> Nat]
      /\ votedFor \in [Node -> Node \cup {None}]
      /\ log \in [Node -> Seq(Entry)]
      /\ disk \in [Node -> [term : Nat, vote : Node \cup {None}, log : Seq(Entry)]]
  BY DEF TypeOK
<1>3. /\ currentTerm' \in [Node -> Nat]
      /\ votedFor' \in [Node -> Node \cup {None}]
      /\ log' \in [Node -> Seq(Entry)]
      /\ disk' \in [Node -> [term : Nat, vote : Node \cup {None}, log : Seq(Entry)]]
  BY <1>1, <1>2 DEF Rebooted
<1>4. WrittenThrough'
  BY <1>1, <1>2 DEF Rebooted, WrittenThrough
<1>5. /\ role' \in [Node -> {"Follower", "Candidate", "Leader"}]
      /\ commitIndex' \in [Node -> Nat]
      /\ lastApplied' \in [Node -> Nat]
      /\ leader' \in [Node -> Node \cup {None}]
      /\ electionTimer' \in [Node -> BOOLEAN]
      /\ heartbeatTimer' \in [Node -> BOOLEAN]
  BY DEF TypeOK, Rebooted
<1>6. /\ nextIndex' \in [Node -> [Node -> Nat \ {0}]]
      /\ matchIndex' \in [Node -> [Node -> Nat]]
      /\ votesGranted' \in [Node -> SUBSET Node]
  <2>1. /\ nextIndex \in [Node -> [Node -> Nat \ {0}]]
        /\ matchIndex \in [Node -> [Node -> Nat]]
        /\ votesGranted \in [Node -> SUBSET Node]
    BY DEF TypeOK
  <2> QED  BY <2>1 DEF Rebooted
<1>7. /\ up' \subseteq SUBSET Node /\ sessions' \in [Node -> SUBSET Node]
      /\ net' \subseteq Message
  BY DEF TypeOK, Rebooted
<1> QED  BY <1>3, <1>4, <1>5, <1>6, <1>7 DEF TypeOK, Rebooted

\* Storage with the term of a message of a newer one, and no vote.
LEMMA TornType ==
  ASSUME TypeOK, NEW m \in net
  PROVE  /\ m.to \in Node
         /\ [disk[m.to] EXCEPT !.term = m.term, !.vote = None]
               = [term |-> m.term, vote |-> None, log |-> disk[m.to].log]
         /\ [disk[m.to] EXCEPT !.term = m.term, !.vote = None]
               \in [term : Nat, vote : Node \cup {None}, log : Seq(Entry)]
<1>1. m.to \in Node /\ m.term \in Nat
  BY MessageFields DEF TypeOK
<1> DEFINE d == disk[m.to]
           d1 == [d EXCEPT !.term = m.term]
<1>2. d \in [term : Nat, vote : Node \cup {None}, log : Seq(Entry)]
  BY <1>1 DEF TypeOK
<1> HIDE DEF d
<1>3. d1 = [term |-> m.term, vote |-> d.vote, log |-> d.log] /\ d.log \in Seq(Entry)
  BY <1>2
<1> HIDE DEF d1
<1>4. [d1 EXCEPT !.vote = None] = [term |-> m.term, vote |-> None, log |-> d.log]
  BY <1>3
<1>5. [term |-> m.term, vote |-> None, log |-> d.log]
          \in [term : Nat, vote : Node \cup {None}, log : Seq(Entry)]
  BY <1>1, <1>3
<1> QED  BY <1>1, <1>4, <1>5 DEF d1, d

\* Every step keeps the types and the Storage.
LEMMA TypeStep ==
  ASSUME TypeOK, WrittenThrough, [Next]_vars
  PROVE  TypeOK' /\ WrittenThrough'
<1>1. ASSUME NEW n \in Node, onElectionTimeout(n)
      PROVE  TypeOK' /\ WrittenThrough'
  <2>1. persistTerm(n, currentTerm[n] + 1, n) /\ UNCHANGED log
    BY <1>1 DEF onElectionTimeout
  <2>2. currentTerm[n] + 1 \in Nat
    BY DEF TypeOK
  <2> QED  BY <1>1, <2>1, <2>2, TimeoutType, PersistThrough
<1>2. ASSUME NEW m \in net, onRequestVote(m)
      PROVE  TypeOK' /\ WrittenThrough'
  <2> DEFINE n     == m.to
             newer == m.term > currentTerm[n]
             term  == Larger(m.term, currentTerm[n])
             voted == IF newer THEN None ELSE votedFor[n]
             grant == /\ m.term = term
                      /\ voted \in {None, m.from}
                      /\ logIsUpToDate(m.lastTerm, m.lastIndex, lastTerm(log[n]), Len(log[n]))
             vote  == IF grant THEN m.from ELSE voted
  <2>1. m.to \in Node /\ m.from \in Node /\ m.term \in Nat
    BY MessageFields DEF TypeOK
  <2>2. currentTerm[n] \in Nat /\ votedFor[n] \in Node \cup {None}
    BY <2>1 DEF TypeOK
  <2>3. term \in Nat /\ vote \in Node \cup {None}
    BY <2>1, <2>2 DEF Larger
  <2>4. /\ UNCHANGED log
        /\ persistTerm(n, term, vote) \/ UNCHANGED <<termVars, disk>>
    BY <1>2 DEF onRequestVote
  <2> HIDE DEF vote, term, n
  <2>5. WrittenThrough'
    BY <2>1, <2>3, <2>4, PersistThrough, SameThrough DEF n
  <2> QED  BY <1>2, <2>5, RequestVoteType
<1>3. ASSUME NEW m \in net, onRequestVoteReply(m)
      PROVE  TypeOK' /\ WrittenThrough'
  <2>1. m.to \in Node /\ m.term \in Nat
    BY MessageFields DEF TypeOK
  <2>2. /\ UNCHANGED log
        /\ persistTerm(m.to, m.term, None) \/ UNCHANGED <<termVars, disk>>
    BY <1>3 DEF onRequestVoteReply, stepDown
  <2> QED  BY <1>3, <2>1, <2>2, PersistThrough, SameThrough, RequestVoteReplyType
<1>4. ASSUME NEW n \in Node, Restart(n)
      PROVE  TypeOK' /\ WrittenThrough'
  <2>1. disk[n] \in [term : Nat, vote : Node \cup {None}, log : Seq(Entry)]
    BY DEF TypeOK
  <2> QED  BY <1>4, <2>1, RebootType DEF Restart
<1>5. ASSUME NEW m \in net, RestartInHandler(m)
      PROVE  TypeOK' /\ WrittenThrough'
  BY <1>5, TornType, RebootType DEF RestartInHandler
<1>6. CASE UNCHANGED vars
  <2>1. UNCHANGED <<termVars, log, disk>>
    BY <1>6 DEF vars
  <2>2. WrittenThrough'
    BY <2>1, SameThrough
  <2> QED  BY <1>6, <2>2
           DEF TypeOK, vars, termVars, commitVars, beliefVars, leaderVars, timerVars,
               sessionVars
<1> QED  BY <1>1, <1>2, <1>3, <1>4, <1>5, <1>6, AppendEntriesType,
            StaleAppendEntriesType, StaleAppendEntriesReplyType, AppendEntriesReplyType,
            HeartbeatType, ProposeType, SessionType
         DEF Next, Handler, Deliver, Fault

\* The initial state is well typed.
LEMMA TypeInit ==
  ASSUME Init
  PROVE  TypeOK /\ WrittenThrough
<1>1. <<>> \in Seq(Entry)
  BY EmptySeq
<1> QED  BY <1>1 DEF Init, Booted, TypeOK, WrittenThrough

\* Type correctness, and Storage never behind what a handler left in memory.
THEOREM TypeCorrect == Spec => []TypeOK /\ []WrittenThrough
<1>1. Init => TypeOK /\ WrittenThrough
  BY TypeInit
<1>2. (TypeOK /\ WrittenThrough) /\ [Next]_vars => (TypeOK /\ WrittenThrough)'
  BY TypeStep
<1> QED  BY <1>1, <1>2, PTL DEF Spec
------------------------------------------------------------------------------
(* Elections.  What the roles, the beliefs and the messages say of leaders,  *)
(* the set of <<term, node>> that LeaderChanged ever reported.               *)

RoleInv ==
    /\ \A n \in Node : role[n] # "Follower" => votedFor[n] = n
    /\ \A n \in Node : role[n] = "Candidate" => leader[n] = None
    /\ \A n \in Node : role[n] = "Leader" => <<currentTerm[n], n>> \in leaders
    /\ \A n \in Node : leader[n] # None => <<currentTerm[n], leader[n]>> \in leaders
    /\ \A a \in leaders :
          /\ currentTerm[a[2]] >= a[1]
          /\ currentTerm[a[2]] = a[1] => role[a[2]] # "Candidate"

NetInv ==
    /\ \A m \in net : m.from # m.to
    /\ \A m \in net : m.type = "AppendEntries" => <<m.term, m.from>> \in leaders

\* V[n][t] is the vote n cast in term t: there is one per term, and the
\* granted replies, the candidates' tallies and the elected leaders rest on it.
VoteInv(V) ==
    /\ V \in [Node -> [Nat -> Node \cup {None}]]
    /\ \A n \in Node : V[n][currentTerm[n]] = votedFor[n]
    /\ \A n \in Node, t \in Nat : t > currentTerm[n] => V[n][t] = None
    /\ \A m \in net : m.type = "RequestVoteReply" /\ m.granted => V[m.from][m.term] = m.to
    /\ \A n \in Node : role[n] = "Candidate" =>
          \A q \in votesGranted[n] : V[q][currentTerm[n]] = n
    /\ \A a \in leaders : \E Q \in SUBSET Node :
          IsMajority(Q) /\ \A q \in Q : V[q][a[1]] = a[2]

ElectionInv ==
    /\ TypeOK
    /\ WrittenThrough
    /\ TimersFollowRole
    /\ RoleInv
    /\ NetInv
    /\ \E V : VoteInv(V)
------------------------------------------------------------------------------
\* Two leaders of one term need a majority each, and the majorities share a
\* node, which votes once.
LEMMA OneLeaderPerTerm ==
  ASSUME TypeOK, NEW V, VoteInv(V)
  PROVE  ElectionSafety
<1> SUFFICES ASSUME NEW a \in leaders, NEW b \in leaders, a[1] = b[1]
             PROVE  a[2] = b[2]
  BY DEF ElectionSafety
<1>1. PICK P \in SUBSET Node : IsMajority(P) /\ \A q \in P : V[q][a[1]] = a[2]
  BY DEF VoteInv
<1>2. PICK Q \in SUBSET Node : IsMajority(Q) /\ \A q \in Q : V[q][b[1]] = b[2]
  BY DEF VoteInv
<1>3. PICK n \in P : n \in Q
  BY <1>1, <1>2, MajoritiesMeet
<1> QED  BY <1>1, <1>2, <1>3

\* The votes after a step.
NextVotes(V) ==
    [n \in Node |-> [t \in Nat |->
        IF t = currentTerm'[n] THEN votedFor'[n] ELSE V[n][t]]]

\* q voted for n in n's term: it is in the tally, or its reply is in flight.
VotedFor(q, n) ==
    \/ role[n] = "Candidate" /\ q \in votesGranted[n]
    \/ \E m \in net : /\ m.type = "RequestVoteReply" /\ m.granted
                      /\ m.from = q /\ m.to = n /\ m.term = currentTerm[n]

\* What a step does to the terms, the votes and the leaders: no node takes a
\* vote back, and a leader has the votes of a majority.
TermStep ==
    \A n \in Node :
        \/ currentTerm'[n] > currentTerm[n]
        \/ currentTerm'[n] = currentTerm[n] /\ votedFor[n] \in {None, votedFor'[n]}

ReplyStep ==
    \A m \in net' : m.type = "RequestVoteReply" /\ m.granted =>
        m \in net \/ (m.term = currentTerm'[m.from] /\ votedFor'[m.from] = m.to)

CandidateStep ==
    \A n \in Node : role'[n] = "Candidate" =>
        \A q \in votesGranted'[n] :
            \/ q = n /\ votedFor'[n] = n
            \/ currentTerm'[n] = currentTerm[n] /\ VotedFor(q, n)

LeaderStep ==
    \A a \in leaders' : a \in leaders \/
        \E n \in Node : \E Q \in SUBSET Node :
            /\ a = <<currentTerm'[n], n>>
            /\ IsMajority(Q)
            /\ \A q \in Q : \/ q = n /\ votedFor'[n] = n
                            \/ currentTerm'[n] = currentTerm[n] /\ VotedFor(q, n)

ElectionStep == TermStep /\ ReplyStep /\ CandidateStep /\ LeaderStep

\* Such a step keeps one vote per term under everything that rests on it.
LEMMA VotesKept ==
  ASSUME TypeOK, TypeOK', ElectionStep, NEW V, VoteInv(V)
  PROVE  (\E W : VoteInv(W))'
<1>a. PICK W : W = NextVotes(V)
  OBVIOUS
<1>0. /\ currentTerm \in [Node -> Nat] /\ currentTerm' \in [Node -> Nat]
      /\ votedFor \in [Node -> Node \cup {None}] /\ votedFor' \in [Node -> Node \cup {None}]
      /\ votesGranted \in [Node -> SUBSET Node] /\ votesGranted' \in [Node -> SUBSET Node]
      /\ net \subseteq Message /\ net' \subseteq Message
      /\ leaders \subseteq Nat \X Node /\ leaders' \subseteq Nat \X Node
  BY DEF TypeOK
<1>1. V \in [Node -> [Nat -> Node \cup {None}]]
  BY DEF VoteInv
<1>2. W \in [Node -> [Nat -> Node \cup {None}]]
  BY <1>a, <1>0, <1>1 DEF NextVotes
<1>3. \A n \in Node, t \in Nat :
         W[n][t] = IF t = currentTerm'[n] THEN votedFor'[n] ELSE V[n][t]
  BY <1>a, <1>1 DEF NextVotes
<1>4. \A n \in Node : W[n][currentTerm'[n]] = votedFor'[n]
  BY <1>0, <1>3
<1>5. ASSUME NEW n \in Node, NEW t \in Nat, V[n][t] # None
      PROVE  W[n][t] = V[n][t]
  <2>1. t <= currentTerm[n]
    BY <1>0, <1>5 DEF VoteInv
  <2>2. CASE t = currentTerm'[n]
    <3>1. currentTerm'[n] = currentTerm[n] /\ votedFor[n] \in {None, votedFor'[n]}
      BY <1>0, <2>1, <2>2 DEF ElectionStep, TermStep
    <3>2. V[n][t] = votedFor[n]
      BY <2>2, <3>1 DEF VoteInv
    <3> QED  BY <1>3, <1>5, <2>2, <3>1, <3>2
  <2> QED  BY <1>3, <2>2
<1>6. ASSUME NEW n \in Node, NEW q \in Node, VotedFor(q, n)
      PROVE  W[q][currentTerm[n]] = n
  <2>1. V[q][currentTerm[n]] = n
    BY <1>6 DEF VotedFor, VoteInv
  <2>2. n # None /\ currentTerm[n] \in Nat
    BY <1>0, NoneAssumption
  <2> QED  BY <1>5, <2>1, <2>2
<1>7. ASSUME NEW n \in Node, NEW t \in Nat, t > currentTerm'[n]
      PROVE  W[n][t] = None
  <2>1. t > currentTerm[n] /\ t # currentTerm'[n]
    BY <1>0, <1>7 DEF ElectionStep, TermStep
  <2> QED  BY <1>3, <2>1 DEF VoteInv
<1>8. ASSUME NEW m \in net', m.type = "RequestVoteReply", m.granted
      PROVE  W[m.from][m.term] = m.to
  <2>1. m.from \in Node /\ m.term \in Nat /\ m.to \in Node
    BY <1>0, MessageFields
  <2>2. CASE m \in net
    BY <1>5, <1>8, <2>1, <2>2, NoneAssumption DEF VoteInv
  <2>3. CASE m \notin net
    BY <1>4, <1>8, <2>1, <2>3 DEF ElectionStep, ReplyStep
  <2> QED  BY <2>2, <2>3
<1>9. ASSUME NEW n \in Node, role'[n] = "Candidate", NEW q \in votesGranted'[n]
      PROVE  W[q][currentTerm'[n]] = n
  BY <1>0, <1>4, <1>6, <1>9 DEF ElectionStep, CandidateStep
<1>10. ASSUME NEW a \in leaders'
       PROVE  \E Q \in SUBSET Node : IsMajority(Q) /\ \A q \in Q : W[q][a[1]] = a[2]
  <2>1. CASE a \in leaders
    <3>1. PICK Q \in SUBSET Node : IsMajority(Q) /\ \A q \in Q : V[q][a[1]] = a[2]
      BY <2>1 DEF VoteInv
    <3>2. a[1] \in Nat /\ a[2] \in Node /\ a[2] # None
      BY <1>0, <2>1, NoneAssumption
    <3>3. \A q \in Q : W[q][a[1]] = a[2]
      BY <1>5, <3>1, <3>2
    <3> QED  BY <3>1, <3>3
  <2>2. CASE a \notin leaders
    <3>1. PICK n \in Node, Q \in SUBSET Node :
             /\ a = <<currentTerm'[n], n>>
             /\ IsMajority(Q)
             /\ \A q \in Q : \/ q = n /\ votedFor'[n] = n
                             \/ currentTerm'[n] = currentTerm[n] /\ VotedFor(q, n)
      BY <2>2 DEF ElectionStep, LeaderStep
    <3>2. \A q \in Q : W[q][a[1]] = a[2]
      BY <1>0, <1>4, <1>6, <3>1
    <3> QED  BY <3>1, <3>2
  <2> QED  BY <2>1, <2>2
<1>11. VoteInv(W)'
  BY <1>2, <1>4, <1>7, <1>8, <1>9, <1>10 DEF VoteInv
<1> QED  BY <1>11
------------------------------------------------------------------------------
(* The steps, one by one. *)

RaftInv == TypeOK /\ WrittenThrough /\ TimersFollowRole /\ RoleInv /\ NetInv

Elected == ElectionStep /\ TimersFollowRole' /\ RoleInv' /\ NetInv'

\* Messages that only a leader, or only a replica, sends.
LEMMA AppendToAllFields ==
  ASSUME NEW n, NEW term, NEW lg, NEW next, NEW commit,
         NEW m \in Sent(AppendToAll(n, term, lg, next, commit))
  PROVE  m.type = "AppendEntries" /\ m.from = n /\ m.term = term /\ m.to \in Node \ {n}
  BY DEF Sent, AppendToAll, AppendTo, Peers

\* A step that leaves terms, votes, roles, beliefs and timers alone.
LEMMA QuietStep ==
  ASSUME RaftInv, UNCHANGED <<termVars, role, beliefVars, votesGranted, timerVars>>,
         \A m \in net' : \/ m \in net
                         \/ /\ m.type = "AppendEntriesReply"
                            /\ m.from # m.to
                         \/ /\ m.type = "AppendEntries"
                            /\ m.from # m.to
                            /\ <<m.term, m.from>> \in leaders
  PROVE  Elected
<1>1. ElectionStep
  BY DEF ElectionStep, TermStep, ReplyStep, CandidateStep, LeaderStep, VotedFor,
         termVars, beliefVars
<1>2. TimersFollowRole' /\ RoleInv'
  BY DEF RaftInv, TimersFollowRole, RoleInv, termVars, beliefVars, timerVars
<1>3. NetInv'
  BY DEF RaftInv, NetInv, beliefVars
<1> QED  BY <1>1, <1>2, <1>3 DEF Elected

\* A message of a newer term makes any node a follower without a leader.
LEMMA StepDownStep ==
  ASSUME RaftInv, NEW n \in Node, NEW term \in Nat, term > currentTerm[n],
         stepDown(n, term), net' \subseteq net, UNCHANGED votesGranted
  PROVE  Elected
<1>1. /\ currentTerm \in [Node -> Nat]
      /\ votedFor \in [Node -> Node \cup {None}]
      /\ role \in [Node -> {"Follower", "Candidate", "Leader"}]
      /\ leader \in [Node -> Node \cup {None}]
      /\ electionTimer \in [Node -> BOOLEAN]
      /\ heartbeatTimer \in [Node -> BOOLEAN]
      /\ leaders \subseteq Nat \X Node
  BY DEF RaftInv, TypeOK
<1>2. /\ currentTerm' = [currentTerm EXCEPT ![n] = term]
      /\ votedFor' = [votedFor EXCEPT ![n] = None]
      /\ role' = [role EXCEPT ![n] = "Follower"]
      /\ electionTimer' = [electionTimer EXCEPT ![n] = TRUE]
      /\ heartbeatTimer' = IF role[n] = "Leader"
                           THEN [heartbeatTimer EXCEPT ![n] = FALSE]
                           ELSE heartbeatTimer
      /\ leader' = [leader EXCEPT ![n] = None]
      /\ leaders' = leaders
  BY DEF stepDown, persistTerm, follow
<1>3. ElectionStep
  <2>1. TermStep
    BY <1>1, <1>2 DEF TermStep
  <2>2. ReplyStep /\ LeaderStep
    BY <1>2 DEF ReplyStep, LeaderStep
  <2>3. CandidateStep
    BY <1>1, <1>2 DEF CandidateStep, VotedFor
  <2> QED  BY <2>1, <2>2, <2>3 DEF ElectionStep
<1>4. TimersFollowRole'
  BY <1>1, <1>2 DEF RaftInv, TimersFollowRole
<1>5. RoleInv'
  BY <1>1, <1>2 DEF RaftInv, RoleInv
<1>6. NetInv'
  BY <1>2 DEF RaftInv, NetInv
<1> QED  BY <1>3, <1>4, <1>5, <1>6 DEF Elected

\* A node that comes back is a follower that keeps its term and vote, or with
\* a newer term and no vote.
LEMMA RebootStep ==
  ASSUME RaftInv, NEW n \in Node,
         NEW d \in [term : Nat, vote : Node \cup {None}, log : Seq(Entry)],
         \/ d.term > currentTerm[n]
         \/ d.term = currentTerm[n] /\ d.vote = votedFor[n],
         Rebooted(n, d)
  PROVE  Elected
<1>1. /\ currentTerm \in [Node -> Nat]
      /\ votedFor \in [Node -> Node \cup {None}]
      /\ role \in [Node -> {"Follower", "Candidate", "Leader"}]
      /\ leader \in [Node -> Node \cup {None}]
      /\ electionTimer \in [Node -> BOOLEAN]
      /\ heartbeatTimer \in [Node -> BOOLEAN]
      /\ votesGranted \in [Node -> SUBSET Node]
      /\ leaders \subseteq Nat \X Node
  BY DEF RaftInv, TypeOK
<1>2. /\ currentTerm' = [currentTerm EXCEPT ![n] = d.term]
      /\ votedFor' = [votedFor EXCEPT ![n] = d.vote]
      /\ role' = [role EXCEPT ![n] = "Follower"]
      /\ electionTimer' = [electionTimer EXCEPT ![n] = TRUE]
      /\ heartbeatTimer' = [heartbeatTimer EXCEPT ![n] = FALSE]
      /\ leader' = [leader EXCEPT ![n] = None]
      /\ votesGranted' = [votesGranted EXCEPT ![n] = {}]
      /\ leaders' = leaders
      /\ net' \subseteq net
      /\ d.term \in Nat
  BY DEF Rebooted
<1>3. ElectionStep
  <2>1. TermStep
    BY <1>1, <1>2 DEF TermStep
  <2>2. ReplyStep /\ LeaderStep
    BY <1>2 DEF ReplyStep, LeaderStep
  <2>3. CandidateStep
    BY <1>1, <1>2 DEF CandidateStep, VotedFor
  <2> QED  BY <2>1, <2>2, <2>3 DEF ElectionStep
<1>4. TimersFollowRole'
  BY <1>1, <1>2 DEF RaftInv, TimersFollowRole
<1>5. RoleInv'
  BY <1>1, <1>2 DEF RaftInv, RoleInv
<1>6. NetInv'
  BY <1>2 DEF RaftInv, NetInv
<1> QED  BY <1>3, <1>4, <1>5, <1>6 DEF Elected

\* startElection votes for itself in a term it has never voted in; a node
\* alone in its group is elected by that.
LEMMA TimeoutStep ==
  ASSUME RaftInv, NEW n \in Node, onElectionTimeout(n)
  PROVE  Elected
<1> DEFINE term == currentTerm[n] + 1
           ask(p) == [type |-> "RequestVote", from |-> n, to |-> p, term |-> term,
                      lastIndex |-> Len(log[n]), lastTerm |-> lastTerm(log[n])]
           msgs == net \cup Sent({ask(p) : p \in Peers(n)})
           next == [p \in Node |-> Len(log[n]) + 1]
<1>1. /\ currentTerm \in [Node -> Nat]
      /\ votedFor \in [Node -> Node \cup {None}]
      /\ role \in [Node -> {"Follower", "Candidate", "Leader"}]
      /\ leader \in [Node -> Node \cup {None}]
      /\ electionTimer \in [Node -> BOOLEAN]
      /\ heartbeatTimer \in [Node -> BOOLEAN]
      /\ votesGranted \in [Node -> SUBSET Node]
      /\ leaders \subseteq Nat \X Node
  BY DEF RaftInv, TypeOK
<1>2. \A m \in msgs : m \in net \/ (m.type = "RequestVote" /\ m.from # m.to)
  BY DEF Sent, Peers
<1>3. /\ currentTerm' = [currentTerm EXCEPT ![n] = term]
      /\ votedFor' = [votedFor EXCEPT ![n] = n]
      /\ votesGranted' = [votesGranted EXCEPT ![n] = {n}]
      /\ \/ IsMajority({n}) /\ becomeLeader(n, term, None, msgs)
         \/ /\ role' = [role EXCEPT ![n] = "Candidate"]
            /\ electionTimer' = [electionTimer EXCEPT ![n] = TRUE]
            /\ leader' = [leader EXCEPT ![n] = None]
            /\ net' = msgs
            /\ UNCHANGED <<heartbeatTimer, leaders>>
      /\ role[n] # "Leader"
  BY DEF onElectionTimeout, persistTerm
<1> HIDE DEF msgs, term
<1>4. TermStep
  BY <1>1, <1>3 DEF TermStep, term
<1>5. CandidateStep
  <2>1. \A p \in Node \ {n} : role'[p] = role[p]
    BY <1>1, <1>3 DEF becomeLeader
  <2> QED  BY <1>1, <1>3, <2>1 DEF CandidateStep, VotedFor
<1>6. CASE IsMajority({n}) /\ becomeLeader(n, term, None, msgs)
  <2>1. /\ role' = [role EXCEPT ![n] = "Leader"]
        /\ electionTimer' = [electionTimer EXCEPT ![n] = FALSE]
        /\ heartbeatTimer' = [heartbeatTimer EXCEPT ![n] = TRUE]
        /\ leader' = [leader EXCEPT ![n] = n]
        /\ leaders' = leaders \cup {<<term, n>>}
    BY <1>6, NoneAssumption DEF becomeLeader, setLeader
  <2>2. \A m \in net' : \/ m \in msgs
                        \/ /\ m.type = "AppendEntries" /\ m.from = n
                           /\ m.term = term /\ m.to \in Node \ {n}
    <3>1. net' = msgs \cup Sent(AppendToAll(n, term, log[n], next, commitIndex[n]))
      BY <1>6 DEF becomeLeader
    <3> QED  BY <3>1, AppendToAllFields
  <2>3. ReplyStep
    BY <1>2, <2>2 DEF ReplyStep
  <2>4. LeaderStep
    <3>1. <<term, n>> = <<currentTerm'[n], n>> /\ {n} \in SUBSET Node /\ votedFor'[n] = n
      BY <1>1, <1>3
    <3> QED  BY <1>6, <2>1, <3>1 DEF LeaderStep
  <2>5. TimersFollowRole'
    BY <1>1, <2>1 DEF RaftInv, TimersFollowRole
  <2>6. RoleInv'
    BY <1>1, <1>3, <2>1 DEF RaftInv, RoleInv, term
  <2>7. NetInv'
    BY <1>2, <2>1, <2>2 DEF RaftInv, NetInv
  <2> QED  BY <1>4, <1>5, <2>3, <2>4, <2>5, <2>6, <2>7 DEF Elected, ElectionStep
<1>7. CASE /\ role' = [role EXCEPT ![n] = "Candidate"]
           /\ electionTimer' = [electionTimer EXCEPT ![n] = TRUE]
           /\ leader' = [leader EXCEPT ![n] = None]
           /\ net' = msgs
           /\ UNCHANGED <<heartbeatTimer, leaders>>
  <2>1. ReplyStep /\ LeaderStep
    BY <1>2, <1>7 DEF ReplyStep, LeaderStep
  <2>2. TimersFollowRole'
    BY <1>1, <1>3, <1>7 DEF RaftInv, TimersFollowRole
  <2>3. RoleInv'
    BY <1>1, <1>3, <1>7 DEF RaftInv, RoleInv, term
  <2>4. NetInv'
    BY <1>2, <1>7 DEF RaftInv, NetInv
  <2> QED  BY <1>4, <1>5, <2>1, <2>2, <2>3, <2>4 DEF Elected, ElectionStep
<1> QED  BY <1>3, <1>6, <1>7

\* onRequestVote grants one node per term, and never from a candidate or a
\* leader of the term, which voted for itself.
LEMMA RequestVoteStep ==
  ASSUME RaftInv, NEW m \in net, onRequestVote(m)
  PROVE  Elected
<1> DEFINE n     == m.to
           newer == m.term > currentTerm[n]
           term  == Larger(m.term, currentTerm[n])
           voted == IF newer THEN None ELSE votedFor[n]
           grant == /\ m.term = term
                    /\ voted \in {None, m.from}
                    /\ logIsUpToDate(m.lastTerm, m.lastIndex, lastTerm(log[n]), Len(log[n]))
           vote  == IF grant THEN m.from ELSE voted
           reply == VoteReply(m, term, grant)
<1>1. /\ currentTerm \in [Node -> Nat]
      /\ votedFor \in [Node -> Node \cup {None}]
      /\ role \in [Node -> {"Follower", "Candidate", "Leader"}]
      /\ leader \in [Node -> Node \cup {None}]
      /\ electionTimer \in [Node -> BOOLEAN]
      /\ heartbeatTimer \in [Node -> BOOLEAN]
      /\ leaders \subseteq Nat \X Node
      /\ net \subseteq Message
  BY DEF RaftInv, TypeOK
<1>2. /\ n \in Node /\ m.from \in Node /\ m.term \in Nat /\ m.from # n
      /\ currentTerm[n] \in Nat /\ grant \in BOOLEAN
  BY <1>1, MessageFields DEF RaftInv, NetInv
<1>3. /\ IF newer \/ grant
         THEN persistTerm(n, term, vote)
         ELSE UNCHANGED <<termVars, disk>>
      /\ IF newer
         THEN follow(n) /\ leader' = [leader EXCEPT ![n] = None]
         ELSE /\ electionTimer' = [electionTimer EXCEPT ![n] = @ \/ grant]
              /\ UNCHANGED <<role, heartbeatTimer, leader>>
      /\ net' = (net \ {m}) \cup Sent({reply})
      /\ UNCHANGED <<leaders, votesGranted>>
  BY DEF onRequestVote
<1>4. /\ reply.type = "RequestVoteReply" /\ reply.from = n /\ reply.to = m.from
      /\ reply.term = term /\ reply.granted = grant
  BY DEF VoteReply
<1>5. \A r \in net' : r \in net \/ r = reply
  BY <1>3 DEF Sent
<1>6. /\ newer => term = m.term /\ voted = None
      /\ ~newer => term = currentTerm[n] /\ voted = votedFor[n]
      /\ grant => vote = m.from /\ voted \in {None, m.from}
      /\ ~grant => vote = voted
  BY <1>2 DEF Larger
<1> HIDE DEF term, voted, grant, vote, reply
<1>7. NetInv'
  BY <1>2, <1>3, <1>4, <1>5 DEF RaftInv, NetInv
<1>8. CASE newer
  <2>1. /\ currentTerm' = [currentTerm EXCEPT ![n] = term]
        /\ votedFor' = [votedFor EXCEPT ![n] = vote]
        /\ role' = [role EXCEPT ![n] = "Follower"]
        /\ electionTimer' = [electionTimer EXCEPT ![n] = TRUE]
        /\ heartbeatTimer' = IF role[n] = "Leader"
                             THEN [heartbeatTimer EXCEPT ![n] = FALSE]
                             ELSE heartbeatTimer
        /\ leader' = [leader EXCEPT ![n] = None]
        /\ term \in Nat /\ term > currentTerm[n]
        /\ vote \in Node \cup {None}
    BY <1>2, <1>3, <1>6, <1>8 DEF persistTerm, follow
  <2>2. TermStep
    BY <1>1, <1>2, <2>1 DEF TermStep
  <2>3. ReplyStep
    BY <1>1, <1>2, <1>4, <1>5, <1>6, <2>1 DEF ReplyStep
  <2>4. LeaderStep
    BY <1>3 DEF LeaderStep
  <2>5. CandidateStep
    BY <1>1, <1>2, <1>3, <2>1 DEF CandidateStep, VotedFor
  <2>6. TimersFollowRole'
    BY <1>1, <1>2, <2>1 DEF RaftInv, TimersFollowRole
  <2>7. RoleInv'
    BY <1>1, <1>2, <1>3, <2>1 DEF RaftInv, RoleInv
  <2> QED  BY <1>7, <2>2, <2>3, <2>4, <2>5, <2>6, <2>7 DEF Elected, ElectionStep
<1>9. CASE ~newer
  <2>1. /\ UNCHANGED <<currentTerm, role, heartbeatTimer, leader>>
        /\ votedFor' = [votedFor EXCEPT ![n] = vote]
        /\ electionTimer' = [electionTimer EXCEPT ![n] = electionTimer[n] \/ grant]
    BY <1>1, <1>2, <1>3, <1>6, <1>9 DEF persistTerm, termVars
  <2>2. /\ votedFor[n] \in {None, vote}
        /\ grant => votedFor[n] # n
    BY <1>1, <1>2, <1>6, <1>9, NoneAssumption
  <2>3. grant => role[n] = "Follower" /\ electionTimer[n]
    BY <1>1, <1>2, <2>2 DEF RaftInv, RoleInv, TimersFollowRole
  <2>4. electionTimer' = electionTimer
    <3>1. electionTimer[n] = (electionTimer[n] \/ grant)
      BY <1>1, <1>2, <2>3
    <3>2. [electionTimer EXCEPT ![n] = electionTimer[n]] = electionTimer
      BY <1>1, <1>2
    <3> QED  BY <2>1, <3>1, <3>2
  <2>5. TermStep
    BY <1>1, <1>2, <2>1, <2>2 DEF TermStep
  <2>6. ReplyStep
    BY <1>1, <1>2, <1>4, <1>5, <1>6, <1>9, <2>1 DEF ReplyStep
  <2>7. LeaderStep
    BY <1>3 DEF LeaderStep
  <2>8. CandidateStep
    BY <1>1, <1>2, <1>3, <2>1 DEF CandidateStep, VotedFor
  <2>9. TimersFollowRole'
    BY <2>1, <2>4 DEF RaftInv, TimersFollowRole
  <2>10. RoleInv'
    BY <1>1, <1>2, <1>3, <1>6, <1>9, <2>1, <2>2, <2>3 DEF RaftInv, RoleInv
  <2> QED  BY <1>7, <2>5, <2>6, <2>7, <2>8, <2>9, <2>10 DEF Elected, ElectionStep
<1> QED  BY <1>8, <1>9

\* onRequestVoteReply counts a vote for this candidacy, and the majority's vote
\* makes the leader.
LEMMA RequestVoteReplyStep ==
  ASSUME RaftInv, NEW m \in net, onRequestVoteReply(m)
  PROVE  Elected
<1> DEFINE n     == m.to
           votes == votesGranted[n] \cup {m.from}
           rest  == net \ {m}
           next  == [p \in Node |-> Len(log[n]) + 1]
<1>1. /\ currentTerm \in [Node -> Nat]
      /\ votedFor \in [Node -> Node \cup {None}]
      /\ role \in [Node -> {"Follower", "Candidate", "Leader"}]
      /\ leader \in [Node -> Node \cup {None}]
      /\ electionTimer \in [Node -> BOOLEAN]
      /\ heartbeatTimer \in [Node -> BOOLEAN]
      /\ votesGranted \in [Node -> SUBSET Node]
      /\ leaders \subseteq Nat \X Node
      /\ net \subseteq Message
  BY DEF RaftInv, TypeOK
<1>2. /\ n \in Node /\ m.from \in Node /\ m.term \in Nat
      /\ m.type = "RequestVoteReply"
  BY <1>1, MessageFields DEF onRequestVoteReply
<1>3. CASE /\ m.term > currentTerm[n]
           /\ stepDown(n, m.term)
           /\ net' = rest
           /\ UNCHANGED votesGranted
  BY <1>2, <1>3, StepDownStep
<1>4. CASE /\ net' = rest
           /\ UNCHANGED <<termVars, role, beliefVars, votesGranted, timerVars>>
  BY <1>4, QuietStep
<1>5. ASSUME m.term = currentTerm[n], role[n] = "Candidate", m.granted,
             votesGranted' = [votesGranted EXCEPT ![n] = votes],
             UNCHANGED termVars
      PROVE  /\ \A q \in votes : VotedFor(q, n)
             /\ votes \in SUBSET Node
             /\ TermStep
             /\ leader[n] = None
             /\ \A p \in Node \ {n} : votesGranted'[p] = votesGranted[p]
             /\ votesGranted'[n] = votes
  <2>1. \A q \in votes : VotedFor(q, n)
    BY <1>2, <1>5 DEF VotedFor
  <2>2. TermStep
    BY <1>5 DEF TermStep, termVars
  <2>3. leader[n] = None
    BY <1>2, <1>5 DEF RaftInv, RoleInv
  <2> QED  BY <1>1, <1>2, <1>5, <2>1, <2>2, <2>3
<1>6. CASE /\ m.term = currentTerm[n] /\ role[n] = "Candidate" /\ m.granted
           /\ votesGranted' = [votesGranted EXCEPT ![n] = votes]
           /\ net' = rest
           /\ UNCHANGED <<role, beliefVars, leaderVars, timerVars>>
           /\ UNCHANGED termVars
  <2>1. /\ \A q \in votes : VotedFor(q, n)
        /\ TermStep
        /\ \A p \in Node \ {n} : votesGranted'[p] = votesGranted[p]
        /\ votesGranted'[n] = votes
    BY <1>5, <1>6
  <2> HIDE DEF votes, n
  <2>2. CandidateStep
    <3>1. \A p \in Node \ {n} : \A q \in votesGranted'[p] :
             role'[p] = "Candidate" => VotedFor(q, p)
      BY <1>6, <2>1 DEF VotedFor
    <3> QED  BY <1>6, <2>1, <3>1 DEF CandidateStep, termVars
  <2>3. ReplyStep /\ LeaderStep
    BY <1>6 DEF ReplyStep, LeaderStep, beliefVars
  <2>4. TimersFollowRole' /\ RoleInv' /\ NetInv'
    BY <1>6 DEF RaftInv, TimersFollowRole, RoleInv, NetInv, termVars, beliefVars, timerVars
  <2> QED  BY <2>1, <2>2, <2>3, <2>4 DEF Elected, ElectionStep
<1>7. CASE /\ m.term = currentTerm[n] /\ role[n] = "Candidate" /\ m.granted
           /\ votesGranted' = [votesGranted EXCEPT ![n] = votes]
           /\ IsMajority(votes)
           /\ becomeLeader(n, m.term, leader[n], rest)
           /\ UNCHANGED termVars
  <2>1. /\ \A q \in votes : VotedFor(q, n)
        /\ votes \in SUBSET Node
        /\ TermStep
        /\ leader[n] = None
        /\ \A p \in Node \ {n} : votesGranted'[p] = votesGranted[p]
    BY <1>5, <1>7
  <2>2. /\ role' = [role EXCEPT ![n] = "Leader"]
        /\ electionTimer' = [electionTimer EXCEPT ![n] = FALSE]
        /\ heartbeatTimer' = [heartbeatTimer EXCEPT ![n] = TRUE]
        /\ leader' = [leader EXCEPT ![n] = n]
        /\ leaders' = leaders \cup {<<m.term, n>>}
    BY <1>2, <1>7, <2>1, NoneAssumption DEF becomeLeader, setLeader
  <2>3. \A r \in net' : \/ r \in net
                        \/ /\ r.type = "AppendEntries" /\ r.from = n
                           /\ r.term = m.term /\ r.to \in Node \ {n}
    <3>1. net' = rest \cup Sent(AppendToAll(n, m.term, log[n], next, commitIndex[n]))
      BY <1>7 DEF becomeLeader
    <3> QED  BY <3>1, AppendToAllFields
  <2> HIDE DEF votes, n
  <2>4. CandidateStep
    <3>1. \A p \in Node \ {n} : \A q \in votesGranted'[p] :
             role'[p] = "Candidate" => VotedFor(q, p)
      BY <1>1, <1>2, <2>1, <2>2 DEF VotedFor
    <3> QED  BY <1>1, <1>2, <1>7, <2>2, <3>1 DEF CandidateStep, termVars
  <2>5. ReplyStep
    BY <2>3 DEF ReplyStep
  <2>6. LeaderStep
    <3>1. <<m.term, n>> = <<currentTerm'[n], n>> /\ currentTerm'[n] = currentTerm[n]
      BY <1>7 DEF termVars
    <3>2. \E p \in Node : \E Q \in SUBSET Node :
             /\ <<m.term, n>> = <<currentTerm'[p], p>>
             /\ IsMajority(Q)
             /\ \A q \in Q : \/ q = p /\ votedFor'[p] = p
                             \/ currentTerm'[p] = currentTerm[p] /\ VotedFor(q, p)
      BY <1>2, <1>7, <2>1, <3>1
    <3> QED  BY <2>2, <3>2 DEF LeaderStep
  <2>7. TimersFollowRole'
    BY <1>1, <1>2, <2>2 DEF RaftInv, TimersFollowRole
  <2>8. RoleInv'
    BY <1>1, <1>2, <1>7, <2>2 DEF RaftInv, RoleInv, termVars
  <2>9. NetInv'
    BY <2>2, <2>3 DEF RaftInv, NetInv
  <2> QED  BY <2>1, <2>4, <2>5, <2>6, <2>7, <2>8, <2>9 DEF Elected, ElectionStep
<1> QED  BY <1>3, <1>4, <1>6, <1>7 DEF onRequestVoteReply

\* An AppendEntries comes from the leader of its term: a leader never receives
\* one of its own term, and what it says of the leader was said before.
LEMMA AppendEntriesStep ==
  ASSUME RaftInv, ElectionSafety, NEW m \in net, onAppendEntries(m)
  PROVE  Elected /\ leaders' = leaders
<1> DEFINE n     == m.to
           newer == m.term > currentTerm[n]
           vote  == IF newer THEN None ELSE votedFor[n]
           believed == IF newer THEN None ELSE leader[n]
<1>1. /\ currentTerm \in [Node -> Nat]
      /\ votedFor \in [Node -> Node \cup {None}]
      /\ role \in [Node -> {"Follower", "Candidate", "Leader"}]
      /\ leader \in [Node -> Node \cup {None}]
      /\ electionTimer \in [Node -> BOOLEAN]
      /\ heartbeatTimer \in [Node -> BOOLEAN]
      /\ votesGranted \in [Node -> SUBSET Node]
      /\ leaders \subseteq Nat \X Node
      /\ net \subseteq Message
  BY DEF RaftInv, TypeOK
<1>2. /\ n \in Node /\ m.from \in Node /\ m.term \in Nat /\ m.from # n
      /\ m.type = "AppendEntries" /\ m.term >= currentTerm[n]
      /\ <<m.term, m.from>> \in leaders
  BY <1>1, MessageFields DEF RaftInv, NetInv, onAppendEntries
<1>3. /\ currentTerm' = [currentTerm EXCEPT ![n] = m.term]
      /\ votedFor' = [votedFor EXCEPT ![n] = vote]
  BY TakenIn DEF RaftInv
<1>4. leader' = [leader EXCEPT ![n] = m.from] /\ leaders' = leaders
  <2>1. setLeader(n, m.from, m.term, believed)
    BY DEF onAppendEntries
  <2> QED  BY <1>2, <2>1 DEF setLeader
<1>5. /\ UNCHANGED votesGranted
      /\ \A r \in net' : \/ r \in net
                         \/ /\ r.type = "AppendEntriesReply"
                            /\ r.from = n /\ r.to = m.from
  BY DEF onAppendEntries, Sent, AppendReply
<1>6. ~newer => role[n] # "Leader"
  <2> SUFFICES ASSUME ~newer, role[n] = "Leader" PROVE FALSE
    OBVIOUS
  <2>1. m.term = currentTerm[n] /\ <<m.term, n>> \in leaders
    BY <1>1, <1>2 DEF RaftInv, RoleInv
  <2>2. m.from = n
    BY <1>2, <2>1 DEF ElectionSafety
  <2> QED  BY <1>2, <2>2
<1>7. /\ role' = [role EXCEPT ![n] = "Follower"]
      /\ electionTimer' = [electionTimer EXCEPT ![n] = TRUE]
      /\ heartbeatTimer' = IF role[n] = "Leader"
                           THEN [heartbeatTimer EXCEPT ![n] = FALSE]
                           ELSE heartbeatTimer
  <2>1. IF newer
        THEN follow(n)
        ELSE /\ role' = [role EXCEPT ![n] = "Follower"]
             /\ electionTimer' = [electionTimer EXCEPT ![n] = TRUE]
             /\ UNCHANGED heartbeatTimer
    BY DEF onAppendEntries
  <2> QED  BY <1>6, <2>1 DEF follow
<1>8. TermStep
  BY <1>1, <1>2, <1>3 DEF TermStep
<1>9. ReplyStep /\ LeaderStep
  BY <1>4, <1>5 DEF ReplyStep, LeaderStep
<1>10. CandidateStep
  BY <1>1, <1>2, <1>3, <1>5, <1>7 DEF CandidateStep, VotedFor
<1>11. TimersFollowRole'
  BY <1>1, <1>2, <1>7 DEF RaftInv, TimersFollowRole
<1>12. RoleInv'
  BY <1>1, <1>2, <1>3, <1>4, <1>7 DEF RaftInv, RoleInv
<1>13. NetInv'
  BY <1>2, <1>4, <1>5 DEF RaftInv, NetInv
<1> QED  BY <1>4, <1>8, <1>9, <1>10, <1>11, <1>12, <1>13 DEF Elected, ElectionStep

\* Every step is one of these.
LEMMA ElectedStep ==
  ASSUME RaftInv, ElectionSafety, [Next]_vars
  PROVE  Elected
<1>0. TypeOK
  BY DEF RaftInv
<1>1. ASSUME NEW m \in net, onStaleAppendEntries(m)
      PROVE  Elected
  <2>1. m.from # m.to
    BY DEF RaftInv, NetInv
  <2>2. \A r \in net' : r \in net \/ (r.type = "AppendEntriesReply" /\ r.from # r.to)
    BY <1>1, <2>1 DEF onStaleAppendEntries, Sent, AppendReply
  <2> QED  BY <1>1, <2>2, QuietStep DEF onStaleAppendEntries
<1>2. ASSUME NEW m \in net, onStaleAppendEntriesReply(m)
      PROVE  Elected
  <2>1. m.to \in Node /\ m.term \in Nat
    BY <1>0, MessageFields DEF TypeOK
  <2>2. CASE m.term > currentTerm[m.to] /\ stepDown(m.to, m.term)
    BY <1>2, <2>1, <2>2, StepDownStep DEF onStaleAppendEntriesReply
  <2>3. CASE UNCHANGED <<termVars, disk, role, beliefVars, timerVars>>
    BY <1>2, <2>3, QuietStep DEF onStaleAppendEntriesReply
  <2> QED  BY <1>2, <2>2, <2>3 DEF onStaleAppendEntriesReply
<1>3. ASSUME NEW m \in net, onAppendEntriesReply(m)
      PROVE  Elected
  <2>1. m.to \in Node /\ m.from # m.to /\ role[m.to] = "Leader"
    BY <1>0, <1>3, MessageFields DEF RaftInv, NetInv, TypeOK, onAppendEntriesReply
  <2>2. <<currentTerm[m.to], m.to>> \in leaders
    BY <2>1 DEF RaftInv, RoleInv
  <2>3. \A r \in net' : \/ r \in net
                        \/ /\ r.type = "AppendEntries"
                           /\ r.from = m.to /\ r.to = m.from
                           /\ r.term = currentTerm[m.to]
    <3> DEFINE ni == BackedOff(nextIndex[m.to][m.from])
               again == AppendTo(m.to, m.from, currentTerm[m.to], log[m.to], ni,
                                 commitIndex[m.to])
    <3>1. net' = net \ {m} \/ net' = (net \ {m}) \cup Sent({again})
      BY <1>3 DEF onAppendEntriesReply
    <3>2. /\ again.type = "AppendEntries" /\ again.from = m.to /\ again.to = m.from
          /\ again.term = currentTerm[m.to]
      BY DEF AppendTo
    <3> HIDE DEF again
    <3> QED  BY <3>1, <3>2 DEF Sent
  <2> QED  BY <1>3, <2>1, <2>2, <2>3, QuietStep DEF onAppendEntriesReply
<1>4. ASSUME NEW n \in Node, onHeartbeat(n)
      PROVE  Elected
  <2>1. <<currentTerm[n], n>> \in leaders
    BY <1>4 DEF RaftInv, RoleInv, TimersFollowRole, onHeartbeat
  <2>2. \A r \in net' : r \in net \/ (r.type = "AppendEntries" /\ r.from = n
                                      /\ r.to # n /\ r.term = currentTerm[n])
    BY <1>4, AppendToAllFields DEF onHeartbeat
  <2> QED  BY <1>4, <2>1, <2>2, QuietStep DEF onHeartbeat
<1>5. ASSUME NEW n \in Node, NEW c \in Command, handlePropose(n, c)
      PROVE  Elected
  <2>1. <<currentTerm[n], n>> \in leaders
    BY <1>5 DEF RaftInv, RoleInv, handlePropose
  <2>2. \A r \in net' : r \in net \/ (r.type = "AppendEntries" /\ r.from = n
                                      /\ r.to # n /\ r.term = currentTerm[n])
    BY <1>5, AppendToAllFields DEF handlePropose
  <2> QED  BY <1>5, <2>1, <2>2, QuietStep DEF handlePropose
<1>6. ASSUME NEW n \in Node, NEW h \in Node,
             \/ OnSessionConnected(n, h)
             \/ ensureConnections(n, h)
             \/ OnSessionDisconnected(n, h)
      PROVE  Elected
  BY <1>6, QuietStep DEF OnSessionConnected, ensureConnections, OnSessionDisconnected
<1>7. ASSUME NEW n \in Node, Restart(n)
      PROVE  Elected
  <2>1. disk[n] \in [term : Nat, vote : Node \cup {None}, log : Seq(Entry)]
    BY <1>0 DEF TypeOK
  <2>2. disk[n] = [term |-> currentTerm[n], vote |-> votedFor[n], log |-> log[n]]
    BY DEF RaftInv, WrittenThrough
  <2>3. disk[n].term = currentTerm[n] /\ disk[n].vote = votedFor[n]
    BY <2>2
  <2> QED  BY <1>7, <2>1, <2>3, RebootStep DEF Restart
<1>8. ASSUME NEW m \in net, RestartInHandler(m)
      PROVE  Elected
  <2> DEFINE d == [disk[m.to] EXCEPT !.term = m.term, !.vote = None]
  <2>1. /\ m.to \in Node
        /\ d = [term |-> m.term, vote |-> None, log |-> disk[m.to].log]
        /\ d \in [term : Nat, vote : Node \cup {None}, log : Seq(Entry)]
    BY <1>0, TornType
  <2>2. m.term > currentTerm[m.to] /\ Rebooted(m.to, d)
    BY <1>8 DEF RestartInHandler
  <2> HIDE DEF d
  <2>3. d.term = m.term
    BY <2>1
  <2> QED  BY <2>1, <2>2, <2>3, RebootStep
<1>9. CASE UNCHANGED vars
  BY <1>9, QuietStep DEF vars
<1> QED  BY <1>1, <1>2, <1>3, <1>4, <1>5, <1>6, <1>7, <1>8, <1>9, TimeoutStep,
            RequestVoteStep, RequestVoteReplyStep, AppendEntriesStep
         DEF Next, Handler, Deliver, Fault

\* The election invariant holds in every reachable state.
LEMMA ElectionInvariance == Spec => []ElectionInv
<1>1. Init => ElectionInv
  <2> SUFFICES ASSUME Init PROVE ElectionInv
    OBVIOUS
  <2>1. TypeOK /\ WrittenThrough
    BY TypeInit
  <2>2. TimersFollowRole /\ RoleInv /\ NetInv
    BY DEF Init, Booted, TimersFollowRole, RoleInv, NetInv
  <2>3. VoteInv([n \in Node |-> [t \in Nat |-> None]])
    BY DEF Init, Booted, VoteInv
  <2> QED  BY <2>1, <2>2, <2>3 DEF ElectionInv
<1>2. ElectionInv /\ [Next]_vars => ElectionInv'
  <2> SUFFICES ASSUME ElectionInv, [Next]_vars PROVE ElectionInv'
    OBVIOUS
  <2>1. PICK V : VoteInv(V)
    BY DEF ElectionInv
  <2>2. RaftInv /\ TypeOK
    BY DEF ElectionInv, RaftInv
  <2>3. TypeOK' /\ WrittenThrough'
    BY TypeStep DEF ElectionInv
  <2>4. ElectionSafety
    BY <2>1, <2>2, OneLeaderPerTerm
  <2>5. Elected
    BY <2>2, <2>4, ElectedStep
  <2>6. (\E W : VoteInv(W))'
    BY <2>1, <2>2, <2>3, <2>5, VotesKept DEF Elected
  <2> QED  BY <2>3, <2>5, <2>6 DEF ElectionInv, Elected
<1> QED  BY <1>1, <1>2, PTL DEF Spec

\* LeaderChanged's comment: in a term, every LeaderChanged of every node names
\* the same leader, across restarts and lost sessions.
THEOREM ElectionsAreSafe == Spec => []ElectionSafety
<1>1. ElectionInv => ElectionSafety
  BY OneLeaderPerTerm DEF ElectionInv
<1> QED  BY <1>1, ElectionInvariance, PTL

\* onAppendEntries of the node's own term does not stop the heartbeats: it
\* need not, because no leader ever receives one.
THEOREM TimersAreRight == Spec => []TimersFollowRole
<1>1. ElectionInv => TimersFollowRole
  BY DEF ElectionInv
<1> QED  BY <1>1, ElectionInvariance, PTL
------------------------------------------------------------------------------
(* Logs compared up to an index. *)

Agree(s, t, k) ==
    k <= Len(s) /\ k <= Len(t) /\ \A j \in 1 .. k : s[j] = t[j]

\* L[t] is the log of the leader of term t, as far as that leader wrote it.
\* Each entry of lg was written by the leader of its term, after the same log.
Backed(lg, L) == \A i \in 1 .. Len(lg) : Agree(lg, L[lg[i].term], i)

\* What an AppendEntries carries is a piece of the log lg of its leader.
Carries(m, lg) ==
    /\ m.prev + Len(m.entries) <= Len(lg)
    /\ \A j \in 1 .. Len(m.entries) : m.entries[j] = lg[m.prev + j]
    /\ m.prevTerm = termAt(lg, m.prev)

\* The leaders' logs, and what rests on them.
LeaderLogs(L) ==
    /\ L \in [Nat -> Seq(Entry)]
    /\ \A t \in Nat : Backed(L[t], L)
    /\ \A t \in Nat : \A i \in 1 .. Len(L[t]) : L[t][i].term <= t

LogInv(L) ==
    /\ LeaderLogs(L)
    /\ \A t \in Nat : (\A a \in leaders : a[1] # t) => L[t] = <<>>
    /\ \A n \in Node : Backed(log[n], L)
    /\ \A n \in Node : \A i \in 1 .. Len(log[n]) : log[n][i].term <= currentTerm[n]
    /\ \A n \in Node : role[n] = "Leader" =>
          /\ log[n] = L[currentTerm[n]]
          /\ \A p \in Node : /\ nextIndex[n][p] <= Len(log[n]) + 1
                             /\ matchIndex[n][p] <= Len(log[n])
    /\ \A m \in net : m.type = "AppendEntries" => Carries(m, L[m.term])
    /\ \A m \in net : m.type = "AppendEntriesReply" /\ m.success =>
          m.match <= Len(L[m.term])

\* Each leader's log only grows.
Extends(L, M) == \A t \in Nat : Agree(L[t], M[t], Len(L[t]))
------------------------------------------------------------------------------
\* The terms of a backed log.
LEMMA EntryTerm ==
  ASSUME NEW lg \in Seq(Entry), NEW i \in 1 .. Len(lg)
  PROVE  lg[i] \in Entry /\ lg[i].term \in Nat /\ lg[i].term = termAt(lg, i)
<1>1. lg[i] \in Entry
  BY ElementOfSeq
<1> QED  BY <1>1 DEF Entry, termAt

\* Agreement is transitive, and holds of shorter prefixes.
LEMMA AgreeTrans ==
  ASSUME NEW r \in Seq(Entry), NEW s \in Seq(Entry), NEW t \in Seq(Entry),
         NEW i \in Nat, NEW j \in Nat, i <= j
  PROVE  /\ Agree(r, s, i) /\ Agree(s, t, j) => Agree(r, t, i)
         /\ Agree(r, s, j) /\ Agree(s, t, i) => Agree(r, t, i)
         /\ Agree(r, s, j) => Agree(r, s, i) /\ Agree(s, r, j)
  BY DEF Agree

\* A log stays backed when the leaders' logs grow.
LEMMA BackedGrows ==
  ASSUME NEW L \in [Nat -> Seq(Entry)], NEW M \in [Nat -> Seq(Entry)], Extends(L, M),
         NEW lg \in Seq(Entry), Backed(lg, L)
  PROVE  Backed(lg, M)
<1> SUFFICES ASSUME NEW i \in 1 .. Len(lg) PROVE Agree(lg, M[lg[i].term], i)
  BY DEF Backed
<1> DEFINE t == lg[i].term
<1>1. t \in Nat /\ Agree(lg, L[t], i)
  BY EntryTerm DEF Backed
<1>2. Agree(L[t], M[t], Len(L[t]))
  BY <1>1 DEF Extends
<1> HIDE DEF t
<1>3. L[t] \in Seq(Entry) /\ M[t] \in Seq(Entry) /\ i \in Nat
  BY <1>1
<1>4. Len(L[t]) \in Nat /\ i <= Len(L[t])
  BY <1>1, <1>3 DEF Agree
<1>5. Agree(lg, M[t], i)
  BY <1>1, <1>2, <1>3, <1>4, AgreeTrans
<1> QED  BY <1>5 DEF t

\* Two backed logs with entries of one term at one index are equal up to it.
LEMMA BackedMatch ==
  ASSUME NEW L \in [Nat -> Seq(Entry)],
         NEW s \in Seq(Entry), NEW t \in Seq(Entry), Backed(s, L), Backed(t, L),
         NEW i \in Nat, i >= 1, i <= Len(s), i <= Len(t), s[i].term = t[i].term
  PROVE  Agree(s, t, i)
<1>1. i \in 1 .. Len(s) /\ i \in 1 .. Len(t)
  OBVIOUS
<1>2. Agree(s, L[s[i].term], i) /\ Agree(t, L[t[i].term], i)
  BY <1>1 DEF Backed
<1>3. s[i].term \in Nat
  BY <1>1, EntryTerm
<1>4. L[s[i].term] \in Seq(Entry)
  BY <1>3
<1> QED  BY <1>2, <1>4 DEF Agree

\* The terms of a backed log never go down.
LEMMA BackedSorted ==
  ASSUME NEW L, LeaderLogs(L), NEW lg \in Seq(Entry), Backed(lg, L),
         NEW i \in 1 .. Len(lg), NEW j \in 1 .. i
  PROVE  lg[j].term <= lg[i].term
<1> DEFINE t == lg[i].term
<1>1. t \in Nat
  BY EntryTerm
<1>2. Agree(lg, L[t], i)
  BY DEF Backed
<1>3. L[t] \in Seq(Entry) /\ \A k \in 1 .. Len(L[t]) : L[t][k].term <= t
  BY <1>1 DEF LeaderLogs
<1> HIDE DEF t
<1>4. j \in 1 .. Len(L[t]) /\ lg[j] = L[t][j]
  BY <1>2, <1>3 DEF Agree
<1>5. lg[j].term <= t
  BY <1>3, <1>4
<1> QED  BY <1>5 DEF t

\* sendAppendEntries cuts a piece of the log it is given.
LEMMA AppendToCarries ==
  ASSUME NEW n, NEW p, NEW term, NEW lg \in Seq(Entry), NEW next \in Nat,
         next <= Len(lg) + 1, NEW commit
  PROVE  Carries(AppendTo(n, p, term, lg, next, commit), lg)
<1> DEFINE ni == Larger(next, 1)
           m  == AppendTo(n, p, term, lg, next, commit)
<1>1. ni \in Nat \ {0} /\ ni <= Len(lg) + 1 /\ Len(lg) \in Nat
  BY DEF Larger
<1>2. m.prev = ni - 1 /\ m.prevTerm = termAt(lg, ni - 1) /\ m.entries = sliceFrom(lg, ni)
  BY DEF AppendTo
<1> HIDE DEF ni, m
<1>3. /\ Len(m.entries) = IF ni <= Len(lg) THEN Len(lg) - ni + 1 ELSE 0
      /\ \A j \in 1 .. Len(m.entries) : m.entries[j] = lg[ni + j - 1]
  <2>1. /\ Len(sliceFrom(lg, ni)) = IF ni <= Len(lg) THEN Len(lg) - ni + 1 ELSE 0
        /\ \A j \in 1 .. Len(sliceFrom(lg, ni)) : sliceFrom(lg, ni)[j] = lg[ni + j - 1]
    BY <1>1, SliceResult
  <2> QED  BY <1>2, <2>1
<1>4. m.prev + Len(m.entries) <= Len(lg)
  BY <1>1, <1>2, <1>3
<1>5. ASSUME NEW j \in 1 .. Len(m.entries)
      PROVE  m.entries[j] = lg[m.prev + j]
  <2>1. j \in Int /\ m.prev + j = ni + j - 1
    BY <1>1, <1>2, <1>3
  <2> QED  BY <1>3, <2>1
<1> QED  BY <1>2, <1>4, <1>5 DEF Carries, m

\* The consistency check: a log that takes in a piece of a leader's log is the
\* leader's up to the end of the piece, is backed, and loses nothing it shared
\* with the leader.
LEMMA AcceptResult ==
  ASSUME NEW L, LeaderLogs(L), NEW lg \in Seq(Entry), Backed(lg, L),
         NEW ll \in Seq(Entry), Backed(ll, L),
         NEW m, m.entries \in Seq(Entry), m.prev \in Nat, Carries(m, ll),
         PrevMatches(lg, m.prev, m.prevTerm)
  PROVE  LET r == appendConflictFree(lg, m.prev, m.entries)
         IN  /\ r \in Seq(Entry)
             /\ Agree(r, ll, m.prev + Len(m.entries))
             /\ Backed(r, L)
             /\ \A x \in Nat : Agree(lg, ll, x) => Agree(r, ll, x)
             /\ r = lg \/ Len(r) = m.prev + Len(m.entries)
<1> DEFINE es == m.entries
           prev == m.prev
           r == appendConflictFree(lg, prev, es)
           match == prev + Len(es)
<1>1. /\ L \in [Nat -> Seq(Entry)]
      /\ es \in Seq(Entry) /\ Len(es) \in Nat
      /\ prev \in 0 .. Len(lg) /\ Len(lg) \in Nat /\ Len(ll) \in Nat
      /\ match <= Len(ll) /\ match \in Nat
      /\ \A j \in 1 .. Len(es) : es[j] = ll[prev + j]
      /\ prev >= 1 => lg[prev].term = ll[prev].term
  <2>0. Len(es) \in Nat /\ Len(lg) \in Nat /\ Len(ll) \in Nat
    OBVIOUS
  <2>5. L \in [Nat -> Seq(Entry)]
    BY DEF LeaderLogs
  <2>6. prev \in 0 .. Len(lg)
    BY <2>0 DEF PrevMatches
  <2>7. match \in Nat /\ prev <= match
    BY <2>0
  <2>8. match <= Len(ll)
    BY DEF Carries
  <2>1. L \in [Nat -> Seq(Entry)] /\ prev \in 0 .. Len(lg) /\ match <= Len(ll) /\ match \in Nat
    BY <2>5, <2>6, <2>7, <2>8
  <2>2. termAt(lg, prev) = termAt(ll, prev)
    BY DEF Carries, PrevMatches
  <2>3. prev >= 1 => prev \in 1 .. Len(lg) /\ prev \in 1 .. Len(ll)
    <3> HIDE DEF match, prev
    <3> QED  BY <2>0, <2>1, <2>7
  <2>4. prev >= 1 => lg[prev].term = ll[prev].term
    BY <2>2, <2>3 DEF termAt
  <2> QED  BY <2>0, <2>1, <2>4 DEF Carries
<1> HIDE DEF es, prev
\* Up to an index where the terms are those of the piece, the logs agree.
<1>2. ASSUME NEW k \in 0 .. Len(es), prev + k <= Len(lg),
             \A j \in 1 .. k : lg[prev + j].term = es[j].term
      PROVE  Agree(lg, ll, prev + k)
  <2>1. CASE prev + k = 0
    BY <1>1, <2>1 DEF Agree
  <2>2. CASE prev + k # 0
    <3> DEFINE i == prev + k
    <3>1. i \in Nat /\ i >= 1 /\ i <= Len(lg) /\ i <= Len(ll)
      BY <1>1, <1>2, <2>2
    <3>2. lg[i].term = ll[i].term
      <4>1. CASE k = 0
        BY <1>1, <3>1, <4>1
      <4>2. CASE k # 0
        <5>1. k \in 1 .. k /\ k \in 1 .. Len(es)
          BY <4>2
        <5> QED  BY <1>1, <1>2, <5>1
      <4> QED  BY <4>1, <4>2
    <3> HIDE DEF i
    <3>3. Agree(lg, ll, i)
      BY <1>1, <3>1, <3>2, BackedMatch
    <3> QED  BY <3>3 DEF i
  <2> QED  BY <2>1, <2>2
<1>3. /\ r \in Seq(Entry)
      /\ \/ /\ r = lg
            /\ prev + Len(es) <= Len(lg)
            /\ \A j \in 1 .. Len(es) : lg[prev + j].term = es[j].term
         \/ \E k \in 1 .. Len(es) :
               /\ prev + k - 1 <= Len(lg)
               /\ \A j \in 1 .. k - 1 : lg[prev + j].term = es[j].term
               /\ prev + k <= Len(lg) => lg[prev + k].term # es[k].term
               /\ Len(r) = prev + Len(es)
               /\ \A i \in 1 .. prev + k - 1 : r[i] = lg[i]
               /\ \A j \in k .. Len(es) : r[prev + j] = es[j]
  BY ZenonT(40), <1>1, ConflictFreeResult
<1> HIDE DEF r
<1>4. ASSUME NEW k \in 1 .. Len(es),
             prev + k - 1 <= Len(lg),
             \A j \in 1 .. k - 1 : lg[prev + j].term = es[j].term,
             prev + k <= Len(lg) => lg[prev + k].term # es[k].term,
             Len(r) = prev + Len(es),
             \A i \in 1 .. prev + k - 1 : r[i] = lg[i],
             \A j \in k .. Len(es) : r[prev + j] = es[j]
      PROVE  /\ Agree(r, ll, match)
             /\ Backed(r, L)
             /\ \A x \in Nat : Agree(lg, ll, x) => Agree(r, ll, x)
  <2>1. Agree(lg, ll, prev + (k - 1))
    <3>1. k - 1 \in 0 .. Len(es) /\ prev + (k - 1) <= Len(lg)
      BY <1>1, <1>4
    <3> QED  BY <1>2, <1>4, <3>1
  <2>2. \A i \in 1 .. prev + k - 1 : r[i] = ll[i]
    BY <1>1, <1>4, <2>1 DEF Agree
  <2>3. ASSUME NEW i \in prev + k .. match
        PROVE  r[i] = ll[i]
    <3>1. i - prev \in k .. Len(es) /\ i - prev \in 1 .. Len(es) /\ prev + (i - prev) = i
      BY <1>1
    <3>2. r[prev + (i - prev)] = es[i - prev] /\ es[i - prev] = ll[prev + (i - prev)]
      BY <1>1, <1>4, <3>1
    <3> QED  BY <3>1, <3>2
  <2>4. Agree(r, ll, match)
    <3>1. ASSUME NEW i \in 1 .. match PROVE r[i] = ll[i]
      BY SMTT(30), <1>1, <2>2, <2>3
    <3>2. match <= Len(r) /\ match <= Len(ll)
      BY <1>1, <1>4
    <3> HIDE DEF match
    <3> QED  BY <3>1, <3>2 DEF Agree
  <2>5. ASSUME NEW x \in Nat, Agree(lg, ll, x)
        PROVE  Agree(r, ll, x)
    <3>1. x <= prev + k - 1
      <4> SUFFICES ASSUME x >= prev + k PROVE FALSE
        BY <1>1
      <4>1. prev + k \in 1 .. x /\ prev + k <= Len(lg)
        BY <1>1, <2>5 DEF Agree
      <4>2. lg[prev + k] = ll[prev + k] /\ es[k] = ll[prev + k]
        BY <1>1, <2>5, <4>1 DEF Agree
      <4> QED  BY <1>4, <4>1, <4>2
    <3>2. x <= match
      BY SMTT(30), <1>1, <3>1
    <3> QED  BY SMTT(30), <1>1, <1>3, <2>4, <3>2, AgreeTrans
  <2>6. ASSUME NEW i \in 1 .. Len(r)
        PROVE  Agree(r, L[r[i].term], i)
    <3>0. i \in Nat /\ i \in 1 .. match /\ i <= match
      BY <1>1, <1>4
    <3>4. match <= Len(ll) /\ match <= Len(r) /\ \A j \in 1 .. match : r[j] = ll[j]
      BY <2>4 DEF Agree
    <3> HIDE DEF match
    <3>2. i \in 1 .. Len(ll) /\ i <= Len(ll) /\ i <= Len(r) /\ r[i] = ll[i]
      BY <1>1, <3>0, <3>4
    <3>3. \A j \in 1 .. i : r[j] = ll[j]
      BY <1>1, <3>0, <3>4
    <3>1. i \in 1 .. Len(ll) /\ r[i] = ll[i] /\ Agree(r, ll, i)
      BY <3>2, <3>3 DEF Agree
    <3>5. Agree(ll, L[r[i].term], i)
      BY <3>1 DEF Backed
    <3> QED  BY <3>1, <3>5 DEF Agree
  <2> QED  BY <2>4, <2>5, <2>6 DEF Backed
<1> HIDE DEF match
<1>5. /\ Agree(r, ll, match)
      /\ Backed(r, L)
      /\ \A x \in Nat : Agree(lg, ll, x) => Agree(r, ll, x)
  <2>1. CASE /\ r = lg
             /\ prev + Len(es) <= Len(lg)
             /\ \A j \in 1 .. Len(es) : lg[prev + j].term = es[j].term
    <3>1. Agree(r, ll, match)
      <4>1. Len(es) \in 0 .. Len(es)
        BY <1>1
      <4> QED  BY <1>2, <2>1, <4>1 DEF match
    <3> QED  BY <2>1, <3>1
  <2>2. CASE \E k \in 1 .. Len(es) :
               /\ prev + k - 1 <= Len(lg)
               /\ \A j \in 1 .. k - 1 : lg[prev + j].term = es[j].term
               /\ prev + k <= Len(lg) => lg[prev + k].term # es[k].term
               /\ Len(r) = prev + Len(es)
               /\ \A i \in 1 .. prev + k - 1 : r[i] = lg[i]
               /\ \A j \in k .. Len(es) : r[prev + j] = es[j]
    <3>1. PICK k \in 1 .. Len(es) :
               /\ prev + k - 1 <= Len(lg)
               /\ \A j \in 1 .. k - 1 : lg[prev + j].term = es[j].term
               /\ prev + k <= Len(lg) => lg[prev + k].term # es[k].term
               /\ Len(r) = prev + Len(es)
               /\ \A i \in 1 .. prev + k - 1 : r[i] = lg[i]
               /\ \A j \in k .. Len(es) : r[prev + j] = es[j]
      BY <2>2
    <3> QED  BY <1>4, <3>1
  <2> QED  BY <1>3, <2>1, <2>2
<1>6. r = lg \/ Len(r) = match
  BY <1>3 DEF match
<1> QED  BY <1>3, <1>5, <1>6 DEF r, es, prev, match
------------------------------------------------------------------------------
(* Log matching. *)

\* A piece of a log is a piece of a longer one.
LEMMA CarriesGrows ==
  ASSUME NEW s \in Seq(Entry), NEW t \in Seq(Entry), Agree(s, t, Len(s)),
         NEW m, m.entries \in Seq(Entry), m.prev \in Nat, Carries(m, s)
  PROVE  Carries(m, t)
<1>1. Len(s) \in Nat /\ Len(t) \in Nat /\ Len(m.entries) \in Nat
  OBVIOUS
<1>2. Len(s) <= Len(t) /\ \A j \in 1 .. Len(s) : s[j] = t[j]
  BY DEF Agree
<1>3. /\ m.prev + Len(m.entries) <= Len(s)
      /\ \A j \in 1 .. Len(m.entries) : m.entries[j] = s[m.prev + j]
      /\ m.prevTerm = termAt(s, m.prev)
  BY DEF Carries
<1>4. m.prev + Len(m.entries) <= Len(t)
  BY <1>1, <1>2, <1>3
<1>5. ASSUME NEW j \in 1 .. Len(m.entries) PROVE m.entries[j] = t[m.prev + j]
  <2>1. m.prev + j \in 1 .. Len(s)
    BY <1>1, <1>3
  <2> QED  BY <1>2, <1>3, <2>1
<1>6. termAt(s, m.prev) = termAt(t, m.prev)
  <2>1. m.prev \in 1 .. Len(s) <=> m.prev \in 1 .. Len(t)
    <3>1. m.prev <= Len(s)
      BY <1>1, <1>3
    <3> QED  BY <1>1, <1>2, <3>1
  <2> QED  BY <1>2, <2>1 DEF termAt
<1> QED  BY <1>3, <1>4, <1>5, <1>6 DEF Carries

\* What a step may do to the logs: leaders' logs grow, a log that changes stays
\* backed, and what is sent comes from the log of the leader of its term.
LogStep(L, M) ==
    /\ LeaderLogs(M)
    /\ Extends(L, M)
    /\ \A t \in Nat : (\A a \in leaders' : a[1] # t) => M[t] = <<>>
    /\ \A n \in Node : currentTerm'[n] >= currentTerm[n]
    /\ \A n \in Node :
          \/ log'[n] = log[n]
          \/ /\ Backed(log'[n], M)
             /\ \A i \in 1 .. Len(log'[n]) : log'[n][i].term <= currentTerm'[n]
    /\ \A n \in Node : role'[n] = "Leader" =>
          /\ log'[n] = M[currentTerm'[n]]
          /\ \A p \in Node : /\ nextIndex'[n][p] <= Len(log'[n]) + 1
                             /\ matchIndex'[n][p] <= Len(log'[n])
    /\ \A m \in net' :
          \/ m \in net
          \/ m.type = "RequestVote"
          \/ m.type = "RequestVoteReply"
          \/ m.type = "AppendEntries" /\ Carries(m, M[m.term])
          \/ m.type = "AppendEntriesReply" /\ (m.success => m.match <= Len(M[m.term]))

\* Such a step keeps the log invariant.
LEMMA LogsKept ==
  ASSUME TypeOK, TypeOK', NEW L, LogInv(L), NEW M, LogStep(L, M)
  PROVE  LogInv(M)'
<1>1. /\ L \in [Nat -> Seq(Entry)] /\ M \in [Nat -> Seq(Entry)]
      /\ log \in [Node -> Seq(Entry)]
      /\ currentTerm \in [Node -> Nat] /\ currentTerm' \in [Node -> Nat]
      /\ net \subseteq Message
  BY DEF TypeOK, LogInv, LogStep, LeaderLogs
<1>2. /\ LeaderLogs(M) /\ Extends(L, M)
      /\ \A t \in Nat : (\A a \in leaders' : a[1] # t) => M[t] = <<>>
  BY DEF LogStep
<1>3. ASSUME NEW n \in Node
      PROVE  /\ Backed(log'[n], M)
             /\ \A i \in 1 .. Len(log'[n]) : log'[n][i].term <= currentTerm'[n]
  <2>1. CASE log'[n] = log[n]
    <3>1. log[n] \in Seq(Entry) /\ Backed(log[n], L)
      BY <1>1 DEF LogInv
    <3>2. Backed(log[n], M)
      BY <1>1, <1>2, <3>1, BackedGrows
    <3>3. currentTerm[n] \in Nat /\ currentTerm'[n] \in Nat /\ currentTerm[n] <= currentTerm'[n]
      BY <1>1 DEF LogStep
    <3>4. ASSUME NEW i \in 1 .. Len(log[n]) PROVE log[n][i].term <= currentTerm'[n]
      <4>1. log[n][i].term <= currentTerm[n]
        BY DEF LogInv
      <4>2. log[n][i].term \in Nat
        BY <3>1, EntryTerm
      <4> QED  BY <3>3, <4>1, <4>2
    <3> QED  BY <2>1, <3>2, <3>4
  <2>2. CASE log'[n] # log[n]
    BY <2>2 DEF LogStep
  <2> QED  BY <2>1, <2>2
<1>4. ASSUME NEW m \in net', m.type = "AppendEntries"
      PROVE  Carries(m, M[m.term])
  <2>1. CASE m \in net
    <3>1. m.term \in Nat /\ m.prev \in Nat /\ m.entries \in Seq(Entry)
      BY <1>1, <1>4, <2>1, MessageFields
    <3>2. Carries(m, L[m.term])
      BY <1>4, <2>1 DEF LogInv
    <3>3. /\ L[m.term] \in Seq(Entry) /\ M[m.term] \in Seq(Entry)
          /\ Agree(L[m.term], M[m.term], Len(L[m.term]))
      BY <1>1, <1>2, <3>1 DEF Extends
    <3> QED  BY <3>1, <3>2, <3>3, CarriesGrows
  <2>2. CASE m \notin net
    BY <1>4, <2>2 DEF LogStep
  <2> QED  BY <2>1, <2>2
<1>5. ASSUME NEW m \in net', m.type = "AppendEntriesReply", m.success
      PROVE  m.match <= Len(M[m.term])
  <2>1. CASE m \in net
    <3>1. m.term \in Nat /\ m.match \in Nat
      BY <1>1, <1>5, <2>1, MessageFields
    <3>2. m.match <= Len(L[m.term])
      BY <1>5, <2>1 DEF LogInv
    <3>3. L[m.term] \in Seq(Entry) /\ M[m.term] \in Seq(Entry)
      BY <1>1, <3>1
    <3>4. Len(L[m.term]) <= Len(M[m.term])
      BY <1>2, <3>1 DEF Extends, Agree
    <3>5. Len(L[m.term]) \in Nat /\ Len(M[m.term]) \in Nat
      BY <3>3
    <3> QED  BY <3>1, <3>2, <3>4, <3>5
  <2>2. CASE m \notin net
    BY <1>5, <2>2 DEF LogStep
  <2> QED  BY <2>1, <2>2
<1>6. \A n \in Node : role'[n] = "Leader" =>
          /\ log'[n] = M[currentTerm'[n]]
          /\ \A p \in Node : /\ nextIndex'[n][p] <= Len(log'[n]) + 1
                             /\ matchIndex'[n][p] <= Len(log'[n])
  BY DEF LogStep
<1> QED  BY <1>2, <1>3, <1>4, <1>5, <1>6 DEF LogInv

\* A handler that writes no log and elects nobody.
LEMMA QuietLogs ==
  ASSUME TypeOK, NEW L, LogInv(L), UNCHANGED log, leaders \subseteq leaders',
         \A n \in Node : currentTerm'[n] >= currentTerm[n],
         \A n \in Node : role'[n] = "Leader" =>
             /\ role[n] = "Leader"
             /\ currentTerm'[n] = currentTerm[n]
             /\ \A p \in Node : /\ nextIndex'[n][p] <= Len(log[n]) + 1
                                /\ matchIndex'[n][p] <= Len(log[n]),
         \A m \in net' :
             \/ m \in net
             \/ m.type = "RequestVote"
             \/ m.type = "RequestVoteReply"
             \/ m.type = "AppendEntries" /\ Carries(m, L[m.term])
             \/ m.type = "AppendEntriesReply" /\ ~m.success
  PROVE  LogStep(L, L)
<1>1. LeaderLogs(L)
  BY DEF LogInv
<1>2. Extends(L, L)
  <2>1. \A t \in Nat : L[t] \in Seq(Entry)
    BY <1>1 DEF LeaderLogs
  <2> QED  BY <2>1 DEF Extends, Agree
<1>3. \A t \in Nat : (\A a \in leaders' : a[1] # t) => L[t] = <<>>
  BY DEF LogInv
<1>4. \A n \in Node : role'[n] = "Leader" =>
          /\ log'[n] = L[currentTerm'[n]]
          /\ \A p \in Node : /\ nextIndex'[n][p] <= Len(log'[n]) + 1
                             /\ matchIndex'[n][p] <= Len(log'[n])
  BY DEF LogInv
<1> QED  BY <1>1, <1>2, <1>3, <1>4 DEF LogStep

\* What sendAppendEntries and broadcastAppendEntries send.
LEMMA BroadcastCarries ==
  ASSUME NEW n \in Node, NEW term, NEW lg \in Seq(Entry), NEW next \in [Node -> Nat],
         \A p \in Node : next[p] <= Len(lg) + 1, NEW commit,
         NEW m \in Sent(AppendToAll(n, term, lg, next, commit))
  PROVE  m.type = "AppendEntries" /\ m.term = term /\ m.commit = commit /\ Carries(m, lg)
<1>1. PICK p \in Node : m = AppendTo(n, p, term, lg, next[p], commit)
  BY DEF Sent, AppendToAll, Peers
<1>2. Carries(m, lg)
  BY <1>1, AppendToCarries
<1>3. m.type = "AppendEntries" /\ m.term = term /\ m.commit = commit
  BY <1>1 DEF AppendTo
<1> QED  BY <1>2, <1>3

\* An elected node: its log becomes the log of the leader of its term.
LEMMA ElectedLogs ==
  ASSUME RaftInv, RaftInv', ElectionSafety', NEW L, LogInv(L),
         NEW n \in Node, NEW term \in Nat, NEW believed, NEW msgs,
         <<term, n>> \notin leaders, currentTerm[n] <= term,
         currentTerm' = [currentTerm EXCEPT ![n] = term], UNCHANGED log,
         leaders \subseteq leaders',
         \A m \in msgs : m \in net \/ m.type = "RequestVote",
         becomeLeader(n, term, believed, msgs)
  PROVE  \E M : LogStep(L, M)
<1> DEFINE next == [p \in Node |-> Len(log[n]) + 1]
           lg == log[n]
<1>1. /\ log \in [Node -> Seq(Entry)] /\ lg \in Seq(Entry) /\ commitIndex[n] \in Nat
      /\ currentTerm \in [Node -> Nat]
      /\ role \in [Node -> {"Follower", "Candidate", "Leader"}]
      /\ nextIndex \in [Node -> [Node -> Nat \ {0}]]
      /\ matchIndex \in [Node -> [Node -> Nat]]
      /\ leaders' \subseteq Nat \X Node
  BY DEF RaftInv, TypeOK
<1>2. /\ role' = [role EXCEPT ![n] = "Leader"]
      /\ nextIndex' = [nextIndex EXCEPT ![n] = next]
      /\ matchIndex' = [matchIndex EXCEPT ![n] = [p \in Node |-> 0]]
      /\ net' = msgs \cup Sent(AppendToAll(n, term, lg, next, commitIndex[n]))
  BY DEF becomeLeader
<1>3. /\ next \in [Node -> Nat] /\ \A p \in Node : next[p] = Len(lg) + 1
      /\ Len(lg) \in Nat
  BY <1>1
<1>4. LeaderLogs(L) /\ L \in [Nat -> Seq(Entry)]
  BY DEF LogInv, LeaderLogs
<1>5. currentTerm'[n] = term /\ role'[n] = "Leader" /\ <<term, n>> \in leaders'
  BY <1>1, <1>2 DEF RaftInv, RoleInv
\* Nobody led this term before.
<1>6. L[term] = <<>>
  <2>1. ASSUME NEW a \in leaders, a[1] = term PROVE FALSE
    <3>1. a \in leaders' /\ a \in Nat \X Node
      BY <1>1
    <3>2. a[2] = n
      BY <1>5, <2>1, <3>1 DEF ElectionSafety
    <3> QED  BY <2>1, <3>1, <3>2
  <2> QED  BY <2>1 DEF LogInv
<1>7. PICK M : M = [L EXCEPT ![term] = lg]
  OBVIOUS
<1>8. /\ M \in [Nat -> Seq(Entry)] /\ M[term] = lg
      /\ \A t \in Nat \ {term} : M[t] = L[t]
  BY <1>1, <1>4, <1>7
<1> HIDE DEF next, lg
<1>9. Extends(L, M)
  <2>1. ASSUME NEW t \in Nat PROVE Agree(L[t], M[t], Len(L[t]))
    <3>1. CASE t = term
      <4>1. Len(L[t]) = 0
        BY <1>6, <3>1
      <4> QED  BY <1>1, <1>3, <1>8, <3>1, <4>1 DEF Agree
    <3>2. CASE t # term
      <4>1. M[t] = L[t] /\ L[t] \in Seq(Entry)
        BY <1>4, <1>8, <3>2
      <4> QED  BY <4>1 DEF Agree
    <3> QED  BY <3>1, <3>2
  <2> QED  BY <2>1 DEF Extends
<1>10. LeaderLogs(M)
  <2>1. Backed(lg, L) /\ \A i \in 1 .. Len(lg) : lg[i].term <= currentTerm[n]
    BY DEF LogInv, lg
  <2>2. ASSUME NEW i \in 1 .. Len(lg) PROVE lg[i].term <= term
    <3>1. lg[i].term \in Nat /\ currentTerm[n] \in Nat
      BY <1>1, EntryTerm
    <3> QED  BY <2>1, <3>1
  <2>3. ASSUME NEW t \in Nat
        PROVE  Backed(M[t], M) /\ \A i \in 1 .. Len(M[t]) : M[t][i].term <= t
    <3>1. CASE t = term
      BY <1>1, <1>4, <1>8, <1>9, <2>1, <2>2, <3>1, BackedGrows
    <3>2. CASE t # term
      <4>1. M[t] = L[t] /\ L[t] \in Seq(Entry) /\ Backed(L[t], L)
            /\ \A i \in 1 .. Len(L[t]) : L[t][i].term <= t
        BY <1>4, <1>8, <3>2 DEF LeaderLogs
      <4> QED  BY <1>4, <1>8, <1>9, <4>1, BackedGrows
    <3> QED  BY <3>1, <3>2
  <2> QED  BY <1>8, <2>3 DEF LeaderLogs
<1>11. \A t \in Nat : (\A a \in leaders' : a[1] # t) => M[t] = <<>>
  <2> SUFFICES ASSUME NEW t \in Nat, \A a \in leaders' : a[1] # t PROVE M[t] = <<>>
    OBVIOUS
  <2>1. t # term
    BY <1>5
  <2>2. L[t] = <<>>
    BY DEF LogInv
  <2> QED  BY <1>8, <2>1, <2>2
<1>12. \A q \in Node : currentTerm'[q] >= currentTerm[q]
  BY SMTT(30), <1>1
<1>13. ASSUME NEW q \in Node, role'[q] = "Leader"
       PROVE  /\ log'[q] = M[currentTerm'[q]]
              /\ \A p \in Node : /\ nextIndex'[q][p] <= Len(log'[q]) + 1
                                 /\ matchIndex'[q][p] <= Len(log'[q])
  <2>1. CASE q = n
    <3>1. nextIndex'[n] = next /\ \A p \in Node : matchIndex'[n][p] = 0
      BY <1>1, <1>2
    <3>2. log'[n] = lg
      BY DEF lg
    <3>3. \A p \in Node : nextIndex'[n][p] = Len(lg) + 1 /\ matchIndex'[n][p] = 0
      BY <1>3, <3>1
    <3>4. \A p \in Node : nextIndex'[n][p] <= Len(lg) + 1 /\ matchIndex'[n][p] <= Len(lg)
      BY <1>3, <3>3
    <3> QED  BY <1>5, <1>8, <2>1, <3>2, <3>4
  <2>2. CASE q # n
    <3>1. /\ role[q] = "Leader" /\ currentTerm'[q] = currentTerm[q] /\ log'[q] = log[q]
          /\ nextIndex'[q] = nextIndex[q] /\ matchIndex'[q] = matchIndex[q]
      BY <1>1, <1>2, <1>13, <2>2
    <3>2. currentTerm[q] # term
      <4>1. <<currentTerm'[q], q>> \in leaders'
        BY <1>13 DEF RaftInv, RoleInv
      <4> SUFFICES ASSUME currentTerm[q] = term PROVE FALSE
        OBVIOUS
      <4>2. <<term, q>> \in leaders'
        BY <3>1, <4>1
      <4> QED  BY <1>5, <2>2, <4>2 DEF ElectionSafety
    <3>3. M[currentTerm[q]] = L[currentTerm[q]]
      BY <1>1, <1>8, <3>2
    <3> QED  BY <3>1, <3>3 DEF LogInv
  <2> QED  BY <2>1, <2>2
<1>14. ASSUME NEW m \in net'
       PROVE  \/ m \in net
              \/ m.type = "RequestVote"
              \/ m.type = "AppendEntries" /\ Carries(m, M[m.term])
  <2>1. CASE m \in Sent(AppendToAll(n, term, lg, next, commitIndex[n]))
    <3>1. m.type = "AppendEntries" /\ m.term = term /\ Carries(m, lg)
      <4>1. \A p \in Node : next[p] <= Len(lg) + 1
        BY <1>3
      <4>2. lg \in Seq(Entry) /\ next \in [Node -> Nat]
        BY <1>1, <1>3
      <4>3. \A c : \A x \in Sent(AppendToAll(n, term, lg, next, c)) :
              x.type = "AppendEntries" /\ x.term = term /\ Carries(x, lg)
        BY <4>1, <4>2, BroadcastCarries
      <4> QED  BY <2>1, <4>3
    <3> QED  BY <1>8, <3>1
  <2> QED  BY <1>2, <2>1
<1>15. \A q \in Node : log'[q] = log[q]
  OBVIOUS
<1>16. LogStep(L, M)
  BY <1>9, <1>10, <1>11, <1>12, <1>13, <1>14, <1>15 DEF LogStep
<1> QED  BY <1>16

\* A proposal: the leader's log grows by an entry of its term.
LEMMA ProposeLogs ==
  ASSUME RaftInv, ElectionSafety, NEW L, LogInv(L),
         NEW n \in Node, NEW c \in Command, handlePropose(n, c)
  PROVE  \E M : LogStep(L, M)
<1> DEFINE term == currentTerm[n]
           e   == [term |-> term, cmd |-> c]
           old == log[n]
           lg  == Append(old, e)
           commit == Commit(n, lg, matchIndex[n])
<1>1. /\ TypeOK /\ WrittenThrough
      /\ log \in [Node -> Seq(Entry)] /\ old \in Seq(Entry)
      /\ currentTerm \in [Node -> Nat] /\ term \in Nat
      /\ nextIndex \in [Node -> [Node -> Nat \ {0}]]
      /\ matchIndex \in [Node -> [Node -> Nat]]
  BY DEF RaftInv, TypeOK
<1>2. lg \in Seq(Entry) /\ log' = [log EXCEPT ![n] = lg]
  BY <1>1, Proposed
<1>3. /\ role[n] = "Leader"
      /\ net' = net \cup Sent(AppendToAll(n, term, lg, nextIndex[n], commit))
      /\ UNCHANGED <<currentTerm, role, leaders, nextIndex, matchIndex>>
  BY DEF handlePropose, termVars, beliefVars, leaderVars
<1>4. e \in Entry /\ e.term = term
  BY <1>1 DEF Entry
<1>5. /\ Len(old) \in Nat /\ Len(lg) = Len(old) + 1 /\ lg[Len(lg)] = e
      /\ \A i \in 1 .. Len(old) : lg[i] = old[i]
  BY <1>1, <1>4, AppendProperties
<1>6. LeaderLogs(L) /\ L \in [Nat -> Seq(Entry)] /\ old = L[term]
  BY <1>3 DEF LogInv, LeaderLogs
<1>7. /\ Backed(old, L) /\ \A i \in 1 .. Len(old) : old[i].term <= term
      /\ \A p \in Node : nextIndex[n][p] <= Len(old) + 1 /\ matchIndex[n][p] <= Len(old)
  BY <1>3 DEF LogInv
<1> HIDE DEF term, e, old, lg, commit
<1>8. PICK M : M = [L EXCEPT ![term] = lg]
  OBVIOUS
<1>9. /\ M \in [Nat -> Seq(Entry)] /\ M[term] = lg
      /\ \A t \in Nat \ {term} : M[t] = L[t]
  BY <1>1, <1>2, <1>6, <1>8
<1>10. Extends(L, M)
  <2>1. ASSUME NEW t \in Nat PROVE Agree(L[t], M[t], Len(L[t]))
    <3>1. CASE t = term
      <4>1. Agree(old, lg, Len(old))
        BY <1>5 DEF Agree
      <4> QED  BY <1>6, <1>9, <3>1, <4>1
    <3>2. CASE t # term
      <4>1. M[t] = L[t] /\ L[t] \in Seq(Entry)
        BY <1>6, <1>9, <3>2
      <4> QED  BY <4>1 DEF Agree
    <3> QED  BY <3>1, <3>2
  <2> QED  BY <2>1 DEF Extends
<1>11. Backed(lg, M)
  <2>1. Backed(old, M)
    BY <1>1, <1>6, <1>7, <1>9, <1>10, BackedGrows
  <2>2. ASSUME NEW i \in 1 .. Len(lg) PROVE Agree(lg, M[lg[i].term], i)
    <3>1. CASE i = Len(lg)
      <4>1. M[lg[i].term] = lg
        BY <1>4, <1>5, <1>9, <3>1
      <4> QED  BY <1>2, <4>1 DEF Agree
    <3>2. CASE i # Len(lg)
      <4>1. i \in 1 .. Len(old) /\ lg[i] = old[i]
        BY <1>5, <3>2
      <4>2. Agree(old, M[lg[i].term], i)
        BY <2>1, <4>1 DEF Backed
      <4>3. \A j \in 1 .. i : lg[j] = old[j]
        BY <1>5, <4>1
      <4> QED  BY <1>5, <4>1, <4>2, <4>3 DEF Agree
    <3> QED  BY <3>1, <3>2
  <2> QED  BY <2>2 DEF Backed
<1>12. ASSUME NEW i \in 1 .. Len(lg) PROVE lg[i].term <= term
  <2>1. CASE i = Len(lg)
    BY <1>1, <1>4, <1>5, <2>1
  <2>2. CASE i # Len(lg)
    BY <1>5, <1>7, <2>2
  <2> QED  BY <2>1, <2>2
<1>13. LeaderLogs(M)
  <2>1. ASSUME NEW t \in Nat
        PROVE  Backed(M[t], M) /\ \A i \in 1 .. Len(M[t]) : M[t][i].term <= t
    <3>1. CASE t = term
      BY <1>9, <1>11, <1>12, <3>1
    <3>2. CASE t # term
      <4>1. M[t] = L[t] /\ L[t] \in Seq(Entry) /\ Backed(L[t], L)
            /\ \A i \in 1 .. Len(L[t]) : L[t][i].term <= t
        BY <1>6, <1>9, <3>2 DEF LeaderLogs
      <4> QED  BY <1>6, <1>9, <1>10, <4>1, BackedGrows
    <3> QED  BY <3>1, <3>2
  <2> QED  BY <1>9, <2>1 DEF LeaderLogs
<1>14. <<term, n>> \in leaders
  BY <1>3 DEF RaftInv, RoleInv, term
<1>15. \A t \in Nat : (\A a \in leaders' : a[1] # t) => M[t] = <<>>
  <2> SUFFICES ASSUME NEW t \in Nat, \A a \in leaders' : a[1] # t PROVE M[t] = <<>>
    OBVIOUS
  <2>1. t # term
    BY <1>3, <1>14
  <2>2. L[t] = <<>>
    BY <1>3 DEF LogInv
  <2> QED  BY <1>9, <2>1, <2>2
<1>16. \A q \in Node : currentTerm'[q] >= currentTerm[q]
  BY <1>1, <1>3
<1>17. ASSUME NEW q \in Node
       PROVE  log'[q] = log[q] \/ (Backed(log'[q], M) /\
                  \A i \in 1 .. Len(log'[q]) : log'[q][i].term <= currentTerm'[q])
  <2>1. CASE q = n
    <3>1. log'[n] = lg /\ currentTerm'[n] = term
      BY <1>1, <1>2, <1>3 DEF term
    <3> QED  BY <1>11, <1>12, <2>1, <3>1
  <2>2. CASE q # n
    BY <1>1, <1>2, <2>2
  <2> QED  BY <2>1, <2>2
<1>18. ASSUME NEW q \in Node, role'[q] = "Leader"
       PROVE  /\ log'[q] = M[currentTerm'[q]]
              /\ \A p \in Node : /\ nextIndex'[q][p] <= Len(log'[q]) + 1
                                 /\ matchIndex'[q][p] <= Len(log'[q])
  <2>1. CASE q = n
    <3>1. log'[n] = lg /\ currentTerm'[n] = term
      BY <1>1, <1>2, <1>3 DEF term
    <3>2. \A p \in Node : nextIndex[n][p] \in Nat /\ matchIndex[n][p] \in Nat
      BY <1>1
    <3>3. \A p \in Node : nextIndex[n][p] <= Len(lg) + 1 /\ matchIndex[n][p] <= Len(lg)
      BY <1>5, <1>7, <3>2
    <3> QED  BY <1>3, <1>9, <2>1, <3>1, <3>3
  <2>2. CASE q # n
    <3>1. role[q] = "Leader" /\ log'[q] = log[q]
      BY <1>1, <1>2, <1>3, <1>18, <2>2
    <3>2. currentTerm[q] # term
      <4>1. <<currentTerm[q], q>> \in leaders
        BY <3>1 DEF RaftInv, RoleInv
      <4> SUFFICES ASSUME currentTerm[q] = term PROVE FALSE
        OBVIOUS
      <4>2. <<term, q>> \in leaders
        BY <4>1
      <4> QED  BY <1>14, <2>2, <4>2 DEF ElectionSafety
    <3>3. M[currentTerm[q]] = L[currentTerm[q]]
      BY <1>1, <1>9, <3>2
    <3> QED  BY <1>3, <3>1, <3>3 DEF LogInv
  <2> QED  BY <2>1, <2>2
<1>19. ASSUME NEW m \in net'
       PROVE  m \in net \/ (m.type = "AppendEntries" /\ Carries(m, M[m.term]))
  <2>1. CASE m \in Sent(AppendToAll(n, term, lg, nextIndex[n], commit))
    <3>1. nextIndex[n] \in [Node -> Nat]
      BY <1>1
    <3>2. \A p \in Node : nextIndex[n][p] <= Len(lg) + 1
      <4>1. \A p \in Node : nextIndex[n][p] \in Nat
        BY <1>1
      <4> QED  BY <1>5, <1>7, <4>1
    <3>3. m.type = "AppendEntries" /\ m.term = term /\ Carries(m, lg)
      <4> DEFINE next == nextIndex[n]
      <4>1. next \in [Node -> Nat] /\ \A p \in Node : next[p] <= Len(lg) + 1
        BY <3>1, <3>2
      <4> HIDE DEF next
      <4>2. \A x \in Sent(AppendToAll(n, term, lg, next, commit)) :
              x.type = "AppendEntries" /\ x.term = term /\ Carries(x, lg)
        BY <1>2, <4>1, BroadcastCarries
      <4> QED  BY <2>1, <4>2 DEF next
    <3> QED  BY <1>9, <3>3
  <2> QED  BY <1>3, <2>1
<1>20. LogStep(L, M)
  BY <1>10, <1>13, <1>15, <1>16, <1>17, <1>18, <1>19 DEF LogStep
<1> QED  BY <1>20

\* What an AppendEntries leaves in the log of the node that takes it: nothing
\* the node shared with the leader is lost.
LEMMA TakenLog ==
  ASSUME RaftInv, NEW L, LogInv(L), NEW m \in net, onAppendEntries(m)
  PROVE  LET n  == m.to
             ll == L[m.term]
             ok == PrevMatches(log[n], m.prev, m.prevTerm)
         IN  /\ n \in Node /\ m.term \in Nat /\ m.term >= currentTerm[n]
             /\ log'[n] \in Seq(Entry)
             /\ \A q \in Node \ {n} : log'[q] = log[q]
             /\ ok => Agree(log'[n], ll, m.prev + Len(m.entries))
             /\ ~ok => log'[n] = log[n]
             /\ Backed(log'[n], L)
             /\ \A i \in 1 .. Len(log'[n]) : log'[n][i].term <= m.term
             /\ \A x \in Nat : Agree(log[n], ll, x) => Agree(log'[n], ll, x)
<1> DEFINE n  == m.to
           ll == L[m.term]
           old == log[n]
           ok == PrevMatches(old, m.prev, m.prevTerm)
           new == appendConflictFree(old, m.prev, m.entries)
           match == m.prev + Len(m.entries)
<1>1. /\ TypeOK /\ WrittenThrough /\ net \subseteq Message
      /\ log \in [Node -> Seq(Entry)] /\ currentTerm \in [Node -> Nat]
  BY DEF RaftInv, TypeOK
<1>2. /\ n \in Node /\ m.term \in Nat /\ m.prev \in Nat /\ m.entries \in Seq(Entry)
      /\ m.type = "AppendEntries" /\ m.term >= currentTerm[n]
  BY <1>1, MessageFields DEF onAppendEntries
<1>3. log' = [log EXCEPT ![n] = IF ok THEN new ELSE old]
  BY <1>1, TakenIn
<1>4. /\ old \in Seq(Entry) /\ LeaderLogs(L) /\ ll \in Seq(Entry)
      /\ Backed(old, L) /\ Backed(ll, L) /\ Carries(m, ll)
      /\ \A i \in 1 .. Len(ll) : ll[i].term <= m.term
      /\ \A i \in 1 .. Len(old) : old[i].term <= currentTerm[n]
  BY <1>1, <1>2 DEF LogInv, LeaderLogs
<1>5. \A q \in Node \ {n} : log'[q] = log[q]
  BY <1>1, <1>3
<1>6. log'[n] = IF ok THEN new ELSE old
  BY <1>1, <1>2, <1>3
<1>7. ASSUME NEW i \in 1 .. Len(old) PROVE old[i].term <= m.term
  <2>1. old[i].term \in Nat /\ currentTerm[n] \in Nat
    BY <1>1, <1>2, <1>4, EntryTerm
  <2> QED  BY <1>2, <1>4, <2>1
<1> HIDE DEF old, ll, match
<1>8. CASE ok
  <2>1. /\ new \in Seq(Entry)
        /\ Agree(new, ll, match)
        /\ Backed(new, L)
        /\ \A x \in Nat : Agree(old, ll, x) => Agree(new, ll, x)
        /\ new = old \/ Len(new) = match
    BY <1>2, <1>4, <1>8, AcceptResult DEF match
  <2> HIDE DEF new
  <2>2. ASSUME NEW i \in 1 .. Len(new) PROVE new[i].term <= m.term
    <3>1. CASE new = old
      BY <1>7, <3>1
    <3>2. CASE Len(new) = match
      <4>1. new[i] = ll[i] /\ i \in 1 .. Len(ll)
        BY <1>4, <2>1, <3>2 DEF Agree
      <4> QED  BY <1>4, <4>1
    <3> QED  BY <2>1, <3>1, <3>2
  <2> HIDE DEF ok
  <2> QED  BY <1>2, <1>5, <1>6, <1>8, <2>1, <2>2 DEF old, ll, match, ok
<1>9. CASE ~ok
  BY <1>2, <1>4, <1>5, <1>6, <1>7, <1>9 DEF old, ll, match
<1> QED  BY <1>8, <1>9

\* An AppendEntries: the receiver takes a piece of the leader's log.
LEMMA AppendEntriesLogs ==
  ASSUME RaftInv, UNCHANGED leaders, NEW L, LogInv(L), NEW m \in net, onAppendEntries(m)
  PROVE  LogStep(L, L)
<1> DEFINE n  == m.to
           ll == L[m.term]
           ok == PrevMatches(log[n], m.prev, m.prevTerm)
           match == m.prev + Len(m.entries)
           reply == AppendReply(m, m.term, IF ok THEN match ELSE 0, ok)
<1>1. /\ TypeOK /\ WrittenThrough /\ net \subseteq Message
      /\ log \in [Node -> Seq(Entry)] /\ currentTerm \in [Node -> Nat]
      /\ role \in [Node -> {"Follower", "Candidate", "Leader"}]
  BY DEF RaftInv, TypeOK
<1>2. /\ n \in Node /\ m.term \in Nat /\ m.term >= currentTerm[n]
      /\ \A q \in Node \ {n} : log'[q] = log[q]
      /\ Backed(log'[n], L)
      /\ \A i \in 1 .. Len(log'[n]) : log'[n][i].term <= m.term
  BY TakenLog
<1>3. /\ currentTerm' = [currentTerm EXCEPT ![n] = m.term]
      /\ role' = [role EXCEPT ![n] = "Follower"]
      /\ UNCHANGED <<nextIndex, matchIndex>>
      /\ net' = (net \ {m}) \cup Sent({reply})
      /\ m.type = "AppendEntries"
  <2>1. currentTerm' = [currentTerm EXCEPT ![n] = m.term]
    BY <1>1, TakenIn
  <2>2. role' = [role EXCEPT ![n] = "Follower"]
    BY DEF onAppendEntries, follow
  <2> QED  BY <2>1, <2>2 DEF onAppendEntries, leaderVars
<1>4. LeaderLogs(L) /\ Extends(L, L)
  <2>1. LeaderLogs(L) /\ \A t \in Nat : L[t] \in Seq(Entry)
    BY DEF LogInv, LeaderLogs
  <2> QED  BY <2>1 DEF Extends, Agree
<1>5. \A t \in Nat : (\A a \in leaders' : a[1] # t) => L[t] = <<>>
  BY DEF LogInv
<1>6. \A q \in Node : currentTerm'[q] >= currentTerm[q]
  BY <1>1, <1>2, <1>3
<1>7. ASSUME NEW q \in Node
      PROVE  log'[q] = log[q] \/ (Backed(log'[q], L) /\
                 \A i \in 1 .. Len(log'[q]) : log'[q][i].term <= currentTerm'[q])
  <2>1. currentTerm'[n] = m.term
    BY <1>1, <1>2, <1>3
  <2> QED  BY <1>2, <2>1
<1>8. ASSUME NEW q \in Node, role'[q] = "Leader"
      PROVE  /\ log'[q] = L[currentTerm'[q]]
             /\ \A p \in Node : /\ nextIndex'[q][p] <= Len(log'[q]) + 1
                                /\ matchIndex'[q][p] <= Len(log'[q])
  <2>1. q # n
    BY <1>1, <1>2, <1>3, <1>8
  <2>2. role[q] = "Leader" /\ currentTerm'[q] = currentTerm[q] /\ log'[q] = log[q]
    BY <1>1, <1>2, <1>3, <1>8, <2>1
  <2> QED  BY <1>3, <2>2 DEF LogInv
<1>9. ASSUME NEW r \in net'
      PROVE  \/ r \in net
             \/ r.type = "AppendEntriesReply" /\ (r.success => r.match <= Len(L[r.term]))
  <2>1. CASE r = reply
    <3>1. r.type = "AppendEntriesReply" /\ r.success = ok /\ r.term = m.term
          /\ r.match = IF ok THEN match ELSE 0
      BY <2>1 DEF AppendReply
    <3>2. match <= Len(ll)
      BY <1>3 DEF LogInv, Carries
    <3> HIDE DEF ok, match
    <3> QED  BY <3>1, <3>2
  <2> QED  BY <1>3, <2>1 DEF Sent
<1> QED  BY <1>4, <1>5, <1>6, <1>7, <1>8, <1>9 DEF LogStep

\* Every step is such a step.
LEMMA NextLogs ==
  ASSUME RaftInv, RaftInv', ElectionSafety, ElectionSafety', NEW L, LogInv(L), [Next]_vars
  PROVE  \E M : LogStep(L, M)
<1>1. /\ TypeOK /\ WrittenThrough /\ net \subseteq Message
      /\ log \in [Node -> Seq(Entry)] /\ currentTerm \in [Node -> Nat]
      /\ role \in [Node -> {"Follower", "Candidate", "Leader"}]
      /\ nextIndex \in [Node -> [Node -> Nat \ {0}]]
      /\ matchIndex \in [Node -> [Node -> Nat]]
  BY DEF RaftInv, TypeOK
<1>2. /\ currentTerm' \in [Node -> Nat]
      /\ \A n \in Node : currentTerm'[n] >= currentTerm[n]
  <2>1. TermStep /\ currentTerm' \in [Node -> Nat]
    BY ElectedStep DEF Elected, ElectionStep, RaftInv, TypeOK
  <2>2. \A n \in Node : currentTerm'[n] \in Nat /\ currentTerm[n] \in Nat
    BY <1>1, <2>1
  <2>3. \A n \in Node : currentTerm'[n] > currentTerm[n] \/ currentTerm'[n] = currentTerm[n]
    BY <2>1 DEF TermStep
  <2> QED  BY <2>1, <2>2, <2>3
<1>3. ASSUME NEW n \in Node, role[n] = "Leader"
      PROVE  /\ log[n] = L[currentTerm[n]]
             /\ \A p \in Node : /\ nextIndex[n][p] <= Len(log[n]) + 1
                                /\ matchIndex[n][p] <= Len(log[n])
  BY <1>3 DEF LogInv
\* A handler that leaves the logs, the leaders and their bookkeeping alone.
<1>4. ASSUME UNCHANGED <<log, leaders, nextIndex, matchIndex>>,
             \A n \in Node : role'[n] = "Leader" =>
                 role[n] = "Leader" /\ currentTerm'[n] = currentTerm[n],
             \A m \in net' :
                 \/ m \in net
                 \/ m.type = "RequestVote"
                 \/ m.type = "RequestVoteReply"
                 \/ m.type = "AppendEntries" /\ Carries(m, L[m.term])
                 \/ m.type = "AppendEntriesReply" /\ ~m.success
      PROVE  \E M : LogStep(L, M)
  <2>1. LogStep(L, L)
    BY <1>1, <1>2, <1>3, <1>4, QuietLogs
  <2> QED  BY <2>1
<1>5. ASSUME NEW n \in Node, onElectionTimeout(n)
      PROVE  \E M : LogStep(L, M)
  <2> DEFINE term == currentTerm[n] + 1
             ask(p) == [type |-> "RequestVote", from |-> n, to |-> p, term |-> term,
                        lastIndex |-> Len(log[n]), lastTerm |-> lastTerm(log[n])]
             msgs == net \cup Sent({ask(p) : p \in Peers(n)})
  <2>1. /\ role[n] # "Leader" /\ UNCHANGED log
        /\ currentTerm' = [currentTerm EXCEPT ![n] = term]
        /\ \/ becomeLeader(n, term, None, msgs)
           \/ /\ role' = [role EXCEPT ![n] = "Candidate"]
              /\ net' = msgs
              /\ UNCHANGED <<nextIndex, matchIndex, leaders>>
    BY <1>5 DEF onElectionTimeout, persistTerm, leaderVars
  <2>2. \A m \in msgs : m \in net \/ m.type = "RequestVote"
    BY DEF Sent
  <2>3. term \in Nat /\ currentTerm[n] <= term /\ currentTerm[n] # term
    BY <1>1
  <2> HIDE DEF term, msgs
  <2>4. CASE becomeLeader(n, term, None, msgs)
    <3>1. <<term, n>> \notin leaders
      <4> SUFFICES ASSUME <<term, n>> \in leaders PROVE FALSE
        OBVIOUS
      <4>1. currentTerm[n] >= term
        BY DEF RaftInv, RoleInv
      <4> QED  BY <1>1, <2>3, <4>1
    <3>2. leaders \subseteq leaders'
      BY <2>4 DEF becomeLeader, setLeader
    <3> QED  BY <2>1, <2>2, <2>3, <2>4, <3>1, <3>2, ElectedLogs
  <2>5. CASE /\ role' = [role EXCEPT ![n] = "Candidate"]
             /\ net' = msgs
             /\ UNCHANGED <<nextIndex, matchIndex, leaders>>
    <3>1. \A q \in Node : role'[q] = "Leader" =>
              role[q] = "Leader" /\ currentTerm'[q] = currentTerm[q]
      BY <1>1, <2>1, <2>5
    <3> QED  BY <1>4, <2>1, <2>2, <2>5, <3>1
  <2> QED  BY <2>1, <2>4, <2>5
<1>6. ASSUME NEW m \in net, onRequestVote(m)
      PROVE  \E M : LogStep(L, M)
  <2> DEFINE n     == m.to
             term  == Larger(m.term, currentTerm[n])
             grant == /\ m.term = term
                      /\ (IF m.term > currentTerm[n] THEN None ELSE votedFor[n])
                            \in {None, m.from}
                      /\ logIsUpToDate(m.lastTerm, m.lastIndex, lastTerm(log[n]), Len(log[n]))
  <2>1. n \in Node /\ m.term \in Nat
    BY <1>1, MessageFields
  <2>2. UNCHANGED <<log, leaders, nextIndex, matchIndex>>
    BY <1>6 DEF onRequestVote, leaderVars
  <2>3. net' = (net \ {m}) \cup Sent({VoteReply(m, term, grant)})
    BY <1>6 DEF onRequestVote
  <2>4. \A r \in net' : r \in net \/ r.type = "RequestVoteReply"
    BY <2>3 DEF Sent, VoteReply
  <2>5. \A q \in Node : role'[q] = "Leader" =>
            role[q] = "Leader" /\ currentTerm'[q] = currentTerm[q]
    <3>1. CASE m.term > currentTerm[n]
      <4>1. role' = [role EXCEPT ![n] = "Follower"]
        BY <1>6, <3>1 DEF onRequestVote, follow
      <4>2. currentTerm' = [currentTerm EXCEPT ![n] = term]
        BY <1>6, <3>1 DEF onRequestVote, persistTerm
      <4> QED  BY <1>1, <2>1, <4>1, <4>2
    <3>2. CASE ~(m.term > currentTerm[n])
      <4>1. UNCHANGED role
        BY <1>6, <3>2 DEF onRequestVote
      <4>2. currentTerm' = currentTerm \/ currentTerm' = [currentTerm EXCEPT ![n] = term]
        BY <1>6, <3>2 DEF onRequestVote, persistTerm, termVars
      <4>3. term = currentTerm[n]
        BY <1>1, <2>1, <3>2 DEF Larger
      <4>4. currentTerm' = currentTerm
        BY <1>1, <2>1, <4>2, <4>3
      <4> QED  BY <4>1, <4>4
    <3> QED  BY <3>1, <3>2
  <2> QED  BY <1>4, <2>2, <2>4, <2>5
<1>7. ASSUME NEW n \in Node, NEW term \in Nat, stepDown(n, term), net' \subseteq net,
             UNCHANGED <<log, nextIndex, matchIndex>>
      PROVE  \E M : LogStep(L, M)
  <2>1. /\ role' = [role EXCEPT ![n] = "Follower"]
        /\ currentTerm' = [currentTerm EXCEPT ![n] = term]
        /\ UNCHANGED leaders
    BY <1>7 DEF stepDown, follow, persistTerm
  <2>2. \A q \in Node : role'[q] = "Leader" =>
            role[q] = "Leader" /\ currentTerm'[q] = currentTerm[q]
    BY <1>1, <2>1
  <2> QED  BY <1>4, <1>7, <2>1, <2>2
<1>8. ASSUME NEW m \in net, onRequestVoteReply(m)
      PROVE  \E M : LogStep(L, M)
  <2> DEFINE n == m.to
             rest == net \ {m}
  <2>1. n \in Node /\ m.term \in Nat /\ UNCHANGED log
    BY <1>1, <1>8, MessageFields DEF onRequestVoteReply
  <2>2. CASE stepDown(n, m.term) /\ net' = rest /\ UNCHANGED leaderVars
    BY <1>7, <2>1, <2>2 DEF leaderVars
  <2>3. CASE /\ m.term = currentTerm[n] /\ role[n] = "Candidate"
             /\ becomeLeader(n, m.term, leader[n], rest)
             /\ UNCHANGED termVars
    <3>1. <<m.term, n>> \notin leaders
      BY <2>3 DEF RaftInv, RoleInv
    <3>2. leaders \subseteq leaders'
      BY <2>3 DEF becomeLeader, setLeader
    <3>3. currentTerm' = [currentTerm EXCEPT ![n] = m.term]
      BY <1>1, <2>3 DEF termVars
    <3>4. currentTerm[n] <= m.term
      BY <1>1, <2>1, <2>3
    <3>5. \A r \in rest : r \in net
      OBVIOUS
    <3> HIDE DEF n, rest
    <3> QED  BY <2>1, <2>3, <3>1, <3>2, <3>3, <3>4, <3>5, ElectedLogs
  <2>4. CASE net' = rest /\ UNCHANGED <<termVars, role, beliefVars, leaderVars>>
    BY <1>4, <2>1, <2>4 DEF termVars, beliefVars, leaderVars
  <2> QED  BY <1>8, <2>2, <2>3, <2>4 DEF onRequestVoteReply
<1>9. ASSUME NEW m \in net, onStaleAppendEntries(m)
      PROVE  \E M : LogStep(L, M)
  <2>1. \A r \in net' : r \in net \/ (r.type = "AppendEntriesReply" /\ ~r.success)
    BY <1>9 DEF onStaleAppendEntries, Sent, AppendReply
  <2>2. UNCHANGED <<log, leaders, nextIndex, matchIndex, role, currentTerm>>
    BY <1>9 DEF onStaleAppendEntries, leaderVars, beliefVars, termVars
  <2> QED  BY <1>4, <2>1, <2>2
<1>10. ASSUME NEW m \in net, onAppendEntries(m)
       PROVE  \E M : LogStep(L, M)
  <2>1. leaders' = leaders
    BY <1>10, AppendEntriesStep
  <2>2. LogStep(L, L)
    BY <1>10, <2>1, AppendEntriesLogs
  <2> QED  BY <2>2
<1>11. ASSUME NEW m \in net, onStaleAppendEntriesReply(m)
       PROVE  \E M : LogStep(L, M)
  <2>1. m.to \in Node /\ m.term \in Nat
    BY <1>1, MessageFields
  <2>2. UNCHANGED <<log, nextIndex, matchIndex>> /\ net' = net \ {m}
    BY <1>11 DEF onStaleAppendEntriesReply, leaderVars
  <2>3. CASE stepDown(m.to, m.term)
    BY <1>7, <2>1, <2>2, <2>3
  <2>4. CASE UNCHANGED <<termVars, disk, role, beliefVars, timerVars>>
    BY <1>4, <2>2, <2>4 DEF termVars, beliefVars
  <2> QED  BY <1>11, <2>3, <2>4 DEF onStaleAppendEntriesReply
<1>12. ASSUME NEW m \in net, onAppendEntriesReply(m)
       PROVE  \E M : LogStep(L, M)
  <2> DEFINE n == m.to
             p == m.from
             lg == log[n]
             match == [matchIndex[n] EXCEPT ![p] = Larger(@, m.match)]
             ni == BackedOff(nextIndex[n][p])
             again == AppendTo(n, p, currentTerm[n], lg, ni, commitIndex[n])
  <2>1. /\ n \in Node /\ p \in Node /\ m.term \in Nat /\ m.match \in Nat
        /\ role[n] = "Leader" /\ m.term = currentTerm[n] /\ m.type = "AppendEntriesReply"
        /\ UNCHANGED <<log, leaders, role, currentTerm>>
    BY <1>1, <1>12, MessageFields DEF onAppendEntriesReply, termVars, beliefVars
  <2>2. /\ lg = L[m.term] /\ lg \in Seq(Entry) /\ Len(lg) \in Nat
        /\ nextIndex[n] \in [Node -> Nat \ {0}] /\ matchIndex[n] \in [Node -> Nat]
        /\ \A q \in Node : nextIndex[n][q] <= Len(lg) + 1 /\ matchIndex[n][q] <= Len(lg)
    BY SMTT(30), <1>1, <1>3, <2>1
  <2>3. CASE /\ m.success
             /\ matchIndex' = [matchIndex EXCEPT ![n] = match]
             /\ nextIndex' = [nextIndex EXCEPT ![n][p] = match[p] + 1]
             /\ net' = net \ {m}
    <3>1. m.match <= Len(lg)
      BY <2>1, <2>2, <2>3 DEF LogInv
    <3>2. match \in [Node -> Nat] /\ \A q \in Node : match[q] <= Len(lg)
      BY <2>1, <2>2, <3>1 DEF Larger
    <3> HIDE DEF match, lg, n, p
    <3>3. matchIndex'[n] = match /\ \A q \in Node \ {n} : matchIndex'[q] = matchIndex[q]
      BY <1>1, <2>1, <2>3
    <3>4. /\ nextIndex'[n][p] = match[p] + 1
          /\ \A x \in Node \ {p} : nextIndex'[n][x] = nextIndex[n][x]
          /\ \A q \in Node \ {n} : nextIndex'[q] = nextIndex[q]
      BY <1>1, <2>1, <2>3
    <3>5. ASSUME NEW x \in Node
          PROVE  nextIndex'[n][x] <= Len(lg) + 1 /\ matchIndex'[n][x] <= Len(lg)
      <4>1. match[x] \in Nat /\ match[x] <= Len(lg) /\ matchIndex'[n][x] = match[x]
        BY <3>2, <3>3
      <4>2. nextIndex[n][x] <= Len(lg) + 1 /\ Len(lg) \in Nat
        BY <2>2
      <4>3. nextIndex'[n][x] = match[x] + 1 \/ nextIndex'[n][x] = nextIndex[n][x]
        BY <3>4
      <4> QED  BY <4>1, <4>2, <4>3
    <3>6. \A q \in Node : role'[q] = "Leader" =>
              /\ role[q] = "Leader" /\ currentTerm'[q] = currentTerm[q]
              /\ \A x \in Node : /\ nextIndex'[q][x] <= Len(log[q]) + 1
                                 /\ matchIndex'[q][x] <= Len(log[q])
      BY <1>3, <2>1, <3>3, <3>4, <3>5 DEF lg
    <3>7. LogStep(L, L)
      BY <1>1, <1>2, <2>1, <2>3, <3>6, QuietLogs
    <3> QED  BY <3>7
  <2>4. CASE /\ nextIndex' = [nextIndex EXCEPT ![n][p] = ni]
             /\ net' = (net \ {m}) \cup Sent({again})
             /\ UNCHANGED matchIndex
    <3>1. ni \in Nat /\ ni <= Len(lg) + 1
      BY SMTT(30), <2>1, <2>2 DEF BackedOff
    <3> HIDE DEF ni, lg, n, p
    <3>2. /\ nextIndex'[n][p] = ni
          /\ \A x \in Node \ {p} : nextIndex'[n][x] = nextIndex[n][x]
          /\ \A q \in Node \ {n} : nextIndex'[q] = nextIndex[q]
      BY <1>1, <2>1, <2>4
    <3>3. \A x \in Node : nextIndex'[n][x] <= Len(lg) + 1
      BY <2>1, <2>2, <3>1, <3>2
    <3>4. \A q \in Node : role'[q] = "Leader" =>
              /\ role[q] = "Leader" /\ currentTerm'[q] = currentTerm[q]
              /\ \A x \in Node : /\ nextIndex'[q][x] <= Len(log[q]) + 1
                                 /\ matchIndex'[q][x] <= Len(log[q])
      BY <1>3, <2>1, <2>4, <3>2, <3>3 DEF lg
    <3>5. again.type = "AppendEntries" /\ again.term = m.term /\ Carries(again, lg)
      <4>1. Carries(again, lg)
        BY <2>2, <3>1, AppendToCarries
      <4> QED  BY <2>1, <4>1 DEF AppendTo
    <3> HIDE DEF again
    <3>6. \A r \in net' : r \in net \/ (r.type = "AppendEntries" /\ Carries(r, L[r.term]))
      BY <2>2, <2>4, <3>5 DEF Sent
    <3>7. LogStep(L, L)
      BY <1>1, <1>2, <2>1, <3>4, <3>6, QuietLogs
    <3> QED  BY <3>7
  <2> QED  BY <1>12, <2>3, <2>4 DEF onAppendEntriesReply
<1>13. ASSUME NEW n \in Node, onHeartbeat(n)
       PROVE  \E M : LogStep(L, M)
  <2>1. role[n] = "Leader"
    BY <1>13 DEF onHeartbeat, RaftInv, TimersFollowRole
  <2>2. UNCHANGED <<log, leaders, nextIndex, matchIndex, role, currentTerm>>
    BY <1>13 DEF onHeartbeat, leaderVars, beliefVars, termVars
  <2> DEFINE next == nextIndex[n]
             lg == log[n]
             term == currentTerm[n]
  <2>3. /\ next \in [Node -> Nat] /\ lg \in Seq(Entry) /\ lg = L[term]
        /\ \A p \in Node : next[p] <= Len(lg) + 1
    <3>1. \A p \in Node : next[p] <= Len(lg) + 1
      BY <1>3, <2>1
    <3>2. next \in [Node -> Nat]
      BY <1>1
    <3> QED  BY <1>1, <1>3, <2>1, <3>1, <3>2
  <2>4. net' = net \cup Sent(AppendToAll(n, term, lg, next, commitIndex[n]))
    BY <1>13 DEF onHeartbeat
  <2> HIDE DEF next, lg, term
  <2>5. \A c : \A x \in Sent(AppendToAll(n, term, lg, next, c)) :
          x.type = "AppendEntries" /\ x.term = term /\ Carries(x, lg)
    BY <2>3, BroadcastCarries
  <2>6. \A r \in net' : r \in net \/ (r.type = "AppendEntries" /\ Carries(r, L[r.term]))
    BY <2>3, <2>4, <2>5
  <2> QED  BY <1>4, <2>2, <2>6
<1>14. ASSUME NEW n \in Node, NEW h \in Node,
              \/ OnSessionConnected(n, h)
              \/ ensureConnections(n, h)
              \/ OnSessionDisconnected(n, h)
       PROVE  \E M : LogStep(L, M)
  <2>1. UNCHANGED <<log, leaders, nextIndex, matchIndex, role, currentTerm>> /\ net' \subseteq net
    BY <1>14 DEF OnSessionConnected, ensureConnections, OnSessionDisconnected,
                 leaderVars, beliefVars, termVars
  <2> QED  BY <1>4, <2>1
<1>15. ASSUME NEW n \in Node, NEW d, Rebooted(n, d), d.log = log[n]
       PROVE  \E M : LogStep(L, M)
  <2>1. /\ role' = [role EXCEPT ![n] = "Follower"]
        /\ currentTerm' = [currentTerm EXCEPT ![n] = d.term]
        /\ nextIndex' = [nextIndex EXCEPT ![n] = [p \in Node |-> 1]]
        /\ matchIndex' = [matchIndex EXCEPT ![n] = [p \in Node |-> 0]]
        /\ UNCHANGED leaders /\ net' \subseteq net
    BY <1>15 DEF Rebooted
  <2>2. log' = log
    BY <1>1, <1>15 DEF Rebooted
  <2>3. \A q \in Node : role'[q] = "Leader" =>
            /\ q # n /\ role[q] = "Leader" /\ currentTerm'[q] = currentTerm[q]
            /\ nextIndex'[q] = nextIndex[q] /\ matchIndex'[q] = matchIndex[q]
    BY <1>1, <2>1
  <2>4. LogStep(L, L)
    BY <1>1, <1>2, <1>3, <2>1, <2>2, <2>3, QuietLogs
  <2> QED  BY <2>4
<1>16. ASSUME NEW n \in Node, Restart(n)
       PROVE  \E M : LogStep(L, M)
  <2>1. disk[n] = [term |-> currentTerm[n], vote |-> votedFor[n], log |-> log[n]]
    BY <1>1 DEF WrittenThrough
  <2>2. disk[n].log = log[n]
    BY <2>1
  <2> QED  BY <1>15, <1>16, <2>2 DEF Restart
<1>17. ASSUME NEW m \in net, RestartInHandler(m)
       PROVE  \E M : LogStep(L, M)
  <2> DEFINE d == [disk[m.to] EXCEPT !.term = m.term, !.vote = None]
  <2>1. /\ m.to \in Node
        /\ d = [term |-> m.term, vote |-> None, log |-> disk[m.to].log]
    BY <1>1, TornType
  <2>2. Rebooted(m.to, d)
    BY <1>17 DEF RestartInHandler
  <2> HIDE DEF d
  <2>3. disk[m.to] = [term |-> currentTerm[m.to], vote |-> votedFor[m.to], log |-> log[m.to]]
    BY <1>1, <2>1 DEF WrittenThrough
  <2>4. d.log = disk[m.to].log /\ disk[m.to].log = log[m.to]
    BY <2>1, <2>3
  <2> QED  BY <1>15, <2>1, <2>2, <2>4
<1>18. CASE UNCHANGED vars
  <2>1. UNCHANGED <<log, leaders, nextIndex, matchIndex, role, currentTerm, net>>
    BY <1>18 DEF vars, leaderVars, beliefVars, termVars
  <2> QED  BY <1>4, <2>1
<1> QED  BY <1>5, <1>6, <1>8, <1>9, <1>10, <1>11, <1>12, <1>13, <1>14, <1>16, <1>17,
            <1>18, ProposeLogs
         DEF Next, Handler, Deliver, Fault

\* The log invariant holds initially.
LEMMA LogInit ==
  ASSUME Init
  PROVE  \E L : LogInv(L)
<1>1. PICK L : L = [t \in Nat |-> <<>>]
  OBVIOUS
<1>2. L \in [Nat -> Seq(Entry)] /\ \A t \in Nat : L[t] = <<>> /\ Len(L[t]) = 0
  <2>1. <<>> \in Seq(Entry) /\ Len(<<>>) = 0
    BY EmptySeq
  <2> QED  BY <1>1, <2>1
<1>3. LeaderLogs(L)
  <2>1. \A t \in Nat : 1 .. Len(L[t]) = {}
    BY <1>2
  <2> QED  BY <1>2, <2>1 DEF LeaderLogs, Backed
<1>4. /\ \A n \in Node : log[n] = <<>> /\ role[n] = "Follower"
      /\ net = {}
  BY DEF Init, Booted
<1>5. \A n \in Node : 1 .. Len(log[n]) = {}
  BY <1>4
<1>6. LogInv(L)
  BY <1>2, <1>3, <1>4, <1>5 DEF LogInv, Backed
<1> QED  BY <1>6

\* In every reachable state the logs rest on those of the leaders.
LEMMA LogInvariance == Spec => [](\E L : LogInv(L))
<1>1. Init => \E L : LogInv(L)
  BY LogInit
<1>2. /\ ElectionInv /\ ElectionInv' /\ ElectionSafety /\ ElectionSafety'
      /\ \E L : LogInv(L)
      /\ [Next]_vars
      => (\E L : LogInv(L))'
  <2> SUFFICES ASSUME ElectionInv, ElectionInv', ElectionSafety, ElectionSafety',
                      NEW L, LogInv(L), [Next]_vars
               PROVE  (\E M : LogInv(M))'
    OBVIOUS
  <2>1. TypeOK /\ TypeOK' /\ RaftInv /\ RaftInv'
    BY DEF ElectionInv, RaftInv
  <2>2. PICK M : LogStep(L, M)
    BY <2>1, NextLogs
  <2>3. LogInv(M)'
    BY <2>1, <2>2, LogsKept
  <2> QED  BY <2>3
<1> QED  BY <1>1, <1>2, ElectionInvariance, ElectionsAreSafe, PTL DEF Spec

\* The consistency check of onAppendEntries: logs that hold an entry of one
\* term at one index are the same up to it, whatever was lost, delayed or
\* answered before a restart.
THEOREM LogsMatch == Spec => []LogMatching
<1>1. ElectionInv /\ (\E L : LogInv(L)) => LogMatching
  <2> SUFFICES ASSUME ElectionInv, NEW L, LogInv(L)
               PROVE  LogMatching
    OBVIOUS
  <2>1. TypeOK /\ log \in [Node -> Seq(Entry)] /\ L \in [Nat -> Seq(Entry)]
    BY DEF ElectionInv, TypeOK, LogInv, LeaderLogs
  <2>2. ASSUME NEW n \in Node, NEW p \in Node, NEW i \in DOMAIN log[n] \cap DOMAIN log[p],
               log[n][i].term = log[p][i].term
        PROVE  SubSeq(log[n], 1, i) = SubSeq(log[p], 1, i)
    <3> DEFINE s == log[n]
               t == log[p]
    <3>1. s \in Seq(Entry) /\ t \in Seq(Entry) /\ Backed(s, L) /\ Backed(t, L)
      BY <2>1 DEF LogInv
    <3>2. i \in 1 .. Len(s) /\ i \in 1 .. Len(t) /\ s[i].term = t[i].term
      BY <2>2, <3>1
    <3> HIDE DEF s, t
    <3>3. i \in Nat /\ i >= 1 /\ i <= Len(s) /\ i <= Len(t)
      BY <3>1, <3>2
    <3>4. Agree(s, t, i)
      BY <2>1, <3>1, <3>2, <3>3, BackedMatch
    <3>5. SubSeq(s, 1, i) = SubSeq(t, 1, i)
      BY <3>1, <3>3, <3>4 DEF Agree
    <3> QED  BY <3>5 DEF s, t
  <2> QED  BY <2>1, <2>2 DEF LogMatching
<1> QED  BY <1>1, ElectionInvariance, LogInvariance, PTL
------------------------------------------------------------------------------
(* What the nodes acknowledged.  A[q][t] is the length of the prefix of the  *)
(* log L[t] of the leader of term t that q acknowledged to it in that term.  *)

\* Entry i of the leader of term t was written in that term.
Own(L, t, i) == i \in 1 .. Len(L[t]) /\ L[t][i].term = t

\* A majority acknowledged the first k entries of the leader of term t.
Chosen(A, t, k) ==
    \E Q \in SUBSET Node : IsMajority(Q) /\ \A q \in Q : A[q][t] >= k

\* A majority left term t without acknowledging entry i: it will never be chosen.
NotChoosable(A, t, i) ==
    \E Q \in SUBSET Node : IsMajority(Q) /\ \A q \in Q : currentTerm[q] > t /\ A[q][t] < i

\* lg holds entry i of the leader of term t, unless nothing depends on it.
Kept(L, A, lg, t, i) == NotChoosable(A, t, i) \/ Agree(lg, L[t], i)

\* lg holds what q acknowledged in the terms before u.
Covers(L, A, lg, q, u) ==
    \A t \in Nat : t < u => \A i \in 1 .. A[q][t] : Own(L, t, i) => Kept(L, A, lg, t, i)

\* The acknowledgements, and what a node holds of them.
HeldInv(L, A) ==
    /\ A \in [Node -> [Nat -> Nat]]
    /\ \A q \in Node, t \in Nat : A[q][t] <= Len(L[t]) /\ (A[q][t] > 0 => t <= currentTerm[q])
    /\ \A q \in Node, t \in Nat : \A i \in 1 .. A[q][t] :
          Own(L, t, i) => Kept(L, A, log[q], t, i)
    /\ \A m \in net : m.type = "AppendEntriesReply" /\ m.success =>
          m.match <= A[m.from][m.term]
    /\ \A n \in Node : role[n] = "Leader" =>
          /\ A[n][currentTerm[n]] = Len(log[n])
          /\ \A p \in Node \ {n} : matchIndex[n][p] <= A[p][currentTerm[n]]

\* What a vote and an election carry over.
BallotInv(L, A) ==
    /\ \A n, q \in Node : role[n] = "Candidate" /\ VotedFor(q, n) =>
          currentTerm[q] >= currentTerm[n] /\ Covers(L, A, log[n], q, currentTerm[n])
    /\ \A m \in net : m.type = "RequestVote" =>
          /\ m.term <= currentTerm[m.from]
          /\ role[m.from] = "Candidate" /\ m.term = currentTerm[m.from] =>
                m.lastIndex = Len(log[m.from]) /\ m.lastTerm = lastTerm(log[m.from])
    /\ \A m \in net : m.type = "RequestVoteReply" /\ m.granted =>
          m.term <= currentTerm[m.to]
    /\ \A a \in leaders : \E Q \in SUBSET Node :
          IsMajority(Q) /\ \A q \in Q : currentTerm[q] >= a[1]
    /\ \A a \in leaders : \A t \in Nat : t < a[1] => \A i \in 1 .. Len(L[t]) :
          Own(L, t, i) => Kept(L, A, L[a[1]], t, i)

AckInv(L, A) == HeldInv(L, A) /\ BallotInv(L, A)
------------------------------------------------------------------------------
\* What is chosen is never given up.
LEMMA ChosenStays ==
  ASSUME NEW A \in [Node -> [Nat -> Nat]], currentTerm \in [Node -> Nat],
         NEW t \in Nat, NEW k \in Nat, Chosen(A, t, k)
  PROVE  ~NotChoosable(A, t, k)
<1> SUFFICES ASSUME NotChoosable(A, t, k) PROVE FALSE
  OBVIOUS
<1>1. PICK P \in SUBSET Node : IsMajority(P) /\ \A q \in P : A[q][t] >= k
  BY DEF Chosen
<1>2. PICK Q \in SUBSET Node : IsMajority(Q) /\ \A q \in Q : currentTerm[q] > t /\ A[q][t] < k
  BY DEF NotChoosable
<1>3. PICK q \in P : q \in Q
  BY <1>1, <1>2, MajoritiesMeet
<1>4. q \in Node /\ A[q][t] \in Nat /\ A[q][t] >= k /\ A[q][t] < k
  BY <1>1, <1>2, <1>3
<1> QED  BY <1>4

\* A node that wins the vote of another holds what that other one holds.
LEMMA UpToDate ==
  ASSUME TypeOK, NEW L, LogInv(L), NEW A, BallotInv(L, A),
         NEW r \in Seq(Entry), NEW s \in Seq(Entry), Backed(r, L), Backed(s, L),
         logIsUpToDate(lastTerm(r), Len(r), lastTerm(s), Len(s)),
         NEW t \in Nat, NEW i \in Nat, Own(L, t, i), Agree(s, L[t], i)
  PROVE  Kept(L, A, r, t, i)
<1>1. /\ LeaderLogs(L) /\ L \in [Nat -> Seq(Entry)] /\ L[t] \in Seq(Entry)
      /\ leaders \subseteq Nat \X Node
  BY DEF LogInv, LeaderLogs, TypeOK
<1>2. Len(r) \in Nat /\ Len(s) \in Nat /\ Len(L[t]) \in Nat
  <2>1. L[t] \in Seq(Entry)
    BY <1>1
  <2> QED  BY <2>1, LenProperties
<1>3. i >= 1 /\ i <= Len(s) /\ i <= Len(L[t]) /\ L[t][i].term = t /\ s[i] = L[t][i]
  BY <1>1, <1>2 DEF Own, Agree
<1> DEFINE S == lastTerm(s)
           R == lastTerm(r)
<1>4. S \in Nat /\ S = s[Len(s)].term /\ t <= S /\ Agree(s, L[S], Len(s))
  <2>1. Len(s) \in 1 .. Len(s) /\ i \in 1 .. Len(s)
    BY <1>2, <1>3
  <2>2. S = s[Len(s)].term /\ S \in Nat
    BY <2>1, EntryTerm DEF lastTerm
  <2>3. s[i].term <= s[Len(s)].term
    BY <1>1, <2>1, BackedSorted
  <2>4. Agree(s, L[s[Len(s)].term], Len(s))
    BY <2>1 DEF Backed
  <2> QED  BY <1>3, <2>2, <2>3, <2>4
<1>5. R \in Nat
  BY <1>2, TermAtType DEF lastTerm
<1>6. IF R # S THEN R > S ELSE Len(r) >= Len(s)
  BY DEF logIsUpToDate
<1> HIDE DEF S, R
<1>7. CASE R = S
  <2>1. Len(r) \in 1 .. Len(r) /\ Len(r) >= Len(s)
    BY <1>2, <1>3, <1>6, <1>7
  <2>2. R = r[Len(r)].term
    BY <2>1, EntryTerm DEF lastTerm, R
  <2>3. Agree(r, L[R], Len(r))
    BY <2>1, <2>2 DEF Backed
  <2>4. L[S] \in Seq(Entry)
    BY <1>1, <1>4
  <2>5. Agree(r, L[S], i)
    BY <1>2, <1>3, <1>7, <2>1, <2>3, <2>4, AgreeTrans
  <2>6. Agree(L[S], s, i)
    BY <1>2, <1>3, <1>4, <2>4, AgreeTrans
  <2>7. Agree(r, s, i)
    BY <2>4, <2>5, <2>6, AgreeTrans
  <2>8. Agree(r, L[t], i)
    BY <1>1, <2>7, AgreeTrans
  <2> QED  BY <2>8 DEF Kept
<1>8. CASE R # S
  <2>1. R > S /\ t < R
    BY <1>4, <1>5, <1>6, <1>8
  <2>2. Len(r) \in 1 .. Len(r) /\ R = r[Len(r)].term
    <3>1. Len(r) # 0
      <4> SUFFICES ASSUME Len(r) = 0 PROVE FALSE
        OBVIOUS
      <4>1. R = 0
        BY DEF R, lastTerm, termAt
      <4> QED  BY <1>4, <2>1, <4>1
    <3>2. Len(r) \in 1 .. Len(r)
      BY <1>2, <3>1
    <3> QED  BY <3>2, EntryTerm DEF lastTerm, R
  <2>3. Agree(r, L[R], Len(r)) /\ L[R] \in Seq(Entry)
    BY <1>1, <1>5, <2>2 DEF Backed
  <2>4. L[R] # <<>>
    BY <1>2, <2>2, <2>3 DEF Agree
  <2>5. PICK a \in leaders : a[1] = R
    BY <1>5, <2>4 DEF LogInv
  <2>6. i \in 1 .. Len(L[t])
    BY <1>2, <1>3
  <2>7. Kept(L, A, L[R], t, i)
    BY <2>1, <2>5, <2>6 DEF BallotInv
  <2>8. CASE Agree(L[R], L[t], i)
    <3>1. i <= Len(r)
      <4> SUFFICES ASSUME i > Len(r) PROVE FALSE
        BY <1>2
      <4> DEFINE j == Len(r)
      <4>1. /\ Len(L[R]) \in Nat /\ i <= Len(L[R]) /\ j \in 1 .. i
            /\ i \in 1 .. Len(L[R]) /\ L[R][i] = L[t][i]
        BY <1>2, <1>3, <2>2, <2>3, <2>8 DEF Agree
      <4>2. L[R][j] = r[j]
        BY <2>2, <2>3 DEF Agree
      <4>3. Backed(L[R], L)
        BY <1>1, <1>5 DEF LeaderLogs
      <4> HIDE DEF j
      <4>4. L[R][j].term <= L[R][i].term
        BY <1>1, <2>3, <4>1, <4>3, BackedSorted
      <4>5. L[R][j].term = R /\ L[R][i].term = t
        BY <1>3, <2>2, <4>1, <4>2 DEF j
      <4> QED  BY <1>5, <2>1, <4>4, <4>5
    <3>2. Agree(r, L[R], i)
      BY <1>2, <2>3, <3>1, AgreeTrans
    <3>3. Agree(r, L[t], i)
      BY <1>2, <1>3, <2>8, <3>2 DEF Agree
    <3> QED  BY <3>3 DEF Kept
  <2> QED  BY <2>7, <2>8 DEF Kept
<1> QED  BY <1>7, <1>8
------------------------------------------------------------------------------
(* What a step may do to the acknowledgements.  M and B are L and A after it. *)

\* Acknowledgements grow in the current term only.
AckGrows(M, A, B) ==
    /\ B \in [Node -> [Nat -> Nat]]
    /\ \A q \in Node : currentTerm'[q] >= currentTerm[q]
    /\ \A q \in Node, t \in Nat : /\ B[q][t] >= A[q][t]
                                  /\ B[q][t] # A[q][t] => t = currentTerm'[q]
                                  /\ B[q][t] <= Len(M[t])

\* A log changes towards the log of the leader of its node's term, and holds
\* what its node newly acknowledges.
HeldStep(L, M, A, B) ==
    /\ \A q \in Node : \/ log'[q] = log[q]
                       \/ /\ \E a \in leaders : a[1] = currentTerm'[q]
                          /\ \A x \in Nat : Agree(log[q], L[currentTerm'[q]], x) =>
                                            Agree(log'[q], L[currentTerm'[q]], x)
    /\ \A q \in Node : \A i \in 1 .. B[q][currentTerm'[q]] :
          i > A[q][currentTerm'[q]] => Agree(log'[q], M[currentTerm'[q]], i)
    /\ \A m \in net' : m.type = "AppendEntriesReply" /\ m.success =>
          m \in net \/ m.match <= B[m.from][m.term]
    /\ \A n \in Node : role'[n] = "Leader" =>
          /\ B[n][currentTerm'[n]] = Len(log'[n])
          /\ \A p \in Node \ {n} : matchIndex'[n][p] <= B[p][currentTerm'[n]]

\* A vote is granted on a request, and an election won on votes.
Granted(m) ==
    \E r \in net :
        /\ r.type = "RequestVote" /\ r.from = m.to /\ r.to = m.from /\ r.term = m.term
        /\ currentTerm'[m.from] = m.term
        /\ logIsUpToDate(r.lastTerm, r.lastIndex, lastTerm(log[m.from]), Len(log[m.from]))

Won(a) ==
    \E n \in Node, Q \in SUBSET Node :
        /\ a = <<currentTerm'[n], n>>
        /\ role'[n] = "Leader" /\ log'[n] = log[n]
        /\ IsMajority(Q)
        /\ \A q \in Q : q = n \/ (/\ role[n] = "Candidate"
                                  /\ currentTerm'[n] = currentTerm[n]
                                  /\ VotedFor(q, n))

BallotStep ==
    /\ \A n \in Node : role'[n] = "Candidate" =>
          /\ log'[n] = log[n]
          /\ \/ role[n] = "Candidate" /\ currentTerm'[n] = currentTerm[n]
             \/ currentTerm'[n] > currentTerm[n]
    /\ \A m \in net' : m.type = "RequestVote" =>
          m \in net \/ (/\ m.term = currentTerm'[m.from]
                        /\ m.lastIndex = Len(log'[m.from])
                        /\ m.lastTerm = lastTerm(log'[m.from]))
    /\ \A m \in net' : m.type = "RequestVoteReply" /\ m.granted => m \in net \/ Granted(m)
    /\ leaders \subseteq leaders'
    /\ \A a \in leaders' : a \in leaders \/ Won(a)

AckStep(L, M, A, B) == AckGrows(M, A, B) /\ HeldStep(L, M, A, B) /\ BallotStep

\* What nothing depended on stays so.
LEMMA NotChoosableStays ==
  ASSUME TypeOK, TypeOK', NEW M, NEW A, A \in [Node -> [Nat -> Nat]], NEW B, AckGrows(M, A, B),
         NEW t \in Nat, NEW i \in Nat, NotChoosable(A, t, i)
  PROVE  NotChoosable(B, t, i)'
<1>1. PICK Q \in SUBSET Node : IsMajority(Q) /\ \A q \in Q : currentTerm[q] > t /\ A[q][t] < i
  BY DEF NotChoosable
<1>2. ASSUME NEW q \in Q PROVE currentTerm'[q] > t /\ B[q][t] < i
  <2>1. q \in Node /\ currentTerm[q] \in Nat /\ currentTerm'[q] \in Nat
    BY DEF TypeOK
  <2>2. currentTerm[q] > t /\ A[q][t] < i /\ currentTerm'[q] >= currentTerm[q]
    BY <1>1, <2>1 DEF AckGrows
  <2>3. B[q][t] # A[q][t] => t = currentTerm'[q]
    BY <2>1 DEF AckGrows
  <2> QED  BY <2>1, <2>2, <2>3
<1> QED  BY <1>1, <1>2 DEF NotChoosable

\* An entry a log had to keep it still has to keep, and an old entry is the same.
LEMMA KeptStays ==
  ASSUME TypeOK, TypeOK', NEW L, NEW M, L \in [Nat -> Seq(Entry)], M \in [Nat -> Seq(Entry)],
         Extends(L, M), NEW A, A \in [Node -> [Nat -> Nat]], NEW B, AckGrows(M, A, B),
         NEW t \in Nat, NEW i \in 1 .. Len(L[t]), Own(M, t, i)
  PROVE  /\ Own(L, t, i)
         /\ \A lg \in Seq(Entry) : Kept(L, A, lg, t, i) => Kept(M, B, lg, t, i)'
<1> DEFINE s == L[t]
           r == M[t]
<1>1. s \in Seq(Entry) /\ r \in Seq(Entry) /\ Agree(s, r, Len(s)) /\ i \in 1 .. Len(s)
  BY DEF Extends
<1>2. L[t][i] = M[t][i] /\ Own(L, t, i) /\ Agree(L[t], M[t], i) /\ i \in Nat
  <2> HIDE DEF s, r
  <2>1. Len(s) \in Nat /\ Len(r) \in Nat
    BY <1>1, LenProperties
  <2>2. Len(s) <= Len(r) /\ \A j \in 1 .. Len(s) : s[j] = r[j]
    BY <1>1 DEF Agree
  <2>3. i \in Nat /\ i <= Len(s) /\ i <= Len(r) /\ s[i] = r[i]
    <3>1. i \in 1 .. Len(s)
      BY <1>1
    <3>2. i \in Nat /\ i <= Len(s)
      BY <2>1, <3>1
    <3>3. i <= Len(r)
      BY <2>1, <2>2, <3>2
    <3> QED  BY <2>2, <3>1, <3>2, <3>3
  <2>4. \A j \in 1 .. i : s[j] = r[j]
    BY <2>1, <2>2, <2>3
  <2>5. Agree(s, r, i)
    BY <2>3, <2>4 DEF Agree
  <2> QED  BY <1>1, <2>3, <2>5 DEF Own, s, r
<1>3. ASSUME NEW lg \in Seq(Entry), Kept(L, A, lg, t, i)
      PROVE  Kept(M, B, lg, t, i)'
  <2>1. CASE NotChoosable(A, t, i)
    BY <1>2, <2>1, NotChoosableStays DEF Kept
  <2>2. CASE Agree(lg, L[t], i)
    <3>1. i <= Len(lg) /\ i <= Len(M[t]) /\ \A j \in 1 .. i : lg[j] = M[t][j]
      BY <1>2, <2>2 DEF Agree
    <3> QED  BY <3>1 DEF Kept, Agree
  <2> QED  BY <1>3, <2>1, <2>2 DEF Kept
<1> QED  BY <1>2, <1>3

\* Where the leaders' logs were equal they still are.
LEMMA ExtendsUpTo ==
  ASSUME NEW L, NEW M, L \in [Nat -> Seq(Entry)], M \in [Nat -> Seq(Entry)],
         Extends(L, M), NEW t \in Nat, NEW i \in 1 .. Len(L[t])
  PROVE  Agree(L[t], M[t], i)
<1> DEFINE s == L[t]
           r == M[t]
<1>1. s \in Seq(Entry) /\ r \in Seq(Entry) /\ Agree(s, r, Len(s)) /\ i \in 1 .. Len(s)
  BY DEF Extends
<1> HIDE DEF s, r
<1>2. Len(s) \in Nat /\ Len(r) \in Nat
  BY <1>1, LenProperties
<1>3. i \in Nat /\ i <= Len(s)
  BY <1>1, <1>2
<1>4. Agree(s, r, i)
  <2>1. Len(s) <= Len(r) /\ \A j \in 1 .. Len(s) : s[j] = r[j]
    BY <1>1 DEF Agree
  <2>2. Len(s) <= Len(r)
    BY <2>1
  <2>3. i <= Len(r)
    BY <1>2, <1>3, <2>2
  <2>4. ASSUME NEW j \in 1 .. i PROVE s[j] = r[j]
    <3>1. j \in 1 .. Len(s)
      BY <1>2, <1>3
    <3> QED  BY <2>1, <3>1
  <2> QED  BY <1>3, <2>3, <2>4 DEF Agree
<1> QED  BY <1>4 DEF s, r

\* Such a step keeps what the nodes hold of their acknowledgements.
LEMMA HeldKept ==
  ASSUME TypeOK, TypeOK', NEW L, LogInv(L), NEW M, LogInv(M)', Extends(L, M),
         NEW A, AckInv(L, A), NEW B, AckStep(L, M, A, B)
  PROVE  HeldInv(M, B)'
<1>1. /\ L \in [Nat -> Seq(Entry)] /\ M \in [Nat -> Seq(Entry)]
      /\ A \in [Node -> [Nat -> Nat]] /\ B \in [Node -> [Nat -> Nat]]
      /\ log \in [Node -> Seq(Entry)] /\ log' \in [Node -> Seq(Entry)]
      /\ currentTerm \in [Node -> Nat] /\ currentTerm' \in [Node -> Nat]
      /\ net \subseteq Message
  BY DEF TypeOK, LogInv, LeaderLogs, AckInv, HeldInv, AckStep, AckGrows
<1>2. AckGrows(M, A, B) /\ HeldStep(L, M, A, B) /\ HeldInv(L, A) /\ BallotInv(L, A)
  BY DEF AckInv, AckStep
<1>3. ASSUME NEW q \in Node, NEW t \in Nat
      PROVE  /\ A[q][t] \in Nat /\ B[q][t] \in Nat /\ B[q][t] >= A[q][t]
             /\ B[q][t] # A[q][t] => t = currentTerm'[q]
             /\ B[q][t] <= Len(M[t]) /\ A[q][t] <= Len(L[t])
             /\ A[q][t] > 0 => t <= currentTerm[q]
             /\ currentTerm[q] \in Nat /\ currentTerm'[q] \in Nat
             /\ currentTerm[q] <= currentTerm'[q]
             /\ L[t] \in Seq(Entry) /\ Len(L[t]) \in Nat
  <2>1. A[q][t] \in Nat /\ B[q][t] \in Nat /\ currentTerm[q] \in Nat /\ currentTerm'[q] \in Nat
    <3>1. A \in [Node -> [Nat -> Nat]] /\ B \in [Node -> [Nat -> Nat]]
      BY <1>1
    <3>2. A[q][t] \in Nat /\ B[q][t] \in Nat
      BY <3>1
    <3>3. currentTerm[q] \in Nat /\ currentTerm'[q] \in Nat
      BY <1>1
    <3> QED  BY <3>2, <3>3
  <2>2. /\ B[q][t] >= A[q][t] /\ (B[q][t] # A[q][t] => t = currentTerm'[q])
        /\ B[q][t] <= Len(M[t]) /\ currentTerm'[q] >= currentTerm[q]
    BY <1>2 DEF AckGrows
  <2>3. A[q][t] <= Len(L[t]) /\ (A[q][t] > 0 => t <= currentTerm[q])
    BY <1>2 DEF HeldInv
  <2>4. L[t] \in Seq(Entry)
    BY <1>1
  <2>5. Len(L[t]) \in Nat
    BY <2>4, LenProperties
  <2> QED  BY <2>1, <2>2, <2>3, <2>4, <2>5
<1>4. ASSUME NEW q \in Node, NEW t \in Nat, NEW i \in 1 .. B[q][t], Own(M, t, i)
      PROVE  NotChoosable(B, t, i)' \/ Agree(log'[q], M[t], i)
  <2>1. i \in Nat /\ i >= 1 /\ i <= B[q][t] /\ log[q] \in Seq(Entry) /\ log'[q] \in Seq(Entry)
    BY <1>1, <1>3
  <2>2. CASE i > A[q][t]
    <3>1. t = currentTerm'[q]
      BY <1>3, <2>1, <2>2
    <3>2. Agree(log'[q], M[t], i)
      BY <1>2, <1>4, <2>2, <3>1 DEF HeldStep
    <3> QED  BY <3>2
  <2>3. CASE i <= A[q][t]
    <3>1. i \in 1 .. A[q][t] /\ i \in 1 .. Len(L[t])
      BY <1>3, <2>1, <2>3
    <3>2. /\ Own(L, t, i)
          /\ \A lg \in Seq(Entry) : Kept(L, A, lg, t, i) => Kept(M, B, lg, t, i)'
      BY <1>1, <1>2, <1>4, <3>1, KeptStays
    <3>3. Kept(L, A, log[q], t, i)
      BY <1>2, <3>1, <3>2 DEF HeldInv
    <3>4. CASE NotChoosable(A, t, i)
      BY <1>1, <1>2, <2>1, <3>4, NotChoosableStays
    <3>5. CASE Agree(log[q], L[t], i)
      <4> DEFINE old == log[q]
                 new == log'[q]
                 u == currentTerm'[q]
      <4>1. Agree(L[t], M[t], i)
        BY <1>1, <1>3, <2>1, <3>1, ExtendsUpTo
      <4>2. Agree(old, M[t], i)
        BY <2>1, <3>5, <4>1 DEF Agree
      <4>3. CASE new = old
        BY <4>2, <4>3
      <4>4. CASE new # old
        <5>1. PICK a \in leaders : a[1] = u
          BY <1>2, <4>4 DEF HeldStep
        <5>2. \A x \in Nat : Agree(old, L[u], x) => Agree(new, L[u], x)
          BY <1>2, <4>4 DEF HeldStep
        <5>3. t <= u /\ u \in Nat
          BY <1>3, <2>1, <2>3
        <5>4. CASE t = u
          <6>1. Agree(new, L[t], i)
            BY <2>1, <3>5, <5>2, <5>4
          <6> QED  BY <2>1, <4>1, <6>1 DEF Agree
        <5>5. CASE t < u
          <6>1. Kept(L, A, L[u], t, i)
            BY <1>2, <3>1, <3>2, <5>1, <5>5 DEF BallotInv
          <6>2. CASE NotChoosable(A, t, i)
            BY <1>1, <1>2, <2>1, <6>2, NotChoosableStays
          <6>3. CASE Agree(L[u], L[t], i)
            <7>1. Agree(old, L[u], i)
              BY <2>1, <3>5, <6>3 DEF Agree
            <7>2. Agree(new, L[u], i)
              BY <2>1, <5>2, <7>1
            <7> QED  BY <2>1, <4>1, <6>3, <7>2 DEF Agree
          <6> QED  BY <6>1, <6>2, <6>3 DEF Kept
        <5> QED  BY <5>3, <5>4, <5>5, <1>3
      <4> QED  BY <4>3, <4>4
    <3> QED  BY <3>3, <3>4, <3>5 DEF Kept
  <2> QED  BY <1>3, <2>1, <2>2, <2>3
<1>5. \A q \in Node, t \in Nat :
          B[q][t] <= Len(M[t]) /\ (B[q][t] > 0 => t <= currentTerm'[q])
  <2> SUFFICES ASSUME NEW q \in Node, NEW t \in Nat, B[q][t] > 0
               PROVE  t <= currentTerm'[q]
    BY <1>3
  <2>1. CASE B[q][t] = A[q][t]
    BY <1>3, <2>1
  <2>2. CASE B[q][t] # A[q][t]
    BY <1>3, <2>2
  <2> QED  BY <2>1, <2>2
<1>6. ASSUME NEW m \in net', m.type = "AppendEntriesReply", m.success
      PROVE  m.match <= B[m.from][m.term]
  <2>1. CASE m \in net
    <3>1. m.from \in Node /\ m.term \in Nat /\ m.match \in Nat
      BY <1>1, <1>6, <2>1, MessageFields
    <3>2. m.match <= A[m.from][m.term]
      BY <1>2, <1>6, <2>1 DEF HeldInv
    <3> QED  BY <1>3, <3>1, <3>2
  <2>2. CASE m \notin net
    BY <1>2, <1>6, <2>2 DEF HeldStep
  <2> QED  BY <2>1, <2>2
<1>7. \A n \in Node : role'[n] = "Leader" =>
          /\ B[n][currentTerm'[n]] = Len(log'[n])
          /\ \A p \in Node \ {n} : matchIndex'[n][p] <= B[p][currentTerm'[n]]
  BY <1>2 DEF HeldStep
<1> QED  BY <1>1, <1>4, <1>5, <1>6, <1>7 DEF HeldInv, Kept

\* Such a step keeps what votes and elections carry over.
LEMMA BallotKept ==
  ASSUME TypeOK, TypeOK', NEW L, LogInv(L), NEW M, LogInv(M)', Extends(L, M),
         NEW A, AckInv(L, A), NEW B, AckStep(L, M, A, B), CandidateStep
  PROVE  BallotInv(M, B)'
<1>1. /\ L \in [Nat -> Seq(Entry)] /\ M \in [Nat -> Seq(Entry)]
      /\ A \in [Node -> [Nat -> Nat]] /\ B \in [Node -> [Nat -> Nat]]
      /\ log \in [Node -> Seq(Entry)]
      /\ currentTerm \in [Node -> Nat] /\ currentTerm' \in [Node -> Nat]
      /\ net \subseteq Message /\ net' \subseteq Message
      /\ leaders \subseteq Nat \X Node /\ leaders' \subseteq Nat \X Node
  BY DEF TypeOK, LogInv, LeaderLogs, AckInv, HeldInv, AckStep, AckGrows
<1>2. AckGrows(M, A, B) /\ BallotStep /\ HeldInv(L, A) /\ BallotInv(L, A)
  BY DEF AckInv, AckStep
<1>3. ASSUME NEW q \in Node
      PROVE  /\ currentTerm[q] \in Nat /\ currentTerm'[q] \in Nat
             /\ currentTerm[q] <= currentTerm'[q] /\ log[q] \in Seq(Entry)
             /\ Backed(log[q], L)
  BY <1>1, <1>2 DEF AckGrows, LogInv
<1>4. ASSUME NEW q \in Node, NEW t \in Nat
      PROVE  /\ A[q][t] \in Nat /\ B[q][t] \in Nat
             /\ B[q][t] # A[q][t] => t = currentTerm'[q]
             /\ A[q][t] <= Len(L[t]) /\ L[t] \in Seq(Entry) /\ Len(L[t]) \in Nat
  <2>1. A[q][t] \in Nat /\ B[q][t] \in Nat
    <3>1. A \in [Node -> [Nat -> Nat]] /\ B \in [Node -> [Nat -> Nat]]
      BY <1>1
    <3> QED  BY <3>1
  <2>2. (B[q][t] # A[q][t] => t = currentTerm'[q]) /\ A[q][t] <= Len(L[t])
    BY <1>2 DEF AckGrows, HeldInv
  <2>3. L[t] \in Seq(Entry)
    BY <1>1
  <2>4. Len(L[t]) \in Nat
    BY <2>3, LenProperties
  <2> QED  BY <2>1, <2>2, <2>3, <2>4
\* What a log had to keep of q's acknowledgements it still keeps.
<1>5. ASSUME NEW lg \in Seq(Entry), NEW q \in Node, NEW u \in Nat,
             currentTerm'[q] >= u, Covers(L, A, lg, q, u)
      PROVE  Covers(M, B, lg, q, u)'
  <2> SUFFICES ASSUME NEW t \in Nat, t < u, NEW i \in 1 .. B[q][t], Own(M, t, i)
               PROVE  Kept(M, B, lg, t, i)'
    BY DEF Covers
  <2>1. B[q][t] = A[q][t]
    BY <1>3, <1>4, <1>5
  <2>2. i \in 1 .. A[q][t] /\ i \in 1 .. Len(L[t])
    BY <1>4, <2>1
  <2>3. /\ Own(L, t, i)
        /\ Kept(L, A, lg, t, i) => Kept(M, B, lg, t, i)'
    BY <1>1, <1>2, <2>2, KeptStays
  <2> QED  BY <1>5, <2>2, <2>3 DEF Covers
\* A node covers what it acknowledged itself.
<1>6. ASSUME NEW q \in Node, NEW u \in Nat PROVE Covers(L, A, log[q], q, u)
  BY <1>2 DEF Covers, HeldInv
<1>7. ASSUME NEW n \in Node, NEW q \in Node, role'[n] = "Candidate", VotedFor(q, n)'
      PROVE  currentTerm'[q] >= currentTerm'[n] /\ Covers(M, B, log[n], q, currentTerm[n])'
  <2> DEFINE u == currentTerm'[n]
  <2>1. /\ log'[n] = log[n] /\ u \in Nat /\ log[n] \in Seq(Entry)
        /\ \/ role[n] = "Candidate" /\ currentTerm'[n] = currentTerm[n]
           \/ currentTerm'[n] > currentTerm[n]
    BY <1>2, <1>3, <1>7 DEF BallotStep
  <2>2. currentTerm'[q] >= u /\ Covers(L, A, log[n], q, u)
    <3>1. CASE q = n
      BY <1>3, <1>6, <2>1, <3>1
    <3>2. CASE role[n] = "Candidate" /\ u = currentTerm[n] /\ VotedFor(q, n)
      <4>1. currentTerm[q] >= currentTerm[n] /\ Covers(L, A, log[n], q, currentTerm[n])
        BY <1>2, <3>2 DEF BallotInv
      <4> QED  BY <1>3, <3>2, <4>1
    <3>3. CASE q # n /\ q \in votesGranted'[n]
      <4>1. currentTerm'[n] = currentTerm[n] /\ VotedFor(q, n)
        BY <1>7, <3>3 DEF CandidateStep
      <4> QED  BY <1>3, <2>1, <3>2, <4>1
    <3>4. ASSUME NEW m \in net', m.type = "RequestVoteReply", m.granted,
                 m.from = q, m.to = n, m.term = u
          PROVE  currentTerm'[q] >= u /\ Covers(L, A, log[n], q, u)
      <4>1. CASE m \in net
        <5>1. u <= currentTerm[n]
          BY <1>2, <3>4, <4>1 DEF BallotInv
        <5>2. role[n] = "Candidate" /\ u = currentTerm[n]
          BY <1>3, <2>1, <5>1
        <5>3. VotedFor(q, n)
          BY <3>4, <4>1, <5>2 DEF VotedFor
        <5> QED  BY <3>2, <5>2, <5>3
      <4>2. CASE m \notin net
        <5>1. Granted(m)
          BY <1>2, <3>4, <4>2 DEF BallotStep
        <5>2. PICK r \in net :
                /\ r.type = "RequestVote" /\ r.from = n /\ r.term = u
                /\ currentTerm'[q] = u
                /\ logIsUpToDate(r.lastTerm, r.lastIndex, lastTerm(log[q]), Len(log[q]))
          BY <3>4, <5>1 DEF Granted
        <5>3. /\ u <= currentTerm[n]
              /\ role[n] = "Candidate" /\ u = currentTerm[n] =>
                    r.lastIndex = Len(log[n]) /\ r.lastTerm = lastTerm(log[n])
          BY <1>2, <5>2 DEF BallotInv
        <5>4. role[n] = "Candidate" /\ u = currentTerm[n]
          BY <1>3, <2>1, <5>3
        <5>5. logIsUpToDate(lastTerm(log[n]), Len(log[n]), lastTerm(log[q]), Len(log[q]))
          BY <5>2, <5>3, <5>4
        <5>6. ASSUME NEW t \in Nat, t < u, NEW i \in 1 .. A[q][t], Own(L, t, i)
              PROVE  Kept(L, A, log[n], t, i)
          <6>1. Kept(L, A, log[q], t, i)
            BY <1>2, <5>6 DEF HeldInv
          <6>2. CASE Agree(log[q], L[t], i)
            <7> DEFINE s == log[q]
                       lg == log[n]
            <7>1. /\ lg \in Seq(Entry) /\ s \in Seq(Entry) /\ Backed(lg, L) /\ Backed(s, L)
                  /\ Agree(s, L[t], i) /\ i \in Nat
                  /\ logIsUpToDate(lastTerm(lg), Len(lg), lastTerm(s), Len(s))
              BY <1>3, <1>4, <5>5, <6>2
            <7> HIDE DEF s, lg
            <7>2. Kept(L, A, lg, t, i)
              BY <1>2, <5>6, <7>1, UpToDate
            <7> QED  BY <7>2 DEF lg
          <6> QED  BY <6>1, <6>2 DEF Kept
        <5> QED  BY <1>3, <2>1, <5>2, <5>6 DEF Covers
      <4> QED  BY <4>1, <4>2
    <3>5. \/ role'[n] = "Candidate" /\ q \in votesGranted'[n]
          \/ \E m \in net' : /\ m.type = "RequestVoteReply" /\ m.granted
                             /\ m.from = q /\ m.to = n /\ m.term = u
      BY <1>7 DEF VotedFor
    <3> QED  BY <3>1, <3>3, <3>4, <3>5
  <2> HIDE DEF u
  <2>3. PICK w \in Nat, g \in Seq(Entry) : w = u /\ g = log[n]
    BY <2>1
  <2>4. Covers(L, A, g, q, w) /\ currentTerm'[q] >= w
    BY <2>2, <2>3
  <2>5. Covers(M, B, g, q, w)'
    BY <1>5, <2>4
  <2>6. w = currentTerm'[n] /\ g = log'[n]
    BY <2>1, <2>3 DEF u
  <2> QED  BY <2>4, <2>5, <2>6 DEF Covers, Kept
<1>8. ASSUME NEW m \in net', m.type = "RequestVote"
      PROVE  /\ m.term <= currentTerm'[m.from]
             /\ role'[m.from] = "Candidate" /\ m.term = currentTerm'[m.from] =>
                   /\ m.lastIndex = Len(log'[m.from])
                   /\ m.lastTerm = lastTerm(log'[m.from])
  <2> DEFINE n == m.from
  <2>1. n \in Node /\ m.term \in Nat
    BY <1>1, MessageFields
  <2>2. CASE m \in net
    <3>1. /\ m.term <= currentTerm[n]
          /\ role[n] = "Candidate" /\ m.term = currentTerm[n] =>
                m.lastIndex = Len(log[n]) /\ m.lastTerm = lastTerm(log[n])
      BY <1>2, <1>8, <2>2 DEF BallotInv
    <3>2. m.term <= currentTerm'[n]
      BY <1>3, <2>1, <3>1
    <3>3. ASSUME role'[n] = "Candidate", m.term = currentTerm'[n]
          PROVE  m.lastIndex = Len(log'[n]) /\ m.lastTerm = lastTerm(log'[n])
      <4>1. /\ log'[n] = log[n]
            /\ \/ role[n] = "Candidate" /\ currentTerm'[n] = currentTerm[n]
               \/ currentTerm'[n] > currentTerm[n]
        BY <1>2, <2>1, <3>3 DEF BallotStep
      <4>2. role[n] = "Candidate" /\ m.term = currentTerm[n]
        BY <1>3, <2>1, <3>1, <3>3, <4>1
      <4> QED  BY <3>1, <4>1, <4>2
    <3> QED  BY <3>2, <3>3
  <2>3. CASE m \notin net
    <3>1. /\ m.term = currentTerm'[n] /\ m.lastIndex = Len(log'[n])
          /\ m.lastTerm = lastTerm(log'[n])
      BY <1>2, <1>8, <2>3 DEF BallotStep
    <3> QED  BY <1>3, <2>1, <3>1
  <2> QED  BY <2>2, <2>3
<1>9. ASSUME NEW m \in net', m.type = "RequestVoteReply", m.granted
      PROVE  m.term <= currentTerm'[m.to]
  <2>1. m.to \in Node /\ m.term \in Nat
    BY <1>1, MessageFields
  <2>2. m.term <= currentTerm[m.to]
    <3>1. CASE m \in net
      BY <1>2, <1>9, <3>1 DEF BallotInv
    <3>2. CASE m \notin net
      <4>1. PICK r \in net : r.type = "RequestVote" /\ r.from = m.to /\ r.term = m.term
        BY <1>2, <1>9, <3>2 DEF BallotStep, Granted
      <4> QED  BY <1>2, <4>1 DEF BallotInv
    <3> QED  BY <3>1, <3>2
  <2> QED  BY <1>3, <2>1, <2>2
\* A majority is in a new leader's term, and its log covers what they held.
<1>10. ASSUME NEW n \in Node, NEW Q \in SUBSET Node, log'[n] = log[n],
              \A q \in Q : q = n \/ (/\ role[n] = "Candidate"
                                     /\ currentTerm'[n] = currentTerm[n]
                                     /\ VotedFor(q, n))
       PROVE  \A q \in Q : /\ currentTerm'[q] >= currentTerm'[n]
                           /\ Covers(L, A, log[n], q, currentTerm'[n])
  <2> SUFFICES ASSUME NEW q \in Q
               PROVE  /\ currentTerm'[q] >= currentTerm'[n]
                      /\ Covers(L, A, log[n], q, currentTerm'[n])
    OBVIOUS
  <2>1. CASE q = n
    BY <1>3, <1>6, <2>1
  <2>2. CASE /\ role[n] = "Candidate" /\ currentTerm'[n] = currentTerm[n]
             /\ VotedFor(q, n)
    <3>1. currentTerm[q] >= currentTerm[n] /\ Covers(L, A, log[n], q, currentTerm[n])
      BY <1>2, <2>2 DEF BallotInv
    <3> QED  BY <1>3, <2>2, <3>1
  <2> QED  BY <1>10, <2>1, <2>2
<1>11. ASSUME NEW a \in leaders'
       PROVE  \E Q \in SUBSET Node : IsMajority(Q) /\ \A q \in Q : currentTerm'[q] >= a[1]
  <2>1. CASE a \in leaders
    <3>1. PICK Q \in SUBSET Node : IsMajority(Q) /\ \A q \in Q : currentTerm[q] >= a[1]
      BY <1>2, <2>1 DEF BallotInv
    <3>2. a[1] \in Nat
      BY <1>1, <2>1
    <3>3. \A q \in Q : currentTerm'[q] >= a[1]
      BY <1>3, <3>1, <3>2
    <3> QED  BY <3>1, <3>3
  <2>2. CASE a \notin leaders
    <3>1. PICK n \in Node, Q \in SUBSET Node :
            /\ a = <<currentTerm'[n], n>> /\ log'[n] = log[n] /\ IsMajority(Q)
            /\ \A q \in Q : q = n \/ (/\ role[n] = "Candidate"
                                      /\ currentTerm'[n] = currentTerm[n]
                                      /\ VotedFor(q, n))
      BY <1>2, <2>2 DEF BallotStep, Won
    <3>2. \A q \in Q : currentTerm'[q] >= currentTerm'[n]
      BY <1>10, <3>1
    <3>3. a[1] = currentTerm'[n]
      BY <3>1
    <3> QED  BY <3>1, <3>2, <3>3
  <2> QED  BY <2>1, <2>2
<1>12. ASSUME NEW a \in leaders', NEW t \in Nat, t < a[1], NEW i \in 1 .. Len(M[t]),
              Own(M, t, i)
       PROVE  NotChoosable(B, t, i)' \/ Agree(M[a[1]], M[t], i)
  <2> DEFINE u == a[1]
  <2>1. u \in Nat /\ i \in Nat /\ i >= 1
    <3>1. M[t] \in Seq(Entry)
      BY <1>1
    <3>2. Len(M[t]) \in Nat
      BY <3>1, LenProperties
    <3>3. a \in Nat \X Node
      BY <1>1
    <3> QED  BY <3>2, <3>3
  <2>2. ASSUME NEW Q \in SUBSET Node, IsMajority(Q),
               \A q \in Q : currentTerm'[q] >= u /\ A[q][t] < i
        PROVE  NotChoosable(B, t, i)'
    <3>1. ASSUME NEW q \in Q PROVE currentTerm'[q] > t /\ B[q][t] < i
      <4>1. currentTerm'[q] > t
        BY <1>3, <1>12, <2>1, <2>2
      <4>2. B[q][t] = A[q][t]
        BY <1>3, <1>4, <4>1
      <4> QED  BY <2>2, <4>1, <4>2
    <3> QED  BY <2>2, <3>1 DEF NotChoosable
  <2>3. CASE a \in leaders /\ i <= Len(L[t])
    <3>1. i \in 1 .. Len(L[t])
      <4>1. L[t] \in Seq(Entry)
        BY <1>1
      <4>2. Len(L[t]) \in Nat
        BY <4>1, LenProperties
      <4> QED  BY <2>1, <2>3, <4>2
    <3>2. Own(L, t, i)
      BY <1>1, <1>2, <1>12, <3>1, KeptStays
    <3>3. Kept(L, A, L[u], t, i)
      BY <1>2, <1>12, <2>3, <3>1, <3>2 DEF BallotInv
    <3>4. CASE NotChoosable(A, t, i)
      BY <1>1, <1>2, <2>1, <3>4, NotChoosableStays
    <3>5. CASE Agree(L[u], L[t], i)
      <4>1. i \in 1 .. Len(L[u])
        <5>1. i <= Len(L[u]) /\ L[u] \in Seq(Entry)
          BY <1>1, <2>1, <3>5 DEF Agree
        <5>2. Len(L[u]) \in Nat
          BY <5>1, LenProperties
        <5> QED  BY <2>1, <5>1, <5>2
      <4>2. Agree(L[u], M[u], i) /\ Agree(L[t], M[t], i)
        BY <1>1, <2>1, <3>1, <4>1, ExtendsUpTo
      <4> QED  BY <2>1, <3>5, <4>2 DEF Agree
    <3> QED  BY <3>3, <3>4, <3>5 DEF Kept
  <2>4. CASE a \in leaders /\ ~(i <= Len(L[t]))
    <3>1. PICK Q \in SUBSET Node : IsMajority(Q) /\ \A q \in Q : currentTerm[q] >= u
      BY <1>2, <2>4 DEF BallotInv
    <3>2. ASSUME NEW q \in Q PROVE currentTerm'[q] >= u /\ A[q][t] < i
      BY <1>3, <1>4, <2>1, <2>4, <3>1
    <3> QED  BY <2>2, <3>1, <3>2
  <2>5. CASE a \notin leaders
    <3>1. PICK n \in Node, Q \in SUBSET Node :
            /\ a = <<currentTerm'[n], n>> /\ role'[n] = "Leader" /\ log'[n] = log[n]
            /\ IsMajority(Q)
            /\ \A q \in Q : q = n \/ (/\ role[n] = "Candidate"
                                      /\ currentTerm'[n] = currentTerm[n]
                                      /\ VotedFor(q, n))
      BY <1>2, <2>5 DEF BallotStep, Won
    <3>2. u = currentTerm'[n]
      BY <3>1
    <3>3. M[u] = log[n]
      BY <3>1, <3>2 DEF LogInv
    <3>4. \A q \in Q : currentTerm'[q] >= u /\ Covers(L, A, log[n], q, u)
      BY <1>10, <3>1, <3>2
    <3>5. CASE \A q \in Q : A[q][t] < i
      BY <2>2, <3>1, <3>4, <3>5
    <3>6. CASE \E q \in Q : ~(A[q][t] < i)
      <4>1. PICK q \in Q : ~(A[q][t] < i)
        BY <3>6
      <4>2. i \in 1 .. A[q][t] /\ i \in 1 .. Len(L[t])
        BY <1>4, <2>1, <4>1
      <4>3. Own(L, t, i)
        BY <1>1, <1>2, <1>12, <4>2, KeptStays
      <4>4. Kept(L, A, log[n], t, i)
        BY <1>12, <3>4, <4>2, <4>3 DEF Covers
      <4>5. CASE NotChoosable(A, t, i)
        BY <1>1, <1>2, <2>1, <4>5, NotChoosableStays
      <4>6. CASE Agree(log[n], L[t], i)
        <5>1. Agree(L[t], M[t], i)
          BY <1>1, <4>2, ExtendsUpTo
        <5> QED  BY <2>1, <3>3, <4>6, <5>1 DEF Agree
      <4> QED  BY <4>4, <4>5, <4>6 DEF Kept
    <3> QED  BY <3>5, <3>6
  <2> QED  BY <2>3, <2>4, <2>5
<1> QED  BY <1>7, <1>8, <1>9, <1>11, <1>12 DEF BallotInv, Kept
------------------------------------------------------------------------------
(* Every step is such a step. *)

\* A node acknowledges the first k entries of the leader of its term.
LEMMA Acknowledge ==
  ASSUME TypeOK, TypeOK', NEW L, LogInv(L), NEW M, LogInv(M)', Extends(L, M),
         NEW A, HeldInv(L, A), \A q \in Node : currentTerm'[q] >= currentTerm[q],
         NEW n \in Node, NEW k \in Nat, k >= A[n][currentTerm'[n]],
         k <= Len(M[currentTerm'[n]]),
         k > A[n][currentTerm'[n]] => Agree(log'[n], M[currentTerm'[n]], k)
  PROVE  \E B : /\ AckGrows(M, A, B)
                /\ B[n][currentTerm'[n]] = k
                /\ \A q \in Node, t \in Nat :
                      q # n \/ t # currentTerm'[n] => B[q][t] = A[q][t]
                /\ \A q \in Node : \A i \in 1 .. B[q][currentTerm'[q]] :
                      i > A[q][currentTerm'[q]] => Agree(log'[q], M[currentTerm'[q]], i)
<1>1. PICK u \in Nat : u = currentTerm'[n]
  BY DEF TypeOK
<1>2. PICK B : B = [q \in Node |-> [t \in Nat |-> IF q = n /\ t = u THEN k ELSE A[q][t]]]
  OBVIOUS
<1>3. A \in [Node -> [Nat -> Nat]]
  BY DEF HeldInv
<1>4. ASSUME NEW q \in Node, NEW t \in Nat
      PROVE  A[q][t] \in Nat /\ B[q][t] = (IF q = n /\ t = u THEN k ELSE A[q][t])
  BY <1>2, <1>3
<1>5. B \in [Node -> [Nat -> Nat]]
  <2>1. ASSUME NEW q \in Node
        PROVE  [t \in Nat |-> IF q = n /\ t = u THEN k ELSE A[q][t]] \in [Nat -> Nat]
    BY <1>4
  <2> QED  BY <1>2, <2>1
<1>6. ASSUME NEW q \in Node, NEW t \in Nat
      PROVE  /\ B[q][t] >= A[q][t]
             /\ B[q][t] # A[q][t] => t = currentTerm'[q]
             /\ B[q][t] <= Len(M[t])
  <2>1. CASE q = n /\ t = u
    <3>1. B[q][t] = k /\ k <= Len(M[u])
      BY <1>1, <1>4, <2>1
    <3> QED  BY <1>1, <1>4, <2>1, <3>1
  <2>2. CASE ~(q = n /\ t = u)
    <3>1. B[q][t] = A[q][t] /\ A[q][t] \in Nat /\ A[q][t] <= Len(L[t])
      BY <1>4, <2>2 DEF HeldInv
    <3>2. Len(L[t]) <= Len(M[t])
      BY DEF Extends, Agree
    <3>3. L[t] \in Seq(Entry) /\ M[t] \in Seq(Entry)
      BY DEF LogInv, LeaderLogs
    <3>4. Len(L[t]) \in Nat /\ Len(M[t]) \in Nat
      BY <3>3, LenProperties
    <3> QED  BY <3>1, <3>2, <3>4
  <2> QED  BY <2>1, <2>2
<1>7. ASSUME NEW q \in Node, NEW i \in 1 .. B[q][currentTerm'[q]],
             i > A[q][currentTerm'[q]]
      PROVE  Agree(log'[q], M[currentTerm'[q]], i)
  <2>1. currentTerm'[q] \in Nat
    BY DEF TypeOK
  <2>2. q = n
    <3> SUFFICES ASSUME q # n PROVE FALSE
      OBVIOUS
    <3>1. B[q][currentTerm'[q]] = A[q][currentTerm'[q]] /\ A[q][currentTerm'[q]] \in Nat
      BY <1>4, <2>1
    <3> QED  BY <1>7, <3>1
  <2>3. B[n][u] = k
    BY <1>4
  <2>4. i \in 1 .. k /\ i \in Nat /\ i <= k
    BY <1>1, <1>7, <2>2, <2>3
  <2>5. Agree(log'[n], M[u], k)
    <3>1. A[n][u] \in Nat /\ i > A[n][u]
      BY <1>1, <1>4, <1>7, <2>2
    <3>2. k > A[n][u]
      BY <2>4, <3>1
    <3> QED  BY <1>1, <3>2
  <2>6. /\ Len(log'[n]) \in Nat /\ Len(M[u]) \in Nat
    <3>1. log'[n] \in Seq(Entry) /\ M[u] \in Seq(Entry)
      BY DEF TypeOK, LogInv, LeaderLogs
    <3> QED  BY <3>1, LenProperties
  <2>7. Agree(log'[n], M[u], i)
    BY <2>4, <2>5, <2>6 DEF Agree
  <2> QED  BY <1>1, <2>2, <2>7
<1>8. AckGrows(M, A, B)
  BY <1>5, <1>6 DEF AckGrows
<1>9. B[n][currentTerm'[n]] = k
  BY <1>1, <1>4
<1>10. \A q \in Node, t \in Nat : q # n \/ t # currentTerm'[n] => B[q][t] = A[q][t]
  BY <1>1, <1>4
<1> QED  BY <1>7, <1>8, <1>9, <1>10

\* A handler that writes no log, elects nobody and acknowledges nothing.
LEMMA QuietAcks ==
  ASSUME TypeOK, TypeOK', NEW L, LogInv(L), NEW M, LogInv(M)', Extends(L, M),
         NEW A, HeldInv(L, A), \A q \in Node : currentTerm'[q] >= currentTerm[q],
         UNCHANGED log,
         \A n \in Node : role'[n] = "Leader" =>
             /\ role[n] = "Leader" /\ currentTerm'[n] = currentTerm[n]
             /\ \A p \in Node \ {n} : matchIndex'[n][p] <= A[p][currentTerm[n]],
         \A m \in net' : m.type = "AppendEntriesReply" /\ m.success => m \in net,
         BallotStep
  PROVE  AckStep(L, M, A, A)
<1>1. A \in [Node -> [Nat -> Nat]]
  BY DEF HeldInv
<1>2. ASSUME NEW q \in Node, NEW t \in Nat
      PROVE  A[q][t] \in Nat /\ A[q][t] >= A[q][t] /\ A[q][t] <= Len(M[t])
  <2>1. A[q][t] \in Nat
    BY <1>1
  <2>2. A[q][t] <= Len(L[t])
    BY DEF HeldInv
  <2>3. Len(L[t]) <= Len(M[t])
    BY DEF Extends, Agree
  <2>4. L[t] \in Seq(Entry) /\ M[t] \in Seq(Entry)
    BY DEF LogInv, LeaderLogs
  <2>5. Len(L[t]) \in Nat /\ Len(M[t]) \in Nat
    BY <2>4, LenProperties
  <2> QED  BY <2>1, <2>2, <2>3, <2>5
<1>3. AckGrows(M, A, A)
  BY <1>1, <1>2 DEF AckGrows
<1>4. ASSUME NEW q \in Node, NEW i \in 1 .. A[q][currentTerm'[q]], i > A[q][currentTerm'[q]]
      PROVE  FALSE
  <2>1. currentTerm'[q] \in Nat
    BY DEF TypeOK
  <2>2. A[q][currentTerm'[q]] \in Nat
    BY <1>2, <2>1
  <2> QED  BY <1>4, <2>2
<1>5. \A n \in Node : role'[n] = "Leader" =>
          /\ A[n][currentTerm'[n]] = Len(log'[n])
          /\ \A p \in Node \ {n} : matchIndex'[n][p] <= A[p][currentTerm'[n]]
  BY DEF HeldInv
<1>6. HeldStep(L, M, A, A)
  BY <1>4, <1>5 DEF HeldStep
<1> QED  BY <1>3, <1>6 DEF AckStep

\* A handler that starts no election, grants no vote and elects nobody.
LEMMA QuietBallots ==
  ASSUME UNCHANGED leaders,
         \A n \in Node : role'[n] = "Candidate" =>
             /\ log'[n] = log[n] /\ role[n] = "Candidate"
             /\ currentTerm'[n] = currentTerm[n],
         \A m \in net' : \/ m \in net
                         \/ m.type = "AppendEntries" \/ m.type = "AppendEntriesReply"
                         \/ m.type = "RequestVoteReply" /\ ~m.granted
  PROVE  BallotStep
  BY DEF BallotStep

\* An elected node: with the votes of a majority, it acknowledges its own log.
LEMMA WonAcks ==
  ASSUME RaftInv, RaftInv', ElectionSafety', NEW L, LogInv(L), NEW M, LogInv(M)',
         Extends(L, M), NEW A, AckInv(L, A),
         \A q \in Node : currentTerm'[q] >= currentTerm[q],
         NEW n \in Node, NEW term \in Nat, NEW believed, NEW msgs,
         <<term, n>> \notin leaders,
         currentTerm' = [currentTerm EXCEPT ![n] = term], UNCHANGED log,
         becomeLeader(n, term, believed, msgs),
         \A m \in msgs : m \in net \/ (/\ m.type = "RequestVote" /\ m.from = n
                                       /\ m.term = term
                                       /\ m.lastIndex = Len(log[n])
                                       /\ m.lastTerm = lastTerm(log[n])),
         NEW Q \in SUBSET Node, IsMajority(Q),
         \A q \in Q : q = n \/ (/\ role[n] = "Candidate" /\ currentTerm[n] = term
                                /\ VotedFor(q, n))
  PROVE  \E B : AckStep(L, M, A, B)
<1>1. /\ TypeOK /\ TypeOK' /\ HeldInv(L, A)
      /\ log \in [Node -> Seq(Entry)] /\ currentTerm \in [Node -> Nat]
      /\ role \in [Node -> {"Follower", "Candidate", "Leader"}]
      /\ matchIndex \in [Node -> [Node -> Nat]]
      /\ leaders' \subseteq Nat \X Node
  BY DEF RaftInv, TypeOK, AckInv
<1>2. /\ role' = [role EXCEPT ![n] = "Leader"]
      /\ matchIndex' = [matchIndex EXCEPT ![n] = [p \in Node |-> 0]]
      /\ leaders' = leaders \/ leaders' = leaders \cup {<<term, n>>}
      /\ \A m \in net' : m \in msgs \/ m.type = "AppendEntries"
  <2>1. ASSUME NEW m \in net' PROVE m \in msgs \/ m.type = "AppendEntries"
    BY AppendToAllFields DEF becomeLeader
  <2> QED  BY <2>1 DEF becomeLeader, setLeader
<1>3. currentTerm'[n] = term /\ role'[n] = "Leader" /\ <<term, n>> \in leaders'
  BY <1>1, <1>2 DEF RaftInv, RoleInv
<1>4. \A q \in Node \ {n} : /\ role'[q] = role[q] /\ currentTerm'[q] = currentTerm[q]
                            /\ matchIndex'[q] = matchIndex[q]
  BY <1>1, <1>2
<1>5. L[term] = <<>>
  <2>1. ASSUME NEW a \in leaders, a[1] = term PROVE FALSE
    <3>1. a \in leaders' /\ a \in Nat \X Node
      BY <1>1, <1>2
    <3>2. a[2] = n
      BY <1>3, <2>1, <3>1 DEF ElectionSafety
    <3> QED  BY <2>1, <3>1, <3>2
  <2> QED  BY <2>1 DEF LogInv
<1> DEFINE k == Len(log[n])
<1>6. k \in Nat /\ log[n] \in Seq(Entry) /\ k >= A[n][term] /\ A[n][term] \in Nat
  <2>1. log[n] \in Seq(Entry)
    BY <1>1
  <2>2. A[n][term] \in Nat /\ A[n][term] <= Len(L[term])
    <3>1. A \in [Node -> [Nat -> Nat]]
      BY <1>1 DEF HeldInv
    <3> QED  BY <1>1, <3>1 DEF HeldInv
  <2>3. Len(L[term]) = 0
    BY <1>5
  <2>4. k \in Nat
    BY <2>1, LenProperties
  <2> QED  BY <2>1, <2>2, <2>3, <2>4
<1>7. M[term] = log[n] /\ Agree(log'[n], M[term], k)
  <2>1. log'[n] = M[term]
    BY <1>3 DEF LogInv
  <2> QED  BY <1>6, <2>1 DEF Agree
<1>8. PICK B : /\ AckGrows(M, A, B)
               /\ B[n][term] = k
               /\ \A q \in Node, t \in Nat : q # n \/ t # term => B[q][t] = A[q][t]
               /\ \A q \in Node : \A i \in 1 .. B[q][currentTerm'[q]] :
                     i > A[q][currentTerm'[q]] => Agree(log'[q], M[currentTerm'[q]], i)
  <2>1. /\ k \in Nat /\ k >= A[n][currentTerm'[n]] /\ k <= Len(M[currentTerm'[n]])
        /\ Agree(log'[n], M[currentTerm'[n]], k)
    BY <1>3, <1>6, <1>7
  <2>2. TypeOK /\ TypeOK' /\ HeldInv(L, A)
    BY <1>1
  <2> HIDE DEF k
  <2>3. PICK B : /\ AckGrows(M, A, B)
                 /\ B[n][currentTerm'[n]] = k
                 /\ \A q \in Node, t \in Nat :
                       q # n \/ t # currentTerm'[n] => B[q][t] = A[q][t]
                 /\ \A q \in Node : \A i \in 1 .. B[q][currentTerm'[q]] :
                       i > A[q][currentTerm'[q]] => Agree(log'[q], M[currentTerm'[q]], i)
    BY <2>1, <2>2, Acknowledge
  <2> QED  BY <1>3, <2>3
<1>9. ASSUME NEW q \in Node, role'[q] = "Leader"
      PROVE  /\ B[q][currentTerm'[q]] = Len(log'[q])
             /\ \A p \in Node \ {q} : matchIndex'[q][p] <= B[p][currentTerm'[q]]
  <2>1. CASE q = n
    <3>1. \A p \in Node : matchIndex'[n][p] = 0
      BY <1>1, <1>2
    <3>2. \A p \in Node : B[p][term] \in Nat
      <4>1. B \in [Node -> [Nat -> Nat]]
        BY <1>8 DEF AckGrows
      <4> QED  BY <4>1
    <3> QED  BY <1>3, <1>8, <2>1, <3>1, <3>2
  <2>2. CASE q # n
    <3>1. role[q] = "Leader" /\ currentTerm'[q] = currentTerm[q] /\ currentTerm[q] \in Nat
      BY <1>1, <1>4, <1>9, <2>2
    <3>2. /\ A[q][currentTerm[q]] = Len(log[q])
          /\ \A p \in Node \ {q} : matchIndex[q][p] <= A[p][currentTerm[q]]
      BY <1>1, <3>1 DEF HeldInv
    <3>3. B[q][currentTerm[q]] = A[q][currentTerm[q]]
      BY <1>8, <2>2, <3>1
    <3>4. ASSUME NEW p \in Node \ {q} PROVE matchIndex'[q][p] <= B[p][currentTerm[q]]
      <4>1. B[p][currentTerm[q]] >= A[p][currentTerm[q]]
        BY <1>8, <3>1 DEF AckGrows
      <4>2. A[p][currentTerm[q]] \in Nat /\ B[p][currentTerm[q]] \in Nat
        <5>1. A \in [Node -> [Nat -> Nat]] /\ B \in [Node -> [Nat -> Nat]]
          BY <1>1, <1>8 DEF HeldInv, AckGrows
        <5> QED  BY <3>1, <5>1
      <4>3. matchIndex'[q][p] = matchIndex[q][p] /\ matchIndex[q][p] \in Nat
        BY SMTT(30), <1>1, <1>4, <2>2
      <4> QED  BY <3>2, <4>1, <4>2, <4>3
    <3> QED  BY <3>1, <3>2, <3>3, <3>4
  <2> QED  BY <2>1, <2>2
<1>10. HeldStep(L, M, A, B)
  <2>1. \A m \in net' : m.type = "AppendEntriesReply" => m \in net
    BY <1>2
  <2> QED  BY <1>8, <1>9, <2>1 DEF HeldStep
<1>11. Won(<<term, n>>)
  BY <1>3 DEF Won
<1>12. BallotStep
  <2>1. \A q \in Node : role'[q] = "Candidate" =>
            /\ log'[q] = log[q] /\ role[q] = "Candidate" /\ currentTerm'[q] = currentTerm[q]
    BY <1>3, <1>4
  <2>2. \A m \in net' : m.type = "RequestVote" =>
            m \in net \/ (/\ m.term = currentTerm'[m.from]
                          /\ m.lastIndex = Len(log'[m.from])
                          /\ m.lastTerm = lastTerm(log'[m.from]))
    BY <1>2, <1>3
  <2>3. \A m \in net' : m.type = "RequestVoteReply" => m \in net
    BY <1>2
  <2>4. leaders \subseteq leaders' /\ \A a \in leaders' : a \in leaders \/ Won(a)
    BY <1>2, <1>11
  <2> QED  BY <2>1, <2>2, <2>3, <2>4 DEF BallotStep
<1>13. AckStep(L, M, A, B)
  BY <1>8, <1>10, <1>12 DEF AckStep
<1> QED  BY <1>13

\* What a leader acknowledged itself and counts of the others.
LeaderAcks(q, B) ==
    /\ B[q][currentTerm[q]] = Len(log[q])
    /\ \A p \in Node \ {q} : matchIndex[q][p] <= B[p][currentTerm[q]]

\* A leader that neither took in anything nor changed term keeps its tallies.
LEMMA OtherLeader ==
  ASSUME TypeOK, NEW L, NEW M, NEW A, HeldInv(L, A), NEW B, AckGrows(M, A, B),
         NEW q \in Node, role[q] = "Leader",
         B[q][currentTerm[q]] = A[q][currentTerm[q]]
  PROVE  LeaderAcks(q, B)
<1> DEFINE u == currentTerm[q]
<1>1. u \in Nat /\ matchIndex \in [Node -> [Node -> Nat]]
  BY DEF TypeOK
<1>2. A[q][u] = Len(log[q]) /\ \A p \in Node \ {q} : matchIndex[q][p] <= A[p][u]
  BY DEF HeldInv
<1>3. ASSUME NEW p \in Node \ {q} PROVE matchIndex[q][p] <= B[p][u]
  <2>1. B[p][u] >= A[p][u]
    BY <1>1 DEF AckGrows
  <2>2. A[p][u] \in Nat /\ B[p][u] \in Nat
    <3>1. A \in [Node -> [Nat -> Nat]] /\ B \in [Node -> [Nat -> Nat]]
      BY DEF HeldInv, AckGrows
    <3> QED  BY <1>1, <3>1
  <2>3. matchIndex[q][p] \in Nat /\ matchIndex[q][p] <= A[p][u]
    BY <1>1, <1>2
  <2> QED  BY <2>1, <2>2, <2>3
<1> QED  BY <1>2, <1>3 DEF LeaderAcks

\* An AppendEntries: the receiver acknowledges what it now holds.
LEMMA AppendEntriesAcks ==
  ASSUME RaftInv, RaftInv', NEW L, LogInv(L), NEW M, LogInv(M)', Extends(L, M),
         NEW A, AckInv(L, A), \A q \in Node : currentTerm'[q] >= currentTerm[q],
         UNCHANGED leaders, NEW m \in net, onAppendEntries(m)
  PROVE  \E B : AckStep(L, M, A, B)
<1> DEFINE n  == m.to
           u  == m.term
           ok == PrevMatches(log[n], m.prev, m.prevTerm)
           match == m.prev + Len(m.entries)
           reply == AppendReply(m, m.term, IF ok THEN match ELSE 0, ok)
           k == IF ok /\ match > A[n][u] THEN match ELSE A[n][u]
<1>1. /\ TypeOK /\ TypeOK' /\ WrittenThrough /\ net \subseteq Message
      /\ HeldInv(L, A) /\ A \in [Node -> [Nat -> Nat]]
      /\ currentTerm \in [Node -> Nat]
      /\ role \in [Node -> {"Follower", "Candidate", "Leader"}]
  BY DEF RaftInv, TypeOK, AckInv, HeldInv
<1>2. /\ n \in Node /\ u \in Nat /\ log'[n] \in Seq(Entry)
      /\ \A q \in Node \ {n} : log'[q] = log[q]
      /\ ok => Agree(log'[n], L[u], match)
      /\ \A x \in Nat : Agree(log[n], L[u], x) => Agree(log'[n], L[u], x)
  BY TakenLog
<1>3. m.type = "AppendEntries" /\ m.prev \in Nat /\ m.entries \in Seq(Entry) /\ m.from # n
  BY <1>1, MessageFields DEF onAppendEntries, RaftInv, NetInv
<1>4. match \in Nat
  BY <1>3, LenProperties
<1>5. /\ currentTerm' = [currentTerm EXCEPT ![n] = u]
      /\ role' = [role EXCEPT ![n] = "Follower"]
      /\ UNCHANGED matchIndex
      /\ net' = (net \ {m}) \cup Sent({reply})
  <2>1. currentTerm' = [currentTerm EXCEPT ![n] = u]
    BY <1>1, TakenIn
  <2>2. role' = [role EXCEPT ![n] = "Follower"]
    BY DEF onAppendEntries, follow
  <2> QED  BY <2>1, <2>2 DEF onAppendEntries, leaderVars
<1>6. /\ reply.type = "AppendEntriesReply" /\ reply.success = ok /\ reply.term = u
      /\ reply.match = (IF ok THEN match ELSE 0) /\ reply.from = n
  BY DEF AppendReply
<1>7. /\ currentTerm'[n] = u /\ role'[n] = "Follower"
      /\ \A q \in Node \ {n} : role'[q] = role[q] /\ currentTerm'[q] = currentTerm[q]
  BY <1>1, <1>2, <1>5
<1> HIDE DEF ok, match, reply, n, u
<1>8. A[n][u] \in Nat /\ A[n][u] <= Len(L[u]) /\ (ok => match <= Len(L[u]))
  <2>1. A[n][u] \in Nat
    BY <1>1, <1>2
  <2> QED  BY <1>1, <1>2, <2>1 DEF HeldInv, Agree
<1>9. /\ k \in Nat /\ k >= A[n][u] /\ k <= Len(M[u])
      /\ k > A[n][u] => Agree(log'[n], M[u], k)
  <2>1. L[u] \in Seq(Entry) /\ M[u] \in Seq(Entry) /\ Agree(L[u], M[u], Len(L[u]))
    BY <1>2 DEF LogInv, LeaderLogs, Extends
  <2>2. Len(L[u]) \in Nat /\ Len(M[u]) \in Nat
    BY <2>1, LenProperties
  <2>3. Len(L[u]) <= Len(M[u])
    BY <2>1 DEF Agree
  <2>4. ASSUME ok PROVE Agree(log'[n], M[u], match)
    <3>1. Agree(log'[n], L[u], match)
      BY <1>2, <2>4
    <3> QED  BY <1>2, <1>4, <1>8, <2>1, <2>2, <2>4, <3>1, AgreeTrans
  <2>5. k \in Nat /\ k >= A[n][u] /\ k <= Len(L[u])
    BY <1>4, <1>8
  <2>6. k <= Len(M[u])
    BY <2>2, <2>3, <2>5
  <2>7. k > A[n][u] => ok /\ k = match
    BY <1>4, <1>8
  <2> QED  BY <2>4, <2>5, <2>6, <2>7
<1>10. ok => match <= k
  BY <1>4, <1>8
<1> HIDE DEF k
<1>11. PICK B : /\ AckGrows(M, A, B)
                /\ B[n][currentTerm'[n]] = k
                /\ \A q \in Node, t \in Nat :
                      q # n \/ t # currentTerm'[n] => B[q][t] = A[q][t]
                /\ \A q \in Node : \A i \in 1 .. B[q][currentTerm'[q]] :
                      i > A[q][currentTerm'[q]] => Agree(log'[q], M[currentTerm'[q]], i)
  <2>1. TypeOK /\ TypeOK' /\ HeldInv(L, A) /\ n \in Node
    BY <1>1, <1>2
  <2>2. /\ k \in Nat /\ k >= A[n][currentTerm'[n]] /\ k <= Len(M[currentTerm'[n]])
        /\ k > A[n][currentTerm'[n]] => Agree(log'[n], M[currentTerm'[n]], k)
    BY <1>7, <1>9
  <2> QED  BY <2>1, <2>2, Acknowledge
<1>12. ASSUME NEW q \in Node
       PROVE  \/ log'[q] = log[q]
              \/ /\ \E a \in leaders : a[1] = currentTerm'[q]
                 /\ \A x \in Nat : Agree(log[q], L[currentTerm'[q]], x) =>
                                   Agree(log'[q], L[currentTerm'[q]], x)
  <2>1. CASE q = n
    <3>1. <<u, m.from>> \in leaders
      BY <1>3 DEF RaftInv, NetInv, u
    <3>2. \E a \in leaders : a[1] = u
      BY <3>1
    <3> QED  BY <1>2, <1>7, <2>1, <3>2
  <2>2. CASE q # n
    BY <1>2, <2>2
  <2> QED  BY <2>1, <2>2
<1>13. ASSUME NEW r \in net', r.type = "AppendEntriesReply", r.success
       PROVE  r \in net \/ r.match <= B[r.from][r.term]
  <2>1. CASE r = reply
    <3>1. ok /\ r.match = match /\ r.from = n /\ r.term = u
      BY <1>6, <1>13, <2>1
    <3> QED  BY <1>7, <1>10, <1>11, <3>1
  <2> QED  BY <1>5, <2>1 DEF Sent
<1>14. ASSUME NEW q \in Node, role'[q] = "Leader"
       PROVE  /\ B[q][currentTerm'[q]] = Len(log'[q])
              /\ \A p \in Node \ {q} : matchIndex'[q][p] <= B[p][currentTerm'[q]]
  <2>1. q # n /\ role[q] = "Leader" /\ currentTerm'[q] = currentTerm[q] /\ log'[q] = log[q]
    BY <1>2, <1>7, <1>14
  <2>2. B[q][currentTerm[q]] = A[q][currentTerm[q]] /\ matchIndex'[q] = matchIndex[q]
    BY <1>1, <1>5, <1>11, <2>1
  <2>3. TypeOK /\ HeldInv(L, A) /\ AckGrows(M, A, B)
    BY <1>1, <1>11
  <2>4. role[q] = "Leader" /\ B[q][currentTerm[q]] = A[q][currentTerm[q]]
    BY <2>1, <2>2
  <2>5. LeaderAcks(q, B)
    BY <2>3, <2>4, OtherLeader
  <2> QED  BY <2>1, <2>2, <2>5 DEF LeaderAcks
<1>15. HeldStep(L, M, A, B)
  BY <1>11, <1>12, <1>13, <1>14 DEF HeldStep
<1>16. BallotStep
  <2>1. \A q \in Node : role'[q] = "Candidate" =>
            /\ log'[q] = log[q] /\ role[q] = "Candidate"
            /\ currentTerm'[q] = currentTerm[q]
    BY <1>2, <1>7
  <2>2. \A r \in net' : r \in net \/ r.type = "AppendEntriesReply"
    BY <1>5, <1>6 DEF Sent
  <2> QED  BY <2>1, <2>2, QuietBallots
<1>17. AckStep(L, M, A, B)
  BY <1>11, <1>15, <1>16 DEF AckStep
<1> QED  BY <1>17

\* A proposal: the leader acknowledges its own entry.
LEMMA ProposeAcks ==
  ASSUME RaftInv, RaftInv', NEW L, LogInv(L), NEW M, LogInv(M)', Extends(L, M),
         NEW A, AckInv(L, A), \A q \in Node : currentTerm'[q] >= currentTerm[q],
         NEW n \in Node, NEW c \in Command, handlePropose(n, c)
  PROVE  \E B : AckStep(L, M, A, B)
<1> DEFINE u   == currentTerm[n]
           e   == [term |-> u, cmd |-> c]
           old == log[n]
           lg  == Append(old, e)
<1>1. /\ TypeOK /\ TypeOK' /\ WrittenThrough /\ HeldInv(L, A)
      /\ A \in [Node -> [Nat -> Nat]]
      /\ log \in [Node -> Seq(Entry)] /\ old \in Seq(Entry)
      /\ currentTerm \in [Node -> Nat] /\ u \in Nat
      /\ matchIndex \in [Node -> [Node -> Nat]]
  BY DEF RaftInv, TypeOK, AckInv, HeldInv
<1>2. lg \in Seq(Entry) /\ log' = [log EXCEPT ![n] = lg]
  BY <1>1, Proposed
<1>3. /\ role[n] = "Leader"
      /\ UNCHANGED <<currentTerm, role, leaders, matchIndex>>
      /\ \A r \in net' : r \in net \/ r.type = "AppendEntries"
  <2>1. ASSUME NEW r \in net' PROVE r \in net \/ r.type = "AppendEntries"
    BY AppendToAllFields DEF handlePropose
  <2> QED  BY <2>1 DEF handlePropose, termVars, beliefVars, leaderVars
<1>4. e \in Entry
  BY <1>1 DEF Entry
<1>5. /\ Len(old) \in Nat /\ Len(lg) = Len(old) + 1
      /\ \A i \in 1 .. Len(old) : lg[i] = old[i]
  BY <1>1, <1>4, AppendProperties
<1>6. /\ log'[n] = lg /\ \A q \in Node \ {n} : log'[q] = log[q]
      /\ currentTerm'[n] = u /\ role'[n] = "Leader"
  BY <1>1, <1>2, <1>3
<1>7. old = L[u] /\ lg = M[u] /\ A[n][u] = Len(old)
  <2>1. old = L[u] /\ A[n][u] = Len(old)
    BY <1>1, <1>3 DEF LogInv, HeldInv
  <2>2. log'[n] = M[currentTerm'[n]]
    BY <1>6 DEF LogInv
  <2> QED  BY <1>6, <2>1, <2>2
<1> HIDE DEF e, lg, old, u
<1> DEFINE k == Len(lg)
<1>8. k \in Nat /\ k >= A[n][u] /\ k <= Len(M[u]) /\ Agree(log'[n], M[u], k)
  BY <1>5, <1>6, <1>7 DEF Agree
<1>9. PICK B : /\ AckGrows(M, A, B)
               /\ B[n][currentTerm'[n]] = k
               /\ \A q \in Node, t \in Nat :
                     q # n \/ t # currentTerm'[n] => B[q][t] = A[q][t]
               /\ \A q \in Node : \A i \in 1 .. B[q][currentTerm'[q]] :
                     i > A[q][currentTerm'[q]] => Agree(log'[q], M[currentTerm'[q]], i)
  <2>1. TypeOK /\ TypeOK' /\ HeldInv(L, A)
    BY <1>1
  <2>2. /\ k \in Nat /\ k >= A[n][currentTerm'[n]] /\ k <= Len(M[currentTerm'[n]])
        /\ Agree(log'[n], M[currentTerm'[n]], k)
    BY <1>6, <1>8
  <2> HIDE DEF k
  <2> QED  BY <2>1, <2>2, Acknowledge
<1>10. ASSUME NEW q \in Node
       PROVE  \/ log'[q] = log[q]
              \/ /\ \E a \in leaders : a[1] = currentTerm'[q]
                 /\ \A x \in Nat : Agree(log[q], L[currentTerm'[q]], x) =>
                                   Agree(log'[q], L[currentTerm'[q]], x)
  <2>1. CASE q = n
    <3>1. <<u, n>> \in leaders
      BY <1>3 DEF RaftInv, RoleInv, u
    <3>2. \E a \in leaders : a[1] = u
      BY <3>1
    <3>3. ASSUME NEW x \in Nat, Agree(old, L[u], x) PROVE Agree(lg, L[u], x)
      <4>1. x <= Len(old) /\ x <= Len(lg) /\ old = L[u]
        BY <1>5, <1>7, <3>3 DEF Agree
      <4>2. \A j \in 1 .. x : lg[j] = old[j]
        BY <1>5, <4>1
      <4> QED  BY <4>1, <4>2 DEF Agree
    <3> QED  BY <1>6, <2>1, <3>2, <3>3 DEF old
  <2>2. CASE q # n
    BY <1>6, <2>2
  <2> QED  BY <2>1, <2>2
<1>11. ASSUME NEW q \in Node, role'[q] = "Leader"
       PROVE  /\ B[q][currentTerm'[q]] = Len(log'[q])
              /\ \A p \in Node \ {q} : matchIndex'[q][p] <= B[p][currentTerm'[q]]
  <2>1. CASE q = n
    <3>1. ASSUME NEW p \in Node \ {n} PROVE matchIndex'[n][p] <= B[p][u]
      <4>1. matchIndex[n][p] <= A[p][u]
        BY <1>1, <1>3 DEF HeldInv, u
      <4>2. B[p][u] = A[p][u]
        BY <1>1, <1>9
      <4> QED  BY <1>3, <4>1, <4>2
    <3> QED  BY <1>6, <1>9, <2>1, <3>1
  <2>2. CASE q # n
    <3>1. /\ role[q] = "Leader" /\ currentTerm'[q] = currentTerm[q] /\ log'[q] = log[q]
          /\ B[q][currentTerm[q]] = A[q][currentTerm[q]] /\ matchIndex'[q] = matchIndex[q]
      BY <1>1, <1>3, <1>6, <1>9, <1>11, <2>2
    <3>2. TypeOK /\ HeldInv(L, A) /\ AckGrows(M, A, B)
      BY <1>1, <1>9
    <3>3. role[q] = "Leader" /\ B[q][currentTerm[q]] = A[q][currentTerm[q]]
      BY <3>1
    <3>4. LeaderAcks(q, B)
      BY <3>2, <3>3, OtherLeader
    <3> QED  BY <3>1, <3>4 DEF LeaderAcks
  <2> QED  BY <2>1, <2>2
<1>12. HeldStep(L, M, A, B)
  <2>1. \A r \in net' : r.type = "AppendEntriesReply" => r \in net
    BY <1>3
  <2> QED  BY <1>9, <1>10, <1>11, <2>1 DEF HeldStep
<1>13. BallotStep
  <2>1. \A q \in Node : role'[q] = "Candidate" =>
            /\ log'[q] = log[q] /\ role[q] = "Candidate"
            /\ currentTerm'[q] = currentTerm[q]
    BY <1>3, <1>6
  <2> QED  BY <1>3, <2>1, QuietBallots
<1>14. AckStep(L, M, A, B)
  BY <1>9, <1>12, <1>13 DEF AckStep
<1> QED  BY <1>14

\* Every step of the specification.
LEMMA NextAcks ==
  ASSUME RaftInv, RaftInv', ElectionSafety, ElectionSafety',
         NEW L, LogInv(L), NEW M, LogInv(M)', Extends(L, M), NEW A, AckInv(L, A),
         [Next]_vars
  PROVE  \E B : AckStep(L, M, A, B)
<1>1. /\ TypeOK /\ TypeOK' /\ WrittenThrough /\ HeldInv(L, A) /\ net \subseteq Message
      /\ log \in [Node -> Seq(Entry)] /\ currentTerm \in [Node -> Nat]
      /\ role \in [Node -> {"Follower", "Candidate", "Leader"}]
      /\ matchIndex \in [Node -> [Node -> Nat]]
  BY DEF RaftInv, TypeOK, AckInv
<1>2. \A q \in Node : currentTerm'[q] >= currentTerm[q]
  <2>1. TermStep /\ currentTerm' \in [Node -> Nat]
    BY ElectedStep DEF Elected, ElectionStep, RaftInv, TypeOK
  <2>2. \A q \in Node : currentTerm'[q] \in Nat /\ currentTerm[q] \in Nat
    BY <1>1, <2>1
  <2>3. \A q \in Node : currentTerm'[q] > currentTerm[q] \/ currentTerm'[q] = currentTerm[q]
    BY <2>1 DEF TermStep
  <2> QED  BY <2>2, <2>3
<1>3. ASSUME NEW n \in Node, role[n] = "Leader"
      PROVE  \A p \in Node \ {n} : matchIndex[n][p] <= A[p][currentTerm[n]]
  BY <1>1, <1>3 DEF HeldInv
\* A handler that acknowledges nothing, and that neither stands nor votes.
<1>4. ASSUME UNCHANGED <<log, leaders>>,
             \A q \in Node : role'[q] = "Leader" =>
                 /\ role[q] = "Leader" /\ currentTerm'[q] = currentTerm[q]
                 /\ matchIndex'[q] = matchIndex[q],
             \A q \in Node : role'[q] = "Candidate" =>
                 role[q] = "Candidate" /\ currentTerm'[q] = currentTerm[q],
             \A m \in net' : \/ m \in net \/ m.type = "AppendEntries"
                             \/ m.type = "AppendEntriesReply" /\ ~m.success
      PROVE  \E B : AckStep(L, M, A, B)
  <2>1. BallotStep
    BY <1>4, QuietBallots
  <2>2. \A q \in Node : role'[q] = "Leader" =>
            /\ role[q] = "Leader" /\ currentTerm'[q] = currentTerm[q]
            /\ \A p \in Node \ {q} : matchIndex'[q][p] <= A[p][currentTerm[q]]
    BY <1>3, <1>4
  <2>3. \A m \in net' : m.type = "AppendEntriesReply" /\ m.success => m \in net
    BY <1>4
  <2>4. AckStep(L, M, A, A)
    BY <1>1, <1>2, <1>4, <2>1, <2>2, <2>3, QuietAcks
  <2> QED  BY <2>4
<1>5. ASSUME NEW n \in Node, onElectionTimeout(n)
      PROVE  \E B : AckStep(L, M, A, B)
  <2> DEFINE term == currentTerm[n] + 1
             ask(p) == [type |-> "RequestVote", from |-> n, to |-> p, term |-> term,
                        lastIndex |-> Len(log[n]), lastTerm |-> lastTerm(log[n])]
             msgs == net \cup Sent({ask(p) : p \in Peers(n)})
  <2>1. /\ role[n] # "Leader" /\ UNCHANGED log
        /\ currentTerm' = [currentTerm EXCEPT ![n] = term]
        /\ \/ IsMajority({n}) /\ becomeLeader(n, term, None, msgs)
           \/ /\ role' = [role EXCEPT ![n] = "Candidate"]
              /\ net' = msgs
              /\ UNCHANGED <<matchIndex, leaders>>
    BY <1>5 DEF onElectionTimeout, persistTerm, leaderVars
  <2>2. \A m \in msgs : m \in net \/ (/\ m.type = "RequestVote" /\ m.from = n
                                      /\ m.term = term
                                      /\ m.lastIndex = Len(log[n])
                                      /\ m.lastTerm = lastTerm(log[n]))
    BY DEF Sent
  <2>3. term \in Nat /\ currentTerm[n] < term
    BY <1>1
  <2> HIDE DEF term, msgs
  <2>4. CASE IsMajority({n}) /\ becomeLeader(n, term, None, msgs)
    <3>1. <<term, n>> \notin leaders
      <4> SUFFICES ASSUME <<term, n>> \in leaders PROVE FALSE
        OBVIOUS
      <4>1. currentTerm[n] >= term
        BY DEF RaftInv, RoleInv
      <4> QED  BY <1>1, <2>3, <4>1
    <3>2. PICK Q \in SUBSET Node : IsMajority(Q) /\ \A q \in Q : q = n
      BY <2>4
    <3> QED  BY <1>2, <2>1, <2>2, <2>3, <2>4, <3>1, <3>2, WonAcks
  <2>5. CASE /\ role' = [role EXCEPT ![n] = "Candidate"]
             /\ net' = msgs
             /\ UNCHANGED <<matchIndex, leaders>>
    <3>1. /\ role'[n] = "Candidate" /\ currentTerm'[n] = term
          /\ \A q \in Node \ {n} : role'[q] = role[q] /\ currentTerm'[q] = currentTerm[q]
      BY <1>1, <2>1, <2>5
    <3>2. BallotStep
      BY <2>1, <2>2, <2>3, <2>5, <3>1 DEF BallotStep
    <3>3. \A q \in Node : role'[q] = "Leader" =>
              /\ role[q] = "Leader" /\ currentTerm'[q] = currentTerm[q]
              /\ \A p \in Node \ {q} : matchIndex'[q][p] <= A[p][currentTerm[q]]
      BY <1>3, <2>5, <3>1
    <3>4. \A m \in net' : m.type = "AppendEntriesReply" /\ m.success => m \in net
      BY <2>2, <2>5
    <3>5. AckStep(L, M, A, A)
      BY <1>1, <1>2, <2>1, <3>2, <3>3, <3>4, QuietAcks
    <3> QED  BY <3>5
  <2> QED  BY <2>1, <2>4, <2>5
<1>6. ASSUME NEW m \in net, onRequestVote(m)
      PROVE  \E B : AckStep(L, M, A, B)
  <2> DEFINE n     == m.to
             term  == Larger(m.term, currentTerm[n])
             grant == /\ m.term = term
                      /\ (IF m.term > currentTerm[n] THEN None ELSE votedFor[n])
                            \in {None, m.from}
                      /\ logIsUpToDate(m.lastTerm, m.lastIndex, lastTerm(log[n]), Len(log[n]))
             reply == VoteReply(m, term, grant)
  <2>1. n \in Node /\ m.term \in Nat /\ m.type = "RequestVote"
    BY <1>1, <1>6, MessageFields DEF onRequestVote
  <2>2. UNCHANGED <<log, leaders, matchIndex>>
    BY <1>6 DEF onRequestVote, leaderVars
  <2>3. net' = (net \ {m}) \cup Sent({reply})
    BY <1>6 DEF onRequestVote
  <2>4. /\ \A r \in net' : r \in net \/ r = reply
        /\ reply.type = "RequestVoteReply" /\ reply.from = n /\ reply.to = m.from
        /\ reply.term = term /\ reply.granted = grant
    BY <2>3 DEF Sent, VoteReply
  <2>5. /\ \A q \in Node : role'[q] # "Follower" =>
              role'[q] = role[q] /\ currentTerm'[q] = currentTerm[q]
        /\ currentTerm'[n] = term
    <3>1. CASE m.term > currentTerm[n]
      <4>1. role' = [role EXCEPT ![n] = "Follower"]
        BY <1>6, <3>1 DEF onRequestVote, follow
      <4>2. currentTerm' = [currentTerm EXCEPT ![n] = term]
        BY <1>6, <3>1 DEF onRequestVote, persistTerm
      <4> QED  BY <1>1, <2>1, <4>1, <4>2
    <3>2. CASE ~(m.term > currentTerm[n])
      <4>1. UNCHANGED role
        BY <1>6, <3>2 DEF onRequestVote
      <4>2. currentTerm' = currentTerm \/ currentTerm' = [currentTerm EXCEPT ![n] = term]
        BY <1>6, <3>2 DEF onRequestVote, persistTerm, termVars
      <4>3. term = currentTerm[n]
        BY <1>1, <2>1, <3>2 DEF Larger
      <4>4. currentTerm' = currentTerm
        BY <1>1, <2>1, <4>2, <4>3
      <4> QED  BY <4>1, <4>3, <4>4
    <3> QED  BY <3>1, <3>2
  <2>6. grant => /\ m.term = term
                 /\ logIsUpToDate(m.lastTerm, m.lastIndex, lastTerm(log[n]), Len(log[n]))
    OBVIOUS
  <2> HIDE DEF n, term, grant, reply
  <2>7. grant => Granted(reply)
    BY <2>1, <2>4, <2>5, <2>6 DEF Granted, n
  <2>8. BallotStep
    <3>1. \A r \in net' : r.type = "RequestVoteReply" /\ r.granted => r \in net \/ Granted(r)
      BY <2>4, <2>7
    <3>2. \A q \in Node : role'[q] = "Candidate" =>
              /\ log'[q] = log[q]
              /\ role[q] = "Candidate" /\ currentTerm'[q] = currentTerm[q]
      BY <2>2, <2>5
    <3>3. \A r \in net' : r.type = "RequestVote" => r \in net
      BY <2>4
    <3> QED  BY <2>2, <3>1, <3>2, <3>3 DEF BallotStep
  <2>9. \A q \in Node : role'[q] = "Leader" =>
            /\ role[q] = "Leader" /\ currentTerm'[q] = currentTerm[q]
            /\ \A p \in Node \ {q} : matchIndex'[q][p] <= A[p][currentTerm[q]]
    BY <1>3, <2>2, <2>5
  <2>10. \A r \in net' : r.type = "AppendEntriesReply" /\ r.success => r \in net
    BY <2>4
  <2>11. AckStep(L, M, A, A)
    BY <1>1, <1>2, <2>2, <2>8, <2>9, <2>10, QuietAcks
  <2> QED  BY <2>11
<1>7. ASSUME NEW n \in Node, NEW term \in Nat, stepDown(n, term), net' \subseteq net,
             UNCHANGED <<log, matchIndex>>
      PROVE  \E B : AckStep(L, M, A, B)
  <2>1. /\ role' = [role EXCEPT ![n] = "Follower"]
        /\ currentTerm' = [currentTerm EXCEPT ![n] = term]
        /\ UNCHANGED leaders
    BY <1>7 DEF stepDown, follow, persistTerm
  <2>2. \A q \in Node : role'[q] # "Follower" =>
            role'[q] = role[q] /\ currentTerm'[q] = currentTerm[q]
    BY <1>1, <2>1
  <2> QED  BY <1>4, <1>7, <2>1, <2>2
<1>8. ASSUME NEW m \in net, onRequestVoteReply(m)
      PROVE  \E B : AckStep(L, M, A, B)
  <2> DEFINE n == m.to
             votes == votesGranted[n] \cup {m.from}
             rest == net \ {m}
  <2>1. /\ n \in Node /\ m.from \in Node /\ m.term \in Nat /\ UNCHANGED log
        /\ m.type = "RequestVoteReply"
    BY <1>1, <1>8, MessageFields DEF onRequestVoteReply
  <2>2. CASE stepDown(n, m.term) /\ net' = rest /\ UNCHANGED leaderVars
    BY <1>7, <2>1, <2>2 DEF leaderVars
  <2>3. CASE /\ m.term = currentTerm[n] /\ role[n] = "Candidate" /\ m.granted
             /\ IsMajority(votes)
             /\ becomeLeader(n, m.term, leader[n], rest)
             /\ UNCHANGED termVars
    <3>1. <<m.term, n>> \notin leaders
      BY <2>3 DEF RaftInv, RoleInv
    <3>2. currentTerm' = [currentTerm EXCEPT ![n] = m.term]
      BY <1>1, <2>3 DEF termVars
    <3>3. \A r \in rest : r \in net
      OBVIOUS
    <3>4. votes \in SUBSET Node /\ \A q \in votes : VotedFor(q, n)
      <4>1. votesGranted[n] \in SUBSET Node
        BY <2>1 DEF RaftInv, TypeOK
      <4> QED  BY <2>1, <2>3, <4>1 DEF VotedFor
    <3>5. \A q \in votes : q = n \/ (/\ role[n] = "Candidate" /\ currentTerm[n] = m.term
                                     /\ VotedFor(q, n))
      BY <2>3, <3>4
    <3> HIDE DEF n, rest, votes
    <3> QED  BY <1>2, <2>1, <2>3, <3>1, <3>2, <3>3, <3>4, <3>5, WonAcks
  <2>4. CASE net' = rest /\ UNCHANGED <<termVars, role, beliefVars, leaderVars>>
    BY <1>4, <2>1, <2>4 DEF termVars, beliefVars, leaderVars
  <2> QED  BY <1>8, <2>2, <2>3, <2>4 DEF onRequestVoteReply
<1>9. ASSUME NEW m \in net, onStaleAppendEntries(m)
      PROVE  \E B : AckStep(L, M, A, B)
  <2>1. \A r \in net' : r \in net \/ (r.type = "AppendEntriesReply" /\ ~r.success)
    BY <1>9 DEF onStaleAppendEntries, Sent, AppendReply
  <2>2. UNCHANGED <<log, leaders, matchIndex, role, currentTerm>>
    BY <1>9 DEF onStaleAppendEntries, leaderVars, beliefVars, termVars
  <2> QED  BY <1>4, <2>1, <2>2
<1>10. ASSUME NEW m \in net, onAppendEntries(m)
       PROVE  \E B : AckStep(L, M, A, B)
  <2>1. leaders' = leaders
    BY <1>10, AppendEntriesStep
  <2> QED  BY <1>2, <1>10, <2>1, AppendEntriesAcks
<1>11. ASSUME NEW m \in net, onStaleAppendEntriesReply(m)
       PROVE  \E B : AckStep(L, M, A, B)
  <2>1. m.to \in Node /\ m.term \in Nat
    BY <1>1, MessageFields
  <2>2. UNCHANGED <<log, matchIndex>> /\ net' = net \ {m}
    BY <1>11 DEF onStaleAppendEntriesReply, leaderVars
  <2>3. CASE stepDown(m.to, m.term)
    BY <1>7, <2>1, <2>2, <2>3
  <2>4. CASE UNCHANGED <<termVars, disk, role, beliefVars, timerVars>>
    BY <1>4, <2>2, <2>4 DEF termVars, beliefVars
  <2> QED  BY <1>11, <2>3, <2>4 DEF onStaleAppendEntriesReply
<1>12. ASSUME NEW m \in net, onAppendEntriesReply(m)
       PROVE  \E B : AckStep(L, M, A, B)
  <2> DEFINE n == m.to
             p == m.from
             u == currentTerm[n]
  <2>1. /\ n \in Node /\ p \in Node /\ m.term \in Nat /\ m.match \in Nat
        /\ role[n] = "Leader" /\ m.term = u /\ m.type = "AppendEntriesReply"
        /\ UNCHANGED <<log, leaders, role, currentTerm>>
    BY <1>1, <1>12, MessageFields DEF onAppendEntriesReply, termVars, beliefVars
  <2>2. \A r \in net' : r \in net \/ r.type = "AppendEntries"
    <3> DEFINE again == AppendTo(n, p, currentTerm[n], log[n],
                                 BackedOff(nextIndex[n][p]), commitIndex[n])
    <3>1. net' = net \ {m} \/ net' = (net \ {m}) \cup Sent({again})
      BY <1>12 DEF onAppendEntriesReply
    <3>2. again.type = "AppendEntries"
      BY DEF AppendTo
    <3> HIDE DEF again
    <3> QED  BY <3>1, <3>2 DEF Sent
  <2>3. \/ matchIndex' = matchIndex
        \/ /\ m.success
           /\ matchIndex' = [matchIndex EXCEPT ![n] =
                  [matchIndex[n] EXCEPT ![p] = Larger(@, m.match)]]
    BY <1>12 DEF onAppendEntriesReply
  <2>4. m.success => m.match <= A[p][u]
    BY <1>1, <2>1 DEF HeldInv
  <2> HIDE DEF n, p, u
  <2>5. ASSUME NEW x \in Node \ {n} PROVE matchIndex'[n][x] <= A[x][u]
    <3>1. matchIndex[n][x] <= A[x][u]
      BY <1>3, <2>1 DEF u
    <3>2. \/ matchIndex'[n][x] = matchIndex[n][x]
          \/ m.success /\ x = p /\ matchIndex'[n][x] = m.match
      BY SMTT(30), <1>1, <2>1, <2>3 DEF Larger
    <3> QED  BY <2>4, <3>1, <3>2
  <2>6. \A q \in Node : role'[q] = "Leader" =>
            /\ role[q] = "Leader" /\ currentTerm'[q] = currentTerm[q]
            /\ \A x \in Node \ {q} : matchIndex'[q][x] <= A[x][currentTerm[q]]
    <3>1. \A q \in Node \ {n} : matchIndex'[q] = matchIndex[q]
      BY <1>1, <2>1, <2>3
    <3> QED  BY <1>3, <2>1, <2>5, <3>1 DEF u
  <2>7. BallotStep
    BY <2>1, <2>2, QuietBallots
  <2>8. \A r \in net' : r.type = "AppendEntriesReply" /\ r.success => r \in net
    BY <2>2
  <2>9. AckStep(L, M, A, A)
    BY <1>1, <1>2, <2>1, <2>6, <2>7, <2>8, QuietAcks
  <2> QED  BY <2>9
<1>13. ASSUME NEW n \in Node, onHeartbeat(n)
       PROVE  \E B : AckStep(L, M, A, B)
  <2>1. UNCHANGED <<log, leaders, matchIndex, role, currentTerm>>
    BY <1>13 DEF onHeartbeat, leaderVars, beliefVars, termVars
  <2>2. \A r \in net' : r \in net \/ r.type = "AppendEntries"
    BY <1>13, AppendToAllFields DEF onHeartbeat
  <2> QED  BY <1>4, <2>1, <2>2
<1>14. ASSUME NEW n \in Node, NEW h \in Node,
              \/ OnSessionConnected(n, h)
              \/ ensureConnections(n, h)
              \/ OnSessionDisconnected(n, h)
       PROVE  \E B : AckStep(L, M, A, B)
  <2>1. UNCHANGED <<log, leaders, matchIndex, role, currentTerm>> /\ net' \subseteq net
    BY <1>14 DEF OnSessionConnected, ensureConnections, OnSessionDisconnected,
                 leaderVars, beliefVars, termVars
  <2> QED  BY <1>4, <2>1
<1>15. ASSUME NEW n \in Node, NEW d, Rebooted(n, d), d.log = log[n]
       PROVE  \E B : AckStep(L, M, A, B)
  <2>1. /\ role' = [role EXCEPT ![n] = "Follower"]
        /\ currentTerm' = [currentTerm EXCEPT ![n] = d.term]
        /\ matchIndex' = [matchIndex EXCEPT ![n] = [p \in Node |-> 0]]
        /\ UNCHANGED leaders /\ net' \subseteq net
    BY <1>15 DEF Rebooted
  <2>2. log' = log
    BY <1>1, <1>15 DEF Rebooted
  <2>3. \A q \in Node : role'[q] # "Follower" =>
            /\ role'[q] = role[q] /\ currentTerm'[q] = currentTerm[q]
            /\ matchIndex'[q] = matchIndex[q]
    BY <1>1, <2>1
  <2> QED  BY <1>4, <2>1, <2>2, <2>3
<1>16. ASSUME NEW n \in Node, Restart(n)
       PROVE  \E B : AckStep(L, M, A, B)
  <2>1. disk[n] = [term |-> currentTerm[n], vote |-> votedFor[n], log |-> log[n]]
    BY <1>1 DEF WrittenThrough
  <2>2. disk[n].log = log[n]
    BY <2>1
  <2> QED  BY <1>15, <1>16, <2>2 DEF Restart
<1>17. ASSUME NEW m \in net, RestartInHandler(m)
       PROVE  \E B : AckStep(L, M, A, B)
  <2> DEFINE d == [disk[m.to] EXCEPT !.term = m.term, !.vote = None]
  <2>1. /\ m.to \in Node
        /\ d = [term |-> m.term, vote |-> None, log |-> disk[m.to].log]
    BY <1>1, TornType
  <2>2. Rebooted(m.to, d)
    BY <1>17 DEF RestartInHandler
  <2> HIDE DEF d
  <2>3. disk[m.to] = [term |-> currentTerm[m.to], vote |-> votedFor[m.to], log |-> log[m.to]]
    BY <1>1, <2>1 DEF WrittenThrough
  <2>4. d.log = disk[m.to].log /\ disk[m.to].log = log[m.to]
    BY <2>1, <2>3
  <2> QED  BY <1>15, <2>1, <2>2, <2>4
<1>18. CASE UNCHANGED vars
  <2>1. UNCHANGED <<log, leaders, matchIndex, role, currentTerm, net>>
    BY <1>18 DEF vars, leaderVars, beliefVars, termVars
  <2> QED  BY <1>4, <2>1
<1>19. ASSUME NEW n \in Node, NEW c \in Command, handlePropose(n, c)
       PROVE  \E B : AckStep(L, M, A, B)
  BY <1>2, <1>19, ProposeAcks
<1> QED  BY <1>5, <1>6, <1>8, <1>9, <1>10, <1>11, <1>12, <1>13, <1>14, <1>16, <1>17,
            <1>18, <1>19
         DEF Next, Handler, Deliver, Fault
------------------------------------------------------------------------------
(* What is committed: chosen entries of a leader's own term, and all before. *)

\* The first c entries of lg were chosen in term u or before.
Committed(L, A, u, c, lg) ==
    c = 0 \/ \E t, k \in Nat : /\ t <= u /\ k >= c
                               /\ Chosen(A, t, k) /\ Own(L, t, k)
                               /\ Agree(lg, L[t], c)

\* What the nodes applied, what they tell each other of it, and what they
\* reported is committed.
CommitInv(L, A) ==
    /\ \A n \in Node : /\ commitIndex[n] <= lastApplied[n]
                       /\ Committed(L, A, currentTerm[n], lastApplied[n], log[n])
    /\ \A m \in net : m.type = "AppendEntries" =>
          Committed(L, A, m.term, m.commit, L[m.term])
    /\ \A a \in applied : \E t, k \in Nat :
          /\ t <= a.term /\ k >= a.index
          /\ Chosen(A, t, k) /\ Own(L, t, k)
          /\ a.entry = L[t][a.index]

\* A leader of a later term holds what was chosen.
LEMMA LeaderHolds ==
  ASSUME TypeOK, NEW L, LogInv(L), NEW A, AckInv(L, A), NEW a \in leaders,
         NEW t \in Nat, NEW k \in Nat, t <= a[1], Chosen(A, t, k), Own(L, t, k)
  PROVE  Agree(L[a[1]], L[t], k)
<1>1. /\ a[1] \in Nat /\ A \in [Node -> [Nat -> Nat]] /\ currentTerm \in [Node -> Nat]
      /\ L[t] \in Seq(Entry)
  BY DEF TypeOK, LogInv, LeaderLogs, AckInv, HeldInv
<1>2. CASE t = a[1]
  <2>1. Len(L[t]) \in Nat /\ k <= Len(L[t])
    BY <1>1, LenProperties DEF Own
  <2> QED  BY <1>2, <2>1 DEF Agree
<1>3. CASE t < a[1]
  <2>1. ~NotChoosable(A, t, k)
    BY <1>1, ChosenStays
  <2>2. k \in 1 .. Len(L[t])
    BY DEF Own
  <2>3. Kept(L, A, L[a[1]], t, k)
    BY <1>3, <2>2 DEF AckInv, BallotInv
  <2> QED  BY <2>1, <2>3 DEF Kept
<1> QED  BY <1>1, <1>2, <1>3

\* What was chosen stays chosen.
LEMMA ChosenGrows ==
  ASSUME NEW L, LogInv(L), NEW M, LogInv(M)', Extends(L, M),
         NEW A, HeldInv(L, A), NEW B, AckGrows(M, A, B),
         NEW t \in Nat, NEW k \in Nat, Chosen(A, t, k), Own(L, t, k)
  PROVE  Chosen(B, t, k) /\ Own(M, t, k) /\ Agree(L[t], M[t], k) /\ k >= 1
<1>1. L[t] \in Seq(Entry) /\ M[t] \in Seq(Entry) /\ Agree(L[t], M[t], Len(L[t]))
  BY DEF Extends, LogInv, LeaderLogs
<1>2. Len(L[t]) \in Nat /\ Len(M[t]) \in Nat
  BY <1>1, LenProperties
<1>3. k \in 1 .. Len(L[t]) /\ L[t][k].term = t
  BY DEF Own
<1>4. Agree(L[t], M[t], k) /\ k \in 1 .. Len(M[t]) /\ L[t][k] = M[t][k]
  <2>1. k >= 1 /\ k <= Len(L[t]) /\ k \in 1 .. k
    BY <1>2, <1>3
  <2>2. Len(L[t]) <= Len(M[t]) /\ \A j \in 1 .. Len(L[t]) : L[t][j] = M[t][j]
    BY <1>1 DEF Agree
  <2>3. k <= Len(M[t]) /\ \A j \in 1 .. k : L[t][j] = M[t][j]
    BY <1>2, <2>1, <2>2
  <2> QED  BY <1>2, <2>1, <2>3 DEF Agree
<1>5. Own(M, t, k)
  BY <1>3, <1>4 DEF Own
<1>6. PICK Q \in SUBSET Node : IsMajority(Q) /\ \A q \in Q : A[q][t] >= k
  BY DEF Chosen
<1>7. ASSUME NEW q \in Q PROVE B[q][t] >= k
  <2>1. q \in Node
    BY <1>6
  <2>2. A[q][t] \in Nat /\ B[q][t] \in Nat
    <3>1. A \in [Node -> [Nat -> Nat]] /\ B \in [Node -> [Nat -> Nat]]
      BY DEF HeldInv, AckGrows
    <3> QED  BY <2>1, <3>1
  <2>3. B[q][t] >= A[q][t] /\ A[q][t] >= k
    BY <1>6, <2>1 DEF AckGrows
  <2> QED  BY <2>2, <2>3
<1>8. Chosen(B, t, k)
  BY <1>6, <1>7 DEF Chosen
<1> QED  BY <1>2, <1>3, <1>4, <1>5, <1>8

\* What was committed stays committed, of any log that agrees.
LEMMA CommittedGrows ==
  ASSUME NEW L, LogInv(L), NEW M, LogInv(M)', Extends(L, M),
         NEW A, HeldInv(L, A), NEW B, AckGrows(M, A, B),
         NEW u \in Nat, NEW w \in Nat, u <= w, NEW c \in Nat, NEW d \in Nat, d <= c,
         NEW lg \in Seq(Entry), NEW new \in Seq(Entry), Agree(new, lg, d),
         Committed(L, A, u, c, lg)
  PROVE  Committed(M, B, w, d, new)
<1>1. CASE c = 0
  <2>1. d = 0
    BY <1>1
  <2> QED  BY <2>1 DEF Committed
<1>2. CASE c # 0
  <2>1. PICK t, k \in Nat : /\ t <= u /\ k >= c
                            /\ Chosen(A, t, k) /\ Own(L, t, k)
                            /\ Agree(lg, L[t], c)
    BY <1>2 DEF Committed
  <2>2. Chosen(B, t, k) /\ Own(M, t, k) /\ Agree(L[t], M[t], k)
    BY <2>1, ChosenGrows
  <2>3. L[t] \in Seq(Entry) /\ M[t] \in Seq(Entry)
    BY DEF LogInv, LeaderLogs
  <2>4. Agree(lg, M[t], c)
    BY <2>1, <2>2, <2>3, AgreeTrans
  <2>5. Agree(new, M[t], d)
    BY <2>3, <2>4, AgreeTrans
  <2>6. t <= w /\ k >= d
    BY <2>1
  <2> QED  BY <2>1, <2>2, <2>5, <2>6 DEF Committed
<1> QED  BY <1>1, <1>2

\* No step takes back what a node applied.
LEMMA AppliedStays ==
  ASSUME TypeOK, TypeOK', NEW L, LogInv(L), NEW M, NEW A, AckInv(L, A),
         NEW B, AckStep(L, M, A, B), NEW n \in Node, NEW c \in Nat,
         Committed(L, A, currentTerm[n], c, log[n])
  PROVE  Agree(log'[n], log[n], c)
<1> DEFINE lg  == log[n]
           new == log'[n]
           u   == currentTerm'[n]
<1>1. /\ lg \in Seq(Entry) /\ new \in Seq(Entry) /\ u \in Nat /\ currentTerm[n] \in Nat
      /\ L[u] \in Seq(Entry)
  BY DEF TypeOK, LogInv, LeaderLogs
<1>2. Len(lg) \in Nat /\ Len(new) \in Nat
  BY <1>1, LenProperties
<1>3. currentTerm[n] <= u
  <2>1. u >= currentTerm[n]
    BY DEF AckStep, AckGrows
  <2> QED  BY <1>1, <2>1
<1>4. CASE c = 0
  BY <1>2, <1>4 DEF Agree
<1>5. CASE c # 0
  <2>1. PICK t, k \in Nat : /\ t <= currentTerm[n] /\ k >= c
                            /\ Chosen(A, t, k) /\ Own(L, t, k)
                            /\ Agree(lg, L[t], c)
    BY <1>5 DEF Committed
  <2>2. CASE new = lg
    <3>1. c <= Len(lg)
      BY <2>1 DEF Agree
    <3> QED  BY <2>2, <3>1 DEF Agree
  <2>3. CASE new # lg
    <3>1. PICK a \in leaders :
              /\ a[1] = u
              /\ \A x \in Nat : Agree(lg, L[u], x) => Agree(new, L[u], x)
      BY <2>3 DEF AckStep, HeldStep
    <3>2. t <= u
      BY <1>1, <1>3, <2>1
    <3>3. Agree(L[u], L[t], k)
      BY <2>1, <3>1, <3>2, LeaderHolds
    <3> HIDE DEF lg, new, u
    <3>4. L[t] \in Seq(Entry)
      BY DEF LogInv, LeaderLogs
    <3>5. Agree(L[t], L[u], k)
      BY <1>1, <3>3, <3>4, AgreeTrans
    <3>6. Agree(lg, L[u], c)
      BY <1>1, <2>1, <3>4, <3>5, AgreeTrans
    <3>7. Agree(new, L[u], c) /\ Agree(L[u], lg, c)
      BY <1>1, <3>1, <3>6, AgreeTrans
    <3>8. Agree(new, lg, c)
      BY <1>1, <3>7, AgreeTrans
    <3> QED  BY <3>8 DEF lg, new
  <2> QED  BY <2>2, <2>3
<1> QED  BY <1>4, <1>5
------------------------------------------------------------------------------
(* What a step may do to what is committed. *)

\* Only a leader announces its commit index, in its term.
Announced ==
    \A m \in net' : m.type = "AppendEntries" =>
        m \in net \/ (/\ role'[m.from] = "Leader"
                      /\ m.term = currentTerm'[m.from]
                      /\ m.commit <= commitIndex'[m.from])

\* At most one node applies entries of its log, in their order, and reports
\* each; or it starts again from the first.
Reported ==
    \E n \in Node :
        /\ \A q \in Node \ {n} : lastApplied'[q] = lastApplied[q]
        /\ \/ lastApplied'[n] = 0 /\ UNCHANGED applied
           \/ /\ lastApplied'[n] >= lastApplied[n]
              /\ applied' = applied \cup
                     {[index |-> i, entry |-> log'[n][i], term |-> currentTerm'[n]] :
                          i \in lastApplied[n] + 1 .. lastApplied'[n]}

\* A node applies what is committed, and reports what it applies.
CommitStep(M, B) ==
    /\ \A n \in Node :
          /\ commitIndex'[n] <= lastApplied'[n]
          /\ \/ lastApplied'[n] <= lastApplied[n]
             \/ Committed(M, B, currentTerm'[n], lastApplied'[n], log'[n])
    /\ Reported
    /\ Announced

\* A prefix of what is committed is committed.
LEMMA CommittedShorter ==
  ASSUME NEW L, \A t \in Nat : L[t] \in Seq(Entry), NEW A,
         NEW u \in Nat, NEW c \in Nat, NEW d \in Nat, d <= c,
         NEW lg \in Seq(Entry), Committed(L, A, u, c, lg)
  PROVE  Committed(L, A, u, d, lg)
<1>1. CASE c = 0
  <2>1. d = 0
    BY <1>1
  <2> QED  BY <2>1 DEF Committed
<1>2. CASE c # 0
  <2>1. PICK t, k \in Nat : /\ t <= u /\ k >= c
                            /\ Chosen(A, t, k) /\ Own(L, t, k)
                            /\ Agree(lg, L[t], c)
    BY <1>2 DEF Committed
  <2>2. L[t] \in Seq(Entry)
    OBVIOUS
  <2>3. Agree(lg, L[t], d)
    BY <2>1, <2>2, AgreeTrans
  <2>4. k >= d
    BY <2>1
  <2> QED  BY <2>1, <2>3, <2>4 DEF Committed
<1> QED  BY <1>1, <1>2

\* Such a step keeps the commitment invariant.
LEMMA CommitKept ==
  ASSUME TypeOK, TypeOK', NEW L, LogInv(L), NEW M, LogInv(M)', Extends(L, M),
         NEW A, AckInv(L, A), NEW B, AckStep(L, M, A, B),
         CommitInv(L, A), CommitStep(M, B)
  PROVE  CommitInv(M, B)'
<1>1. AckGrows(M, A, B) /\ HeldInv(L, A)
  BY DEF AckStep, AckInv
<1>2. ASSUME NEW n \in Node
      PROVE  /\ log[n] \in Seq(Entry) /\ log'[n] \in Seq(Entry)
             /\ currentTerm[n] \in Nat /\ currentTerm'[n] \in Nat
             /\ lastApplied[n] \in Nat /\ lastApplied'[n] \in Nat
             /\ commitIndex'[n] \in Nat
             /\ currentTerm[n] <= currentTerm'[n]
  <2>1. currentTerm'[n] >= currentTerm[n]
    BY <1>1 DEF AckGrows
  <2>2. /\ log[n] \in Seq(Entry) /\ log'[n] \in Seq(Entry)
        /\ currentTerm[n] \in Nat /\ currentTerm'[n] \in Nat
        /\ lastApplied[n] \in Nat /\ lastApplied'[n] \in Nat
        /\ commitIndex'[n] \in Nat
    BY DEF TypeOK
  <2> QED  BY <2>1, <2>2
<1>3. \A t \in Nat : L[t] \in Seq(Entry) /\ M[t] \in Seq(Entry)
  BY DEF LogInv, LeaderLogs
<1>4. ASSUME NEW n \in Node
      PROVE  Committed(M, B, currentTerm'[n], lastApplied'[n], log'[n])
  <2> DEFINE c == lastApplied[n]
             d == lastApplied'[n]
             lg == log[n]
             new == log'[n]
             u == currentTerm[n]
             w == currentTerm'[n]
  <2>1. CASE d <= c
    <3>1. Committed(L, A, u, c, lg)
      BY DEF CommitInv
    <3>2. Agree(new, lg, c)
      <4>1. c \in Nat
        BY <1>2
      <4> HIDE DEF c
      <4> QED  BY <3>1, <4>1, AppliedStays
    <3>3. /\ c \in Nat /\ d \in Nat /\ u \in Nat /\ w \in Nat /\ u <= w
          /\ lg \in Seq(Entry) /\ new \in Seq(Entry)
      BY <1>2
    <3> HIDE DEF c, d, lg, new, u, w
    <3>4. Agree(new, lg, d)
      BY <2>1, <3>2, <3>3, AgreeTrans
    <3>5. Committed(M, B, w, d, new)
      BY <1>1, <2>1, <3>1, <3>3, <3>4, CommittedGrows
    <3> QED  BY <3>5 DEF d, new, w
  <2>2. CASE ~(d <= c)
    BY <2>2 DEF CommitStep
  <2> QED  BY <2>1, <2>2
<1>5. ASSUME NEW m \in net', m.type = "AppendEntries"
      PROVE  Committed(M, B, m.term, m.commit, M[m.term])
  <2> DEFINE u == m.term
             c == m.commit
  <2>1. u \in Nat /\ c \in Nat /\ m.from \in Node
    <3>1. m \in Message
      BY DEF TypeOK
    <3> QED  BY <1>5, <3>1, MessageFields
  <2>2. L[u] \in Seq(Entry) /\ M[u] \in Seq(Entry)
    BY <1>3, <2>1
  <2>3. CASE m \in net
    <3>1. Committed(L, A, u, c, L[u])
      BY <1>5, <2>3 DEF CommitInv
    <3> HIDE DEF u, c
    <3>2. CASE c = 0
      <4>1. Committed(M, B, u, c, M[u])
        BY <3>2 DEF Committed
      <4> QED  BY <4>1 DEF u, c
    <3>3. CASE c # 0
      <4>1. c <= Len(L[u]) /\ Len(L[u]) \in Nat
        <5>1. c <= Len(L[u])
          BY <3>1, <3>3 DEF Committed, Agree
        <5> QED  BY <2>2, <5>1, LenProperties
      <4>2. Agree(L[u], M[u], Len(L[u]))
        BY <2>1 DEF Extends
      <4>3. Agree(M[u], L[u], Len(L[u]))
        BY <2>2, <4>1, <4>2, AgreeTrans
      <4>4. Agree(M[u], L[u], c)
        BY <2>1, <2>2, <4>1, <4>3, AgreeTrans
      <4>5. u <= u /\ c <= c
        BY <2>1
      <4>6. Committed(M, B, u, c, M[u])
        BY <1>1, <2>1, <2>2, <3>1, <4>4, <4>5, CommittedGrows
      <4> QED  BY <4>6 DEF u, c
    <3> QED  BY <3>2, <3>3
  <2>4. CASE m \notin net
    <3> DEFINE p == m.from
               d == lastApplied'[p]
    <3>1. role'[p] = "Leader" /\ u = currentTerm'[p] /\ c <= commitIndex'[p]
      BY <1>5, <2>4 DEF CommitStep, Announced
    <3>2. commitIndex'[p] <= d
      BY <2>1 DEF CommitStep
    <3>3. log'[p] = M[currentTerm'[p]]
      BY <2>1, <3>1 DEF LogInv
    <3>4. commitIndex'[p] \in Nat /\ d \in Nat
      BY <1>2, <2>1
    <3>5. c <= d
      BY <2>1, <3>1, <3>2, <3>4
    <3>6. Committed(M, B, u, d, M[u])
      BY <1>4, <2>1, <3>1, <3>3
    <3> HIDE DEF u, c, d
    <3>7. Committed(M, B, u, c, M[u])
      <4>1. \A t \in Nat : M[t] \in Seq(Entry)
        BY <1>3
      <4> QED  BY <2>1, <2>2, <3>4, <3>5, <3>6, <4>1, CommittedShorter
    <3> QED  BY <3>7 DEF u, c
  <2> QED  BY <2>3, <2>4
<1>6. ASSUME NEW a \in applied'
      PROVE  \E t, k \in Nat : /\ t <= a.term /\ k >= a.index
                               /\ Chosen(B, t, k) /\ Own(M, t, k)
                               /\ a.entry = M[t][a.index]
  <2>1. a.index \in Nat /\ a.index >= 1 /\ a.term \in Nat
    BY DEF TypeOK
  <2>2. CASE a \in applied
    <3>1. PICK t, k \in Nat : /\ t <= a.term /\ k >= a.index
                              /\ Chosen(A, t, k) /\ Own(L, t, k)
                              /\ a.entry = L[t][a.index]
      BY <2>2 DEF CommitInv
    <3>2. Chosen(B, t, k) /\ Own(M, t, k) /\ Agree(L[t], M[t], k)
      BY <1>1, <3>1, ChosenGrows
    <3>3. a.index \in 1 .. k
      BY <2>1, <3>1
    <3>4. a.entry = M[t][a.index]
      BY <3>1, <3>2, <3>3 DEF Agree
    <3> QED  BY <3>1, <3>2, <3>4
  <2>3. CASE a \notin applied
    <3>1. PICK n \in Node : /\ a.term = currentTerm'[n]
                            /\ a.index <= lastApplied'[n]
                            /\ a.entry = log'[n][a.index]
      <4>1. PICK n \in Node :
                a \in {[index |-> i, entry |-> log'[n][i], term |-> currentTerm'[n]] :
                          i \in lastApplied[n] + 1 .. lastApplied'[n]}
        BY <2>3 DEF CommitStep, Reported
      <4>2. PICK i \in lastApplied[n] + 1 .. lastApplied'[n] :
                a = [index |-> i, entry |-> log'[n][i], term |-> currentTerm'[n]]
        BY <4>1
      <4>3. lastApplied[n] \in Nat /\ lastApplied'[n] \in Nat
        BY <1>2
      <4>4. i <= lastApplied'[n]
        BY <4>3
      <4>5. a.index = i /\ a.entry = log'[n][i] /\ a.term = currentTerm'[n]
        BY <4>2
      <4> QED  BY <4>4, <4>5
    <3> DEFINE c == lastApplied'[n]
               lg == log'[n]
    <3>2. c \in Nat /\ c >= a.index /\ c # 0
      BY <1>2, <2>1, <3>1
    <3>3. Committed(M, B, a.term, c, lg)
      BY <1>4, <3>1
    <3>4. a.entry = lg[a.index]
      BY <3>1
    <3> HIDE DEF c, lg
    <3>5. PICK t, k \in Nat : /\ t <= a.term /\ k >= c
                              /\ Chosen(B, t, k) /\ Own(M, t, k)
                              /\ Agree(lg, M[t], c)
      BY <3>2, <3>3 DEF Committed
    <3>6. k >= a.index /\ a.index \in 1 .. c
      BY <2>1, <3>2, <3>5
    <3>7. a.entry = M[t][a.index]
      BY <3>4, <3>5, <3>6 DEF Agree
    <3> QED  BY <3>5, <3>6, <3>7
  <2> QED  BY <2>2, <2>3
<1>7. \A n \in Node : commitIndex'[n] <= lastApplied'[n]
  BY DEF CommitStep
<1> QED  BY <1>4, <1>5, <1>6, <1>7 DEF CommitInv

\* A step that commits nothing.
LEMMA QuietCommits ==
  ASSUME NEW L, NEW A, CommitInv(L, A), NEW M, NEW B, TypeOK,
         UNCHANGED commitVars, Announced
  PROVE  CommitStep(M, B)
<1>1. UNCHANGED <<commitIndex, lastApplied, applied>>
  BY DEF commitVars
<1>2. \A n \in Node : commitIndex[n] <= lastApplied[n] /\ lastApplied[n] \in Nat
  BY DEF CommitInv, TypeOK
<1>3. \A n \in Node : /\ lastApplied[n] <= lastApplied[n] /\ lastApplied[n] >= lastApplied[n]
                       /\ lastApplied[n] + 1 .. lastApplied[n] = {}
  BY <1>2
<1>4. Reported
  <2>1. PICK n \in Node : TRUE
    BY NodeAssumption
  <2>2. {[index |-> i, entry |-> log'[n][i], term |-> currentTerm'[n]] :
            i \in lastApplied[n] + 1 .. lastApplied'[n]} = {}
    BY <1>1, <1>3
  <2> QED  BY <1>1, <1>3, <2>2 DEF Reported
<1> QED  BY <1>1, <1>2, <1>3, <1>4 DEF CommitStep

\* applyCommitted, with a commit index that is committed.
LEMMA AppliedCommits ==
  ASSUME NEW L, NEW A, CommitInv(L, A), NEW M, NEW B, TypeOK, TypeOK',
         NEW n \in Node, NEW commit \in Nat,
         applyCommitted(n, commit, log'[n], currentTerm'[n]),
         Committed(M, B, currentTerm'[n], commit, log'[n]), Announced
  PROVE  CommitStep(M, B)
<1>1. /\ commitIndex \in [Node -> Nat] /\ lastApplied \in [Node -> Nat]
      /\ \A q \in Node : commitIndex[q] <= lastApplied[q]
  BY DEF TypeOK, CommitInv
<1>2. /\ commitIndex' = [commitIndex EXCEPT ![n] = commit]
      /\ lastApplied' = [lastApplied EXCEPT ![n] = Larger(lastApplied[n], commit)]
      /\ applied' = applied \cup
             {[index |-> i, entry |-> log'[n][i], term |-> currentTerm'[n]] :
                  i \in lastApplied[n] + 1 .. commit}
  BY <1>1 DEF applyCommitted
<1>3. /\ commitIndex'[n] = commit
      /\ commit <= lastApplied'[n]
      /\ lastApplied'[n] = commit \/ lastApplied'[n] <= lastApplied[n]
      /\ \A q \in Node \ {n} : /\ commitIndex'[q] = commitIndex[q]
                               /\ lastApplied'[q] = lastApplied[q]
  BY <1>1, <1>2 DEF Larger
<1>4. ASSUME NEW q \in Node
      PROVE  /\ commitIndex'[q] <= lastApplied'[q]
             /\ \/ lastApplied'[q] <= lastApplied[q]
                \/ Committed(M, B, currentTerm'[q], lastApplied'[q], log'[q])
  <2>1. CASE q = n
    BY <1>3, <2>1
  <2>2. CASE q # n
    BY <1>1, <1>3, <2>2
  <2> QED  BY <2>1, <2>2
<1>5. Reported
  <2> DEFINE new(k) == {[index |-> i, entry |-> log'[n][i], term |-> currentTerm'[n]] :
                            i \in lastApplied[n] + 1 .. k}
  <2>1. lastApplied'[n] = Larger(lastApplied[n], commit) /\ lastApplied[n] \in Nat
    BY <1>1, <1>2
  <2>2. lastApplied[n] + 1 .. commit = lastApplied[n] + 1 .. lastApplied'[n]
    BY <2>1 DEF Larger
  <2>3. new(commit) = new(lastApplied'[n])
    BY <2>2
  <2>4. applied' = applied \cup new(commit)
    BY <1>2
  <2> HIDE DEF new
  <2>5. lastApplied'[n] >= lastApplied[n] /\ applied' = applied \cup new(lastApplied'[n])
    BY <2>1, <2>3, <2>4 DEF Larger
  <2> QED  BY <1>3, <2>5 DEF Reported, new
<1> QED  BY <1>4, <1>5 DEF CommitStep

\* maybeAdvanceCommit: what a majority of the leader's tally holds was
\* acknowledged by that majority.
LEMMA LeaderCommits ==
  ASSUME TypeOK, TypeOK', NEW M, LogInv(M)', NEW B, HeldInv(M, B)',
         NEW n \in Node, role'[n] = "Leader", currentTerm'[n] = currentTerm[n],
         NEW k, k = Commit(n, log'[n], matchIndex'[n]), k > commitIndex[n]
  PROVE  k \in Nat /\ Committed(M, B, currentTerm'[n], k, log'[n])
<1> DEFINE u  == currentTerm'[n]
           lg == log'[n]
           matches == [matchIndex'[n] EXCEPT ![n] = Len(lg)]
<1>1. /\ u \in Nat /\ lg \in Seq(Entry) /\ commitIndex[n] \in Nat
      /\ matchIndex'[n] \in [Node -> Nat] /\ u = currentTerm[n]
  BY DEF TypeOK
<1>2. Len(lg) \in Nat
  BY <1>1, LenProperties
<1>3. k = advanceCommitIndex(commitIndex[n], u, lg, matches)
  BY <1>1 DEF Commit
<1>4. /\ matches[n] = Len(lg)
      /\ \A q \in Node \ {n} : matches[q] = matchIndex'[n][q]
  BY <1>1
<1>5. lg = M[u] /\ B[n][u] = Len(lg) /\ \A q \in Node \ {n} : matchIndex'[n][q] <= B[q][u]
  BY DEF LogInv, HeldInv
<1>6. \A q \in Node : B[q][u] \in Nat
  <2>1. B \in [Node -> [Nat -> Nat]]
    BY DEF HeldInv
  <2> QED  BY <1>1, <2>1
<1>7. \A q \in Node \ {n} : matchIndex'[n][q] \in Nat
  BY <1>1
<1> HIDE DEF u, lg, matches
<1>8. /\ k \in Nat /\ k \in 1 .. Len(lg) /\ lg[k].term = u
      /\ MajorityHolds(matches, k)
  <2> DEFINE c == commitIndex[n]
             j == advanceCommitIndex(c, u, lg, matches)
  <2>1. c \in Nat /\ u \in Nat /\ lg \in Seq(Entry)
    BY <1>1
  <2>2. k = j /\ k > c
    BY <1>3
  <2> HIDE DEF c
  <2>3. /\ j \in Nat
        /\ j > c => /\ j \in 1 .. Len(lg)
                    /\ lg[j].term = u
                    /\ MajorityHolds(matches, j)
    BY <2>1, AdvanceResult
  <2> HIDE DEF j
  <2> QED  BY <2>2, <2>3
<1>9. ASSUME NEW q \in Node, matches[q] >= k PROVE B[q][u] >= k
  <2>1. q \in Node /\ matches[q] >= k
    BY <1>9
  <2>2. CASE q = n
    BY <1>4, <1>5, <2>1, <2>2
  <2>3. CASE q # n
    <3>1. matches[q] = matchIndex'[n][q] /\ matchIndex'[n][q] <= B[q][u]
      BY <1>4, <1>5, <2>1, <2>3
    <3>2. B[q][u] \in Nat /\ matchIndex'[n][q] \in Nat
      BY <1>6, <1>7, <2>1, <2>3
    <3> QED  BY <1>8, <2>1, <3>1, <3>2
  <2> QED  BY <2>2, <2>3
<1>10. Chosen(B, u, k)
  <2>1. PICK Q \in SUBSET Node : IsMajority(Q) /\ \A q \in Q : matches[q] >= k
    BY <1>8 DEF MajorityHolds
  <2> QED  BY <1>9, <2>1 DEF Chosen
<1>11. Own(M, u, k)
  BY <1>5, <1>8 DEF Own
<1>12. Agree(lg, M[u], k)
  BY <1>2, <1>5, <1>8 DEF Agree
<1>13. u <= u /\ k >= k
  BY <1>1, <1>8
<1>14. Committed(M, B, u, k, lg)
  BY <1>1, <1>8, <1>10, <1>11, <1>12, <1>13 DEF Committed
<1> QED  BY <1>8, <1>14 DEF u, lg

\* The commit index that broadcastAppendEntries sends.
LEMMA AppendToAllCommit ==
  ASSUME NEW n, NEW term, NEW lg, NEW next, NEW commit,
         NEW m \in Sent(AppendToAll(n, term, lg, next, commit))
  PROVE  m.commit = commit
  BY DEF Sent, AppendToAll, AppendTo

\* A follower that is told of a commit index applies what it shares with the
\* leader of the term.
LEMMA AppendEntriesCommits ==
  ASSUME RaftInv, RaftInv', NEW L, LogInv(L), NEW M, LogInv(M)', Extends(L, M),
         NEW A, HeldInv(L, A), NEW B, AckGrows(M, A, B), CommitInv(L, A),
         NEW m \in net, onAppendEntries(m)
  PROVE  CommitStep(M, B)
<1> DEFINE n  == m.to
           u  == m.term
           ll == L[u]
           ok == PrevMatches(log[n], m.prev, m.prevTerm)
           match == m.prev + Len(m.entries)
           new == appendConflictFree(log[n], m.prev, m.entries)
           c == Smaller(m.commit, match)
           reply == AppendReply(m, m.term, IF ok THEN match ELSE 0, ok)
<1>1. TypeOK /\ TypeOK' /\ WrittenThrough /\ m \in Message /\ m.type = "AppendEntries"
  BY DEF RaftInv, TypeOK, onAppendEntries
<1>2. /\ n \in Node /\ u \in Nat /\ m.prev \in Nat /\ m.commit \in Nat
      /\ m.entries \in Seq(Entry)
  BY <1>1, MessageFields
<1>3. match \in Nat /\ c \in Nat /\ c <= match /\ c <= m.commit
  <2>1. Len(m.entries) \in Nat
    BY <1>2, LenProperties
  <2> QED  BY <1>2, <2>1 DEF Smaller
<1>4. Announced
  <2>1. reply.type = "AppendEntriesReply"
    BY DEF AppendReply
  <2>2. net' = (net \ {m}) \cup Sent({reply})
    BY DEF onAppendEntries
  <2> HIDE DEF reply
  <2>3. \A r \in net' : r \in net \/ r.type = "AppendEntriesReply"
    BY <2>1, <2>2 DEF Sent
  <2> QED  BY <2>3 DEF Announced
<1>5. /\ currentTerm' = [currentTerm EXCEPT ![n] = u]
      /\ ok => log' = [log EXCEPT ![n] = new]
  BY <1>1, TakenIn
<1>6. currentTerm'[n] = u /\ (ok => log'[n] = new)
  <2>1. log \in [Node -> Seq(Entry)] /\ currentTerm \in [Node -> Nat]
    BY <1>1 DEF TypeOK
  <2> QED  BY <1>2, <1>5, <2>1
<1>7. \/ UNCHANGED commitVars
      \/ ok /\ applyCommitted(n, c, new, u)
  BY DEF onAppendEntries
<1>8. CASE UNCHANGED commitVars
  BY <1>1, <1>4, <1>8, QuietCommits
<1>9. CASE ok /\ applyCommitted(n, c, new, u)
  <2>1. Agree(log'[n], ll, match) /\ log'[n] \in Seq(Entry)
    BY <1>9, TakenLog
  <2>2. Committed(L, A, u, m.commit, ll)
    BY <1>1 DEF CommitInv
  <2>3. ll \in Seq(Entry)
    BY <1>2 DEF LogInv, LeaderLogs
  <2> HIDE DEF ll, match, c, u
  <2>4. Agree(log'[n], ll, c)
    BY <1>3, <2>1, <2>3, AgreeTrans
  <2>5. u <= u
    BY <1>2
  <2>6. Committed(M, B, u, c, log'[n])
    BY <1>2, <1>3, <2>1, <2>2, <2>3, <2>4, <2>5, CommittedGrows
  <2>7. applyCommitted(n, c, log'[n], currentTerm'[n])
    BY <1>6, <1>9
  <2>8. Committed(M, B, currentTerm'[n], c, log'[n])
    BY <1>6, <2>6
  <2> HIDE DEF n
  <2> QED  BY <1>1, <1>2, <1>3, <1>4, <2>7, <2>8, AppliedCommits
<1> QED  BY <1>7, <1>8, <1>9

\* A leader that counts an acknowledgement, or that proposes.
LEMMA LeaderApplies ==
  ASSUME TypeOK, TypeOK', NEW M, LogInv(M)', NEW B, HeldInv(M, B)',
         NEW L, NEW A, CommitInv(L, A),
         NEW n \in Node, role'[n] = "Leader", currentTerm'[n] = currentTerm[n],
         NEW k, k = Commit(n, log'[n], matchIndex'[n]),
         IF k > commitIndex[n]
         THEN applyCommitted(n, k, log'[n], currentTerm[n])
         ELSE UNCHANGED commitVars,
         Announced
  PROVE  CommitStep(M, B)
<1>1. CASE k > commitIndex[n]
  <2>1. k \in Nat /\ Committed(M, B, currentTerm'[n], k, log'[n])
    BY <1>1, LeaderCommits
  <2>2. applyCommitted(n, k, log'[n], currentTerm'[n])
    BY <1>1
  <2> QED  BY <2>1, <2>2, AppliedCommits
<1>2. CASE ~(k > commitIndex[n])
  BY <1>2, QuietCommits
<1> QED  BY <1>1, <1>2

\* Every step of the specification.
LEMMA NextCommits ==
  ASSUME RaftInv, RaftInv', ElectionSafety,
         NEW L, LogInv(L), NEW M, LogInv(M)', Extends(L, M),
         NEW A, AckInv(L, A), NEW B, AckGrows(M, A, B), HeldInv(M, B)',
         CommitInv(L, A), [Next]_vars
  PROVE  CommitStep(M, B)
<1>1. /\ TypeOK /\ TypeOK' /\ WrittenThrough /\ HeldInv(L, A) /\ net \subseteq Message
      /\ currentTerm \in [Node -> Nat]
      /\ role \in [Node -> {"Follower", "Candidate", "Leader"}]
      /\ commitIndex \in [Node -> Nat] /\ lastApplied \in [Node -> Nat]
      /\ matchIndex \in [Node -> [Node -> Nat]] /\ log \in [Node -> Seq(Entry)]
  BY DEF RaftInv, TypeOK, AckInv
\* A handler that commits nothing, and that announces nothing.
<1>2. ASSUME UNCHANGED commitVars,
             \A m \in net' : m \in net \/ m.type # "AppendEntries"
      PROVE  CommitStep(M, B)
  <2>1. Announced
    BY <1>2 DEF Announced
  <2> QED  BY <1>1, <1>2, <2>1, QuietCommits
\* A leader's broadcast of a commit index it has.
<1>3. ASSUME NEW n \in Node, role'[n] = "Leader", NEW term, term = currentTerm'[n],
             NEW lg, NEW next, NEW c \in Nat, c <= commitIndex'[n],
             \A m \in net' : \/ m \in net
                             \/ m.type # "AppendEntries"
                             \/ m \in Sent(AppendToAll(n, term, lg, next, c))
      PROVE  Announced
  <2>1. \A m \in Sent(AppendToAll(n, term, lg, next, c)) :
            m.from = n /\ m.term = term /\ m.commit = c
    BY AppendToAllFields, AppendToAllCommit
  <2> QED  BY <1>3, <2>1 DEF Announced
<1>4. ASSUME NEW n \in Node, NEW term, NEW believed, NEW msgs,
             term = currentTerm'[n], UNCHANGED commitVars,
             becomeLeader(n, term, believed, msgs),
             \A m \in msgs : m \in net \/ m.type # "AppendEntries"
      PROVE  CommitStep(M, B)
  <2> DEFINE next == [p \in Node |-> Len(log[n]) + 1]
             c == commitIndex[n]
  <2>1. net' = msgs \cup Sent(AppendToAll(n, term, log[n], next, c))
    BY <1>4 DEF becomeLeader
  <2>2. role'[n] = "Leader"
    BY <1>1, <1>4 DEF becomeLeader
  <2>3. c \in Nat /\ c <= commitIndex'[n]
    BY <1>1, <1>4 DEF commitVars
  <2> HIDE DEF next, c
  <2>4. Announced
    BY <1>3, <1>4, <2>1, <2>2, <2>3
  <2> QED  BY <1>1, <1>4, <2>4, QuietCommits
<1>5. ASSUME NEW n \in Node, onElectionTimeout(n)
      PROVE  CommitStep(M, B)
  <2> DEFINE term == currentTerm[n] + 1
             ask(p) == [type |-> "RequestVote", from |-> n, to |-> p, term |-> term,
                        lastIndex |-> Len(log[n]), lastTerm |-> lastTerm(log[n])]
             msgs == net \cup Sent({ask(p) : p \in Peers(n)})
  <2>1. /\ UNCHANGED commitVars
        /\ currentTerm' = [currentTerm EXCEPT ![n] = term]
        /\ becomeLeader(n, term, None, msgs) \/ net' = msgs
    BY <1>5 DEF onElectionTimeout, persistTerm
  <2>2. \A m \in msgs : m \in net \/ m.type # "AppendEntries"
    BY DEF Sent
  <2>3. term = currentTerm'[n]
    BY <1>1, <2>1
  <2> HIDE DEF term, msgs
  <2> QED  BY <1>2, <1>4, <2>1, <2>2, <2>3
<1>6. ASSUME NEW m \in net, onRequestVote(m)
      PROVE  CommitStep(M, B)
  <2>1. UNCHANGED commitVars
    BY <1>6 DEF onRequestVote
  <2>2. \A r \in net' : r \in net \/ r.type # "AppendEntries"
    <3>1. PICK term, grant : net' = (net \ {m}) \cup Sent({VoteReply(m, term, grant)})
      BY <1>6 DEF onRequestVote
    <3>2. VoteReply(m, term, grant).type = "RequestVoteReply"
      BY DEF VoteReply
    <3> QED  BY <3>1, <3>2 DEF Sent
  <2> QED  BY <1>2, <2>1, <2>2
<1>7. ASSUME NEW m \in net, onRequestVoteReply(m)
      PROVE  CommitStep(M, B)
  <2> DEFINE n == m.to
             rest == net \ {m}
  <2>1. n \in Node /\ UNCHANGED commitVars
    BY <1>1, <1>7, MessageFields DEF onRequestVoteReply
  <2>2. \/ net' = rest
        \/ /\ becomeLeader(n, m.term, leader[n], rest)
           /\ m.term = currentTerm[n] /\ UNCHANGED termVars
    BY <1>7 DEF onRequestVoteReply
  <2>3. \A r \in rest : r \in net
    OBVIOUS
  <2> HIDE DEF n, rest
  <2> QED  BY <1>2, <1>4, <2>1, <2>2, <2>3 DEF termVars
<1>8. ASSUME NEW m \in net, onStaleAppendEntries(m)
      PROVE  CommitStep(M, B)
  <2>1. \A r \in net' : r \in net \/ r.type # "AppendEntries"
    BY <1>8 DEF onStaleAppendEntries, Sent, AppendReply
  <2> QED  BY <1>2, <1>8, <2>1 DEF onStaleAppendEntries
<1>9. ASSUME NEW m \in net, onAppendEntries(m)
      PROVE  CommitStep(M, B)
  BY <1>1, <1>9, AppendEntriesCommits
<1>10. ASSUME NEW m \in net, onStaleAppendEntriesReply(m)
       PROVE  CommitStep(M, B)
  BY <1>2, <1>10 DEF onStaleAppendEntriesReply
<1>11. ASSUME NEW m \in net, onAppendEntriesReply(m)
       PROVE  CommitStep(M, B)
  <2> DEFINE n == m.to
             p == m.from
             match == [matchIndex[n] EXCEPT ![p] = Larger(@, m.match)]
             k == Commit(n, log[n], match)
             c == commitIndex[n]
             again == AppendTo(n, p, currentTerm[n], log[n], BackedOff(nextIndex[n][p]), c)
  <2>1. /\ n \in Node /\ p \in Node /\ role[n] = "Leader"
        /\ UNCHANGED <<log, role, currentTerm>>
    BY <1>1, <1>11, MessageFields DEF onAppendEntriesReply, termVars
  <2>2. CASE /\ matchIndex' = [matchIndex EXCEPT ![n] = match]
             /\ IF k > commitIndex[n]
                THEN applyCommitted(n, k, log[n], currentTerm[n])
                ELSE UNCHANGED commitVars
             /\ net' = net \ {m}
    <3>1. matchIndex'[n] = match
      BY <1>1, <2>1, <2>2
    <3>2. Announced
      BY <2>2 DEF Announced
    <3> HIDE DEF match, n
    <3>3. k = Commit(n, log'[n], matchIndex'[n])
      BY <2>1, <3>1
    <3> HIDE DEF k
    <3>4. IF k > commitIndex[n]
          THEN applyCommitted(n, k, log'[n], currentTerm[n])
          ELSE UNCHANGED commitVars
      BY <2>1, <2>2
    <3>5. role'[n] = "Leader" /\ currentTerm'[n] = currentTerm[n]
      BY <2>1
    <3> QED  BY <1>1, <2>1, <3>2, <3>3, <3>4, <3>5, LeaderApplies
  <2>3. CASE net' = (net \ {m}) \cup Sent({again}) /\ UNCHANGED commitVars
    <3>1. /\ again.from = n /\ again.term = currentTerm[n] /\ again.commit = c
          /\ c \in Nat /\ c <= commitIndex'[n]
      BY <1>1, <2>1, <2>3 DEF AppendTo, commitVars
    <3> HIDE DEF again, n, c
    <3>2. Announced
      BY <2>1, <2>3, <3>1 DEF Announced, Sent
    <3> QED  BY <1>1, <2>3, <3>2, QuietCommits
  <2> QED  BY <1>11, <2>2, <2>3 DEF onAppendEntriesReply
<1>12. ASSUME NEW n \in Node, onHeartbeat(n)
       PROVE  CommitStep(M, B)
  <2> DEFINE next == nextIndex[n]
             c == commitIndex[n]
             lg == log[n]
  <2>1. role[n] = "Leader" /\ UNCHANGED <<role, currentTerm, commitIndex, commitVars>>
    BY <1>12 DEF onHeartbeat, RaftInv, TimersFollowRole, termVars, commitVars
  <2>2. net' = net \cup Sent(AppendToAll(n, currentTerm[n], lg, next, c))
    BY <1>12 DEF onHeartbeat
  <2>3. c \in Nat /\ c <= commitIndex'[n]
    BY <1>1, <2>1
  <2> HIDE DEF next, c, lg
  <2>4. Announced
    BY <1>3, <2>1, <2>2, <2>3
  <2> QED  BY <1>1, <2>1, <2>4, QuietCommits
<1>13. ASSUME NEW n \in Node, NEW x \in Command, handlePropose(n, x)
       PROVE  CommitStep(M, B)
  <2> DEFINE lg == Append(log[n], [term |-> currentTerm[n], cmd |-> x])
             next == nextIndex[n]
             k == Commit(n, lg, matchIndex[n])
  <2>1. /\ role[n] = "Leader" /\ UNCHANGED <<role, currentTerm, matchIndex>>
        /\ IF k > commitIndex[n]
           THEN applyCommitted(n, k, lg, currentTerm[n])
           ELSE UNCHANGED commitVars
        /\ net' = net \cup Sent(AppendToAll(n, currentTerm[n], lg, next, k))
    BY <1>13 DEF handlePropose, termVars, leaderVars
  <2>2. lg \in Seq(Entry) /\ log' = [log EXCEPT ![n] = lg]
    BY <1>1, <1>13, Proposed
  <2>3. log'[n] = lg
    BY <1>1, <2>2
  <2> HIDE DEF lg, next
  <2>4. k \in Nat
    BY <1>1, <2>2, CommitType
  <2>5. k = Commit(n, log'[n], matchIndex'[n])
    BY <2>1, <2>3
  <2> HIDE DEF k
  <2>6. k <= commitIndex'[n]
    <3>1. commitIndex[n] \in Nat
      BY <1>1
    <3>2. CASE k > commitIndex[n]
      <4>1. commitIndex' = [commitIndex EXCEPT ![n] = k]
        BY <2>1, <3>2 DEF applyCommitted
      <4> QED  BY <1>1, <2>4, <4>1
    <3>3. CASE ~(k > commitIndex[n])
      <4>1. commitIndex' = commitIndex
        BY <2>1, <3>3 DEF commitVars
      <4> QED  BY <2>4, <3>1, <3>3, <4>1
    <3> QED  BY <3>2, <3>3
  <2>7. Announced
    BY <1>3, <2>1, <2>4, <2>6
  <2>8. IF k > commitIndex[n]
        THEN applyCommitted(n, k, log'[n], currentTerm[n])
        ELSE UNCHANGED commitVars
    BY <2>1, <2>3
  <2>9. role'[n] = "Leader" /\ currentTerm'[n] = currentTerm[n]
    BY <2>1
  <2> QED  BY <1>1, <2>5, <2>7, <2>8, <2>9, LeaderApplies
<1>14. ASSUME NEW n \in Node, NEW h \in Node,
              \/ OnSessionConnected(n, h)
              \/ ensureConnections(n, h)
              \/ OnSessionDisconnected(n, h)
       PROVE  CommitStep(M, B)
  <2>1. UNCHANGED commitVars /\ net' \subseteq net
    BY <1>14 DEF OnSessionConnected, ensureConnections, OnSessionDisconnected
  <2> QED  BY <1>2, <2>1
<1>15. ASSUME NEW n \in Node, NEW d, Rebooted(n, d)
       PROVE  CommitStep(M, B)
  <2>1. /\ commitIndex' = [commitIndex EXCEPT ![n] = 0]
        /\ lastApplied' = [lastApplied EXCEPT ![n] = 0]
        /\ UNCHANGED applied /\ net' \subseteq net
    BY <1>15 DEF Rebooted
  <2>2. Announced
    BY <2>1 DEF Announced
  <2>3. \A q \in Node : commitIndex[q] <= lastApplied[q]
    BY DEF CommitInv
  <2>4. \A q \in Node : commitIndex'[q] <= lastApplied'[q] /\ lastApplied'[q] <= lastApplied[q]
    BY <1>1, <2>1, <2>3
  <2>5. Reported
    BY <1>1, <2>1 DEF Reported
  <2> QED  BY <2>2, <2>4, <2>5 DEF CommitStep
<1>16. ASSUME NEW m \in net, RestartInHandler(m)
       PROVE  CommitStep(M, B)
  <2>1. m.to \in Node
    BY <1>1, MessageFields
  <2> QED  BY <1>15, <1>16, <2>1 DEF RestartInHandler
<1>17. CASE UNCHANGED vars
  BY <1>2, <1>17 DEF vars
<1> QED  BY <1>5, <1>6, <1>7, <1>8, <1>9, <1>10, <1>11, <1>12, <1>13, <1>14, <1>15, <1>16,
            <1>17
         DEF Next, Handler, Deliver, Fault, Restart
------------------------------------------------------------------------------
(* The invariant, and the theorems. *)

SafetyInv == \E L, A : LogInv(L) /\ AckInv(L, A) /\ CommitInv(L, A)

\* The invariant holds initially.
LEMMA SafetyInit ==
  ASSUME Init
  PROVE  SafetyInv
<1>1. PICK L : LogInv(L)
  BY LogInit
<1>2. PICK A : A = [q \in Node |-> [t \in Nat |-> 0]]
  OBVIOUS
<1>3. A \in [Node -> [Nat -> Nat]]
  BY <1>2
<1>4. \A q \in Node, t \in Nat : A[q][t] = 0
  BY <1>2
<1>5. \A q \in Node, t \in Nat : 1 .. A[q][t] = {} /\ A[q][t] <= Len(L[t]) /\ ~(A[q][t] > 0)
  <2>1. \A t \in Nat : Len(L[t]) \in Nat
    <3>1. \A t \in Nat : L[t] \in Seq(Entry)
      BY <1>1 DEF LogInv, LeaderLogs
    <3> QED  BY <3>1, LenProperties
  <2> QED  BY <1>4, <2>1
<1>6. /\ net = {} /\ leaders = {} /\ applied = {}
      /\ \A n \in Node : /\ role[n] = "Follower"
                         /\ lastApplied[n] = 0 /\ commitIndex[n] = 0
  BY DEF Init, Booted
<1>7. HeldInv(L, A)
  BY <1>3, <1>5, <1>6 DEF HeldInv
<1>8. BallotInv(L, A)
  BY <1>6 DEF BallotInv
<1>9. CommitInv(L, A)
  BY <1>6 DEF CommitInv, Committed
<1> QED  BY <1>1, <1>7, <1>8, <1>9 DEF AckInv, SafetyInv

\* What a step does, given the invariant.
LEMMA SafetyStep ==
  ASSUME RaftInv, RaftInv', ElectionSafety, ElectionSafety',
         NEW L, LogInv(L), NEW A, AckInv(L, A), CommitInv(L, A), [Next]_vars
  PROVE  \E M, B : /\ AckStep(L, M, A, B) /\ CommitStep(M, B)
                   /\ LogInv(M)' /\ AckInv(M, B)' /\ CommitInv(M, B)'
<1>1. TypeOK /\ TypeOK' /\ HeldInv(L, A)
  BY DEF RaftInv, AckInv
<1>2. PICK M : LogStep(L, M)
  BY NextLogs
<1>3. LogInv(M)' /\ Extends(L, M)
  BY <1>1, <1>2, LogsKept DEF LogStep
<1>4. PICK B : AckStep(L, M, A, B)
  BY <1>3, NextAcks
<1>5. CandidateStep
  BY ElectedStep DEF Elected, ElectionStep
<1>6. HeldInv(M, B)'
  BY <1>1, <1>3, <1>4, HeldKept
<1>7. BallotInv(M, B)'
  BY <1>1, <1>3, <1>4, <1>5, BallotKept
<1>8. AckGrows(M, A, B)
  BY <1>4 DEF AckStep
<1>9. CommitStep(M, B)
  BY <1>3, <1>6, <1>8, NextCommits
<1>10. CommitInv(M, B)'
  BY <1>1, <1>3, <1>4, <1>9, CommitKept
<1>11. AckInv(M, B)'
  BY <1>6, <1>7 DEF AckInv
<1> QED  BY <1>3, <1>4, <1>9, <1>10, <1>11

\* The invariant holds in every reachable state.
LEMMA SafetyInvariance == Spec => []SafetyInv
<1>1. Init => SafetyInv
  BY SafetyInit
<1>2. /\ ElectionInv /\ ElectionInv' /\ ElectionSafety /\ ElectionSafety'
      /\ SafetyInv
      /\ [Next]_vars
      => SafetyInv'
  <2> SUFFICES ASSUME ElectionInv, ElectionInv', ElectionSafety, ElectionSafety',
                      SafetyInv, [Next]_vars
               PROVE  SafetyInv'
    OBVIOUS
  <2>1. RaftInv /\ RaftInv'
    BY DEF ElectionInv, RaftInv
  <2>2. PICK L, A : LogInv(L) /\ AckInv(L, A) /\ CommitInv(L, A)
    BY DEF SafetyInv
  <2>3. PICK M, B : LogInv(M)' /\ AckInv(M, B)' /\ CommitInv(M, B)'
    BY <2>1, <2>2, SafetyStep
  <2> QED  BY <2>3 DEF SafetyInv
<1> QED  BY <1>1, <1>2, ElectionInvariance, ElectionsAreSafe, PTL DEF Spec

\* The vote restriction and the commit rule together: whatever was lost,
\* delayed or forgotten in a restart, a leader holds every entry that any node
\* applied in its term or before.
THEOREM LeadersAreComplete == Spec => []LeaderCompleteness
<1>1. ElectionInv /\ SafetyInv => LeaderCompleteness
  <2> SUFFICES ASSUME ElectionInv, SafetyInv, NEW n \in Node, NEW a \in applied,
                      role[n] = "Leader", currentTerm[n] >= a.term
               PROVE  a.index \in DOMAIN log[n] /\ log[n][a.index] = a.entry
    BY DEF LeaderCompleteness
  <2> DEFINE u == currentTerm[n]
             lg == log[n]
  <2>1. PICK L, A : LogInv(L) /\ AckInv(L, A) /\ CommitInv(L, A)
    BY DEF SafetyInv
  <2>2. /\ TypeOK /\ u \in Nat /\ lg \in Seq(Entry)
        /\ a.index \in Nat /\ a.index >= 1 /\ a.term \in Nat
    BY DEF ElectionInv, TypeOK
  <2>3. PICK t, k \in Nat : /\ t <= a.term /\ k >= a.index
                            /\ Chosen(A, t, k) /\ Own(L, t, k)
                            /\ a.entry = L[t][a.index]
    BY <2>1 DEF CommitInv
  <2>4. PICK b \in leaders : b[1] = u
    <3>1. <<u, n>> \in leaders
      BY DEF ElectionInv, RoleInv
    <3> QED  BY <3>1
  <2>5. t <= u /\ a.index \in 1 .. k
    BY <2>2, <2>3
  <2>6. lg = L[u]
    BY <2>1 DEF LogInv
  <2> HIDE DEF u, lg
  <2>7. Agree(L[u], L[t], k)
    <3>1. t <= b[1]
      BY <2>4, <2>5
    <3>2. Agree(L[b[1]], L[t], k)
      BY <2>1, <2>2, <2>3, <3>1, LeaderHolds
    <3> QED  BY <2>4, <3>2
  <2>8. k <= Len(lg) /\ lg[a.index] = L[t][a.index] /\ Len(lg) \in Nat
    <3>1. Len(lg) \in Nat
      BY <2>2, LenProperties
    <3> QED  BY <2>5, <2>6, <2>7, <3>1 DEF Agree
  <2>9. a.index \in 1 .. Len(lg) /\ lg[a.index] = a.entry
    BY <2>2, <2>3, <2>5, <2>8
  <2>10. DOMAIN lg = 1 .. Len(lg)
    BY <2>2, LenProperties
  <2> QED  BY <2>9, <2>10 DEF lg
<1> QED  BY <1>1, ElectionInvariance, SafetyInvariance, PTL

\* No step of appendConflictFree, a restart or anything else truncates or
\* rewrites what a node has told its state machine to apply.
THEOREM AppliedStaysInTheLog == Spec => AppliedIsDurable
<1>1. /\ ElectionInv /\ ElectionInv' /\ ElectionSafety /\ ElectionSafety'
      /\ SafetyInv
      /\ [Next]_vars
      => [\A n \in Node : \A i \in 1 .. lastApplied[n] :
             i \in DOMAIN log'[n] /\ log'[n][i] = log[n][i]]_vars
  <2> SUFFICES ASSUME ElectionInv, ElectionInv', ElectionSafety, ElectionSafety',
                      SafetyInv, [Next]_vars,
                      NEW n \in Node, NEW i \in 1 .. lastApplied[n]
               PROVE  i \in DOMAIN log'[n] /\ log'[n][i] = log[n][i]
    OBVIOUS
  <2> DEFINE c == lastApplied[n]
             lg == log[n]
             new == log'[n]
  <2>1. RaftInv /\ RaftInv' /\ TypeOK /\ TypeOK'
    BY DEF ElectionInv, RaftInv
  <2>2. PICK L, A : LogInv(L) /\ AckInv(L, A) /\ CommitInv(L, A)
    BY DEF SafetyInv
  <2>3. PICK M, B : AckStep(L, M, A, B)
    BY <2>1, <2>2, SafetyStep
  <2>4. c \in Nat /\ new \in Seq(Entry)
    BY <2>1 DEF TypeOK
  <2>5. Committed(L, A, currentTerm[n], c, lg)
    BY <2>2 DEF CommitInv
  <2>6. Agree(new, lg, c)
    <3> HIDE DEF c
    <3> QED  BY <2>1, <2>2, <2>3, <2>4, <2>5, AppliedStays
  <2>7. Len(new) \in Nat /\ DOMAIN new = 1 .. Len(new)
    BY <2>4, LenProperties
  <2>8. i \in 1 .. c
    OBVIOUS
  <2> HIDE DEF c, lg, new
  <2>9. i \in 1 .. Len(new) /\ new[i] = lg[i]
    BY <2>4, <2>6, <2>7, <2>8 DEF Agree
  <2> QED  BY <2>7, <2>9 DEF new, lg
<1> QED  BY <1>1, ElectionInvariance, ElectionsAreSafe, SafetyInvariance, PTL
         DEF Spec, AppliedIsDurable
------------------------------------------------------------------------------
(* The state machines: every node applies a prefix of one log. *)

\* The log that the reports of S make up.
LogOf(S) ==
    [i \in 1 .. Cardinality({a.index : a \in S}) |-> (CHOOSE a \in S : a.index = i).entry]

\* The reports leave no gap, and a node reported all it applied.
ReportInv ==
    /\ \E K \in Nat : {a.index : a \in applied} = 1 .. K
    /\ \A n \in Node : \A i \in 1 .. lastApplied[n] :
          \E a \in applied : a.index = i /\ a.entry = log[n][i]

\* A report names one entry per index.
OneEntry(S) == \A a, b \in S : a.index = b.index => a.entry = b.entry

\* The reports of S, as a log.
LEMMA LogOfResult ==
  ASSUME NEW S, S \subseteq [index : Nat \ {0}, entry : Entry, term : Nat], OneEntry(S),
         NEW K \in Nat, {a.index : a \in S} = 1 .. K
  PROVE  /\ LogOf(S) \in Seq(Entry) /\ Len(LogOf(S)) = K
         /\ \A a \in S : a.index \in 1 .. K /\ LogOf(S)[a.index] = a.entry
<1> DEFINE e(i) == (CHOOSE a \in S : a.index = i).entry
<1>1. Cardinality({a.index : a \in S}) = K
  <2>1. Cardinality(1 .. K) = IF 1 > K THEN 0 ELSE K - 1 + 1
    BY FS_Interval
  <2>2. (IF 1 > K THEN 0 ELSE K - 1 + 1) = K
    OBVIOUS
  <2>3. Cardinality({a.index : a \in S}) = Cardinality(1 .. K)
    BY Zenon
  <2> QED  BY <2>1, <2>2, <2>3, Zenon
<1>2. ASSUME NEW i \in 1 .. K
      PROVE  /\ e(i) \in Entry
             /\ \A a \in S : a.index = i => e(i) = a.entry
  <2>1. \E a \in S : a.index = i
    OBVIOUS
  <2>2. (CHOOSE a \in S : a.index = i) \in S /\ (CHOOSE a \in S : a.index = i).index = i
    BY <2>1
  <2> QED  BY <2>2 DEF OneEntry
<1>3. LogOf(S) = [i \in 1 .. K |-> e(i)]
  BY <1>1 DEF LogOf
<1> HIDE DEF e
<1>4. LogOf(S) \in Seq(Entry)
  <2>1. [i \in 1 .. K |-> e(i)] \in [1 .. K -> Entry]
    BY <1>2
  <2> QED  BY <1>3, <2>1, SeqDef
<1>5. Len(LogOf(S)) = K
  <2>1. DOMAIN LogOf(S) = 1 .. K
    BY <1>3
  <2> QED  BY <1>4, <2>1, LenProperties
<1>6. ASSUME NEW a \in S PROVE a.index \in 1 .. K /\ LogOf(S)[a.index] = a.entry
  <2>1. a.index \in 1 .. K
    OBVIOUS
  <2> QED  BY <1>2, <1>3, <2>1
<1> QED  BY <1>4, <1>5, <1>6

\* Chosen entries of one index are one entry.
LEMMA ReportsAgree ==
  ASSUME TypeOK, NEW L, LogInv(L), NEW A, AckInv(L, A), CommitInv(L, A)
  PROVE  OneEntry(applied)
<1> SUFFICES ASSUME NEW a \in applied, NEW b \in applied, a.index = b.index
             PROVE  a.entry = b.entry
  BY DEF OneEntry
<1>1. PICK t, k \in Nat : /\ t <= a.term /\ k >= a.index
                          /\ Chosen(A, t, k) /\ Own(L, t, k)
                          /\ a.entry = L[t][a.index]
  BY DEF CommitInv
<1>2. PICK u, j \in Nat : /\ u <= b.term /\ j >= b.index
                          /\ Chosen(A, u, j) /\ Own(L, u, j)
                          /\ b.entry = L[u][b.index]
  BY DEF CommitInv
<1>3. a.index \in Nat /\ a.index >= 1
  BY DEF TypeOK
<1>4. ASSUME NEW x \in Nat, NEW y \in Nat, NEW v \in Nat, NEW w \in Nat, v <= w,
             Chosen(A, v, x), Own(L, v, x), Own(L, w, y), x >= a.index
      PROVE  L[v][a.index] = L[w][a.index]
  <2>1. PICK c \in leaders : c[1] = w
    <3>1. L[w] \in Seq(Entry) /\ y \in 1 .. Len(L[w])
      BY <1>4 DEF Own, LogInv, LeaderLogs
    <3>2. L[w] # <<>>
      BY <3>1
    <3> QED  BY <3>2 DEF LogInv
  <2>2. v <= c[1]
    BY <1>4, <2>1
  <2>3. Agree(L[c[1]], L[v], x)
    BY <1>4, <2>2, LeaderHolds
  <2>4. a.index \in 1 .. x
    BY <1>3, <1>4
  <2> QED  BY <2>1, <2>3, <2>4 DEF Agree
<1>5. CASE t <= u
  BY <1>1, <1>2, <1>4, <1>5
<1>6. CASE u <= t
  <2>1. L[u][a.index] = L[t][a.index]
    BY <1>1, <1>2, <1>4, <1>6
  <2> QED  BY <1>1, <1>2, <2>1
<1> QED  BY <1>5, <1>6

\* What a node applied is in its log.
LEMMA AppliedInLog ==
  ASSUME TypeOK, NEW L, NEW A, CommitInv(L, A), NEW n \in Node
  PROVE  lastApplied[n] <= Len(log[n])
<1>1. lastApplied[n] \in Nat /\ log[n] \in Seq(Entry)
  BY DEF TypeOK
<1>2. Len(log[n]) \in Nat
  BY <1>1, LenProperties
<1>3. Committed(L, A, currentTerm[n], lastApplied[n], log[n])
  BY DEF CommitInv
<1>4. lastApplied[n] = 0 \/ lastApplied[n] <= Len(log[n])
  BY <1>3 DEF Committed, Agree
<1> QED  BY <1>1, <1>2, <1>4

\* The reports stay without a gap.
LEMMA ReportsKept ==
  ASSUME TypeOK, TypeOK', ReportInv, Reported,
         \A n \in Node : Agree(log'[n], log[n], lastApplied[n])
  PROVE  ReportInv'
<1>1. \A n \in Node : lastApplied[n] \in Nat /\ lastApplied'[n] \in Nat
  BY DEF TypeOK
<1>2. PICK K \in Nat : {a.index : a \in applied} = 1 .. K
  BY DEF ReportInv
<1>3. ASSUME NEW n \in Node, NEW i \in 1 .. lastApplied[n]
      PROVE  \E a \in applied : a.index = i /\ a.entry = log'[n][i]
  <2>1. log'[n][i] = log[n][i]
    BY DEF Agree
  <2> QED  BY <2>1 DEF ReportInv
<1>4. PICK n \in Node :
        /\ \A q \in Node \ {n} : lastApplied'[q] = lastApplied[q]
        /\ \/ lastApplied'[n] = 0 /\ UNCHANGED applied
           \/ /\ lastApplied'[n] >= lastApplied[n]
              /\ applied' = applied \cup
                     {[index |-> i, entry |-> log'[n][i], term |-> currentTerm'[n]] :
                          i \in lastApplied[n] + 1 .. lastApplied'[n]}
  BY DEF Reported
<1>5. CASE lastApplied'[n] = 0 /\ UNCHANGED applied
  <2>1. 1 .. lastApplied'[n] = {}
    BY <1>5
  <2>2. ASSUME NEW q \in Node, NEW i \in 1 .. lastApplied'[q]
        PROVE  \E a \in applied' : a.index = i /\ a.entry = log'[q][i]
    <3>1. q # n /\ i \in 1 .. lastApplied[q]
      BY <1>4, <2>1
    <3> QED  BY <1>3, <1>5, <3>1
  <2> QED  BY <1>2, <1>5, <2>2 DEF ReportInv
<1>6. CASE ~(lastApplied'[n] = 0 /\ UNCHANGED applied)
  <2> DEFINE c == lastApplied[n]
             d == lastApplied'[n]
             r(i) == [index |-> i, entry |-> log'[n][i], term |-> currentTerm'[n]]
  <2>1. c \in Nat /\ d \in Nat /\ d >= c /\ applied' = applied \cup {r(i) : i \in c + 1 .. d}
    BY <1>1, <1>4, <1>6
  <2>2. \A i : r(i).index = i /\ r(i).entry = log'[n][i]
    OBVIOUS
  <2>3. c <= K
    <3>1. CASE c = 0
      BY <3>1
    <3>2. CASE c # 0
      <4>1. c \in 1 .. lastApplied[n]
        BY <2>1, <3>2
      <4>2. c \in {a.index : a \in applied}
        BY <1>3, <4>1
      <4> QED  BY <1>2, <4>2
    <3> QED  BY <3>1, <3>2
  <2> HIDE DEF r
  <2>4. {a.index : a \in applied'} = 1 .. K \cup (c + 1 .. d)
    BY <1>2, <2>1, <2>2
  <2>5. ASSUME NEW q \in Node, NEW i \in 1 .. lastApplied'[q]
        PROVE  \E a \in applied' : a.index = i /\ a.entry = log'[q][i]
    <3>1. CASE i \in 1 .. lastApplied[q]
      BY <1>3, <2>1, <3>1
    <3>2. CASE i \notin 1 .. lastApplied[q]
      <4>1. q = n
        BY <1>4, <3>2
      <4>2. i \in c + 1 .. d
        BY <2>1, <3>2, <4>1
      <4>3. r(i) \in applied'
        BY <2>1, <4>2
      <4> QED  BY <2>2, <4>1, <4>3
    <3> QED  BY <3>1, <3>2
  <2> HIDE DEF c, d
  <2>6. \E J \in Nat : 1 .. K \cup (c + 1 .. d) = 1 .. J
    <3>1. CASE d <= K
      <4>1. 1 .. K \cup (c + 1 .. d) = 1 .. K
        BY <2>1, <2>3, <3>1
      <4> QED  BY <4>1
    <3>2. CASE d > K
      <4>1. 1 .. K \cup (c + 1 .. d) = 1 .. d
        BY <2>1, <2>3, <3>2
      <4> QED  BY <2>1, <4>1
    <3> QED  BY <2>1, <3>1, <3>2
  <2>7. \E J \in Nat : {a.index : a \in applied'} = 1 .. J
    BY <2>4, <2>6
  <2> QED  BY <2>5, <2>7 DEF ReportInv
<1> QED  BY <1>5, <1>6

\* What a node's state machine holds.
LEMMA MachineResult ==
  ASSUME NEW lg \in Seq(Entry), NEW c \in Nat, c <= Len(lg)
  PROVE  /\ SubSeq(lg, 1, c) \in Seq(Entry) /\ Len(SubSeq(lg, 1, c)) = c
         /\ \A i \in 1 .. c : SubSeq(lg, 1, c)[i] = lg[i]
<1>1. \A i \in 1 .. c : lg[i] \in Entry
  OBVIOUS
<1>2. /\ SubSeq(lg, 1, c) \in Seq(Entry)
      /\ Len(SubSeq(lg, 1, c)) = IF 1 <= c THEN c - 1 + 1 ELSE 0
      /\ \A i \in 1 .. c - 1 + 1 : SubSeq(lg, 1, c)[i] = lg[1 + i - 1]
  BY <1>1, SubSeqProperties
<1>3. ASSUME NEW i \in 1 .. c PROVE SubSeq(lg, 1, c)[i] = lg[i]
  <2>1. i \in 1 .. c - 1 + 1 /\ 1 + i - 1 = i
    OBVIOUS
  <2> QED  BY <1>2, <2>1
<1> QED  BY <1>2, <1>3

\* What a state machine gained is what is behind what it had.
LEMMA GainResult ==
  ASSUME NEW s \in Seq(Entry), NEW t \in Seq(Entry), Len(s) <= Len(t),
         \A i \in 1 .. Len(s) : s[i] = t[i]
  PROVE  /\ SubSeq(t, Len(s) + 1, Len(t)) \in Seq(Entry)
         /\ t = s \o SubSeq(t, Len(s) + 1, Len(t))
<1> DEFINE g == SubSeq(t, Len(s) + 1, Len(t))
<1>1. Len(s) \in Nat /\ Len(t) \in Nat
  BY LenProperties
<1>2. /\ g \in Seq(Entry)
      /\ Len(g) = IF Len(s) + 1 <= Len(t) THEN Len(t) - (Len(s) + 1) + 1 ELSE 0
      /\ \A i \in 1 .. Len(t) - (Len(s) + 1) + 1 : g[i] = t[Len(s) + 1 + i - 1]
  <2>1. \A i \in Len(s) + 1 .. Len(t) : t[i] \in Entry
    BY <1>1
  <2> QED  BY <1>1, <2>1, SubSeqProperties
<1> HIDE DEF g
<1>3. Len(g) = Len(t) - Len(s) /\ \A i \in 1 .. Len(g) : g[i] = t[Len(s) + i]
  <2>1. Len(g) = Len(t) - Len(s)
    BY <1>1, <1>2
  <2>2. ASSUME NEW i \in 1 .. Len(g) PROVE g[i] = t[Len(s) + i]
    <3>1. i \in 1 .. Len(t) - (Len(s) + 1) + 1 /\ Len(s) + 1 + i - 1 = Len(s) + i
      BY <1>1, <2>1
    <3> QED  BY <1>2, <3>1
  <2> QED  BY <2>1, <2>2
<1>4. /\ s \o g \in Seq(Entry) /\ Len(s \o g) = Len(s) + Len(g)
      /\ \A i \in 1 .. Len(s) + Len(g) :
            (s \o g)[i] = IF i <= Len(s) THEN s[i] ELSE g[i - Len(s)]
  BY <1>2, ConcatProperties
<1>5. ASSUME NEW i \in 1 .. Len(t) PROVE t[i] = (s \o g)[i]
  <2>1. i \in 1 .. Len(s) + Len(g)
    BY <1>1, <1>3
  <2>2. CASE i <= Len(s)
    <3>1. i \in 1 .. Len(s)
      BY <1>1, <2>2
    <3> QED  BY <1>4, <2>1, <2>2, <3>1
  <2>3. CASE ~(i <= Len(s))
    <3>1. i - Len(s) \in 1 .. Len(g) /\ Len(s) + (i - Len(s)) = i
      BY <1>1, <1>3, <2>3
    <3>2. g[i - Len(s)] = t[Len(s) + (i - Len(s))]
      BY <1>3, <3>1
    <3> QED  BY <1>4, <2>1, <2>3, <3>1, <3>2
  <2> QED  BY <2>2, <2>3
<1>6. Len(t) = Len(s \o g)
  BY <1>1, <1>3, <1>4
<1>7. t = s \o g
  BY <1>4, <1>5, <1>6, SeqEqual
<1> QED  BY <1>2, <1>7 DEF g

\* A log that agrees with another up to its end is a prefix of it.
LEMMA PrefixResult ==
  ASSUME NEW s \in Seq(Entry), NEW t \in Seq(Entry), Len(s) <= Len(t),
         \A i \in 1 .. Len(s) : s[i] = t[i]
  PROVE  Abstract!Prefix(s, t)
<1>1. Len(s) \in Nat
  BY LenProperties
<1>2. /\ SubSeq(t, 1, Len(s)) \in Seq(Entry) /\ Len(SubSeq(t, 1, Len(s))) = Len(s)
      /\ \A i \in 1 .. Len(s) : SubSeq(t, 1, Len(s))[i] = t[i]
  BY <1>1, MachineResult
<1>3. s = SubSeq(t, 1, Len(s))
  BY <1>2, SeqEqual
<1> QED  BY <1>3 DEF Abstract!Prefix

\* What the nodes' state machines hold.
Machines == [n \in Node |-> SubSeq(log[n], 1, lastApplied[n])]

\* A step of the reports is a step of the abstract log.
LEMMA MachineStep ==
  ASSUME TypeOK, TypeOK', ReportInv, ReportInv', OneEntry(applied), OneEntry(applied)',
         Reported, \A n \in Node : Agree(log'[n], log[n], lastApplied[n]),
         \A n \in Node : lastApplied[n] <= Len(log[n]),
         \A n \in Node : lastApplied'[n] <= Len(log'[n])
  PROVE  Abstract!Next
<1> DEFINE com == LogOf(applied)
           new == LogOf(applied')
           m(q) == SubSeq(log[q], 1, lastApplied[q])
           w(q) == SubSeq(log'[q], 1, lastApplied'[q])
<1>1. PICK n \in Node :
        /\ \A q \in Node \ {n} : lastApplied'[q] = lastApplied[q]
        /\ \/ lastApplied'[n] = 0 /\ UNCHANGED applied
           \/ /\ lastApplied'[n] >= lastApplied[n]
              /\ applied' = applied \cup
                     {[index |-> i, entry |-> log'[n][i], term |-> currentTerm'[n]] :
                          i \in lastApplied[n] + 1 .. lastApplied'[n]}
  BY DEF Reported
<1>2. PICK K \in Nat : {a.index : a \in applied} = 1 .. K
  BY DEF ReportInv
<1>3. PICK J \in Nat : {a.index : a \in applied'} = 1 .. J
  BY DEF ReportInv
<1>4. /\ com \in Seq(Entry) /\ Len(com) = K
      /\ \A a \in applied : a.index \in 1 .. K /\ com[a.index] = a.entry
  <2>1. applied \subseteq [index : Nat \ {0}, entry : Entry, term : Nat]
    BY DEF TypeOK
  <2> QED  BY <1>2, <2>1, LogOfResult
<1>5. /\ new \in Seq(Entry) /\ Len(new) = J
      /\ \A a \in applied' : a.index \in 1 .. J /\ new[a.index] = a.entry
  <2>1. applied' \subseteq [index : Nat \ {0}, entry : Entry, term : Nat] /\ OneEntry(applied')
    BY DEF TypeOK
  <2> QED  BY <1>3, <2>1, LogOfResult
<1> HIDE DEF com, new
<1>6. applied \subseteq applied'
  BY <1>1
<1>7. K <= J /\ \A i \in 1 .. K : com[i] = new[i]
  <2>1. ASSUME NEW i \in 1 .. K PROVE i \in 1 .. J /\ com[i] = new[i]
    <3>1. i \in {a.index : a \in applied}
      BY <1>2
    <3>2. PICK a \in applied : a.index = i
      BY <3>1
    <3> QED  BY <1>4, <1>5, <1>6, <3>2
  <2>2. K # 0 => K \in 1 .. K
    OBVIOUS
  <2> QED  BY <2>1, <2>2
<1>8. ASSUME NEW q \in Node
      PROVE  /\ lastApplied[q] \in Nat /\ lastApplied'[q] \in Nat
             /\ m(q) \in Seq(Entry) /\ Len(m(q)) = lastApplied[q]
             /\ \A i \in 1 .. lastApplied[q] : m(q)[i] = log[q][i]
             /\ w(q) \in Seq(Entry) /\ Len(w(q)) = lastApplied'[q]
             /\ \A i \in 1 .. lastApplied'[q] : w(q)[i] = log'[q][i]
  <2>1. /\ lastApplied[q] \in Nat /\ lastApplied'[q] \in Nat
        /\ log[q] \in Seq(Entry) /\ log'[q] \in Seq(Entry)
    BY DEF TypeOK
  <2> QED  BY <2>1, MachineResult
<1>9. \A q \in Node : \A i \in 1 .. lastApplied[q] : log'[q][i] = log[q][i]
  BY DEF Agree
<1>10. ASSUME NEW q \in Node, lastApplied'[q] = lastApplied[q] PROVE w(q) = m(q)
  <2>1. Len(w(q)) = Len(m(q)) /\ w(q) \in Seq(Entry) /\ m(q) \in Seq(Entry)
    BY <1>8, <1>10
  <2>2. \A i \in 1 .. Len(w(q)) : w(q)[i] = m(q)[i]
    BY <1>8, <1>9, <1>10
  <2> HIDE DEF m, w
  <2> QED  BY <2>1, <2>2, SeqEqual
<1>11. /\ Machines = [q \in Node |-> m(q)]
       /\ Machines' = [q \in Node |-> w(q)]
  BY DEF Machines
<1> HIDE DEF m, w
<1>12. Machines' = [Machines EXCEPT ![n] = w(n)] /\ Machines[n] = m(n) /\ Machines'[n] = w(n)
  <2>1. \A q \in Node \ {n} : w(q) = m(q)
    BY <1>1, <1>10
  <2> QED  BY <1>11, <2>1
<1>13. CASE lastApplied'[n] = 0 /\ UNCHANGED applied
  <2>1. w(n) = <<>>
    BY <1>8, <1>13
  <2>2. Machines' = [Machines EXCEPT ![n] = <<>>]
    BY <1>12, <2>1
  <2>3. Abstract!Forget(n)
    BY <1>13, <2>2 DEF Abstract!Forget, Machines
  <2> QED  BY <2>3 DEF Abstract!Next
<1>14. CASE ~(lastApplied'[n] = 0 /\ UNCHANGED applied)
  <2> DEFINE c == lastApplied[n]
             d == lastApplied'[n]
             g == SubSeq(w(n), Len(m(n)) + 1, Len(w(n)))
             r(i) == [index |-> i, entry |-> log'[n][i], term |-> currentTerm'[n]]
  <2>1. c \in Nat /\ d \in Nat /\ c <= d
    BY <1>1, <1>8, <1>14
  <2>2. applied' = applied \cup {r(i) : i \in c + 1 .. d}
    BY <1>1, <1>14
  <2>3. g \in Seq(Entry) /\ w(n) = m(n) \o g
    <3>1. Len(m(n)) <= Len(w(n)) /\ m(n) \in Seq(Entry) /\ w(n) \in Seq(Entry)
      BY <1>8, <2>1
    <3>2. \A i \in 1 .. Len(m(n)) : m(n)[i] = w(n)[i]
      BY <1>8, <1>9, <2>1
    <3> QED  BY <3>1, <3>2, GainResult
  <2>4. d <= J /\ \A i \in 1 .. d : w(n)[i] = new[i]
    <3>1. ASSUME NEW i \in 1 .. d PROVE i \in 1 .. J /\ w(n)[i] = new[i]
      <4>1. PICK a \in applied' : a.index = i /\ a.entry = log'[n][i]
        BY DEF ReportInv
      <4> QED  BY <1>5, <1>8, <4>1
    <3>2. d # 0 => d \in 1 .. d
      BY <2>1
    <3> QED  BY <2>1, <3>1, <3>2
  <2>5. J = K \/ J = d
    <3>1. \A i : r(i).index = i
      OBVIOUS
    <3> HIDE DEF r
    <3>2. ASSUME J # K PROVE J \in c + 1 .. d
      <4>1. J \in 1 .. J /\ J \notin 1 .. K
        BY <1>7, <3>2
      <4>2. J \in {a.index : a \in applied'} /\ J \notin {a.index : a \in applied}
        BY <1>2, <1>3, <4>1
      <4> QED  BY <2>2, <3>1, <4>2
    <3> QED  BY <2>1, <2>4, <3>2
  <2>6. Len(w(n)) = d /\ w(n) \in Seq(Entry)
    BY <1>8
  <2> HIDE DEF c, d, g
  <2>7. \/ Abstract!Prefix(w(n), com) /\ new = com
        \/ Abstract!Prefix(com, w(n)) /\ new = w(n)
    <3>1. CASE J = K
      <4>1. new = com
        BY <1>4, <1>5, <1>7, <3>1, SeqEqual
      <4>2. Abstract!Prefix(w(n), com)
        BY <1>4, <2>4, <2>6, <3>1, <4>1, PrefixResult
      <4> QED  BY <4>1, <4>2
    <3>2. CASE J = d
      <4>1. Len(new) = Len(w(n)) /\ \A i \in 1 .. Len(new) : new[i] = w(n)[i]
        BY <1>5, <2>4, <2>6, <3>2
      <4>2. new = w(n)
        BY <1>5, <2>6, <4>1, SeqEqual
      <4>3. Len(com) <= Len(w(n)) /\ \A i \in 1 .. Len(com) : com[i] = w(n)[i]
        BY <1>4, <1>7, <2>6, <3>2, <4>2
      <4>4. Abstract!Prefix(com, w(n))
        BY <1>4, <2>6, <4>3, PrefixResult
      <4> QED  BY <4>2, <4>4
    <3> QED  BY <2>5, <3>1, <3>2
  <2>8. Abstract!Gain(n) = g
    BY <1>12 DEF Abstract!Gain, Machines, g
  <2>9. Machines' = [Machines EXCEPT ![n] = Machines[n] \o Abstract!Gain(n)]
    BY <1>12, <2>3, <2>8
  <2>10. Abstract!Apply(n, Abstract!Gain(n))
    <3>1. com = LogOf(applied) /\ new = LogOf(applied)'
      BY DEF com, new
    <3> QED  BY <1>12, <2>7, <2>9, <3>1 DEF Abstract!Apply, Machines, LogOf
  <2>11. Abstract!Gain(n) \in Seq(Entry)
    BY <2>3, <2>8, Zenon
  <2> QED  BY <2>10, <2>11, Zenon DEF Abstract!Next
<1> QED  BY <1>13, <1>14

\* In every state that satisfies the safety invariant, one entry is applied per
\* index and a node has applied no more than its log holds.
LEMMA ReportFacts ==
  TypeOK /\ SafetyInv => OneEntry(applied) /\ \A n \in Node : lastApplied[n] <= Len(log[n])
<1> SUFFICES ASSUME TypeOK, SafetyInv
             PROVE  OneEntry(applied) /\ \A n \in Node : lastApplied[n] <= Len(log[n])
  OBVIOUS
<1>1. PICK L, A : LogInv(L) /\ AckInv(L, A) /\ CommitInv(L, A)
  BY DEF SafetyInv
<1> QED  BY <1>1, ReportsAgree, AppliedInLog

\* State machine safety, in full: there is one log of applied entries that only
\* grows, every node's state machine holds a prefix of it, and a restart only
\* makes a state machine start again from its first entry.
THEOREM Implements == Spec => Refinement
<1>1. Init => Abstract!Init /\ ReportInv
  <2> SUFFICES ASSUME Init PROVE Abstract!Init /\ ReportInv
    OBVIOUS
  <2>1. applied = {} /\ \A n \in Node : lastApplied[n] = 0 /\ log[n] = <<>>
    BY DEF Init, Booted
  <2>2. {a.index : a \in applied} = 1 .. 0 /\ \A n \in Node : 1 .. lastApplied[n] = {}
    BY <2>1
  <2>3. ReportInv
    BY <2>2 DEF ReportInv
  <2>4. LogOf(applied) = <<>>
    <3>1. applied \subseteq [index : Nat \ {0}, entry : Entry, term : Nat] /\ OneEntry(applied)
      BY <2>1 DEF OneEntry
    <3>2. LogOf(applied) \in Seq(Entry) /\ Len(LogOf(applied)) = 0
      BY <2>2, <3>1, LogOfResult
    <3> QED  BY <3>2
  <2>5. Machines = [n \in Node |-> <<>>]
    <3>1. \A n \in Node : SubSeq(log[n], 1, lastApplied[n]) = <<>>
      BY <2>1
    <3> QED  BY <3>1 DEF Machines
  <2> QED  BY <2>3, <2>4, <2>5 DEF Abstract!Init, LogOf, Machines
<1>2. /\ ElectionInv /\ ElectionInv' /\ ElectionSafety /\ ElectionSafety'
      /\ SafetyInv /\ ReportInv
      /\ [Next]_vars
      => ReportInv' /\ Abstract!Next
  <2> SUFFICES ASSUME ElectionInv, ElectionInv', ElectionSafety, ElectionSafety',
                      SafetyInv, ReportInv, [Next]_vars
               PROVE  ReportInv' /\ Abstract!Next
    OBVIOUS
  <2>1. RaftInv /\ RaftInv' /\ TypeOK /\ TypeOK'
    BY DEF ElectionInv, RaftInv
  <2>2. PICK L, A : LogInv(L) /\ AckInv(L, A) /\ CommitInv(L, A)
    BY DEF SafetyInv
  <2>3. PICK M, B : /\ AckStep(L, M, A, B) /\ CommitStep(M, B)
                    /\ LogInv(M)' /\ AckInv(M, B)' /\ CommitInv(M, B)'
    BY <2>1, <2>2, SafetyStep
  <2>4. Reported
    BY <2>3 DEF CommitStep
  <2>5. ASSUME NEW n \in Node PROVE Agree(log'[n], log[n], lastApplied[n])
    <3> DEFINE c == lastApplied[n]
    <3>1. c \in Nat
      BY <2>1 DEF TypeOK
    <3>2. Committed(L, A, currentTerm[n], c, log[n])
      BY <2>2 DEF CommitInv
    <3>3. Agree(log'[n], log[n], c)
      <4> HIDE DEF c
      <4> QED  BY <2>1, <2>2, <2>3, <3>1, <3>2, AppliedStays
    <3> QED  BY <3>3
  <2>6. ReportInv'
    BY <2>1, <2>4, <2>5, ReportsKept
  <2>7. OneEntry(applied) /\ \A n \in Node : lastApplied[n] <= Len(log[n])
    BY <2>1, ReportFacts
  <2>8. OneEntry(applied)' /\ \A n \in Node : lastApplied'[n] <= Len(log'[n])
    <3>1. (TypeOK /\ SafetyInv =>
             OneEntry(applied) /\ \A n \in Node : lastApplied[n] <= Len(log[n]))'
      BY ReportFacts, PTL
    <3>2. SafetyInv'
      BY <2>3 DEF SafetyInv
    <3> QED  BY <2>1, <3>1, <3>2
  <2> QED  BY <2>1, <2>4, <2>5, <2>6, <2>7, <2>8, MachineStep
<1> QED  BY <1>1, <1>2, ElectionInvariance, ElectionsAreSafe, SafetyInvariance, PTL
         DEF Spec, Refinement, Abstract!Spec
==============================================================================
