------------------------- MODULE CertWaiterProofs -------------------------
(***************************************************************************)
(* The certificate waiter for every network of certificates: it keeps its  *)
(* types and implements CausalStore whatever sync does, and as long as     *)
(* sync leaves it alone it forgets nothing it parked.                      *)
(***************************************************************************)
EXTENDS CertWaiter, WellFoundedInduction, TLAPS

\* The set a save stores is closed under unblocking, and it holds nothing
\* but the saved certificate and what is complete with the rest of the set.
LEMMA UnblockedIsClosed ==
    ASSUME NEW c \in Cert, Parked \subseteq Cert
    PROVE  /\ c \in Unblocked(c)
           /\ Unblocked(c) \subseteq Cert
           /\ \A e \in Parked : waiting[e] \subseteq Unblocked(c) => e \in Unblocked(c)
           /\ \A d \in Unblocked(c) :
                 d = c \/ (d \in Parked /\ waiting[d] \subseteq Unblocked(c))
  <1> DEFINE Closed(S) == \A e \in Parked : waiting[e] \subseteq S \cup {c} => e \in S
             I == {d \in Parked : \A S \in SUBSET Parked : Closed(S) => d \in S}
             U == {c} \cup I
  <1>1. Unblocked(c) = U
    BY DEF Unblocked
  <1>2. ASSUME NEW e \in Parked, waiting[e] \subseteq U
        PROVE  e \in I
    <2>1. ASSUME NEW S \in SUBSET Parked, Closed(S)
          PROVE  e \in S
      <3>1. I \subseteq S
        BY <2>1
      <3>2. waiting[e] \subseteq S \cup {c}
        BY <3>1, <1>2
      <3> QED
        BY <3>2, <2>1
    <2> QED
      BY <2>1
  <1>3. ASSUME NEW d \in I
        PROVE  waiting[d] \subseteq U
    <2> DEFINE S == {x \in I : waiting[x] \subseteq U}
    <2>1. S \in SUBSET Parked
      OBVIOUS
    <2>2. ASSUME NEW e \in Parked, waiting[e] \subseteq S \cup {c}
          PROVE  e \in S
      <3>1. waiting[e] \subseteq U
        BY <2>2
      <3>2. e \in I
        BY <3>1, <1>2
      <3> QED
        BY <3>1, <3>2
    <2>3. Closed(S)
      BY <2>2
    <2>4. d \in S
      BY <2>1, <2>3
    <2> QED
      BY <2>4
  <1>4. U \subseteq Cert
    OBVIOUS
  <1> HIDE DEF I, U
  <1>5. I \subseteq Parked /\ U = {c} \cup I
    BY DEF I, U
  <1> QED
    BY <1>1, <1>2, <1>3, <1>4, <1>5

\* The parents of c that are not old enough to have been collected.
Needed(c) == Causal!Needed(c, floor)

\* What is parked waits for parents, and for every parent it lacks.
KeepsTrack ==
    \A c \in Parked : /\ waiting[c] \subseteq Parents[c]
                      /\ Needed(c) \subseteq dag \cup waiting[c]

WaiterInv == TypeOK /\ KeepsTrack

LEMMA WaiterInit == Init => WaiterInv
  <1> SUFFICES ASSUME Init PROVE WaiterInv
    OBVIOUS
  <1>1. DOMAIN waiting = {} /\ Parked = {}
    BY DEF Init, Parked
  <1>2. waiting \in [Parked -> (SUBSET Cert) \ {{}}]
    BY <1>1 DEF Init
  <1> QED
    BY <1>1, <1>2 DEF Init, WaiterInv, TypeOK, KeepsTrack

\* A save keeps track of what stays parked, and stores with each certificate
\* the parents it needs.
LEMMA StoreKeeps ==
    ASSUME WaiterInv, NEW c \in Cert, MissingParents(c) = {}, Store(c), floor' = floor
    PROVE  /\ dag' \subseteq Cert /\ accepted' \subseteq Cert
           /\ Parked' \subseteq Cert
           /\ waiting' \in [Parked' -> (SUBSET Cert) \ {{}}]
           /\ KeepsTrack'
           /\ \A d \in dag' \ dag : Needed(d) \subseteq dag'
           /\ \A e \in Parked' : e \in Parked /\ waiting'[e] = waiting[e] \ Unblocked(c)
  <1> DEFINE U == Unblocked(c)
             Left == {e \in Parked : ~(waiting[e] \subseteq U)}
  <1>1. /\ c \in U /\ U \subseteq Cert
        /\ \A d \in U : d = c \/ (d \in Parked /\ waiting[d] \subseteq U)
    BY UnblockedIsClosed DEF WaiterInv, TypeOK
  <1>2. waiting' = [e \in Left |-> waiting[e] \ U]
    BY DEF Store, Without
  <1> HIDE DEF U
  <1>3. Parked' = Left /\ \A e \in Left : waiting'[e] = waiting[e] \ U
    BY <1>2 DEF Parked
  <1>4. dag' = dag \cup U /\ accepted' = accepted \cup U
    BY DEF Store, U
  <1>5. \A e \in Left : waiting[e] \in SUBSET Cert /\ waiting[e] \ U # {}
    BY DEF WaiterInv, TypeOK
  <1>6. waiting' \in [Parked' -> (SUBSET Cert) \ {{}}]
    BY <1>2, <1>3, <1>5
  <1>7. KeepsTrack'
    <2> SUFFICES ASSUME NEW e \in Left
                 PROVE  /\ waiting[e] \ U \subseteq Parents[e]
                        /\ Needed(e)' \subseteq dag' \cup (waiting[e] \ U)
      BY <1>3 DEF KeepsTrack
    <2>1. Needed(e)' = Needed(e)
      BY DEF Needed, Causal!Needed
    <2> QED
      BY <2>1, <1>4 DEF WaiterInv, KeepsTrack
  <1>8. ASSUME NEW d \in dag' \ dag
        PROVE  Needed(d) \subseteq dag'
    <2>1. d \in U
      BY <1>4
    <2>2. CASE d = c
      BY <2>2, <1>4 DEF MissingParents, Needed, Causal!Needed
    <2>3. CASE d \in Parked /\ waiting[d] \subseteq U
      BY <2>3, <1>4 DEF WaiterInv, KeepsTrack
    <2> QED
      BY <1>1, <2>1, <2>2, <2>3
  <1>9. Left \subseteq Parked /\ Left \subseteq Cert
    BY DEF WaiterInv, TypeOK
  <1> QED
    BY <1>1, <1>3, <1>4, <1>6, <1>7, <1>8, <1>9 DEF WaiterInv, TypeOK, U

LEMMA ParkKeeps ==
    ASSUME WaiterInv, NEW c \in Cert, MissingParents(c) # {}, Park(c), floor' = floor
    PROVE  /\ accepted' \subseteq Cert
           /\ Parked' = Parked \cup {c} /\ Parked' \subseteq Cert
           /\ waiting' \in [Parked' -> (SUBSET Cert) \ {{}}]
           /\ KeepsTrack'
           /\ \A e \in Parked' :
                 waiting'[e] = IF e = c THEN MissingParents(c) ELSE waiting[e]
  <1>1. waiting' = [d \in Parked \cup {c} |->
                      IF d = c THEN MissingParents(c) ELSE waiting[d]]
    BY DEF Park
  <1>2. /\ Parked' = Parked \cup {c}
        /\ \A e \in Parked' : waiting'[e] = IF e = c THEN MissingParents(c) ELSE waiting[e]
    BY <1>1 DEF Parked
  <1>3. MissingParents(c) \in (SUBSET Cert) \ {{}}
    BY GraphIsTyped DEF MissingParents
  <1>4. waiting' \in [Parked' -> (SUBSET Cert) \ {{}}]
    BY <1>1, <1>2, <1>3 DEF WaiterInv, TypeOK
  <1>5. KeepsTrack'
    <2> SUFFICES ASSUME NEW e \in Parked'
                 PROVE  /\ waiting'[e] \subseteq Parents[e]
                        /\ Needed(e)' \subseteq dag' \cup waiting'[e]
      BY DEF KeepsTrack
    <2>1. Needed(e)' = Needed(e) /\ dag' = dag
      BY DEF Park, Needed, Causal!Needed
    <2>2. CASE e = c
      BY <1>2, <2>1, <2>2 DEF MissingParents, Needed, Causal!Needed
    <2>3. CASE e # c
      BY <1>2, <2>1, <2>3 DEF WaiterInv, KeepsTrack
    <2> QED
      BY <2>2, <2>3
  <1> QED
    BY <1>2, <1>4, <1>5 DEF Park, WaiterInv, TypeOK
----------------------------------------------------------------------------
\* What one copy's verification does, by its three outcomes.
LEMMA VerifiedKeeps ==
    ASSUME WaiterInv, NEW c \in Cert, Verified(c)
    PROVE  WaiterInv' /\ \A d \in dag' \ dag : Needed(d) \subseteq dag'
  <1>1. /\ verifying' \in [Cert -> Nat]
        /\ round' = round /\ floor' = floor /\ pulled' = pulled
    BY DEF Verified, WaiterInv, TypeOK
  <1>2. CASE UNCHANGED <<dag, waiting, deferrals, accepted>>
    BY <1>1, <1>2 DEF WaiterInv, TypeOK, KeepsTrack, Parked, Needed, Causal!Needed
  <1>3. CASE MissingParents(c) # {} /\ Park(c)
    BY <1>1, <1>3, ParkKeeps DEF Park, WaiterInv, TypeOK
  <1>4. CASE MissingParents(c) = {} /\ Store(c)
    BY <1>1, <1>4, StoreKeeps DEF Store, WaiterInv, TypeOK
  <1>5. CASE Defer(c)
    BY <1>1, <1>5 DEF Defer, WaiterInv, TypeOK, KeepsTrack, Parked, Needed, Causal!Needed
  <1> QED
    BY <1>2, <1>3, <1>4, <1>5 DEF Verified

LEMMA SealKeeps ==
    ASSUME WaiterInv, NEW c \in Cert, Seal(c)
    PROVE  WaiterInv' /\ \A d \in dag' \ dag : Needed(d) \subseteq dag'
  <1>1. CASE Store(c)
    BY <1>1, StoreKeeps DEF Seal, Store, WaiterInv, TypeOK
  <1>2. CASE Defer(c)
    BY <1>2 DEF Seal, Defer, WaiterInv, TypeOK, KeepsTrack, Parked, Needed, Causal!Needed
  <1> QED
    BY <1>1, <1>2 DEF Seal

LEMMA PullKeeps ==
    ASSUME WaiterInv, NEW from \in PullsFrom, NEW held \in SUBSET Cert, Pull(from, held)
    PROVE  WaiterInv'
  BY DEF Pull, WaiterInv, TypeOK, KeepsTrack, Parked, Needed, Causal!Needed

LEMMA AdvanceKeeps ==
    ASSUME WaiterInv, Advance
    PROVE  WaiterInv'
  <1> DEFINE Young == {d \in Parked : Round[d] + Retain >= round + 1}
  <1>1. waiting' = [c \in Young |-> waiting[c]] /\ Young \subseteq Parked
    BY DEF Advance
  <1> HIDE DEF Young
  <1>2. Parked' = Young /\ \A c \in Young : waiting'[c] = waiting[c]
    BY <1>1 DEF Parked
  <1>3. waiting' \in [Parked' -> (SUBSET Cert) \ {{}}]
    BY <1>1, <1>2 DEF WaiterInv, TypeOK
  <1>4. KeepsTrack'
    BY <1>1, <1>2 DEF Advance, WaiterInv, KeepsTrack, Needed, Causal!Needed
  <1> QED
    BY <1>1, <1>2, <1>3, <1>4 DEF Advance, WaiterInv, TypeOK

LEMMA CollectKeeps ==
    ASSUME WaiterInv, NEW cutoff \in 1..MaxRound, Collect(cutoff)
    PROVE  WaiterInv'
  <1>1. /\ Parked' = Parked /\ waiting' = waiting
        /\ cutoff \in Nat /\ floor' = cutoff /\ cutoff > floor
        /\ dag' = {c \in dag : Round[c] >= cutoff}
    BY BoundsAreNumbers DEF Collect, Parked
  <1>2. KeepsTrack'
    <2> SUFFICES ASSUME NEW c \in Parked, NEW p \in Parents[c], Round[p] >= floor'
                 PROVE  p \in dag' \cup waiting[c]
      BY <1>1 DEF KeepsTrack, WaiterInv, Needed, Causal!Needed
    <2>1. c \in Cert /\ p \in Cert /\ Round[p] \in Nat
      BY GraphIsTyped DEF WaiterInv, TypeOK
    <2>2. Round[p] >= floor
      BY <1>1, <2>1 DEF WaiterInv, TypeOK
    <2>3. p \in dag \cup waiting[c]
      BY <2>2 DEF WaiterInv, KeepsTrack, Needed, Causal!Needed
    <2> QED
      BY <1>1, <2>3
  <1> QED
    BY <1>1, <1>2 DEF Collect, WaiterInv, TypeOK

LEMMA WaiterNext == WaiterInv /\ [Next]_vars => WaiterInv'
  <1> SUFFICES ASSUME WaiterInv, [Next]_vars PROVE WaiterInv'
    OBVIOUS
  <1>1. ASSUME NEW c \in Cert, Receive(c)
        PROVE  WaiterInv'
    BY <1>1 DEF Receive, WaiterInv, TypeOK, KeepsTrack, Parked, Needed, Causal!Needed
  <1>2. CASE UNCHANGED vars
    BY <1>2 DEF vars, WaiterInv, TypeOK, KeepsTrack, Parked, Needed, Causal!Needed
  <1> QED
    BY <1>1, <1>2, VerifiedKeeps, SealKeeps, PullKeeps, AdvanceKeeps, CollectKeeps DEF Next

\* Every variable keeps its type, and nothing is parked that waits for
\* nothing, in every reachable state.
THEOREM TypeCorrect == Spec => []TypeOK
  <1>1. WaiterInv => TypeOK
    BY DEF WaiterInv
  <1> QED
    BY <1>1, WaiterInit, WaiterNext, PTL DEF Spec
----------------------------------------------------------------------------
\* Until sync writes something, what a parked certificate waits for is not in
\* the DAG.
AwaitsTheMissing == pulled = {} => \A c \in Parked : waiting[c] \cap dag = {}

\* What sync has written is only ever added to, and a sync that has written
\* nothing so far has left the DAG alone.
LEMMA PullsAccumulate ==
    ASSUME [Next]_vars, pulled' = {}
    PROVE  /\ pulled = {}
           /\ \A from \in PullsFrom : \A held \in SUBSET Cert :
                 Pull(from, held) => dag' = dag
  <1>1. ASSUME NEW c \in Cert, Receive(c) \/ Verified(c) \/ Seal(c)
        PROVE  pulled' = pulled
    BY <1>1 DEF Receive, Verified, Seal
  <1>2. CASE Advance \/ UNCHANGED vars
    BY <1>2 DEF Advance, vars
  <1>3. ASSUME NEW cutoff \in 1..MaxRound, Collect(cutoff)
        PROVE  pulled' = pulled
    BY <1>3 DEF Collect
  <1>4. ASSUME NEW from \in PullsFrom, NEW held \in SUBSET Cert, Pull(from, held)
        PROVE  pulled = {} /\ dag' = dag
    <2> DEFINE brought == {c \in held : Round[c] >= from}
    <2>1. pulled' = pulled \cup brought /\ dag' = dag \cup brought
      BY <1>4 DEF Pull
    <2>2. pulled = {} /\ brought = {}
      BY <2>1
    <2> HIDE DEF brought
    <2> QED
      BY <2>1, <2>2
  <1> QED
    BY <1>1, <1>2, <1>3, <1>4 DEF Next

LEMMA AwaitsNext == WaiterInv /\ AwaitsTheMissing /\ [Next]_vars => AwaitsTheMissing'
  <1> SUFFICES ASSUME WaiterInv, AwaitsTheMissing, [Next]_vars, pulled' = {}
               PROVE  (\A c \in Parked : waiting[c] \cap dag = {})'
    BY DEF AwaitsTheMissing
  <1>0. \A c \in Parked : waiting[c] \cap dag = {}
    BY PullsAccumulate DEF AwaitsTheMissing
  <1>1. ASSUME dag' \subseteq dag, waiting' = waiting
        PROVE  (\A c \in Parked : waiting[c] \cap dag = {})'
    BY <1>0, <1>1 DEF Parked
  <1>2. ASSUME NEW c \in Cert, MissingParents(c) = {}, Store(c), floor' = floor
        PROVE  (\A d \in Parked : waiting[d] \cap dag = {})'
    BY <1>0, <1>2, StoreKeeps DEF Store
  <1>3. ASSUME NEW c \in Cert, MissingParents(c) # {}, Park(c), floor' = floor
        PROVE  (\A d \in Parked : waiting[d] \cap dag = {})'
    <2>1. /\ dag' = dag /\ Parked' = Parked \cup {c}
          /\ \A e \in Parked' :
                waiting'[e] = IF e = c THEN MissingParents(c) ELSE waiting[e]
      BY <1>3, ParkKeeps DEF Park
    <2> QED
      BY <1>0, <2>1 DEF MissingParents
  <1>4. ASSUME NEW c \in Cert, Verified(c)
        PROVE  (\A d \in Parked : waiting[d] \cap dag = {})'
    BY <1>1, <1>2, <1>3, <1>4 DEF Verified, Defer
  <1>5. ASSUME NEW c \in Cert, Seal(c)
        PROVE  (\A d \in Parked : waiting[d] \cap dag = {})'
    BY <1>1, <1>2, <1>5 DEF Seal, Defer
  <1>6. CASE Advance
    <2> DEFINE Young == {d \in Parked : Round[d] + Retain >= round + 1}
    <2>1. Parked' = Young /\ \A c \in Young : waiting'[c] = waiting[c]
      BY <1>6 DEF Advance, Parked
    <2> QED
      BY <1>0, <1>6, <2>1 DEF Advance
  <1>7. ASSUME NEW cutoff \in 1..MaxRound, Collect(cutoff)
        PROVE  (\A d \in Parked : waiting[d] \cap dag = {})'
    BY <1>1, <1>7 DEF Collect
  <1>8. ASSUME NEW c \in Cert, Receive(c)
        PROVE  (\A d \in Parked : waiting[d] \cap dag = {})'
    BY <1>1, <1>8 DEF Receive
  <1>9. ASSUME NEW from \in PullsFrom, NEW held \in SUBSET Cert, Pull(from, held)
        PROVE  (\A d \in Parked : waiting[d] \cap dag = {})'
    BY <1>1, <1>9, PullsAccumulate DEF Pull
  <1>10. CASE UNCHANGED vars
    BY <1>1, <1>10 DEF vars
  <1> QED
    BY <1>4, <1>5, <1>6, <1>7, <1>8, <1>9, <1>10 DEF Next

\* Until sync steps in, a parked certificate is never left behind: one whose
\* parents are all in the DAG is no longer parked.
THEOREM NothingIsForgotten == Spec => []ReprocessedWhenParentsLand
  <1>1. Init => AwaitsTheMissing
    BY DEF Init, AwaitsTheMissing, Parked
  <1>2. WaiterInv /\ AwaitsTheMissing => ReprocessedWhenParentsLand
    <2> SUFFICES ASSUME WaiterInv, AwaitsTheMissing, pulled = {}, NEW c \in Parked
                 PROVE  ~(Parents[c] \subseteq dag)
      BY DEF ReprocessedWhenParentsLand
    <2>1. waiting[c] # {} /\ waiting[c] \subseteq Parents[c] /\ waiting[c] \cap dag = {}
      BY DEF WaiterInv, TypeOK, KeepsTrack, AwaitsTheMissing
    <2> QED
      BY <2>1
  <1> QED
    BY <1>1, <1>2, WaiterInit, WaiterNext, AwaitsNext, PTL DEF Spec

\* The waiter implements the causally ordered store with its two writers: each
\* of its steps delivers a complete set, imports, collects, or stutters.
THEOREM ImplementsCausalStore == Spec => StoresCausally
  <1>1. Init => Causal!Init
    BY DEF Init, Causal!Init
  <1>2. WaiterInv /\ [Next]_vars => [Causal!Next]_<<dag, pulled, floor>>
    <2> SUFFICES ASSUME WaiterInv, [Next]_vars
                 PROVE  Causal!Next \/ UNCHANGED <<dag, pulled, floor>>
      OBVIOUS
    <2>1. ASSUME NEW c \in Cert, Store(c) \/ Defer(c) \/ Park(c) \/ dag' = dag,
                 floor' = floor, pulled' = pulled,
                 \A d \in dag' \ dag : Needed(d) \subseteq dag', WaiterInv'
          PROVE  Causal!Next
      <3> DEFINE S == dag' \ dag
      <3>1. dag \subseteq dag'
        BY <2>1 DEF Store, Defer, Park
      <3>2. S \in SUBSET Cert /\ dag' = dag \cup S
        BY <3>1, <2>1 DEF WaiterInv, TypeOK
      <3>3. Causal!Deliver(S)
        BY <3>2, <2>1 DEF Causal!Deliver, Needed
      <3> QED
        BY <3>2, <3>3 DEF Causal!Next
    <2>2. ASSUME NEW c \in Cert, Verified(c) \/ Seal(c)
          PROVE  Causal!Next
      BY <2>1, <2>2, VerifiedKeeps, SealKeeps DEF Verified, Seal
    <2>3. ASSUME NEW cutoff \in 1..MaxRound, Collect(cutoff)
          PROVE  Causal!Next
      BY <2>3, BoundsAreNumbers DEF Collect, Causal!Next, Causal!Collect
    <2>4. ASSUME NEW c \in Cert, Receive(c)
          PROVE  UNCHANGED <<dag, pulled, floor>>
      BY <2>4 DEF Receive
    <2>5. CASE Advance \/ UNCHANGED vars
      BY <2>5 DEF Advance, vars
    <2>6. ASSUME NEW from \in PullsFrom, NEW held \in SUBSET Cert, Pull(from, held)
          PROVE  Causal!Next
      <3> DEFINE S == {c \in held : Round[c] >= from}
      <3>1. S \in SUBSET Cert
        OBVIOUS
      <3>2. Causal!Import(S)
        BY <2>6 DEF Pull, Causal!Import
      <3> QED
        BY <3>1, <3>2 DEF Causal!Next
    <2> QED
      BY <2>2, <2>3, <2>4, <2>5, <2>6 DEF Next
  <1> QED
    BY <1>1, <1>2, WaiterInit, WaiterNext, PTL DEF Spec, StoresCausally, Causal!Spec
----------------------------------------------------------------------------
(* The order of arrival does not matter.  Of a set of accepted certificates *)
(* whose parents are in the set, one of the lowest round that were not in   *)
(* the DAG would be parked, and its missing parent lower still.             *)

LEMMA LowestRound ==
    ASSUME NEW T \in SUBSET Cert, T # {}
    PROVE  \E c \in T : \A d \in T : Round[c] <= Round[d]
  <1> DEFINE Less == OpToRel(<, Nat)
             Rounds == {Round[c] : c \in T}
  <1>1. Rounds \subseteq Nat /\ Rounds # {}
    BY GraphIsTyped
  <1>2. IsWellFoundedOn(Less, Nat)
    BY NatLessThanWellFounded
  <1>3. \A x, y \in Nat : <<y, x>> \in Less <=> y < x
    BY DEF OpToRel
  <1> HIDE DEF Less
  <1>4. PICK x \in Rounds : \A y \in Rounds : ~(<<y, x>> \in Less)
    BY <1>1, <1>2, WFMin
  <1>5. ASSUME NEW y \in Rounds
        PROVE  x <= y
    <2>1. x \in Nat /\ y \in Nat
      BY <1>1
    <2>2. ~(y < x)
      BY <1>3, <1>4, <2>1
    <2> QED
      BY <2>1, <2>2
  <1> QED
    BY <1>5

NothingDropped == pulled = {} /\ floor = 0 /\ round <= Retain

\* What was accepted is in the DAG or parked, and the DAG is complete.
Kept ==
    NothingDropped => /\ dag \subseteq accepted
                      /\ accepted \subseteq dag \cup Parked
                      /\ \A c \in dag : Parents[c] \subseteq dag

LEMMA StoreKept ==
    ASSUME WaiterInv, Kept, NothingDropped, NEW c \in Cert, MissingParents(c) = {},
           Store(c), floor' = floor
    PROVE  /\ dag' \subseteq accepted'
           /\ accepted' \subseteq dag' \cup Parked'
           /\ \A d \in dag' : Parents[d] \subseteq dag'
  <1> DEFINE U == Unblocked(c)
             Left == {e \in Parked : ~(waiting[e] \subseteq U)}
  <1>1. /\ U \subseteq Cert
        /\ \A e \in Parked : waiting[e] \subseteq U => e \in U
    BY UnblockedIsClosed DEF WaiterInv, TypeOK
  <1> HIDE DEF U
  <1>2. dag' = dag \cup U /\ accepted' = accepted \cup U
    BY DEF Store, U
  <1>3. Parked' = Left
    BY DEF Store, Without, Parked, U
  <1>4. Parked \subseteq Left \cup U
    BY <1>1
  <1>5. accepted' \subseteq dag' \cup Parked'
    BY <1>2, <1>3, <1>4 DEF Kept
  <1>6. ASSUME NEW d \in dag' \ dag
        PROVE  Parents[d] \subseteq dag'
    <2>1. Needed(d) \subseteq dag' /\ d \in Cert
      BY StoreKeeps
    <2>2. \A p \in Parents[d] : Round[p] >= floor
      BY <2>1, GraphIsTyped DEF NothingDropped
    <2> QED
      BY <2>1, <2>2 DEF Needed, Causal!Needed
  <1> QED
    BY <1>2, <1>5, <1>6 DEF Kept

LEMMA KeptNext == WaiterInv /\ Kept /\ [Next]_vars => Kept'
  <1> SUFFICES ASSUME WaiterInv, Kept, [Next]_vars, NothingDropped'
               PROVE  /\ (dag \subseteq accepted)'
                      /\ (accepted \subseteq dag \cup Parked)'
                      /\ (\A c \in dag : Parents[c] \subseteq dag)'
    BY DEF Kept
  <1>1. /\ floor \in Nat /\ round \in Nat /\ Retain \in Nat
        /\ pulled = {}
    BY PullsAccumulate, BoundsAreNumbers DEF WaiterInv, TypeOK, NothingDropped
  <1>2. ASSUME NEW c \in Cert, Verified(c) \/ Seal(c)
        PROVE  /\ (dag \subseteq accepted)'
               /\ (accepted \subseteq dag \cup Parked)'
               /\ (\A d \in dag : Parents[d] \subseteq dag)'
    <2>1. NothingDropped
      BY <1>2 DEF Verified, Seal, NothingDropped
    <2>2. CASE UNCHANGED <<dag, waiting, accepted>>
      BY <2>1, <2>2 DEF Kept, Parked
    <2>3. CASE Store(c) /\ MissingParents(c) = {} /\ floor' = floor
      BY <2>1, <2>3, StoreKept
    <2>4. CASE Park(c) /\ MissingParents(c) # {} /\ floor' = floor
      BY <2>1, <2>4, ParkKeeps DEF Park, Kept
    <2>5. CASE Defer(c) /\ c \notin dag
      BY <2>1, <2>5 DEF Defer, Kept, Parked
    <2> QED
      BY <1>2, <2>2, <2>3, <2>4, <2>5 DEF Verified, Seal
  <1>3. CASE Advance
    <2>1. NothingDropped /\ round + 1 <= Retain
      BY <1>1, <1>3 DEF Advance, NothingDropped
    <2>2. \A d \in Parked : Round[d] \in Nat
      BY GraphIsTyped DEF WaiterInv, TypeOK
    <2>3. Parked' = Parked
      BY <1>1, <1>3, <2>1, <2>2 DEF Advance, Parked
    <2> QED
      BY <1>3, <2>1, <2>3 DEF Advance, Kept
  <1>4. ASSUME NEW cutoff \in 1..MaxRound, Collect(cutoff)
        PROVE  FALSE
    BY <1>1, <1>4, BoundsAreNumbers DEF Collect, NothingDropped
  <1>5. ASSUME NEW c \in Cert, Receive(c)
        PROVE  UNCHANGED <<dag, waiting, accepted, round, floor>>
    BY <1>5 DEF Receive
  <1>6. CASE UNCHANGED <<dag, waiting, accepted, round, floor>>
    BY <1>1, <1>6 DEF Kept, NothingDropped, Parked
  <1>7. ASSUME NEW from \in PullsFrom, NEW held \in SUBSET Cert, Pull(from, held)
        PROVE  UNCHANGED <<dag, waiting, accepted, round, floor>>
    BY <1>7, PullsAccumulate DEF Pull, NothingDropped
  <1>8. CASE UNCHANGED vars
    BY <1>6, <1>8 DEF vars
  <1> QED
    BY <1>2, <1>3, <1>4, <1>5, <1>6, <1>7, <1>8 DEF Next

\* Until sync steps in or something is old enough to be dropped, the
\* DAG holds every certificate whose whole ancestry was accepted, whatever
\* order, copies and delays they arrived with.
THEOREM OrderDoesNotMatter == Spec => []HoldsAllItCan
  <1>1. Init => AwaitsTheMissing /\ Kept
    BY DEF Init, AwaitsTheMissing, Parked, Kept
  <1>2. WaiterInv /\ AwaitsTheMissing /\ Kept => HoldsAllItCan
    <2> SUFFICES ASSUME WaiterInv, AwaitsTheMissing, Kept, NothingDropped
                 PROVE  dag = Grounded(accepted)
      BY DEF HoldsAllItCan, NothingDropped
    <2>1. dag \subseteq Grounded(accepted)
      BY DEF Kept, Grounded
    <2>2. ASSUME NEW S \in SUBSET accepted, \A c \in S : Parents[c] \subseteq S
          PROVE  S \subseteq dag
      <3> SUFFICES ASSUME S \ dag # {} PROVE FALSE
        OBVIOUS
      <3>1. S \ dag \in SUBSET Cert
        BY DEF WaiterInv, TypeOK
      <3>2. PICK c \in S \ dag : \A d \in S \ dag : Round[c] <= Round[d]
        BY <3>1, LowestRound
      <3>3. c \in Parked /\ c \in Cert
        BY <3>1, <3>2 DEF Kept
      <3>4. PICK p \in waiting[c] : p \in Parents[c] /\ p \notin dag
        BY <3>3 DEF WaiterInv, TypeOK, KeepsTrack, AwaitsTheMissing, NothingDropped
      <3>5. p \in S \ dag /\ Round[p] < Round[c]
        BY <2>2, <3>2, <3>3, <3>4, ParentsAreOlder
      <3>6. Round[p] \in Nat /\ Round[c] \in Nat
        BY <3>1, <3>3, <3>5, GraphIsTyped
      <3> QED
        BY <3>2, <3>5, <3>6
    <2> QED
      BY <2>1, <2>2 DEF Grounded
  <1> QED
    BY <1>1, <1>2, WaiterInit, WaiterNext, AwaitsNext, KeptNext, PTL DEF Spec
===========================================================================
