---------------------------- MODULE ClaimsProofs ----------------------------
(***************************************************************************)
(* What holds of a claim for any number of requests, proved with TLAPS: of *)
(* two requests neither loses the bytes of its run to the other's release  *)
(* or to the sweep, whoever dies with a name aside.                        *)
(***************************************************************************)
EXTENDS Claims, FiniteSetTheorems, TLAPS

\* The requests that were sent.
Active == {r \in Requests : ~At(r, "idle")}
\* At most two were.
Pair == Cardinality(Active) <= 2

Releasing == {"final", "aside", "compare", "unlink"}
Over(r) == pc[r] \in {"done", "dead"}

\* A request that is releasing created the claim, and its operation ended; one that has
\* not put yet has neither.
RouteInv ==
  \A r \in Requests :
    /\ pc[r] \in Releasing => r \in created /\ op[r] = "ended"
    /\ pc[r] \in {"idle", "temp", "replace"} => r \notin created /\ op[r] = "none"
    /\ aside[r] # NoFile => pc[r] \in {"compare", "unlink"}

\* What the sweep may take was put by a request that is over.
OldInv ==
  /\ \A r \in old : Over(r) /\ op[r] \in {"none", "ended"}
  /\ found \in old \union {NoFile}

\* A request that has not put has no file.
PlaceInv ==
  \A r \in Requests : pc[r] \in {"idle", "temp", "replace"} =>
    path # r /\ r \notin left /\ \A m \in Movers : aside[m] # r

\* What a dead mover or the sweep has aside of a request that counts on it, it has because
\* another request is over.
LeftInv ==
  \A r \in Requests : Holds(r) /\ (r \in left \/ aside[Sweep] = r) =>
    \E x \in Requests \ {r} : Over(x)

\* Where q's bytes are while it counts on them: at the path, aside with a mover that will
\* link them back or with a dead one while the path is empty, or in a file of one that
\* renewed the claim and will not release it.
Safe(q) ==
  \/ path = q
  \/ path = NoFile /\ (q \in left \/ \E m \in Movers \ {q} : aside[m] = q /\ Comparing(m))
  \/ \E r \in Requests \ {q} : path = r /\ r \notin created /\ r \notin old

PairInv == Pair => \A q \in Requests : Holds(q) => Safe(q)

IInv == RouteInv /\ OldInv /\ PlaceInv /\ LeftInv /\ IsFiniteSet(Active) /\ PairInv

-----------------------------------------------------------------------------
(***************************************************************************)
(* Types                                                                   *)
(***************************************************************************)
LEMMA TypeStep == TypeOK /\ [Next]_vars => TypeOK'
<1> SUFFICES ASSUME TypeOK, [Next]_vars PROVE TypeOK'
  OBVIOUS
<1> USE DEF TypeOK, Files, Movers, Goto
<1>1. ASSUME NEW r \in Requests, RequestStep(r) PROVE TypeOK'
  <2>1. CASE Write(r) \/ Link(r) \/ Replace(r)
    BY <2>1 DEF Write, Link, Replace, Pcs
  <2>2. CASE Accept(r) \/ Record(r) \/ End(r)
    BY <2>2 DEF Accept, Record, End, Ops
  <2>3. CASE AnswerRoute(r) \/ CheckNamed(r)
    BY <2>3 DEF AnswerRoute, CheckNamed, Pcs, Ops
  <2>4. CASE ReleaseMove(r) \/ ReleaseCompare(r) \/ ReleaseUnlink(r)
    BY <2>4 DEF ReleaseMove, ReleaseCompare, ReleaseUnlink, MoveAside, PutBackUnless, Unlink, Pcs
  <2> QED
    BY <1>1, <2>1, <2>2, <2>3, <2>4 DEF RequestStep
<1>2. ASSUME NEW r \in Requests, Age(r) \/ Crash(r) PROVE TypeOK'
  BY <1>2 DEF Age, Crash, Leaves, Pcs, Ops
<1>3. CASE SweepStep \/ SweepCrash
  BY <1>3 DEF SweepStep, SweepStat, SweepMove, SweepCompare, SweepUnlink, SweepLeftover, SweepCrash,
     Leaves, MoveAside, PutBackUnless, Unlink
<1>4. CASE UNCHANGED vars
  BY <1>4 DEF vars
<1> QED
  BY <1>1, <1>2, <1>3, <1>4 DEF Next

\* Every variable has its type, however many requests carry the bytes.
THEOREM TypeCorrect == Spec => []TypeOK
<1>1. Init => TypeOK
  BY DEF Init, TypeOK, Files, Movers, Pcs, Ops
<1> QED
  BY <1>1, TypeStep, PTL DEF Spec

(***************************************************************************)
(* The route, the sweep's list and the places of a file                    *)
(***************************************************************************)
LEMMA RouteStep == TypeOK /\ RouteInv /\ [Next]_vars => RouteInv'
<1> SUFFICES ASSUME TypeOK, RouteInv, [Next]_vars PROVE RouteInv'
  OBVIOUS
<1> USE NamesAssumption DEF TypeOK, Files, Movers, Goto, At, RouteInv, Releasing
<1>1. ASSUME NEW r \in Requests, RequestStep(r) PROVE RouteInv'
  <2>1. CASE Write(r) \/ Link(r) \/ Replace(r)
    BY <2>1 DEF Write, Link, Replace
  <2>2. CASE Accept(r) \/ Record(r) \/ End(r)
    BY <2>2 DEF Accept, Record, End
  <2>3. CASE AnswerRoute(r) \/ CheckNamed(r)
    BY <2>3 DEF AnswerRoute, CheckNamed
  <2>4. CASE ReleaseMove(r) \/ ReleaseCompare(r) \/ ReleaseUnlink(r)
    BY <2>4 DEF ReleaseMove, ReleaseCompare, ReleaseUnlink, MoveAside, PutBackUnless, Unlink
  <2> QED
    BY <1>1, <2>1, <2>2, <2>3, <2>4 DEF RequestStep
<1>2. ASSUME NEW r \in Requests, Age(r) \/ Crash(r) PROVE RouteInv'
  BY <1>2 DEF Age, Crash, Leaves
<1>3. CASE SweepStep \/ SweepCrash
  BY <1>3 DEF SweepStep, SweepStat, SweepMove, SweepCompare, SweepUnlink, SweepLeftover, SweepCrash,
     Leaves, MoveAside, PutBackUnless, Unlink
<1>4. CASE UNCHANGED vars
  BY <1>4 DEF vars
<1> QED
  BY <1>1, <1>2, <1>3, <1>4 DEF Next

LEMMA OldStep == TypeOK /\ OldInv /\ [Next]_vars => OldInv'
<1> SUFFICES ASSUME TypeOK, OldInv, [Next]_vars PROVE OldInv'
  OBVIOUS
<1> USE NamesAssumption DEF TypeOK, Files, Movers, Goto, At, OldInv, Over
<1>1. ASSUME NEW r \in Requests, RequestStep(r) PROVE OldInv'
  <2>1. CASE Write(r) \/ Link(r) \/ Replace(r)
    BY <2>1 DEF Write, Link, Replace
  <2>2. CASE Accept(r) \/ Record(r) \/ End(r)
    BY <2>2 DEF Accept, Record, End
  <2>3. CASE AnswerRoute(r) \/ CheckNamed(r)
    BY <2>3 DEF AnswerRoute, CheckNamed
  <2>4. CASE ReleaseMove(r) \/ ReleaseCompare(r) \/ ReleaseUnlink(r)
    BY <2>4 DEF ReleaseMove, ReleaseCompare, ReleaseUnlink, MoveAside, PutBackUnless, Unlink
  <2> QED
    BY <1>1, <2>1, <2>2, <2>3, <2>4 DEF RequestStep
<1>2. ASSUME NEW r \in Requests, Age(r) \/ Crash(r) PROVE OldInv'
  BY <1>2 DEF Age, Crash, Leaves
<1>3. CASE SweepStep \/ SweepCrash
  BY <1>3 DEF SweepStep, SweepStat, SweepMove, SweepCompare, SweepUnlink, SweepLeftover, SweepCrash,
     Leaves, MoveAside, PutBackUnless, Unlink
<1>4. CASE UNCHANGED vars
  BY <1>4 DEF vars
<1> QED
  BY <1>1, <1>2, <1>3, <1>4 DEF Next

LEMMA PlaceStep == TypeOK /\ RouteInv /\ PlaceInv /\ [Next]_vars => PlaceInv'
<1> SUFFICES ASSUME TypeOK, RouteInv, PlaceInv, [Next]_vars PROVE PlaceInv'
  OBVIOUS
<1> USE NamesAssumption DEF TypeOK, Files, Movers, Goto, At, PlaceInv
<1>1. ASSUME NEW r \in Requests, RequestStep(r) PROVE PlaceInv'
  <2>1. CASE Write(r) \/ Link(r) \/ Replace(r)
    BY <2>1 DEF Write, Link, Replace
  <2>2. CASE Accept(r) \/ Record(r) \/ End(r)
    BY <2>2 DEF Accept, Record, End
  <2>3. CASE AnswerRoute(r) \/ CheckNamed(r)
    BY <2>3 DEF AnswerRoute, CheckNamed
  <2>4. CASE ReleaseMove(r) \/ ReleaseCompare(r) \/ ReleaseUnlink(r)
    BY <2>4 DEF ReleaseMove, ReleaseCompare, ReleaseUnlink, MoveAside, PutBackUnless, Unlink
  <2> QED
    BY <1>1, <2>1, <2>2, <2>3, <2>4 DEF RequestStep
<1>2. ASSUME NEW r \in Requests, Age(r) \/ Crash(r) PROVE PlaceInv'
  BY <1>2 DEF Age, Crash, Leaves
<1>3. CASE SweepStep \/ SweepCrash
  BY <1>3 DEF SweepStep, SweepStat, SweepMove, SweepCompare, SweepUnlink, SweepLeftover, SweepCrash,
     Leaves, MoveAside, PutBackUnless, Unlink
<1>4. CASE UNCHANGED vars
  BY <1>4 DEF vars
<1> QED
  BY <1>1, <1>2, <1>3, <1>4 DEF Next

(***************************************************************************)
(* Two requests                                                            *)
(***************************************************************************)
\* A set of at most two has no third.
LEMMA NoThird ==
  ASSUME NEW S, IsFiniteSet(S), Cardinality(S) <= 2,
         NEW x \in S, NEW y \in S, NEW z \in S, x # y, x # z, y # z
  PROVE  FALSE
<1>1. IsFiniteSet({x, y}) /\ Cardinality({x, y}) = 2
  <2>1. IsFiniteSet({x}) /\ Cardinality({x}) = 1
    BY FS_Singleton
  <2>2. IsFiniteSet({x} \union {y}) /\ Cardinality({x} \union {y}) = Cardinality({x}) + 1
    <3> DEFINE T == {x}
    <3>1. y \notin T /\ IsFiniteSet(T)
      BY <2>1
    <3> HIDE DEF T
    <3>2. IsFiniteSet(T \union {y})
          /\ Cardinality(T \union {y}) = IF y \in T THEN Cardinality(T) ELSE Cardinality(T) + 1
      BY <3>1, FS_AddElement, Zenon
    <3>3. IsFiniteSet(T \union {y}) /\ Cardinality(T \union {y}) = Cardinality(T) + 1
      BY <3>1, <3>2
    <3> QED
      BY <3>3 DEF T
  <2>3. {x} \union {y} = {x, y}
    OBVIOUS
  <2> QED
    BY <2>1, <2>2, <2>3
<1>2. Cardinality({x, y} \union {z}) = 3
  <2> DEFINE T == {x, y}
  <2>1. z \notin T /\ IsFiniteSet(T) /\ Cardinality(T) = 2
    BY <1>1
  <2> HIDE DEF T
  <2>2. Cardinality(T \union {z}) = IF z \in T THEN Cardinality(T) ELSE Cardinality(T) + 1
    BY <2>1, FS_AddElement, Zenon
  <2>3. Cardinality(T \union {z}) = 3
    BY <2>1, <2>2
  <2> QED
    BY <2>3 DEF T
<1>3. {x, y} \union {z} \subseteq S
  OBVIOUS
<1>4. Cardinality({x, y} \union {z}) <= Cardinality(S) /\ Cardinality(S) \in Nat
  BY <1>3, FS_Subset, FS_CardinalityType
<1> QED
  BY <1>2, <1>4

\* A request sent stays sent, and a step sends one at most.
LEMMA ActiveStep ==
  ASSUME TypeOK, IsFiniteSet(Active), [Next]_vars
  PROVE  /\ Active \subseteq Active' /\ IsFiniteSet(Active')
         /\ Pair' => Pair
<1>1. ASSUME NEW r \in Requests, Write(r) PROVE Active' = Active \union {r}
  BY <1>1 DEF Write, Active, At, Goto, TypeOK
<1>2. ASSUME \A r \in Requests : pc'[r] = "idle" <=> pc[r] = "idle" PROVE Active' = Active
  BY <1>2 DEF Active, At
<1>3. (\E r \in Requests : Write(r)) \/ (\A r \in Requests : pc'[r] = "idle" <=> pc[r] = "idle")
  BY DEF Next, RequestStep, Link, Replace, Accept, Record, End, AnswerRoute, CheckNamed,
     ReleaseMove, ReleaseCompare, ReleaseUnlink, SweepStep, SweepStat, SweepMove, SweepCompare,
     SweepUnlink, SweepLeftover, SweepCrash, Age, Crash, Goto, At, TypeOK, vars
<1>4. Active \subseteq Active'
  BY <1>1, <1>2, <1>3 DEF Active, At
<1>5. IsFiniteSet(Active')
  BY <1>1, <1>2, <1>3, FS_AddElement DEF Active, At
<1>6. Cardinality(Active) <= Cardinality(Active') /\ Cardinality(Active) \in Nat
      /\ Cardinality(Active') \in Nat
  BY <1>4, <1>5, FS_Subset, FS_CardinalityType
<1> QED
  BY <1>4, <1>5, <1>6 DEF Pair

\* A pair has no third request, whoever they are.
LEMMA OnlyTwo ==
  ASSUME IsFiniteSet(Active), Pair, NEW x \in Requests, NEW y \in Requests, NEW z \in Requests,
         x # y, x # z, y # z, pc[x] # "idle", pc[y] # "idle", pc[z] # "idle"
  PROVE  FALSE
<1>1. x \in Active /\ y \in Active /\ z \in Active
  BY DEF Active, At
<1> QED
  BY <1>1, NoThird DEF Pair

\* While q counts on its bytes, it is neither releasing nor over, and the sweep's file is
\* another's.
LEMMA Counting ==
  ASSUME TypeOK, RouteInv, OldInv, NEW q \in Requests, Holds(q)
  PROVE  /\ pc[q] \notin {"idle", "temp", "replace"} \union Releasing
         /\ aside[q] = NoFile /\ q \notin old /\ found # q
<1>1. pc[q] \notin {"idle", "temp", "replace"} \union Releasing
  BY DEF RouteInv, Holds, At, Releasing
<1>2. aside[q] = NoFile
  BY <1>1 DEF RouteInv, Releasing
<1>3. q \notin old
  BY DEF OldInv, Over, Holds, At
<1> QED
  BY <1>1, <1>2, <1>3, NamesAssumption DEF OldInv

\* Whoever a step makes count on its bytes has just put them.
LEMMA HoldsStep ==
  ASSUME TypeOK, RouteInv, [Next]_vars, NEW q \in Requests, ~Holds(q), Holds(q)'
  PROVE  /\ path' = q /\ UNCHANGED <<aside, left>>
         /\ pc[q] \in {"temp", "replace"}
<1>1. ASSUME NEW r \in Requests, RequestStep(r)
      PROVE  path' = q /\ UNCHANGED <<aside, left>> /\ pc[q] \in {"temp", "replace"}
  BY <1>1 DEF RequestStep, Write, Link, Replace, Accept, Record, End, AnswerRoute, CheckNamed,
     ReleaseMove, ReleaseCompare, ReleaseUnlink, Holds, At, Goto, TypeOK
<1>2. ~(\E r \in Requests : Age(r) \/ Crash(r)) /\ ~SweepStep /\ ~SweepCrash /\ ~UNCHANGED vars
  BY DEF Age, Crash, SweepStep, SweepStat, SweepMove, SweepCompare, SweepUnlink, SweepLeftover,
     SweepCrash, vars, Holds, At, Goto, TypeOK
<1> QED
  BY <1>1, <1>2 DEF Next

\* A file gets a name that outlives its mover, or one with the sweep, only while another
\* request is over: the one whose release died, or whose old claim the sweep came for.
LEMMA LeftStep ==
  ASSUME TypeOK, RouteInv, OldInv, PlaceInv, LeftInv, [Next]_vars
  PROVE  LeftInv'
<1> USE NamesAssumption
<1> SUFFICES ASSUME NEW q \in Requests, Holds(q)', q \in left' \/ aside'[Sweep] = q
             PROVE  \E x \in Requests \ {q} : Over(x)'
  BY DEF LeftInv
<1>1. \A x \in Requests : Over(x) => Over(x)'
  BY DEF Over, Next, RequestStep, Write, Link, Replace, Accept, Record, End, AnswerRoute,
     CheckNamed, ReleaseMove, ReleaseCompare, ReleaseUnlink, SweepStep, SweepStat, SweepMove,
     SweepCompare, SweepUnlink, SweepLeftover, SweepCrash, Age, Crash, Goto, At, TypeOK, vars
<1>2. Holds(q)
  BY HoldsStep DEF PlaceInv, Movers
<1>3. CASE q \in left \/ aside[Sweep] = q
  BY <1>1, <1>2, <1>3 DEF LeftInv
<1>4. CASE ~(q \in left \/ aside[Sweep] = q)
  <2>1. ASSUME NEW r \in Requests, RequestStep(r) PROVE FALSE
    <3>1. UNCHANGED left /\ aside'[Sweep] = aside[Sweep]
      BY <2>1 DEF RequestStep, Write, Link, Replace, Accept, Record, End, AnswerRoute, CheckNamed,
         ReleaseMove, ReleaseCompare, ReleaseUnlink, MoveAside, Unlink, TypeOK, Movers
    <3> QED
      BY <1>4, <3>1
  <2>2. ASSUME NEW r \in Requests, Age(r) PROVE FALSE
    BY <1>4, <2>2 DEF Age
  <2>3. ASSUME NEW r \in Requests, Crash(r) PROVE \E x \in Requests \ {q} : Over(x)'
    <3>1. aside'[Sweep] = aside[Sweep]
      BY <2>3 DEF Crash, Leaves, TypeOK, Movers
    <3>2. aside[r] = q
      BY <1>4, <2>3, <3>1 DEF Crash, Leaves
    <3>3. r # q /\ pc'[r] = "dead"
      BY <1>2, <2>3, <3>2, Counting DEF Crash, Goto, TypeOK
    <3> QED
      BY <3>3 DEF Over
  <2>4. CASE SweepMove /\ path # NoFile
    <3>1. found \in old /\ found \in Requests /\ found # q /\ Over(found)
      BY <1>2, <2>4, Counting DEF SweepMove, OldInv, TypeOK
    <3> QED
      BY <1>1, <3>1
  <2>5. CASE (SweepMove /\ path = NoFile) \/ SweepStat \/ SweepCompare
    BY <1>4, <2>5 DEF SweepMove, SweepStat, SweepCompare
  <2>6. CASE SweepUnlink \/ SweepCrash
    BY <1>4, <2>6 DEF SweepUnlink, SweepCrash, Unlink, Leaves, TypeOK, Movers
  <2>7. ASSUME NEW f \in Requests, SweepLeftover(f) PROVE FALSE
    BY <1>4, <2>7 DEF SweepLeftover
  <2>8. CASE UNCHANGED vars
    BY <1>4, <2>8 DEF vars
  <2> QED
    BY <2>1, <2>2, <2>3, <2>4, <2>5, <2>6, <2>7, <2>8 DEF Next, SweepStep
<1> QED
  BY <1>3, <1>4

\* Beside the request that counts on its bytes there is one other: of a mover that compares
\* and a request that is not over, one is the other.
LEMMA OneOther ==
  ASSUME TypeOK, IInv, Pair, NEW q \in Requests, Holds(q),
         NEW m \in Movers, m # q, Comparing(m),
         NEW r \in Requests, r # q, pc[r] \notin {"idle", "done", "dead"}
  PROVE  m = r
<1>1. pc[q] # "idle"
  BY Counting DEF IInv
<1>2. CASE m \in Requests
  <2>1. pc[m] = "compare"
    BY <1>2, NamesAssumption DEF Comparing, At
  <2> QED
    BY <1>1, <1>2, <2>1, OnlyTwo DEF IInv
<1>3. CASE m = Sweep
  <2>1. found \in Requests /\ found # q /\ Over(found)
    BY <1>3, Counting DEF IInv, OldInv, Comparing, TypeOK
  <2> QED
    BY <1>1, <2>1, OnlyTwo DEF IInv, Over
<1> QED
  BY <1>2, <1>3 DEF Movers

\* The same of two movers.
LEMMA OneMover ==
  ASSUME TypeOK, IInv, Pair, NEW q \in Requests, Holds(q),
         NEW m \in Movers, m # q, Comparing(m),
         NEW n \in Movers, n # q, Comparing(n)
  PROVE  m = n
<1>1. ASSUME NEW r \in Requests, Comparing(r) PROVE pc[r] = "compare"
  BY <1>1, NamesAssumption DEF Comparing, At
<1>2. CASE m \in Requests
  BY <1>1, <1>2, OneOther
<1>3. CASE n \in Requests
  BY <1>1, <1>3, OneOther
<1> QED
  BY <1>2, <1>3 DEF Movers

\* A file that a dead mover left is of a request whose only companion is over.
LEMMA NoneBesideLeft ==
  ASSUME TypeOK, IInv, Pair, NEW q \in Requests, Holds(q), q \in left,
         NEW r \in Requests, r # q, pc[r] \notin {"idle", "done", "dead"}
  PROVE  FALSE
<1>1. PICK x \in Requests \ {q} : Over(x)
  BY DEF IInv, LeftInv
<1>2. pc[q] # "idle" /\ x # r /\ pc[x] # "idle"
  BY <1>1, Counting DEF IInv, Over
<1> QED
  BY <1>1, <1>2, OnlyTwo DEF IInv

LEMMA PairMove ==
  ASSUME TypeOK, IInv, Pair, NEW q \in Requests, Holds(q), Safe(q),
         NEW m \in Movers, path # NoFile, MoveAside(m), m # q,
         m \in Requests => pc[m] = "aside" /\ pc'[m] = "compare",
         m = Sweep => found # NoFile /\ found' # NoFile,
         UNCHANGED <<old, created>>
  PROVE  Safe(q)'
<1> USE NamesAssumption
<1>1. CASE path = q
  <2>1. aside'[m] = q /\ path' = NoFile
    BY <1>1 DEF MoveAside, TypeOK
  <2>2. Comparing(m)'
    BY <2>1 DEF Comparing, Movers, At
  <2> QED
    BY <2>1, <2>2 DEF Safe
<1>2. ASSUME NEW r \in Requests \ {q}, path = r, r \notin created, r \notin old PROVE FALSE
  <2>1. pc[r] # "idle" /\ pc[q] # "idle"
    BY <1>2, Counting DEF IInv, PlaceInv
  <2>2. CASE m \in Requests
    <3>1. m # r
      BY <1>2, <2>2 DEF IInv, RouteInv, Releasing
    <3> QED
      BY <1>2, <2>1, <2>2, <3>1, OnlyTwo DEF IInv
  <2>3. CASE m = Sweep
    <3>1. found \in old /\ found \in Requests /\ Over(found) /\ found # r /\ found # q
      BY <1>2, <2>3, Counting DEF IInv, OldInv, TypeOK
    <3> QED
      BY <1>2, <2>1, <3>1, OnlyTwo DEF IInv, Over
  <2> QED
    BY <2>2, <2>3 DEF Movers
<1> QED
  BY <1>1, <1>2 DEF Safe

LEMMA PairPutBack ==
  ASSUME TypeOK, IInv, Pair, NEW q \in Requests, Holds(q), Safe(q),
         NEW m \in Movers, m # q, Comparing(m),
         NEW mine \in BOOLEAN, mine => aside[m] = m \/ aside[m] \in old,
         m = Sweep /\ aside[m] = found /\ found \in old => mine,
         PutBackUnless(m, mine), UNCHANGED <<aside, left, old, created>>
  PROVE  Safe(q)'
<1> USE NamesAssumption
<1>1. CASE path # NoFile
  <2>1. path' = path
    BY <1>1 DEF PutBackUnless
  <2> QED
    BY <1>1, <2>1 DEF Safe
<1>2. ASSUME path = NoFile, NEW n \in Movers \ {q}, aside[n] = q, Comparing(n) PROVE Safe(q)'
  <2>1. n = m
    BY <1>2, OneMover
  <2>2. ~mine
    BY <1>2, <2>1, Counting DEF IInv
  <2> QED
    BY <1>2, <2>1, <2>2 DEF PutBackUnless, Safe
<1>3. CASE path = NoFile /\ q \in left
  <2>1. m = Sweep
    BY <1>3, NoneBesideLeft DEF Comparing, Movers, At
  <2>2. found \in old /\ found \in Requests /\ found # q /\ Over(found)
    BY <2>1, Counting DEF Comparing, IInv, OldInv, TypeOK
  <2>3. aside[m] \in Requests /\ pc[aside[m]] # "idle"
    BY DEF Comparing, TypeOK, Files, IInv, PlaceInv
  <2>4. aside[m] \in {q, found}
    BY <2>2, <2>3, OnlyTwo, Counting DEF IInv, Over
  <2>5. path' \in {q, NoFile}
    BY <1>3, <2>1, <2>2, <2>4 DEF PutBackUnless
  <2> QED
    BY <1>3, <2>5 DEF Safe
<1> QED
  BY <1>1, <1>2, <1>3 DEF Safe

\* A step that leaves the path, the files' owners and whoever compares alone.
LEMMA PairStill ==
  ASSUME NEW q \in Requests, Safe(q), UNCHANGED <<path, old, created>>,
         q \in left => q \in left',
         \A m \in Movers : aside[m] = q /\ Comparing(m) =>
            q \in left' \/ (aside'[m] = q /\ Comparing(m)')
  PROVE  Safe(q)'
BY DEF Safe

\* While q counts on its bytes, no step of another takes them.
LEMMA SafeStep ==
  ASSUME TypeOK, IInv, Pair, [Next]_vars, NEW q \in Requests, Holds(q), Safe(q), Holds(q)'
  PROVE  Safe(q)'
<1> USE NamesAssumption
<1>0. aside[q] = NoFile /\ pc[q] \notin {"idle", "temp", "replace"} \union Releasing /\ q \notin old
  BY Counting DEF IInv
<1>1. ASSUME NEW r \in Requests, RequestStep(r) PROVE Safe(q)'
  <2>1. CASE Link(r) /\ path = NoFile
    <3>1. r # q /\ pc[r] = "temp"
      BY <1>0, <2>1 DEF Link, At
    <3>2. q \notin left
      BY <3>1, NoneBesideLeft
    <3>3. PICK n \in Movers \ {q} : aside[n] = q /\ Comparing(n)
      BY <2>1, <3>2 DEF Safe
    <3>4. n = r
      BY <3>1, <3>3, OneOther
    <3> QED
      BY <3>1, <3>3, <3>4 DEF Comparing, At
  <2>2. CASE Replace(r)
    <3>1. r # q /\ pc[r] = "replace" /\ r \notin created /\ r \notin old
      BY <1>0, <2>2 DEF Replace, At, IInv, RouteInv, OldInv, Over
    <3> QED
      BY <2>2, <3>1 DEF Replace, Safe
  <2>3. CASE ReleaseMove(r) /\ path # NoFile
    <3>1. r # q /\ pc[r] = "aside" /\ pc'[r] = "compare" /\ r \in Movers /\ r # Sweep
      BY <1>0, <2>3 DEF ReleaseMove, At, Goto, Movers, Releasing, TypeOK
    <3> QED
      BY <2>3, <3>1, PairMove DEF ReleaseMove
  <2>4. CASE ReleaseCompare(r)
    <3>1. r # q /\ r \in Movers /\ r # Sweep /\ pc[r] = "compare"
      BY <1>0, <2>4 DEF ReleaseCompare, At, Movers, Releasing
    <3>2. CASE aside[r] = NoFile
      <4>1. UNCHANGED path
        BY <2>4, <3>2 DEF ReleaseCompare, PutBackUnless, TypeOK, Files
      <4>2. \A m \in Movers : aside[m] = q /\ Comparing(m) => m # r /\ Comparing(m)'
        BY <2>4, <3>2 DEF ReleaseCompare, Comparing, At, Goto, Movers, TypeOK
      <4> QED
        BY <2>4, <4>1, <4>2, PairStill DEF ReleaseCompare
    <3>3. CASE aside[r] # NoFile
      BY <2>4, <3>1, <3>3, PairPutBack DEF ReleaseCompare, Comparing, At
    <3> QED
      BY <3>2, <3>3
  <2>5. CASE ReleaseUnlink(r)
    <3>1. \A m \in Movers : aside[m] = q /\ Comparing(m) => aside'[m] = q /\ Comparing(m)'
      BY <2>5 DEF ReleaseUnlink, Unlink, Comparing, At, Goto, Movers, TypeOK
    <3> QED
      BY <2>5, <3>1, PairStill DEF ReleaseUnlink
  <2>6. CASE (Link(r) /\ path # NoFile) \/ (ReleaseMove(r) /\ path = NoFile) \/ Write(r)
             \/ Accept(r) \/ Record(r) \/ End(r) \/ AnswerRoute(r) \/ CheckNamed(r)
    <3>1. UNCHANGED <<path, aside, left, old, created, found>>
      BY <2>6 DEF Link, ReleaseMove, Write, Accept, Record, End, AnswerRoute, CheckNamed
    <3>2. \A x \in Requests : pc[x] = "compare" => pc'[x] = "compare"
      BY <2>6 DEF Link, ReleaseMove, Write, Accept, Record, End, AnswerRoute, CheckNamed, At, Goto,
         TypeOK
    <3>3. \A m \in Movers : Comparing(m) => Comparing(m)'
      BY <3>1, <3>2 DEF Comparing, At, Movers
    <3> QED
      BY <3>1, <3>3, PairStill
  <2> QED
    BY <1>1, <2>1, <2>2, <2>3, <2>4, <2>5, <2>6 DEF RequestStep
<1>2. ASSUME NEW r \in Requests, Age(r) PROVE FALSE
  BY <1>2, Counting DEF Age, IInv, Holds, At
<1>3. ASSUME NEW r \in Requests, Crash(r) PROVE Safe(q)'
  <2>1. \A m \in Movers : aside[m] = q /\ Comparing(m) =>
           q \in left' \/ (aside'[m] = q /\ Comparing(m)')
    BY <1>3 DEF Crash, Leaves, Comparing, At, Goto, Movers, TypeOK
  <2> QED
    BY <1>3, <2>1, PairStill DEF Crash, Leaves
<1>4. CASE SweepMove /\ path # NoFile
  <2>1. Sweep \in Movers /\ Sweep # q /\ Sweep \notin Requests
    BY DEF Movers
  <2> QED
    BY <1>4, <2>1, PairMove DEF SweepMove
<1>5. CASE SweepCompare
  <2>1. Sweep \in Movers /\ Sweep # q /\ Comparing(Sweep)
    BY <1>5 DEF Movers, SweepCompare, Comparing
  <2> QED
    BY <1>5, <2>1, PairPutBack DEF SweepCompare
<1>6. CASE SweepStat \/ (SweepMove /\ path = NoFile) \/ SweepUnlink \/ SweepCrash
  <2>1. \A m \in Movers : aside[m] = q /\ Comparing(m) =>
           q \in left' \/ (aside'[m] = q /\ Comparing(m)')
    BY <1>6 DEF SweepStat, SweepMove, SweepUnlink, SweepCrash, Unlink, Leaves, Comparing, At,
       Movers, TypeOK, Files
  <2> QED
    BY <1>6, <2>1, PairStill DEF SweepStat, SweepMove, SweepUnlink, SweepCrash, Leaves
<1>7. ASSUME NEW f \in Requests, SweepLeftover(f) PROVE Safe(q)'
  <2>1. f # q
    BY <1>0, <1>7 DEF SweepLeftover
  <2>2. \A m \in Movers : Comparing(m) => Comparing(m)'
    BY <1>7 DEF SweepLeftover, Comparing, At
  <2> QED
    BY <1>7, <2>1, <2>2, PairStill DEF SweepLeftover
<1>8. CASE UNCHANGED vars
  <2>1. \A m \in Movers : Comparing(m) => Comparing(m)'
    BY <1>8 DEF vars, Comparing, At
  <2> QED
    BY <1>8, <2>1, PairStill DEF vars
<1> QED
  BY <1>1, <1>2, <1>3, <1>4, <1>5, <1>6, <1>7, <1>8 DEF Next, SweepStep

LEMMA StepInv == TypeOK /\ IInv /\ [Next]_vars => IInv'
<1> SUFFICES ASSUME TypeOK, IInv, [Next]_vars PROVE IInv'
  OBVIOUS
<1>1. RouteInv' /\ OldInv' /\ PlaceInv' /\ LeftInv'
  BY RouteStep, OldStep, PlaceStep, LeftStep DEF IInv
<1>2. IsFiniteSet(Active')
  BY ActiveStep DEF IInv
<1>3. PairInv'
  <2> SUFFICES ASSUME Pair', NEW q \in Requests, Holds(q)' PROVE Safe(q)'
    BY DEF PairInv
  <2>1. Pair
    BY ActiveStep DEF IInv
  <2>2. CASE Holds(q)
    BY <2>1, <2>2, SafeStep DEF IInv, PairInv
  <2>3. CASE ~Holds(q)
    BY <2>3, HoldsStep DEF IInv, Safe
  <2> QED
    BY <2>2, <2>3
<1> QED
  BY <1>1, <1>2, <1>3 DEF IInv

\* The inductive invariant holds of every reachable state.
THEOREM Invariance == Spec => [](TypeOK /\ IInv)
<1>1. Init => IInv
  <2> SUFFICES ASSUME Init PROVE IInv
    OBVIOUS
  <2>1. Active = {}
    BY DEF Init, Active, At
  <2>2. IsFiniteSet(Active)
    BY <2>1, FS_EmptySet
  <2>3. RouteInv /\ OldInv /\ PlaceInv
    BY NamesAssumption DEF Init, RouteInv, Releasing, OldInv, PlaceInv, Movers
  <2>4. PairInv /\ LeftInv
    BY DEF Init, PairInv, LeftInv, Holds, At
  <2> QED
    BY <2>2, <2>3, <2>4 DEF IInv
<1>2. Spec => []TypeOK
  BY TypeCorrect
<1>3. TypeOK /\ IInv /\ [Next]_vars => IInv'
  BY StepInv
<1> QED
  BY <1>1, <1>2, <1>3, PTL DEF Spec

(***************************************************************************)
(* What follows from it                                                    *)
(***************************************************************************)
\* Neither of two requests loses the bytes its run counts on to the other's release or to
\* the sweep, whichever step of a put they meet, whoever dies with a name aside, and however
\* many more may yet be sent.
THEOREM PairStaysHolds == Spec => []PairStays
<1>1. TypeOK /\ IInv => PairStays
  <2> SUFFICES ASSUME TypeOK, IInv, Pair, NEW q \in Requests, Holds(q)
               PROVE  \/ path # NoFile
                      \/ q \in left
                      \/ \E m \in Movers : aside[m] = q /\ Comparing(m)
    BY DEF PairStays, Pair, Active
  <2>1. Safe(q)
    BY DEF IInv, PairInv
  <2> QED
    BY <2>1, NamesAssumption DEF Safe
<1> QED
  BY <1>1, Invariance, PTL
=============================================================================
