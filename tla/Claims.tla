------------------------------- MODULE Claims -------------------------------
(***************************************************************************)
(* One claim of operations/claims.py: the file that holds a request's      *)
(* large bytes while its operation runs.  Several requests carry the same  *)
(* bytes, so they put, read and release the same path; the housekeeping    *)
(* sweep removes what nobody put for CLAIM_MAX_AGE.  A file is named by    *)
(* the request that wrote it (Held.inode and mtime_ns: no two puts agree). *)
(***************************************************************************)
EXTENDS FiniteSets, Naturals

CONSTANTS
  Requests,  \* requests whose bodies hold the same bytes, each its own operation
  MayCrash   \* whether the API may die between two steps of a put, a release or the sweep

ASSUME CrashAssumption == MayCrash \in BOOLEAN

VARIABLES
  path,    \* whose file is at <root>/<sha256>, or NoFile
  aside,   \* per mover (a release or the sweep): the file it has a name aside for, or NoFile
  left,    \* the files a dead mover left a name aside for
  old,     \* the files whose mtime is before the sweep's cutoff
  found,   \* the file the sweep's stat saw, or NoFile
  pc,      \* per request: where its route is
  created, \* the requests whose put created the claim (Held.created)
  op       \* per request: its operation

vars == <<path, aside, left, old, found, pc, created, op>>

NoFile == "none"
Sweep == "sweep"
ASSUME NamesAssumption == {NoFile, Sweep} \cap Requests = {}

Movers == Requests \union {Sweep}
Ops == {"none", "accepted", "running", "ended"}
Pcs == {"idle", "temp", "replace", "held", "final", "aside", "compare", "unlink",
        "done", "dead"}

Init ==
  /\ path = NoFile
  /\ aside = [m \in Movers |-> NoFile]
  /\ left = {}
  /\ old = {}
  /\ found = NoFile
  /\ pc = [r \in Requests |-> "idle"]
  /\ created = {}
  /\ op = [r \in Requests |-> "none"]

At(r, where) == pc[r] = where
Goto(r, where) == pc' = [pc EXCEPT ![r] = where]

(***************************************************************************)
(* hold                                                                    *)
(***************************************************************************)
\* The temporary file is written.
Write(r) ==
  /\ At(r, "idle")
  /\ Goto(r, "temp")
  /\ UNCHANGED <<path, aside, left, old, found, created, op>>

\* os.link(tmp, path): this put creates the claim, or finds it held.
Link(r) ==
  /\ At(r, "temp")
  /\ \/ /\ path = NoFile
        /\ path' = r
        /\ created' = created \union {r}
        /\ Goto(r, "held")
     \/ /\ path # NoFile
        /\ Goto(r, "replace")
        /\ UNCHANGED <<path, created>>
  /\ UNCHANGED <<aside, left, old, found, op>>

\* os.replace(tmp, path): the new file renews the claim, even one gone meanwhile.
Replace(r) ==
  /\ At(r, "replace")
  /\ path' = r
  /\ Goto(r, "held")
  /\ UNCHANGED <<aside, left, old, found, created, op>>

(***************************************************************************)
(* The request's operation, and its route's answer                         *)
(***************************************************************************)
\* run_operation starts the execution; its check runs, nothing is recorded yet.
Accept(r) ==
  /\ At(r, "held")
  /\ op[r] = "none"
  /\ op' = [op EXCEPT ![r] = "accepted"]
  /\ UNCHANGED <<path, aside, left, old, found, pc, created>>

Record(r) ==
  /\ op[r] = "accepted"
  /\ op' = [op EXCEPT ![r] = "running"]
  /\ UNCHANGED <<path, aside, left, old, found, pc, created>>

\* Mutant: a refusal leaves a status of its own.
EndRefused(r) ==
  /\ op[r] \in {"accepted", "running"}
  /\ op' = [op EXCEPT ![r] = "refused"]
  /\ UNCHANGED <<path, aside, left, old, found, pc, created>>

\* The operation is refused or ends.
End(r) ==
  /\ op[r] \in {"accepted", "running"}
  /\ op' = [op EXCEPT ![r] = "ended"]
  /\ UNCHANGED <<path, aside, left, old, found, pc, created>>

\* The answer: final (the operation ended, or before_start refused) and the claim is
\* released if this put created it; or a 202 or 503, which leaves it to the sweep.
AnswerRoute(r) ==
  /\ At(r, "held")
  /\ \/ /\ op[r] \in {"none", "ended"}
        /\ Goto(r, IF r \in created THEN "final" ELSE "done")
        /\ op' = [op EXCEPT ![r] = "ended"]
     \/ /\ op[r] # "none"
        /\ Goto(r, "done")
        /\ UNCHANGED op
  /\ UNCHANGED <<path, aside, left, old, found, created>>

\* _release: not while a recorded, running operation's request names the claim.
CheckNamed(r) ==
  /\ At(r, "final")
  /\ Goto(r, IF \E q \in Requests : op[q] = "running" THEN "done" ELSE "aside")
  /\ UNCHANGED <<path, aside, left, old, found, created, op>>

(***************************************************************************)
(* release and sweep: move aside, compare, link back or not, unlink        *)
(***************************************************************************)
MoveAside(m) ==
  /\ aside' = [aside EXCEPT ![m] = path]
  /\ path' = NoFile

\* Mutant: what was moved aside is not linked back, whosever it is.
PutBackNever(m, mine) == UNCHANGED path

\* os.link(aside, path) where what was moved is not `mine` (FileExistsError suppressed): the
\* file has both names until the one aside is unlinked.
PutBackUnless(m, mine) ==
  path' = IF ~mine /\ path = NoFile THEN aside[m] ELSE path

\* aside.unlink()
Unlink(m) == aside' = [aside EXCEPT ![m] = NoFile]

ReleaseMove(r) ==
  /\ At(r, "aside")
  /\ \/ path # NoFile /\ MoveAside(r) /\ Goto(r, "compare")
     \/ path = NoFile /\ Goto(r, "done") /\ UNCHANGED <<path, aside>>
  /\ UNCHANGED <<left, old, found, created, op>>

ReleaseCompare(r) ==
  /\ At(r, "compare")
  /\ PutBackUnless(r, aside[r] = r)
  /\ Goto(r, "unlink")
  /\ UNCHANGED <<aside, left, old, found, created, op>>

ReleaseUnlink(r) ==
  /\ At(r, "unlink")
  /\ Unlink(r)
  /\ Goto(r, "done")
  /\ UNCHANGED <<path, left, old, found, created, op>>

\* A day passes without a put (CLAIM_MAX_AGE): no request and no operation lasts as long.
Age(r) ==
  /\ pc[r] \in {"done", "dead"}
  /\ \A q \in Requests : pc[q] \in {"idle", "done", "dead"} /\ op[q] \in {"none", "ended"}
  /\ old' = old \union {r}
  /\ UNCHANGED <<path, aside, left, found, pc, created, op>>

SweepStat ==
  /\ found = NoFile /\ aside[Sweep] = NoFile
  /\ path \in old
  /\ found' = path
  /\ UNCHANGED <<path, aside, left, old, pc, created, op>>

SweepMove ==
  /\ found # NoFile /\ aside[Sweep] = NoFile
  /\ \/ path # NoFile /\ MoveAside(Sweep) /\ UNCHANGED found
     \/ path = NoFile /\ found' = NoFile /\ UNCHANGED <<path, aside>>
  /\ UNCHANGED <<left, old, pc, created, op>>

SweepCompare ==
  /\ aside[Sweep] # NoFile /\ found # NoFile
  /\ PutBackUnless(Sweep, aside[Sweep] = found /\ aside[Sweep] \in old)
  /\ found' = NoFile
  /\ UNCHANGED <<aside, left, old, pc, created, op>>

SweepUnlink ==
  /\ aside[Sweep] # NoFile /\ found = NoFile
  /\ Unlink(Sweep)
  /\ UNCHANGED <<path, left, old, found, pc, created, op>>

\* Mutant: the sweep looks at claims only, by their names.
SweepNoLeftover(f) == FALSE

\* The sweep also takes the name a dead mover left aside.
SweepLeftover(f) ==
  /\ f \in left \cap old
  /\ left' = left \ {f}
  /\ UNCHANGED <<path, aside, old, found, pc, created, op>>

\* A mover dies: the name it has aside stays.
Leaves(m) ==
  /\ left' = left \union ({aside[m]} \ {NoFile})
  /\ aside' = [aside EXCEPT ![m] = NoFile]

\* The API dies between two steps of the route.
Crash(r) ==
  /\ MayCrash
  /\ pc[r] \in {"temp", "replace", "held", "final", "aside", "compare", "unlink"}
  /\ Goto(r, "dead") /\ Leaves(r)
  /\ op' = [op EXCEPT ![r] = IF @ = "none" THEN "ended" ELSE @]
  /\ UNCHANGED <<path, old, found, created>>

\* Or while the sweep has a name aside.
SweepCrash ==
  /\ MayCrash
  /\ aside[Sweep] # NoFile /\ Leaves(Sweep)
  /\ found' = NoFile
  /\ UNCHANGED <<path, old, pc, created, op>>

-----------------------------------------------------------------------------
RequestStep(r) ==
  \/ Write(r) \/ Link(r) \/ Replace(r) \/ Accept(r) \/ Record(r) \/ End(r) \/ AnswerRoute(r)
  \/ CheckNamed(r) \/ ReleaseMove(r) \/ ReleaseCompare(r) \/ ReleaseUnlink(r)

SweepStep ==
  SweepStat \/ SweepMove \/ SweepCompare \/ SweepUnlink \/ \E f \in Requests : SweepLeftover(f)

Next == SweepStep \/ SweepCrash \/ \E r \in Requests : RequestStep(r) \/ Age(r) \/ Crash(r)

Spec == Init /\ [][Next]_vars

\* The sweep runs daily for as long as the API does, days pass, and a request the route
\* took in goes on to its end (a send may never come, and a crash is never owed).
Fairness ==
  /\ WF_vars(SweepStep)
  /\ \A r \in Requests : WF_vars(Age(r)) /\ WF_vars(~At(r, "idle") /\ RequestStep(r))

FairSpec == Spec /\ Fairness

(***************************************************************************)
(* Properties                                                              *)
(***************************************************************************)
Files == Requests \union {NoFile}
TypeOK ==
  /\ path \in Files
  /\ aside \in [Movers -> Files]
  /\ left \subseteq Requests
  /\ old \subseteq Requests
  /\ found \in Files
  /\ pc \in [Requests -> Pcs]
  /\ created \subseteq Requests
  /\ op \in [Requests -> Ops]

\* It has a file aside and has not yet linked it back, or found that it is its own.
Comparing(m) == aside[m] # NoFile /\ IF m = Sweep THEN found # NoFile ELSE At(m, "compare")
AtRest == \A m \in Movers : ~Comparing(m)
\* A request holds the claim from its put until its answer is final.
Holds(r) == At(r, "held") \/ op[r] \in {"accepted", "running"}
NoCrash == left = {} /\ \A r \in Requests : ~At(r, "dead")

\* claims.py: "bytes another request put before or since stay for that request's run".
BytesStay == (NoCrash /\ AtRest /\ \E r \in Requests : Holds(r)) => path # NoFile

\* With two requests neither's release, nor the sweep, takes the bytes the other counts on,
\* whichever step of a put it meets and whoever dies meanwhile: they are at the path, or the
\* very file is aside with a mover that will link it back, or that died before it did.
PairStays ==
  Cardinality({r \in Requests : ~At(r, "idle")}) <= 2 =>
    \A r \in Requests : Holds(r) =>
      \/ path # NoFile
      \/ r \in left
      \/ \E m \in Movers : aside[m] = r /\ Comparing(m)

\* Once every request is answered (or died) and its operation ended, the sweep leaves
\* nothing of theirs: not a 202's claim, nor what a crash left aside, linked back or not.
Settled == \A r \in Requests : pc[r] \in {"done", "dead"} /\ op[r] = "ended"
NothingLeft ==
  Settled ~> (path = NoFile /\ left = {} /\ \A m \in Movers : aside[m] = NoFile)
=============================================================================
