---------------------------- MODULE ContentStore ----------------------------
(***************************************************************************)
(* The content store: an index in Postgres whose rows name objects (files) *)
(* of the Bambuddy backend.  Several keys may name one object, because a   *)
(* put of bytes already stored reuses their object.  What the operations   *)
(* do to the index is one transaction each; the backend's calls and the    *)
(* reads before them are steps of their own, and everything interleaves.   *)
(*                                                                         *)
(* Processes: the operations of routes and workers, Sweeper (the sweep of  *)
(* blobs nothing references) and the sweep of files no row names.          *)
(***************************************************************************)
EXTENDS Naturals, FiniteSets

CONSTANTS
    Keys,       \* blob keys
    Bytes,      \* the contents put
    Ops,        \* concurrent operations, each of which may follow another
    MaxObjects, \* BOUND: objects ever uploaded, the first one included
    MaxStarts,  \* BOUND: operations and sweeps started
    MaxFaults,  \* BOUND: calls that fail, stops, files deleted in Bambuddy
    Sweeper,    \* sweep_content
    None        \* no row, no object, no bytes

ASSUME StoreAssumption ==
    /\ MaxObjects \in Nat \ {0} /\ MaxStarts \in Nat /\ MaxFaults \in Nat
    /\ Sweeper \notin Ops
    /\ None \notin Keys \cup Bytes \cup Nat

Objects == 1..MaxObjects
Procs == Ops \cup {Sweeper}

VARIABLES
    rows,    \* store_blobs: the object each key names
    fresh,   \* the keys whose row was touched within the sweep's grace
    bytes,   \* what each uploaded object holds
    stored,  \* the objects the backend has
    late,    \* objects whose remove was given up on and may still happen
    op,      \* each process's place and locals
    sweep,   \* the sweep's snapshot of references and its list
    unnamed, \* the file the sweep of unrecorded files is about to delete
    starts,  \* operations and sweeps started so far
    faults,  \* faults so far
    astray,  \* ghost: objects a failed remove or Bambuddy's user may have removed
    leaked   \* ghost: objects some operation left behind without a row

vars == <<rows, fresh, bytes, stored, late, op, sweep, unnamed, starts, faults, astray, leaked>>

\* What an operation is doing; "held" is a claim whose reference was added.
Places == {"idle", "exists", "upload", "reupload", "index", "previous", "swap",
           "shares", "remove", "keep", "read", "there", "forget", "add", "held",
           "list", "loop"}
Kinds == {"none", "put", "replace", "link", "claim"}

\* at: the place; from: the key read first; expected: what replace expects the key to
\* hold; ref: the object to be named, reused if another row named it; target: the object
\* to be released; last: that release is not tried again
OpRecord ==
    [at : Places, kind : Kinds, key : Keys \cup {None}, from : Keys \cup {None},
     put : Bytes \cup {None}, expected : Bytes \cup {None}, ref : Objects \cup {None},
     reused : BOOLEAN, target : Objects \cup {None}, last : BOOLEAN]

Idle == [at |-> "idle", kind |-> "none", key |-> None, from |-> None, put |-> None,
         expected |-> None, ref |-> None, reused |-> FALSE, target |-> None, last |-> FALSE]

Quiet == [kept |-> {}, due |-> {}]

-----------------------------------------------------------------------------
(* Helpers *)

Named(o) == \E k \in Keys : rows[k] = o
NamedNext(o) == \E k \in Keys : rows'[k] = o

At(p, place) == op[p].at = place
Go(p, place) == op' = [op EXCEPT ![p].at = place]

\* An operation that uploaded an object no row names yet.
Uploaded(p, o) ==
    op[p].at \in {"index", "previous", "swap"} /\ ~op[p].reused /\ op[p].ref = o

\* An operation that is to remove an object.
Releasing(p, o) == op[p].at \in {"shares", "remove", "keep"} /\ op[p].target = o

InHand(o) == \E p \in Procs : Uploaded(p, o) \/ Releasing(p, o)

\* The keys with a reference.
Referenced == {op[p].key : p \in {q \in Ops : At(q, "held")}}

\* A claimant that counts on its key's row.
Claims(p, k) == op[p].at \in {"add", "held"} /\ op[p].kind = "claim" /\ op[p].key = k

\* Objects left behind: those that some operation let go of and no row names after it.
Leak(objects) == leaked' = {o \in leaked \cup objects : o \in stored' /\ ~NamedNext(o)}

\* Where a process goes when its release is over: the sweep to its next key.
Released(p) ==
    IF p = Sweeper /\ ~op[p].last THEN [Idle EXCEPT !.at = "loop"] ELSE Idle

End(p) == op' = [op EXCEPT ![p] = Idle]

-----------------------------------------------------------------------------
(* An object and the keys that share it are what earlier operations left. *)
Init ==
    /\ rows \in [Keys -> {None, 1}]
    /\ fresh = {}
    /\ bytes \in {[o \in Objects |-> IF o = 1 THEN b ELSE None] : b \in Bytes}
    /\ stored = {1}
    /\ late = {}
    /\ op = [p \in Procs |-> Idle]
    /\ sweep = Quiet
    /\ unnamed = None
    /\ starts = 0
    /\ faults = 0
    /\ astray = {}
    /\ leaked = IF \E k \in Keys : rows[k] = 1 THEN {} ELSE {1}

-----------------------------------------------------------------------------
(* put, replace and link *)

StoreUnchanged ==
    UNCHANGED <<rows, fresh, bytes, stored, late, sweep, unnamed, starts, faults, astray, leaked>>

Fault == faults < MaxFaults /\ faults' = faults + 1

MayBegin(p) == At(p, "idle") /\ starts < MaxStarts

\* An operation begins; the store is as it was.
Begins(p, locals) ==
    /\ starts' = starts + 1
    /\ op' = [op EXCEPT ![p] = locals]
    /\ UNCHANGED <<rows, fresh, bytes, stored, late, sweep, unnamed, faults, astray, leaked>>

\* Any row with the same bytes will do; with none, the bytes are uploaded.
Lookup(locals) ==
    LET same == {o \in Objects : Named(o) /\ bytes[o] = locals.put}
    IN IF same = {} THEN {[locals EXCEPT !.at = "upload"]}
       ELSE {[locals EXCEPT !.at = "exists", !.ref = o] : o \in same}

Put(p, k, b) ==
    /\ MayBegin(p)
    /\ \E locals \in Lookup([Idle EXCEPT !.kind = "put", !.key = k, !.put = b]) : Begins(p, locals)

\* expected: the bytes the key must hold still, None for no row
Replace(p, k, b, expected) ==
    /\ MayBegin(p)
    /\ \E locals \in Lookup([Idle EXCEPT !.kind = "replace", !.key = k, !.put = b,
                                         !.expected = expected]) : Begins(p, locals)

\* A copy's key is new; its source's row was read.
Link(p, k, from) ==
    /\ MayBegin(p)
    /\ rows[k] = None /\ rows[from] # None
    /\ Begins(p, [Idle EXCEPT !.at = "there", !.kind = "link", !.key = k, !.from = from,
                              !.ref = rows[from]])

ToIndex(p) == IF op[p].kind = "replace" THEN "previous" ELSE "index"

Exists(p) ==
    /\ At(p, "exists")
    /\ op' = [op EXCEPT ![p] = IF op[p].ref \in stored
                               THEN [@ EXCEPT !.at = ToIndex(p), !.reused = TRUE]
                               ELSE [@ EXCEPT !.at = "upload", !.ref = None]]
    /\ StoreUnchanged

\* Bambuddy keeps every upload as a new file.  A copy for a reuse that was lost goes
\* straight back to its index write: replace does not read the previous row again.
Upload(p) ==
    /\ op[p].at \in {"upload", "reupload"}
    /\ \E o \in Objects :
        /\ bytes[o] = None /\ \A older \in 1..(o - 1) : bytes[older] # None
        /\ bytes' = [bytes EXCEPT ![o] = op[p].put]
        /\ stored' = stored \cup {o}
        /\ op' = [op EXCEPT ![p].ref = o, ![p].reused = FALSE,
                            ![p].at = IF At(p, "upload") THEN ToIndex(p)
                                      ELSE IF op[p].kind = "replace" THEN "swap" ELSE "index"]
    /\ UNCHANGED <<rows, fresh, late, sweep, unnamed, starts, faults, astray, leaked>>

Previous(p) ==
    /\ At(p, "previous")
    /\ op' = [op EXCEPT ![p].at = "swap", ![p].target = rows[op[p].key]]
    /\ StoreUnchanged

\* No row is left that names the object to be reused.
FreedNever(p) == FALSE
Freed(p) == op[p].reused /\ ~Named(op[p].ref)

\* The row lock finds the object freed: a put stores its own copy, a link fails.
ReuseLost(p) ==
    /\ op[p].at \in {"index", "swap"}
    /\ Freed(p)
    /\ op' = [op EXCEPT ![p] = IF op[p].kind = "link" THEN Idle
                               ELSE [@ EXCEPT !.at = "reupload", !.ref = None, !.reused = FALSE]]
    /\ StoreUnchanged

\* What a write of op[p].key releases: what the key named before, if it is another object.
ReleaseAlways(p, was) == [Idle EXCEPT !.at = "shares", !.target = was, !.last = TRUE]
Release(p, was) ==
    IF was \in {None, op[p].ref} THEN Idle
    ELSE [Idle EXCEPT !.at = "shares", !.target = was, !.last = TRUE]

\* The row's lock makes what it named before and the write one step.
IndexPut(p) ==
    LET k == op[p].key IN
    /\ At(p, "index")
    /\ ~Freed(p)
    /\ rows' = [rows EXCEPT ![k] = op[p].ref]
    /\ fresh' = fresh \cup {k}
    /\ op' = [op EXCEPT ![p] = Release(p, rows[k])]
    /\ UNCHANGED <<bytes, stored, late, sweep, unnamed, starts, faults, astray>>
    /\ Leak({})

Expected(p) ==
    LET now == rows[op[p].key] IN
    IF op[p].expected = None THEN now = None ELSE now # None /\ bytes[now] = op[p].expected

\* The key holds what was expected.  What is released is what was read before: an object
\* with the same bytes that another operation named since is left without a row.
SwapLands(p) ==
    LET k == op[p].key IN
    /\ At(p, "swap")
    /\ ~Freed(p) /\ Expected(p)
    /\ rows' = [rows EXCEPT ![k] = op[p].ref]
    /\ fresh' = fresh \cup {k}
    /\ op' = [op EXCEPT ![p] = Release(p, op[p].target)]
    /\ UNCHANGED <<bytes, stored, late, sweep, unnamed, starts, faults, astray>>
    /\ Leak({rows[k]} \ {None, op[p].target})

\* The key moved on: this call's object is released.
SwapMisses(p) ==
    /\ At(p, "swap")
    /\ ~Freed(p) /\ ~Expected(p)
    /\ op' = [op EXCEPT ![p] = [Idle EXCEPT !.at = "shares", !.target = op[p].ref,
                                            !.last = TRUE]]
    /\ StoreUnchanged

\* Postgres broke a deadlock with this write too often: what it uploaded is released.
Deadlock(p) ==
    /\ op[p].at \in {"index", "swap"}
    /\ Fault
    /\ op' = [op EXCEPT ![p] = IF op[p].reused THEN Idle
                               ELSE [Idle EXCEPT !.at = "shares", !.target = op[p].ref,
                                                 !.last = TRUE]]
    /\ UNCHANGED <<rows, fresh, bytes, stored, late, sweep, unnamed, starts, astray, leaked>>

-----------------------------------------------------------------------------
(* Releasing an object *)

Delete(p, k) ==
    /\ MayBegin(p) /\ starts' = starts + 1
    /\ rows[k] # None
    /\ rows' = [rows EXCEPT ![k] = None]
    /\ fresh' = fresh \ {k}
    /\ op' = [op EXCEPT ![p] = [Idle EXCEPT !.at = "shares", !.key = k, !.target = rows[k]]]
    /\ UNCHANGED <<bytes, stored, late, sweep, unnamed, faults, astray, leaked>>

\* A row names the object: it stays.
Shares(p) ==
    /\ At(p, "shares")
    /\ op' = [op EXCEPT ![p] = IF Named(op[p].target) THEN Released(p)
                               ELSE [@ EXCEPT !.at = "remove"]]
    /\ StoreUnchanged

Removed(p) ==
    /\ At(p, "remove")
    /\ stored' = stored \ {op[p].target}
    /\ late' = late \ {op[p].target}
    /\ op' = [op EXCEPT ![p] = Released(p)]
    /\ UNCHANGED <<rows, fresh, bytes, sweep, unnamed, starts, faults, astray>>
    /\ Leak({})

\* The file was moved out of ScadBuddy's folders: it is left alone, without a row.
RemoveRefused(p) ==
    /\ At(p, "remove")
    /\ Fault
    /\ op[p].target \in stored
    /\ op' = [op EXCEPT ![p] = Released(p)]
    /\ UNCHANGED <<rows, fresh, bytes, stored, late, sweep, unnamed, starts, astray>>
    /\ Leak({op[p].target})

\* The request failed or was cancelled: it did not happen, did, or still may.  A deleted
\* row is put back; what a put replaced is left behind.
RemoveFails(p) ==
    LET o == op[p].target IN
    /\ At(p, "remove")
    /\ Fault
    /\ \/ UNCHANGED <<stored, late>>
       \/ stored' = stored \ {o} /\ late' = late \ {o}
       \/ o \in stored /\ late' = late \cup {o} /\ UNCHANGED stored
    /\ astray' = astray \cup {o}
    /\ op' = [op EXCEPT ![p] = IF op[p].last THEN Idle ELSE [@ EXCEPT !.at = "keep"]]
    /\ UNCHANGED <<rows, fresh, bytes, sweep, unnamed, starts>>
    /\ Leak(IF op[p].last THEN {o} ELSE {})

LateRemove(o) ==
    /\ o \in late
    /\ late' = late \ {o}
    /\ stored' = stored \ {o}
    /\ UNCHANGED <<rows, fresh, bytes, op, sweep, unnamed, starts, faults, astray>>
    /\ Leak({})

KeepGivesUp(p) ==
    /\ At(p, "keep")
    /\ End(p)
    /\ StoreUnchanged

\* The row goes back only if the key has none; else the object is released once more.
\* The failure propagates: it ends the sweep.
Keep(p) ==
    LET k == op[p].key IN
    /\ At(p, "keep")
    /\ IF rows[k] = None
       THEN /\ rows' = [rows EXCEPT ![k] = op[p].target]
            /\ fresh' = fresh \cup {k}
            /\ End(p)
       ELSE /\ op' = [op EXCEPT ![p].at = "shares", ![p].last = TRUE]
            /\ UNCHANGED <<rows, fresh>>
    /\ sweep' = IF p = Sweeper THEN Quiet ELSE sweep
    /\ UNCHANGED <<bytes, stored, late, unnamed, starts, faults, astray>>
    /\ Leak({})

-----------------------------------------------------------------------------
(* Claiming a key: touch its row, read it, look for its object, add a reference *)

ClaimBegins(p, k) ==
    /\ MayBegin(p) /\ starts' = starts + 1
    /\ op' = [op EXCEPT ![p] = [Idle EXCEPT !.at = "read", !.kind = "claim", !.key = k,
                                            !.from = k]]
    /\ UNCHANGED <<rows, bytes, stored, late, sweep, unnamed, faults, astray, leaked>>

ClaimUntouched(p, k) == ClaimBegins(p, k) /\ UNCHANGED fresh

\* The row, if there is one, is touched first.
Claim(p, k) ==
    /\ ClaimBegins(p, k)
    /\ fresh' = IF rows[k] = None THEN fresh ELSE fresh \cup {k}

Read(p) ==
    LET o == rows[op[p].key] IN
    /\ At(p, "read")
    /\ op' = [op EXCEPT ![p] = IF o = None THEN Idle ELSE [@ EXCEPT !.at = "there", !.ref = o]]
    /\ StoreUnchanged

\* A row whose object is gone is forgotten.
There(p) ==
    /\ At(p, "there")
    /\ op' = [op EXCEPT ![p] =
                 IF op[p].ref \notin stored THEN [@ EXCEPT !.at = "forget", !.ref = None]
                 ELSE IF op[p].kind = "link" THEN [@ EXCEPT !.at = "index", !.reused = TRUE]
                 ELSE [@ EXCEPT !.at = "add", !.ref = None]]
    /\ StoreUnchanged

\* The key's row goes, whatever it names by now.
Forget(p) ==
    LET k == op[p].from IN
    /\ At(p, "forget")
    /\ rows' = [rows EXCEPT ![k] = None]
    /\ fresh' = fresh \ {k}
    /\ End(p)
    /\ UNCHANGED <<bytes, stored, late, sweep, unnamed, starts, faults, astray>>
    /\ Leak({rows[k]} \ {None})

Add(p) ==
    /\ At(p, "add")
    /\ Go(p, "held")
    /\ StoreUnchanged

\* The holder is done with the blob.
Drop(p) ==
    /\ At(p, "held")
    /\ End(p)
    /\ StoreUnchanged

\* A row goes untouched for the grace.  The grace is far longer than the time between a
\* claimant's touch and its reference; a sweep's cutoff is fixed when it starts.
Age(k) ==
    /\ k \in fresh
    /\ At(Sweeper, "idle")
    /\ \A p \in Ops : op[p].kind = "claim" /\ op[p].key = k => At(p, "held")
    /\ fresh' = fresh \ {k}
    /\ UNCHANGED <<rows, bytes, stored, late, op, sweep, unnamed, starts, faults, astray, leaked>>

-----------------------------------------------------------------------------
(* sweep_content *)

SweepStart ==
    /\ MayBegin(Sweeper) /\ starts' = starts + 1
    /\ sweep' = [kept |-> Referenced, due |-> {}]
    /\ op' = [op EXCEPT ![Sweeper].at = "list"]
    /\ UNCHANGED <<rows, fresh, bytes, stored, late, unnamed, faults, astray, leaked>>

SweepList ==
    /\ At(Sweeper, "list")
    /\ sweep' = [sweep EXCEPT !.due = {k \in Keys : rows[k] # None} \ (sweep.kept \cup fresh)]
    /\ Go(Sweeper, "loop")
    /\ UNCHANGED <<rows, fresh, bytes, stored, late, unnamed, starts, faults, astray, leaked>>

\* delete_if_stale looks at the row again.
Stale(k) == rows[k] # None /\ k \notin fresh

SweepDelete(k) ==
    /\ At(Sweeper, "loop")
    /\ k \in sweep.due
    /\ sweep' = [sweep EXCEPT !.due = @ \ {k}]
    /\ IF Stale(k)
       THEN /\ rows' = [rows EXCEPT ![k] = None]
            /\ fresh' = fresh \ {k}
            /\ op' = [op EXCEPT ![Sweeper] = [Idle EXCEPT !.at = "shares", !.key = k, !.target = rows[k]]]
       ELSE UNCHANGED <<rows, fresh, op>>
    /\ UNCHANGED <<bytes, stored, late, unnamed, starts, faults, astray, leaked>>

SweepEnd ==
    /\ At(Sweeper, "loop")
    /\ sweep.due = {}
    /\ sweep' = Quiet
    /\ End(Sweeper)
    /\ UNCHANGED <<rows, fresh, bytes, stored, late, unnamed, starts, faults, astray, leaked>>

-----------------------------------------------------------------------------
(* sweep_unrecorded: files older than its cutoff that no row names.  An upload whose row *)
(* is about to be written is younger than the cutoff.                                    *)

Recorded(o) == Named(o)

UnrecordedFound(o) ==
    /\ unnamed = None
    /\ o \in stored
    /\ ~Recorded(o)
    /\ \A p \in Procs : ~Uploaded(p, o)
    /\ unnamed' = o
    /\ UNCHANGED <<rows, fresh, bytes, stored, late, op, sweep, starts, faults, astray, leaked>>

UnrecordedDeleted ==
    /\ unnamed # None
    /\ unnamed' = None
    /\ \/ UNCHANGED <<stored, late>>  \* moved meanwhile, or the call failed
       \/ stored' = stored \ {unnamed} /\ late' = late \ {unnamed}
    /\ UNCHANGED <<rows, fresh, bytes, op, sweep, starts, faults, astray>>
    /\ Leak({})

-----------------------------------------------------------------------------
(* What happens around the store *)

\* A file deleted in Bambuddy's own pages.
UserDeletes(o) ==
    /\ o \in stored
    /\ Fault
    /\ stored' = stored \ {o}
    /\ late' = late \ {o}
    /\ astray' = astray \cup {o}
    /\ UNCHANGED <<rows, fresh, bytes, op, sweep, unnamed, starts>>
    /\ Leak({})

\* The process stops, or a call of it fails, with nothing but what it did already.
Stop(p) ==
    /\ op[p].at \notin {"idle", "held"}
    /\ Fault
    /\ End(p)
    /\ sweep' = IF p = Sweeper THEN Quiet ELSE sweep
    /\ UNCHANGED <<rows, fresh, bytes, stored, late, unnamed, starts, astray>>
    /\ Leak({o \in Objects : Uploaded(p, o) \/ Releasing(p, o)})

-----------------------------------------------------------------------------
OpStep(p) ==
    \/ \E k \in Keys, b \in Bytes : Put(p, k, b)
    \/ \E k \in Keys, b \in Bytes, e \in Bytes \cup {None} : Replace(p, k, b, e)
    \/ \E k, from \in Keys : Link(p, k, from)
    \/ Exists(p) \/ Upload(p) \/ Previous(p)
    \/ ReuseLost(p) \/ IndexPut(p) \/ SwapLands(p) \/ SwapMisses(p) \/ Deadlock(p)
    \/ \E k \in Keys : Delete(p, k)
    \/ \E k \in Keys : Claim(p, k)
    \/ Read(p) \/ There(p) \/ Forget(p) \/ Add(p) \/ Drop(p)

ReleaseStep(p) ==
    Shares(p) \/ Removed(p) \/ RemoveRefused(p) \/ RemoveFails(p) \/ Keep(p) \/ Stop(p)

SweepStep ==
    \/ SweepStart \/ SweepList \/ SweepEnd
    \/ \E k \in Keys : SweepDelete(k)
    \/ \E o \in Objects : UnrecordedFound(o)
    \/ UnrecordedDeleted

Around ==
    \/ \E k \in Keys : Age(k)
    \/ \E o \in Objects : LateRemove(o)
    \/ \E o \in Objects : UserDeletes(o)

Next ==
    \/ \E p \in Ops : OpStep(p)
    \/ \E p \in Procs : ReleaseStep(p)
    \/ SweepStep
    \/ Around

Spec == Init /\ [][Next]_vars

-----------------------------------------------------------------------------
(* Properties *)

\* Every variable keeps its type; a release has an object to release, and only an
\* uploaded object is named, stored or removed late.
TypeOK ==
    /\ rows \in [Keys -> Objects \cup {None}]
    /\ fresh \subseteq {k \in Keys : rows[k] # None}
    /\ bytes \in [Objects -> Bytes \cup {None}]
    /\ stored \subseteq {o \in Objects : bytes[o] # None}
    /\ late \subseteq stored
    /\ op \in [Procs -> OpRecord]
    /\ \A p \in Procs : op[p].at \in {"shares", "remove", "keep"} => op[p].target # None
    /\ sweep \in [kept : SUBSET Keys, due : SUBSET Keys]
    /\ unnamed \in Objects \cup {None}
    /\ starts \in 0..MaxStarts
    /\ faults \in 0..MaxFaults
    /\ astray \subseteq Objects
    /\ leaked \subseteq Objects

\* A row names an object the backend has, whatever put, link, delete and the sweeps do at
\* once, unless a remove of that object failed (its row was put back though the remove
\* may have happened) or the file was deleted in Bambuddy.
NamedIsStored ==
    \A k \in Keys : rows[k] \in stored \cup astray \cup {None}

\* An object the store has stays tracked: a row names it, or an operation is about to
\* name or remove it, or it was left behind where the code gives up on it.  A failed
\* delete in particular puts its row back, and two racing puts release what each replaced.
Tracked ==
    \A o \in stored : Named(o) \/ InHand(o) \/ o \in leaked

\* The sweep does not take the row of a key that was claimed (touched, then found there)
\* and not dropped yet, though its references were read and its list made before.
SweepTakes(k) == At(Sweeper, "loop") /\ rows[k] # None /\ rows'[k] = None /\ k \in sweep.due
ClaimKept ==
    [][\A k \in Keys : SweepTakes(k) /\ k \notin sweep'.due
                           => \A p \in Ops : ~Claims(p, k)]_vars

=============================================================================
