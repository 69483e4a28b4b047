-------------------------- MODULE ContentStoreProofs --------------------------
EXTENDS ContentStore, TLAPS

(***************************************************************************)
(* The content store, for any number of keys, operations, objects and      *)
(* faults.                                                                 *)
(*                                                                         *)
(* WfInv says which locals an operation has at each place, HistoryInv that *)
(* whatever is named, read or about to be removed was uploaded, PrivateInv *)
(* that an object its uploader has not named yet is known to nobody else.  *)
(* GoneInv is the heart of NamedIsStored: an object about to be removed is *)
(* not named, unless a remove of it already failed.  ClaimInv and KeptInv  *)
(* are that of ClaimKept: a claimed key's row is fresh, or the sweep under *)
(* way keeps the key.                                                      *)
(***************************************************************************)

\* What a record says that an operation has in hand.
UploadOf(r, o) == r.at \in {"index", "previous", "swap"} /\ ~r.reused /\ r.ref = o
ReleaseOf(r, o) == r.at \in {"shares", "remove", "keep"} /\ r.target = o

\* The locals of each place.
Wf(r) ==
    /\ r.at \in {"exists", "upload", "reupload"} => r.put # None
    /\ r.at \in {"index", "previous", "swap"} => r.kind = "link" \/ r.put # None
    /\ r.at \in {"exists", "index", "previous", "swap", "there"} => r.ref # None
    /\ r.at \in {"exists", "upload", "reupload", "index", "previous", "swap", "read",
                 "there", "add", "held"} => r.key # None
    /\ r.at \in {"read", "there", "forget"} => r.from # None
    /\ r.at \in {"shares", "remove", "keep"} => r.target # None /\ (r.last \/ r.key # None)
    /\ r.at = "keep" => ~r.last

WfInv == \A p \in Procs : Wf(op[p])

HistoryInv ==
    /\ \A k \in Keys : rows[k] # None => bytes[rows[k]] # None
    /\ \A p \in Procs : op[p].ref # None => bytes[op[p].ref] # None
    /\ \A p \in Procs : op[p].target # None => bytes[op[p].target] # None
    /\ unnamed # None => bytes[unnamed] # None

PrivateInv ==
    \A p \in Procs, o \in Objects : UploadOf(op[p], o) =>
        /\ o \in stored \cup astray
        /\ ~Named(o)
        /\ unnamed # o
        /\ \A q \in Procs : op[q].target # o /\ (q # p => ~UploadOf(op[q], o))

GoneInv ==
    /\ \A p \in Procs : At(p, "remove") /\ Named(op[p].target) => op[p].target \in astray
    /\ \A p \in Procs : At(p, "keep") => op[p].target \in astray
    /\ unnamed # None /\ Named(unnamed) => unnamed \in astray
    /\ late \subseteq astray

\* The sweep may still take rows.
Sweeping ==
    \/ op[Sweeper].at \in {"list", "loop"}
    \/ op[Sweeper].at \in {"shares", "remove", "keep"} /\ ~op[Sweeper].last

ClaimInv ==
    \A p \in Ops : \A k \in Keys :
        op[p].kind = "claim" /\ op[p].key = k /\ rows[k] # None =>
            /\ ~At(p, "held") => k \in fresh
            /\ At(p, "held") /\ Sweeping => k \in fresh \cup sweep.kept

KeptInv == sweep.due \cap sweep.kept = {}

IInv == WfInv /\ HistoryInv /\ PrivateInv /\ GoneInv
Inv == TypeOK /\ IInv /\ NamedIsStored /\ Tracked

\* What TypeOK says of every variable but op.
TypeRest ==
    /\ rows \in [Keys -> Objects \cup {None}]
    /\ fresh \subseteq {k \in Keys : rows[k] # None}
    /\ bytes \in [Objects -> Bytes \cup {None}]
    /\ stored \subseteq {o \in Objects : bytes[o] # None}
    /\ late \subseteq stored
    /\ sweep \in [kept : SUBSET Keys, due : SUBSET Keys]
    /\ unnamed \in Objects \cup {None}
    /\ starts \in 0..MaxStarts
    /\ faults \in 0..MaxFaults
    /\ astray \subseteq Objects
    /\ leaked \subseteq Objects

-----------------------------------------------------------------------------
(***************************************************************************)
(* What a step does, in the terms of the invariants.  Every step is one of *)
(* some process p, whose record becomes new (a step of no process is taken *)
(* as one of the sweeper that leaves its record alone).                    *)
(***************************************************************************)

\* The objects p has in hand, reads and is about to remove.
HandEffect(p, new) ==
    /\ \A o \in Objects : UploadOf(new, o) =>
          UploadOf(op[p], o) \/ (bytes[o] = None /\ o \in stored')
    /\ new.ref # None => new.ref = op[p].ref \/ Named(new.ref) \/ bytes'[new.ref] # None
    /\ new.target # None =>
          \/ new.target = op[p].target
          \/ Named(new.target)
          \/ UploadOf(op[p], new.target) /\ new.at = "shares"
    /\ new.at = "remove" =>
          \/ op[p].at = "remove" /\ op[p].target = new.target
          \/ ~NamedNext(new.target)
    /\ new.at = "keep" =>
          \/ op[p].at = "keep" /\ op[p].target = new.target
          \/ new.target \in astray'

\* A key comes to name what another names, what p uploaded, or what p puts back.
NameEffect(p, new) ==
    \A o \in Objects : NamedNext(o) =>
        \/ Named(o)
        \/ UploadOf(op[p], o) /\ ~ \E x \in Objects : UploadOf(new, x)
        \/ op[p].at = "keep" /\ op[p].target = o

\* What leaves the store, and what may.
StoreEffect(p) ==
    /\ \A o \in Objects : bytes[o] # None => bytes'[o] # None
    /\ \A o \in stored : o \in stored' \/ o \in astray' \/ o \in late \/ o = unnamed
                             \/ (op[p].at = "remove" /\ op[p].target = o)
    /\ late' \subseteq late \cup astray'
    /\ astray \subseteq astray'
    /\ \/ unnamed' \in {unnamed, None}
       \/ /\ unnamed' \in stored /\ ~NamedNext(unnamed')
          /\ op' = op
          /\ \A q \in Procs : ~UploadOf(op[q], unnamed')

\* What is no longer named, in hand or left behind is one of the others.
TrackEffect(p, new) ==
    /\ \A o \in stored' : Named(o) => NamedNext(o) \/ ReleaseOf(new, o) \/ o \in leaked'
    /\ \A o \in stored' : UploadOf(op[p], o) \/ ReleaseOf(op[p], o) =>
          NamedNext(o) \/ UploadOf(new, o) \/ ReleaseOf(new, o) \/ o \in leaked'
    /\ \A o \in stored' : o \in leaked => NamedNext(o) \/ o \in leaked'
    /\ \A o \in stored' : o \in stored \/ UploadOf(new, o)

Effect(p, new) ==
    /\ new \in OpRecord
    /\ op' = [op EXCEPT ![p] = new]
    /\ Wf(new)
    /\ TypeRest'
    /\ HandEffect(p, new)
    /\ NameEffect(p, new)
    /\ StoreEffect(p)
    /\ TrackEffect(p, new)

-----------------------------------------------------------------------------
(***************************************************************************)
(* The operators                                                           *)
(***************************************************************************)
LEMMA OpAt == TypeOK => \A p \in Procs : op[p] \in OpRecord
  BY DEF TypeOK

\* A record's fields.
LEMMA Fields ==
  \A r \in OpRecord :
    /\ r.at \in Places /\ r.kind \in Kinds /\ r.key \in Keys \cup {None}
    /\ r.from \in Keys \cup {None} /\ r.put \in Bytes \cup {None}
    /\ r.expected \in Bytes \cup {None} /\ r.ref \in Objects \cup {None}
    /\ r.reused \in BOOLEAN /\ r.target \in Objects \cup {None} /\ r.last \in BOOLEAN
  BY DEF OpRecord

LEMMA IdleRecord == Idle \in OpRecord /\ Wf(Idle)
<1>1. Idle \in OpRecord
  BY DEF Idle, OpRecord, Places, Kinds
<1>2. Idle.at = "idle"
  BY DEF Idle
<1> QED
  BY <1>1, <1>2 DEF Wf

\* None is no object.
LEMMA NoneIsNone == None \notin Objects /\ None \notin Keys /\ None \notin Bytes
  BY StoreAssumption DEF Objects

\* A step of p that leaves the store as it was.
LEMMA QuietEffect ==
  ASSUME TypeOK, NEW p \in Procs, NEW new \in OpRecord,
         op' = [op EXCEPT ![p] = new], Wf(new), TypeRest',
         UNCHANGED <<rows, bytes, stored, late, unnamed, astray, leaked>>,
         HandEffect(p, new),
         \A o \in Objects : UploadOf(op[p], o) \/ ReleaseOf(op[p], o) =>
             UploadOf(new, o) \/ ReleaseOf(new, o) \/ Named(o)
  PROVE  Effect(p, new)
<1>1. \A o : NamedNext(o) <=> Named(o)
  BY DEF Named, NamedNext
<1>2. NameEffect(p, new)
  BY <1>1 DEF NameEffect
<1>3. StoreEffect(p)
  BY DEF StoreEffect
<1>4. TrackEffect(p, new)
  <2>1. stored \subseteq Objects
    BY DEF TypeOK
  <2> QED
    BY <1>1, <2>1 DEF TrackEffect
<1> QED
  BY <1>2, <1>3, <1>4 DEF Effect

-----------------------------------------------------------------------------
(***************************************************************************)
(* put, replace and link                                                   *)
(***************************************************************************)

\* A place with nothing in hand.
LEMMA Handless ==
  ASSUME NEW r \in OpRecord,
         r.at \notin {"index", "previous", "swap", "shares", "remove", "keep"}
  PROVE  \A o : ~UploadOf(r, o) /\ ~ReleaseOf(r, o)
  BY DEF UploadOf, ReleaseOf

\* An operation begins with nothing in hand.
LEMMA BeginEffect ==
  ASSUME TypeOK, NEW p \in Procs, NEW new \in OpRecord, MayBegin(p), Begins(p, new), Wf(new),
         new.at \notin {"index", "previous", "swap", "shares", "remove", "keep"},
         new.target = None, new.ref = None \/ Named(new.ref)
  PROVE  Effect(p, new)
<1>1. TypeRest'
  BY StoreAssumption DEF TypeOK, TypeRest, MayBegin, Begins
<1>2. op[p] \in OpRecord /\ op[p].at = "idle"
  BY DEF TypeOK, MayBegin, At
<1>3. \A o : ~UploadOf(new, o) /\ ~UploadOf(op[p], o) /\ ~ReleaseOf(op[p], o)
  BY <1>2, Handless
<1>4. HandEffect(p, new)
  BY <1>3 DEF HandEffect
<1> QED
  BY <1>1, <1>3, <1>4, QuietEffect DEF Begins

\* A put or a replace looks for a row with the same bytes.
LEMMA LookupEffect ==
  ASSUME TypeOK, NEW p \in Procs, MayBegin(p), NEW base \in OpRecord, base.put # None,
         base.key # None, base.target = None, base.ref = None,
         \E locals \in Lookup(base) : Begins(p, locals)
  PROVE  \E new \in OpRecord : Effect(p, new)
<1>1. PICK new \in Lookup(base) : Begins(p, new)
  OBVIOUS
<1>2. CASE new = [base EXCEPT !.at = "upload"]
  <2>1. new \in OpRecord /\ new.at = "upload" /\ new.put = base.put /\ new.key = base.key
        /\ new.target = None /\ new.ref = None
    BY <1>2 DEF OpRecord, Places
  <2>2. Wf(new)
    BY <2>1 DEF Wf
  <2> QED
    BY <1>1, <2>1, <2>2, BeginEffect
<1>3. CASE \E o \in Objects : Named(o) /\ new = [base EXCEPT !.at = "exists", !.ref = o]
  <2>1. PICK o \in Objects : Named(o) /\ new = [base EXCEPT !.at = "exists", !.ref = o]
    BY <1>3
  <2>2. new \in OpRecord /\ new.at = "exists" /\ new.put = base.put /\ new.key = base.key
        /\ new.target = None /\ new.ref = o
    BY <2>1 DEF OpRecord, Places
  <2>3. Wf(new)
    BY <2>2, NoneIsNone DEF Wf
  <2> QED
    BY <1>1, <2>1, <2>2, <2>3, BeginEffect
<1> QED
  BY <1>1, <1>2, <1>3 DEF Lookup

LEMMA PutEffect ==
  ASSUME TypeOK, NEW p \in Procs, NEW k \in Keys, NEW b \in Bytes, Put(p, k, b)
  PROVE  \E new \in OpRecord : Effect(p, new)
<1>1. PICK base : base = [Idle EXCEPT !.kind = "put", !.key = k, !.put = b]
  OBVIOUS
<1>2. base \in OpRecord /\ base.put = b /\ base.key = k /\ base.target = None /\ base.ref = None
  BY <1>1 DEF Idle, OpRecord, Places, Kinds
<1>3. MayBegin(p) /\ \E locals \in Lookup(base) : Begins(p, locals)
  BY <1>1 DEF Put
<1> QED
  BY <1>2, <1>3, LookupEffect, NoneIsNone

LEMMA ReplaceEffect ==
  ASSUME TypeOK, NEW p \in Procs, NEW k \in Keys, NEW b \in Bytes, NEW e \in Bytes \cup {None},
         Replace(p, k, b, e)
  PROVE  \E new \in OpRecord : Effect(p, new)
<1>1. PICK base : base = [Idle EXCEPT !.kind = "replace", !.key = k, !.put = b, !.expected = e]
  OBVIOUS
<1>2. base \in OpRecord /\ base.put = b /\ base.key = k /\ base.target = None /\ base.ref = None
  BY <1>1 DEF Idle, OpRecord, Places, Kinds
<1>3. MayBegin(p) /\ \E locals \in Lookup(base) : Begins(p, locals)
  BY <1>1 DEF Replace
<1> QED
  BY <1>2, <1>3, LookupEffect, NoneIsNone

LEMMA LinkEffect ==
  ASSUME TypeOK, NEW p \in Procs, NEW k \in Keys, NEW from \in Keys, Link(p, k, from)
  PROVE  \E new \in OpRecord : Effect(p, new)
<1>1. PICK new : new = [Idle EXCEPT !.at = "there", !.kind = "link", !.key = k, !.from = from,
                                    !.ref = rows[from]]
  OBVIOUS
<1>2. rows[from] \in Objects /\ Named(rows[from])
  BY DEF Link, TypeOK, Named
<1>3. new \in OpRecord /\ new.at = "there" /\ new.key = k /\ new.from = from
      /\ new.target = None /\ new.ref = rows[from]
  BY <1>1, <1>2 DEF Idle, OpRecord, Places, Kinds
<1>4. Wf(new)
  BY <1>2, <1>3, NoneIsNone DEF Wf
<1>5. MayBegin(p) /\ Begins(p, new)
  BY <1>1 DEF Link
<1> QED
  BY <1>2, <1>3, <1>4, <1>5, BeginEffect

\* A step that changes op[p] alone.
LEMMA OwnEffect ==
  ASSUME TypeOK, NEW p \in Procs, NEW new \in OpRecord, op' = [op EXCEPT ![p] = new],
         Wf(new), StoreUnchanged, HandEffect(p, new),
         \A o \in Objects : UploadOf(op[p], o) \/ ReleaseOf(op[p], o) =>
             UploadOf(new, o) \/ ReleaseOf(new, o) \/ Named(o)
  PROVE  Effect(p, new)
<1>1. TypeRest'
  BY DEF TypeOK, TypeRest, StoreUnchanged
<1> QED
  BY <1>1, QuietEffect DEF StoreUnchanged

LEMMA ExistsEffect ==
  ASSUME TypeOK, WfInv, NEW p \in Procs, Exists(p)
  PROVE  \E new \in OpRecord : Effect(p, new)
<1>1. PICK r \in OpRecord : r = op[p]
  BY OpAt
<1>2. r.at = "exists" /\ Wf(r) /\ StoreUnchanged
  BY <1>1 DEF Exists, At, WfInv
<1>3. PICK new : new = IF r.ref \in stored
                       THEN [r EXCEPT !.at = ToIndex(p), !.reused = TRUE]
                       ELSE [r EXCEPT !.at = "upload", !.ref = None]
  OBVIOUS
<1>4. op' = [op EXCEPT ![p] = new]
  BY <1>1, <1>3 DEF Exists
<1>5. ToIndex(p) \in {"index", "previous"}
  BY DEF ToIndex
<1>6. new \in OpRecord /\ new.key = r.key /\ new.put = r.put /\ new.kind = r.kind
      /\ new.target = r.target
  BY <1>3, <1>5 DEF OpRecord, Places
<1>7. \/ new.at \in {"index", "previous"} /\ new.ref = r.ref /\ new.reused
      \/ new.at = "upload" /\ new.ref = None
  BY <1>3, <1>5 DEF OpRecord
<1>8. Wf(new)
  BY <1>2, <1>6, <1>7 DEF Wf
<1>9. HandEffect(p, new)
  BY <1>1, <1>6, <1>7 DEF HandEffect, UploadOf
<1> QED
  BY <1>1, <1>2, <1>4, <1>6, <1>8, <1>9, OwnEffect, Handless

LEMMA PreviousEffect ==
  ASSUME TypeOK, WfInv, NEW p \in Procs, Previous(p)
  PROVE  \E new \in OpRecord : Effect(p, new)
<1>1. PICK r \in OpRecord : r = op[p]
  BY OpAt
<1>2. r.at = "previous" /\ Wf(r) /\ StoreUnchanged
  BY <1>1 DEF Previous, At, WfInv
<1>3. r.key \in Keys /\ rows[r.key] \in Objects \cup {None}
  BY <1>2, Fields DEF Wf, TypeOK
<1>4. PICK new : new = [r EXCEPT !.at = "swap", !.target = rows[r.key]]
  OBVIOUS
<1>5. op' = [op EXCEPT ![p] = new]
  BY <1>1, <1>4 DEF Previous, TypeOK
<1>6. new \in OpRecord /\ new.key = r.key /\ new.put = r.put /\ new.kind = r.kind
      /\ new.ref = r.ref /\ new.reused = r.reused
  BY <1>3, <1>4 DEF OpRecord, Places
<1>7. new.at = "swap" /\ new.target = rows[r.key]
  BY <1>4 DEF OpRecord
<1>8. Wf(new)
  BY <1>2, <1>6, <1>7 DEF Wf
<1>9. HandEffect(p, new)
  BY <1>1, <1>2, <1>3, <1>6, <1>7 DEF HandEffect, UploadOf, Named
<1>10. \A o : UploadOf(r, o) \/ ReleaseOf(r, o) => UploadOf(new, o)
  BY <1>2, <1>6, <1>7 DEF UploadOf, ReleaseOf
<1> QED
  BY <1>1, <1>2, <1>5, <1>6, <1>8, <1>9, <1>10, OwnEffect

LEMMA ReuseLostEffect ==
  ASSUME TypeOK, WfInv, NEW p \in Procs, ReuseLost(p)
  PROVE  \E new \in OpRecord : Effect(p, new)
<1>1. PICK r \in OpRecord : r = op[p]
  BY OpAt
<1>2. r.at \in {"index", "swap"} /\ r.reused /\ Wf(r) /\ StoreUnchanged
  BY <1>1 DEF ReuseLost, WfInv, Freed
<1>3. PICK new : new = IF r.kind = "link" THEN Idle
                       ELSE [r EXCEPT !.at = "reupload", !.ref = None, !.reused = FALSE]
  OBVIOUS
<1>4. op' = [op EXCEPT ![p] = new]
  BY <1>1, <1>3 DEF ReuseLost
<1>5. CASE r.kind = "link"
  <2>1. new = Idle /\ new.at = "idle" /\ new.ref = None /\ new.target = None
    BY <1>3, <1>5 DEF Idle
  <2>2. HandEffect(p, new)
    BY <2>1, IdleRecord DEF HandEffect, UploadOf
  <2> QED
    BY <1>1, <1>2, <1>4, <2>1, <2>2, OwnEffect, IdleRecord DEF UploadOf, ReleaseOf
<1>6. CASE r.kind # "link"
  <2>1. new \in OpRecord /\ new.at = "reupload" /\ new.ref = None /\ new.target = r.target
        /\ new.put = r.put /\ new.key = r.key
    BY <1>3, <1>6 DEF OpRecord, Places
  <2>2. Wf(new)
    BY <1>2, <1>6, <2>1 DEF Wf
  <2>3. HandEffect(p, new)
    BY <1>1, <2>1 DEF HandEffect, UploadOf
  <2> QED
    BY <1>1, <1>2, <1>4, <2>1, <2>2, <2>3, OwnEffect DEF UploadOf, ReleaseOf
<1> QED
  BY <1>5, <1>6

\* An object uploaded: the first that was not, which nothing names or holds.
LEMMA UploadEffect ==
  ASSUME TypeOK, WfInv, HistoryInv, NEW p \in Procs, Upload(p)
  PROVE  \E new \in OpRecord : Effect(p, new)
<1>1. PICK r \in OpRecord : r = op[p]
  BY OpAt
<1>2. r.at \in {"upload", "reupload"} /\ Wf(r)
  BY <1>1 DEF Upload, WfInv
<1>3. PICK o \in Objects :
        /\ bytes[o] = None
        /\ bytes' = [bytes EXCEPT ![o] = op[p].put]
        /\ stored' = stored \cup {o}
        /\ op' = [op EXCEPT ![p].ref = o, ![p].reused = FALSE,
                            ![p].at = IF At(p, "upload") THEN ToIndex(p)
                                      ELSE IF op[p].kind = "replace" THEN "swap" ELSE "index"]
  BY DEF Upload
<1>4. UNCHANGED <<rows, fresh, late, sweep, unnamed, starts, faults, astray, leaked>>
  BY DEF Upload
<1>5. PICK place : place = IF At(p, "upload") THEN ToIndex(p)
                           ELSE IF op[p].kind = "replace" THEN "swap" ELSE "index"
  OBVIOUS
<1>6. place \in {"index", "previous", "swap"}
  BY <1>5 DEF ToIndex
<1>7. PICK new : new = [r EXCEPT !.ref = o, !.reused = FALSE, !.at = place]
  OBVIOUS
<1>8. op' = [op EXCEPT ![p] = new]
  BY <1>1, <1>3, <1>5, <1>7 DEF TypeOK, OpRecord
<1>9. new \in OpRecord /\ new.key = r.key /\ new.put = r.put /\ new.kind = r.kind
      /\ new.target = r.target
  BY <1>6, <1>7 DEF OpRecord, Places
<1>10. new.at = place /\ new.ref = o /\ ~new.reused
  BY <1>7 DEF OpRecord
<1>11. Wf(new)
  BY <1>2, <1>6, <1>9, <1>10, NoneIsNone DEF Wf
<1>12. r.put \in Bytes /\ r.put # None
  BY <1>2, Fields DEF Wf
<1>13. /\ bytes' \in [Objects -> Bytes \cup {None}]
       /\ \A x \in Objects : bytes[x] # None => bytes'[x] # None
       /\ bytes'[o] # None
  BY <1>1, <1>3, <1>12 DEF TypeOK
<1>14. TypeRest'
  BY <1>3, <1>4, <1>13 DEF TypeOK, TypeRest
<1>15. \A x \in Objects : NamedNext(x) <=> Named(x)
  BY <1>4 DEF Named, NamedNext
<1>16. \A x : ~UploadOf(r, x) /\ ~ReleaseOf(r, x)
  BY <1>2, Handless
<1>17. HandEffect(p, new)
  BY <1>1, <1>3, <1>6, <1>9, <1>10, <1>13 DEF HandEffect, UploadOf
<1>18. NameEffect(p, new)
  BY <1>15 DEF NameEffect
<1>19. StoreEffect(p)
  BY <1>3, <1>4, <1>13 DEF StoreEffect
<1>20. UploadOf(new, o)
  BY <1>6, <1>10 DEF UploadOf
<1>21. TrackEffect(p, new)
  <2>1. stored' \subseteq Objects
    BY <1>14 DEF TypeRest
  <2> QED
    BY <1>1, <1>3, <1>4, <1>15, <1>16, <1>20, <2>1 DEF TrackEffect
<1> QED
  BY <1>8, <1>9, <1>11, <1>14, <1>17, <1>18, <1>19, <1>21 DEF Effect

\* What Release makes of what a write's key named, or was read to name.
LEMMA ReleaseRecord ==
  ASSUME TypeOK, NEW p \in Procs, NEW was \in Objects \cup {None},
         NEW new, new = Release(p, was)
  PROVE  /\ new \in OpRecord /\ Wf(new) /\ new.ref = None
         /\ new.at \in {"idle", "shares"}
         /\ was \notin {None, op[p].ref} => new.at = "shares" /\ new.target = was
         /\ was \in {None, op[p].ref} => new.target = None
<1>1. CASE was \in {None, op[p].ref}
  <2>1. new = Idle /\ new.at = "idle" /\ new.target = None /\ new.ref = None
    BY <1>1 DEF Release, Idle
  <2> QED
    BY <1>1, <2>1, IdleRecord
<1>2. CASE was \notin {None, op[p].ref}
  <2>1. new = [Idle EXCEPT !.at = "shares", !.target = was, !.last = TRUE]
    BY <1>2 DEF Release
  <2>2. new \in OpRecord
    BY <2>1 DEF Idle, OpRecord, Places, Kinds
  <2>3. new.at = "shares" /\ new.target = was /\ new.last /\ new.ref = None
    BY <2>1 DEF Idle
  <2>4. Wf(new)
    BY <1>2, <2>3 DEF Wf
  <2> QED
    BY <1>2, <2>2, <2>3, <2>4
<1> QED
  BY <1>1, <1>2

\* The write of a key to what p looked up or uploaded, whatever it releases after it.
LEMMA WriteEffect ==
  ASSUME TypeOK, WfInv, NEW p \in Procs, op[p].at \in {"index", "swap"}, ~Freed(p),
         NEW was \in Objects \cup {None}, NEW left \in SUBSET Objects,
         rows' = [rows EXCEPT ![op[p].key] = op[p].ref],
         fresh' = fresh \cup {op[p].key},
         op' = [op EXCEPT ![p] = Release(p, was)],
         UNCHANGED <<bytes, stored, late, sweep, unnamed, starts, faults, astray>>,
         Leak(left),
         was = None \/ was = op[p].target \/ Named(was),
         rows[op[p].key] \in {None, was} \cup left
  PROVE  \E new \in OpRecord : Effect(p, new)
<1>1. PICK r \in OpRecord : r = op[p]
  BY OpAt
<1>2. Wf(r) /\ r.at \in {"index", "swap"}
  BY <1>1 DEF WfInv
<1>3. r.key \in Keys /\ r.ref \in Objects /\ r.ref # None
  BY <1>2, Fields DEF Wf
<1>4. PICK new : new = Release(p, was)
  OBVIOUS
<1>5. /\ new \in OpRecord /\ Wf(new) /\ new.ref = None
      /\ new.at \in {"idle", "shares"}
      /\ was \notin {None, r.ref} => new.at = "shares" /\ new.target = was
      /\ was \in {None, r.ref} => new.target = None
  BY <1>1, <1>4, ReleaseRecord
<1>6. op' = [op EXCEPT ![p] = new]
  BY <1>4
<1>7. /\ rows' \in [Keys -> Objects \cup {None}]
      /\ rows'[r.key] = r.ref
      /\ \A k \in Keys \ {r.key} : rows'[k] = rows[k]
  BY <1>1, <1>3 DEF TypeOK
<1>8. leaked' = {o \in leaked \cup left : o \in stored' /\ ~NamedNext(o)}
  BY DEF Leak
<1>9. TypeRest'
  <2>1. fresh' \subseteq {k \in Keys : rows'[k] # None}
    BY <1>1, <1>3, <1>7 DEF TypeOK
  <2>2. leaked' \subseteq Objects
    BY <1>8 DEF TypeOK
  <2> QED
    BY <1>7, <2>1, <2>2 DEF TypeOK, TypeRest
<1>10. HandEffect(p, new)
  BY <1>1, <1>5 DEF HandEffect, UploadOf
<1>11. r.reused => Named(r.ref)
  BY <1>1 DEF Freed
<1>12. \A o \in Objects : NamedNext(o) => Named(o) \/ UploadOf(r, o)
  BY <1>2, <1>7, <1>11 DEF NamedNext, Named, UploadOf
<1>13. \A o : ~UploadOf(new, o)
  BY <1>5 DEF UploadOf
<1>14. NameEffect(p, new)
  BY <1>1, <1>12, <1>13 DEF NameEffect
<1>15. StoreEffect(p)
  BY DEF StoreEffect
<1>16. NamedNext(r.ref)
  BY <1>3, <1>7 DEF NamedNext
<1>17. \A o \in Objects : Named(o) => NamedNext(o) \/ o = rows[r.key]
  BY <1>7 DEF Named, NamedNext
<1>18. \A o \in Objects : UploadOf(r, o) \/ ReleaseOf(r, o) => o = r.ref
  BY <1>2 DEF UploadOf, ReleaseOf
<1>19. was \notin {None, r.ref} => ReleaseOf(new, was)
  BY <1>5 DEF ReleaseOf
<1>20. TrackEffect(p, new)
  <2>1. stored' \subseteq Objects /\ stored' = stored
    BY DEF TypeOK
  <2>2. \A o \in stored' : Named(o) => NamedNext(o) \/ ReleaseOf(new, o) \/ o \in leaked'
    BY <1>1, <1>8, <1>16, <1>17, <1>19, <2>1, NoneIsNone
  <2> QED
    BY <1>1, <1>8, <1>16, <1>18, <2>1, <2>2 DEF TrackEffect
<1> QED
  BY <1>5, <1>6, <1>9, <1>10, <1>14, <1>15, <1>20 DEF Effect

LEMMA IndexPutEffect ==
  ASSUME TypeOK, WfInv, NEW p \in Procs, IndexPut(p)
  PROVE  \E new \in OpRecord : Effect(p, new)
<1>1. op[p] \in OpRecord /\ Wf(op[p])
  BY OpAt DEF WfInv
<1>2. op[p].at = "index" /\ ~Freed(p)
  BY DEF IndexPut, At
<1>3. op[p].key \in Keys
  BY <1>1, <1>2, Fields DEF Wf
<1>4. PICK was : was = rows[op[p].key]
  OBVIOUS
<1>5. was \in Objects \cup {None} /\ (was = None \/ Named(was))
  BY <1>3, <1>4 DEF TypeOK, Named
<1>6. /\ rows' = [rows EXCEPT ![op[p].key] = op[p].ref]
      /\ fresh' = fresh \cup {op[p].key}
      /\ op' = [op EXCEPT ![p] = Release(p, was)]
      /\ UNCHANGED <<bytes, stored, late, sweep, unnamed, starts, faults, astray>>
      /\ Leak({})
  BY <1>4 DEF IndexPut
<1>7. {} \in SUBSET Objects /\ rows[op[p].key] \in {None, was} \cup {}
  BY <1>4
<1> QED
  BY <1>2, <1>5, <1>6, <1>7, WriteEffect

LEMMA SwapLandsEffect ==
  ASSUME TypeOK, WfInv, NEW p \in Procs, SwapLands(p)
  PROVE  \E new \in OpRecord : Effect(p, new)
<1>1. op[p] \in OpRecord /\ Wf(op[p])
  BY OpAt DEF WfInv
<1>2. op[p].at = "swap" /\ ~Freed(p)
  BY DEF SwapLands, At
<1>3. op[p].key \in Keys
  BY <1>1, <1>2, Fields DEF Wf
<1>4. PICK was : was = op[p].target
  OBVIOUS
<1>5. PICK left : left = {rows[op[p].key]} \ {None, op[p].target}
  OBVIOUS
<1>6. was \in Objects \cup {None} /\ left \in SUBSET Objects
  BY <1>1, <1>3, <1>4, <1>5, Fields DEF TypeOK
<1>7. /\ rows' = [rows EXCEPT ![op[p].key] = op[p].ref]
      /\ fresh' = fresh \cup {op[p].key}
      /\ op' = [op EXCEPT ![p] = Release(p, was)]
      /\ UNCHANGED <<bytes, stored, late, sweep, unnamed, starts, faults, astray>>
      /\ Leak(left)
  BY <1>4, <1>5 DEF SwapLands
<1>8. rows[op[p].key] \in {None, was} \cup left
  BY <1>4, <1>5
<1> QED
  BY <1>2, <1>4, <1>6, <1>7, <1>8, WriteEffect

\* The record of an operation that releases an object for good.
LEMMA LastRecord ==
  ASSUME NEW o \in Objects, NEW new,
         new = [Idle EXCEPT !.at = "shares", !.target = o, !.last = TRUE]
  PROVE  new \in OpRecord /\ Wf(new) /\ new.at = "shares" /\ new.target = o /\ new.ref = None
<1>1. new \in OpRecord
  BY DEF Idle, OpRecord, Places, Kinds
<1>2. new.at = "shares" /\ new.target = o /\ new.last /\ new.ref = None
  BY DEF Idle
<1> QED
  BY <1>1, <1>2, NoneIsNone DEF Wf

LEMMA SwapMissesEffect ==
  ASSUME TypeOK, WfInv, NEW p \in Procs, SwapMisses(p)
  PROVE  \E new \in OpRecord : Effect(p, new)
<1>1. PICK r \in OpRecord : r = op[p]
  BY OpAt
<1>2. r.at = "swap" /\ Wf(r) /\ StoreUnchanged /\ ~Freed(p)
  BY <1>1 DEF SwapMisses, At, WfInv
<1>3. r.ref \in Objects
  BY <1>2, Fields DEF Wf
<1>4. PICK new : new = [Idle EXCEPT !.at = "shares", !.target = r.ref, !.last = TRUE]
  OBVIOUS
<1>5. op' = [op EXCEPT ![p] = new]
  BY <1>1, <1>4 DEF SwapMisses
<1>6. new \in OpRecord /\ Wf(new) /\ new.at = "shares" /\ new.target = r.ref /\ new.ref = None
  BY <1>3, <1>4, LastRecord
<1>7. Named(r.ref) \/ UploadOf(r, r.ref)
  BY <1>1, <1>2 DEF Freed, UploadOf
<1>8. HandEffect(p, new)
  BY <1>1, <1>6, <1>7 DEF HandEffect, UploadOf
<1>9. \A o \in Objects : UploadOf(r, o) \/ ReleaseOf(r, o) => ReleaseOf(new, o)
  BY <1>2, <1>6 DEF UploadOf, ReleaseOf
<1> QED
  BY <1>1, <1>2, <1>5, <1>6, <1>8, <1>9, OwnEffect

LEMMA DeadlockEffect ==
  ASSUME TypeOK, WfInv, NEW p \in Procs, Deadlock(p)
  PROVE  \E new \in OpRecord : Effect(p, new)
<1>1. PICK r \in OpRecord : r = op[p]
  BY OpAt
<1>2. r.at \in {"index", "swap"} /\ Wf(r)
  BY <1>1 DEF Deadlock, WfInv
<1>3. UNCHANGED <<rows, fresh, bytes, stored, late, sweep, unnamed, starts, astray, leaked>>
  BY DEF Deadlock
<1>4. r.ref \in Objects
  BY <1>2, Fields DEF Wf
<1>5. TypeRest'
  BY <1>3, StoreAssumption DEF TypeOK, TypeRest, Deadlock, Fault
<1>6. CASE r.reused
  <2>1. op' = [op EXCEPT ![p] = Idle]
    BY <1>1, <1>6 DEF Deadlock
  <2>2. Idle.at = "idle" /\ Idle.ref = None /\ Idle.target = None
    BY DEF Idle
  <2>3. HandEffect(p, Idle)
    BY <2>2 DEF HandEffect, UploadOf
  <2>4. \A o \in Objects : ~UploadOf(r, o) /\ ~ReleaseOf(r, o)
    BY <1>2, <1>6 DEF UploadOf, ReleaseOf
  <2> QED
    BY <1>1, <1>3, <1>5, <2>1, <2>3, <2>4, QuietEffect, IdleRecord
<1>7. CASE ~r.reused
  <2>1. PICK new : new = [Idle EXCEPT !.at = "shares", !.target = r.ref, !.last = TRUE]
    OBVIOUS
  <2>2. op' = [op EXCEPT ![p] = new]
    BY <1>1, <1>7, <2>1 DEF Deadlock
  <2>3. new \in OpRecord /\ Wf(new) /\ new.at = "shares" /\ new.target = r.ref /\ new.ref = None
    BY <1>4, <2>1, LastRecord
  <2>4. UploadOf(r, r.ref)
    BY <1>2, <1>7 DEF UploadOf
  <2>5. HandEffect(p, new)
    BY <1>1, <2>3, <2>4 DEF HandEffect, UploadOf
  <2>6. \A o \in Objects : UploadOf(r, o) \/ ReleaseOf(r, o) => ReleaseOf(new, o)
    BY <1>2, <2>3 DEF UploadOf, ReleaseOf
  <2> QED
    BY <1>1, <1>3, <1>5, <2>2, <2>3, <2>5, <2>6, QuietEffect
<1> QED
  BY <1>6, <1>7, Fields

-----------------------------------------------------------------------------
(***************************************************************************)
(* Releasing an object                                                     *)
(***************************************************************************)

\* A row is taken away to release its object.
LEMMA TakeEffect ==
  ASSUME TypeOK, NEW p \in Procs, op[p].at \in {"idle", "loop"},
         NEW k \in Keys, rows[k] # None, rows' = [rows EXCEPT ![k] = None],
         fresh' = fresh \ {k},
         op' = [op EXCEPT ![p] = [Idle EXCEPT !.at = "shares", !.key = k, !.target = rows[k]]],
         UNCHANGED <<bytes, stored, late, unnamed, faults, astray, leaked>>,
         starts' \in 0..MaxStarts, sweep' \in [kept : SUBSET Keys, due : SUBSET Keys]
  PROVE  \E new \in OpRecord : Effect(p, new)
<1>1. PICK r \in OpRecord : r = op[p]
  BY OpAt
<1>2. PICK new : new = [Idle EXCEPT !.at = "shares", !.key = k, !.target = rows[k]]
  OBVIOUS
<1>3. rows[k] \in Objects /\ Named(rows[k])
  BY DEF TypeOK, Named
<1>4. new \in OpRecord
  BY <1>2, <1>3 DEF Idle, OpRecord, Places, Kinds
<1>5. new.at = "shares" /\ new.target = rows[k] /\ new.key = k /\ new.ref = None
  BY <1>2 DEF Idle
<1>6. Wf(new)
  BY <1>5, NoneIsNone DEF Wf
<1>7. /\ rows' \in [Keys -> Objects \cup {None}]
      /\ \A x \in Keys : rows'[x] # None => x # k /\ rows'[x] = rows[x]
      /\ \A x \in Keys \ {k} : rows'[x] = rows[x]
  BY DEF TypeOK
<1>8. TypeRest'
  <2>1. fresh' \subseteq {x \in Keys : rows'[x] # None}
    BY <1>7 DEF TypeOK
  <2> QED
    BY <1>7, <2>1 DEF TypeOK, TypeRest
<1>9. HandEffect(p, new)
  BY <1>3, <1>5 DEF HandEffect, UploadOf
<1>10. \A o \in Objects : NamedNext(o) => Named(o)
  BY <1>7, NoneIsNone DEF Named, NamedNext
<1>11. \A o \in Objects : Named(o) => NamedNext(o) \/ o = rows[k]
  BY <1>7 DEF Named, NamedNext
<1>12. NameEffect(p, new)
  BY <1>10 DEF NameEffect
<1>13. StoreEffect(p)
  BY DEF StoreEffect
<1>14. \A o : ~UploadOf(r, o) /\ ~ReleaseOf(r, o)
  BY <1>1, Handless
<1>15. ReleaseOf(new, rows[k])
  BY <1>5 DEF ReleaseOf
<1>16. TrackEffect(p, new)
  <2>1. stored' \subseteq Objects /\ stored' = stored
    BY DEF TypeOK
  <2> QED
    BY <1>1, <1>11, <1>14, <1>15, <2>1 DEF TrackEffect
<1> QED
  BY <1>2, <1>4, <1>6, <1>8, <1>9, <1>12, <1>13, <1>16 DEF Effect

LEMMA DeleteEffect ==
  ASSUME TypeOK, NEW p \in Procs, NEW k \in Keys, Delete(p, k)
  PROVE  \E new \in OpRecord : Effect(p, new)
<1>1. op[p].at \in {"idle", "loop"} /\ rows[k] # None
  BY DEF Delete, MayBegin, At
<1>2. /\ rows' = [rows EXCEPT ![k] = None]
      /\ fresh' = fresh \ {k}
      /\ op' = [op EXCEPT ![p] = [Idle EXCEPT !.at = "shares", !.key = k, !.target = rows[k]]]
      /\ UNCHANGED <<bytes, stored, late, unnamed, faults, astray, leaked>>
  BY DEF Delete
<1>3. starts' \in 0..MaxStarts
  BY StoreAssumption DEF Delete, MayBegin, TypeOK
<1>4. sweep' \in [kept : SUBSET Keys, due : SUBSET Keys]
  BY DEF Delete, TypeOK
<1> QED
  BY <1>1, <1>2, <1>3, <1>4, TakeEffect

\* Where a process goes when its release is over.
LEMMA ReleasedRecord ==
  ASSUME NEW p \in Procs, NEW new, new = Released(p)
  PROVE  /\ new \in OpRecord /\ Wf(new) /\ new.ref = None /\ new.target = None
         /\ new.at \in {"idle", "loop"}
<1>1. PICK loop : loop = [Idle EXCEPT !.at = "loop"]
  OBVIOUS
<1>2. loop \in OpRecord
  BY <1>1 DEF Idle, OpRecord, Places, Kinds
<1>3. loop.at = "loop" /\ loop.ref = None /\ loop.target = None
  BY <1>1 DEF Idle
<1>4. Wf(loop)
  BY <1>3 DEF Wf
<1>5. Idle.at = "idle" /\ Idle.ref = None /\ Idle.target = None
  BY DEF Idle
<1>6. new = loop \/ new = Idle
  BY <1>1 DEF Released
<1> QED
  BY <1>2, <1>3, <1>4, <1>5, <1>6, IdleRecord

LEMMA SharesEffect ==
  ASSUME TypeOK, WfInv, NEW p \in Procs, Shares(p)
  PROVE  \E new \in OpRecord : Effect(p, new)
<1>1. PICK r \in OpRecord : r = op[p]
  BY OpAt
<1>2. r.at = "shares" /\ Wf(r) /\ StoreUnchanged
  BY <1>1 DEF Shares, At, WfInv
<1>3. CASE Named(r.target)
  <2>1. PICK new : new = Released(p)
    OBVIOUS
  <2>2. op' = [op EXCEPT ![p] = new]
    BY <1>1, <1>3, <2>1 DEF Shares
  <2>3. /\ new \in OpRecord /\ Wf(new) /\ new.ref = None /\ new.target = None
        /\ new.at \in {"idle", "loop"}
    BY <2>1, ReleasedRecord
  <2>4. HandEffect(p, new)
    BY <2>3 DEF HandEffect, UploadOf
  <2>5. \A o \in Objects : UploadOf(r, o) \/ ReleaseOf(r, o) => Named(o)
    BY <1>2, <1>3 DEF UploadOf, ReleaseOf
  <2> QED
    BY <1>1, <1>2, <2>2, <2>3, <2>4, <2>5, OwnEffect
<1>4. CASE ~Named(r.target)
  <2>1. PICK new : new = [r EXCEPT !.at = "remove"]
    OBVIOUS
  <2>2. op' = [op EXCEPT ![p] = new]
    BY <1>1, <1>4, <2>1 DEF Shares
  <2>3. /\ new \in OpRecord /\ new.ref = r.ref /\ new.target = r.target
        /\ new.at = "remove" /\ new.key = r.key /\ new.last = r.last
    BY <2>1 DEF OpRecord, Places
  <2>4. Wf(new)
    BY <1>2, <2>3 DEF Wf
  <2>5. ~NamedNext(r.target)
    BY <1>2, <1>4 DEF Named, NamedNext, StoreUnchanged
  <2>6. HandEffect(p, new)
    BY <1>1, <2>3, <2>5 DEF HandEffect, UploadOf
  <2>7. \A o \in Objects : UploadOf(r, o) \/ ReleaseOf(r, o) => ReleaseOf(new, o)
    BY <1>2, <2>3 DEF UploadOf, ReleaseOf
  <2> QED
    BY <1>1, <1>2, <2>2, <2>3, <2>4, <2>6, <2>7, OwnEffect
<1> QED
  BY <1>3, <1>4

\* The end of a remove, whether or not the object went.
LEMMA EndRemoveEffect ==
  ASSUME TypeOK, WfInv, NEW p \in Procs, op[p].at = "remove", NEW left \in SUBSET Objects,
         NEW new \in OpRecord, Wf(new), op' = [op EXCEPT ![p] = new], TypeRest',
         new.ref \in {None, op[p].ref}, new.target \in {None, op[p].target},
         \/ new.at \in {"idle", "loop"}
         \/ new.at = "keep" /\ new.target = op[p].target /\ op[p].target \in astray',
         UNCHANGED <<rows, bytes, unnamed>>, stored' \subseteq stored,
         \A o \in stored : o \in stored' \/ o = op[p].target,
         late' \subseteq late \cup astray', astray \subseteq astray',
         Leak(left), op[p].target \in left \/ op[p].target \notin stored' \/ new.at = "keep"
  PROVE  Effect(p, new)
<1>1. \A o : NamedNext(o) <=> Named(o)
  BY DEF Named, NamedNext
<1>2. PICK r \in OpRecord : r = op[p]
  BY OpAt
<1>3. \A o : ~UploadOf(new, o)
  BY DEF UploadOf
<1>4. \A o : UploadOf(r, o) \/ ReleaseOf(r, o) => o = r.target
  BY <1>2 DEF UploadOf, ReleaseOf
<1>5. HandEffect(p, new)
  BY <1>3 DEF HandEffect
<1>6. NameEffect(p, new)
  BY <1>1 DEF NameEffect
<1>7. StoreEffect(p)
  BY DEF StoreEffect
<1>8. leaked' = {o \in leaked \cup left : o \in stored' /\ ~NamedNext(o)}
  BY DEF Leak
<1>9. new.at = "keep" => ReleaseOf(new, r.target)
  BY <1>2 DEF ReleaseOf
<1>10. TrackEffect(p, new)
  BY <1>1, <1>2, <1>4, <1>8, <1>9 DEF TrackEffect
<1> QED
  BY <1>5, <1>6, <1>7, <1>10 DEF Effect

LEMMA RemovedEffect ==
  ASSUME TypeOK, WfInv, NEW p \in Procs, Removed(p)
  PROVE  \E new \in OpRecord : Effect(p, new)
<1>1. PICK new : new = Released(p)
  OBVIOUS
<1>2. /\ new \in OpRecord /\ Wf(new) /\ new.ref = None /\ new.target = None
      /\ new.at \in {"idle", "loop"}
  BY <1>1, ReleasedRecord
<1>3. op' = [op EXCEPT ![p] = new] /\ op[p].at = "remove"
  BY <1>1 DEF Removed, At
<1>4. /\ stored' = stored \ {op[p].target} /\ late' = late \ {op[p].target}
      /\ UNCHANGED <<rows, fresh, bytes, sweep, unnamed, starts, faults, astray>>
      /\ Leak({})
  BY DEF Removed
<1>5. TypeRest'
  BY <1>4 DEF TypeOK, TypeRest, Leak
<1>6. /\ stored' \subseteq stored /\ \A o \in stored : o \in stored' \/ o = op[p].target
      /\ late' \subseteq late \cup astray' /\ astray \subseteq astray'
      /\ op[p].target \notin stored' /\ {} \in SUBSET Objects
  BY <1>4
<1> QED
  BY <1>2, <1>3, <1>4, <1>5, <1>6, EndRemoveEffect

LEMMA RemoveRefusedEffect ==
  ASSUME TypeOK, WfInv, NEW p \in Procs, RemoveRefused(p)
  PROVE  \E new \in OpRecord : Effect(p, new)
<1>1. PICK new : new = Released(p)
  OBVIOUS
<1>2. /\ new \in OpRecord /\ Wf(new) /\ new.ref = None /\ new.target = None
      /\ new.at \in {"idle", "loop"}
  BY <1>1, ReleasedRecord
<1>3. op' = [op EXCEPT ![p] = new] /\ op[p].at = "remove" /\ op[p].target \in stored
  BY <1>1 DEF RemoveRefused, At
<1>4. /\ UNCHANGED <<rows, fresh, bytes, stored, late, sweep, unnamed, starts, astray>>
      /\ Leak({op[p].target})
  BY DEF RemoveRefused
<1>5. faults' \in 0..MaxFaults
  BY StoreAssumption DEF RemoveRefused, Fault, TypeOK
<1>6. TypeRest'
  BY <1>3, <1>4, <1>5 DEF TypeOK, TypeRest, Leak
<1>7. {op[p].target} \in SUBSET Objects
  BY <1>3 DEF TypeOK
<1>8. /\ stored' \subseteq stored /\ \A o \in stored : o \in stored' \/ o = op[p].target
      /\ late' \subseteq late \cup astray' /\ astray \subseteq astray'
  BY <1>4
<1> QED
  BY <1>2, <1>3, <1>4, <1>6, <1>7, <1>8, EndRemoveEffect

LEMMA RemoveFailsEffect ==
  ASSUME TypeOK, WfInv, NEW p \in Procs, RemoveFails(p)
  PROVE  \E new \in OpRecord : Effect(p, new)
<1>1. PICK r \in OpRecord : r = op[p]
  BY OpAt
<1>2. r.at = "remove" /\ Wf(r)
  BY <1>1 DEF RemoveFails, At, WfInv
<1>3. r.target \in Objects
  BY <1>2, Fields DEF Wf
<1>4. PICK new : new = IF r.last THEN Idle ELSE [r EXCEPT !.at = "keep"]
  OBVIOUS
<1>5. op' = [op EXCEPT ![p] = new]
  BY <1>1, <1>4 DEF RemoveFails
<1>6. PICK left : left = IF r.last THEN {r.target} ELSE {}
  OBVIOUS
<1>7. /\ UNCHANGED <<rows, fresh, bytes, sweep, unnamed, starts>>
      /\ astray' = astray \cup {r.target}
      /\ Leak(left)
  BY <1>1, <1>6 DEF RemoveFails
<1>8. /\ stored' \subseteq stored /\ \A o \in stored : o \in stored' \/ o = r.target
      /\ late' \subseteq late \cup {r.target} /\ late' \subseteq stored'
  BY <1>1 DEF RemoveFails, TypeOK
<1>9. faults' \in 0..MaxFaults
  BY StoreAssumption DEF RemoveFails, Fault, TypeOK
<1>10. left \in SUBSET Objects
  BY <1>3, <1>6
<1>11. leaked' \subseteq Objects /\ astray' \subseteq Objects
  BY <1>3, <1>7, <1>10 DEF Leak, TypeOK
<1>12. TypeRest'
  BY <1>7, <1>8, <1>9, <1>11 DEF TypeOK, TypeRest
<1>13. CASE r.last
  <2>1. new = Idle /\ new.at = "idle" /\ new.ref = None /\ new.target = None
    BY <1>4, <1>13 DEF Idle
  <2>2. r.target \in left
    BY <1>6, <1>13
  <2> QED
    BY <1>1, <1>2, <1>5, <1>7, <1>8, <1>10, <1>12, <2>1, <2>2, IdleRecord, EndRemoveEffect
<1>14. CASE ~r.last
  <2>1. /\ new \in OpRecord /\ new.at = "keep" /\ new.ref = r.ref /\ new.target = r.target
        /\ new.key = r.key /\ new.last = r.last
    BY <1>4, <1>14 DEF OpRecord, Places
  <2>2. Wf(new)
    BY <1>2, <1>14, <2>1 DEF Wf
  <2>3. r.target \in astray'
    BY <1>7
  <2> QED
    BY <1>1, <1>2, <1>5, <1>7, <1>8, <1>10, <1>12, <2>1, <2>2, <2>3, EndRemoveEffect
<1> QED
  BY <1>13, <1>14, Fields

\* The row goes back, or the key has another and the object is released for good.
LEMMA KeepEffect ==
  ASSUME TypeOK, WfInv, NEW p \in Procs, Keep(p)
  PROVE  \E new \in OpRecord : Effect(p, new)
<1>1. PICK r \in OpRecord : r = op[p]
  BY OpAt
<1>2. r.at = "keep" /\ Wf(r) /\ ~r.last
  BY <1>1 DEF Keep, At, WfInv, Wf
<1>3. r.target \in Objects /\ r.key \in Keys
  BY <1>2, Fields DEF Wf
<1>4. /\ UNCHANGED <<bytes, stored, late, unnamed, starts, faults, astray>>
      /\ leaked' = {o \in leaked : o \in stored' /\ ~NamedNext(o)}
  BY DEF Keep, Leak
<1>5. sweep' \in [kept : SUBSET Keys, due : SUBSET Keys]
  BY DEF Keep, TypeOK, Quiet
<1>6. ReleaseOf(r, r.target) /\ \A o : UploadOf(r, o) \/ ReleaseOf(r, o) => o = r.target
  BY <1>2 DEF ReleaseOf, UploadOf
<1>7. StoreEffect(p)
  BY <1>4 DEF StoreEffect
<1>8. stored' = stored /\ stored' \subseteq Objects
  BY <1>4 DEF TypeOK
<1>9. CASE rows[r.key] = None
  <2>1. /\ rows' = [rows EXCEPT ![r.key] = r.target]
        /\ fresh' = fresh \cup {r.key}
        /\ op' = [op EXCEPT ![p] = Idle]
    BY <1>1, <1>9 DEF Keep, End
  <2>2. /\ rows' \in [Keys -> Objects \cup {None}]
        /\ rows'[r.key] = r.target
        /\ \A k \in Keys \ {r.key} : rows'[k] = rows[k]
    BY <1>3, <2>1 DEF TypeOK
  <2>3. TypeRest'
    <3>1. fresh' \subseteq {k \in Keys : rows'[k] # None}
      BY <1>3, <2>1, <2>2, NoneIsNone DEF TypeOK
    <3> QED
      BY <1>4, <1>5, <2>2, <3>1 DEF TypeOK, TypeRest
  <2>4. Idle.at = "idle" /\ Idle.ref = None /\ Idle.target = None
    BY DEF Idle
  <2>5. HandEffect(p, Idle)
    BY <2>4 DEF HandEffect, UploadOf
  <2>6. \A o \in Objects : NamedNext(o) => Named(o) \/ o = r.target
    BY <2>2 DEF Named, NamedNext
  <2>7. NameEffect(p, Idle)
    BY <1>1, <1>2, <2>6 DEF NameEffect
  <2>8. NamedNext(r.target)
    BY <1>3, <2>2 DEF NamedNext
  <2>9. \A o \in Objects : Named(o) => NamedNext(o)
    BY <1>9, <2>2, NoneIsNone DEF Named, NamedNext
  <2>10. TrackEffect(p, Idle)
    BY <1>1, <1>4, <1>6, <1>8, <2>8, <2>9 DEF TrackEffect
  <2> QED
    BY <1>7, <2>1, <2>3, <2>5, <2>7, <2>10, IdleRecord DEF Effect
<1>10. CASE rows[r.key] # None
  <2>1. PICK new : new = [r EXCEPT !.at = "shares", !.last = TRUE]
    OBVIOUS
  <2>2. op' = [op EXCEPT ![p] = new] /\ UNCHANGED <<rows, fresh>>
    BY <1>1, <1>10, <2>1 DEF Keep, TypeOK
  <2>3. /\ new \in OpRecord /\ new.at = "shares" /\ new.ref = r.ref /\ new.target = r.target
        /\ new.last
    BY <2>1 DEF OpRecord, Places
  <2>4. Wf(new)
    BY <1>2, <2>3 DEF Wf
  <2>5. TypeRest'
    BY <1>4, <1>5, <2>2 DEF TypeOK, TypeRest
  <2>6. HandEffect(p, new)
    BY <1>1, <2>3 DEF HandEffect, UploadOf
  <2>7. \A o : NamedNext(o) <=> Named(o)
    BY <2>2 DEF Named, NamedNext
  <2>8. NameEffect(p, new)
    BY <2>7 DEF NameEffect
  <2>9. ReleaseOf(new, r.target)
    BY <2>3 DEF ReleaseOf
  <2>10. TrackEffect(p, new)
    BY <1>1, <1>4, <1>6, <1>8, <2>7, <2>9 DEF TrackEffect
  <2> QED
    BY <1>7, <2>2, <2>3, <2>4, <2>5, <2>6, <2>8, <2>10 DEF Effect
<1> QED
  BY <1>9, <1>10

-----------------------------------------------------------------------------
(***************************************************************************)
(* Claims, the sweeps, and what happens around the store                   *)
(***************************************************************************)

LEMMA ClaimEffect ==
  ASSUME TypeOK, NEW p \in Procs, NEW k \in Keys, Claim(p, k)
  PROVE  \E new \in OpRecord : Effect(p, new)
<1>1. PICK r \in OpRecord : r = op[p]
  BY OpAt
<1>2. r.at = "idle"
  BY <1>1 DEF Claim, ClaimBegins, MayBegin, At
<1>3. PICK new : new = [Idle EXCEPT !.at = "read", !.kind = "claim", !.key = k, !.from = k]
  OBVIOUS
<1>4. op' = [op EXCEPT ![p] = new]
  BY <1>3 DEF Claim, ClaimBegins
<1>5. new \in OpRecord
  BY <1>3 DEF Idle, OpRecord, Places, Kinds
<1>6. new.at = "read" /\ new.key = k /\ new.from = k /\ new.ref = None /\ new.target = None
  BY <1>3 DEF Idle
<1>7. Wf(new)
  BY <1>6, NoneIsNone DEF Wf
<1>8. UNCHANGED <<rows, bytes, stored, late, sweep, unnamed, faults, astray, leaked>>
  BY DEF Claim, ClaimBegins
<1>9. TypeRest'
  <2>1. starts' \in 0..MaxStarts
    BY StoreAssumption DEF Claim, ClaimBegins, MayBegin, TypeOK
  <2>2. fresh' \subseteq {x \in Keys : rows'[x] # None}
    BY <1>8 DEF Claim, TypeOK
  <2> QED
    BY <1>8, <2>1, <2>2 DEF TypeOK, TypeRest
<1>10. HandEffect(p, new)
  BY <1>6 DEF HandEffect, UploadOf
<1> QED
  BY <1>1, <1>2, <1>4, <1>5, <1>7, <1>8, <1>9, <1>10, QuietEffect, Handless

LEMMA ReadEffect ==
  ASSUME TypeOK, WfInv, NEW p \in Procs, Read(p)
  PROVE  \E new \in OpRecord : Effect(p, new)
<1>1. PICK r \in OpRecord : r = op[p]
  BY OpAt
<1>2. r.at = "read" /\ Wf(r) /\ StoreUnchanged
  BY <1>1 DEF Read, At, WfInv
<1>3. PICK o : o = rows[r.key]
  OBVIOUS
<1>4. r.key \in Keys /\ o \in Objects \cup {None} /\ (o # None => Named(o))
  BY <1>2, <1>3, Fields DEF Wf, TypeOK, Named
<1>5. PICK new : new = IF o = None THEN Idle ELSE [r EXCEPT !.at = "there", !.ref = o]
  OBVIOUS
<1>6. op' = [op EXCEPT ![p] = new]
  BY <1>1, <1>3, <1>5 DEF Read, TypeOK
<1>7. \A x : ~UploadOf(r, x) /\ ~ReleaseOf(r, x)
  BY <1>2, Handless
<1>8. CASE o = None
  <2>1. new = Idle /\ new.at = "idle" /\ new.ref = None /\ new.target = None
    BY <1>5, <1>8 DEF Idle
  <2>2. HandEffect(p, new)
    BY <2>1 DEF HandEffect, UploadOf
  <2> QED
    BY <1>1, <1>2, <1>6, <1>7, <2>1, <2>2, OwnEffect, IdleRecord
<1>9. CASE o # None
  <2>1. /\ new \in OpRecord /\ new.at = "there" /\ new.ref = o /\ new.target = r.target
        /\ new.key = r.key /\ new.from = r.from
    BY <1>4, <1>5, <1>9 DEF OpRecord, Places
  <2>2. Wf(new)
    BY <1>2, <1>9, <2>1 DEF Wf
  <2>3. HandEffect(p, new)
    BY <1>1, <1>4, <1>9, <2>1 DEF HandEffect, UploadOf
  <2> QED
    BY <1>1, <1>2, <1>6, <1>7, <2>1, <2>2, <2>3, OwnEffect
<1> QED
  BY <1>8, <1>9

LEMMA ThereEffect ==
  ASSUME TypeOK, WfInv, NEW p \in Procs, There(p)
  PROVE  \E new \in OpRecord : Effect(p, new)
<1>1. PICK r \in OpRecord : r = op[p]
  BY OpAt
<1>2. r.at = "there" /\ Wf(r) /\ StoreUnchanged
  BY <1>1 DEF There, At, WfInv
<1>3. PICK new : new = IF r.ref \notin stored THEN [r EXCEPT !.at = "forget", !.ref = None]
                       ELSE IF r.kind = "link" THEN [r EXCEPT !.at = "index", !.reused = TRUE]
                       ELSE [r EXCEPT !.at = "add", !.ref = None]
  OBVIOUS
<1>4. op' = [op EXCEPT ![p] = new]
  BY <1>1, <1>3 DEF There
<1>5. /\ new \in OpRecord /\ new.key = r.key /\ new.from = r.from /\ new.target = r.target
      /\ new.kind = r.kind
  <2>1. CASE r.ref \notin stored
    BY <1>3, <2>1 DEF OpRecord, Places
  <2>2. CASE r.ref \in stored /\ r.kind = "link"
    BY <1>3, <2>2 DEF OpRecord, Places
  <2>3. CASE r.ref \in stored /\ r.kind # "link"
    BY <1>3, <2>3 DEF OpRecord, Places
  <2> QED
    BY <2>1, <2>2, <2>3
<1>6. \/ new.at = "forget" /\ new.ref = None
      \/ new.at = "index" /\ new.ref = r.ref /\ new.reused /\ new.kind = "link"
      \/ new.at = "add" /\ new.ref = None
  BY <1>3 DEF OpRecord
<1>7. Wf(new)
  BY <1>2, <1>5, <1>6 DEF Wf
<1>8. HandEffect(p, new)
  BY <1>1, <1>5, <1>6 DEF HandEffect, UploadOf
<1> QED
  BY <1>1, <1>2, <1>4, <1>5, <1>7, <1>8, OwnEffect, Handless

\* The key's row goes, whatever it names: its object is left behind.
LEMMA ForgetEffect ==
  ASSUME TypeOK, WfInv, NEW p \in Procs, Forget(p)
  PROVE  \E new \in OpRecord : Effect(p, new)
<1>1. PICK r \in OpRecord : r = op[p]
  BY OpAt
<1>2. r.at = "forget" /\ Wf(r)
  BY <1>1 DEF Forget, At, WfInv
<1>3. PICK k \in Keys : k = r.from
  BY <1>2, Fields DEF Wf
<1>4. /\ rows' = [rows EXCEPT ![k] = None]
      /\ fresh' = fresh \ {k}
      /\ op' = [op EXCEPT ![p] = Idle]
      /\ UNCHANGED <<bytes, stored, late, sweep, unnamed, starts, faults, astray>>
      /\ leaked' = {o \in leaked \cup ({rows[k]} \ {None}) : o \in stored' /\ ~NamedNext(o)}
  BY <1>1, <1>3 DEF Forget, End, Leak
<1>5. /\ rows' \in [Keys -> Objects \cup {None}]
      /\ \A x \in Keys : rows'[x] # None => x # k /\ rows'[x] = rows[x]
      /\ \A x \in Keys \ {k} : rows'[x] = rows[x]
  BY <1>4 DEF TypeOK
<1>6. TypeRest'
  <2>1. fresh' \subseteq {x \in Keys : rows'[x] # None}
    BY <1>4, <1>5 DEF TypeOK
  <2>2. leaked' \subseteq Objects
    BY <1>4 DEF TypeOK
  <2> QED
    BY <1>4, <1>5, <2>1, <2>2 DEF TypeOK, TypeRest
<1>7. Idle.at = "idle" /\ Idle.ref = None /\ Idle.target = None
  BY DEF Idle
<1>8. HandEffect(p, Idle)
  BY <1>7 DEF HandEffect, UploadOf
<1>9. \A o \in Objects : NamedNext(o) => Named(o)
  BY <1>5, NoneIsNone DEF Named, NamedNext
<1>10. \A o \in Objects : Named(o) => NamedNext(o) \/ o = rows[k]
  BY <1>5 DEF Named, NamedNext
<1>11. NameEffect(p, Idle)
  BY <1>9 DEF NameEffect
<1>12. StoreEffect(p)
  BY <1>4 DEF StoreEffect
<1>13. \A o : ~UploadOf(r, o) /\ ~ReleaseOf(r, o)
  BY <1>2, Handless
<1>14. TrackEffect(p, Idle)
  <2>1. stored' \subseteq Objects /\ stored' = stored
    BY <1>4 DEF TypeOK
  <2> QED
    BY <1>1, <1>4, <1>10, <1>13, <2>1, NoneIsNone DEF TrackEffect
<1> QED
  BY <1>4, <1>6, <1>8, <1>11, <1>12, <1>14, IdleRecord DEF Effect

LEMMA AddEffect ==
  ASSUME TypeOK, WfInv, NEW p \in Procs, Add(p)
  PROVE  \E new \in OpRecord : Effect(p, new)
<1>1. PICK r \in OpRecord : r = op[p]
  BY OpAt
<1>2. r.at = "add" /\ Wf(r) /\ StoreUnchanged
  BY <1>1 DEF Add, At, WfInv
<1>3. PICK new : new = [r EXCEPT !.at = "held"]
  OBVIOUS
<1>4. op' = [op EXCEPT ![p] = new]
  BY <1>1, <1>3 DEF Add, Go
<1>5. /\ new \in OpRecord /\ new.at = "held" /\ new.key = r.key /\ new.target = r.target
      /\ new.ref = r.ref
  BY <1>3 DEF OpRecord, Places
<1>6. Wf(new)
  BY <1>2, <1>5 DEF Wf
<1>7. HandEffect(p, new)
  BY <1>1, <1>5 DEF HandEffect, UploadOf
<1> QED
  BY <1>1, <1>2, <1>4, <1>5, <1>6, <1>7, OwnEffect, Handless

LEMMA DropEffect ==
  ASSUME TypeOK, WfInv, NEW p \in Procs, Drop(p)
  PROVE  Effect(p, Idle)
<1>1. PICK r \in OpRecord : r = op[p]
  BY OpAt
<1>2. r.at = "held" /\ StoreUnchanged /\ op' = [op EXCEPT ![p] = Idle]
  BY <1>1 DEF Drop, At, End
<1>3. Idle.at = "idle" /\ Idle.ref = None /\ Idle.target = None
  BY DEF Idle
<1>4. HandEffect(p, Idle)
  BY <1>3 DEF HandEffect, UploadOf
<1> QED
  BY <1>1, <1>2, <1>4, OwnEffect, Handless, IdleRecord

\* A step of the sweeper that changes its own place and lists alone.
LEMMA SweepQuiet ==
  ASSUME TypeOK, NEW place \in {"idle", "list", "loop"}, NEW new \in OpRecord,
         new.at = place, new.ref \in {None, op[Sweeper].ref},
         new.target \in {None, op[Sweeper].target},
         op' = [op EXCEPT ![Sweeper] = new],
         op[Sweeper].at \in {"idle", "list", "loop"},
         sweep' \in [kept : SUBSET Keys, due : SUBSET Keys], starts' \in 0..MaxStarts,
         UNCHANGED <<rows, fresh, bytes, stored, late, unnamed, faults, astray, leaked>>
  PROVE  Effect(Sweeper, new)
<1>1. Sweeper \in Procs
  BY DEF Procs
<1>2. Wf(new)
  BY DEF Wf
<1>3. HandEffect(Sweeper, new)
  BY DEF HandEffect, UploadOf
<1>4. TypeRest'
  BY DEF TypeOK, TypeRest
<1>5. \A o : ~UploadOf(op[Sweeper], o) /\ ~ReleaseOf(op[Sweeper], o)
  BY DEF UploadOf, ReleaseOf
<1> QED
  BY <1>1, <1>2, <1>3, <1>4, <1>5, QuietEffect

LEMMA SweepStartEffect ==
  ASSUME TypeOK, WfInv, SweepStart
  PROVE  \E new \in OpRecord : Effect(Sweeper, new)
<1>1. PICK r \in OpRecord : r = op[Sweeper]
  BY OpAt DEF Procs
<1>2. PICK new : new = [r EXCEPT !.at = "list"]
  OBVIOUS
<1>3. op' = [op EXCEPT ![Sweeper] = new] /\ r.at = "idle"
  BY <1>1, <1>2 DEF SweepStart, MayBegin, At, TypeOK
<1>4. new \in OpRecord /\ new.at = "list" /\ new.ref = r.ref /\ new.target = r.target
  BY <1>2 DEF OpRecord, Places
<1>5. starts' \in 0..MaxStarts
  BY StoreAssumption DEF SweepStart, MayBegin, TypeOK
<1>6. Referenced \subseteq Keys
  <2>1. ASSUME NEW p \in Ops, At(p, "held") PROVE op[p].key \in Keys
    BY <2>1, OpAt, Fields DEF At, WfInv, Wf, Procs
  <2> QED
    BY <2>1 DEF Referenced
<1>7. UNCHANGED <<rows, fresh, bytes, stored, late, unnamed, faults, astray, leaked>>
  BY DEF SweepStart
<1>8. sweep' \in [kept : SUBSET Keys, due : SUBSET Keys]
  BY <1>6 DEF SweepStart
<1> QED
  BY <1>1, <1>3, <1>4, <1>5, <1>7, <1>8, SweepQuiet

LEMMA SweepListEffect ==
  ASSUME TypeOK, SweepList
  PROVE  \E new \in OpRecord : Effect(Sweeper, new)
<1>1. PICK r \in OpRecord : r = op[Sweeper]
  BY OpAt DEF Procs
<1>2. PICK new : new = [r EXCEPT !.at = "loop"]
  OBVIOUS
<1>3. op' = [op EXCEPT ![Sweeper] = new] /\ r.at = "list"
  BY <1>1, <1>2 DEF SweepList, At, Go, TypeOK
<1>4. new \in OpRecord /\ new.at = "loop" /\ new.ref = r.ref /\ new.target = r.target
  BY <1>2 DEF OpRecord, Places
<1>5. UNCHANGED <<rows, fresh, bytes, stored, late, unnamed, starts, faults, astray, leaked>>
  BY DEF SweepList
<1>6. starts' \in 0..MaxStarts /\ sweep' \in [kept : SUBSET Keys, due : SUBSET Keys]
  BY <1>5 DEF SweepList, TypeOK
<1> QED
  BY <1>1, <1>3, <1>4, <1>5, <1>6, SweepQuiet

LEMMA SweepEndEffect ==
  ASSUME TypeOK, SweepEnd
  PROVE  \E new \in OpRecord : Effect(Sweeper, new)
<1>1. op' = [op EXCEPT ![Sweeper] = Idle] /\ op[Sweeper].at = "loop"
  BY DEF SweepEnd, End, At
<1>2. Idle.at = "idle" /\ Idle.ref = None /\ Idle.target = None
  BY DEF Idle
<1>3. UNCHANGED <<rows, fresh, bytes, stored, late, unnamed, starts, faults, astray, leaked>>
  BY DEF SweepEnd
<1>4. starts' \in 0..MaxStarts /\ sweep' \in [kept : SUBSET Keys, due : SUBSET Keys]
  BY <1>3 DEF SweepEnd, TypeOK, Quiet
<1> QED
  BY <1>1, <1>2, <1>3, <1>4, IdleRecord, SweepQuiet

\* A step that leaves every record alone, seen as one of the sweeper.
LEMMA StillEffect ==
  ASSUME TypeOK, WfInv, op' = op, UNCHANGED <<rows, bytes>>, TypeRest', StoreEffect(Sweeper),
         stored' \subseteq stored, leaked' = {o \in leaked : o \in stored' /\ ~NamedNext(o)} \/ leaked' = leaked
  PROVE  \E new \in OpRecord : Effect(Sweeper, new)
<1>1. PICK new \in OpRecord : new = op[Sweeper]
  BY OpAt DEF Procs
<1>2. op' = [op EXCEPT ![Sweeper] = new] /\ Wf(new)
  BY <1>1 DEF TypeOK, WfInv, Procs
<1>3. \A o : NamedNext(o) <=> Named(o)
  BY DEF Named, NamedNext
<1>4. HandEffect(Sweeper, new)
  BY <1>1 DEF HandEffect
<1>5. NameEffect(Sweeper, new)
  BY <1>3 DEF NameEffect
<1>6. TrackEffect(Sweeper, new)
  BY <1>1, <1>3 DEF TrackEffect
<1> QED
  BY <1>2, <1>4, <1>5, <1>6 DEF Effect

LEMMA SweepDeleteEffect ==
  ASSUME TypeOK, WfInv, NEW k \in Keys, SweepDelete(k)
  PROVE  \E new \in OpRecord : Effect(Sweeper, new)
<1>1. Sweeper \in Procs /\ op[Sweeper].at = "loop"
  BY DEF Procs, SweepDelete, At
<1>2. UNCHANGED <<bytes, stored, late, unnamed, starts, faults, astray, leaked>>
  BY DEF SweepDelete
<1>3. starts' \in 0..MaxStarts /\ sweep' \in [kept : SUBSET Keys, due : SUBSET Keys]
  BY <1>2 DEF SweepDelete, TypeOK
<1>4. CASE Stale(k)
  <2>1. /\ rows[k] # None
        /\ rows' = [rows EXCEPT ![k] = None]
        /\ fresh' = fresh \ {k}
        /\ op' = [op EXCEPT ![Sweeper] =
                     [Idle EXCEPT !.at = "shares", !.key = k, !.target = rows[k]]]
    BY <1>4 DEF SweepDelete, Stale
  <2> QED
    BY <1>1, <1>2, <1>3, <2>1, TakeEffect
<1>5. CASE ~Stale(k)
  <2>1. UNCHANGED <<rows, fresh, op>>
    BY <1>5 DEF SweepDelete
  <2>2. TypeRest'
    BY <1>2, <1>3, <2>1 DEF TypeOK, TypeRest
  <2>3. StoreEffect(Sweeper)
    BY <1>2 DEF StoreEffect
  <2> QED
    BY <1>2, <2>1, <2>2, <2>3, StillEffect
<1> QED
  BY <1>4, <1>5

\* The sweep of files takes none that a row names or its uploader is about to name.
LEMMA UnrecordedFoundEffect ==
  ASSUME TypeOK, WfInv, NEW o \in Objects, UnrecordedFound(o)
  PROVE  \E new \in OpRecord : Effect(Sweeper, new)
<1>1. /\ o \in stored /\ ~Named(o) /\ unnamed' = o
      /\ \A p \in Procs : ~Uploaded(p, o)
      /\ UNCHANGED <<rows, fresh, bytes, stored, late, op, sweep, starts, faults, astray, leaked>>
  BY DEF UnrecordedFound, Recorded
<1>2. TypeRest'
  BY <1>1 DEF TypeOK, TypeRest
<1>3. ~NamedNext(o)
  BY <1>1 DEF Named, NamedNext
<1>4. \A q \in Procs : ~UploadOf(op[q], o)
  BY <1>1 DEF Uploaded, UploadOf
<1>5. StoreEffect(Sweeper)
  BY <1>1, <1>3, <1>4 DEF StoreEffect
<1> QED
  BY <1>1, <1>2, <1>5, StillEffect

LEMMA UnrecordedDeletedEffect ==
  ASSUME TypeOK, WfInv, UnrecordedDeleted
  PROVE  \E new \in OpRecord : Effect(Sweeper, new)
<1>1. /\ unnamed' = None
      /\ stored' \subseteq stored /\ \A o \in stored : o \in stored' \/ o = unnamed
      /\ late' \subseteq late /\ late' \subseteq stored'
      /\ UNCHANGED <<rows, fresh, bytes, op, sweep, starts, faults, astray>>
      /\ leaked' = {o \in leaked : o \in stored' /\ ~NamedNext(o)}
  BY DEF UnrecordedDeleted, Leak, TypeOK
<1>2. TypeRest'
  BY <1>1 DEF TypeOK, TypeRest
<1>3. StoreEffect(Sweeper)
  BY <1>1 DEF StoreEffect
<1> QED
  BY <1>1, <1>2, <1>3, StillEffect

LEMMA AroundEffect ==
  ASSUME TypeOK, WfInv, Around
  PROVE  \E new \in OpRecord : Effect(Sweeper, new)
<1>1. ASSUME NEW k \in Keys, Age(k) PROVE \E new \in OpRecord : Effect(Sweeper, new)
  <2>1. /\ fresh' = fresh \ {k}
        /\ UNCHANGED <<rows, bytes, stored, late, op, sweep, unnamed, starts, faults, astray, leaked>>
    BY <1>1 DEF Age
  <2>2. TypeRest'
    BY <2>1 DEF TypeOK, TypeRest
  <2>3. StoreEffect(Sweeper)
    BY <2>1 DEF StoreEffect
  <2> QED
    BY <2>1, <2>2, <2>3, StillEffect
<1>2. ASSUME NEW o \in Objects, LateRemove(o) PROVE \E new \in OpRecord : Effect(Sweeper, new)
  <2>1. /\ o \in late /\ late' = late \ {o} /\ stored' = stored \ {o}
        /\ UNCHANGED <<rows, fresh, bytes, op, sweep, unnamed, starts, faults, astray>>
        /\ leaked' = {x \in leaked : x \in stored' /\ ~NamedNext(x)}
    BY <1>2 DEF LateRemove, Leak
  <2>2. TypeRest'
    BY <2>1 DEF TypeOK, TypeRest
  <2>3. StoreEffect(Sweeper)
    BY <2>1 DEF StoreEffect
  <2> QED
    BY <2>1, <2>2, <2>3, StillEffect
<1>3. ASSUME NEW o \in Objects, UserDeletes(o) PROVE \E new \in OpRecord : Effect(Sweeper, new)
  <2>1. /\ stored' = stored \ {o} /\ late' = late \ {o} /\ astray' = astray \cup {o}
        /\ UNCHANGED <<rows, fresh, bytes, op, sweep, unnamed, starts>>
        /\ leaked' = {x \in leaked : x \in stored' /\ ~NamedNext(x)}
    BY <1>3 DEF UserDeletes, Leak
  <2>2. faults' \in 0..MaxFaults
    BY <1>3, StoreAssumption DEF UserDeletes, Fault, TypeOK
  <2>3. TypeRest'
    BY <2>1, <2>2 DEF TypeOK, TypeRest
  <2>4. StoreEffect(Sweeper)
    BY <2>1 DEF StoreEffect
  <2> QED
    BY <2>1, <2>3, <2>4, StillEffect
<1> QED
  BY <1>1, <1>2, <1>3 DEF Around

\* What a stopped process had in hand is left behind.
LEMMA StopEffect ==
  ASSUME TypeOK, WfInv, NEW p \in Procs, Stop(p)
  PROVE  Effect(p, Idle)
<1>1. PICK left : left = {o \in Objects : Uploaded(p, o) \/ Releasing(p, o)}
  OBVIOUS
<1>2. /\ op' = [op EXCEPT ![p] = Idle]
      /\ UNCHANGED <<rows, fresh, bytes, stored, late, unnamed, starts, astray>>
      /\ leaked' = {o \in leaked \cup left : o \in stored' /\ ~NamedNext(o)}
  BY <1>1 DEF Stop, End, Leak
<1>3. faults' \in 0..MaxFaults /\ sweep' \in [kept : SUBSET Keys, due : SUBSET Keys]
  BY StoreAssumption DEF Stop, Fault, TypeOK, Quiet
<1>4. TypeRest'
  BY <1>1, <1>2, <1>3 DEF TypeOK, TypeRest
<1>5. Idle.at = "idle" /\ Idle.ref = None /\ Idle.target = None
  BY DEF Idle
<1>6. HandEffect(p, Idle)
  BY <1>5 DEF HandEffect, UploadOf
<1>7. \A o : NamedNext(o) <=> Named(o)
  BY <1>2 DEF Named, NamedNext
<1>8. NameEffect(p, Idle)
  BY <1>7 DEF NameEffect
<1>9. StoreEffect(p)
  BY <1>2 DEF StoreEffect
<1>10. \A o \in Objects : UploadOf(op[p], o) \/ ReleaseOf(op[p], o) => o \in left
  BY <1>1 DEF UploadOf, ReleaseOf, Uploaded, Releasing
<1>11. TrackEffect(p, Idle)
  <2>1. stored' \subseteq Objects /\ stored' = stored
    BY <1>2 DEF TypeOK
  <2> QED
    BY <1>2, <1>7, <1>10, <2>1 DEF TrackEffect
<1> QED
  BY <1>2, <1>4, <1>6, <1>8, <1>9, <1>11, IdleRecord DEF Effect

\* Every step of the specification has such an effect.
LEMMA StepEffect ==
  ASSUME TypeOK, WfInv, HistoryInv, Next
  PROVE  \E p \in Procs, new \in OpRecord : Effect(p, new)
<1>1. Ops \subseteq Procs /\ Sweeper \in Procs
  BY DEF Procs
<1>2. ASSUME NEW p \in Ops, OpStep(p) PROVE \E new \in OpRecord : Effect(p, new)
  <2>1. p \in Procs
    BY <1>1
  <2>2. CASE \E k \in Keys, b \in Bytes : Put(p, k, b)
    BY <2>1, <2>2, PutEffect
  <2>3. CASE \E k \in Keys, b \in Bytes, e \in Bytes \cup {None} : Replace(p, k, b, e)
    BY <2>1, <2>3, ReplaceEffect
  <2>4. CASE \E k, from \in Keys : Link(p, k, from)
    BY <2>1, <2>4, LinkEffect
  <2>5. CASE Exists(p) \/ Upload(p) \/ Previous(p)
    BY <2>1, <2>5, ExistsEffect, UploadEffect, PreviousEffect
  <2>6. CASE ReuseLost(p) \/ IndexPut(p) \/ SwapLands(p) \/ SwapMisses(p) \/ Deadlock(p)
    BY <2>1, <2>6, ReuseLostEffect, IndexPutEffect, SwapLandsEffect, SwapMissesEffect, DeadlockEffect
  <2>7. CASE \E k \in Keys : Delete(p, k)
    BY <2>1, <2>7, DeleteEffect
  <2>8. CASE \E k \in Keys : Claim(p, k)
    BY <2>1, <2>8, ClaimEffect
  <2>9. CASE Read(p) \/ There(p) \/ Forget(p) \/ Add(p) \/ Drop(p)
    BY <2>1, <2>9, ReadEffect, ThereEffect, ForgetEffect, AddEffect, DropEffect, IdleRecord
  <2> QED
    BY <1>2, <2>2, <2>3, <2>4, <2>5, <2>6, <2>7, <2>8, <2>9 DEF OpStep
<1>3. ASSUME NEW p \in Procs, ReleaseStep(p) PROVE \E new \in OpRecord : Effect(p, new)
  BY <1>3, SharesEffect, RemovedEffect, RemoveRefusedEffect, RemoveFailsEffect, KeepEffect,
     StopEffect, IdleRecord DEF ReleaseStep
<1>4. CASE SweepStep
  <2>1. \E new \in OpRecord : Effect(Sweeper, new)
    BY <1>4, SweepStartEffect, SweepListEffect, SweepEndEffect, SweepDeleteEffect,
       UnrecordedFoundEffect, UnrecordedDeletedEffect DEF SweepStep
  <2> QED
    BY <1>1, <2>1
<1>5. CASE Around
  BY <1>1, <1>5, AroundEffect
<1> QED
  BY <1>1, <1>2, <1>3, <1>4, <1>5 DEF Next

-----------------------------------------------------------------------------
(***************************************************************************)
(* What such an effect keeps                                               *)
(***************************************************************************)
LEMMA RecordsAfter ==
  ASSUME TypeOK, NEW p \in Procs, NEW new \in OpRecord, Effect(p, new)
  PROVE  /\ op' \in [Procs -> OpRecord]
         /\ op'[p] = new
         /\ \A q \in Procs \ {p} : op'[q] = op[q]
  BY DEF TypeOK, Effect

LEMMA TypeKept ==
  ASSUME TypeOK, WfInv, NEW p \in Procs, NEW new \in OpRecord, Effect(p, new)
  PROVE  TypeOK' /\ WfInv'
<1>1. WfInv'
  BY RecordsAfter DEF Effect, WfInv
<1>2. \A q \in Procs : op'[q].at \in {"shares", "remove", "keep"} => op'[q].target # None
  BY <1>1 DEF WfInv, Wf
<1> QED
  BY <1>1, <1>2, RecordsAfter DEF TypeOK, TypeRest, Effect

LEMMA HistoryKept ==
  ASSUME TypeOK, HistoryInv, NEW p \in Procs, NEW new \in OpRecord, Effect(p, new)
  PROVE  HistoryInv'
<1> DEFINE Known(o) == bytes[o] # None
<1>1. HandEffect(p, new) /\ NameEffect(p, new) /\ StoreEffect(p) /\ TypeRest'
  BY DEF Effect
<1>2. \A o \in Objects : Known(o) => bytes'[o] # None
  BY <1>1 DEF StoreEffect
<1>3. \A o \in Objects : Named(o) => Known(o)
  BY NoneIsNone DEF HistoryInv, Named
<1>4. \A o \in Objects : UploadOf(op[p], o) \/ op[p].target = o => Known(o)
  BY NoneIsNone DEF HistoryInv, UploadOf
<1>5. op[p].ref # None => Known(op[p].ref)
  BY DEF HistoryInv
<1>6. \A o \in Objects : NamedNext(o) => bytes'[o] # None
  BY <1>1, <1>2, <1>3, <1>4 DEF NameEffect
<1>7. \A k \in Keys : rows'[k] # None => bytes'[rows'[k]] # None
  BY <1>1, <1>6 DEF TypeRest, NamedNext
<1>8. op[p] \in OpRecord /\ op[p].ref \in Objects \cup {None}
      /\ new.ref \in Objects \cup {None} /\ new.target \in Objects \cup {None}
  BY OpAt, Fields
<1>9. new.ref # None => bytes'[new.ref] # None
  BY <1>1, <1>2, <1>3, <1>5, <1>8 DEF HandEffect
<1>10. new.target # None => bytes'[new.target] # None
  BY <1>1, <1>2, <1>3, <1>4, <1>8 DEF HandEffect
<1>11. \A q \in Procs \ {p} : op[q].ref \in Objects \cup {None} /\ op[q].target \in Objects \cup {None}
  BY OpAt, Fields
<1>12. \A q \in Procs : op'[q].ref # None => bytes'[op'[q].ref] # None
  BY <1>2, <1>9, <1>11, RecordsAfter DEF HistoryInv
<1>13. \A q \in Procs : op'[q].target # None => bytes'[op'[q].target] # None
  BY <1>2, <1>10, <1>11, RecordsAfter DEF HistoryInv
<1>14. unnamed' # None => bytes'[unnamed'] # None
  BY <1>1, <1>2 DEF StoreEffect, HistoryInv, TypeOK
<1> QED
  BY <1>7, <1>12, <1>13, <1>14 DEF HistoryInv

\* An object that an operation uploaded, and that it has not named, stays its own.
LEMMA PrivateKept ==
  ASSUME TypeOK, HistoryInv, PrivateInv, GoneInv, NEW p \in Procs, NEW new \in OpRecord,
         Effect(p, new)
  PROVE  PrivateInv'
<1>1. HandEffect(p, new) /\ NameEffect(p, new) /\ StoreEffect(p) /\ TypeRest'
  BY DEF Effect
<1>2. op'[p] = new /\ \A q \in Procs \ {p} : op'[q] = op[q]
  BY RecordsAfter
<1>3. \A o \in Objects : Named(o) => bytes[o] # None
  BY NoneIsNone DEF HistoryInv, Named
<1>4. \A q \in Procs, o \in Objects : UploadOf(op[q], o) \/ op[q].target = o => bytes[o] # None
  BY NoneIsNone DEF HistoryInv, UploadOf
<1>5. ASSUME NEW q \in Procs, NEW o \in Objects, UploadOf(op[q], o), q # p \/ UploadOf(new, o)
      PROVE  /\ o \in stored' \cup astray'
             /\ ~NamedNext(o)
             /\ unnamed' # o
             /\ \A z \in Procs : op'[z].target # o /\ (z # q => ~UploadOf(op'[z], o))
  <2>1. /\ o \in stored \cup astray /\ ~Named(o) /\ unnamed # o
        /\ \A z \in Procs : op[z].target # o /\ (z # q => ~UploadOf(op[z], o))
    BY <1>5 DEF PrivateInv
  <2>2. o \in stored' \cup astray'
    BY <1>1, <2>1 DEF StoreEffect, GoneInv
  <2>3. ~NamedNext(o)
    BY <1>1, <1>5, <2>1 DEF NameEffect
  <2>4. unnamed' # o
    BY <1>1, <1>5, <2>1, NoneIsNone DEF StoreEffect
  <2>5. new.target # o
    <3>1. CASE q = p
      <4>1. new.at # "shares"
        BY <1>5, <3>1 DEF UploadOf
      <4> QED
        BY <1>1, <2>1, <4>1, NoneIsNone DEF HandEffect
    <3>2. CASE q # p
      BY <1>1, <2>1, <3>2, NoneIsNone DEF HandEffect
    <3> QED
      BY <3>1, <3>2
  <2>6. q # p => ~UploadOf(new, o)
    BY <1>1, <1>4, <1>5, <2>1 DEF HandEffect
  <2> QED
    BY <1>2, <2>1, <2>2, <2>3, <2>4, <2>5, <2>6
<1>6. ASSUME NEW o \in Objects, bytes[o] = None, o \in stored', UploadOf(new, o)
      PROVE  /\ ~NamedNext(o)
             /\ unnamed' # o
             /\ \A z \in Procs : op'[z].target # o /\ (z # p => ~UploadOf(op'[z], o))
  <2>1. ~Named(o) /\ \A z \in Procs : op[z].target # o /\ ~UploadOf(op[z], o)
    BY <1>3, <1>4, <1>6
  <2>2. ~NamedNext(o)
    BY <1>1, <2>1 DEF NameEffect
  <2>3. unnamed' # o
    BY <1>1, <1>6, NoneIsNone DEF StoreEffect, HistoryInv, TypeOK
  <2>4. new.target # o
    BY <1>1, <2>1, NoneIsNone DEF HandEffect
  <2> QED
    BY <1>2, <2>1, <2>2, <2>3, <2>4
<1>7. ASSUME NEW q \in Procs, NEW o \in Objects, UploadOf(op'[q], o)
      PROVE  /\ o \in stored' \cup astray'
             /\ ~NamedNext(o)
             /\ unnamed' # o
             /\ \A z \in Procs : op'[z].target # o /\ (z # q => ~UploadOf(op'[z], o))
  <2>1. CASE UploadOf(op[q], o)
    BY <1>2, <1>5, <1>7, <2>1
  <2>2. CASE ~UploadOf(op[q], o)
    <3>1. q = p /\ UploadOf(new, o)
      BY <1>2, <1>7, <2>2
    <3>2. bytes[o] = None /\ o \in stored'
      BY <1>1, <2>2, <3>1 DEF HandEffect
    <3> QED
      BY <1>6, <3>1, <3>2
  <2> QED
    BY <2>1, <2>2
<1> QED
  BY <1>7 DEF PrivateInv, Named, NamedNext

LEMMA GoneKept ==
  ASSUME TypeOK, HistoryInv, PrivateInv, GoneInv, NEW p \in Procs, NEW new \in OpRecord,
         Effect(p, new)
  PROVE  GoneInv'
<1>1. HandEffect(p, new) /\ NameEffect(p, new) /\ StoreEffect(p) /\ TypeRest'
  BY DEF Effect
<1>2. op'[p] = new /\ \A q \in Procs \ {p} : op'[q] = op[q]
  BY RecordsAfter
<1>3. astray \subseteq astray' /\ late' \subseteq astray'
  BY <1>1 DEF StoreEffect, GoneInv
\* What comes to be named was no operation's target, unless a remove of it failed.
<1>4. ASSUME NEW o \in Objects, NamedNext(o), o = unnamed \/ \E q \in Procs : op[q].target = o
      PROVE  Named(o) \/ o \in astray
  <2>1. ~UploadOf(op[p], o)
    BY <1>4 DEF PrivateInv
  <2> QED
    BY <1>1, <1>4, <2>1 DEF NameEffect, GoneInv, At
<1>5. ASSUME NEW q \in Procs, At(q, "remove")', Named(op[q].target)' PROVE op'[q].target \in astray'
  <2>1. op'[q] \in OpRecord /\ op'[q].at = "remove"
    BY <1>5, RecordsAfter DEF At
  <2>2. CASE op[q].at = "remove" /\ op[q].target = op'[q].target
    <3>1. PICK o : o = op'[q].target
      OBVIOUS
    <3>2. o \in Objects \cup {None} /\ op[q].target = o
      BY <2>1, <2>2, <3>1, Fields
    <3>3. NamedNext(o)
      BY <1>5, <3>1 DEF Named, NamedNext
    <3>4. o \in Objects
      BY <2>2, <3>2 DEF TypeOK
    <3>5. Named(o) => o \in astray
      BY <2>2, <3>2 DEF GoneInv, At
    <3> QED
      BY <1>3, <1>4, <3>1, <3>2, <3>3, <3>4, <3>5
  <2>3. CASE ~(op[q].at = "remove" /\ op[q].target = op'[q].target)
    <3>1. q = p
      BY <1>2, <2>1, <2>3
    <3>2. ~NamedNext(new.target)
      BY <1>1, <1>2, <2>1, <2>3, <3>1 DEF HandEffect
    <3> QED
      BY <1>2, <1>5, <3>1, <3>2 DEF Named, NamedNext
  <2> QED
    BY <2>2, <2>3
<1>6. ASSUME NEW q \in Procs, At(q, "keep")' PROVE op'[q].target \in astray'
  <2>1. op'[q].at = "keep"
    BY <1>6 DEF At
  <2>2. CASE op[q].at = "keep" /\ op[q].target = op'[q].target
    BY <1>3, <2>2 DEF GoneInv, At
  <2>3. CASE ~(op[q].at = "keep" /\ op[q].target = op'[q].target)
    BY <1>1, <1>2, <2>1, <2>3 DEF HandEffect
  <2> QED
    BY <2>2, <2>3
<1>7. unnamed' # None /\ NamedNext(unnamed') => unnamed' \in astray'
  <2>1. ASSUME unnamed' = unnamed, unnamed # None, NamedNext(unnamed) PROVE unnamed \in astray
    <3>1. unnamed \in Objects
      BY <2>1 DEF TypeOK
    <3> QED
      BY <1>4, <2>1, <3>1 DEF GoneInv
  <2> QED
    BY <1>1, <1>3, <2>1 DEF StoreEffect
<1>8. \A q \in Procs : At(q, "remove")' /\ Named(op[q].target)' => op'[q].target \in astray'
  BY <1>5
<1>9. \A q \in Procs : At(q, "keep")' => op'[q].target \in astray'
  BY <1>6
<1>10. Named(unnamed)' <=> NamedNext(unnamed')
  BY DEF Named, NamedNext
<1> QED
  BY <1>3, <1>7, <1>8, <1>9, <1>10 DEF GoneInv

LEMMA NamedKept ==
  ASSUME TypeOK, IInv, NamedIsStored, NEW p \in Procs, NEW new \in OpRecord, Effect(p, new)
  PROVE  NamedIsStored'
<1>1. NameEffect(p, new) /\ StoreEffect(p) /\ TypeRest'
  BY DEF Effect
<1>2. ASSUME NEW o \in Objects, NamedNext(o) PROVE o \in stored' \cup astray'
  <2>1. CASE Named(o)
    <3>1. o \in stored \cup astray
      BY <2>1, NoneIsNone DEF NamedIsStored, Named
    <3>2. o = unnamed => o \in astray
      BY <2>1, NoneIsNone DEF IInv, GoneInv
    <3>3. op[p].at = "remove" /\ op[p].target = o => o \in astray
      BY <2>1 DEF IInv, GoneInv, At
    <3>4. late \subseteq astray
      BY DEF IInv, GoneInv
    <3> QED
      BY <1>1, <3>1, <3>2, <3>3, <3>4 DEF StoreEffect
  <2>2. CASE UploadOf(op[p], o)
    <3>1. /\ o \in stored \cup astray /\ unnamed # o /\ op[p].target # o
      BY <2>2 DEF IInv, PrivateInv
    <3>2. late \subseteq astray
      BY DEF IInv, GoneInv
    <3> QED
      BY <1>1, <3>1, <3>2 DEF StoreEffect
  <2>3. CASE op[p].at = "keep" /\ op[p].target = o
    BY <1>1, <2>3 DEF StoreEffect, IInv, GoneInv, At
  <2> QED
    BY <1>1, <1>2, <2>1, <2>2, <2>3 DEF NameEffect
<1>3. \A k \in Keys : rows'[k] # None => rows'[k] \in Objects /\ NamedNext(rows'[k])
  BY <1>1 DEF TypeRest, NamedNext
<1> QED
  BY <1>2, <1>3 DEF NamedIsStored

LEMMA HandIs ==
  \A o : InHand(o) <=> \E q \in Procs : UploadOf(op[q], o) \/ ReleaseOf(op[q], o)
  BY DEF InHand, Uploaded, Releasing, UploadOf, ReleaseOf

LEMMA TrackedKept ==
  ASSUME TypeOK, Tracked, NEW p \in Procs, NEW new \in OpRecord, Effect(p, new)
  PROVE  Tracked'
<1>1. TrackEffect(p, new) /\ TypeRest'
  BY DEF Effect
<1>2. op'[p] = new /\ \A q \in Procs \ {p} : op'[q] = op[q]
  BY RecordsAfter
<1>3. ASSUME NEW o \in stored'
      PROVE  \/ NamedNext(o)
             \/ \E q \in Procs : UploadOf(op'[q], o) \/ ReleaseOf(op'[q], o)
             \/ o \in leaked'
  <2>1. CASE UploadOf(new, o) \/ ReleaseOf(new, o)
    BY <1>2, <2>1
  <2>2. CASE Named(o) \/ o \in leaked
    BY <1>1, <1>2, <2>2 DEF TrackEffect
  <2>3. CASE \E q \in Procs : UploadOf(op[q], o) \/ ReleaseOf(op[q], o)
    <3>1. PICK q \in Procs : UploadOf(op[q], o) \/ ReleaseOf(op[q], o)
      BY <2>3
    <3>2. CASE q = p
      BY <1>1, <1>2, <3>1, <3>2 DEF TrackEffect
    <3>3. CASE q # p
      BY <1>2, <3>1, <3>3
    <3> QED
      BY <3>2, <3>3
  <2>4. o \in stored \/ UploadOf(new, o)
    BY <1>1 DEF TrackEffect
  <2> QED
    BY <2>1, <2>2, <2>3, <2>4, HandIs DEF Tracked
<1>4. \A o : InHand(o)' <=> \E q \in Procs : UploadOf(op'[q], o) \/ ReleaseOf(op'[q], o)
  BY DEF InHand, Uploaded, Releasing, UploadOf, ReleaseOf
<1>5. \A o : Named(o)' <=> NamedNext(o)
  BY DEF Named, NamedNext
<1> QED
  BY <1>3, <1>4, <1>5 DEF Tracked

-----------------------------------------------------------------------------
(***************************************************************************)
(* The theorems                                                            *)
(***************************************************************************)
LEMMA InitInv == Init => Inv
<1> SUFFICES ASSUME Init PROVE Inv
  OBVIOUS
<1>1. op = [p \in Procs |-> Idle] /\ \A p \in Procs : op[p] = Idle
  BY DEF Init
<1>2. Idle.at = "idle" /\ Idle.ref = None /\ Idle.target = None
  BY DEF Idle
<1>3. 1 \in Objects
  BY StoreAssumption DEF Objects
<1>4. PICK b \in Bytes : bytes = [o \in Objects |-> IF o = 1 THEN b ELSE None]
  BY DEF Init
<1>5. bytes \in [Objects -> Bytes \cup {None}] /\ bytes[1] # None
  BY <1>3, <1>4, NoneIsNone
<1>6. rows \in [Keys -> Objects \cup {None}] /\ \A k \in Keys : rows[k] \in {1, None}
  BY <1>3 DEF Init
<1>7. TypeOK
  <2>1. op \in [Procs -> OpRecord]
    BY <1>1, IdleRecord
  <2>2. \A p \in Procs : op[p].at \in {"shares", "remove", "keep"} => op[p].target # None
    BY <1>1, <1>2
  <2>3. starts \in 0..MaxStarts /\ faults \in 0..MaxFaults
    BY StoreAssumption DEF Init
  <2>4. sweep \in [kept : SUBSET Keys, due : SUBSET Keys]
    BY DEF Init, Quiet
  <2>5. leaked \subseteq Objects
    BY <1>3 DEF Init
  <2>6. /\ fresh = {} /\ stored = {1} /\ late = {} /\ unnamed = None /\ astray = {}
    BY DEF Init
  <2>7. stored \subseteq {o \in Objects : bytes[o] # None}
    BY <1>3, <1>5, <2>6
  <2> QED
    BY <1>5, <1>6, <2>1, <2>2, <2>3, <2>4, <2>5, <2>6, <2>7 DEF TypeOK
<1>8. WfInv
  BY <1>1, IdleRecord DEF WfInv
<1>9. HistoryInv
  BY <1>1, <1>2, <1>5, <1>6 DEF HistoryInv, Init
<1>10. PrivateInv
  BY <1>1, <1>2 DEF PrivateInv, UploadOf
<1>11. GoneInv
  BY <1>1, <1>2 DEF GoneInv, At, Init
<1>12. NamedIsStored
  BY <1>6 DEF NamedIsStored, Init
<1>13. Tracked
  BY DEF Tracked, Init, Named
<1> QED
  BY <1>7, <1>8, <1>9, <1>10, <1>11, <1>12, <1>13 DEF Inv, IInv

LEMMA NextInv == Inv /\ [Next]_vars => Inv'
<1> SUFFICES ASSUME Inv, [Next]_vars PROVE Inv'
  OBVIOUS
<1>1. CASE Next
  <2>1. PICK p \in Procs, new \in OpRecord : Effect(p, new)
    BY <1>1, StepEffect DEF Inv, IInv
  <2> QED
    BY <2>1, TypeKept, HistoryKept, PrivateKept, GoneKept, NamedKept, TrackedKept DEF Inv, IInv
<1>2. CASE UNCHANGED vars
  BY <1>2 DEF vars, Inv, IInv, TypeOK, WfInv, HistoryInv, PrivateInv, GoneInv, NamedIsStored,
     Tracked, Named, At, InHand, Uploaded, Releasing
<1> QED
  BY <1>1, <1>2

\* The inductive invariant holds in every state, with what it carries.
THEOREM Invariance == Spec => []Inv
  BY InitInv, NextInv, PTL DEF Spec

\* Every variable keeps its type, and a release has an object to release.
THEOREM TypeCorrect == Spec => []TypeOK
  BY Invariance, PTL DEF Inv

\* Whatever put, link, delete, claims and the sweeps do at once, a row names an object that
\* the backend has, unless a remove of it failed or a user deleted it.
THEOREM NamedIsStoredHolds == Spec => []NamedIsStored
  BY Invariance, PTL DEF Inv

\* Each stored object has a row, or an operation that is about to name or remove it, or was
\* left behind where the code gives up on it.
THEOREM TrackedHolds == Spec => []Tracked
  BY Invariance, PTL DEF Inv

-----------------------------------------------------------------------------
(***************************************************************************)
(* ClaimKept                                                               *)
(***************************************************************************)
SweepInv == TypeOK /\ WfInv /\ ClaimInv /\ KeptInv

\* A row that comes to be is fresh, and a fresh one stays so (but for its age).
FreshEffect ==
    \A k \in Keys : rows'[k] # None /\ (k \in fresh \/ rows[k] = None) => k \in fresh'

\* A claimant goes on with its key, and one that holds it holds it until the end.
ClaimStep(was, is) ==
    is.kind = "claim" => was.kind = "claim" /\ is.key = was.key /\ (was.at = "held" => is.at = "held")

\* A sweep under way keeps what it started with.
SweepEffect == Sweeping' => Sweeping /\ sweep'.kept = sweep.kept

LEMMA ClaimInvKept ==
  ASSUME TypeOK, ClaimInv, FreshEffect, SweepEffect,
         \A p \in Ops : ClaimStep(op[p], op'[p])
  PROVE  ClaimInv'
<1> SUFFICES ASSUME NEW p \in Ops, NEW k \in Keys,
                    op'[p].kind = "claim", op'[p].key = k, rows'[k] # None
             PROVE  /\ op'[p].at # "held" => k \in fresh'
                    /\ op'[p].at = "held" /\ Sweeping' => k \in fresh' \cup sweep'.kept
  BY DEF ClaimInv, At
<1>1. op[p].kind = "claim" /\ op[p].key = k /\ (op[p].at = "held" => op'[p].at = "held")
  BY DEF ClaimStep
<1>2. rows[k] # None => /\ op[p].at # "held" => k \in fresh
                        /\ op[p].at = "held" /\ Sweeping => k \in fresh \cup sweep.kept
  BY <1>1 DEF ClaimInv, At
<1> QED
  BY <1>1, <1>2 DEF FreshEffect, SweepEffect

\* A step of an operation leaves the sweep alone.
LEMMA OthersSweep ==
  ASSUME TypeOK, NEW p \in Ops, NEW new, op' = [op EXCEPT ![p] = new], sweep' = sweep,
         FreshEffect, ClaimStep(op[p], new), ClaimInv, KeptInv
  PROVE  ClaimInv' /\ KeptInv'
<1>1. p \in Procs /\ Sweeper \in Procs /\ p # Sweeper
  BY StoreAssumption DEF Procs
<1>2. op'[p] = new /\ \A q \in Procs \ {p} : op'[q] = op[q]
  BY <1>1 DEF TypeOK
<1>3. SweepEffect
  BY <1>1, <1>2 DEF SweepEffect, Sweeping
<1>4. \A q \in Ops : ClaimStep(op[q], op'[q])
  BY <1>2 DEF ClaimStep, Procs
<1> QED
  BY <1>3, <1>4, ClaimInvKept DEF KeptInv

\* One of the sweep leaves the claimants alone.
LEMMA SweepersClaims ==
  ASSUME TypeOK, NEW new, op' = [op EXCEPT ![Sweeper] = new] \/ op' = op,
         FreshEffect, SweepEffect, ClaimInv
  PROVE  ClaimInv'
<1>1. \A q \in Ops : op'[q] = op[q]
  BY StoreAssumption DEF TypeOK, Procs
<1>2. \A q \in Ops : ClaimStep(op[q], op'[q])
  BY <1>1 DEF ClaimStep
<1> QED
  BY <1>2, ClaimInvKept

LEMMA IdleClaims == \A r : ClaimStep(r, Idle)
  BY DEF ClaimStep, Idle

LEMMA OpStepClaims ==
  ASSUME SweepInv, NEW p \in Ops, OpStep(p)
  PROVE  ClaimInv' /\ KeptInv'
<1>1. p \in Procs /\ op[p] \in OpRecord /\ Wf(op[p]) /\ TypeOK /\ ClaimInv /\ KeptInv
  BY OpAt DEF Procs, SweepInv, WfInv
<1>2. PICK r \in OpRecord : r = op[p]
  BY <1>1
<1>3. Wf(r)
  BY <1>1, <1>2
\* The steps that touch no row.
<1>4. ASSUME UNCHANGED <<rows, fresh, sweep>>, NEW new, op' = [op EXCEPT ![p] = new],
             ClaimStep(r, new)
      PROVE  ClaimInv' /\ KeptInv'
  <2>1. FreshEffect
    BY <1>1, <1>4 DEF FreshEffect, TypeOK
  <2> QED
    BY <1>1, <1>2, <1>4, <2>1, OthersSweep
<1>5. ASSUME NEW base, base.kind # "claim", NEW new \in Lookup(base), Begins(p, new),
             base \in OpRecord
      PROVE  ClaimInv' /\ KeptInv'
  <2>1. new.kind # "claim"
    <3>1. CASE new = [base EXCEPT !.at = "upload"]
      BY <1>5, <3>1 DEF OpRecord
    <3>2. CASE \E o \in Objects : new = [base EXCEPT !.at = "exists", !.ref = o]
      BY <1>5, <3>2 DEF OpRecord
    <3> QED
      BY <1>5, <3>1, <3>2 DEF Lookup
  <2>2. ClaimStep(r, new)
    BY <2>1 DEF ClaimStep
  <2> QED
    BY <1>4, <1>5, <2>2 DEF Begins
<1>6. CASE \E k \in Keys, b \in Bytes : Put(p, k, b)
  <2>1. PICK k \in Keys, b \in Bytes : Put(p, k, b)
    BY <1>6
  <2>2. PICK base : base = [Idle EXCEPT !.kind = "put", !.key = k, !.put = b]
    OBVIOUS
  <2>3. base \in OpRecord /\ base.kind # "claim"
    BY <2>2 DEF Idle, OpRecord, Places, Kinds
  <2> QED
    BY <1>5, <2>1, <2>2, <2>3 DEF Put
<1>7. CASE \E k \in Keys, b \in Bytes, e \in Bytes \cup {None} : Replace(p, k, b, e)
  <2>1. PICK k \in Keys, b \in Bytes, e \in Bytes \cup {None} : Replace(p, k, b, e)
    BY <1>7
  <2>2. PICK base : base = [Idle EXCEPT !.kind = "replace", !.key = k, !.put = b, !.expected = e]
    OBVIOUS
  <2>3. base \in OpRecord /\ base.kind # "claim"
    BY <2>2 DEF Idle, OpRecord, Places, Kinds
  <2> QED
    BY <1>5, <2>1, <2>2, <2>3 DEF Replace
<1>8. CASE \E k, from \in Keys : Link(p, k, from)
  <2>1. PICK k \in Keys, from \in Keys : Link(p, k, from)
    BY <1>8
  <2>2. PICK new : new = [Idle EXCEPT !.at = "there", !.kind = "link", !.key = k, !.from = from,
                                      !.ref = rows[from]]
    OBVIOUS
  <2>3. ClaimStep(r, new)
    BY <2>2 DEF Idle, ClaimStep
  <2> QED
    BY <1>4, <2>1, <2>2, <2>3 DEF Link, Begins
<1>9. CASE Exists(p)
  <2>1. PICK new : new = IF r.ref \in stored
                         THEN [r EXCEPT !.at = ToIndex(p), !.reused = TRUE]
                         ELSE [r EXCEPT !.at = "upload", !.ref = None]
    OBVIOUS
  <2>2. op' = [op EXCEPT ![p] = new] /\ r.at = "exists" /\ StoreUnchanged
    BY <1>2, <1>9, <2>1 DEF Exists, At
  <2>3. new.kind = r.kind /\ new.key = r.key
    BY <2>1 DEF OpRecord
  <2> QED
    BY <1>4, <2>2, <2>3 DEF ClaimStep, StoreUnchanged
<1>10. CASE Upload(p)
  <2>1. PICK o \in Objects, place \in {"index", "previous", "swap"} :
          op' = [op EXCEPT ![p].ref = o, ![p].reused = FALSE, ![p].at = place]
    BY <1>10 DEF Upload, ToIndex
  <2>2. PICK new : new = [r EXCEPT !.ref = o, !.reused = FALSE, !.at = place]
    OBVIOUS
  <2>3. op' = [op EXCEPT ![p] = new]
    BY <1>1, <1>2, <2>1, <2>2 DEF TypeOK, OpRecord
  <2>4. new.kind = r.kind /\ new.key = r.key
    BY <2>2 DEF OpRecord
  <2>5. r.at # "held" /\ UNCHANGED <<rows, fresh, sweep>>
    BY <1>2, <1>10 DEF Upload
  <2> QED
    BY <1>4, <2>3, <2>4, <2>5 DEF ClaimStep
<1>11. CASE Previous(p)
  <2>1. PICK new : new = [r EXCEPT !.at = "swap", !.target = rows[r.key]]
    OBVIOUS
  <2>2. op' = [op EXCEPT ![p] = new] /\ r.at = "previous" /\ StoreUnchanged
    BY <1>1, <1>2, <1>11, <2>1 DEF Previous, At, TypeOK
  <2>3. new.kind = r.kind /\ new.key = r.key
    BY <2>1 DEF OpRecord
  <2> QED
    BY <1>4, <2>2, <2>3 DEF ClaimStep, StoreUnchanged
<1>12. CASE ReuseLost(p)
  <2>1. PICK new : new = IF r.kind = "link" THEN Idle
                         ELSE [r EXCEPT !.at = "reupload", !.ref = None, !.reused = FALSE]
    OBVIOUS
  <2>2. op' = [op EXCEPT ![p] = new] /\ r.at # "held" /\ StoreUnchanged
    BY <1>2, <1>12, <2>1 DEF ReuseLost, At
  <2>3. new = Idle \/ (new.kind = r.kind /\ new.key = r.key)
    BY <2>1 DEF OpRecord
  <2>4. ClaimStep(r, new)
    BY <2>2, <2>3, IdleClaims DEF ClaimStep
  <2> QED
    BY <1>4, <2>2, <2>4 DEF StoreUnchanged
\* The write of a key makes it fresh.
<1>13. CASE IndexPut(p) \/ SwapLands(p)
  <2>1. PICK was : /\ op' = [op EXCEPT ![p] = Release(p, was)]
                   /\ rows' = [rows EXCEPT ![r.key] = r.ref]
                   /\ fresh' = fresh \cup {r.key} /\ sweep' = sweep
    BY <1>2, <1>13 DEF IndexPut, SwapLands
  <2>2. PICK new : new = Release(p, was)
    OBVIOUS
  <2>3. new.kind # "claim"
    BY <2>2 DEF Release, Idle
  <2>4. FreshEffect
    BY <1>1, <2>1 DEF FreshEffect, TypeOK
  <2>5. ClaimStep(op[p], new)
    BY <2>3 DEF ClaimStep
  <2> QED
    BY <1>1, <2>1, <2>2, <2>4, <2>5, OthersSweep
<1>14. CASE SwapMisses(p)
  <2>1. PICK new : new = [Idle EXCEPT !.at = "shares", !.target = r.ref, !.last = TRUE]
    OBVIOUS
  <2>2. op' = [op EXCEPT ![p] = new] /\ StoreUnchanged
    BY <1>2, <1>14, <2>1 DEF SwapMisses
  <2>3. ClaimStep(r, new)
    BY <2>1 DEF ClaimStep, Idle
  <2> QED
    BY <1>4, <2>2, <2>3 DEF StoreUnchanged
<1>15. CASE Deadlock(p)
  <2>1. PICK new : new = IF r.reused THEN Idle
                         ELSE [Idle EXCEPT !.at = "shares", !.target = r.ref, !.last = TRUE]
    OBVIOUS
  <2>2. op' = [op EXCEPT ![p] = new]
    BY <1>2, <1>15, <2>1 DEF Deadlock
  <2>3. ClaimStep(r, new)
    BY <2>1 DEF ClaimStep, Idle
  <2> QED
    BY <1>4, <1>15, <2>2, <2>3 DEF Deadlock
<1>16. CASE \E k \in Keys : Delete(p, k)
  <2>1. PICK k \in Keys : Delete(p, k)
    BY <1>16
  <2>2. PICK new : new = [Idle EXCEPT !.at = "shares", !.key = k, !.target = rows[k]]
    OBVIOUS
  <2>3. op' = [op EXCEPT ![p] = new] /\ rows' = [rows EXCEPT ![k] = None]
        /\ fresh' = fresh \ {k} /\ sweep' = sweep
    BY <2>1, <2>2 DEF Delete
  <2>4. ClaimStep(op[p], new)
    BY <2>2 DEF ClaimStep, Idle
  <2>5. FreshEffect
    BY <1>1, <2>3 DEF FreshEffect, TypeOK
  <2> QED
    BY <1>1, <2>3, <2>4, <2>5, OthersSweep
\* The claim touches the row first.
<1>17. CASE \E k \in Keys : Claim(p, k)
  <2>1. PICK k \in Keys : Claim(p, k)
    BY <1>17
  <2>2. PICK new : new = [Idle EXCEPT !.at = "read", !.kind = "claim", !.key = k, !.from = k]
    OBVIOUS
  <2>3. /\ op' = [op EXCEPT ![p] = new] /\ rows' = rows /\ sweep' = sweep
        /\ rows[k] # None => k \in fresh'
        /\ fresh \subseteq fresh'
    BY <2>1, <2>2 DEF Claim, ClaimBegins
  <2>4. new.at = "read" /\ new.key = k
    BY <2>2 DEF Idle
  <2>5. /\ op'[p] = new /\ \A q \in Procs \ {p} : op'[q] = op[q]
        /\ p # Sweeper /\ Ops \subseteq Procs /\ Sweeper \in Procs
    BY <1>1, <2>3, StoreAssumption DEF TypeOK, Procs
  <2>6. Sweeping' => Sweeping
    BY <2>5 DEF Sweeping
  <2>7. ASSUME NEW q \in Ops, NEW x \in Keys,
               op'[q].kind = "claim", op'[q].key = x, rows'[x] # None
        PROVE  /\ op'[q].at # "held" => x \in fresh'
               /\ op'[q].at = "held" /\ Sweeping' => x \in fresh' \cup sweep'.kept
    <3>1. CASE q = p
      BY <2>3, <2>4, <2>5, <2>7, <3>1
    <3>2. CASE q # p
      BY <1>1, <2>3, <2>5, <2>6, <2>7, <3>2 DEF ClaimInv, At
    <3> QED
      BY <3>1, <3>2
  <2>8. ClaimInv'
    BY <2>7 DEF ClaimInv, At
  <2> QED
    BY <1>1, <2>3, <2>8 DEF KeptInv
<1>18. CASE Read(p)
  <2>1. PICK new : new = IF rows[r.key] = None THEN Idle
                         ELSE [r EXCEPT !.at = "there", !.ref = rows[r.key]]
    OBVIOUS
  <2>2. op' = [op EXCEPT ![p] = new] /\ r.at = "read" /\ StoreUnchanged
    BY <1>1, <1>2, <1>18, <2>1 DEF Read, At, TypeOK
  <2>3. new = Idle \/ (new.kind = r.kind /\ new.key = r.key)
    BY <2>1 DEF OpRecord
  <2>4. ClaimStep(r, new)
    BY <2>2, <2>3, IdleClaims DEF ClaimStep
  <2> QED
    BY <1>4, <2>2, <2>4 DEF StoreUnchanged
<1>19. CASE There(p)
  <2>1. PICK place, ref, reused :
          /\ place \in Places
          /\ op' = [op EXCEPT ![p] = [@ EXCEPT !.at = place, !.ref = ref, !.reused = reused]]
    <3>1. CASE r.ref \notin stored
      <4>1. op' = [op EXCEPT ![p] = [@ EXCEPT !.at = "forget", !.ref = None, !.reused = r.reused]]
        BY <1>2, <1>19, <3>1 DEF There, OpRecord
      <4>2. "forget" \in Places
        BY DEF Places
      <4> QED
        BY <4>1, <4>2
    <3>2. CASE r.ref \in stored /\ r.kind = "link"
      <4>1. op' = [op EXCEPT ![p] = [@ EXCEPT !.at = "index", !.ref = r.ref, !.reused = TRUE]]
        BY <1>2, <1>19, <3>2 DEF There, OpRecord
      <4>2. "index" \in Places
        BY DEF Places
      <4> QED
        BY <4>1, <4>2
    <3>3. CASE r.ref \in stored /\ r.kind # "link"
      <4>1. op' = [op EXCEPT ![p] = [@ EXCEPT !.at = "add", !.ref = None, !.reused = r.reused]]
        BY <1>2, <1>19, <3>3 DEF There, OpRecord
      <4>2. "add" \in Places
        BY DEF Places
      <4> QED
        BY <4>1, <4>2
    <3> QED
      BY <3>1, <3>2, <3>3
  <2>2. PICK new : new = [r EXCEPT !.at = place, !.ref = ref, !.reused = reused]
    OBVIOUS
  <2>3. op' = [op EXCEPT ![p] = new] /\ r.at = "there" /\ StoreUnchanged
    BY <1>2, <1>19, <2>1, <2>2 DEF There, At
  <2>4. new.kind = r.kind /\ new.key = r.key
    BY <2>2 DEF OpRecord
  <2> QED
    BY <1>4, <2>3, <2>4 DEF ClaimStep, StoreUnchanged
<1>20. CASE Forget(p)
  <2>1. PICK k \in Keys : k = r.from
    <3>1. r.at = "forget"
      BY <1>2, <1>20 DEF Forget, At
    <3> QED
      BY <1>3, <3>1, Fields DEF Wf
  <2>2. /\ rows' = [rows EXCEPT ![k] = None] /\ fresh' = fresh \ {k}
        /\ op' = [op EXCEPT ![p] = Idle] /\ sweep' = sweep
    BY <1>2, <1>20, <2>1 DEF Forget, End
  <2>3. FreshEffect
    BY <1>1, <2>1, <2>2 DEF FreshEffect, TypeOK
  <2> QED
    BY <1>1, <2>2, <2>3, IdleClaims, OthersSweep
<1>21. CASE Add(p)
  <2>1. PICK new : new = [r EXCEPT !.at = "held"]
    OBVIOUS
  <2>2. op' = [op EXCEPT ![p] = new] /\ StoreUnchanged
    BY <1>2, <1>21, <2>1 DEF Add, Go
  <2>3. new.kind = r.kind /\ new.key = r.key /\ new.at = "held"
    BY <2>1 DEF OpRecord
  <2> QED
    BY <1>4, <2>2, <2>3 DEF ClaimStep, StoreUnchanged
<1>22. CASE Drop(p)
  BY <1>4, <1>22, IdleClaims DEF Drop, End, StoreUnchanged
<1> QED
  BY <1>6, <1>7, <1>8, <1>9, <1>10, <1>11, <1>12, <1>13, <1>14, <1>15, <1>16, <1>17, <1>18,
     <1>19, <1>20, <1>21, <1>22 DEF OpStep

\* A step that releases, of an operation or of the sweep.
LEMMA ReleaseMove ==
  ASSUME TypeOK, ClaimInv, KeptInv, NEW p \in Procs, NEW new, op' = [op EXCEPT ![p] = new],
         FreshEffect, ClaimStep(op[p], new),
         sweep' = sweep \/ (p = Sweeper /\ sweep' = Quiet /\ new.at \in {"idle", "shares"}
                                /\ (new.at = "shares" => new.last)),
         \/ new.at = "idle"
         \/ op[p].at \in {"shares", "remove", "keep"} /\ (op[p].last => new.last)
               /\ new.at \in {"shares", "remove", "keep"}
         \/ op[p].at \in {"shares", "remove", "keep"} /\ ~op[p].last /\ new.at = "loop"
  PROVE  ClaimInv' /\ KeptInv'
<1>1. Sweeper \in Procs /\ Ops \subseteq Procs
  BY DEF Procs
<1>2. op'[p] = new /\ \A q \in Procs \ {p} : op'[q] = op[q]
  BY DEF TypeOK
<1>3. SweepEffect
  BY <1>1, <1>2 DEF SweepEffect, Sweeping
<1>4. \A q \in Ops : ClaimStep(op[q], op'[q])
  BY <1>1, <1>2 DEF ClaimStep
<1>5. KeptInv'
  BY DEF KeptInv, Quiet
<1> QED
  BY <1>3, <1>4, <1>5, ClaimInvKept

LEMMA ReleasedStep ==
  ASSUME NEW p \in Procs, NEW new, new = Released(p)
  PROVE  /\ \A r : ClaimStep(r, new)
         /\ new.at = "idle" \/ (new.at = "loop" /\ ~op[p].last)
<1>1. PICK loop : loop = [Idle EXCEPT !.at = "loop"]
  OBVIOUS
<1>2. loop.at = "loop" /\ loop.kind = "none" /\ Idle.at = "idle" /\ Idle.kind = "none"
  BY <1>1 DEF Idle
<1>3. new = Idle \/ (new = loop /\ ~op[p].last)
  BY <1>1 DEF Released
<1> QED
  BY <1>2, <1>3 DEF ClaimStep

LEMMA ReleaseStepClaims ==
  ASSUME SweepInv, NEW p \in Procs, ReleaseStep(p)
  PROVE  ClaimInv' /\ KeptInv'
<1>1. op[p] \in OpRecord /\ Wf(op[p]) /\ TypeOK /\ ClaimInv /\ KeptInv
  BY OpAt DEF SweepInv, WfInv
<1>2. PICK r \in OpRecord : r = op[p]
  BY <1>1
<1>3. Wf(r)
  BY <1>1, <1>2
<1>4. ASSUME UNCHANGED <<rows, fresh>> PROVE FreshEffect
  BY <1>1, <1>4 DEF FreshEffect, TypeOK
<1>5. Idle.at = "idle"
  BY DEF Idle
<1>6. CASE Shares(p)
  <2>1. r.at = "shares" /\ StoreUnchanged
    BY <1>2, <1>6 DEF Shares, At
  <2>2. CASE op' = [op EXCEPT ![p] = Released(p)]
    <3>1. PICK new : new = Released(p)
      OBVIOUS
    <3> QED
      BY <1>1, <1>2, <1>4, <2>1, <2>2, <3>1, ReleasedStep, ReleaseMove DEF StoreUnchanged
  <2>3. CASE op' = [op EXCEPT ![p] = [r EXCEPT !.at = "remove"]]
    <3>1. PICK new : new = [r EXCEPT !.at = "remove"]
      OBVIOUS
    <3>2. new.at = "remove" /\ new.kind = r.kind /\ new.key = r.key /\ new.last = r.last
      BY <3>1 DEF OpRecord
    <3>3. ClaimStep(r, new)
      BY <2>1, <3>2 DEF ClaimStep
    <3> QED
      BY <1>1, <1>2, <1>4, <2>1, <2>3, <3>1, <3>2, <3>3, ReleaseMove DEF StoreUnchanged
  <2> QED
    BY <1>2, <1>6, <2>2, <2>3 DEF Shares
<1>7. CASE Removed(p) \/ RemoveRefused(p)
  <2>1. PICK new : new = Released(p)
    OBVIOUS
  <2>2. /\ r.at = "remove" /\ op' = [op EXCEPT ![p] = new] /\ sweep' = sweep
        /\ UNCHANGED <<rows, fresh>>
    BY <1>2, <1>7, <2>1 DEF Removed, RemoveRefused, At
  <2> QED
    BY <1>1, <1>2, <1>4, <2>1, <2>2, ReleasedStep, ReleaseMove
<1>8. CASE RemoveFails(p)
  <2>1. PICK new : new = IF r.last THEN Idle ELSE [r EXCEPT !.at = "keep"]
    OBVIOUS
  <2>2. /\ r.at = "remove" /\ op' = [op EXCEPT ![p] = new] /\ sweep' = sweep
        /\ UNCHANGED <<rows, fresh>>
    BY <1>2, <1>8, <2>1 DEF RemoveFails, At
  <2>3. \/ new = Idle
        \/ new.at = "keep" /\ new.kind = r.kind /\ new.key = r.key /\ ~r.last
    BY <2>1 DEF OpRecord
  <2>4. ClaimStep(r, new)
    BY <2>2, <2>3, IdleClaims DEF ClaimStep
  <2> QED
    BY <1>1, <1>2, <1>4, <1>5, <2>2, <2>3, <2>4, ReleaseMove
<1>9. CASE Keep(p)
  <2>1. r.at = "keep" /\ (sweep' = sweep \/ (p = Sweeper /\ sweep' = Quiet))
    BY <1>2, <1>9 DEF Keep, At
  <2>2. CASE rows[r.key] = None
    <3>1. /\ rows' = [rows EXCEPT ![r.key] = r.target]
          /\ fresh' = fresh \cup {r.key}
          /\ op' = [op EXCEPT ![p] = Idle]
      BY <1>2, <1>9, <2>2 DEF Keep, End
    <3>2. FreshEffect
      BY <1>1, <3>1 DEF FreshEffect, TypeOK
    <3> QED
      BY <1>1, <1>2, <1>5, <2>1, <3>1, <3>2, IdleClaims, ReleaseMove
  <2>3. CASE rows[r.key] # None
    <3>1. PICK new : new = [r EXCEPT !.at = "shares", !.last = TRUE]
      OBVIOUS
    <3>2. op' = [op EXCEPT ![p] = new] /\ UNCHANGED <<rows, fresh>>
      BY <1>1, <1>2, <1>9, <2>3, <3>1 DEF Keep, TypeOK
    <3>3. new.at = "shares" /\ new.kind = r.kind /\ new.key = r.key /\ new.last
      BY <3>1 DEF OpRecord
    <3>4. ClaimStep(r, new)
      BY <2>1, <3>3 DEF ClaimStep
    <3> QED
      BY <1>1, <1>2, <1>4, <2>1, <3>2, <3>3, <3>4, ReleaseMove
  <2> QED
    BY <2>2, <2>3
<1>10. CASE Stop(p)
  <2>1. /\ op' = [op EXCEPT ![p] = Idle] /\ UNCHANGED <<rows, fresh>>
        /\ (sweep' = sweep \/ (p = Sweeper /\ sweep' = Quiet))
    BY <1>10 DEF Stop, End
  <2> QED
    BY <1>1, <1>4, <1>5, <2>1, IdleClaims, ReleaseMove
<1> QED
  BY <1>6, <1>7, <1>8, <1>9, <1>10 DEF ReleaseStep

LEMMA SweepStepClaims ==
  ASSUME SweepInv, SweepStep
  PROVE  ClaimInv' /\ KeptInv'
<1>1. TypeOK /\ ClaimInv /\ KeptInv /\ Sweeper \in Procs
  BY DEF SweepInv, Procs
<1>2. PICK r \in OpRecord : r = op[Sweeper]
  BY <1>1, OpAt
<1>3. ASSUME UNCHANGED <<rows, fresh>> PROVE FreshEffect
  BY <1>1, <1>3 DEF FreshEffect, TypeOK
<1>4. ASSUME NEW new, op' = [op EXCEPT ![Sweeper] = new] PROVE op'[Sweeper] = new
  BY <1>1, <1>4 DEF TypeOK
\* What is claimed when the sweep starts has its reference, or is fresh.
<1>5. CASE SweepStart
  <2>1. /\ op' = [op EXCEPT ![Sweeper].at = "list"] /\ UNCHANGED <<rows, fresh>>
        /\ sweep' = [kept |-> Referenced, due |-> {}]
    BY <1>5 DEF SweepStart
  <2>2. \A q \in Ops : op'[q] = op[q]
    BY <2>1, StoreAssumption DEF TypeOK, Procs
  <2>3. sweep'.kept = Referenced /\ sweep'.due = {}
    BY <2>1
  <2>4. ASSUME NEW q \in Ops, NEW k \in Keys, op[q].kind = "claim", op[q].key = k, rows[k] # None
        PROVE  /\ op[q].at # "held" => k \in fresh
               /\ op[q].at = "held" => k \in sweep'.kept
    BY <1>1, <2>3, <2>4 DEF ClaimInv, Referenced, At
  <2>5. ClaimInv'
    BY <2>1, <2>2, <2>4 DEF ClaimInv, At
  <2> QED
    BY <2>3, <2>5 DEF KeptInv
<1>6. CASE SweepList
  <2>1. /\ op' = [op EXCEPT ![Sweeper].at = "loop"] /\ UNCHANGED <<rows, fresh>>
        /\ sweep' = [sweep EXCEPT !.due = {k \in Keys : rows[k] # None} \ (sweep.kept \cup fresh)]
        /\ r.at = "list"
    BY <1>2, <1>6 DEF SweepList, Go, At
  <2>2. PICK new : new = [r EXCEPT !.at = "loop"]
    OBVIOUS
  <2>3. op' = [op EXCEPT ![Sweeper] = new]
    BY <1>1, <1>2, <2>1, <2>2 DEF TypeOK
  <2>4. /\ sweep'.kept = sweep.kept
        /\ sweep'.due = {k \in Keys : rows[k] # None} \ (sweep.kept \cup fresh)
    BY <1>1, <2>1 DEF TypeOK
  <2>5. SweepEffect
    BY <1>2, <2>1, <2>4 DEF SweepEffect, Sweeping
  <2>6. FreshEffect
    BY <1>3, <2>1
  <2>7. KeptInv'
    BY <2>4 DEF KeptInv
  <2> QED
    BY <1>1, <2>3, <2>5, <2>6, <2>7, SweepersClaims
<1>7. CASE SweepEnd
  <2>1. op' = [op EXCEPT ![Sweeper] = Idle] /\ UNCHANGED <<rows, fresh>> /\ sweep' = Quiet
    BY <1>7 DEF SweepEnd, End
  <2>2. op'[Sweeper].at = "idle"
    BY <1>4, <2>1 DEF Idle
  <2>3. SweepEffect
    BY <2>2 DEF SweepEffect, Sweeping
  <2>4. FreshEffect
    BY <1>3, <2>1
  <2>5. KeptInv'
    BY <2>1 DEF KeptInv, Quiet
  <2> QED
    BY <1>1, <2>1, <2>3, <2>4, <2>5, SweepersClaims
<1>8. CASE \E k \in Keys : SweepDelete(k)
  <2>1. PICK k \in Keys : SweepDelete(k)
    BY <1>8
  <2>2. sweep' = [sweep EXCEPT !.due = @ \ {k}] /\ r.at = "loop"
    BY <1>2, <2>1 DEF SweepDelete, At
  <2>3. sweep'.kept = sweep.kept /\ sweep'.due = sweep.due \ {k}
    BY <1>1, <2>2 DEF TypeOK
  <2>4. KeptInv'
    BY <1>1, <2>3 DEF KeptInv
  <2>5. SweepEffect
    BY <1>2, <2>2, <2>3 DEF SweepEffect, Sweeping
  <2>6. CASE Stale(k)
    <3>1. PICK new : new = [Idle EXCEPT !.at = "shares", !.key = k, !.target = rows[k]]
      OBVIOUS
    <3>2. /\ op' = [op EXCEPT ![Sweeper] = new] /\ rows' = [rows EXCEPT ![k] = None]
          /\ fresh' = fresh \ {k}
      BY <2>1, <2>6, <3>1 DEF SweepDelete
    <3>3. FreshEffect
      BY <1>1, <3>2 DEF FreshEffect, TypeOK
    <3> QED
      BY <1>1, <2>4, <2>5, <3>2, <3>3, SweepersClaims
  <2>7. CASE ~Stale(k)
    <3>1. UNCHANGED <<rows, fresh, op>>
      BY <2>1, <2>7 DEF SweepDelete
    <3>2. FreshEffect
      BY <1>3, <3>1
    <3> QED
      BY <1>1, <2>4, <2>5, <3>1, <3>2, SweepersClaims
  <2> QED
    BY <2>6, <2>7
<1>9. CASE (\E o \in Objects : UnrecordedFound(o)) \/ UnrecordedDeleted
  <2>1. UNCHANGED <<rows, fresh, op, sweep>>
    BY <1>9 DEF UnrecordedFound, UnrecordedDeleted
  <2> QED
    BY <1>1, <2>1 DEF ClaimInv, KeptInv, Sweeping, At
<1> QED
  BY <1>5, <1>6, <1>7, <1>8, <1>9 DEF SweepStep

\* A row ages when no claim of it is between its touch and its reference, and no sweep runs.
LEMMA AroundClaims ==
  ASSUME SweepInv, Around
  PROVE  ClaimInv' /\ KeptInv'
<1>1. TypeOK /\ ClaimInv /\ KeptInv
  BY DEF SweepInv
<1>2. UNCHANGED <<rows, op, sweep>>
  BY DEF Around, Age, LateRemove, UserDeletes
<1>3. KeptInv'
  BY <1>1, <1>2 DEF KeptInv
<1>4. CASE \E k \in Keys : Age(k)
  <2>1. PICK k \in Keys : Age(k)
    BY <1>4
  <2>2. /\ op[Sweeper].at = "idle"
        /\ \A p \in Ops : op[p].kind = "claim" /\ op[p].key = k => op[p].at = "held"
        /\ fresh' = fresh \ {k}
    BY <2>1 DEF Age, At
  <2>3. ~Sweeping'
    BY <1>2, <2>2 DEF Sweeping
  <2>4. ASSUME NEW q \in Ops, NEW x \in Keys, op[q].kind = "claim", op[q].key = x, rows[x] # None,
               op[q].at # "held"
        PROVE  x \in fresh'
    BY <1>1, <2>2, <2>4 DEF ClaimInv, At
  <2>5. ClaimInv'
    BY <1>2, <2>3, <2>4 DEF ClaimInv, At
  <2> QED
    BY <1>3, <2>5
<1>5. CASE (\E o \in Objects : LateRemove(o)) \/ (\E o \in Objects : UserDeletes(o))
  <2>1. fresh' = fresh
    BY <1>5 DEF LateRemove, UserDeletes
  <2> QED
    BY <1>1, <1>2, <1>3, <2>1 DEF ClaimInv, Sweeping, At
<1> QED
  BY <1>4, <1>5 DEF Around

LEMMA InitClaims == Init => ClaimInv /\ KeptInv
<1> SUFFICES ASSUME Init PROVE ClaimInv /\ KeptInv
  OBVIOUS
<1>1. \A p \in Procs : op[p].kind = "none"
  BY DEF Init, Idle
<1> QED
  BY <1>1 DEF ClaimInv, KeptInv, Init, Quiet, Procs

LEMMA NextClaims == SweepInv /\ [Next]_vars => ClaimInv' /\ KeptInv'
<1> SUFFICES ASSUME SweepInv, [Next]_vars PROVE ClaimInv' /\ KeptInv'
  OBVIOUS
<1>1. CASE UNCHANGED vars
  BY <1>1 DEF vars, SweepInv, ClaimInv, KeptInv, Sweeping, At
<1> QED
  BY <1>1, OpStepClaims, ReleaseStepClaims, SweepStepClaims, AroundClaims DEF Next

\* The row of a claimed key is fresh or kept while a sweep may take rows.
THEOREM ClaimsAreSeen == Spec => [](ClaimInv /\ KeptInv)
<1>1. Inv /\ ClaimInv /\ KeptInv => SweepInv
  BY DEF Inv, IInv, SweepInv
<1> QED
  BY <1>1, InitClaims, NextClaims, Invariance, PTL DEF Spec

\* The sweep does not take the row of a key that was claimed and not dropped yet, though
\* it read the references and made its list before.
THEOREM ClaimKeptHolds == Spec => ClaimKept
<1>1. TypeOK /\ ClaimInv /\ KeptInv /\ [Next]_vars =>
        [\A k \in Keys : SweepTakes(k) /\ k \notin sweep'.due => \A p \in Ops : ~Claims(p, k)]_vars
  <2> SUFFICES ASSUME TypeOK, ClaimInv, KeptInv, [Next]_vars, NEW k \in Keys, SweepTakes(k),
                      k \notin sweep'.due, NEW p \in Ops, Claims(p, k)
               PROVE  FALSE
    OBVIOUS
  <2>1. op[Sweeper].at = "loop" /\ rows[k] # None /\ rows'[k] = None /\ k \in sweep.due
    BY DEF SweepTakes, At
  <2>2. k \in fresh
    BY <2>1 DEF ClaimInv, KeptInv, Claims, Sweeping, At
  <2>3. sweep' # sweep /\ rows' # rows
    BY <2>1
  <2>4. PICK x \in Keys : SweepDelete(x)
    <3>1. ASSUME NEW q \in Ops, OpStep(q) PROVE FALSE
      BY <2>3, <3>1 DEF OpStep, Put, Replace, Link, Begins, Exists, Upload, Previous, ReuseLost,
         IndexPut, SwapLands, SwapMisses, Deadlock, Delete, Claim, ClaimBegins, Read, There,
         Forget, Add, Drop, StoreUnchanged
    <3>2. ASSUME NEW q \in Procs, ReleaseStep(q) PROVE FALSE
      BY <2>1, <2>3, <3>2 DEF ReleaseStep, Shares, Removed, RemoveRefused, RemoveFails, Keep,
         Stop, StoreUnchanged, At
    <3>3. ~Around
      BY <2>3 DEF Around, Age, LateRemove, UserDeletes
    <3>4. CASE SweepStep
      BY <2>3, <3>4 DEF SweepStep, SweepStart, SweepList, SweepEnd, UnrecordedFound,
         UnrecordedDeleted
    <3> QED
      BY <2>3, <3>1, <3>2, <3>3, <3>4 DEF Next, vars
  <2>5. sweep'.due = sweep.due \ {x}
    BY <2>4 DEF SweepDelete, TypeOK
  <2>6. x = k
    BY <2>1, <2>5
  <2>7. ~Stale(k)
    BY <2>2 DEF Stale
  <2> QED
    BY <2>3, <2>4, <2>6, <2>7 DEF SweepDelete
<1>2. Inv => TypeOK
  BY DEF Inv
<1> QED
  BY <1>1, <1>2, Invariance, ClaimsAreSeen, PTL DEF Spec, ClaimKept

=============================================================================
