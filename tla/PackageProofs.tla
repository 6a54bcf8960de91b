---------------------------- MODULE PackageProofs ----------------------------
(* Proofs about what is installed and what users make of it, each by an
   invariant of its own: the lock file of PluginStore, the workflow directory of
   ShippedWorkflow, the layered files of Resources.  They share no state, and no
   name but through their instances here; the names of one that another has as
   well are substituted. *)
EXTENDS Integers, Sequences, FiniteSets, NaturalsInduction, SequenceTheorems, WellFoundedInduction, TLAPS

CONSTANTS
    Package, Overrides, MaxOps,
    Owners, Revisions, MaxChanges, MaxFaults,
    Kinds, Own, First, Shipments, Bundled, Names, Offered, MaxCalls
VARIABLES
    lock, enabled, settings, upstream, update, running, release, ops,
    root, state, dir, marker, sync, mine, cut, changes, faults,
    kind, stage, disk, memory, index, load, choice, calls

Store == INSTANCE PluginStore
Flows == INSTANCE ShippedWorkflow WITH ops <- changes, MaxOps <- MaxChanges
Library == INSTANCE Resources WITH Shipped <- Shipments

-----------------------------------------------------------------------------
(* The lock file, for any packages and prefixes.  A restart that changes nothing
   is one whose lock is what was applied; the revision that runs is kept since a
   record only ever moves to a revision from which it can go back. *)

\* Sets of numbers have a least one.
LEMMA LeastNumber ==
    ASSUME NEW T \in SUBSET Nat, T # {}
    PROVE  \E x \in T : \A y \in T : x <= y
<1> DEFINE less == {ss \in Nat \X Nat : ss[1] < ss[2]}
<1>1. IsWellFoundedOn(less, Nat)
  BY NatLessThanWellFounded DEF OpToRel
<1>2. \A x, y \in Nat : y < x => <<y, x>> \in less
  OBVIOUS
<1> HIDE DEF less
<1>3. PICK x \in T : \A y \in T : ~(<<y, x>> \in less)
  BY <1>1, WFMin
<1>4. \A y \in T : x <= y
  <2> SUFFICES ASSUME NEW y \in T PROVE x <= y
    OBVIOUS
  <2>1. x \in Nat /\ y \in Nat /\ ~(y < x)
    BY <1>2, <1>3
  <2> QED
    BY <2>1
<1> QED
  BY <1>4

\* f lists, for each n, what the first n revisions of a history are without r.
Sifts(f, history, r, n) ==
    f = [k \in 0 .. n |-> IF k = 0 THEN <<>>
                          ELSE IF history[k] = r THEN f[k - 1] ELSE Append(f[k - 1], history[k])]

\* Such a function exists: take the least number of revisions without one.
LEMMA SiftsExists ==
    ASSUME NEW history, NEW r, NEW n \in Nat
    PROVE  \E f : Sifts(f, history, r, n)
<1> DEFINE T == {k \in Nat : ~\E f : Sifts(f, history, r, k)}
           Sifted(g, k) == IF history[k] = r THEN g[k - 1] ELSE Append(g[k - 1], history[k])
<1> SUFFICES ASSUME T # {} PROVE FALSE
  OBVIOUS
<1>1. PICK k \in T : \A j \in T : k <= j
  BY LeastNumber
<1>2. k # 0
  <2>1. PICK f : f = [j \in 0 .. 0 |-> <<>>]
    OBVIOUS
  <2>2. f = [j \in 0 .. 0 |-> IF j = 0 THEN <<>> ELSE Sifted(f, j)]
    BY <2>1
  <2> QED
    BY <1>1, <2>2 DEF Sifts
<1>3. k - 1 \in Nat /\ k - 1 \notin T
  BY <1>1, <1>2
<1>4. PICK f : Sifts(f, history, r, k - 1)
  BY <1>3
<1>5. PICK h : h = [j \in 0 .. k |-> IF j = k THEN Sifted(f, k) ELSE f[j]]
  OBVIOUS
<1>6. \A j \in 0 .. k : h[j] = IF j = 0 THEN <<>> ELSE Sifted(h, j)
  <2> SUFFICES ASSUME NEW j \in 0 .. k
               PROVE  h[j] = IF j = 0 THEN <<>> ELSE Sifted(h, j)
    OBVIOUS
  <2>1. CASE j = k
    <3>1. h[k] = Sifted(f, k) /\ h[k - 1] = f[k - 1]
      BY <1>1, <1>3, <1>5
    <3> QED
      BY <1>2, <2>1, <3>1
  <2>2. CASE j # k
    <3>1. j \in 0 .. k - 1
      BY <1>1, <2>2
    <3>2. f[j] = IF j = 0 THEN <<>> ELSE Sifted(f, j)
      BY <1>4, <3>1 DEF Sifts
    <3>3. h[j] = f[j] /\ (j # 0 => h[j - 1] = f[j - 1])
      BY <1>1, <1>5, <2>2, <3>1
    <3> QED
      BY <3>2, <3>3
  <2> QED
    BY <2>1, <2>2
<1>7. h = [j \in 0 .. k |-> IF j = 0 THEN <<>> ELSE Sifted(h, j)]
  BY <1>5, <1>6
<1> QED
  BY <1>1, <1>7 DEF Sifts

\* The members of a list, without the library's definition.
LEMMA MembersAre ==
    ASSUME NEW S, NEW s \in Seq(S)
    PROVE  Store!ToSet(s) = {s[j] : j \in 1 .. Len(s)} /\ Len(s) \in Nat
<1>1. DOMAIN s = 1 .. Len(s) /\ Len(s) \in Nat
  BY LenProperties
<1> QED
  BY <1>1 DEF Store!ToSet

\* An element more at the end of a list.
LEMMA AppendMembers ==
    ASSUME NEW S, NEW s \in Seq(S), NEW x \in S
    PROVE  Store!ToSet(Append(s, x)) = Store!ToSet(s) \cup {x}
<1>1. /\ Append(s, x) \in Seq(S) /\ Len(Append(s, x)) = Len(s) + 1
      /\ \A i \in 1 .. Len(s) : Append(s, x)[i] = s[i]
      /\ Append(s, x)[Len(s) + 1] = x
  BY AppendProperties
<1>2. /\ Store!ToSet(s) = {s[j] : j \in 1 .. Len(s)} /\ Len(s) \in Nat
      /\ Store!ToSet(Append(s, x)) = {Append(s, x)[j] : j \in 1 .. Len(s) + 1}
  BY <1>1, MembersAre
<1>3. 1 .. Len(s) + 1 = (1 .. Len(s)) \cup {Len(s) + 1}
  BY <1>2
<1> QED
  BY <1>1, <1>2, <1>3

\* _prepend_unique_revision takes a revision out of a history, all of it, and
\* nothing else.
LEMMA WithoutRight ==
    ASSUME NEW S, NEW history \in Seq(S), NEW r
    PROVE  /\ Store!Without(history, r) \in Seq(S)
           /\ Store!ToSet(Store!Without(history, r)) = Store!ToSet(history) \ {r}
<1> DEFINE n == Len(history)
<1>1. n \in Nat
  BY LenProperties
<1>2. PICK f : f = (CHOOSE g : Sifts(g, history, r, n)) /\ Sifts(f, history, r, n)
  BY <1>1, SiftsExists
<1>3. Store!Without(history, r) = f[n]
  BY <1>2 DEF Store!Without, Sifts
<1> HIDE DEF n
<1>4. \A k \in 0 .. n : f[k] = IF k = 0 THEN <<>>
                               ELSE IF history[k] = r THEN f[k - 1] ELSE Append(f[k - 1], history[k])
  BY <1>2 DEF Sifts
<1> DEFINE Right(k) == f[k] \in Seq(S) /\ Store!ToSet(f[k]) = {history[j] : j \in 1 .. k} \ {r}
           T == {k \in 0 .. n : ~Right(k)}
<1>5. T = {}
  <2> SUFFICES ASSUME T # {} PROVE FALSE
    OBVIOUS
  <2>1. T \in SUBSET Nat
    OBVIOUS
  <2>2. PICK k \in T : \A j \in T : k <= j
    BY <2>1, LeastNumber
  <2>3. k # 0
    <3>1. f[0] = <<>>
      BY <1>1, <1>4
    <3>2. Right(0)
      BY <3>1 DEF Store!ToSet
    <3> QED
      BY <2>2, <3>2
  <2>4. k - 1 \in 0 .. n /\ k - 1 \notin T /\ k \in 1 .. n
    <3>1. k \in 0 .. n /\ k \in Nat /\ k # 0
      BY <2>2, <2>3
    <3>2. k - 1 \in 0 .. n /\ k \in 1 .. n /\ ~(k <= k - 1)
      BY <1>1, <3>1
    <3>3. k - 1 \notin T
      BY <2>2, <3>2
    <3> QED
      BY <3>2, <3>3
  <2>5. Right(k - 1)
    BY <2>4
  <2>6. history[k] \in S
    BY <2>4, ElementOfSeq DEF n
  <2>7. {history[j] : j \in 1 .. k} = {history[j] : j \in 1 .. k - 1} \cup {history[k]}
    BY <2>4, <1>1
  <2>8. f[k] = IF history[k] = r THEN f[k - 1] ELSE Append(f[k - 1], history[k])
    BY <1>4, <2>3, <2>4
  <2>9. CASE history[k] = r
    BY <2>2, <2>5, <2>7, <2>8, <2>9
  <2>10. CASE history[k] # r
    <3>1. f[k] = Append(f[k - 1], history[k])
      BY <2>8, <2>10
    <3>2. f[k] \in Seq(S)
      BY <3>1, <2>5, <2>6
    <3>3. Store!ToSet(f[k]) = Store!ToSet(f[k - 1]) \cup {history[k]}
      BY <3>1, <2>5, <2>6, AppendMembers
    <3>4. Right(k)
      BY <2>5, <2>7, <2>10, <3>2, <3>3
    <3> QED
      BY <2>2, <3>4
  <2> QED
    BY <2>9, <2>10
<1>6. Right(n)
  <2> HIDE DEF Right
  <2>1. n \in 0 .. n
    BY <1>1
  <2>2. \A k \in 0 .. n : Right(k)
    BY <1>5
  <2> QED
    BY <2>1, <2>2
<1>7. Store!ToSet(history) = {history[j] : j \in 1 .. n}
  BY MembersAre DEF n
<1> QED
  BY <1>3, <1>6, <1>7

\* And it adds the revision that was active, unless that is excluded.
LEMMA PrependRight ==
    ASSUME NEW S, NEW history \in Seq(S), NEW r \in S, NEW exclude
    PROVE  /\ Store!Prepend(r, history, exclude) \in Seq(S)
           /\ Store!ToSet(Store!Prepend(r, history, exclude)) = ({r} \cup Store!ToSet(history)) \ {exclude}
<1> DEFINE rest == Store!Without(history, r)
<1>1. rest \in Seq(S) /\ Store!ToSet(rest) = Store!ToSet(history) \ {r}
  BY WithoutRight
<1> HIDE DEF rest
<1>2. /\ <<r>> \o rest \in Seq(S)
      /\ Store!ToSet(<<r>> \o rest) = {r} \cup Store!ToSet(rest)
  <2>1. <<r>> \in Seq(S) /\ Len(<<r>>) = 1 /\ <<r>>[1] = r
    OBVIOUS
  <2>2. /\ <<r>> \o rest \in Seq(S) /\ Len(<<r>> \o rest) = 1 + Len(rest)
        /\ \A k \in 1 .. 1 + Len(rest) : (<<r>> \o rest)[k] = IF k <= 1 THEN r ELSE rest[k - 1]
    BY <1>1, <2>1, ConcatProperties
  <2>3. PICK s : s = <<r>> \o rest
    OBVIOUS
  <2>4. /\ Store!ToSet(rest) = {rest[j] : j \in 1 .. Len(rest)} /\ Len(rest) \in Nat
        /\ Store!ToSet(s) = {s[j] : j \in 1 .. 1 + Len(rest)}
    <3>1. s \in Seq(S) /\ Len(s) = 1 + Len(rest)
      BY <2>2, <2>3
    <3> QED
      BY <1>1, <3>1, MembersAre
  <2>5. s[1] = r /\ \A k \in 1 .. Len(rest) : s[k + 1] = rest[k]
    BY <2>2, <2>3, <2>4
  <2>6. 1 .. 1 + Len(rest) = {1} \cup {k + 1 : k \in 1 .. Len(rest)}
    <3>1. \A j \in 1 .. 1 + Len(rest) : j = 1 \/ (j - 1 \in 1 .. Len(rest) /\ j = (j - 1) + 1)
      BY <2>4
    <3>2. 1 .. 1 + Len(rest) \subseteq {1} \cup {k + 1 : k \in 1 .. Len(rest)}
      BY <3>1
    <3>3. {1} \cup {k + 1 : k \in 1 .. Len(rest)} \subseteq 1 .. 1 + Len(rest)
      BY <2>4
    <3> QED
      BY <3>2, <3>3
  <2>7. Store!ToSet(s) = {r} \cup Store!ToSet(rest)
    <3>1. {s[j] : j \in 1 .. 1 + Len(rest)} = {s[1]} \cup {s[k + 1] : k \in 1 .. Len(rest)}
      BY <2>6
    <3> QED
      BY <2>4, <2>5, <3>1
  <2> QED
    BY <2>2, <2>3, <2>7
<1>3. Store!Prepend(r, history, exclude) = Store!Without(<<r>> \o rest, exclude)
  BY DEF Store!Prepend, rest
<1>4. Store!ToSet(Store!Without(<<r>> \o rest, exclude)) = Store!ToSet(<<r>> \o rest) \ {exclude}
  BY <1>2, WithoutRight
<1>5. Store!Without(<<r>> \o rest, exclude) \in Seq(S)
  BY <1>2, WithoutRight
<1> QED
  BY <1>1, <1>2, <1>3, <1>4, <1>5

-----------------------------------------------------------------------------
\* Revisions, by number; the provers see the name.
Numbers == Nat

\* The resource prefixes there are.
Given == (UNION {{Package[p][r].prefix : r \in Numbers} : p \in Store!Plugins}) \cup Overrides \cup {""}

\* What a record may wait for a restart with.
Pendings == {"none", "install", "update", "rollback", "remove"}

\* A record of the lock file.
Record == [active : Numbers, prefix : Given, override : Overrides \cup {""}, history : Seq(Numbers),
           pending : Pendings]

\* The lock file.
Locks == [Store!Plugins -> Record \cup {Store!None}]

\* The types of what the theorem depends on.
StoreShape ==
    /\ lock \in Locks
    /\ upstream \in [Store!Plugins -> Numbers]
    /\ update \in Store!Plugins \cup {""}
    /\ running \in [up : BOOLEAN, lock : Locks, settings : {running.settings}, known : {running.known},
                    enabled : SUBSET Store!Plugins]

\* What the program applied it applied as a whole.
RunsWhatWasApplied ==
    \A p \in Store!Installed(running.lock) : running.lock[p].pending = "none"

\* What every step keeps: an installed plugin runs a revision its record has or
\* can go back to, and nothing that runs waits for a restart.
StoreInv == StoreShape /\ RunsWhatWasApplied /\ Store!RunningRevisionIsKept

\* A plugin that is not installed is told apart from every record.
LEMMA NoneIsNoRecord == Store!None \notin Record
<1> SUFFICES ASSUME Store!None \in Record PROVE FALSE
  OBVIOUS
<1>1. DOMAIN Store!None = {"pending"}
  BY DEF Store!None
<1>2. "active" \in DOMAIN Store!None
  BY DEF Record
<1> QED
  BY <1>1, <1>2

\* A plugin gets its own prefix or the user's.
LEMMA PrefixRight ==
    ASSUME NEW p \in Store!Plugins, NEW r \in Numbers, NEW override \in Overrides \cup {""}
    PROVE  Store!Prefix(p, r, override) \in Given
<1> DEFINE PrefixOf(q, k) == Package[q][k].prefix
<1>1. PrefixOf(p, r) \in UNION {{PrefixOf(q, k) : k \in Numbers} : q \in Store!Plugins}
  <2> HIDE DEF PrefixOf
  <2>1. PrefixOf(p, r) \in {PrefixOf(p, k) : k \in Numbers}
    OBVIOUS
  <2> QED
    BY <2>1
<1>2. Store!Prefix(p, r, override) = Package[p][r].prefix \/ Store!Prefix(p, r, override) = override
  BY DEF Store!Prefix
<1> QED
  BY <1>1, <1>2 DEF Given

\* Whatever revision a record had or could be set back to, the other one has or can be.
GoesBackTo(old, new) ==
    {old.active} \cup Store!ToSet(old.history) \subseteq {new.active} \cup Store!ToSet(new.history)

\* Another revision of a plugin: the one it had can still be gone back to.
LEMMA ActivatedRight ==
    ASSUME NEW rec \in Record, NEW p \in Store!Plugins, NEW r \in Numbers, NEW pending \in Pendings
    PROVE  /\ Store!Activated(rec, p, r, pending) \in Record
           /\ GoesBackTo(rec, Store!Activated(rec, p, r, pending))
<1>1. rec.active \in Numbers /\ rec.history \in Seq(Numbers) /\ rec.override \in Overrides \cup {""}
  BY DEF Record
<1>2. PICK h : h = Store!Prepend(rec.active, rec.history, r)
  OBVIOUS
<1>3. h \in Seq(Numbers) /\ Store!ToSet(h) = ({rec.active} \cup Store!ToSet(rec.history)) \ {r}
  <2>1. \A a \in Numbers, s \in Seq(Numbers) : /\ Store!Prepend(a, s, r) \in Seq(Numbers)
                                       /\ Store!ToSet(Store!Prepend(a, s, r)) = ({a} \cup Store!ToSet(s)) \ {r}
    BY PrependRight
  <2> QED
    BY <1>1, <1>2, <2>1
<1>4. PICK x : x = Store!Prefix(p, r, rec.override) /\ x \in Given
  BY <1>1, PrefixRight
<1>5. Store!Activated(rec, p, r, pending)
        = [rec EXCEPT !.active = r, !.prefix = x, !.history = h, !.pending = pending]
  BY <1>2, <1>4 DEF Store!Activated
<1>6. /\ Store!Activated(rec, p, r, pending) \in Record
      /\ Store!Activated(rec, p, r, pending).active = r
      /\ Store!Activated(rec, p, r, pending).history = h
  BY <1>3, <1>4, <1>5 DEF Record
<1> QED
  BY <1>3, <1>6 DEF GoesBackTo

\* Writing the record of one plugin keeps the invariant if what it could be set to, it can
\* still be set to.
LEMMA RecordWritten ==
    ASSUME StoreInv, NEW p \in Store!Plugins, NEW rec \in Record,
           lock' = [lock EXCEPT ![p] = rec],
           lock[p] # Store!None => GoesBackTo(lock[p], rec),
           UNCHANGED <<running, upstream>>, update' \in Store!Plugins \cup {""}
    PROVE  StoreInv'
<1>1. StoreShape'
  BY DEF StoreInv, StoreShape, Locks
<1>2. RunsWhatWasApplied'
  BY DEF StoreInv, RunsWhatWasApplied, Store!Installed
<1>3. Store!RunningRevisionIsKept'
  <2> SUFFICES ASSUME NEW q \in Store!Installed(running.lock)
               PROVE  lock'[q] # Store!None /\ running.lock[q].active \in {lock'[q].active} \cup Store!ToSet(lock'[q].history)
    BY DEF Store!RunningRevisionIsKept, Store!Installed
  <2>1. lock[q] # Store!None /\ running.lock[q].active \in {lock[q].active} \cup Store!ToSet(lock[q].history)
    BY DEF StoreInv, Store!RunningRevisionIsKept
  <2>2. q \in Store!Plugins /\ lock \in Locks
    BY DEF StoreInv, StoreShape, Store!Installed
  <2>3. lock'[q] = IF q = p THEN rec ELSE lock[q]
    BY <2>2 DEF Locks
  <2> QED
    BY <2>1, <2>3, NoneIsNoRecord DEF GoesBackTo
<1> QED
  BY <1>1, <1>2, <1>3 DEF StoreInv

\* What neither the lock nor what runs nor the sources depend on.
LEMMA NothingWritten ==
    ASSUME StoreInv, UNCHANGED <<lock, upstream>>, update' \in Store!Plugins \cup {""},
           running' = running \/ running' = [running EXCEPT !.up = FALSE]
    PROVE  StoreInv'
<1>1. StoreShape' /\ running'.lock = running.lock /\ running'.enabled = running.enabled
  BY DEF StoreInv, StoreShape
<1> QED
  BY <1>1 DEF StoreInv, RunsWhatWasApplied, Store!RunningRevisionIsKept, Store!Installed

\* A removal is asked for or taken back: the revision stays.
LEMMA PendingChanged ==
    ASSUME StoreInv, NEW p \in Store!Plugins, lock[p] # Store!None, NEW x \in {"none", "remove"},
           lock' = [lock EXCEPT ![p].pending = x],
           UNCHANGED <<running, upstream>>, update' \in Store!Plugins \cup {""}
    PROVE  StoreInv'
<1>1. lock[p] \in Record
  BY DEF StoreInv, StoreShape, Locks
<1>2. PICK rec : rec = [lock[p] EXCEPT !.pending = x]
  OBVIOUS
<1>3. rec \in Record /\ GoesBackTo(lock[p], rec)
  BY <1>1, <1>2 DEF Record, Pendings, GoesBackTo
<1>4. lock' = [lock EXCEPT ![p] = rec]
  BY <1>2
<1> QED
  BY <1>3, <1>4, RecordWritten

\* An update or a rollback writes a record that can still go back.
LEMMA RevisionActivated ==
    ASSUME StoreInv, NEW p \in Store!Plugins, lock[p] # Store!None, NEW r \in Numbers, NEW pending \in Pendings,
           lock' = [lock EXCEPT ![p] = Store!Activated(lock[p], p, r, pending)],
           UNCHANGED <<running, upstream>>, update' \in Store!Plugins \cup {""}
    PROVE  StoreInv'
<1>1. lock[p] \in Record
  BY DEF StoreInv, StoreShape, Locks
<1>2. PICK rec : rec = Store!Activated(lock[p], p, r, pending)
  OBVIOUS
<1>3. rec \in Record /\ GoesBackTo(lock[p], rec)
  BY <1>1, <1>2, ActivatedRight
<1> QED
  BY <1>2, <1>3, RecordWritten

\* apply_pending drops what is to be removed and settles the rest.
LEMMA AppliedRight ==
    ASSUME NEW l \in Locks
    PROVE  /\ Store!Applied(l) \in Locks
           /\ Store!Installed(Store!Applied(l)) = Store!Kept(l)
           /\ \A p \in Store!Kept(l) : Store!Applied(l)[p].pending = "none" /\ Store!Applied(l)[p].active = l[p].active
<1>1. ASSUME NEW p \in Store!Kept(l)
      PROVE  [l[p] EXCEPT !.pending = "none"] \in Record /\ [l[p] EXCEPT !.pending = "none"].pending = "none"
             /\ [l[p] EXCEPT !.pending = "none"].active = l[p].active
  <2>1. l[p] \in Record
    BY DEF Store!Kept, Store!Installed, Locks
  <2> QED
    BY <2>1 DEF Record, Pendings
<1>2. Store!Kept(l) \subseteq Store!Plugins
  BY DEF Store!Kept, Store!Installed
<1>3. \A p \in Store!Plugins : Store!Applied(l)[p] = IF p \in Store!Kept(l) THEN [l[p] EXCEPT !.pending = "none"] ELSE Store!None
  BY DEF Store!Applied
<1>4. Store!Applied(l) \in Locks
  BY <1>1 DEF Store!Applied, Locks
<1>5. \A p \in Store!Plugins : Store!Applied(l)[p] # Store!None <=> p \in Store!Kept(l)
  BY <1>1, <1>3, NoneIsNoRecord
<1> QED
  BY <1>1, <1>2, <1>3, <1>4, <1>5 DEF Store!Installed

\* A program that has just started runs what the lock says.
LEMMA StartedRight ==
    ASSUME NEW l \in Locks, lock' = Store!Applied(l), running' = Store!Started(l), upstream' \in [Store!Plugins -> Numbers],
           update' \in Store!Plugins \cup {""}
    PROVE  StoreInv'
<1>1. /\ running'.lock = Store!Applied(l) /\ running'.enabled \subseteq Store!Plugins
      /\ running' \in [up : BOOLEAN, lock : {Store!Applied(l)}, settings : {running'.settings}, known : {running'.known},
                       enabled : {running'.enabled}]
  BY DEF Store!Started, Store!LoadOrder
<1>2. Store!Installed(Store!Applied(l)) = Store!Kept(l) /\ Store!Kept(l) \subseteq Store!Plugins
  BY AppliedRight DEF Store!Kept, Store!Installed
<1>3. StoreShape'
  <2>1. lock' \in Locks /\ Store!Applied(l) \in Locks
    BY AppliedRight
  <2>2. running' \in [up : BOOLEAN, lock : Locks, settings : {running'.settings}, known : {running'.known},
                     enabled : SUBSET Store!Plugins]
    BY <1>1, <1>2, <2>1
  <2> QED
    BY <2>1, <2>2 DEF StoreShape
<1>4. RunsWhatWasApplied'
  <2>1. \A p \in Store!Kept(l) : Store!Applied(l)[p].pending = "none"
    BY AppliedRight
  <2> QED
    BY <1>1, <1>2, <2>1 DEF RunsWhatWasApplied, Store!Installed
<1>5. Store!RunningRevisionIsKept'
  BY <1>1 DEF Store!RunningRevisionIsKept, Store!Installed
<1> QED
  BY <1>3, <1>4, <1>5 DEF StoreInv

\* Nothing is installed, and nothing runs.
LEMMA InitInv == Store!Init => StoreInv
<1> SUFFICES ASSUME Store!Init PROVE StoreInv
  OBVIOUS
<1>1. Store!Kept(lock) = {} /\ lock \in Locks /\ Store!Installed(lock) = {}
  BY DEF Store!Init, Store!Kept, Store!Installed, Locks
<1>2. running.lock = Store!Applied(lock) /\ Store!Applied(lock) = lock
  <2>1. running.lock = Store!Applied(lock)
    BY DEF Store!Init, Store!Started
  <2>2. Store!Applied(lock) = lock
    BY <1>1 DEF Store!Init, Store!Applied
  <2> QED
    BY <2>1, <2>2
<1>3. /\ running.enabled = {}
      /\ running \in [up : BOOLEAN, lock : {lock}, settings : {running.settings}, known : {running.known},
                      enabled : {running.enabled}]
  <2>1. Store!LoadOrder(Store!Applied(lock)) = {}
    BY <1>1, <1>2 DEF Store!Init, Store!LoadOrder
  <2> QED
    BY <1>2, <2>1 DEF Store!Init, Store!Started
<1>4. upstream \in [Store!Plugins -> Numbers] /\ update = ""
  BY DEF Store!Init, Numbers
<1> QED
  BY <1>1, <1>2, <1>3, <1>4 DEF StoreInv, StoreShape, RunsWhatWasApplied, Store!RunningRevisionIsKept

\* One case for each operation of the store.
LEMMA StepInv == StoreInv /\ [Store!Next]_(Store!vars) => StoreInv'
<1> SUFFICES ASSUME StoreInv, [Store!Next]_(Store!vars) PROVE StoreInv'
  OBVIOUS
<1>0. /\ lock \in Locks /\ upstream \in [Store!Plugins -> Numbers] /\ update \in Store!Plugins \cup {""}
      /\ \A p \in Store!Plugins : lock[p] # Store!None => lock[p] \in Record
  BY DEF StoreInv, StoreShape, Locks
<1>1. ASSUME NEW p \in Store!Plugins, NEW o \in Overrides \cup {""}, Store!Install(p, o) PROVE StoreInv'
  <2>1. PICK rec : rec = [active |-> upstream[p], prefix |-> Store!Prefix(p, upstream[p], o),
                          override |-> o, history |-> <<>>, pending |-> "install"]
    OBVIOUS
  <2>2. upstream[p] \in Numbers /\ Store!Prefix(p, upstream[p], o) \in Given
    BY <1>0, PrefixRight
  <2>3. rec \in Record
    <3>1. <<>> \in Seq(Numbers)
      BY EmptySeq
    <3> QED
      BY <2>1, <2>2, <3>1 DEF Record, Pendings
  <2>4. lock' = [lock EXCEPT ![p] = rec] /\ lock[p] = Store!None /\ UNCHANGED <<running, upstream, update>>
    BY <1>1, <2>1 DEF Store!Install
  <2> QED
    BY <1>0, <2>3, <2>4, RecordWritten
<1>2. ASSUME NEW p \in Store!Plugins, Store!UpdateAsked(p) PROVE StoreInv'
  BY <1>2, <1>0, NothingWritten DEF Store!UpdateAsked
<1>3. CASE Store!Update
  <2>1. PICK p \in Store!Plugins : p = update
    BY <1>0, <1>3 DEF Store!Update
  <2>2. PICK r \in Numbers : r = upstream[p]
    BY <1>0, <2>1
  <2>3. update' \in Store!Plugins \cup {""} /\ UNCHANGED <<running, upstream>>
    BY <1>3 DEF Store!Update
  <2>4. lock' = lock \/ (lock[p] # Store!None /\ lock' = [lock EXCEPT ![p] = Store!Activated(lock[p], p, r, "update")])
    BY <1>3, <2>1, <2>2 DEF Store!Update
  <2>5. CASE lock' = lock
    BY <2>3, <2>5, NothingWritten
  <2>6. CASE lock[p] # Store!None /\ lock' = [lock EXCEPT ![p] = Store!Activated(lock[p], p, r, "update")]
    <3>1. "update" \in Pendings
      BY DEF Pendings
    <3> QED
      BY <2>1, <2>2, <2>3, <2>6, <3>1, RevisionActivated
  <2> QED
    BY <2>4, <2>5, <2>6
<1>4. ASSUME NEW p \in Store!Plugins, Store!Rollback(p) PROVE StoreInv'
  <2>1. PICK r : r = Head(lock[p].history)
    OBVIOUS
  <2>2. /\ lock[p] # Store!None /\ lock[p].history # <<>> /\ UNCHANGED <<running, upstream, update>>
        /\ lock' = [lock EXCEPT ![p] = Store!Activated(lock[p], p, r, "rollback")]
    BY <1>4, <2>1 DEF Store!Rollback
  <2>3. r \in Numbers
    BY <1>0, <2>1, <2>2, HeadTailProperties DEF Record
  <2>4. "rollback" \in Pendings
    BY DEF Pendings
  <2> QED
    BY <1>0, <2>2, <2>3, <2>4, RevisionActivated
<1>5. ASSUME NEW p \in Store!Plugins, Store!Uninstall(p) PROVE StoreInv'
  <2>1. lock[p] # Store!None /\ UNCHANGED upstream
    BY <1>5 DEF Store!Uninstall
  <2>2. CASE lock' = [lock EXCEPT ![p].pending = "remove"] /\ UNCHANGED <<running, update>>
    BY <1>0, <2>1, <2>2, PendingChanged
  <2>3. CASE lock' = lock /\ (UNCHANGED <<running, update>> \/ (running' = [running EXCEPT !.up = FALSE] /\ update' = ""))
    BY <1>0, <2>1, <2>3, NothingWritten
  <2> QED
    BY <1>5, <2>2, <2>3 DEF Store!Uninstall
<1>6. ASSUME NEW p \in Store!Plugins, Store!Enable(p) PROVE StoreInv'
  <2>1. UNCHANGED <<running, upstream, update>>
    BY <1>6 DEF Store!Enable
  <2>2. CASE lock[p].pending = "remove"
    <3>1. lock[p] # Store!None /\ lock' = [lock EXCEPT ![p].pending = "none"]
      BY <1>6, <2>2 DEF Store!Enable, Store!None
    <3> QED
      BY <1>0, <2>1, <3>1, PendingChanged
  <2>3. CASE lock[p].pending # "remove"
    <3>1. lock' = lock
      BY <1>6, <2>3 DEF Store!Enable
    <3> QED
      BY <1>0, <2>1, <3>1, NothingWritten
  <2> QED
    BY <2>2, <2>3
<1>7. ASSUME NEW p \in Store!Plugins, Store!Disable(p) PROVE StoreInv'
  BY <1>7, <1>0, NothingWritten DEF Store!Disable
<1>8. ASSUME NEW p \in Store!Plugins, NEW v \in 0 .. 1, Store!SaveConfig(p, v) PROVE StoreInv'
  BY <1>8, <1>0, NothingWritten DEF Store!SaveConfig
<1>9. ASSUME NEW p \in Store!Plugins, Store!Push(p) PROVE StoreInv'
  <2>1. upstream' \in [Store!Plugins -> Numbers] /\ UNCHANGED <<lock, update, running>>
    <3>0. PICK k : k = upstream[p] + 1
      OBVIOUS
    <3>1. upstream' = [upstream EXCEPT ![p] = k] /\ UNCHANGED <<lock, update, running>>
      BY <1>9, <3>0 DEF Store!Push
    <3>2. k \in Numbers
      <4>1. upstream[p] \in Numbers
        BY <1>0
      <4> QED
        BY <3>0, <4>1 DEF Numbers
    <3> QED
      BY <1>0, <3>1, <3>2
  <2> QED
    BY <2>1 DEF StoreInv, StoreShape, RunsWhatWasApplied, Store!RunningRevisionIsKept
<1>10. CASE Store!Restart
  <2>1. lock' = Store!Applied(lock) /\ running' = Store!Started(lock) /\ upstream' = upstream /\ update' = ""
    BY <1>10 DEF Store!Restart
  <2> QED
    BY <1>0, <2>1, StartedRight
<1>11. ASSUME NEW s \in SUBSET Store!Plugins, Store!Release(s) PROVE StoreInv'
  BY <1>11, <1>0, NothingWritten DEF Store!Release
<1>12. CASE UNCHANGED Store!vars
  BY <1>12, <1>0, NothingWritten DEF Store!vars
<1> QED
  BY <1>1, <1>2, <1>3, <1>4, <1>5, <1>6, <1>7, <1>8, <1>9, <1>10, <1>11, <1>12 DEF Store!Next

\* A lock as it was applied is applied to itself.
LEMMA NoChangeHolds == StoreInv => Store!NoRestartNoChange
<1> SUFFICES ASSUME StoreInv, running.up, ~Store!RestartRequired
             PROVE  /\ Store!Started(lock).lock = running.lock
                    /\ Store!Started(lock).enabled \cap Store!Installed(lock) = running.enabled \cap Store!Installed(lock)
                    /\ Store!Started(lock).settings = running.settings
  BY DEF Store!NoRestartNoChange
<1>1. lock = running.lock /\ Store!DesiredEnabled = running.enabled /\ settings = running.settings
  BY DEF Store!RestartRequired
<1>2. /\ lock \in Locks
      /\ \A p \in Store!Installed(lock) : lock[p].pending = "none"
  BY <1>1 DEF StoreInv, StoreShape, RunsWhatWasApplied
<1>3. Store!Kept(lock) = Store!Installed(lock)
  BY <1>2 DEF Store!Kept
<1>4. Store!Applied(lock) = lock
  <2>1. ASSUME NEW p \in Store!Plugins PROVE Store!Applied(lock)[p] = lock[p]
    <3>1. CASE p \in Store!Installed(lock)
      <4>1. lock[p] \in Record /\ lock[p].pending = "none"
        BY <1>2, <3>1 DEF Store!Installed, Locks
      <4>2. [lock[p] EXCEPT !.pending = "none"] = lock[p]
        BY <4>1 DEF Record
      <4> QED
        BY <1>3, <3>1, <4>2 DEF Store!Applied
    <3>2. CASE p \notin Store!Installed(lock)
      BY <1>3, <3>2 DEF Store!Installed, Store!Applied
    <3> QED
      BY <3>1, <3>2
  <2>2. lock = [p \in Store!Plugins |-> lock[p]] /\ Store!Applied(lock) = [p \in Store!Plugins |-> Store!Applied(lock)[p]]
    BY <1>2 DEF Locks, Store!Applied
  <2> QED
    BY <2>1, <2>2
<1>5. Store!Started(lock).enabled \cap Store!Installed(lock) = Store!DesiredEnabled \cap Store!Installed(lock)
  <2>1. Store!Started(lock).enabled = Store!LoadOrder(lock)
    BY <1>4 DEF Store!Started
  <2>2. Store!Installed(lock) \subseteq Store!Plugins
    BY DEF Store!Installed
  <2> QED
    BY <2>1, <2>2 DEF Store!LoadOrder, Store!DesiredEnabled
<1> QED
  BY <1>1, <1>2, <1>4, <1>5 DEF Store!Started

\* A user who is told that no restart is needed would see no change by one
\* (plugin_management.py, restart_required); and whatever is updated, rolled
\* back or cancelled while the program runs, the lock can go back to the
\* revision it runs (store.py, update and rollback).
THEOREM RunningRevisionsAreKept == Store!Spec => [](Store!NoRestartNoChange /\ Store!RunningRevisionIsKept)
<1>1. StoreInv => Store!NoRestartNoChange /\ Store!RunningRevisionIsKept
  BY NoChangeHolds DEF StoreInv
<1> QED
  BY <1>1, InitInv, StepInv, PTL DEF Store!Spec

-----------------------------------------------------------------------------
(* The workflow directory, for any plugins and revisions whose contents can be
   told from what users write.  What has to be inductive is, for each file, why
   it is not as the last marker says: a user has changed it, a start that was cut
   off has touched it, or nobody knows what was installed; and, in the middle of a
   start, which files it has dealt with. *)

\* The files of a workflow.
Held == {"definition", "script"}

\* The plugins.
Plugin == Flows!ToSet(Owners)

\* What a file may be.
Content == Flows!Versions \cup {"none", "user", "torn"}

\* What the marker may say of a file.
Mark == Flows!Versions \cup {"none", "unknown"}

\* The files in the order they are copied.
LEMMA FilesAre ==
    /\ Flows!ToSet(Flows!Files) = Held
    /\ Len(Flows!Files) = 2 /\ Flows!Files[1] = "definition" /\ Flows!Files[2] = "script"
<1>1. Len(Flows!Files) = 2 /\ DOMAIN Flows!Files = 1 .. 2 /\ Flows!Files[1] = "definition" /\ Flows!Files[2] = "script"
  BY DEF Flows!Files
<1>2. Flows!ToSet(Flows!Files) = {Flows!Files[i] : i \in 1 .. 2}
  BY <1>1 DEF Flows!ToSet
<1>3. 1 .. 2 = {1, 2}
  OBVIOUS
<1> QED
  BY <1>1, <1>2, <1>3 DEF Held

\* The types.
ShippedShape ==
    /\ root \in [Plugin -> [Held -> Flows!Versions \cup {"none"}]] /\ \A o \in Plugin : root[o] \in Revisions[o]
    /\ state \in [Plugin -> {"on", "failed", "off"}]
    /\ dir \in [Held -> Content] /\ mine \in [Held -> Content]
    /\ marker \in [owner : Plugin \cup {"none"}, active : BOOLEAN, files : [Held -> Mark], orphans : [Held -> Mark]]
    /\ sync \in [at : {"down", "copy", "synced", "up", "refused"}, owner : Plugin \cup {"none"}, n : 1 .. 3,
                 files : [Held -> Mark]]
    /\ cut \in SUBSET Held

\* The marker speaks of somebody's workflow, and of each file once.
MarkerOK ==
    /\ marker.owner = "none" => marker = Flows!NoMarker
    /\ \A f \in Held : marker.files[f] # "none" => marker.orphans[f] = "none"

\* What a user wrote is what the history says he wrote.
MineOK == \A f \in Held : dir[f] = "user" <=> mine[f] = "user"

\* A file is as it was put there, or there is a reason that it is not.
Explained(f) ==
    \/ dir[f] \in {"none", Flows!Before(f)}
    \/ mine[f] # "none"
    \/ f \in cut
    \/ "unknown" \in {marker.files[f], marker.orphans[f]}

\* The files this start has dealt with.
Copied == {Flows!Files[k] : k \in 1 .. sync.n - 1}

\* What a start has dealt with is as shipped and recorded so; or it was left as
\* it was, with what it will be recorded as; or it is not shipped.
CopiedOK(f) ==
    \/ Flows!Ships(f) /\ dir[f] = root[sync.owner][f] /\ sync.files[f] = root[sync.owner][f]
    \/ Flows!Ships(f) /\ ~Flows!Installs(f) /\ sync.files[f] = Flows!Recorded(f) /\ Explained(f)
    \/ ~Flows!Ships(f) /\ sync.files[f] = "none" /\ Explained(f)

\* A start that is copying copies what one plugin ships, to a directory that is
\* its own or nobody's, and has a reason for each file it finds changed.
CopyOK ==
    sync.at = "copy" =>
        /\ sync.owner \in Plugin /\ Flows!Claims(sync.owner)
        /\ marker.owner \in {"none", sync.owner}
        /\ \A f \in Copied : CopiedOK(f)
        /\ \A f \in Held \ Copied : sync.files[f] = "none" /\ Explained(f)

\* Else there is a reason for each file that is not as it was put there.
RestOK == sync.at # "copy" => \A f \in Held : Explained(f)

\* What every step keeps.
ShippedInv == ShippedShape /\ MarkerOK /\ MineOK /\ CopyOK /\ RestOK /\ Flows!FollowsPlugin /\ Flows!RefusedForAReason

USE FilesAre DEF Plugin

\* What is true in any state a plugin does not begin, and no start ends, in.
LEMMA AtRest ==
    ASSUME ShippedShape', MarkerOK', MineOK', sync'.at \in {"down", "up"},
           \A f \in Held : Explained(f)'
    PROVE  ShippedInv'
<1>1. CopyOK' /\ Flows!FollowsPlugin' /\ Flows!RefusedForAReason'
  BY DEF CopyOK, Flows!FollowsPlugin, Flows!RefusedForAReason
<1>2. RestOK'
  BY DEF RestOK
<1> QED
  BY <1>1, <1>2 DEF ShippedInv

\* A file the step does not touch, under a marker that says the same of it.
LEMMA Unchanged ==
    ASSUME UNCHANGED <<dir, mine, cut>>, marker'.files = marker.files, marker'.orphans = marker.orphans,
           NEW f \in Held, Explained(f)
    PROVE  Explained(f)'
  BY DEF Explained, Flows!Before

\* A stage a start begins with.
LEMMA AtRight ==
    ASSUME NEW where \in {"down", "copy", "synced", "up", "refused"}
    PROVE  /\ Flows!At(where) \in [at : {"down", "copy", "synced", "up", "refused"}, owner : Plugin \cup {"none"}, n : 1 .. 3,
                             files : [Held -> Mark]]
           /\ Flows!At(where).at = where /\ Flows!At(where).n = 1 /\ Flows!At(where).files = [f \in Held |-> "none"]
  BY DEF Flows!At, Flows!None, Mark

\* No file, and no marker.
LEMMA NoneRight ==
    /\ Flows!None \in [Held -> Content] /\ Flows!None \in [Held -> Mark]
    /\ \A f \in Held : Flows!None[f] = "none"
    /\ Flows!NoMarker \in [owner : Plugin \cup {"none"}, active : BOOLEAN, files : [Held -> Mark], orphans : [Held -> Mark]]
    /\ Flows!NoMarker.owner = "none" /\ Flows!NoMarker.files = Flows!None /\ Flows!NoMarker.orphans = Flows!None
  BY DEF Flows!None, Content, Mark, Flows!NoMarker

\* The first of the plugins that ship the workflow is one of them.
LEMMA FirstRight ==
    ASSUME Flows!ContentsApart, Flows!Claimants # {}
    PROVE  \E i \in Flows!Claimants : Flows!First = Owners[i] /\ Flows!First \in Plugin /\ Flows!Claims(Flows!First)
<1>1. DOMAIN Owners = 1 .. Len(Owners) /\ Len(Owners) \in Nat
  BY LenProperties DEF Flows!ContentsApart
<1>2. Flows!Claimants \in SUBSET Nat
  BY <1>1 DEF Flows!Claimants
<1>3. \E i \in Flows!Claimants : \A j \in Flows!Claimants : i <= j
  BY <1>2, LeastNumber
<1>4. PICK i \in Flows!Claimants : Flows!First = Owners[i]
  BY <1>3 DEF Flows!First
<1>5. i \in DOMAIN Owners /\ Flows!Claims(Owners[i])
  BY <1>4 DEF Flows!Claimants
<1>6. Owners[i] \in Plugin
  BY <1>5 DEF Flows!ToSet
<1> QED
  BY <1>4, <1>5, <1>6

\* No workflow yet.
LEMMA InitShipped == Flows!ContentsApart /\ Flows!Init => ShippedInv
<1> SUFFICES ASSUME Flows!ContentsApart, Flows!Init PROVE ShippedInv
  OBVIOUS
<1>1. root \in [Plugin -> [Held -> Flows!Versions \cup {"none"}]] /\ \A o \in Plugin : root[o] \in Revisions[o]
  BY DEF Flows!Init, Flows!ContentsApart
<1>2. /\ dir = Flows!None /\ marker = Flows!NoMarker /\ mine = Flows!None /\ cut = {} /\ sync = Flows!At("down")
      /\ state \in [Plugin -> {"on", "failed", "off"}]
  BY DEF Flows!Init
<1>3. ShippedShape
  BY <1>1, <1>2, NoneRight, AtRight DEF ShippedShape
<1>4. MarkerOK /\ MineOK
  BY <1>2, NoneRight DEF MarkerOK, MineOK
<1>5. \A f \in Held : Explained(f)
  BY <1>2, NoneRight DEF Explained
<1>6. sync.at = "down"
  BY <1>2, AtRight
<1> QED
  BY <1>3, <1>4, <1>5, <1>6 DEF ShippedInv, CopyOK, RestOK, Flows!FollowsPlugin, Flows!RefusedForAReason

\* A start claims the directory, or refuses.
LEMMA StartsStep == Flows!ContentsApart /\ ShippedInv /\ Flows!Starts => ShippedInv'
<1> SUFFICES ASSUME Flows!ContentsApart, ShippedInv, Flows!Starts PROVE ShippedInv'
  OBVIOUS
<1>0. ShippedShape /\ MarkerOK /\ MineOK /\ RestOK
  BY DEF ShippedInv
<1>1. UNCHANGED <<root, state, dir, marker, mine, cut>> /\ sync.at = "down" /\ Flows!Claimants # {}
  BY DEF Flows!Starts
<1>2. PICK i \in Flows!Claimants, o \in Plugin : Flows!First = o /\ o = Owners[i] /\ Flows!Claims(o)
  BY <1>1, FirstRight
<1>3. \A f \in Held : Explained(f)'
  BY <1>0, <1>1, Unchanged DEF RestOK
<1>4. MarkerOK' /\ MineOK'
  BY <1>0, <1>1 DEF MarkerOK, MineOK
<1>5. CASE Flows!Taken(o)
  <2>1. sync' = Flows!At("refused") /\ sync'.at = "refused"
    BY <1>2, <1>5, AtRight DEF Flows!Starts
  <2>2. ShippedShape'
    BY <1>0, <1>1, <2>1, AtRight DEF ShippedShape
  <2>3. Flows!RefusedForAReason'
    <3>1. CASE marker.owner \notin {"none", o}
      <4>1. marker.owner \in Plugin
        BY <1>0, <3>1 DEF ShippedShape
      <4>2. PICK j \in DOMAIN Owners : marker.owner = Owners[j]
        BY <4>1 DEF Flows!ToSet
      <4>3. i \in DOMAIN Owners /\ i # j /\ Flows!Claims(Owners[i])
        BY <1>2, <3>1, <4>2 DEF Flows!Claimants
      <4> QED
        BY <1>1, <4>2, <4>3 DEF Flows!RefusedForAReason, Flows!Claims
    <3>2. CASE marker.owner = "none" /\ dir["definition"] # "none"
      <4>1. marker.files["definition"] = "none" /\ marker.orphans["definition"] = "none"
        BY <1>0, <3>2, NoneRight DEF MarkerOK, Held
      <4>2. Explained("definition")
        BY <1>0, <1>1 DEF RestOK, Held
      <4>3. mine["definition"] # "none" \/ "definition" \in cut
        BY <3>2, <4>1, <4>2 DEF Explained, Flows!Before
      <4> QED
        BY <1>1, <4>3 DEF Flows!RefusedForAReason
    <3> QED
      BY <1>5, <3>1, <3>2 DEF Flows!Taken
  <2> QED
    BY <1>3, <1>4, <2>1, <2>2, <2>3 DEF ShippedInv, CopyOK, RestOK, Flows!FollowsPlugin
<1>6. CASE ~Flows!Taken(o)
  <2>1. sync' = [Flows!At("copy") EXCEPT !.owner = o]
    BY <1>2, <1>6 DEF Flows!Starts
  <2>2. /\ sync'.at = "copy" /\ sync'.owner = o /\ sync'.n = 1 /\ sync'.files = [f \in Held |-> "none"]
        /\ sync' \in [at : {"down", "copy", "synced", "up", "refused"}, owner : Plugin \cup {"none"}, n : 1 .. 3,
                      files : [Held -> Mark]]
    BY <1>2, <2>1, AtRight
  <2>3. ShippedShape'
    BY <1>0, <1>1, <2>2 DEF ShippedShape
  <2>4. Copied' = {}
    BY <2>2 DEF Copied
  <2>5. Flows!Claims(o)' /\ marker'.owner \in {"none", o}
    BY <1>1, <1>2, <1>6 DEF Flows!Claims, Flows!Taken
  <2>6. CopyOK'
    BY <1>2, <1>3, <2>2, <2>4, <2>5 DEF CopyOK, Flows!Claims
  <2> QED
    BY <1>4, <2>2, <2>3, <2>6 DEF ShippedInv, RestOK, Flows!FollowsPlugin, Flows!RefusedForAReason
<1> QED
  BY <1>5, <1>6

\* Nobody ships the workflow: its marker is made inactive at most.
LEMMA StartsWithoutStep == Flows!ContentsApart /\ ShippedInv /\ Flows!StartsWithout => ShippedInv'
<1> SUFFICES ASSUME Flows!ContentsApart, ShippedInv, Flows!StartsWithout PROVE ShippedInv'
  OBVIOUS
<1>0. ShippedShape /\ MarkerOK /\ MineOK /\ RestOK
  BY DEF ShippedInv
<1>1. UNCHANGED <<root, state, dir, mine, cut>> /\ sync.at = "down" /\ Flows!Claimants = {} /\ sync' = Flows!At("synced")
  BY DEF Flows!StartsWithout
<1>2. /\ marker'.owner = marker.owner /\ marker'.files = marker.files /\ marker'.orphans = marker.orphans
      /\ marker' \in [owner : Plugin \cup {"none"}, active : BOOLEAN, files : [Held -> Mark], orphans : [Held -> Mark]]
      /\ marker.owner = "none" => marker' = marker
      /\ marker.owner \in Plugin /\ state[marker.owner] # "off" => marker'.active = FALSE
  <2>1. marker \in [owner : Plugin \cup {"none"}, active : BOOLEAN, files : [Held -> Mark], orphans : [Held -> Mark]]
    BY <1>0 DEF ShippedShape
  <2>2. CASE marker.owner \in {o \in Plugin : state[o] # "off"}
    <3>1. marker' = [marker EXCEPT !.active = FALSE]
      BY <2>2 DEF Flows!StartsWithout
    <3> QED
      BY <2>1, <2>2, <3>1 DEF Flows!ContentsApart
  <2>3. CASE marker.owner \notin {o \in Plugin : state[o] # "off"}
    <3>1. marker' = marker
      BY <2>3 DEF Flows!StartsWithout
    <3> QED
      BY <2>1, <2>3, <3>1
  <2> QED
    BY <2>2, <2>3
<1>3. \A f \in Held : Explained(f)'
  BY <1>0, <1>1, <1>2, Unchanged DEF RestOK
<1>4. sync'.at = "synced" /\ ShippedShape' /\ MarkerOK' /\ MineOK'
  BY <1>0, <1>1, <1>2, AtRight DEF ShippedShape, MarkerOK, MineOK
<1>5. Flows!FollowsPlugin'
  <2> SUFFICES ASSUME marker'.owner # "none", state'[marker'.owner] = "on"
               PROVE  marker'.active = FALSE /\ root'[marker'.owner]["definition"] = "none"
    BY DEF Flows!FollowsPlugin
  <2>1. marker.owner \in Plugin /\ state[marker.owner] = "on"
    BY <1>0, <1>1, <1>2 DEF ShippedShape
  <2>2. PICK j \in DOMAIN Owners : marker.owner = Owners[j]
    BY <2>1 DEF Flows!ToSet
  <2>3. ~Flows!Claims(marker.owner)
    BY <1>1, <2>2 DEF Flows!Claimants
  <2> QED
    BY <1>1, <1>2, <2>1, <2>3 DEF Flows!Claims
<1> QED
  BY <1>3, <1>4, <1>5 DEF ShippedInv, CopyOK, RestOK, Flows!RefusedForAReason

\* A file that a step does not touch.
LEMMA Untouched ==
    ASSUME NEW f \in Held, dir'[f] = dir[f], mine'[f] = mine[f], UNCHANGED <<root, marker, cut>>,
           sync'.owner = sync.owner, sync'.files[f] = sync.files[f]
    PROVE  /\ Explained(f) => Explained(f)'
           /\ CopiedOK(f) => CopiedOK(f)'
<1>1. Explained(f) <=> Explained(f)'
  BY DEF Explained, Flows!Before
<1>2. (Flows!Ships(f) <=> Flows!Ships(f)') /\ (Flows!Installs(f) <=> Flows!Installs(f)') /\ Flows!Recorded(f)' = Flows!Recorded(f)
  BY DEF Flows!Ships, Flows!Installs, Flows!Recorded
<1> QED
  BY <1>1, <1>2 DEF CopiedOK

\* What is in the directory and in no plugin is never taken for installed.
LEMMA InstalledIsNoUsers ==
    ASSUME Flows!ContentsApart, ShippedShape, MineOK, sync.owner \in Plugin, NEW f \in Held, Flows!Installs(f)
    PROVE  dir[f] # "user" /\ mine[f] # "user" /\ root[sync.owner][f] \in Flows!Versions \cup {"none"}
<1>1. root[sync.owner][f] \in Flows!Versions \cup {"none"} /\ marker.files[f] \in Mark
  BY DEF ShippedShape
<1>2. "user" \notin Flows!Versions
  BY DEF Flows!ContentsApart
<1>3. dir[f] # "user"
  BY <1>1, <1>2 DEF Flows!Installs, Mark
<1> QED
  BY <1>1, <1>3 DEF MineOK

\* One file is installed, or left to the user.
LEMMA CopiesStep == Flows!ContentsApart /\ ShippedInv /\ Flows!Copies => ShippedInv'
<1> SUFFICES ASSUME Flows!ContentsApart, ShippedInv, Flows!Copies PROVE ShippedInv'
  OBVIOUS
<1>0. ShippedShape /\ MarkerOK /\ MineOK
  BY DEF ShippedInv
<1>1. sync.at = "copy" /\ sync.n \in 1 .. 2 /\ UNCHANGED <<root, state, marker, cut>>
  BY <1>0 DEF Flows!Copies, ShippedShape
<1>2. /\ sync.owner \in Plugin /\ Flows!Claims(sync.owner) /\ marker.owner \in {"none", sync.owner}
      /\ \A f \in Copied : CopiedOK(f)
      /\ \A f \in Held \ Copied : sync.files[f] = "none" /\ Explained(f)
  BY <1>1 DEF ShippedInv, CopyOK
<1>3. PICK f \in Held : f = Flows!Files[sync.n] /\ f \notin Copied /\ {Flows!Files[k] : k \in 1 .. sync.n} = Copied \cup {f}
  <2>1. CASE sync.n = 1
    <3>1. 1 .. sync.n = {1} /\ 1 .. sync.n - 1 = {}
      BY <2>1
    <3> QED
      BY <2>1, <3>1 DEF Copied, Held
  <2>2. CASE sync.n = 2
    <3>1. 1 .. sync.n = {1, 2} /\ 1 .. sync.n - 1 = {1}
      BY <2>2
    <3> QED
      BY <2>2, <3>1 DEF Copied, Held
  <2> QED
    BY <1>1, <2>1, <2>2
<1>4. /\ sync \in [at : {"down", "copy", "synced", "up", "refused"}, owner : Plugin \cup {"none"}, n : 1 .. 3,
                   files : [Held -> Mark]]
      /\ dir \in [Held -> Content] /\ mine \in [Held -> Content] /\ root[sync.owner][f] \in Flows!Versions \cup {"none"}
      /\ marker.files[f] \in Mark
  BY <1>0, <1>2 DEF ShippedShape
<1>5. /\ dir' = IF Flows!Ships(f) /\ Flows!Installs(f) THEN [dir EXCEPT ![f] = root[sync.owner][f]] ELSE dir
      /\ mine' = IF Flows!Ships(f) /\ Flows!Installs(f) THEN [mine EXCEPT ![f] = "none"] ELSE mine
      /\ sync' = IF Flows!Ships(f) THEN [sync EXCEPT !.n = @ + 1, !.files[f] = Flows!Recorded(f)] ELSE [sync EXCEPT !.n = @ + 1]
  <2>1. Flows!Installs(f) => mine[f] # "user"
    BY <1>0, <1>2, InstalledIsNoUsers
  <2> QED
    BY <1>3, <2>1 DEF Flows!Copies
<1>6. Flows!Recorded(f) \in Mark
  BY <1>4 DEF Flows!Recorded, Mark
<1>7. /\ sync'.at = "copy" /\ sync'.owner = sync.owner /\ sync'.n = sync.n + 1
      /\ sync'.files \in [Held -> Mark]
      /\ sync'.files[f] = IF Flows!Ships(f) THEN Flows!Recorded(f) ELSE sync.files[f]
      /\ \A g \in Held \ {f} : sync'.files[g] = sync.files[g]
      /\ sync' \in [at : {"copy"}, owner : {sync.owner}, n : {sync.n + 1}, files : {sync'.files}]
  <2>1. CASE Flows!Ships(f)
    <3>1. PICK r : r = Flows!Recorded(f)
      OBVIOUS
    <3>2. sync' = [sync EXCEPT !.n = @ + 1, !.files[f] = r]
      BY <1>5, <2>1, <3>1
    <3> QED
      BY <1>1, <1>4, <1>6, <2>1, <3>1, <3>2
  <2>2. CASE ~Flows!Ships(f)
    BY <1>1, <1>4, <1>5, <2>2
  <2> QED
    BY <2>1, <2>2
<1>8. dir' \in [Held -> Content] /\ mine' \in [Held -> Content]
  BY <1>4, <1>5 DEF Content
<1>9. ShippedShape'
  <2>1. sync' \in [at : {"down", "copy", "synced", "up", "refused"}, owner : Plugin \cup {"none"}, n : 1 .. 3,
                   files : [Held -> Mark]]
    BY <1>1, <1>2, <1>7
  <2> QED
    BY <1>0, <1>1, <1>8, <2>1 DEF ShippedShape
<1>10. \A g \in Held \ {f} : dir'[g] = dir[g] /\ mine'[g] = mine[g]
  BY <1>4, <1>5
<1>11. MineOK'
  <2>1. dir'[f] = "user" <=> mine'[f] = "user"
    <3>1. CASE Flows!Ships(f) /\ Flows!Installs(f)
      <4>1. dir'[f] = root[sync.owner][f] /\ mine'[f] = "none"
        BY <1>4, <1>5, <3>1
      <4> QED
        BY <1>4, <4>1 DEF Flows!ContentsApart
    <3>2. CASE ~(Flows!Ships(f) /\ Flows!Installs(f))
      BY <1>0, <1>5, <3>2 DEF MineOK
    <3> QED
      BY <3>1, <3>2
  <2> QED
    BY <1>0, <1>10, <2>1 DEF MineOK
<1>12. CopiedOK(f)'
  <2>1. sync.files[f] = "none" /\ Explained(f)
    BY <1>2, <1>3
  <2>2. Flows!Ships(f)' <=> Flows!Ships(f)
    BY <1>1, <1>7 DEF Flows!Ships
  <2>3. CASE Flows!Ships(f) /\ Flows!Installs(f)
    <3>1. dir'[f] = root[sync.owner][f] /\ sync'.files[f] = root[sync.owner][f]
      BY <1>4, <1>5, <1>7, <2>3 DEF Flows!Recorded
    <3> QED
      BY <1>1, <1>7, <2>2, <2>3, <3>1 DEF CopiedOK
  <2>4. CASE Flows!Ships(f) /\ ~Flows!Installs(f)
    <3>1. dir' = dir /\ mine' = mine /\ sync'.files[f] = Flows!Recorded(f)
      BY <1>5, <1>7, <2>4
    <3>2. ~Flows!Installs(f)' /\ Flows!Recorded(f)' = Flows!Recorded(f) /\ Explained(f)'
      BY <1>1, <1>7, <2>1, <2>4, <3>1 DEF Flows!Installs, Flows!Recorded, Explained, Flows!Before
    <3> QED
      BY <2>2, <2>4, <3>1, <3>2 DEF CopiedOK
  <2>5. CASE ~Flows!Ships(f)
    <3>1. dir' = dir /\ mine' = mine /\ sync'.files[f] = "none"
      BY <1>5, <1>7, <2>1, <2>5
    <3>2. Explained(f)'
      BY <1>1, <2>1, <3>1 DEF Explained, Flows!Before
    <3> QED
      BY <2>2, <2>5, <3>1, <3>2 DEF CopiedOK
  <2> QED
    BY <2>3, <2>4, <2>5
<1>13. Copied' = Copied \cup {f}
  <2>1. Copied' = {Flows!Files[k] : k \in 1 .. sync'.n - 1} /\ sync'.n - 1 = sync.n
    BY <1>1, <1>7 DEF Copied
  <2> QED
    BY <1>3, <2>1
<1>14. \A g \in Held \ {f} : (Explained(g) => Explained(g)') /\ (CopiedOK(g) => CopiedOK(g)')
  BY <1>1, <1>7, <1>10, Untouched
<1>15. CopyOK'
  <2>1. Flows!Claims(sync.owner)'
    BY <1>1, <1>2, <1>7 DEF Flows!Claims
  <2>2. Copied \subseteq Held
    BY <1>1 DEF Copied, Held
  <2>3. \A g \in Copied' : CopiedOK(g)'
    BY <1>2, <1>3, <1>12, <1>13, <1>14, <2>2
  <2>4. \A g \in Held \ Copied' : sync'.files[g] = "none" /\ Explained(g)'
    BY <1>2, <1>7, <1>13, <1>14
  <2> QED
    BY <1>1, <1>2, <1>7, <2>1, <2>3, <2>4 DEF CopyOK
<1> QED
  BY <1>0, <1>1, <1>7, <1>9, <1>11, <1>15 DEF ShippedInv, MarkerOK, RestOK, Flows!FollowsPlugin, Flows!RefusedForAReason

\* What is not shipped any longer goes, unless a user has changed it, and the
\* marker says what is there now.
LEMMA MarksStep == Flows!ContentsApart /\ ShippedInv /\ Flows!Marks => ShippedInv'
<1> SUFFICES ASSUME Flows!ContentsApart, ShippedInv, Flows!Marks PROVE ShippedInv'
  OBVIOUS
<1>0. ShippedShape /\ MarkerOK /\ MineOK
  BY DEF ShippedInv
<1>1. sync.at = "copy" /\ sync.n = 3 /\ UNCHANGED <<root, state>>
  BY <1>0 DEF Flows!Marks, ShippedShape
<1>2. PICK o \in Plugin : sync.owner = o /\ Flows!Claims(o)
  BY <1>1 DEF ShippedInv, CopyOK
<1>3. \A f \in Held : CopiedOK(f)
  <2>1. 1 .. sync.n - 1 = {1, 2}
    BY <1>1
  <2>2. Copied = Held
    BY <2>1 DEF Copied, Held
  <2> QED
    BY <1>1, <2>2 DEF ShippedInv, CopyOK
<1> DEFINE stale == {f \in Held : Flows!Before(f) # "none" /\ ~Flows!Ships(f) /\ dir[f] # "none"}
           unchanged == {f \in stale : dir[f] = Flows!Before(f)}
           left == [f \in Held |-> IF f \in stale \ unchanged THEN Flows!Before(f) ELSE "none"]
<1>4. /\ dir \in [Held -> Content] /\ mine \in [Held -> Content] /\ sync.files \in [Held -> Mark]
      /\ \A f \in Held : root[o][f] \in Flows!Versions \cup {"none"} /\ Flows!Before(f) \in Mark
      /\ cut \subseteq Held
  BY <1>0 DEF ShippedShape, Flows!Before
<1>5. /\ dir' = [f \in Held |-> IF f \in unchanged THEN "none" ELSE dir[f]]
      /\ mine' = [f \in Held |-> IF f \in unchanged /\ mine[f] # "user" THEN "none" ELSE mine[f]]
      /\ marker' = [owner |-> o, active |-> TRUE, files |-> sync.files, orphans |-> left]
      /\ cut' = {f \in cut : dir'[f] # root[o][f]}
  <2>1. DOMAIN dir = Held /\ DOMAIN mine = Held
    BY <1>4
  <2> QED
    BY <1>2, <2>1 DEF Flows!Marks
<1>6. /\ sync'.at \in {"refused", "synced"}
      /\ sync'.at = "refused" => \E i, j \in Flows!Claimants : i # j
      /\ sync' \in [at : {"down", "copy", "synced", "up", "refused"}, owner : Plugin \cup {"none"}, n : 1 .. 3,
                    files : [Held -> Mark]]
  BY AtRight DEF Flows!Marks
<1>7. unchanged \subseteq stale /\ stale \subseteq Held
  OBVIOUS
<1>8. \A f \in Held : /\ f \in stale <=> Flows!Before(f) # "none" /\ root[o][f] = "none" /\ dir[f] # "none"
                      /\ f \in unchanged <=> f \in stale /\ dir[f] = Flows!Before(f)
  BY <1>2 DEF Flows!Ships
<1> HIDE DEF stale, unchanged
<1>9. left \in [Held -> Mark]
  BY <1>4 DEF Mark
<1>10. /\ marker'.owner = o /\ marker'.active = TRUE /\ marker'.files = sync.files /\ marker'.orphans = left
       /\ marker' \in [owner : Plugin \cup {"none"}, active : BOOLEAN, files : [Held -> Mark], orphans : [Held -> Mark]]
  BY <1>2, <1>4, <1>5, <1>9
<1>11. \A f \in Held : left[f] = IF f \in stale \ unchanged THEN Flows!Before(f) ELSE "none"
  OBVIOUS
<1> HIDE DEF left
<1>12. ShippedShape'
  <2>1. dir' \in [Held -> Content] /\ mine' \in [Held -> Content]
    BY <1>4, <1>5 DEF Content
  <2>2. cut' \in SUBSET Held
    BY <1>4, <1>5
  <2> QED
    BY <1>0, <1>1, <1>6, <1>10, <2>1, <2>2 DEF ShippedShape
<1>13. ASSUME NEW f \in Held
       PROVE  /\ dir'[f] = "user" <=> mine'[f] = "user"
              /\ sync.files[f] # "none" => left[f] = "none"
              /\ dir'[f] = root[o][f] \/ mine'[f] # "none" \/ f \in cut' \/ "unknown" \in {sync.files[f], left[f]}
              /\ Explained(f)'
  <2>1. CopiedOK(f) /\ (dir[f] = "user" <=> mine[f] = "user") /\ Flows!Before(f) # "user" /\ root[o][f] # "user"
    BY <1>0, <1>3, <1>4 DEF MineOK, Flows!ContentsApart, Mark
  <2>2. /\ dir'[f] = IF f \in unchanged THEN "none" ELSE dir[f]
        /\ mine'[f] = IF f \in unchanged /\ mine[f] # "user" THEN "none" ELSE mine[f]
        /\ f \in cut' <=> f \in cut /\ dir'[f] # root[o][f]
    BY <1>5
  <2>3. Flows!Before(f)' = IF sync.files[f] # "none" THEN sync.files[f] ELSE left[f]
    BY <1>10 DEF Flows!Before
  <2>4. dir'[f] = "user" <=> mine'[f] = "user"
    BY <1>8, <2>1, <2>2
  <2>5. Explained(f)' <=> \/ dir'[f] \in {"none", Flows!Before(f)'}
                          \/ mine'[f] # "none"
                          \/ f \in cut'
                          \/ "unknown" \in {sync.files[f], left[f]}
    BY <1>10 DEF Explained
  <2>6. CASE root[o][f] # "none" /\ dir[f] = root[o][f] /\ sync.files[f] = root[o][f]
    <3>1. f \notin stale /\ f \notin unchanged
      BY <1>8, <2>6
    <3>2. left[f] = "none" /\ dir'[f] = root[o][f] /\ Flows!Before(f)' = root[o][f]
      BY <1>11, <2>2, <2>3, <2>6, <3>1
    <3> QED
      BY <2>4, <2>5, <3>2
  <2>7. CASE root[o][f] # "none" /\ ~Flows!Installs(f) /\ sync.files[f] = Flows!Recorded(f) /\ Explained(f)
    <3>1. f \notin stale /\ f \notin unchanged
      BY <1>8, <2>7
    <3>2. left[f] = "none" /\ dir'[f] = dir[f] /\ mine'[f] = mine[f] /\ Flows!Before(f)' = sync.files[f]
      BY <1>11, <2>2, <2>3, <2>7, <3>1
    <3>3. /\ dir[f] \notin {"none", root[o][f], marker.files[f]}
          /\ sync.files[f] = IF marker.files[f] = "none" THEN "unknown" ELSE marker.files[f]
      BY <1>2, <2>7 DEF Flows!Installs, Flows!Recorded
    <3>4. marker.files[f] # "none" => Flows!Before(f) = marker.files[f] /\ marker.orphans[f] = "none"
      BY <1>0 DEF Flows!Before, MarkerOK
    <3>5. sync.files[f] = "unknown" \/ mine[f] # "none" \/ f \in cut
      BY <2>7, <3>3, <3>4 DEF Explained
    <3>6. f \in cut => f \in cut'
      BY <2>2, <3>2, <3>3
    <3> QED
      BY <2>4, <2>5, <3>2, <3>5, <3>6
  <2>8. CASE root[o][f] = "none" /\ sync.files[f] = "none" /\ Explained(f)
    <3>1. CASE f \in unchanged \/ dir[f] = "none"
      <4>1. dir'[f] = "none"
        BY <2>2, <3>1
      <4> QED
        BY <2>4, <2>5, <2>8, <4>1
    <3>2. CASE f \notin unchanged /\ dir[f] # "none"
      <4>1. dir'[f] = dir[f] /\ mine'[f] = mine[f] /\ (f \in cut => f \in cut')
        BY <2>2, <2>8, <3>2
      <4>2. dir[f] # Flows!Before(f)
        BY <1>8, <2>8, <3>2
      <4>3. Flows!Before(f) # "none" => left[f] = Flows!Before(f)
        BY <1>8, <1>11, <2>8, <3>2
      <4>4. "unknown" \in {marker.files[f], marker.orphans[f]} => Flows!Before(f) = "unknown"
        BY <1>0 DEF Flows!Before, MarkerOK
      <4> QED
        BY <2>4, <2>5, <2>8, <3>2, <4>1, <4>2, <4>3, <4>4 DEF Explained
    <3> QED
      BY <3>1, <3>2
  <2> QED
    BY <1>2, <2>1, <2>6, <2>7, <2>8 DEF CopiedOK, Flows!Ships
<1>14. MarkerOK' /\ MineOK' /\ RestOK'
  BY <1>2, <1>10, <1>13 DEF MarkerOK, MineOK, RestOK, Flows!ContentsApart
<1>15. Flows!FollowsPlugin'
  <2>1. root'[o]["definition"] # "none" /\ root'[o] = root[o]
    BY <1>1, <1>2 DEF Flows!Claims
  <2> QED
    BY <1>10, <1>13, <2>1 DEF Flows!FollowsPlugin
<1>16. Flows!RefusedForAReason'
  <2> SUFFICES ASSUME sync'.at = "refused"
               PROVE  \E i, j \in DOMAIN Owners : i # j /\ Flows!Claims(Owners[i])' /\ Flows!Claims(Owners[j])'
    BY DEF Flows!RefusedForAReason
  <2>1. PICK i, j \in Flows!Claimants : i # j
    BY <1>6
  <2>2. i \in DOMAIN Owners /\ j \in DOMAIN Owners /\ Flows!Claims(Owners[i]) /\ Flows!Claims(Owners[j])
    BY <2>1 DEF Flows!Claimants
  <2> QED
    BY <1>1, <2>1, <2>2 DEF Flows!Claims
<1> QED
  BY <1>6, <1>12, <1>14, <1>15, <1>16 DEF ShippedInv, CopyOK

\* A start is cut off between two steps or in one: the files it has touched and
\* not recorded are known to the history.
LEMMA CutOffStep == Flows!ContentsApart /\ ShippedInv /\ Flows!IsCutOff => ShippedInv'
<1> SUFFICES ASSUME Flows!ContentsApart, ShippedInv, Flows!IsCutOff PROVE ShippedInv'
  OBVIOUS
<1>0. ShippedShape /\ MarkerOK /\ MineOK
  BY DEF ShippedInv
<1>1. /\ sync.at = "copy" /\ UNCHANGED <<root, state, marker, mine>> /\ sync' = Flows!At("down")
      /\ cut' = cut \cup {f \in Held : dir'[f] \notin {"none", "user", marker.files[f]}}
  BY DEF Flows!IsCutOff
<1>2. sync.owner \in Plugin
  BY <1>1 DEF ShippedInv, CopyOK
<1>3. \/ dir' = dir
      \/ \E f \in Held : Flows!Installs(f) /\ dir' = [dir EXCEPT ![f] = "torn"]
  <2> SUFFICES ASSUME sync.n <= Len(Flows!Files), Flows!Installs(Flows!Files[sync.n]), dir' = [dir EXCEPT ![Flows!Files[sync.n]] = "torn"]
               PROVE  \E f \in Held : Flows!Installs(f) /\ dir' = [dir EXCEPT ![f] = "torn"]
    BY DEF Flows!IsCutOff
  <2>1. sync.n \in {1, 2}
    BY <1>0 DEF ShippedShape
  <2>2. Flows!Files[sync.n] \in Held
    BY <2>1 DEF Held
  <2> QED
    BY <2>2
<1>4. dir' \in [Held -> Content] /\ \A f \in Held : dir'[f] = "user" <=> mine[f] = "user"
  <2>1. CASE dir' = dir
    BY <1>0, <2>1 DEF ShippedShape, MineOK
  <2>2. ASSUME NEW f \in Held, Flows!Installs(f), dir' = [dir EXCEPT ![f] = "torn"]
        PROVE  dir' \in [Held -> Content] /\ \A g \in Held : dir'[g] = "user" <=> mine[g] = "user"
    <3>1. mine[f] # "user"
      BY <1>0, <1>2, <2>2, InstalledIsNoUsers
    <3>2. dir \in [Held -> Content] /\ \A g \in Held : dir[g] = "user" <=> mine[g] = "user"
      BY <1>0 DEF ShippedShape, MineOK
    <3> QED
      BY <2>2, <3>1, <3>2 DEF Content
  <2> QED
    BY <1>3, <2>1, <2>2
<1>5. sync'.at = "down" /\ ShippedShape'
  BY <1>0, <1>1, <1>4, AtRight DEF ShippedShape
<1>6. MarkerOK' /\ MineOK'
  BY <1>0, <1>1, <1>4 DEF MarkerOK, MineOK
<1>7. ASSUME NEW f \in Held PROVE Explained(f)'
  <2>1. CASE dir'[f] \notin {"none", "user", marker.files[f]}
    BY <1>1, <2>1 DEF Explained
  <2>2. CASE dir'[f] = "user"
    BY <1>1, <1>4, <2>2 DEF Explained
  <2>3. CASE dir'[f] = "none" \/ dir'[f] = marker.files[f]
    BY <1>1, <2>3 DEF Explained, Flows!Before
  <2> QED
    BY <2>1, <2>2, <2>3
<1> QED
  BY <1>5, <1>6, <1>7, AtRest

\* The program serves, or stops.
LEMMA StageStep == ShippedInv /\ (Flows!Serves \/ Flows!Stops) => ShippedInv'
<1> SUFFICES ASSUME ShippedInv, Flows!Serves \/ Flows!Stops PROVE ShippedInv'
  OBVIOUS
<1>0. ShippedShape /\ MarkerOK /\ MineOK /\ RestOK
  BY DEF ShippedInv
<1>1. /\ UNCHANGED <<root, state, dir, marker, mine, cut>> /\ sync.at # "copy"
      /\ sync' = Flows!At("up") \/ sync' = Flows!At("down")
  BY DEF Flows!Serves, Flows!Stops
<1>2. /\ sync'.at \in {"down", "up"}
      /\ sync' \in [at : {"down", "copy", "synced", "up", "refused"}, owner : Plugin \cup {"none"}, n : 1 .. 3,
                    files : [Held -> Mark]]
  BY <1>1, AtRight
<1>3. ShippedShape'
  BY <1>0, <1>1, <1>2 DEF ShippedShape
<1>4. MarkerOK' /\ MineOK'
  BY <1>0, <1>1 DEF MarkerOK, MineOK
<1>5. \A f \in Held : Explained(f)'
  BY <1>0, <1>1, Unchanged DEF RestOK
<1> QED
  BY <1>2, <1>3, <1>4, <1>5, AtRest

\* A plugin gets another revision, fails, or is turned off or on.
LEMMA ChangesStep ==
    ASSUME Flows!ContentsApart, ShippedInv, NEW o \in Plugin, Flows!ChangesPlugin(o)
    PROVE  ShippedInv'
<1>0. ShippedShape /\ MarkerOK /\ MineOK /\ RestOK
  BY DEF ShippedInv
<1>1. UNCHANGED <<dir, marker, sync, mine, cut>> /\ sync.at = "down"
  BY DEF Flows!ChangesPlugin
<1>2. root' \in [Plugin -> [Held -> Flows!Versions \cup {"none"}]] /\ \A q \in Plugin : root'[q] \in Revisions[q]
  <2>1. CASE root' = root
    BY <1>0, <2>1 DEF ShippedShape
  <2>2. ASSUME NEW r \in Revisions[o], root' = [root EXCEPT ![o] = r]
        PROVE  root' \in [Plugin -> [Held -> Flows!Versions \cup {"none"}]] /\ \A q \in Plugin : root'[q] \in Revisions[q]
    <3>1. r \in [Held -> Flows!Versions \cup {"none"}]
      BY DEF Flows!ContentsApart, Flows!Shipments
    <3> QED
      BY <1>0, <2>2, <3>1 DEF ShippedShape
  <2> QED
    BY <2>1, <2>2 DEF Flows!ChangesPlugin
<1>3. state' \in [Plugin -> {"on", "failed", "off"}]
  BY <1>0 DEF Flows!ChangesPlugin, ShippedShape
<1>4. ShippedShape'
  BY <1>0, <1>1, <1>2, <1>3 DEF ShippedShape
<1>5. MarkerOK' /\ MineOK'
  BY <1>0, <1>1 DEF MarkerOK, MineOK
<1>6. \A f \in Held : Explained(f)'
  BY <1>0, <1>1, Unchanged DEF RestOK
<1> QED
  BY <1>1, <1>4, <1>5, <1>6, AtRest

\* A user writes a file: what he writes is his, or what was installed.
LEMMA EditsStep ==
    ASSUME Flows!ContentsApart, ShippedInv, NEW f \in Held, Flows!Edits(f)
    PROVE  ShippedInv'
<1>0. ShippedShape /\ MarkerOK /\ MineOK /\ RestOK
  BY DEF ShippedInv
<1>1. UNCHANGED <<root, state, marker, sync>> /\ cut' = cut \ {f} /\ sync.at = "up"
  BY DEF Flows!Edits, Flows!Writable
<1>2. PICK c \in Flows!Versions \cup {"user"} :
          /\ dir' = [dir EXCEPT ![f] = c]
          /\ mine' = [mine EXCEPT ![f] = IF c \in {marker.files[f], marker.orphans[f]} THEN "none" ELSE c]
  BY DEF Flows!Edits
<1>3. dir \in [Held -> Content] /\ mine \in [Held -> Content] /\ marker.files[f] \in Mark /\ marker.orphans[f] \in Mark
  BY <1>0 DEF ShippedShape
<1>4. c # "none" /\ (c = "user" => c \notin {marker.files[f], marker.orphans[f]})
  <2>1. "none" \notin Flows!Versions
    BY DEF Flows!Versions
  <2>2. "user" \notin Mark
    BY DEF Flows!ContentsApart, Mark
  <2> QED
    BY <1>3, <2>1, <2>2
<1>5. dir' \in [Held -> Content] /\ mine' \in [Held -> Content]
  BY <1>2, <1>3 DEF Content
<1>6. ShippedShape'
  BY <1>0, <1>1, <1>5 DEF ShippedShape
<1>7. MarkerOK'
  BY <1>0, <1>1 DEF MarkerOK
<1>8. MineOK'
  BY <1>0, <1>2, <1>3, <1>4 DEF MineOK
<1>9. ASSUME NEW g \in Held PROVE Explained(g)'
  <2>1. Explained(g)
    BY <1>0, <1>1 DEF RestOK
  <2>2. CASE g # f
    BY <1>1, <1>2, <1>3, <2>1, <2>2 DEF Explained, Flows!Before
  <2>3. CASE g = f
    <3>1. dir'[f] = c /\ mine'[f] = IF c \in {marker.files[f], marker.orphans[f]} THEN "none" ELSE c
      BY <1>2, <1>3
    <3>2. CASE c \in {marker.files[f], marker.orphans[f]}
      <4>1. c = Flows!Before(f)
        BY <1>0, <1>4, <3>2 DEF Flows!Before, MarkerOK
      <4> QED
        BY <1>1, <2>3, <3>1, <4>1 DEF Explained, Flows!Before
    <3>3. CASE c \notin {marker.files[f], marker.orphans[f]}
      BY <1>4, <2>3, <3>1, <3>3 DEF Explained
    <3> QED
      BY <3>2, <3>3
  <2> QED
    BY <2>2, <2>3
<1> QED
  BY <1>1, <1>6, <1>7, <1>8, <1>9, AtRest

\* A script is gone.
LEMMA DeletesScriptStep == ShippedInv /\ Flows!DeletesScript => ShippedInv'
<1> SUFFICES ASSUME ShippedInv, Flows!DeletesScript PROVE ShippedInv'
  OBVIOUS
<1>0. ShippedShape /\ MarkerOK /\ MineOK /\ RestOK
  BY DEF ShippedInv
<1>1. /\ UNCHANGED <<root, state, marker, sync, cut>> /\ sync.at = "up"
      /\ dir' = [dir EXCEPT !["script"] = "none"] /\ mine' = [mine EXCEPT !["script"] = "none"]
  BY DEF Flows!DeletesScript, Flows!Writable
<1>2. dir \in [Held -> Content] /\ mine \in [Held -> Content]
  BY <1>0 DEF ShippedShape
<1>3. dir' \in [Held -> Content] /\ mine' \in [Held -> Content]
  BY <1>1, <1>2 DEF Content
<1>4. ShippedShape'
  BY <1>0, <1>1, <1>3 DEF ShippedShape
<1>5. MarkerOK' /\ MineOK'
  BY <1>0, <1>1, <1>2 DEF MarkerOK, MineOK
<1>6. \A f \in Held : Explained(f)'
  BY <1>0, <1>1, <1>2 DEF RestOK, Explained, Flows!Before
<1> QED
  BY <1>1, <1>4, <1>5, <1>6, AtRest

\* A directory is gone, or half of it.
LEMMA DeletesWorkflowStep == Flows!ContentsApart /\ ShippedInv /\ Flows!DeletesWorkflow => ShippedInv'
<1> SUFFICES ASSUME Flows!ContentsApart, ShippedInv, Flows!DeletesWorkflow PROVE ShippedInv'
  OBVIOUS
<1>0. ShippedShape /\ MarkerOK /\ MineOK /\ RestOK
  BY DEF ShippedInv
<1>1. UNCHANGED <<root, state, sync>> /\ sync.at = "up"
  BY DEF Flows!DeletesWorkflow, Flows!Writable
<1>2. /\ dir \in [Held -> Content] /\ mine \in [Held -> Content] /\ cut \subseteq Held
      /\ mine' = [f \in Held |-> IF dir'[f] = "none" THEN "none" ELSE mine[f]]
  BY <1>0 DEF Flows!DeletesWorkflow, ShippedShape
<1>3. /\ marker' \in {marker, Flows!NoMarker}
      /\ \A f \in Held : dir'[f] = "none" \/ (dir'[f] = dir[f] /\ f \in cut')
      /\ dir' \in [Held -> Content] /\ cut' \subseteq Held
  <2>1. CASE dir' = Flows!None /\ marker' = Flows!NoMarker /\ UNCHANGED cut
    BY <1>2, <2>1, NoneRight
  <2>2. ASSUME NEW left \in SUBSET Held,
               dir' = [f \in Held |-> IF f \in left THEN dir[f] ELSE "none"], cut' = cut \cup left,
               marker' \in {marker, Flows!NoMarker}
        PROVE  /\ \A f \in Held : dir'[f] = "none" \/ (dir'[f] = dir[f] /\ f \in cut')
               /\ dir' \in [Held -> Content] /\ cut' \subseteq Held
    BY <1>2, <2>2 DEF Content
  <2>3. \/ dir' = Flows!None /\ marker' = Flows!NoMarker /\ UNCHANGED cut
        \/ /\ \E left \in SUBSET Held : dir' = [f \in Held |-> IF f \in left THEN dir[f] ELSE "none"] /\ cut' = cut \cup left
           /\ marker' \in {marker, Flows!NoMarker}
    <3>1. ASSUME NEW left \in SUBSET {f \in Held : dir[f] # "none"},
                 dir' = [f \in Held |-> IF f \in left THEN dir[f] ELSE "none"] /\ cut' = cut \cup left
          PROVE  \E l \in SUBSET Held : dir' = [f \in Held |-> IF f \in l THEN dir[f] ELSE "none"] /\ cut' = cut \cup l
      <4>1. left \in SUBSET Held
        OBVIOUS
      <4> QED
        BY <3>1, <4>1
    <3>2. CASE dir' = Flows!None /\ marker' = Flows!NoMarker /\ UNCHANGED <<cut, faults>>
      BY <3>2
    <3>3. CASE /\ Flows!Fault
               /\ \E left \in SUBSET {f \in Flows!ToSet(Flows!Files) : dir[f] # "none"} :
                     /\ dir' = [f \in DOMAIN dir |-> IF f \in left THEN dir[f] ELSE "none"]
                     /\ cut' = cut \cup left
               /\ marker' \in {marker, Flows!NoMarker}
      <4>1. PICK left \in SUBSET {f \in Held : dir[f] # "none"} :
                dir' = [f \in Held |-> IF f \in left THEN dir[f] ELSE "none"] /\ cut' = cut \cup left
        <5>1. DOMAIN dir = Held
          BY <1>2
        <5> QED
          BY <3>3, <5>1
      <4> QED
        BY <3>1, <3>3, <4>1
    <3> QED
      BY <3>2, <3>3 DEF Flows!DeletesWorkflow
  <2> QED
    BY <2>1, <2>2, <2>3
<1>4. mine' \in [Held -> Content]
  BY <1>2 DEF Content
<1>5. ShippedShape'
  <2>1. marker' \in [owner : Plugin \cup {"none"}, active : BOOLEAN, files : [Held -> Mark], orphans : [Held -> Mark]]
    BY <1>0, <1>3, NoneRight DEF ShippedShape
  <2> QED
    BY <1>0, <1>1, <1>3, <1>4, <2>1 DEF ShippedShape
<1>6. MarkerOK'
  BY <1>0, <1>3, NoneRight DEF MarkerOK
<1>7. MineOK'
  BY <1>0, <1>2, <1>3 DEF MineOK
<1>8. \A f \in Held : Explained(f)'
  BY <1>3 DEF Explained
<1> QED
  BY <1>1, <1>5, <1>6, <1>7, <1>8, AtRest

\* A workflow of the user's own.
LEMMA CreatesStep == ShippedInv /\ Flows!Creates => ShippedInv'
<1> SUFFICES ASSUME ShippedInv, Flows!Creates PROVE ShippedInv'
  OBVIOUS
<1>0. ShippedShape /\ MarkerOK /\ MineOK /\ RestOK
  BY DEF ShippedInv
<1>1. /\ UNCHANGED <<root, state, marker, sync, cut>> /\ sync.at = "up" /\ dir = Flows!None
      /\ dir' = [Flows!None EXCEPT !["definition"] = "user"] /\ mine' = [mine EXCEPT !["definition"] = "user"]
  BY DEF Flows!Creates
<1>2. dir \in [Held -> Content] /\ mine \in [Held -> Content] /\ \A f \in Held : dir[f] = "none"
  BY <1>0, <1>1, NoneRight DEF ShippedShape
<1>3. dir' = [dir EXCEPT !["definition"] = "user"]
  BY <1>1
<1>4. dir' \in [Held -> Content] /\ mine' \in [Held -> Content]
  BY <1>1, <1>2, <1>3 DEF Content
<1>5. ShippedShape'
  BY <1>0, <1>1, <1>4 DEF ShippedShape
<1>6. MarkerOK' /\ MineOK'
  BY <1>0, <1>1, <1>2, <1>3 DEF MarkerOK, MineOK
<1>7. \A f \in Held : Explained(f)'
  BY <1>1, <1>2, <1>3 DEF Explained
<1> QED
  BY <1>1, <1>5, <1>6, <1>7, AtRest

\* All steps, and none.
LEMMA StepShipped == Flows!ContentsApart /\ ShippedInv /\ [Flows!Next]_(Flows!vars) => ShippedInv'
<1> SUFFICES ASSUME Flows!ContentsApart, ShippedInv, [Flows!Next]_(Flows!vars) PROVE ShippedInv'
  OBVIOUS
<1>1. CASE UNCHANGED Flows!vars
  <2>1. ShippedShape' /\ MarkerOK' /\ MineOK'
    BY <1>1 DEF Flows!vars, ShippedInv, ShippedShape, MarkerOK, MineOK
  <2>2. Flows!FollowsPlugin' /\ Flows!RefusedForAReason'
    BY <1>1 DEF Flows!vars, ShippedInv, Flows!FollowsPlugin, Flows!RefusedForAReason, Flows!Claims
  <2>3. \A f \in Held : (Explained(f) => Explained(f)') /\ (CopiedOK(f) => CopiedOK(f)')
    BY <1>1, Untouched DEF Flows!vars
  <2>4. CopyOK' /\ RestOK'
    <3>1. Copied' = Copied
      BY <1>1 DEF Flows!vars, Copied
    <3>2. CopyOK'
      <4> SUFFICES ASSUME sync'.at = "copy" PROVE CopyOK'
        BY DEF CopyOK
      <4>1. /\ sync.owner \in Plugin /\ Flows!Claims(sync.owner) /\ marker.owner \in {"none", sync.owner}
            /\ \A f \in Copied : CopiedOK(f)
            /\ \A f \in Held \ Copied : sync.files[f] = "none" /\ Explained(f)
        BY <1>1 DEF Flows!vars, ShippedInv, CopyOK
      <4>2. Flows!Claims(sync.owner)' /\ sync' = sync /\ marker' = marker
        BY <1>1, <4>1 DEF Flows!vars, Flows!Claims
      <4>3. Copied \subseteq Held
        <5>1. sync.n \in 1 .. 3 /\ 1 .. sync.n - 1 \subseteq {1, 2}
          BY DEF ShippedInv, ShippedShape
        <5> QED
          BY <5>1 DEF Copied, Held
      <4> QED
        BY <2>3, <3>1, <4>1, <4>2, <4>3 DEF CopyOK
    <3>3. RestOK'
      BY <1>1, <2>3 DEF Flows!vars, ShippedInv, RestOK
    <3> QED
      BY <3>2, <3>3
  <2> QED
    BY <2>1, <2>2, <2>4 DEF ShippedInv
<1> QED
  BY <1>1, StartsStep, StartsWithoutStep, CopiesStep, MarksStep, CutOffStep, StageStep, ChangesStep, EditsStep,
     DeletesScriptStep, DeletesWorkflowStep, CreatesStep DEF Flows!Next

\* No start of the program overwrites or removes what a user has made of a
\* workflow; what he has not touched follows the plugin; and the program refuses
\* to start only because of a workflow two plugins claim, a user's own, or
\* leftovers of an installation or a deletion that was cut off
\* (src/extension_host/workflow_provisioning.py).
THEOREM ShippedWorkflowsAreKept ==
    Flows!ContentsApart => (Flows!Spec => [](Flows!TypeOK /\ Flows!EditsAreKept /\ Flows!FollowsPlugin /\ Flows!RefusedForAReason))
<1> SUFFICES ASSUME Flows!ContentsApart
             PROVE  Flows!Spec => [](Flows!TypeOK /\ Flows!EditsAreKept /\ Flows!FollowsPlugin /\ Flows!RefusedForAReason)
  OBVIOUS
<1>1. Flows!Init => ShippedInv
  BY InitShipped
<1>2. ShippedInv /\ [Flows!Next]_(Flows!vars) => ShippedInv'
  BY StepShipped
<1>3. ShippedInv => Flows!TypeOK /\ Flows!EditsAreKept /\ Flows!FollowsPlugin /\ Flows!RefusedForAReason
  <2> SUFFICES ASSUME ShippedInv PROVE Flows!TypeOK /\ Flows!EditsAreKept /\ Flows!FollowsPlugin /\ Flows!RefusedForAReason
    OBVIOUS
  <2>1. Flows!TypeOK
    BY DEF ShippedInv, ShippedShape, Flows!TypeOK, Content, Mark
  <2> QED
    BY <2>1 DEF ShippedInv, MineOK, Flows!EditsAreKept
<1> QED
  BY <1>1, <1>2, <1>3, PTL DEF Flows!Spec

-----------------------------------------------------------------------------
(* The layered files, for any bundles and entries whose sections are told apart,
   as long as nobody disables the extension.  What was told has to be in the
   files, in the layer that holds it, when the manager does not have it: a failed
   extension is not seen, and what a reload has read is about to replace what the
   manager holds. *)

\* What the last caller was told.
Tolds == {"any", "mine", "gone", "was mine", "was gone"}

\* What the override file may say of an entry.
OverrideValues == {"unset", "deleted", "plain", "mine"}

\* The entries a manager holds.
Helds == [Library!Items -> Library!Values]

\* The files.
Disks == [base : Helds, over : [Library!Items -> OverrideValues], bundles : SUBSET Own, declared : SUBSET (Shipments \cup Offered)]

\* What an extension declares is not among the user's own entries.
NoneLayered(d) == \A i \in Library!Layered(d) \cap Library!Items : d.base[i] = "none"

\* The types.
LibraryShape ==
    /\ kind \in Kinds
    /\ stage \in {"starting", "on", "off"}
    /\ memory \in Helds
    /\ disk \in Disks
    /\ NoneLayered(disk)
    /\ index \in SUBSET Library!Ids
    /\ load = <<>> \/ load[1] \in Helds
    /\ stage = "starting" => load = <<>>
    /\ choice \in [Library!Items -> Tolds]

\* What is held agrees with what a caller was told.
Holds(value, told) == (told = "mine" => value = "mine") /\ (told = "gone" => value = "none")

\* The same of a file, where what an extension declares is in the overrides.
DiskHolds(d, i, told) ==
    IF i \in Library!Layered(d)
    THEN (told = "mine" => d.over[i] = "mine") /\ (told = "gone" => d.over[i] = "deleted")
    ELSE Holds(d.base[i], told)
\* An entry the extension ships is in the manager's hands only while it runs.
Seen(i, d, active) == i \notin Library!Layered(d) \/ active

\* Only an entry can be told to be gone; and what was told of something an
\* extension may ship was told while it shipped it, which it does since.
Told(i, d, told) ==
    /\ told \in Tolds
    /\ told = "gone" => i \in Library!Entries
    /\ told \in {"mine", "gone"} /\ i \in Shipments \cup Offered => i \in Library!Layered(d)

\* What was told is in the files, in what the manager holds if it can be seen, and
\* in what a reload has read and is about to store.
Kept(i) ==
    /\ Told(i, disk, choice[i])
    /\ DiskHolds(disk, i, choice[i])
    /\ Seen(i, disk, Library!Running) => Holds(memory[i], choice[i])
    /\ load # <<>> /\ Seen(i, disk, Library!Running) => Holds(load[1][i], choice[i])

\* The entries the property is about: the rule manager removes those of bundles.
Lasting == IF kind = "rule" THEN Library!Entries ELSE Library!Items

\* What every step keeps.
LibraryInv == LibraryShape /\ \A i \in Lasting : Kept(i)

\* These are entries.
LEMMA LastingItems == Lasting \subseteq Library!Items /\ Library!Entries \subseteq Library!Items
  BY DEF Lasting, Library!Items

\* Reading the layers finds what was told, in the layer it was written to.
LEMMA ResolvedRight ==
    ASSUME NEW d \in Disks, NEW active \in BOOLEAN
    PROVE  /\ Library!Resolved(d, active) \in Helds
           /\ \A i \in Library!Items, told \in Tolds : DiskHolds(d, i, told) /\ Seen(i, d, active) => Holds(Library!Resolved(d, active)[i], told)
<1>1. d.base \in Helds /\ d.over \in [Library!Items -> OverrideValues]
  BY DEF Disks
<1>2. ASSUME NEW i \in Library!Items
      PROVE  /\ Library!Resolved(d, active)[i] \in Library!Values
             /\ i \notin Library!Layered(d) => Library!Resolved(d, active)[i] = d.base[i]
             /\ i \in Library!Layered(d) /\ active /\ d.over[i] = "mine" => Library!Resolved(d, active)[i] = "mine"
             /\ i \in Library!Layered(d) /\ active /\ d.over[i] = "deleted" => Library!Resolved(d, active)[i] = "none"
  <2>1. d.base[i] \in Library!Values /\ d.over[i] \in OverrideValues
    BY <1>1 DEF Helds
  <2>2. Library!Resolved(d, active)[i] = IF i \notin Library!Layered(d) THEN d.base[i]
                                  ELSE IF active THEN Library!Overridden(Library!Sanitized(d)[i]) ELSE "none"
    BY DEF Library!Resolved
  <2>3. i \in Library!Layered(d) => Library!Sanitized(d)[i] = d.over[i]
    BY <1>1 DEF Library!Sanitized
  <2>4. CASE i \notin Library!Layered(d)
    BY <2>1, <2>2, <2>4
  <2>5. CASE i \in Library!Layered(d) /\ ~active
    BY <2>2, <2>5 DEF Library!Values
  <2>6. CASE i \in Library!Layered(d) /\ active
    BY <2>1, <2>2, <2>3, <2>6 DEF Library!Values, OverrideValues, Library!Overridden
  <2> QED
    BY <2>4, <2>5, <2>6
<1>3. Library!Resolved(d, active) \in Helds
  BY <1>2 DEF Library!Resolved, Helds
<1>4. ASSUME NEW i \in Library!Items, NEW told \in Tolds, DiskHolds(d, i, told), Seen(i, d, active)
      PROVE  Holds(Library!Resolved(d, active)[i], told)
  BY <1>2, <1>4 DEF DiskHolds, Seen, Holds
<1> QED
  BY <1>3, <1>4

\* Saving what is held keeps what was told, and keeps the overrides of an
\* extension that does not run.
LEMMA SavedRight ==
    ASSUME NEW d \in Disks, NEW held \in Helds, NEW active \in BOOLEAN
    PROVE  /\ Library!Saved(d, held, active) \in Disks
           /\ Library!Layered(Library!Saved(d, held, active)) = Library!Layered(d)
           /\ NoneLayered(Library!Saved(d, held, active))
           /\ \A i \in Library!Items, told \in Tolds : DiskHolds(d, i, told) /\ (Seen(i, d, active) => Holds(held[i], told))
                                        => DiskHolds(Library!Saved(d, held, active), i, told)
           /\ \A i \in Library!Items, told \in Tolds : Seen(i, d, active) /\ Holds(held[i], told)
                                        => DiskHolds(Library!Saved(d, held, active), i, told)
<1>1. d.base \in Helds /\ d.over \in [Library!Items -> OverrideValues]
  BY DEF Disks
<1>2. PICK base, over :
          /\ base = [i \in Library!Items |-> IF i \in Library!Layered(d) THEN "none" ELSE held[i]]
          /\ over = [i \in Library!Items |-> IF active /\ i \in Library!Layered(d) THEN Library!Override(held[i]) ELSE Library!Sanitized(d)[i]]
  OBVIOUS
<1>3. Library!Saved(d, held, active) = [d EXCEPT !.base = base, !.over = over]
  BY <1>2 DEF Library!Saved
<1>4. ASSUME NEW i \in Library!Items
      PROVE  /\ base[i] \in Library!Values /\ over[i] \in OverrideValues
             /\ i \notin Library!Layered(d) => base[i] = held[i]
             /\ i \in Library!Layered(d) => base[i] = "none"
             /\ i \in Library!Layered(d) /\ ~active => over[i] = d.over[i]
             /\ i \in Library!Layered(d) /\ active /\ held[i] = "mine" => over[i] = "mine"
             /\ i \in Library!Layered(d) /\ active /\ held[i] = "none" => over[i] = "deleted"
  <2>1. held[i] \in Library!Values /\ d.over[i] \in OverrideValues
    BY <1>1 DEF Helds
  <2>2. base[i] = (IF i \in Library!Layered(d) THEN "none" ELSE held[i])
    BY <1>2
  <2>3. over[i] = IF active /\ i \in Library!Layered(d) THEN Library!Override(held[i]) ELSE Library!Sanitized(d)[i]
    BY <1>2
  <2>4. Library!Sanitized(d)[i] = IF i \in Library!Layered(d) THEN d.over[i] ELSE "unset"
    BY <1>1 DEF Library!Sanitized
  <2>5. Library!Override(held[i]) \in OverrideValues /\ (held[i] = "mine" => Library!Override(held[i]) = "mine")
        /\ (held[i] = "none" => Library!Override(held[i]) = "deleted")
    BY <2>1 DEF Library!Override, Library!Values, OverrideValues
  <2>6. "none" \in Library!Values /\ "unset" \in OverrideValues
    BY DEF Library!Values, OverrideValues
  <2> QED
    BY <2>1, <2>2, <2>3, <2>4, <2>5, <2>6
<1>5. base \in Helds /\ over \in [Library!Items -> OverrideValues]
  BY <1>2, <1>4 DEF Helds
<1>6. /\ Library!Saved(d, held, active) \in Disks
      /\ Library!Saved(d, held, active).base = base /\ Library!Saved(d, held, active).over = over
      /\ Library!Saved(d, held, active).declared = d.declared
  BY <1>3, <1>5 DEF Disks
<1>7. Library!Layered(Library!Saved(d, held, active)) = Library!Layered(d)
  BY <1>6 DEF Library!Layered
<1>8. NoneLayered(Library!Saved(d, held, active))
  BY <1>4, <1>6, <1>7 DEF NoneLayered
<1>9. ASSUME NEW i \in Library!Items, NEW told \in Tolds, DiskHolds(d, i, told), Seen(i, d, active) => Holds(held[i], told)
      PROVE  DiskHolds(Library!Saved(d, held, active), i, told)
  BY <1>4, <1>6, <1>7, <1>9 DEF DiskHolds, Seen, Holds
<1>10. ASSUME NEW i \in Library!Items, NEW told \in Tolds, Seen(i, d, active), Holds(held[i], told)
       PROVE  DiskHolds(Library!Saved(d, held, active), i, told)
  BY <1>4, <1>6, <1>7, <1>10 DEF DiskHolds, Seen, Holds
<1> QED
  BY <1>6, <1>7, <1>8, <1>9, <1>10

\* Bringing entries in line with bundles touches bundles only, and what skills have stays.
LEMMA SyncRight ==
    ASSUME Library!NamedApart, NEW held \in Helds, NEW ids \in SUBSET Library!Ids
    PROVE  /\ Library!SkillSync(held, ids) \in Helds
           /\ Library!RuleSync(held, ids) \in Helds
           /\ \A i \in Library!Items, told \in Tolds : Holds(held[i], told) /\ (told = "gone" => i \in Library!Entries)
                                        => Holds(Library!SkillSync(held, ids)[i], told)
           /\ \A i \in Library!Entries : Library!RuleSync(held, ids)[i] = held[i]
<1>1. \A i \in Library!Items : held[i] \in Library!Values
  BY DEF Helds
<1>2. "plain" \in Library!Values /\ "none" \in Library!Values
  BY DEF Library!Values
<1>3. Library!SkillSync(held, ids) \in Helds
  BY <1>1, <1>2 DEF Library!SkillSync, Helds
<1>4. Library!RuleSync(held, ids) \in Helds
  BY <1>1, <1>2 DEF Library!RuleSync, Helds
<1>5. ASSUME NEW i \in Library!Items, NEW told \in Tolds, Holds(held[i], told), told = "gone" => i \in Library!Entries
      PROVE  Holds(Library!SkillSync(held, ids)[i], told)
  <2>1. Library!SkillSync(held, ids)[i] = IF i \in ids /\ held[i] = "none" THEN "plain" ELSE held[i]
    BY DEF Library!SkillSync
  <2>2. i \in Library!Entries => i \notin ids
    BY DEF Library!NamedApart
  <2> QED
    BY <1>5, <2>1, <2>2 DEF Holds
<1>6. ASSUME NEW i \in Library!Entries PROVE Library!RuleSync(held, ids)[i] = held[i]
  <2>1. i \in Library!Items /\ i \notin ids /\ i \notin Library!Ids
    BY LastingItems DEF Library!NamedApart
  <2> QED
    BY <2>1 DEF Library!RuleSync
<1> QED
  BY <1>3, <1>4, <1>5, <1>6

\* The second half of a reload: what was read is stored and saved.
LEMMA LoadedRight ==
    ASSUME Library!NamedApart, NEW read \in Helds, NEW d \in Disks, NoneLayered(d), NEW active \in BOOLEAN,
           index \in SUBSET Library!Ids, Library!Loaded(read, d, active)
    PROVE  /\ memory' \in Helds /\ disk' \in Disks /\ index' \in SUBSET Library!Ids
           /\ NoneLayered(disk') /\ Library!Layered(disk') = Library!Layered(d)
           /\ \A i \in Lasting, told \in Tolds :
                 /\ told = "gone" => i \in Library!Entries
                 /\ DiskHolds(d, i, told)
                 /\ Seen(i, d, active) => Holds(read[i], told)
                 => DiskHolds(disk', i, told) /\ (Seen(i, d, active) => Holds(memory'[i], told))
<1>1. Library!Found(d, active) \in SUBSET Library!Ids
  BY DEF Library!Found, Library!Ids, Disks
<1>2. CASE kind = "skill"
  <2>1. memory' = Library!SkillSync(read, Library!Found(d, active)) /\ index' = Library!Found(d, active) /\ disk' = Library!Saved(d, memory', active)
    BY <1>2 DEF Library!Loaded, Library!SkillsLoaded
  <2>2. memory' \in Helds
    BY <1>1, <2>1, SyncRight
  <2>3. disk' \in Disks /\ NoneLayered(disk') /\ Library!Layered(disk') = Library!Layered(d)
    BY <2>1, <2>2, SavedRight
  <2>4. ASSUME NEW i \in Lasting, NEW told \in Tolds, told = "gone" => i \in Library!Entries, DiskHolds(d, i, told),
               Seen(i, d, active) => Holds(read[i], told)
        PROVE  DiskHolds(disk', i, told) /\ (Seen(i, d, active) => Holds(memory'[i], told))
    <3>1. i \in Library!Items
      BY LastingItems
    <3>2. Seen(i, d, active) => Holds(memory'[i], told)
      BY <1>1, <2>1, <2>4, <3>1, SyncRight
    <3>3. DiskHolds(disk', i, told)
      BY <2>1, <2>2, <2>4, <3>1, <3>2, SavedRight
    <3> QED
      BY <3>2, <3>3
  <2> QED
    BY <1>1, <2>1, <2>2, <2>3, <2>4
<1>3. CASE kind = "rule"
  <2>1. memory' = Library!RuleSync(read, Library!Found(d, active)) /\ index' = Library!Found(d, active) /\ disk' = Library!Saved(d, memory', active)
    BY <1>3 DEF Library!Loaded, Library!RulesLoaded
  <2>2. memory' \in Helds
    BY <1>1, <2>1, SyncRight
  <2>3. disk' \in Disks /\ NoneLayered(disk') /\ Library!Layered(disk') = Library!Layered(d)
    BY <2>1, <2>2, SavedRight
  <2>4. ASSUME NEW i \in Lasting, NEW told \in Tolds, DiskHolds(d, i, told), Seen(i, d, active) => Holds(read[i], told)
        PROVE  DiskHolds(disk', i, told) /\ (Seen(i, d, active) => Holds(memory'[i], told))
    <3>1. i \in Library!Items /\ i \in Library!Entries
      BY <1>3, LastingItems DEF Lasting
    <3>2. Seen(i, d, active) => Holds(memory'[i], told)
      BY <1>1, <2>1, <2>4, <3>1, SyncRight
    <3>3. DiskHolds(disk', i, told)
      BY <2>1, <2>2, <2>4, <3>1, <3>2, SavedRight
    <3> QED
      BY <3>2, <3>3
  <2> QED
    BY <1>1, <2>1, <2>2, <2>3, <2>4
<1>4. CASE kind \notin {"skill", "rule"}
  <2>1. memory' = read /\ disk' = d /\ index' = index
    BY <1>4 DEF Library!Loaded, Library!AgentsLoaded
  <2> QED
    BY <2>1
<1> QED
  BY <1>2, <1>3, <1>4

\* A reload of what the files say, with nothing said meanwhile.
LEMMA ReloadedRight ==
    ASSUME Library!NamedApart, NEW d \in Disks, NoneLayered(d), NEW active \in BOOLEAN,
           index \in SUBSET Library!Ids, Library!Reloaded(d, active)
    PROVE  /\ memory' \in Helds /\ disk' \in Disks /\ index' \in SUBSET Library!Ids
           /\ NoneLayered(disk') /\ Library!Layered(disk') = Library!Layered(d)
           /\ \A i \in Lasting, told \in Tolds :
                 (told = "gone" => i \in Library!Entries) /\ DiskHolds(d, i, told)
                 => DiskHolds(disk', i, told) /\ (Seen(i, d, active) => Holds(memory'[i], told))
<1>1. PICK read : read = Library!Resolved(d, active)
  OBVIOUS
<1>2. read \in Helds /\ Library!Loaded(read, d, active)
  BY <1>1, ResolvedRight DEF Library!Reloaded
<1>3. \A i \in Library!Items, told \in Tolds : DiskHolds(d, i, told) /\ Seen(i, d, active) => Holds(read[i], told)
  BY <1>1, ResolvedRight
<1>4. /\ memory' \in Helds /\ disk' \in Disks /\ index' \in SUBSET Library!Ids
      /\ NoneLayered(disk') /\ Library!Layered(disk') = Library!Layered(d)
      /\ \A i \in Lasting, told \in Tolds :
            /\ told = "gone" => i \in Library!Entries
            /\ DiskHolds(d, i, told)
            /\ Seen(i, d, active) => Holds(read[i], told)
            => DiskHolds(disk', i, told) /\ (Seen(i, d, active) => Holds(memory'[i], told))
  BY <1>2, LoadedRight
<1> QED
  BY <1>3, <1>4, LastingItems

\* Nobody was told anything yet.
LEMMA InitLibrary == Library!NamedApart /\ Library!Init => LibraryInv
<1> SUFFICES ASSUME Library!NamedApart, Library!Init PROVE LibraryInv
  OBVIOUS
<1> DEFINE bare == [i \in Library!Items |-> "none"]
<1>1. bare \in Helds /\ "any" \in Tolds
  BY DEF Helds, Library!Values, Tolds
<1>2. index \in SUBSET Library!Ids
  BY DEF Library!Init, Library!Ids, Library!NamedApart
<1>3. memory = Library!SkillSync(bare, index) /\ memory \in Helds
  BY <1>1, <1>2, SyncRight DEF Library!Init
<1>4. disk = [base |-> memory, over |-> [i \in Library!Items |-> "unset"], bundles |-> First, declared |-> Shipments \cup Offered]
  BY DEF Library!Init
<1>5. disk \in Disks
  BY <1>3, <1>4 DEF Disks, OverrideValues, Library!NamedApart
<1>6. ASSUME NEW i \in Library!Layered(disk) \cap Library!Items PROVE disk.base[i] = "none"
  <2>1. i \in Shipments \cup Offered
    BY DEF Library!Layered
  <2>2. i \notin index
    BY <2>1 DEF Library!Init, Library!NamedApart, Library!Ids, Library!Entries
  <2>3. memory[i] = "none"
    BY <1>3, <2>2 DEF Library!SkillSync
  <2> QED
    BY <1>4, <2>3
<1>7. /\ kind \in Kinds /\ stage = "starting" /\ load = <<>>
      /\ choice \in [Library!Items -> Tolds] /\ \A i \in Library!Items : choice[i] = "any"
  BY DEF Library!Init, Tolds
<1>8. LibraryShape
  BY <1>2, <1>3, <1>5, <1>6, <1>7 DEF LibraryShape, NoneLayered
<1>9. ASSUME NEW i \in Lasting PROVE Kept(i)
  <2>1. choice[i] = "any"
    BY <1>7, LastingItems
  <2> QED
    BY <2>1 DEF Kept, Told, DiskHolds, Holds, Tolds
<1> QED
  BY <1>8, <1>9 DEF LibraryInv

\* A step that changes no kind: the invariant, spelled out for the next state.
LEMMA LibraryGoesOn ==
    ASSUME UNCHANGED kind, kind \in Kinds, stage' \in {"starting", "on", "off"}, memory' \in Helds, disk' \in Disks,
           NoneLayered(disk'), index' \in SUBSET Library!Ids, load' = <<>> \/ load'[1] \in Helds,
           stage' = "starting" => load' = <<>>, choice' \in [Library!Items -> Tolds],
           \A i \in Lasting :
              /\ Told(i, disk', choice'[i])
              /\ DiskHolds(disk', i, choice'[i])
              /\ Seen(i, disk', stage' = "on") => Holds(memory'[i], choice'[i])
              /\ load' # <<>> /\ Seen(i, disk', stage' = "on") => Holds(load'[1][i], choice'[i])
    PROVE  LibraryInv'
<1>1. Library!Items' = Library!Items /\ Lasting' = Lasting /\ Helds' = Helds
  BY DEF Library!Items, Lasting, Helds
<1>2. Disks' = Disks
  BY <1>1 DEF Disks
<1>3. NoneLayered(disk)'
  BY <1>1 DEF NoneLayered
<1>4. LibraryShape'
  BY <1>1, <1>2, <1>3 DEF LibraryShape
<1>5. \A i \in Lasting : Kept(i)'
  BY DEF Kept, Told, DiskHolds, Holds, Seen, Library!Running
<1> QED
  BY <1>1, <1>4, <1>5 DEF LibraryInv

\* What nothing certain was said of, or only before a start without the
\* extension, is as it should be.
LEMMA AnythingGoes ==
    ASSUME NEW d, NEW i, NEW value, NEW told \in Tolds \ {"mine", "gone"}
    PROVE  Told(i, d, told) /\ DiskHolds(d, i, told) /\ Holds(value, told)
  BY DEF Told, DiskHolds, Holds, Tolds

\* Extensions start, and everything is read again.
LEMMA StartUpStep == Library!NamedApart /\ LibraryInv /\ Library!StartUp => LibraryInv'
<1> SUFFICES ASSUME Library!NamedApart, LibraryInv, Library!StartUp PROVE LibraryInv'
  OBVIOUS
<1>0. LibraryShape /\ \A i \in Lasting : Kept(i)
  BY DEF LibraryInv
<1>1. stage' \in {"on", "off"} /\ Library!Reloaded(disk, stage' = "on") /\ UNCHANGED <<kind, load, choice>> /\ stage = "starting"
  BY DEF Library!StartUp
<1>2. PICK active \in BOOLEAN : active = (stage' = "on")
  OBVIOUS
<1>3. /\ memory' \in Helds /\ disk' \in Disks /\ index' \in SUBSET Library!Ids
      /\ NoneLayered(disk') /\ Library!Layered(disk') = Library!Layered(disk)
      /\ \A i \in Lasting, told \in Tolds :
            (told = "gone" => i \in Library!Entries) /\ DiskHolds(disk, i, told)
            => DiskHolds(disk', i, told) /\ (Seen(i, disk, active) => Holds(memory'[i], told))
  BY <1>0, <1>1, <1>2, ReloadedRight DEF LibraryShape
<1>4. load' = <<>>
  BY <1>0, <1>1 DEF LibraryShape
<1>5. ASSUME NEW i \in Lasting
      PROVE  /\ Told(i, disk', choice'[i])
             /\ DiskHolds(disk', i, choice'[i])
             /\ Seen(i, disk', stage' = "on") => Holds(memory'[i], choice'[i])
  <2>1. Told(i, disk, choice[i]) /\ DiskHolds(disk, i, choice[i]) /\ choice' = choice
    BY <1>0, <1>1 DEF Kept
  <2>2. DiskHolds(disk', i, choice[i]) /\ (Seen(i, disk, active) => Holds(memory'[i], choice[i]))
    BY <1>3, <2>1 DEF Told
  <2> QED
    BY <1>2, <1>3, <2>1, <2>2 DEF Told, Seen
<1>6. choice' \in [Library!Items -> Tolds] /\ kind \in Kinds
  BY <1>0, <1>1 DEF LibraryShape, Tolds
<1> QED
  BY <1>1, <1>3, <1>4, <1>5, <1>6, LibraryGoesOn

\* What the extension no longer declares, or does not declare at this start, is not
\* certain any more; all else is in the files as it was.
LEMMA RestartStep == Library!NamedApart /\ LibraryInv /\ Library!Restart => LibraryInv'
<1> SUFFICES ASSUME Library!NamedApart, LibraryInv, Library!Restart PROVE LibraryInv'
  OBVIOUS
<1>0. LibraryShape /\ \A i \in Lasting : Kept(i)
  BY DEF LibraryInv
<1>1. \A told \in Tolds : Library!Missed(told) \in Tolds \ {"mine", "gone"}
  BY DEF Library!Missed, Tolds
<1>2. PICK declared \in {Shipments \cup Offered, {}}, registered \in BOOLEAN :
         /\ Library!Boot(declared, registered) /\ Library!Accepted(declared)
         /\ choice' \in [Library!Items -> Tolds]
         /\ \A i \in Library!Items :
               /\ i \notin (Shipments \cup Offered) \ declared => choice'[i] = choice[i]
               /\ i \in (Shipments \cup Offered) \ declared => choice'[i] \in Tolds \ {"mine", "gone"}
  <2>1. CASE \E declared \in {Shipments \cup Offered, {}} :
               /\ Library!Accepted(declared)
               /\ Library!Boot(declared, TRUE)
               /\ choice' = [i \in Library!Items |-> IF i \in (Shipments \cup Offered) \ declared THEN "any" ELSE choice[i]]
    <3>1. PICK declared \in {Shipments \cup Offered, {}} :
               /\ Library!Accepted(declared)
               /\ Library!Boot(declared, TRUE)
               /\ choice' = [i \in Library!Items |-> IF i \in (Shipments \cup Offered) \ declared THEN "any" ELSE choice[i]]
      BY <2>1
    <3>2. choice' \in [Library!Items -> Tolds]
      BY <1>0, <3>1 DEF LibraryShape, Tolds
    <3>3. \A i \in Library!Items :
               /\ i \notin (Shipments \cup Offered) \ declared => choice'[i] = choice[i]
               /\ i \in (Shipments \cup Offered) \ declared => choice'[i] \in Tolds \ {"mine", "gone"}
      BY <3>1 DEF Tolds
    <3> QED
      BY <3>1, <3>2, <3>3
  <2>2. CASE /\ Library!Boot({}, FALSE)
             /\ choice' = [i \in Library!Items |-> IF i \in Shipments \cup Offered THEN Library!Missed(choice[i]) ELSE choice[i]]
    <3>1. choice' \in [Library!Items -> Tolds]
      BY <1>0, <1>1, <2>2 DEF LibraryShape
    <3>2. \A i \in Library!Items :
               /\ i \notin Shipments \cup Offered => choice'[i] = choice[i]
               /\ i \in Shipments \cup Offered => choice'[i] \in Tolds \ {"mine", "gone"}
      BY <1>0, <1>1, <2>2 DEF LibraryShape
    <3>3. Library!Accepted({})
      BY DEF Library!Accepted
    <3> QED
      BY <2>2, <3>1, <3>2, <3>3
  <2> QED
    BY <2>1, <2>2 DEF Library!Restart
<1>3. UNCHANGED kind /\ load' = <<>>
  BY DEF Library!Restart
<1>4. PICK d : d = [disk EXCEPT !.declared = declared]
  OBVIOUS
<1>5. Library!Reloaded(d, FALSE) /\ stage' \in {"starting", "off"}
  BY <1>2, <1>4 DEF Library!Boot
<1>6. disk \in Disks
  BY <1>0 DEF LibraryShape
<1>7. d \in Disks /\ d.base = disk.base /\ d.over = disk.over /\ d.declared = declared
  BY <1>4, <1>6 DEF Disks
<1>8. NoneLayered(d)
  BY <1>2, <1>7 DEF Library!Accepted, NoneLayered, Library!Layered
<1>9. /\ memory' \in Helds /\ disk' \in Disks /\ index' \in SUBSET Library!Ids
      /\ NoneLayered(disk') /\ Library!Layered(disk') = Library!Layered(d)
      /\ \A i \in Lasting, told \in Tolds :
            (told = "gone" => i \in Library!Entries) /\ DiskHolds(d, i, told)
            => DiskHolds(disk', i, told) /\ (Seen(i, d, FALSE) => Holds(memory'[i], told))
  BY <1>0, <1>5, <1>7, <1>8, ReloadedRight DEF LibraryShape
<1>10. ASSUME NEW i \in Lasting
       PROVE  /\ Told(i, disk', choice'[i])
              /\ DiskHolds(disk', i, choice'[i])
              /\ Seen(i, disk', FALSE) => Holds(memory'[i], choice'[i])
  <2>1. i \in Library!Items
    BY LastingItems
  <2>2. CASE choice'[i] \notin {"mine", "gone"}
    BY <1>2, <2>1, <2>2, AnythingGoes
  <2>3. CASE choice'[i] \in {"mine", "gone"}
    <3>1. choice'[i] = choice[i] /\ i \notin (Shipments \cup Offered) \ declared
      BY <1>2, <2>1, <2>3
    <3>2. i \in Shipments \cup Offered => i \in Library!Layered(disk')
      BY <1>7, <1>9, <3>1 DEF Library!Layered
    <3>3. Told(i, disk, choice[i]) /\ DiskHolds(disk, i, choice[i])
      BY <1>0 DEF Kept
    <3>4. i \in Library!Layered(disk) <=> i \in Library!Layered(d)
      BY <1>9, <2>3, <3>1, <3>2, <3>3 DEF Told, Library!Layered
    <3>5. choice[i] \in Tolds /\ (choice[i] = "gone" => i \in Library!Entries) /\ DiskHolds(d, i, choice[i])
      BY <1>7, <3>3, <3>4 DEF Told, DiskHolds
    <3>6. DiskHolds(disk', i, choice[i]) /\ (Seen(i, d, FALSE) => Holds(memory'[i], choice[i]))
      BY <1>9, <3>5
    <3> QED
      BY <1>9, <3>1, <3>2, <3>5, <3>6 DEF Told, Seen
  <2> QED
    BY <2>2, <2>3
<1>11. kind \in Kinds
  BY <1>0 DEF LibraryShape
<1> QED
  BY <1>2, <1>3, <1>5, <1>9, <1>10, <1>11, LibraryGoesOn

\* The extension fails: its entries go, the overrides of the user stay.
LEMMA FailsStep == Library!NamedApart /\ LibraryInv /\ Library!ExtensionFails => LibraryInv'
<1> SUFFICES ASSUME Library!NamedApart, LibraryInv, Library!ExtensionFails PROVE LibraryInv'
  OBVIOUS
<1>0. LibraryShape /\ \A i \in Lasting : Kept(i)
  BY DEF LibraryInv
<1>1. Library!Running /\ stage' = "off" /\ Library!Reloaded(disk, FALSE) /\ UNCHANGED <<kind, load, choice>>
  BY DEF Library!ExtensionFails
<1>2. /\ memory' \in Helds /\ disk' \in Disks /\ index' \in SUBSET Library!Ids
      /\ NoneLayered(disk') /\ Library!Layered(disk') = Library!Layered(disk)
      /\ \A i \in Lasting, told \in Tolds :
            (told = "gone" => i \in Library!Entries) /\ DiskHolds(disk, i, told)
            => DiskHolds(disk', i, told) /\ (Seen(i, disk, FALSE) => Holds(memory'[i], told))
  BY <1>0, <1>1, ReloadedRight DEF LibraryShape
<1>3. ASSUME NEW i \in Lasting
      PROVE  /\ Told(i, disk', choice'[i])
             /\ DiskHolds(disk', i, choice'[i])
             /\ Seen(i, disk', FALSE) => Holds(memory'[i], choice'[i])
             /\ load' # <<>> /\ Seen(i, disk', FALSE) => Holds(load'[1][i], choice'[i])
  <2>1. /\ Told(i, disk, choice[i]) /\ DiskHolds(disk, i, choice[i]) /\ choice' = choice
        /\ load # <<>> /\ Seen(i, disk, Library!Running) => Holds(load[1][i], choice[i])
    BY <1>0, <1>1 DEF Kept
  <2>2. DiskHolds(disk', i, choice[i]) /\ (Seen(i, disk, FALSE) => Holds(memory'[i], choice[i]))
    BY <1>2, <2>1 DEF Told
  <2> QED
    BY <1>1, <1>2, <2>1, <2>2 DEF Told, Seen
<1>4. /\ choice' \in [Library!Items -> Tolds] /\ kind \in Kinds
      /\ load' = <<>> \/ load'[1] \in Helds
  BY <1>0, <1>1 DEF LibraryShape
<1> QED
  BY <1>1, <1>2, <1>3, <1>4, LibraryGoesOn

\* A reload reads the files.
LEMMA BeginStep == Library!NamedApart /\ LibraryInv /\ Library!BeginReload => LibraryInv'
<1> SUFFICES ASSUME Library!NamedApart, LibraryInv, Library!BeginReload PROVE LibraryInv'
  OBVIOUS
<1>0. LibraryShape /\ \A i \in Lasting : Kept(i)
  BY DEF LibraryInv
<1>1. /\ load' = <<Library!Resolved(disk, Library!Running)>> /\ stage # "starting"
      /\ UNCHANGED <<kind, stage, disk, memory, index, choice>>
  BY DEF Library!BeginReload
<1>2. Library!Running \in BOOLEAN
  BY DEF Library!Running
<1>3. /\ load'[1] \in Helds
      /\ \A i \in Library!Items, told \in Tolds : DiskHolds(disk, i, told) /\ Seen(i, disk, Library!Running) => Holds(load'[1][i], told)
  BY <1>0, <1>1, <1>2, ResolvedRight DEF LibraryShape
<1>4. ASSUME NEW i \in Lasting
      PROVE  /\ Told(i, disk', choice'[i])
             /\ DiskHolds(disk', i, choice'[i])
             /\ Seen(i, disk', stage' = "on") => Holds(memory'[i], choice'[i])
             /\ load' # <<>> /\ Seen(i, disk', stage' = "on") => Holds(load'[1][i], choice'[i])
  BY <1>0, <1>1, <1>3, LastingItems DEF Kept, Library!Running, Told
<1> QED
  BY <1>0, <1>1, <1>3, <1>4, LibraryGoesOn DEF LibraryShape

\* A reload stores what it has read some time ago: nobody was told anything
\* certain since.
LEMMA EndStep == Library!NamedApart /\ LibraryInv /\ Library!EndReload => LibraryInv'
<1> SUFFICES ASSUME Library!NamedApart, LibraryInv, Library!EndReload PROVE LibraryInv'
  OBVIOUS
<1>0. LibraryShape /\ \A i \in Lasting : Kept(i)
  BY DEF LibraryInv
<1>1. load # <<>> /\ Library!Loaded(load[1], disk, Library!Running) /\ load' = <<>> /\ UNCHANGED <<kind, stage, choice>>
  BY DEF Library!EndReload
<1>2. PICK active \in BOOLEAN : active = Library!Running
  BY DEF Library!Running
<1>3. /\ memory' \in Helds /\ disk' \in Disks /\ index' \in SUBSET Library!Ids
      /\ NoneLayered(disk') /\ Library!Layered(disk') = Library!Layered(disk)
      /\ \A i \in Lasting, told \in Tolds :
            /\ told = "gone" => i \in Library!Entries
            /\ DiskHolds(disk, i, told)
            /\ Seen(i, disk, active) => Holds(load[1][i], told)
            => DiskHolds(disk', i, told) /\ (Seen(i, disk, active) => Holds(memory'[i], told))
  BY <1>0, <1>1, <1>2, LoadedRight DEF LibraryShape
<1>4. ASSUME NEW i \in Lasting
      PROVE  /\ Told(i, disk', choice'[i])
             /\ DiskHolds(disk', i, choice'[i])
             /\ Seen(i, disk', stage' = "on") => Holds(memory'[i], choice'[i])
  <2>1. /\ Told(i, disk, choice[i]) /\ DiskHolds(disk, i, choice[i]) /\ choice' = choice
        /\ Seen(i, disk, active) => Holds(load[1][i], choice[i])
    BY <1>0, <1>1, <1>2 DEF Kept
  <2>2. DiskHolds(disk', i, choice[i]) /\ (Seen(i, disk, active) => Holds(memory'[i], choice[i]))
    BY <1>3, <2>1 DEF Told
  <2> QED
    BY <1>1, <1>2, <1>3, <2>1, <2>2 DEF Told, Seen, Library!Running
<1> QED
  BY <1>0, <1>1, <1>3, <1>4, LibraryGoesOn DEF LibraryShape

\* A call: what it says nothing certain of is free, the rest is as it was.
LEMMA CallRight ==
    ASSUME LibraryInv, UNCHANGED <<kind, stage, load>>, memory' \in Helds, disk' \in Disks, NoneLayered(disk'),
           Library!Layered(disk') = Library!Layered(disk), index' \in SUBSET Library!Ids, choice' \in [Library!Items -> Tolds],
           \A k \in Lasting :
              \/ choice'[k] = "any"
              \/ /\ choice'[k] = choice[k]
                 /\ DiskHolds(disk', k, choice[k])
                 /\ Seen(k, disk, Library!Running) => Holds(memory'[k], choice[k])
    PROVE  LibraryInv'
<1>0. LibraryShape /\ \A i \in Lasting : Kept(i)
  BY DEF LibraryInv
<1>1. ASSUME NEW k \in Lasting
      PROVE  /\ Told(k, disk', choice'[k])
             /\ DiskHolds(disk', k, choice'[k])
             /\ Seen(k, disk', stage' = "on") => Holds(memory'[k], choice'[k])
             /\ load' # <<>> /\ Seen(k, disk', stage' = "on") => Holds(load'[1][k], choice'[k])
  <2>1. CASE choice'[k] = "any"
    BY <2>1, AnythingGoes DEF Tolds
  <2>2. CASE choice'[k] # "any"
    <3>1. /\ choice'[k] = choice[k]
          /\ DiskHolds(disk', k, choice[k])
          /\ Seen(k, disk, Library!Running) => Holds(memory'[k], choice[k])
      BY <2>2
    <3>2. Told(k, disk, choice[k]) /\ (load # <<>> /\ Seen(k, disk, Library!Running) => Holds(load[1][k], choice[k]))
      BY <1>0 DEF Kept
    <3>3. Told(k, disk', choice[k]) /\ (Seen(k, disk', stage' = "on") <=> Seen(k, disk, Library!Running))
      BY <3>2 DEF Told, Seen, Library!Running
    <3> QED
      BY <3>1, <3>2, <3>3
  <2> QED
    BY <2>1, <2>2
<1> QED
  BY <1>0, <1>1, LibraryGoesOn DEF LibraryShape

\* The same files but for the bundles of the user.
SameEntries(d) ==
    /\ d \in Disks
    /\ d.base = disk.base /\ d.over = disk.over /\ d.declared = disk.declared

\* Bundles are not what the layers are about.
LEMMA SameEntriesRight ==
    ASSUME NEW d, SameEntries(d)
    PROVE  /\ Library!Layered(d) = Library!Layered(disk)
           /\ NoneLayered(disk) => NoneLayered(d)
           /\ \A i \in Library!Items, told \in Tolds : DiskHolds(disk, i, told) => DiskHolds(d, i, told)
  BY DEF SameEntries, Library!Layered, NoneLayered, DiskHolds, Holds

\* Another set of bundles leaves the entries as they are.
LEMMA BundlesRight ==
    ASSUME LibraryShape, NEW bundles \in SUBSET Own
    PROVE  SameEntries([disk EXCEPT !.bundles = bundles])
  BY DEF LibraryShape, SameEntries, Disks

\* A call that saves nothing.
LEMMA CallLeaves ==
    ASSUME LibraryInv, UNCHANGED <<kind, stage, load>>, memory' \in Helds, SameEntries(disk'),
           index' \in SUBSET Library!Ids, choice' \in [Library!Items -> Tolds],
           \A k \in Lasting : choice'[k] = "any" \/ (choice'[k] = choice[k] /\ memory'[k] = memory[k])
    PROVE  LibraryInv'
<1>0. LibraryShape /\ \A i \in Lasting : Kept(i)
  BY DEF LibraryInv
<1>1. disk' \in Disks /\ NoneLayered(disk') /\ Library!Layered(disk') = Library!Layered(disk)
  BY <1>0, SameEntriesRight DEF LibraryShape, SameEntries
<1>2. ASSUME NEW k \in Lasting, choice'[k] # "any"
      PROVE  /\ choice'[k] = choice[k]
             /\ DiskHolds(disk', k, choice[k])
             /\ Seen(k, disk, Library!Running) => Holds(memory'[k], choice[k])
  BY <1>0, <1>2, SameEntriesRight, LastingItems DEF Kept
<1> QED
  BY <1>1, <1>2, CallRight

\* A call that saves all the manager holds.
LEMMA CallSaves ==
    ASSUME LibraryInv, UNCHANGED <<kind, stage, load>>, memory' \in Helds, NEW d, SameEntries(d),
           disk' = Library!Saved(d, memory', Library!Running), index' \in SUBSET Library!Ids, choice' \in [Library!Items -> Tolds],
           \A k \in Lasting : choice'[k] = "any" \/ (choice'[k] = choice[k] /\ memory'[k] = memory[k])
    PROVE  LibraryInv'
<1>0. LibraryShape /\ \A i \in Lasting : Kept(i)
  BY DEF LibraryInv
<1>1. Library!Running \in BOOLEAN /\ d \in Disks
  BY DEF Library!Running, SameEntries
<1>2. /\ Library!Layered(d) = Library!Layered(disk)
      /\ \A i \in Library!Items, told \in Tolds : DiskHolds(disk, i, told) => DiskHolds(d, i, told)
  BY SameEntriesRight
<1>3. /\ disk' \in Disks /\ Library!Layered(disk') = Library!Layered(d) /\ NoneLayered(disk')
      /\ \A i \in Library!Items, told \in Tolds : DiskHolds(d, i, told) /\ (Seen(i, d, Library!Running) => Holds(memory'[i], told))
                                   => DiskHolds(disk', i, told)
  BY <1>1, SavedRight
<1>4. ASSUME NEW k \in Lasting, choice'[k] # "any"
      PROVE  /\ choice'[k] = choice[k]
             /\ DiskHolds(disk', k, choice[k])
             /\ Seen(k, disk, Library!Running) => Holds(memory'[k], choice[k])
  <2>1. choice'[k] = choice[k] /\ memory'[k] = memory[k]
    BY <1>4
  <2>2. /\ choice[k] \in Tolds /\ DiskHolds(disk, k, choice[k])
        /\ Seen(k, disk, Library!Running) => Holds(memory'[k], choice[k])
    BY <1>0, <2>1 DEF Kept, Told
  <2>3. DiskHolds(d, k, choice[k]) /\ (Seen(k, d, Library!Running) => Holds(memory'[k], choice[k]))
    BY <1>2, <2>2, LastingItems DEF Seen
  <2> QED
    BY <1>3, <2>1, <2>2, <2>3, LastingItems
<1> QED
  BY <1>2, <1>3, <1>4, CallRight

\* A call that sets an entry, and tells so unless the save failed.
LEMMA PutStep ==
    ASSUME Library!NamedApart, LibraryInv, UNCHANGED <<kind, stage, load, index>>, NEW i \in Library!Items,
           NEW value \in {"mine", "none"}, NEW claim \in {"mine", "gone"},
           claim = "mine" <=> value = "mine", claim = "gone" => i \in Library!Entries, Library!Put(i, value, claim)
    PROVE  LibraryInv'
<1>0. LibraryShape /\ \A k \in Lasting : Kept(k)
  BY DEF LibraryInv
<1>1. PICK ok \in BOOLEAN :
         /\ memory' = IF kind = "prompt" /\ ~ok THEN memory ELSE [memory EXCEPT ![i] = value]
         /\ disk' = IF ok THEN Library!Saved(disk, memory', Library!Running) ELSE disk
         /\ choice' = [choice EXCEPT ![i] = Library!Claim(i, claim, ok)]
  BY DEF Library!Put
<1>2. memory' \in Helds /\ (ok => memory'[i] = value) /\ \A k \in Library!Items \ {i} : memory'[k] = memory[k]
  <2>1. value \in Library!Values
    BY DEF Library!Values
  <2> QED
    BY <1>0, <1>1, <2>1 DEF LibraryShape, Helds
<1>3. Library!Claim(i, claim, ok) \in {"any", claim}
  BY DEF Library!Claim
<1>4. /\ choice' \in [Library!Items -> Tolds] /\ choice'[i] = Library!Claim(i, claim, ok)
      /\ \A k \in Library!Items \ {i} : choice'[k] = choice[k]
  BY <1>0, <1>1, <1>3 DEF LibraryShape, Tolds
<1>5. SameEntries(disk) /\ index' \in SUBSET Library!Ids
  BY <1>0 DEF SameEntries, LibraryShape
<1>6. CASE Library!Claim(i, claim, ok) = "any"
  <2>1. \A k \in Lasting : choice'[k] = "any" \/ (choice'[k] = choice[k] /\ memory'[k] = memory[k])
    <3>1. ASSUME NEW k \in Lasting PROVE choice'[k] = "any" \/ (choice'[k] = choice[k] /\ memory'[k] = memory[k])
      <4>1. CASE k = i
        BY <1>4, <1>6, <4>1
      <4>2. CASE k # i
        BY <1>2, <1>4, <4>2, LastingItems
      <4> QED
        BY <4>1, <4>2
    <3> QED
      BY <3>1
  <2>2. CASE ok
    BY <1>1, <1>2, <1>4, <1>5, <2>1, <2>2, CallSaves
  <2>3. CASE ~ok
    BY <1>1, <1>2, <1>4, <1>5, <2>1, <2>3, CallLeaves
  <2> QED
    BY <2>2, <2>3
<1>7. CASE Library!Claim(i, claim, ok) # "any"
  <2>1. ok /\ load = <<>> /\ (i \in Shipments \cup Offered => Library!Running /\ i \in Library!Layered(disk)) /\ choice'[i] = claim
    BY <1>4, <1>7 DEF Library!Claim
  <2>2. disk' = Library!Saved(disk, memory', Library!Running) /\ memory'[i] = value
    BY <1>1, <1>2, <2>1
  <2>3. Library!Running \in BOOLEAN /\ disk \in Disks
    BY <1>5 DEF Library!Running, SameEntries
  <2>4. /\ disk' \in Disks /\ Library!Layered(disk') = Library!Layered(disk) /\ NoneLayered(disk')
        /\ \A k \in Library!Items, told \in Tolds : DiskHolds(disk, k, told) /\ (Seen(k, disk, Library!Running) => Holds(memory'[k], told))
                                     => DiskHolds(disk', k, told)
        /\ \A k \in Library!Items, told \in Tolds : Seen(k, disk, Library!Running) /\ Holds(memory'[k], told) => DiskHolds(disk', k, told)
    BY <1>2, <2>2, <2>3, SavedRight
  <2>5. ASSUME NEW k \in Lasting
        PROVE  /\ Told(k, disk', choice'[k])
               /\ DiskHolds(disk', k, choice'[k])
               /\ Seen(k, disk', stage' = "on") => Holds(memory'[k], choice'[k])
    <3>1. CASE k = i
      <4>1. Holds(memory'[i], claim) /\ claim \in Tolds
        BY <2>2 DEF Holds, Tolds
      <4>2. Seen(i, disk, Library!Running) /\ Told(i, disk', claim)
        BY <2>1, <2>4 DEF Seen, Told, Library!Layered, Tolds
      <4> QED
        BY <2>1, <2>4, <3>1, <4>1, <4>2
    <3>2. CASE k # i
      <4>1. k \in Library!Items /\ choice'[k] = choice[k] /\ memory'[k] = memory[k]
        BY <1>2, <1>4, <3>2, LastingItems
      <4>2. Told(k, disk, choice[k]) /\ DiskHolds(disk, k, choice[k]) /\ (Seen(k, disk, Library!Running) => Holds(memory[k], choice[k]))
        BY <1>0 DEF Kept
      <4>3. choice[k] \in Tolds /\ Told(k, disk', choice[k]) /\ (Seen(k, disk', stage' = "on") => Seen(k, disk, Library!Running))
        BY <2>4, <4>2 DEF Told, Seen, Library!Running
      <4> QED
        BY <2>4, <4>1, <4>2, <4>3
    <3> QED
      BY <3>1, <3>2
  <2> QED
    BY <1>0, <1>2, <1>4, <1>5, <2>1, <2>4, <2>5, LibraryGoesOn DEF LibraryShape
<1> QED
  BY <1>6, <1>7

\* The calls that set one entry.
Puts ==
    \E i \in Library!Items :
        \/ Library!Put(i, "mine", "mine")
        \/ i \in Library!Entries /\ Library!Put(i, "none", "gone")
\* The calls that make or remove a bundle.
Makes ==
    \E i \in Own :
        \/ Library!CreateSkill(i) \/ Library!CreateRule(i) \/ Library!DeleteSkill(i)
        \/ Library!ToolCreatesSkill(i) \/ Library!ToolDeletesSkill(i) \/ Library!DeleteRule(i)
        \/ kind = "rule" /\ Library!ToolCreatesRule(i)

\* Each call, of a route or a tool, of any kind of resource, is one of the two.
LEMMA CallsArePutsOrMakes ==
    ASSUME Library!Calls
    PROVE  /\ UNCHANGED <<kind, stage, load>>
           /\ (UNCHANGED index /\ Puts) \/ (Library!Bundles /\ Makes)
<1>1. UNCHANGED <<kind, stage, load>>
  BY DEF Library!Calls
<1>2. CASE Library!SkillCalls
  <2>1. Library!Bundles
    BY <1>2 DEF Library!SkillCalls, Library!Route, Library!Tool, Library!Bundles
  <2>2. CASE \E i \in Library!Ids : Library!CreateSkill(i) \/ Library!DeleteSkill(i)
    BY <1>1, <2>1, <2>2 DEF Makes, Library!CreateSkill, Library!DeleteSkill, Library!Removable
  <2>3. CASE /\ \E i \in Library!Items : Library!SetSkill(i) \/ Library!AssignSkill(i) \/ Library!SetGroups(i) \/ Library!SkillGroups(i)
             /\ UNCHANGED index
    BY <1>1, <2>3 DEF Puts, Library!SetSkill, Library!AssignSkill, Library!SetGroups, Library!SkillGroups, Library!CreateGroup, Library!UpdateGroup, Library!DeleteGroup
  <2> QED
    BY <1>1, <1>2, <2>2, <2>3 DEF Library!SkillCalls
<1>3. CASE Library!SkillTool
  <2>1. Library!Bundles
    BY <1>3 DEF Library!SkillTool, Library!Tool, Library!Bundles
  <2> QED
    BY <1>1, <1>3, <2>1 DEF Library!SkillTool, Makes, Library!ToolCreatesSkill, Library!ToolDeletesSkill, Library!Removable
<1>4. CASE Library!SkillGroupTool
  BY <1>1, <1>4 DEF Library!SkillGroupTool, Puts, Library!SkillGroups, Library!CreateGroup, Library!UpdateGroup, Library!DeleteGroup, Library!Regroup
<1>5. CASE Library!RuleCalls
  <2>1. Library!Bundles
    BY <1>5 DEF Library!RuleCalls, Library!Route, Library!Tool, Library!Bundles
  <2>2. CASE \E i \in Library!Ids : Library!CreateRule(i) \/ Library!DeleteRule(i)
    BY <1>1, <2>1, <2>2 DEF Makes, Library!CreateRule, Library!DeleteRule, Library!Removable
  <2>3. CASE /\ \E i \in Library!Items : Library!SetRule(i) \/ Library!SetRuleGroups(i) \/ Library!RuleGroups(i)
             /\ UNCHANGED index
    BY <1>1, <2>3 DEF Puts, Library!SetRule, Library!SetRuleGroups, Library!RuleGroups, Library!CreateGroup, Library!UpdateGroup, Library!DeleteGroup
  <2> QED
    BY <1>1, <1>5, <2>2, <2>3 DEF Library!RuleCalls
<1>6. CASE Library!RuleTool
  <2>1. kind = "rule" /\ Library!Bundles
    BY <1>6 DEF Library!RuleTool, Library!Tool, Library!Bundles
  <2> QED
    BY <1>1, <1>6, <2>1 DEF Library!RuleTool, Makes, Library!ToolCreatesRule, Library!DeleteRule, Library!Removable
<1>7. CASE Library!RuleGroupTool
  BY <1>1, <1>7 DEF Library!RuleGroupTool, Puts, Library!RuleGroups, Library!CreateGroup, Library!UpdateGroup, Library!DeleteGroup, Library!Regroup
<1>8. CASE Library!AgentCalls
  <2>1. Library!Items = Library!Entries
    BY <1>8 DEF Library!AgentCalls, Library!Route, Library!Tool, Library!Items
  <2> QED
    BY <1>1, <1>8, <2>1 DEF Library!AgentCalls, Puts, Library!UpdateAgent, Library!AddAgent, Library!DeleteAgent
<1>9. CASE Library!PromptCalls
  <2>1. Library!Items = Library!Entries
    BY <1>9 DEF Library!PromptCalls, Library!Route, Library!Tool, Library!Items
  <2> QED
    BY <1>1, <1>9, <2>1 DEF Library!PromptCalls, Puts, Library!ChangePrompt, Library!CreatePhrase, Library!DeletePrompt
<1> QED
  BY <1>2, <1>3, <1>4, <1>5, <1>6, <1>7, <1>8, <1>9 DEF Library!Calls

\* Any call that sets one entry.
LEMMA PutsStep == Library!NamedApart /\ LibraryInv /\ UNCHANGED <<kind, stage, load, index>> /\ Puts => LibraryInv'
<1> SUFFICES ASSUME Library!NamedApart, LibraryInv, UNCHANGED <<kind, stage, load, index>>, Puts PROVE LibraryInv'
  OBVIOUS
<1>1. PICK i \in Library!Items : Library!Put(i, "mine", "mine") \/ (i \in Library!Entries /\ Library!Put(i, "none", "gone"))
  BY DEF Puts
<1>2. CASE Library!Put(i, "mine", "mine")
  BY <1>2, PutStep
<1>3. CASE i \in Library!Entries /\ Library!Put(i, "none", "gone")
  BY <1>3, PutStep
<1> QED
  BY <1>1, <1>2, <1>3

\* Any call that makes or removes a bundle.
LEMMA MakesStep == Library!NamedApart /\ LibraryInv /\ UNCHANGED <<kind, stage, load>> /\ Library!Bundles /\ Makes => LibraryInv'
<1> SUFFICES ASSUME Library!NamedApart, LibraryInv, UNCHANGED <<kind, stage, load>>, Library!Bundles, Makes PROVE LibraryInv'
  OBVIOUS
<1>0. LibraryShape /\ \A k \in Lasting : Kept(k)
  BY DEF LibraryInv
<1>1. PICK i \in Own :
          \/ Library!CreateSkill(i) \/ Library!CreateRule(i) \/ Library!DeleteSkill(i)
          \/ Library!ToolCreatesSkill(i) \/ Library!ToolDeletesSkill(i) \/ Library!DeleteRule(i)
          \/ kind = "rule" /\ Library!ToolCreatesRule(i)
  BY DEF Makes
<1>2. i \in Library!Items /\ i \in Library!Ids /\ disk.bundles \in SUBSET Own
  BY <1>0 DEF Library!Bundles, Library!Items, Library!Ids, LibraryShape, Disks
<1>3. /\ index \cup {i} \in SUBSET Library!Ids /\ index \ {i} \in SUBSET Library!Ids
      /\ disk.bundles \cup {i} \in SUBSET Own /\ disk.bundles \ {i} \in SUBSET Own
  BY <1>0, <1>2 DEF LibraryShape
<1>4. /\ SameEntries([disk EXCEPT !.bundles = disk.bundles \cup {i}])
      /\ SameEntries([disk EXCEPT !.bundles = disk.bundles \ {i}])
      /\ SameEntries([disk EXCEPT !.bundles = disk.bundles])
  BY <1>0, <1>2, <1>3, BundlesRight
<1>5. \A value \in Library!Values : [memory EXCEPT ![i] = value] \in Helds /\ \A k \in Library!Items \ {i} : [memory EXCEPT ![i] = value][k] = memory[k]
  BY <1>0 DEF LibraryShape, Helds
<1>6. /\ [choice EXCEPT ![i] = "any"] \in [Library!Items -> Tolds]
      /\ \A k \in Library!Items : [choice EXCEPT ![i] = "any"][k] = IF k = i THEN "any" ELSE choice[k]
  BY <1>0, <1>2 DEF LibraryShape, Tolds
<1>7. /\ memory \in Helds /\ choice \in [Library!Items -> Tolds]
      /\ "plain" \in Library!Values /\ "none" \in Library!Values
  BY <1>0 DEF LibraryShape, Library!Values
<1>8. CASE Library!CreateSkill(i)
  <2>1. PICK written \in BOOLEAN : Library!Created(i, written)
    BY <1>8 DEF Library!CreateSkill
  <2>2. index' = index \cup {i} /\ SameEntries(disk')
    BY <1>4, <2>1 DEF Library!Created
  <2> QED
    BY <1>3, <1>7, <1>8, <2>2, CallLeaves DEF Library!CreateSkill
<1>9. CASE Library!CreateRule(i)
  <2>1. index' = index \cup {i} /\ SameEntries(disk')
    BY <1>4, <1>9 DEF Library!CreateRule, Library!Created
  <2> QED
    BY <1>3, <1>7, <1>9, <2>1, CallLeaves DEF Library!CreateRule
<1>10. CASE Library!DeleteSkill(i)
  <2>1. index' = index \ {i} /\ SameEntries(disk') /\ memory' = memory /\ choice' = [choice EXCEPT ![i] = "any"]
    BY <1>4, <1>10 DEF Library!DeleteSkill, Library!Removed
  <2> QED
    BY <1>3, <1>6, <1>7, <2>1, LastingItems, CallLeaves
<1>11. CASE Library!ToolCreatesSkill(i)
  <2>1. /\ memory' = [memory EXCEPT ![i] = "plain"] /\ choice' = [choice EXCEPT ![i] = "any"]
        /\ index' = index \cup {i}
    BY <1>11 DEF Library!ToolCreatesSkill
  <2>2. PICK written \in BOOLEAN :
            disk' = Library!Saved([disk EXCEPT !.bundles = IF written THEN @ \cup {i} ELSE @], memory', Library!Running)
    BY <1>11 DEF Library!ToolCreatesSkill
  <2>3. PICK d : d = [disk EXCEPT !.bundles = IF written THEN @ \cup {i} ELSE @]
    OBVIOUS
  <2>4. SameEntries(d) /\ disk' = Library!Saved(d, memory', Library!Running)
    BY <1>4, <2>2, <2>3
  <2> QED
    BY <1>3, <1>5, <1>6, <1>7, <2>1, <2>4, LastingItems, CallSaves
<1>12. CASE Library!ToolDeletesSkill(i) \/ Library!DeleteRule(i)
  <2>1. /\ memory' = [memory EXCEPT ![i] = "none"] /\ choice' = [choice EXCEPT ![i] = "any"]
        /\ index' = index \ {i}
        /\ disk' = Library!Saved([disk EXCEPT !.bundles = disk.bundles \ {i}], memory', Library!Running)
    BY <1>12 DEF Library!ToolDeletesSkill, Library!DeleteRule, Library!Removed
  <2> QED
    BY <1>3, <1>4, <1>5, <1>6, <1>7, <2>1, LastingItems, CallSaves
<1>13. CASE kind = "rule" /\ Library!ToolCreatesRule(i)
  <2>1. /\ memory' = Library!RuleSync(memory, {i}) /\ choice' = choice /\ index' = index \cup {i}
        /\ disk' = Library!Saved([disk EXCEPT !.bundles = disk.bundles \cup {i}], memory', Library!Running)
    BY <1>13 DEF Library!ToolCreatesRule
  <2>2. memory' \in Helds /\ \A k \in Library!Entries : memory'[k] = memory[k]
    BY <1>2, <1>7, <2>1, SyncRight
  <2>3. Lasting = Library!Entries
    BY <1>13 DEF Lasting
  <2> QED
    BY <1>3, <1>4, <1>7, <2>1, <2>2, <2>3, CallSaves
<1> QED
  BY <1>1, <1>8, <1>9, <1>10, <1>11, <1>12, <1>13

\* All steps, and none.
LEMMA LibraryStep == Library!NamedApart /\ LibraryInv /\ [Library!Next]_(Library!vars) => LibraryInv'
<1> SUFFICES ASSUME Library!NamedApart, LibraryInv, [Library!Next]_(Library!vars) PROVE LibraryInv'
  OBVIOUS
<1>1. CASE Library!Calls
  <2>1. UNCHANGED <<kind, stage, load>> /\ ((UNCHANGED index /\ Puts) \/ (Library!Bundles /\ Makes))
    BY <1>1, CallsArePutsOrMakes
  <2> QED
    BY <2>1, PutsStep, MakesStep
<1>2. CASE UNCHANGED Library!vars
  <2>1. /\ Library!Items' = Library!Items /\ Lasting' = Lasting /\ Helds' = Helds /\ Library!Running' = Library!Running
    BY <1>2 DEF Library!vars, Library!Items, Lasting, Helds, Library!Running
  <2>2. Disks' = Disks /\ NoneLayered(disk)' = NoneLayered(disk)
    BY <1>2, <2>1 DEF Disks, NoneLayered, Library!vars
  <2>3. LibraryShape'
    BY <1>2, <2>1, <2>2 DEF LibraryInv, LibraryShape, Library!vars
  <2>4. \A i \in Lasting : Kept(i)'
    BY <1>2, <2>1 DEF LibraryInv, Kept, Library!vars
  <2> QED
    BY <2>1, <2>3, <2>4 DEF LibraryInv
<1> QED
  BY <1>1, <1>2, StartUpStep, RestartStep, FailsStep, BeginStep, EndStep DEF Library!Next

\* What the last caller was told of an entry holds whenever the extension runs:
\* through saves by others and saves that fail, reloads, restarts, failures of the
\* extension while it runs and new releases of it (LayeredJsonConfig of
\* src/extension_host/resources.py).  Of what the extension ships, this is said
\* of what was decided since the program was last started without it (disabled,
\* broken or blocked): the saves of such a run drop the overrides, as another
\* run shows.
THEOREM UsersChoicesSurvive == Library!NamedApart => (Library!Spec => [](Library!TypeOK /\ Library!ChoicesSurvive))
<1> SUFFICES ASSUME Library!NamedApart PROVE Library!Spec => [](Library!TypeOK /\ Library!ChoicesSurvive)
  OBVIOUS
<1>1. Library!Init => LibraryInv
  BY InitLibrary
<1>2. LibraryInv /\ [Library!Next]_(Library!vars) => LibraryInv'
  BY LibraryStep
<1>3. LibraryInv => Library!TypeOK /\ Library!ChoicesSurvive
  <2> SUFFICES ASSUME LibraryInv PROVE Library!TypeOK /\ Library!ChoicesSurvive
    OBVIOUS
  <2>1. Library!TypeOK
    BY DEF LibraryInv, LibraryShape, Library!TypeOK, Helds, Disks, OverrideValues, NoneLayered
  <2>2. Library!ChoicesSurvive
    BY DEF LibraryInv, Lasting, Kept, Holds, Seen, Library!Running, Library!ChoicesSurvive
  <2> QED
    BY <2>1, <2>2
<1> QED
  BY <1>1, <1>2, <1>3, PTL DEF Library!Spec

=============================================================================
