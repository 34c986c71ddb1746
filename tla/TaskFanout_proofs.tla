-------------------------- MODULE TaskFanout_proofs --------------------------
(***************************************************************************)
(* For any orders, cooldowns, clients, caps and bounds: the ledger of      *)
(* fan-out tasks never orphans a record, its counter covers its records,   *)
(* the cap is exceeded by the dispatches that waited for Temporal at the   *)
(* same time, at most, and a cancel that was acknowledged is kept.         *)
(*                                                                         *)
(* Families and counter rest on the same facts: a run that is being        *)
(* dispatched has no record and shares its id with no other dispatch, and  *)
(* what an eviction takes is whole families.  For the cap, the invariant   *)
(* keeps a witness: the dispatch that checked the counter last leaves      *)
(* room for itself, and every other one takes a full order at most.        *)
(***************************************************************************)
EXTENDS TaskFanout, TLAPS, FiniteSetTheorems

Dispatching == {"starting", "started"}
Waiting == {c \in Clients : request[c].at \in Dispatching}

(* The shape of the ledger: its records are those of runs that have an age, and
   the counter covers them, exactly in the stub. *)
LedgerOK(l, ages, flag) ==
  /\ l = [tasks |-> l.tasks, count |-> l.count]
  /\ l.tasks = [id \in DOMAIN l.tasks |-> l.tasks[id]]
  /\ IsFiniteSet(DOMAIN l.tasks) /\ l.count \in Nat
  /\ \A id \in DOMAIN l.tasks : /\ id \in Ids /\ l.tasks[id] \subseteq Kids
                                /\ ages[id[1]].age # "none"
                                /\ id[2] # 0 => l.tasks[id] = {}
  /\ Cardinality(DOMAIN l.tasks) <= l.count
  /\ flag = FALSE => l.count = Cardinality(DOMAIN l.tasks)
  /\ Whole(l.tasks)

IsRun(x) == x = [f \in {"age", "cancelled"} |-> x[f]]
RunsOK(runs) == runs = [r \in Runs |-> runs[r]] /\ \A r \in Runs : IsRun(runs[r])

RequestOK(q, flag, ages) ==
  /\ q = [at |-> q.at, run |-> q.run, order |-> q.order, kids |-> q.kids]
  /\ q.at \in {"idle", "starting", "started", "cancelling"}
  /\ q.at # "idle" => flag /\ q.run \in Runs
  /\ q.at \in Dispatching => /\ q.order \in Orders /\ q.kids \subseteq DOMAIN q.order.list
                             /\ ages[q.run].age = "none"

IInv ==
  /\ real \in BOOLEAN
  /\ LedgerOK(ledger, run, real)
  /\ RunsOK(run)
  /\ request = [c \in Clients |-> request[c]]
  /\ \A c \in Clients : RequestOK(request[c], real, run)
  /\ \A c, d \in Waiting : request[c].run = request[d].run => c = d

-----------------------------------------------------------------------------
(* What an eviction frees is what it takes. *)
LEMMA Freeing ==
  ASSUME NEW ids, LedgerOK(ledger, run, real)
  PROVE  LET D == DOMAIN ledger.tasks
             e == Evict(ledger, ids) IN
         /\ e = [tasks |-> e.tasks, count |-> e.count]
         /\ e.tasks = [id \in D \ ids |-> ledger.tasks[id]]
         /\ IsFiniteSet(D \ ids) /\ e.count \in Nat /\ e.count <= ledger.count
         /\ Cardinality(D \ ids) <= e.count
         /\ real = FALSE => e.count = Cardinality(D \ ids)
<1> DEFINE D == DOMAIN ledger.tasks
           e == Evict(ledger, ids)
           freed == Cardinality(ids \cap D)
<1>1. IsFiniteSet(D) /\ ledger.count \in Nat /\ Cardinality(D) <= ledger.count  BY DEF LedgerOK
<1>2. /\ IsFiniteSet(D \ ids) /\ IsFiniteSet(ids \cap D)
      /\ freed \in Nat /\ Cardinality(D \ ids) \in Nat
  BY <1>1, FS_Subset, FS_CardinalityType
<1>3. Cardinality(D) = Cardinality(D \ ids) + freed
  <2>1. D = (D \ ids) \cup (ids \cap D)  OBVIOUS
  <2>2. (D \ ids) \cap (ids \cap D) = {}  OBVIOUS
  <2>3. Cardinality((D \ ids) \cap (ids \cap D)) = 0  BY <2>2, FS_EmptySet
  <2>4. Cardinality((D \ ids) \cup (ids \cap D))
          = Cardinality(D \ ids) + Cardinality(ids \cap D) - Cardinality((D \ ids) \cap (ids \cap D))
    BY <1>2, FS_Union
  <2>5. Cardinality(D) = Cardinality((D \ ids) \cup (ids \cap D))  BY <2>1, Zenon
  <2> HIDE DEF D
  <2> QED BY <2>3, <2>4, <2>5, <1>2
<1>4. e = [tasks |-> [id \in D \ ids |-> ledger.tasks[id]], count |-> ledger.count - freed]
  BY <1>1, <1>2, <1>3 DEF Evict, Restrict
<1>5. e.tasks = [id \in D \ ids |-> ledger.tasks[id]] /\ e.count = ledger.count - freed  BY <1>4
<1>6. e.count \in Nat /\ e.count <= ledger.count /\ Cardinality(D \ ids) <= e.count
  BY <1>1, <1>2, <1>3, <1>5
<1>7. real = FALSE => e.count = Cardinality(D \ ids)
  BY <1>1, <1>2, <1>3, <1>5 DEF LedgerOK
<1>8. e = [tasks |-> e.tasks, count |-> e.count]  BY <1>4, <1>5
<1> QED BY <1>2, <1>5, <1>6, <1>7, <1>8

(* Evicting whole families keeps the ledger in shape. *)
LEMMA Evicting ==
  ASSUME NEW ids, LedgerOK(ledger, run, real),
         \A a, b \in DOMAIN ledger.tasks : a[1] = b[1] => (a \in ids <=> b \in ids)
  PROVE  /\ LedgerOK(Evict(ledger, ids), run, real)
         /\ Evict(ledger, ids).count <= ledger.count
         /\ DOMAIN Evict(ledger, ids).tasks = DOMAIN ledger.tasks \ ids
<1> DEFINE tasks == ledger.tasks
           D == DOMAIN tasks
           e == Evict(ledger, ids)
<1>1. /\ e = [tasks |-> e.tasks, count |-> e.count]
      /\ e.tasks = [id \in D \ ids |-> tasks[id]]
      /\ IsFiniteSet(D \ ids) /\ e.count \in Nat /\ e.count <= ledger.count
      /\ Cardinality(D \ ids) <= e.count
      /\ real = FALSE => e.count = Cardinality(D \ ids)
  BY Freeing
<1> HIDE DEF e
<1>2. Whole(e.tasks)
  <2>1. ASSUME NEW id \in D \ ids, id[2] # 0
        PROVE  Id(id[1], 0) \in D \ ids /\ id[2] \in tasks[Id(id[1], 0)]
    <3>1. Id(id[1], 0) \in D /\ id[2] \in tasks[Id(id[1], 0)]  BY <2>1 DEF LedgerOK, Whole
    <3>2. Id(id[1], 0)[1] = id[1]  BY DEF Id
    <3> QED BY <3>1, <3>2
  <2>2. ASSUME NEW id \in D \ ids, NEW i \in tasks[id]
        PROVE  Id(id[1], i) \in D \ ids
    <3>1. Id(id[1], i) \in D  BY DEF LedgerOK, Whole
    <3>2. Id(id[1], i)[1] = id[1]  BY DEF Id
    <3> QED BY <3>1, <3>2
  <2> QED BY <2>1, <2>2, <1>1 DEF Whole
<1>3. \A id \in D \ ids : /\ id \in Ids /\ tasks[id] \subseteq Kids /\ run[id[1]].age # "none"
                          /\ id[2] # 0 => tasks[id] = {}
  BY DEF LedgerOK
<1>4. DOMAIN e.tasks = D \ ids  BY <1>1
<1>5. LedgerOK(e, run, real)
  BY <1>1, <1>2, <1>3, <1>4 DEF LedgerOK
<1> QED BY <1>1, <1>4, <1>5 DEF e

(* A sweep takes the families of the runs that expired. *)
LEMMA Sweeping ==
  ASSUME LedgerOK(ledger, run, real)
  PROVE  /\ LedgerOK(Sweep(ledger), run, real)
         /\ Sweep(ledger).count <= ledger.count
         /\ DOMAIN Sweep(ledger).tasks \subseteq DOMAIN ledger.tasks
<1> DEFINE ids == {id \in DOMAIN ledger.tasks : run[id[1]].age = "expired"}
<1>1. \A a, b \in DOMAIN ledger.tasks : a[1] = b[1] => (a \in ids <=> b \in ids)  OBVIOUS
<1>2. Sweep(ledger) = Evict(ledger, ids)  BY DEF Sweep
<1> HIDE DEF ids
<1> QED BY <1>1, <1>2, Evicting

(* A record's family is all there is of its run, so a cancel takes a family too. *)
LEMMA FamilyOfRun ==
  ASSUME LedgerOK(ledger, run, real), NEW r \in Runs, NEW id \in DOMAIN ledger.tasks
  PROVE  id \in Family(r) <=> id[1] = r
<1>1. id = Id(id[1], id[2]) /\ (id[2] = 0 \/ id[2] \in Kids)  BY DEF LedgerOK, Ids, Id
<1>2. id \in Family(r) => id[1] = r  BY DEF Family, Id
<1>3. ASSUME id[1] = r PROVE id \in Family(r)
  <2>1. CASE id[2] = 0  BY <2>1, <1>3, <1>1 DEF Family
  <2>2. CASE id[2] # 0
    <3>1. Id(r, 0) \in DOMAIN ledger.tasks /\ id[2] \in ledger.tasks[Id(r, 0)]
      BY <2>2, <1>3 DEF LedgerOK, Whole
    <3> QED BY <3>1, <1>3, <1>1 DEF Family
  <2> QED BY <2>1, <2>2
<1> QED BY <1>2, <1>3

LEMMA CancellingFamily ==
  ASSUME LedgerOK(ledger, run, real), NEW r \in Runs
  PROVE  /\ LedgerOK(Evict(ledger, Family(r)), run, real)
         /\ Evict(ledger, Family(r)).count <= ledger.count
<1>1. \A a, b \in DOMAIN ledger.tasks : a[1] = b[1] => (a \in Family(r) <=> b \in Family(r))
  BY FamilyOfRun
<1> QED BY <1>1, Evicting

(* The records of a new run are one more than its children. *)
LEMMA NewRecords ==
  ASSUME NEW r, NEW kids \in SUBSET Kids
  PROVE  LET ids == {Id(r, i) : i \in {0} \cup kids} IN
         /\ IsFiniteSet(ids) /\ IsFiniteSet(kids) /\ Cardinality(kids) \in Nat
         /\ Cardinality(ids) = 1 + Cardinality(kids)
<1> DEFINE S == {0} \cup kids
           ids == {Id(r, i) : i \in S}
           f == [i \in S |-> Id(r, i)]
<1>1. IsFiniteSet(kids) /\ Cardinality(kids) \in Nat /\ 0 \notin kids
  <2>1. IsFiniteSet(Kids) /\ 0 \notin Kids  BY FanoutAssumption, FS_Interval DEF Kids
  <2> QED BY <2>1, FS_Subset, FS_CardinalityType
<1>2. IsFiniteSet(S) /\ Cardinality(S) = 1 + Cardinality(kids)
  <2>1. S = kids \cup {0}  OBVIOUS
  <2>2. IsFiniteSet(kids \cup {0}) /\ Cardinality(kids \cup {0}) = Cardinality(kids) + 1
    BY <1>1, FS_AddElement
  <2>3. Cardinality(S) = Cardinality(kids \cup {0}) /\ IsFiniteSet(S)  BY <2>1, <2>2, Zenon
  <2> HIDE DEF S
  <2> QED BY <2>2, <2>3, <1>1
<1>3. f \in Bijection(S, ids)
  <2>1. f \in [S -> ids]  OBVIOUS
  <2>2. \A i, j \in S : f[i] = f[j] => i = j  BY DEF Id
  <2>3. \A id \in ids : \E i \in S : f[i] = id  OBVIOUS
  <2> HIDE DEF f, ids, S
  <2> QED BY <2>1, <2>2, <2>3 DEF Bijection, Injection, Surjection, IsInjective
<1>4. ExistsBijection(S, ids)
  <2> HIDE DEF f, ids, S
  <2> QED BY <1>3 DEF ExistsBijection
<1>5. IsFiniteSet(ids) /\ Cardinality(ids) = Cardinality(S)
  <2> HIDE DEF ids, S
  <2> QED BY <1>2, <1>4, FS_Bijection
<1> QED BY <1>1, <1>2, <1>5

(* Run r gets its age; its records are billed, one by one in the stub. *)
Dated(r, ages, later) ==
  /\ r \in Runs /\ ages[r].age = "none" /\ later[r].age # "none"
  /\ \A q \in Runs : q # r => later[q].age = ages[q].age
Billed(kids, billed, flag) ==
  /\ kids \subseteq Kids /\ billed \in Nat
  /\ 1 + Cardinality(kids) <= billed
  /\ flag = FALSE => billed = 1 + Cardinality(kids)

(* Entering a run that has no record yet, billed as its records at least. *)
LEMMA Entering ==
  ASSUME NEW l, NEW r, NEW ages, NEW later, NEW kids, NEW billed, NEW flag,
         LedgerOK(l, ages, flag), Dated(r, ages, later), Billed(kids, billed, flag)
  PROVE  /\ LedgerOK(Enter(l, r, kids, billed), later, flag)
         /\ Enter(l, r, kids, billed).count = l.count + billed
<1> DEFINE D == DOMAIN l.tasks
           new == {Id(r, i) : i \in {0} \cup kids}
           e == Enter(l, r, kids, billed)
<1> USE DEF Dated, Billed
<1>1. /\ IsFiniteSet(new) /\ Cardinality(kids) \in Nat
      /\ Cardinality(new) = 1 + Cardinality(kids)
  BY NewRecords
<1>2. IsFiniteSet(D) /\ l.count \in Nat /\ Cardinality(D) <= l.count /\ Cardinality(D) \in Nat
  BY FS_CardinalityType DEF LedgerOK
<1>3. \A id \in D : id = Id(id[1], id[2]) /\ id[1] \in Runs /\ id[1] # r
  BY DEF LedgerOK, Ids, Id
<1>4. \A id \in new : id[1] = r /\ id = Id(r, id[2]) /\ id[2] \in {0} \cup kids  BY DEF Id
<1>5. D \cap new = {}  BY <1>3, <1>4
<1>6. IsFiniteSet(D \cup new) /\ Cardinality(D \cup new) = Cardinality(D) + 1 + Cardinality(kids)
  <2>1. Cardinality(D \cap new) = 0  BY <1>5, FS_EmptySet
  <2>2. IsFiniteSet(D \cup new)
        /\ Cardinality(D \cup new) = Cardinality(D) + Cardinality(new) - Cardinality(D \cap new)
    <3> HIDE DEF D, new
    <3> QED BY <1>1, <1>2, FS_Union
  <2> HIDE DEF D, new
  <2> QED BY <1>1, <1>2, <2>1, <2>2
<1>7. /\ e = [tasks |-> e.tasks, count |-> e.count]
      /\ e.count = l.count + billed
      /\ e.tasks = [id \in D \cup new |-> 
                     IF id \notin new THEN l.tasks[id] ELSE IF id[2] = 0 THEN kids ELSE {}]
  BY DEF Enter
<1>8. DOMAIN e.tasks = D \cup new
  <2> HIDE DEF e, D, new
  <2> QED BY <1>7
<1>9. Whole(e.tasks)
  <2>1. ASSUME NEW id \in D \cup new, id[2] # 0
        PROVE  Id(id[1], 0) \in D \cup new /\ id[2] \in e.tasks[Id(id[1], 0)]
    <3>1. CASE id \in D
      <4>1. Id(id[1], 0) \in D /\ id[2] \in l.tasks[Id(id[1], 0)]  BY <2>1, <3>1 DEF LedgerOK, Whole
      <4>2. Id(id[1], 0) \notin new  BY <4>1, <1>5
      <4> HIDE DEF e, D, new
      <4> QED BY <4>1, <4>2, <1>7
    <3>2. CASE id \in new
      <4>1. id[1] = r /\ id[2] \in kids  BY <1>4, <3>2, <2>1
      <4>2. Id(r, 0) \in new /\ Id(r, 0)[2] = 0  BY DEF Id
      <4> HIDE DEF e, D, new
      <4> QED BY <4>1, <4>2, <1>7
    <3> QED BY <3>1, <3>2
  <2>2. ASSUME NEW id \in D \cup new, NEW i \in e.tasks[id]
        PROVE  Id(id[1], i) \in D \cup new
    <3>1. CASE id \in D
      <4>1. id \notin new  BY <3>1, <1>5
      <4>2. e.tasks[id] = l.tasks[id]
        <5> HIDE DEF e, D, new
        <5> QED BY <4>1, <3>1, <1>7
      <4> HIDE DEF e
      <4> QED BY <3>1, <4>2, <2>2 DEF LedgerOK, Whole
    <3>2. CASE id \in new
      <4>1. e.tasks[id] \subseteq kids
        <5> HIDE DEF e, D, new
        <5> QED BY <3>2, <1>7
      <4>2. id[1] = r  BY <3>2, <1>4
      <4> HIDE DEF e
      <4> QED BY <4>1, <4>2, <2>2
    <3> QED BY <3>1, <3>2
  <2> HIDE DEF e, D, new
  <2> QED BY <2>1, <2>2, <1>8 DEF Whole
<1>10. ASSUME NEW id \in D \cup new
       PROVE  /\ id \in Ids /\ e.tasks[id] \subseteq Kids /\ later[id[1]].age # "none"
              /\ id[2] # 0 => e.tasks[id] = {}
  <2>1. CASE id \in D
    <3>1. id \notin new  BY <2>1, <1>5
    <3>2. e.tasks[id] = l.tasks[id]
      <4> HIDE DEF e, D, new
      <4> QED BY <3>1, <2>1, <1>7
    <3>3. later[id[1]].age = ages[id[1]].age  BY <2>1, <1>3
    <3> HIDE DEF e
    <3> QED BY <2>1, <3>2, <3>3 DEF LedgerOK
  <2>2. CASE id \in new
    <3>1. id \in Ids  BY <2>2 DEF Ids
    <3>2. e.tasks[id] \subseteq Kids /\ (id[2] # 0 => e.tasks[id] = {})
      <4> HIDE DEF e, D, new
      <4> QED BY <2>2, <1>7
    <3> HIDE DEF e
    <3> QED BY <3>1, <3>2, <2>2, <1>4
  <2> QED BY <2>1, <2>2
<1>11. e.count \in Nat /\ Cardinality(D \cup new) <= e.count
  <2> HIDE DEF e, D, new
  <2> QED BY <1>1, <1>2, <1>6, <1>7
<1>12. flag = FALSE => e.count = Cardinality(D \cup new)
  <2>1. flag = FALSE => l.count = Cardinality(D)  BY DEF LedgerOK
  <2> HIDE DEF e, D, new
  <2> QED BY <2>1, <1>1, <1>2, <1>6, <1>7
<1>13. e.tasks = [id \in DOMAIN e.tasks |-> e.tasks[id]]
  <2> HIDE DEF e, D, new
  <2> QED BY <1>7
<1> HIDE DEF e, D, new
<1> QED BY <1>6, <1>7, <1>8, <1>9, <1>10, <1>11, <1>12, <1>13 DEF LedgerOK, e

(* A child goes, from its parent's list too. *)
LEMMA CancellingChild ==
  ASSUME LedgerOK(ledger, run, real), NEW r \in Runs, NEW i \in Kids, CancelStubChild(r, i)
  PROVE  LedgerOK(ledger', run, real) /\ ledger'.count <= ledger.count
<1> DEFINE D == DOMAIN ledger.tasks
           gone == Id(r, i)
           l == Evict(ledger, {gone})
           kept == [id \in D \ {gone} |-> IF id = Id(r, 0) THEN ledger.tasks[id] \ {i}
                                          ELSE ledger.tasks[id]]
<1>1. /\ l = [tasks |-> l.tasks, count |-> l.count]
      /\ l.tasks = [id \in D \ {gone} |-> ledger.tasks[id]]
      /\ IsFiniteSet(D \ {gone}) /\ l.count \in Nat /\ l.count <= ledger.count
      /\ Cardinality(D \ {gone}) <= l.count
      /\ real = FALSE => l.count = Cardinality(D \ {gone})
  BY Freeing
<1>2. ledger' = [l EXCEPT !.tasks = [id \in DOMAIN @ |-> IF id = Id(r, 0) THEN @[id] \ {i} ELSE @[id]]]
  BY DEF CancelStubChild
<1>3. ledger' = [tasks |-> kept, count |-> l.count]
  <2> HIDE DEF l, gone
  <2>1. DOMAIN l.tasks = D \ {gone}  BY <1>1
  <2>2. [id \in DOMAIN l.tasks |-> IF id = Id(r, 0) THEN l.tasks[id] \ {i} ELSE l.tasks[id]] = kept
    BY <1>1, <2>1
  <2> QED BY <1>1, <1>2, <2>2
<1>4. ledger'.tasks = kept /\ ledger'.count = l.count  BY <1>3
<1>5. DOMAIN ledger'.tasks = D \ {gone}  BY <1>4
<1>6. gone # Id(r, 0) /\ gone[1] = r /\ gone[2] = i
  BY FanoutAssumption DEF Id, Kids
<1>7. \A id \in D : id = Id(id[1], id[2])  BY DEF LedgerOK, Ids, Id
<1>8. Whole(ledger'.tasks)
  <2>1. ASSUME NEW id \in D \ {gone}, id[2] # 0
        PROVE  Id(id[1], 0) \in D \ {gone} /\ id[2] \in kept[Id(id[1], 0)]
    <3>1. Id(id[1], 0) \in D /\ id[2] \in ledger.tasks[Id(id[1], 0)]  BY <2>1 DEF LedgerOK, Whole
    <3>2. Id(id[1], 0) # gone  BY FanoutAssumption DEF Id, Kids
    <3>3. id[1] = r => id[2] # i  BY <1>7, <2>1
    <3>4. Id(id[1], 0) = Id(r, 0) => id[1] = r  BY DEF Id
    <3> QED BY <3>1, <3>2, <3>3, <3>4
  <2>2. ASSUME NEW id \in D \ {gone}, NEW j \in kept[id]
        PROVE  Id(id[1], j) \in D \ {gone}
    <3>1. j \in ledger.tasks[id] /\ (id = Id(r, 0) => j # i)  BY <2>2
    <3>2. Id(id[1], j) \in D  BY <3>1 DEF LedgerOK, Whole
    <3>3. Id(id[1], j) # gone
      <4>1. SUFFICES ASSUME id[1] = r, j = i PROVE FALSE  BY DEF Id
      <4>2. id[2] # 0  BY <4>1, <3>1, <1>7
      <4>3. ledger.tasks[id] = {} \/ id[2] = 0  BY <4>2 DEF LedgerOK
      <4> QED BY <3>1, <4>2, <4>3
    <3> QED BY <3>2, <3>3
  <2> HIDE DEF kept
  <2> QED BY <2>1, <2>2, <1>4, <1>5 DEF Whole
<1>9. \A id \in D \ {gone} : /\ id \in Ids /\ kept[id] \subseteq Kids /\ run[id[1]].age # "none"
                             /\ id[2] # 0 => kept[id] = {}
  BY DEF LedgerOK
<1> HIDE DEF kept
<1>10. ledger'.tasks = [id \in DOMAIN ledger'.tasks |-> ledger'.tasks[id]]  BY <1>4, <1>5 DEF kept
<1> QED BY <1>1, <1>3, <1>4, <1>5, <1>8, <1>9, <1>10 DEF LedgerOK

-----------------------------------------------------------------------------
(* An order's children are a subset of its places. *)
LEMMA OrderKids ==
  ASSUME NEW o \in Orders
  PROVE  /\ DOMAIN o.list \subseteq Kids /\ IsFiniteSet(DOMAIN o.list)
         /\ Planned(o) \subseteq DOMAIN o.list
         /\ Slots(o) = 1 + Cardinality(Planned(o)) /\ Slots(o) \in 1..(1 + MaxKids)
         /\ real => Planned(o) = DOMAIN o.list
<1>1. o.list \in Seq(Providers) /\ Len(o.list) \in 1..MaxKids /\ MaxKids \in Nat
  BY FanoutAssumption DEF Kids
<1>2. DOMAIN o.list = 1..Len(o.list)  BY <1>1
<1>3. IsFiniteSet(1..Len(o.list)) /\ Cardinality(1..Len(o.list)) = Len(o.list)  BY <1>1, FS_Interval
<1>4. Planned(o) \in SUBSET DOMAIN o.list  BY DEF Planned
<1>5. Cardinality(Planned(o)) \in Nat /\ Cardinality(Planned(o)) <= Len(o.list)
  BY <1>2, <1>3, <1>4, FS_Subset, FS_CardinalityType
<1>6. Slots(o) \in 1..(1 + MaxKids)  BY <1>1, <1>5 DEF Slots
<1>7. DOMAIN o.list \subseteq Kids  BY <1>1, <1>2 DEF Kids
<1> QED BY <1>2, <1>3, <1>4, <1>6, <1>7 DEF Slots, Planned

LEMMA IInvInit == ASSUME Init PROVE IInv
<1>1. ledger.tasks = <<>> /\ ledger.count = 0 /\ DOMAIN ledger.tasks = {}  BY DEF Init
<1>2. IsFiniteSet(DOMAIN ledger.tasks) /\ Cardinality(DOMAIN ledger.tasks) = 0  BY <1>1, FS_EmptySet
<1>3. LedgerOK(ledger, run, real)
  BY <1>1, <1>2 DEF LedgerOK, Whole, Init
<1>4. real \in BOOLEAN  BY FanoutAssumption DEF Init
<1> QED BY <1>3, <1>4 DEF Init, IInv, RunsOK, IsRun, NoRun, RequestOK, Idle, Waiting, Dispatching

(* A ledger that stays, and runs whose ages only move on. *)
LEMMA LedgerStays ==
  ASSUME NEW l, NEW ages, NEW later, NEW flag, LedgerOK(l, ages, flag),
         \A r \in Runs : ages[r].age # "none" => later[r].age # "none"
  PROVE  LedgerOK(l, later, flag)
<1>1. ASSUME NEW id \in DOMAIN l.tasks
      PROVE  /\ id \in Ids /\ l.tasks[id] \subseteq Kids /\ later[id[1]].age # "none"
             /\ id[2] # 0 => l.tasks[id] = {}
  BY DEF LedgerOK, Ids, Id
<1> QED BY <1>1 DEF LedgerOK

LEMMA RunChanges ==
  ASSUME NEW runs, RunsOK(runs), NEW r \in Runs, NEW x, IsRun(x)
  PROVE  RunsOK([runs EXCEPT ![r] = x])
BY DEF RunsOK

LEMMA RunKinds ==
  /\ IsRun(NewRun)
  /\ \A x, a : IsRun(x) => IsRun([x EXCEPT !.age = a]) /\ IsRun([x EXCEPT !.cancelled = a])
<1>1. IsRun(NewRun)  BY DEF IsRun, NewRun, NoRun
<1>2. ASSUME NEW x, NEW a, IsRun(x)
      PROVE  IsRun([x EXCEPT !.age = a]) /\ IsRun([x EXCEPT !.cancelled = a])
  BY <1>2 DEF IsRun
<1> QED BY <1>1, <1>2

LEMMA IInvStep == ASSUME IInv, [Next]_vars PROVE IInv'
<1> USE DEF IInv
<1>1. ASSUME NEW o \in Orders, RefuseRun(o) PROVE IInv'
  <2>1. LedgerOK(ledger', run', real')  BY <1>1, Sweeping DEF RefuseRun
  <2> QED BY <1>1, <2>1 DEF RefuseRun, RunsOK, RequestOK, Waiting
<1>2. ASSUME NEW o \in Orders, RunStub(o) PROVE IInv'
  <2>1. PICK r \in Fresh : /\ ledger' = Enter(Sweep(ledger), r, Planned(o), Slots(o))
                           /\ run' = [run EXCEPT ![r] = NewRun]
    BY <1>2 DEF RunStub
  <2>2. r \in Runs /\ run[r].age = "none"  BY DEF Fresh, Unused
  <2>3. run'[r].age # "none" /\ \A q \in Runs : q # r => run'[q].age = run[q].age
    BY <2>1, <2>2 DEF NewRun, NoRun, RunsOK
  <2>4. LedgerOK(ledger', run', real)
    <3>1. LedgerOK(Sweep(ledger), run, real) /\ (real) \in BOOLEAN  BY Sweeping
    <3>2. Planned(o) \in SUBSET Kids /\ Slots(o) \in Nat /\ Slots(o) = 1 + Cardinality(Planned(o))
      BY OrderKids
    <3>3. 1 + Cardinality(Planned(o)) <= Slots(o)  BY <3>2
    <3>4. LedgerOK(Enter(Sweep(ledger), r, Planned(o), Slots(o)), run', real)
      <4>1. Dated(r, run, run')  BY <2>2, <2>3 DEF Dated
      <4>2. Billed(Planned(o), Slots(o), real)  BY <3>2, <3>3 DEF Billed
      <4> QED BY <3>1, <4>1, <4>2, Entering
    <3> QED BY <2>1, <3>4
  <2>5. RunsOK(run')
    <3>1. RunsOK([run EXCEPT ![r] = NewRun])  BY <2>2, RunChanges, RunKinds
    <3> QED BY <2>1, <3>1
  <2>6. real' = real /\ request' = request  BY <1>2 DEF RunStub
  <2>7. \A c \in Clients : RequestOK(request'[c], real', run')  BY <2>6, <1>2 DEF RequestOK, RunStub, Dispatching
  <2> QED BY <2>4, <2>5, <2>6, <2>7 DEF Waiting
<1>3. ASSUME NEW c \in Clients, NEW o \in Orders, BeginRun(c, o) PROVE IInv'
  <2>1. PICK r \in Fresh, kids \in SUBSET DOMAIN o.list :
          request' = [request EXCEPT ![c] = [at |-> "starting", run |-> r, order |-> o, kids |-> kids]]
    BY <1>3 DEF BeginRun
  <2>2. r \in Runs /\ run[r].age = "none" /\ \A d \in Clients : request[d].run # r
    BY DEF Fresh, Unused
  <2>3. real' = real /\ run' = run /\ real  BY <1>3 DEF BeginRun
  <2>4. LedgerOK(ledger', run', real')  BY <1>3, Sweeping DEF BeginRun
  <2>5. \A d \in Clients : RequestOK(request'[d], real', run')
    BY <2>1, <2>2, <2>3 DEF RequestOK, Dispatching
  <2>6. \A d, e \in Waiting' : request'[d].run = request'[e].run => d = e
    BY <2>1, <2>2 DEF Waiting, Dispatching
  <2> QED BY <2>1, <2>3, <2>4, <2>5, <2>6 DEF RunsOK
<1>4. ASSUME NEW c \in Clients, StartFlow(c) PROVE IInv'
  <2>1. /\ request[c].at = "starting" /\ request' = [request EXCEPT ![c].at = "started"]
        /\ real' = real /\ run' = run /\ ledger' = ledger
    BY <1>4 DEF StartFlow
  <2> QED BY <2>1 DEF RunsOK, RequestOK, Waiting, Dispatching
<1>5. ASSUME NEW c \in Clients, StartFails(c) \/ AskFails(c) PROVE IInv'
  <2>1. /\ request' = [request EXCEPT ![c] = Idle]
        /\ real' = real /\ run' = run /\ ledger' = ledger
    BY <1>5 DEF StartFails, AskFails
  <2> QED BY <2>1 DEF RunsOK, RequestOK, Waiting, Dispatching, Idle
<1>6. ASSUME NEW c \in Clients, RecordRun(c) PROVE IInv'
  <2> DEFINE q == request[c]
  <2>1. /\ ledger' = Enter(ledger, q.run, q.kids, Slots(q.order))
        /\ run' = [run EXCEPT ![q.run] = NewRun]
        /\ request' = [request EXCEPT ![c] = Idle]
        /\ q.at = "started" /\ real' = real
    BY <1>6 DEF RecordRun
  <2>2. /\ q.run \in Runs /\ run[q.run].age = "none" /\ real
        /\ q.order \in Orders /\ q.kids \in SUBSET DOMAIN q.order.list
    BY <2>1 DEF RequestOK, Dispatching
  <2>3. run'[q.run].age # "none" /\ \A r \in Runs : r # q.run => run'[r].age = run[r].age
    BY <2>1, <2>2 DEF NewRun, NoRun, RunsOK
  <2>4. q.kids \in SUBSET Kids /\ Slots(q.order) \in Nat /\ 1 + Cardinality(q.kids) <= Slots(q.order)
    <3>1. /\ DOMAIN q.order.list \subseteq Kids /\ IsFiniteSet(DOMAIN q.order.list)
          /\ Slots(q.order) = 1 + Cardinality(DOMAIN q.order.list) /\ Slots(q.order) \in Nat
      BY <2>2, OrderKids
    <3>2. /\ Cardinality(q.kids) <= Cardinality(DOMAIN q.order.list) /\ Cardinality(q.kids) \in Nat
          /\ Cardinality(DOMAIN q.order.list) \in Nat
      BY <2>2, <3>1, FS_Subset, FS_CardinalityType
    <3> QED BY <2>2, <3>1, <3>2
  <2>5. LedgerOK(ledger', run', real)
    <3>1. LedgerOK(ledger, run, real)  BY DEF LedgerOK
    <3>2. LedgerOK(Enter(ledger, q.run, q.kids, Slots(q.order)), run', real)
      <4>1. Dated(q.run, run, run')  BY <2>2, <2>3 DEF Dated
      <4>2. Billed(q.kids, Slots(q.order), real)  BY <2>2, <2>4 DEF Billed
      <4> QED BY <3>1, <4>1, <4>2, Entering
    <3> QED BY <2>1, <3>2
  <2>6. LedgerOK(ledger', run', real')  BY <2>5, <2>1, <2>2 DEF LedgerOK
  <2>7. RunsOK(run')
    <3>1. RunsOK([run EXCEPT ![q.run] = NewRun])  BY <2>2, RunChanges, RunKinds
    <3> QED BY <2>1, <3>1
  <2>8. ASSUME NEW d \in Clients PROVE RequestOK(request'[d], real', run')
    <3>1. CASE d = c  BY <2>1, <3>1 DEF RequestOK, Dispatching, Idle
    <3>2. CASE d # c
      <4>1. request'[d] = request[d]  BY <3>2, <2>1
      <4>2. request[d].at \in Dispatching => run'[request[d].run].age = run[request[d].run].age
        <5>1. request[d].at \in Dispatching => request[d].run # q.run /\ request[d].run \in Runs
          BY <3>2, <2>1 DEF Waiting, Dispatching, RequestOK
        <5> QED BY <5>1, <2>3
      <4> QED BY <4>1, <4>2, <2>1 DEF RequestOK
    <3> QED BY <3>1, <3>2
  <2>9. Waiting' \subseteq Waiting /\ \A d \in Waiting' : request'[d] = request[d]
    BY <2>1 DEF Waiting, Dispatching, Idle
  <2>10. request' = [d \in Clients |-> request'[d]]  BY <2>1
  <2> QED BY <2>1, <2>6, <2>7, <2>8, <2>9, <2>10
<1>7. ASSUME NEW c \in Clients, EvictRun(c) PROVE IInv'
  <2> DEFINE q == request[c]
  <2>1. /\ ledger' = Evict(ledger, Family(q.run))
        /\ run' = [run EXCEPT ![q.run].cancelled = TRUE]
        /\ request' = [request EXCEPT ![c] = Idle]
        /\ q.at = "cancelling" /\ real' = real
    BY <1>7 DEF EvictRun
  <2>2. q.run \in Runs  BY <2>1 DEF RequestOK
  <2>3. \A r \in Runs : run'[r].age = run[r].age  BY <2>1, <2>2 DEF RunsOK, IsRun
  <2>4. LedgerOK(ledger', run', real')
    <3>1. LedgerOK(ledger', run, real')  BY <2>1, <2>2, CancellingFamily
    <3>2. \A r \in Runs : run[r].age # "none" => run'[r].age # "none"  BY <2>3
    <3> QED BY <3>1, <3>2, LedgerStays, Zenon
  <2>5. RunsOK(run')
    <3>1. IsRun([run[q.run] EXCEPT !.cancelled = TRUE])  BY <2>2, RunKinds DEF RunsOK
    <3>2. RunsOK([run EXCEPT ![q.run] = [run[q.run] EXCEPT !.cancelled = TRUE]])
      BY <2>2, <3>1, RunChanges
    <3> QED BY <2>1, <3>2
  <2>6. ASSUME NEW d \in Clients PROVE RequestOK(request'[d], real', run')
    <3>1. RequestOK(request[d], real, run)  OBVIOUS
    <3>2. CASE d = c  BY <2>1, <3>2 DEF RequestOK, Dispatching, Idle
    <3>3. CASE d # c
      <4>1. request'[d] = request[d]  BY <2>1, <3>3
      <4>2. request[d].at # "idle" => run'[request[d].run].age = run[request[d].run].age
        BY <3>1, <2>3 DEF RequestOK
      <4> QED BY <2>1, <3>1, <4>1, <4>2 DEF RequestOK, Dispatching
    <3> QED BY <3>2, <3>3
  <2> QED BY <2>1, <2>4, <2>5, <2>6 DEF Waiting, Dispatching, Idle
<1>8. ASSUME NEW c \in Clients, NEW r \in Runs, AskCancel(c, r) PROVE IInv'
  <2>1. /\ request' = [request EXCEPT ![c] = [Idle EXCEPT !.at = "cancelling", !.run = r]]
        /\ real' = real /\ run' = run /\ ledger' = ledger /\ real
    BY <1>8 DEF AskCancel
  <2> QED BY <2>1 DEF RunsOK, RequestOK, Waiting, Dispatching, Idle
<1>9. ASSUME NEW r \in Runs, CancelStub(r) PROVE IInv'
  <2>1. /\ ledger' = Evict(ledger, Family(r))
        /\ run' = [run EXCEPT ![r].cancelled = TRUE]
        /\ request' = request /\ real' = real
    BY <1>9 DEF CancelStub
  <2>2. \A q \in Runs : run'[q].age = run[q].age  BY <2>1 DEF RunsOK, IsRun
  <2>3. LedgerOK(ledger', run', real')
    <3>1. LedgerOK(ledger', run, real')  BY <2>1, CancellingFamily
    <3>2. \A q \in Runs : run[q].age # "none" => run'[q].age # "none"  BY <2>2
    <3> QED BY <3>1, <3>2, LedgerStays, Zenon
  <2>4. RunsOK(run')
    <3>1. IsRun([run[r] EXCEPT !.cancelled = TRUE])  BY RunKinds DEF RunsOK
    <3>2. RunsOK([run EXCEPT ![r] = [run[r] EXCEPT !.cancelled = TRUE]])  BY <3>1, RunChanges
    <3> QED BY <2>1, <3>2
  <2>5. \A d \in Clients : RequestOK(request'[d], real', run')  BY <2>1, <2>2 DEF RequestOK
  <2> QED BY <2>1, <2>3, <2>4, <2>5 DEF Waiting
<1>10. ASSUME NEW r \in Runs, NEW i \in Kids, CancelStubChild(r, i) PROVE IInv'
  <2>1. LedgerOK(ledger', run, real)  BY <1>10, CancellingChild
  <2> QED BY <1>10, <2>1 DEF CancelStubChild, RunsOK, RequestOK, Waiting
<1>11. ASSUME NEW r \in Runs, Tick(r) PROVE IInv'
  <2>1. /\ run' = [run EXCEPT ![r].age = IF @ = "running" /\ ~real THEN "completed" ELSE "expired"]
        /\ request' = request /\ real' = real /\ ledger' = ledger
        /\ run[r].age # "none"
    BY <1>11 DEF Tick
  <2>2. \A q \in Runs : run[q].age # "none" <=> run'[q].age # "none"  BY <2>1 DEF RunsOK, IsRun
  <2>3. LedgerOK(ledger', run', real')
    <3>1. LedgerOK(ledger', run, real')  BY <2>1
    <3>2. \A q \in Runs : run[q].age # "none" => run'[q].age # "none"  BY <2>2
    <3> QED BY <3>1, <3>2, LedgerStays, Zenon
  <2>4. RunsOK(run')
    <3> DEFINE a == IF run[r].age = "running" /\ ~real THEN "completed" ELSE "expired"
    <3>1. IsRun([run[r] EXCEPT !.age = a])  BY RunKinds DEF RunsOK
    <3>2. RunsOK([run EXCEPT ![r] = [run[r] EXCEPT !.age = a]])  BY <3>1, RunChanges
    <3> QED BY <2>1, <3>2
  <2>5. \A d \in Clients : RequestOK(request'[d], real', run')  BY <2>1, <2>2 DEF RequestOK
  <2> QED BY <2>1, <2>3, <2>4, <2>5 DEF Waiting
<1>12. ASSUME Restart PROVE IInv'
  <2>1. /\ ledger'.tasks = <<>> /\ ledger'.count = 0 /\ DOMAIN ledger'.tasks = {}
        /\ ledger' = [tasks |-> <<>>, count |-> 0]
        /\ request' = [c \in Clients |-> Idle] /\ real' = real /\ run' = run
    BY <1>12 DEF Restart
  <2>2. IsFiniteSet(DOMAIN ledger'.tasks) /\ Cardinality(DOMAIN ledger'.tasks) = 0
    BY <2>1, FS_EmptySet
  <2>3. LedgerOK(ledger', run', real')  BY <2>1, <2>2 DEF LedgerOK, Whole
  <2> QED BY <2>1, <2>3 DEF RunsOK, RequestOK, Idle, Waiting, Dispatching
<1>13. ASSUME UNCHANGED <<real, ledger, run, request>> PROVE IInv'
  BY <1>13 DEF RunsOK, RequestOK, Waiting
<1>14. ASSUME NEW r \in Runs, Workflow(r) PROVE IInv'
  BY <1>13, <1>14 DEF Workflow, Gather, Decide, CloseCancelled
<1>15. ASSUME NEW r \in Runs, NEW i \in Kids, Child(r, i) PROVE IInv'
  BY <1>13, <1>15 DEF Child, ChildEnds, ChildStopped
<1>16. ASSUME NEW w \in Watchers, Poll(w) \/ GiveUp(w) PROVE IInv'
  BY <1>13, <1>16 DEF Poll, GiveUp
<1>17. ASSUME NEW w \in Watchers, NEW id \in Ids, OpenStream(w, id) PROVE IInv'
  BY <1>13, <1>17 DEF OpenStream
<1>18. CASE UNCHANGED vars  BY <1>13, <1>18 DEF vars
<1> HIDE DEF IInv
<1> QED BY <1>1, <1>2, <1>3, <1>4, <1>5, <1>6, <1>7, <1>8, <1>9, <1>10, <1>11, <1>12, <1>14, <1>15,
           <1>16, <1>17, <1>18 DEF Next, Handler

(* A record is never orphaned, nor a listed child without its record. *)
THEOREM FamiliesAlwaysWhole == Spec => []FamiliesWhole
<1>1. IInv => FamiliesWhole  BY DEF IInv, LedgerOK, FamiliesWhole
<1> QED BY IInvInit, IInvStep, <1>1, PTL DEF Spec

(* The counter covers the records, and counts them in the stub. *)
THEOREM CountAlwaysCovers == Spec => []CountCovers
<1>1. IInv => CountCovers  BY DEF IInv, LedgerOK, CountCovers
<1> QED BY IInvInit, IInvStep, <1>1, PTL DEF Spec

-----------------------------------------------------------------------------
(* The cap. *)

Size(o) == 1 + Cardinality(DOMAIN o.list)
Full(n) == n * (1 + MaxKids)
Most == Cap + Full(Cardinality(Clients) - 1)

(* A dispatch that waits leaves room for its own slots, and for a full order
   of every other dispatch that waits. *)
Room(count, waiting, q) ==
  waiting # {} => \E c \in waiting : count + Size(q[c].order) + Full(Cardinality(waiting) - 1) <= Most

CapInv ==
  /\ real = TRUE => ledger.count <= Most /\ Room(ledger.count, Waiting, request)
  /\ real = FALSE => ledger.count <= Cap

LEMMA Sizes ==
  ASSUME NEW o \in Orders
  PROVE  /\ Size(o) \in Nat /\ Size(o) \in 1..(1 + MaxKids)
         /\ real = TRUE => Slots(o) = Size(o)
<1>1. o.list \in Seq(Providers) /\ Len(o.list) \in 1..MaxKids /\ MaxKids \in Nat
  BY FanoutAssumption DEF Kids
<1>2. DOMAIN o.list = 1..Len(o.list)  BY <1>1
<1>3. Cardinality(DOMAIN o.list) = Len(o.list)
  <2>1. Len(o.list) \in Int /\ 1 \in Int  BY <1>1
  <2>2. Cardinality(1..Len(o.list)) = Len(o.list)
    BY <2>1, <1>1, FS_Interval
  <2> QED BY <2>2, <1>2
<1>4. Size(o) \in 1..(1 + MaxKids)  BY <1>1, <1>3 DEF Size
<1>5. real = TRUE => Slots(o) = Size(o)  BY DEF Slots, Planned, Size
<1> QED BY <1>1, <1>4, <1>5

LEMMA FullOrders ==
  /\ \A n \in Nat : Full(n) \in Nat /\ Full(n + 1) = Full(n) + 1 + MaxKids
  /\ \A m, n \in Nat : m <= n => Full(m) <= Full(n)
<1>1. MaxKids \in Nat  BY FanoutAssumption
<1>2. ASSUME NEW n \in Nat PROVE Full(n) \in Nat /\ Full(n + 1) = Full(n) + 1 + MaxKids
  BY <1>1 DEF Full
<1>3. ASSUME NEW m \in Nat, NEW n \in Nat, m <= n PROVE Full(m) <= Full(n)
  <2>1. PICK d \in Nat : n = m + d  BY <1>3
  <2>2. Full(n) = Full(m) + d * (1 + MaxKids)  BY <1>1, <2>1 DEF Full
  <2>3. d * (1 + MaxKids) \in Nat /\ Full(m) \in Nat  BY <1>1 DEF Full
  <2> QED BY <2>2, <2>3
<1> QED BY <1>2, <1>3

LEMMA CapFacts ==
  /\ Cap \in Nat /\ MaxKids \in Nat /\ Cardinality(Clients) \in Nat \ {0}
  /\ Most \in Nat /\ Cap <= Most
  /\ IsFiniteSet(Waiting) /\ Cardinality(Waiting) \in Nat
  /\ Waiting # {} => Cardinality(Waiting) \in Nat \ {0}
<1>1. Cap \in Nat /\ MaxKids \in Nat /\ IsFiniteSet(Clients) /\ Clients # {}  BY FanoutAssumption
<1>2. Cardinality(Clients) \in Nat \ {0}  BY <1>1, FS_CardinalityType, FS_EmptySet
<1>3. Full(Cardinality(Clients) - 1) \in Nat  BY <1>2, FullOrders
<1>4. Waiting \in SUBSET Clients  BY DEF Waiting
<1>5. IsFiniteSet(Waiting) /\ Cardinality(Waiting) \in Nat  BY <1>1, <1>4, FS_Subset, FS_CardinalityType
<1>6. Waiting # {} => Cardinality(Waiting) # 0  BY <1>5, FS_EmptySet
<1> QED BY <1>1, <1>2, <1>3, <1>5, <1>6 DEF Most

(* A dispatch that stops waiting, its run recorded or not. *)
LEMMA Leaving ==
  ASSUME IInv, CapInv, NEW c \in Waiting, NEW count \in Nat, NEW q,
         count <= ledger.count + Size(request[c].order),
         \A d \in Waiting \ {c} : q[d] = request[d]
  PROVE  real = TRUE => count <= Most /\ Room(count, Waiting \ {c}, q)
<1> SUFFICES ASSUME real = TRUE
             PROVE  count <= Most /\ Room(count, Waiting \ {c}, q)
  OBVIOUS
<1> DEFINE rest == Waiting \ {c}
           S(d) == Size(request[d].order)
<1>1. \A d \in Waiting : S(d) \in 1..(1 + MaxKids)
  BY Sizes DEF IInv, RequestOK, Waiting
<1>2. IsFiniteSet(rest) /\ Cardinality(rest) = Cardinality(Waiting) - 1
  BY CapFacts, FS_RemoveElement
<1>3. ledger.count \in Nat  BY DEF IInv, LedgerOK
<1>4. PICK d \in Waiting : ledger.count + S(d) + Full(Cardinality(Waiting) - 1) <= Most
  BY DEF CapInv, Room
<1> HIDE DEF S, rest
<1>5. CASE rest = {}
  <2>1. d = c  BY <1>5 DEF rest
  <2>2. Full(Cardinality(Waiting) - 1) \in Nat
    <3>1. Cardinality(Waiting) - 1 \in Nat  BY CapFacts
    <3> QED BY <3>1, FullOrders
  <2>3. count <= Most  BY <2>1, <2>2, <1>1, <1>3, <1>4, CapFacts DEF S
  <2> QED BY <2>3, <1>5 DEF Room, rest
<1>6. CASE rest # {}
  <2>1. Cardinality(rest) \in Nat \ {0}  BY <1>2, <1>6, FS_CardinalityType, FS_EmptySet
  <2>2. /\ Full(Cardinality(rest) - 1) \in Nat
        /\ Full(Cardinality(Waiting) - 1) = Full(Cardinality(rest) - 1) + 1 + MaxKids
    <3>1. PICK n \in Nat : n = Cardinality(rest) - 1  BY <2>1
    <3>2. Full(n) \in Nat /\ Full(n + 1) = Full(n) + 1 + MaxKids  BY FullOrders
    <3>3. n + 1 = Cardinality(Waiting) - 1  BY <3>1, <2>1, <1>2, CapFacts
    <3> QED BY <3>1, <3>2, <3>3
  <2>3. \E e \in rest : count + S(e) + Full(Cardinality(rest) - 1) <= Most
    <3>1. CASE d = c
      <4>1. PICK e \in rest : TRUE  BY <1>6
      <4>2. e \in Waiting  BY DEF rest
      <4>3. count <= ledger.count + S(c)  BY DEF S
      <4> QED BY <3>1, <4>2, <4>3, <1>1, <1>3, <1>4, <2>2, CapFacts
    <3>2. CASE d # c
      <4>1. d \in rest  BY <3>2 DEF rest
      <4>2. count <= ledger.count + S(c)  BY DEF S
      <4> QED BY <4>1, <4>2, <1>1, <1>3, <1>4, <2>2, CapFacts
    <3> QED BY <3>1, <3>2
  <2>4. PICK e \in rest : count + S(e) + Full(Cardinality(rest) - 1) <= Most  BY <2>3
  <2>5. S(e) \in Nat /\ S(e) = Size(q[e].order)  BY <1>1 DEF rest, S
  <2>6. count <= Most  BY <2>2, <2>4, <2>5, CapFacts
  <2> QED BY <2>4, <2>5, <2>6 DEF Room, rest
<1> QED BY <1>5, <1>6

(* A counter that does not grow keeps the room of the dispatches that wait. *)
LEMMA Shrinking ==
  ASSUME IInv, CapInv, real' = real, NEW count \in Nat, count <= ledger.count, NEW q,
         \A d \in Waiting : q[d].order = request[d].order
  PROVE  /\ real = TRUE => count <= Most /\ Room(count, Waiting, q)
         /\ real = FALSE => count <= Cap
<1>1. ledger.count \in Nat  BY DEF IInv, LedgerOK
<1>2. CASE real = TRUE
  <2>1. count <= Most  BY <1>1, <1>2, CapFacts DEF CapInv
  <2>2. ASSUME Waiting # {}
        PROVE  \E c \in Waiting : count + Size(q[c].order) + Full(Cardinality(Waiting) - 1) <= Most
    <3>1. PICK c \in Waiting :
            ledger.count + Size(request[c].order) + Full(Cardinality(Waiting) - 1) <= Most
      BY <1>2, <2>2 DEF CapInv, Room
    <3>2. Size(request[c].order) \in Nat
      <4>1. request[c].order \in Orders  BY DEF IInv, RequestOK, Waiting
      <4> QED BY <4>1, Sizes, Zenon
    <3>3. PICK n \in Nat : n = Cardinality(Waiting) - 1  BY <2>2, CapFacts
    <3>4. Full(n) \in Nat  BY FullOrders
    <3>5. count + Size(q[c].order) + Full(Cardinality(Waiting) - 1) <= Most
      BY <3>1, <3>2, <3>3, <3>4, <1>1, CapFacts
    <3> QED BY <3>5
  <2> QED BY <1>2, <2>1, <2>2 DEF Room
<1>3. CASE real = FALSE  BY <1>1, <1>3, CapFacts DEF CapInv
<1> QED BY <1>2, <1>3 DEF IInv

LEMMA CapInvStep == ASSUME IInv, IInv', CapInv, [Next]_vars PROVE CapInv'
<1> USE DEF CapInv
<1>1. real \in BOOLEAN /\ ledger.count \in Nat /\ ledger'.count \in Nat
  BY DEF IInv, LedgerOK
<1>2. ASSUME real' = real, ledger'.count <= ledger.count, Waiting' = Waiting,
             \A d \in Waiting : request'[d].order = request[d].order
      PROVE  CapInv'
  BY <1>1, <1>2, Shrinking
<1>3. ASSUME NEW o \in Orders, RefuseRun(o) PROVE CapInv'
  <2>1. ledger'.count <= ledger.count  BY <1>3, Sweeping DEF RefuseRun, IInv
  <2> QED BY <1>2, <1>3, <2>1 DEF RefuseRun, Waiting
<1>4. ASSUME NEW o \in Orders, RunStub(o) PROVE CapInv'
  <2>1. PICK r \in Fresh : ledger' = Enter(Sweep(ledger), r, Planned(o), Slots(o))
    BY <1>4 DEF RunStub
  <2>2. ledger'.count = Sweep(ledger).count + Slots(o)  BY <2>1 DEF Enter
  <2>3. Sweep(ledger).count + Slots(o) <= Cap /\ ~real /\ real' = real  BY <1>4 DEF RunStub, Fits
  <2> QED BY <2>2, <2>3
<1>5. ASSUME NEW c \in Clients, NEW o \in Orders, BeginRun(c, o) PROVE CapInv'
  <2>1. /\ real /\ real' = real /\ ledger' = Sweep(ledger) /\ c \notin Waiting
        /\ Sweep(ledger).count + Slots(o) <= Cap
        /\ request'[c].at = "starting" /\ request'[c].order = o
        /\ \A d \in Clients \ {c} : request'[d] = request[d]
    BY <1>5 DEF BeginRun, Fits, Waiting, Dispatching, IInv
  <2>2. Waiting' = Waiting \cup {c}  BY <2>1 DEF Waiting, Dispatching
  <2>3. Slots(o) = Size(o) /\ Size(o) \in Nat  BY <2>1, <1>1, Sizes, CapFacts
  <2>4. Cardinality(Waiting') \in Nat \ {0} /\ Cardinality(Waiting') <= Cardinality(Clients)
    <3>1. Waiting' \in SUBSET Clients /\ Waiting' # {}  BY <2>2 DEF Waiting
    <3>2. IsFiniteSet(Waiting') /\ Cardinality(Waiting') <= Cardinality(Clients)
      BY <3>1, FanoutAssumption, FS_Subset
    <3> QED BY <3>1, <3>2, FS_CardinalityType, FS_EmptySet
  <2>5. Full(Cardinality(Waiting') - 1) \in Nat
        /\ Full(Cardinality(Waiting') - 1) <= Full(Cardinality(Clients) - 1)
    <3>1. PICK m \in Nat, n \in Nat : m = Cardinality(Waiting') - 1 /\ n = Cardinality(Clients) - 1
      BY <2>4, CapFacts
    <3>2. Full(m) \in Nat /\ Full(m) <= Full(n)  BY <3>1, <2>4, FullOrders, CapFacts
    <3> QED BY <3>1, <3>2
  <2>6. Most = Cap + Full(Cardinality(Clients) - 1) /\ Full(Cardinality(Clients) - 1) \in Nat
    <3>1. PICK n \in Nat : n = Cardinality(Clients) - 1  BY CapFacts
    <3> QED BY <3>1, FullOrders DEF Most
  <2>7. ledger'.count + Size(o) + Full(Cardinality(Waiting') - 1) <= Most
    BY <1>1, <2>1, <2>3, <2>5, <2>6, CapFacts
  <2>8. ledger'.count <= Most  BY <1>1, <2>1, <2>3, <2>6, CapFacts
  <2>9. Room(ledger.count, Waiting, request)'
    <3>1. c \in Waiting'  BY <2>2
    <3>2. ledger'.count + Size(request'[c].order) + Full(Cardinality(Waiting') - 1) <= Most
      BY <2>1, <2>7
    <3> QED BY <3>1, <3>2 DEF Room
  <2> QED BY <2>1, <2>8, <2>9
<1>6. ASSUME NEW c \in Clients, StartFlow(c) PROVE CapInv'
  <2>1. /\ request[c].at = "starting" /\ request' = [request EXCEPT ![c].at = "started"]
        /\ real' = real /\ ledger' = ledger
    BY <1>6 DEF StartFlow
  <2>2. Waiting' = Waiting /\ \A d \in Waiting : request'[d].order = request[d].order
    BY <2>1 DEF Waiting, Dispatching, IInv, RequestOK
  <2>3. ledger'.count <= ledger.count  BY <1>1, <2>1
  <2> QED BY <1>2, <2>1, <2>2, <2>3
<1>7. ASSUME NEW c \in Waiting, real' = real, request' = [request EXCEPT ![c] = Idle],
             ledger'.count <= ledger.count + Size(request[c].order)
      PROVE  CapInv'
  <2>1. real = TRUE  BY DEF Waiting, Dispatching, IInv, RequestOK
  <2>2. Waiting' = Waiting \ {c} /\ \A d \in Waiting \ {c} : request'[d] = request[d]
    BY <1>7 DEF Waiting, Dispatching, Idle, IInv
  <2>3. ledger'.count <= Most /\ Room(ledger'.count, Waiting \ {c}, request')
    BY <1>1, <1>7, <2>1, <2>2, Leaving
  <2> QED BY <1>7, <2>1, <2>2, <2>3
<1>8. ASSUME NEW c \in Clients, StartFails(c) PROVE CapInv'
  <2>1. c \in Waiting  BY <1>8 DEF StartFails, Waiting, Dispatching
  <2>2. Size(request[c].order) \in Nat
    <3>1. request[c].order \in Orders  BY <2>1 DEF IInv, RequestOK, Waiting
    <3> QED BY <3>1, Sizes, Zenon
  <2>3. real' = real /\ ledger' = ledger /\ request' = [request EXCEPT ![c] = Idle]
    BY <1>8 DEF StartFails
  <2>4. ledger'.count <= ledger.count + Size(request[c].order)  BY <1>1, <2>2, <2>3
  <2> QED BY <1>7, <2>1, <2>3, <2>4
<1>9. ASSUME NEW c \in Clients, RecordRun(c) PROVE CapInv'
  <2>1. c \in Waiting  BY <1>9 DEF RecordRun, Waiting, Dispatching
  <2>2. real = TRUE /\ request[c].order \in Orders
    BY <2>1 DEF Waiting, Dispatching, IInv, RequestOK
  <2>3. Size(request[c].order) \in Nat /\ Slots(request[c].order) = Size(request[c].order)
    BY <2>2, Sizes, CapFacts
  <2>4. ledger'.count = ledger.count + Slots(request[c].order)  BY <1>9 DEF RecordRun, Enter
  <2>5. real' = real /\ request' = [request EXCEPT ![c] = Idle]  BY <1>9 DEF RecordRun
  <2>6. ledger'.count <= ledger.count + Size(request[c].order)  BY <1>1, <2>3, <2>4
  <2> QED BY <1>7, <2>1, <2>5, <2>6
<1>10. ASSUME NEW c \in Clients, EvictRun(c) \/ AskFails(c) \/ (\E r \in Runs : AskCancel(c, r))
       PROVE  CapInv'
  <2>1. real' = real /\ c \notin Waiting
    BY <1>10 DEF EvictRun, AskFails, AskCancel, Waiting, Dispatching
  <2>2. Waiting' = Waiting /\ \A d \in Waiting : request'[d].order = request[d].order
    <3>1. PICK q : request' = [request EXCEPT ![c] = q] /\ q.at \notin Dispatching
      <4>1. Idle.at \notin Dispatching
        BY DEF Idle, Dispatching
      <4>2. ASSUME NEW r \in Runs
            PROVE  [[Idle EXCEPT !.at = "cancelling"] EXCEPT !.run = r].at \notin Dispatching
        BY DEF Idle, Dispatching
      <4>3. CASE EvictRun(c) \/ AskFails(c)  BY <4>1, <4>3 DEF EvictRun, AskFails
      <4>4. CASE \E r \in Runs : AskCancel(c, r)  BY <4>2, <4>4 DEF AskCancel
      <4> QED BY <1>10, <4>3, <4>4
    <3>2. request' = [d \in Clients |-> IF d = c THEN q ELSE request[d]]  BY <3>1 DEF IInv
    <3> QED BY <2>1, <3>1, <3>2 DEF Waiting
  <2>3. ledger'.count <= ledger.count
    <3>1. CASE EvictRun(c)
      <4>1. request[c].run \in Runs /\ LedgerOK(ledger, run, real)
        BY <3>1 DEF EvictRun, IInv, RequestOK
      <4> QED BY <3>1, <4>1, CancellingFamily DEF EvictRun
    <3>2. CASE ledger' = ledger  BY <3>2, <1>1
    <3> QED BY <1>10, <3>1, <3>2 DEF AskFails, AskCancel
  <2> QED BY <1>2, <2>1, <2>2, <2>3
<1>11. ASSUME NEW r \in Runs, CancelStub(r) PROVE CapInv'
  <2>1. ledger'.count <= ledger.count  BY <1>11, CancellingFamily DEF CancelStub, IInv
  <2> QED BY <1>2, <1>11, <2>1 DEF CancelStub, Waiting
<1>12. ASSUME NEW r \in Runs, NEW i \in Kids, CancelStubChild(r, i) PROVE CapInv'
  <2>1. ledger'.count <= ledger.count  BY <1>12, CancellingChild DEF IInv
  <2> QED BY <1>2, <1>12, <2>1 DEF CancelStubChild, Waiting
<1>13. ASSUME Restart PROVE CapInv'
  <2>1. real' = real /\ ledger'.count = 0 /\ Waiting' = {}
    BY <1>13 DEF Restart, Waiting, Dispatching, Idle
  <2> QED BY <2>1, CapFacts DEF Room
<1>14. ASSUME UNCHANGED <<real, ledger, request>> PROVE CapInv'
  <2>1. real' = real /\ ledger' = ledger /\ request' = request /\ Waiting' = Waiting
    BY <1>14 DEF Waiting
  <2>2. ledger'.count <= ledger.count  BY <1>1, <2>1
  <2> QED BY <1>2, <2>1, <2>2
<1>15. ASSUME NEW r \in Runs, Workflow(r) \/ Tick(r) PROVE CapInv'
  BY <1>14, <1>15 DEF Workflow, Gather, Decide, CloseCancelled, Tick
<1>16. ASSUME NEW r \in Runs, NEW i \in Kids, Child(r, i) PROVE CapInv'
  BY <1>14, <1>16 DEF Child, ChildEnds, ChildStopped
<1>17. ASSUME NEW w \in Watchers, Poll(w) \/ GiveUp(w) \/ (\E id \in Ids : OpenStream(w, id))
       PROVE  CapInv'
  BY <1>14, <1>17 DEF Poll, GiveUp, OpenStream
<1>18. CASE UNCHANGED vars  BY <1>14, <1>18 DEF vars
<1> HIDE DEF CapInv
<1> QED BY <1>3, <1>4, <1>5, <1>6, <1>8, <1>9, <1>10, <1>11, <1>12, <1>13, <1>15, <1>16, <1>17, <1>18
        DEF Next, Handler

(* The cap holds in the stub; dispatches that wait for Temporal together exceed
   it by a full order for each of the others, at most. *)
THEOREM CapAlwaysHeld == Spec => []CapHeld
<1>1. Init => CapInv
  <2>1. Init => ledger.count = 0 /\ Waiting = {}  BY DEF Init, Waiting, Dispatching, Idle
  <2> QED BY <2>1, CapFacts DEF CapInv, Room
<1>2. IInv /\ CapInv => CapHeld
  <2>1. ASSUME CapInv, real \in BOOLEAN PROVE CapHeld
    <3>1. (Cardinality(Clients) - 1) * (1 + MaxKids) = Full(Cardinality(Clients) - 1)  BY DEF Full
    <3> QED BY <2>1, <3>1 DEF CapInv, CapHeld, Most
  <2> QED BY <2>1 DEF IInv
<1> QED BY IInvInit, IInvStep, CapInvStep, <1>1, <1>2, PTL DEF Spec

-----------------------------------------------------------------------------
(* Cancels. *)

(* What a watcher may be told of as cancelled. *)
Over(r) == run[r].cancelled \/ flow[r].asked \/ run[r].age = "expired"

(* A workflow that was asked to cancel does not complete, none closes as
   cancelled unasked, and the stub has none. *)
FlowOK(f, flag) ==
  /\ f = [x \in DOMAIN NoFlow |-> f[x]]
  /\ f.asked => f.at \in {"running", "cancelled"}
  /\ f.at = "cancelled" => f.asked
  /\ ~flag => f.at = "none"

CancelledOK(r) ==
  run[r].cancelled => /\ run[r].age # "none"
                      /\ real => flow[r].asked
                      /\ \A id \in DOMAIN ledger.tasks : id[1] # r

HandlerOK(q) ==
  /\ q.at = "cancelling" => flow[q.run].asked /\ run[q.run].age # "none"
  /\ q.at = "starting" => flow[q.run].at = "none"

StreamOK(s) ==
  /\ s = [x \in DOMAIN NoStream |-> s[x]]
  /\ s.at # "closed" => s.id \in Ids
  /\ s.told = "cancelled" => s.at = "ended" /\ (Over(s.id[1]) \/ s.id[2] # 0)
  /\ ~real /\ s.at = "open" /\ s.id[2] = 0 => s.id \in DOMAIN ledger.tasks \/ Over(s.id[1])

CancelInv ==
  /\ flow = [r \in Runs |-> flow[r]]
  /\ \A r \in Runs : FlowOK(flow[r], real)
  /\ \A r \in Runs : CancelledOK(r)
  /\ \A c \in Clients : HandlerOK(request[c])
  /\ stream = [w \in Watchers |-> stream[w]]
  /\ \A w \in Watchers : StreamOK(stream[w])

LEMMA CancelInit == ASSUME Init PROVE CancelInv
BY DEF Init, CancelInv, FlowOK, NoFlow, CancelledOK, NoRun, HandlerOK, Idle, StreamOK, NoStream

(* Watchers keep what they know while what is over stays over and no record
   of a stub's run goes without its end. *)
LEMMA StreamsStay ==
  ASSUME IInv, CancelInv, real' = real, stream' = stream,
         \A r \in Runs : Over(r) => Over(r)',
         \A id \in DOMAIN ledger.tasks :
           id \in DOMAIN ledger'.tasks \/ Over(id[1])' \/ id[2] # 0 \/ real
  PROVE  /\ stream' = [w \in Watchers |-> stream'[w]]
         /\ \A w \in Watchers : StreamOK(stream[w])'
<1>1. ASSUME NEW w \in Watchers PROVE StreamOK(stream[w])'
  <2>1. StreamOK(stream[w])  BY DEF CancelInv
  <2>2. \A id \in Ids : id[1] \in Runs  BY DEF Ids, Id
  <2> QED BY <2>1, <2>2 DEF StreamOK
<1> QED BY <1>1 DEF CancelInv

(* A sweep takes the records of runs that expired, and no others. *)
LEMMA Swept ==
  ASSUME IInv
  PROVE  /\ DOMAIN Sweep(ledger).tasks \subseteq DOMAIN ledger.tasks
         /\ \A id \in DOMAIN ledger.tasks :
              id \in DOMAIN Sweep(ledger).tasks \/ run[id[1]].age = "expired"
<1> DEFINE ids == {id \in DOMAIN ledger.tasks : run[id[1]].age = "expired"}
<1>1. \A a, b \in DOMAIN ledger.tasks : a[1] = b[1] => (a \in ids <=> b \in ids)  OBVIOUS
<1>2. Sweep(ledger) = Evict(ledger, ids)  BY DEF Sweep
<1>3. DOMAIN Evict(ledger, ids).tasks = DOMAIN ledger.tasks \ ids
  <2> HIDE DEF ids
  <2> QED BY <1>1, Evicting DEF IInv
<1> QED BY <1>2, <1>3

LEMMA EnteredIds ==
  ASSUME NEW l, NEW r, NEW kids, NEW billed
  PROVE  DOMAIN Enter(l, r, kids, billed).tasks = DOMAIN l.tasks \cup {Id(r, i) : i \in {0} \cup kids}
BY DEF Enter

(* A cancel leaves no record of its run. *)
LEMMA FamilyGone ==
  ASSUME IInv, NEW r \in Runs
  PROVE  DOMAIN Evict(ledger, Family(r)).tasks = {id \in DOMAIN ledger.tasks : id[1] # r}
<1>1. \A id \in DOMAIN ledger.tasks : id \in Family(r) <=> id[1] = r  BY FamilyOfRun DEF IInv
<1>2. DOMAIN Evict(ledger, Family(r)).tasks = DOMAIN ledger.tasks \ Family(r)
  BY <1>1, Evicting DEF IInv
<1> QED BY <1>1, <1>2

(* What a request does to the ledger before it waits for Temporal. *)
LEMMA SweptLedger ==
  ASSUME IInv, CancelInv, ledger' = Sweep(ledger), UNCHANGED <<real, run, flow, stream>>,
         \A c \in Clients : HandlerOK(request[c])'
  PROVE  CancelInv'
<1>1. \A r \in Runs : Over(r) => Over(r)'  BY DEF Over
<1>2. \A id \in DOMAIN ledger.tasks : id \in DOMAIN ledger'.tasks \/ Over(id[1])'
  BY Swept DEF Over
<1>3. \A r \in Runs : CancelledOK(r)'  BY Swept DEF CancelInv, CancelledOK
<1>4. \A r \in Runs : FlowOK(flow[r], real)'  BY DEF CancelInv, FlowOK
<1> QED BY <1>1, <1>2, <1>3, <1>4, StreamsStay DEF CancelInv

(* A dispatch that is recorded gives an age to a run that had none. *)
LEMMA Recorded ==
  ASSUME IInv, CancelInv, NEW r \in Runs, run[r].age = "none", run' = [run EXCEPT ![r] = NewRun],
         NEW kids, UNCHANGED <<real, flow, stream>>,
         DOMAIN ledger'.tasks \subseteq DOMAIN ledger.tasks \cup {Id(r, i) : i \in {0} \cup kids},
         \A id \in DOMAIN ledger.tasks :
           id \in DOMAIN ledger'.tasks \/ run[id[1]].age = "expired" \/ real,
         \A c \in Clients : HandlerOK(request[c])'
  PROVE  CancelInv'
<1>1. \A q \in Runs : run'[q] = IF q = r THEN NewRun ELSE run[q]  BY DEF IInv, RunsOK
<1>2. ~ run[r].cancelled  BY DEF CancelInv, CancelledOK
<1>3. ~ NewRun.cancelled /\ NewRun.age = "running"  BY DEF NewRun, NoRun
<1>4. \A q \in Runs : Over(q) => Over(q)'  BY <1>1, <1>2 DEF Over
<1>5. \A id \in DOMAIN ledger.tasks : id[1] \in Runs /\ run[id[1]].age # "none"
  BY DEF IInv, LedgerOK, Ids, Id
<1>6. \A id \in DOMAIN ledger.tasks : id \in DOMAIN ledger'.tasks \/ Over(id[1])' \/ real
  BY <1>1, <1>5 DEF Over
<1>7. ASSUME NEW q \in Runs PROVE CancelledOK(q)'
  <2>1. CASE q = r  BY <2>1, <1>1, <1>3 DEF CancelledOK
  <2>2. CASE q # r
    <3>1. \A id \in {Id(r, i) : i \in {0} \cup kids} : id[1] # q  BY <2>2 DEF Id
    <3> QED BY <2>2, <3>1, <1>1 DEF CancelInv, CancelledOK
  <2> QED BY <2>1, <2>2
<1>8. \A q \in Runs : FlowOK(flow[q], real)'  BY DEF CancelInv, FlowOK
<1> QED BY <1>4, <1>6, <1>7, <1>8, StreamsStay DEF CancelInv

(* A cancel that is acknowledged takes the run's records first. *)
LEMMA Acknowledged ==
  ASSUME IInv, CancelInv, NEW r \in Runs, run' = [run EXCEPT ![r].cancelled = TRUE],
         run[r].age # "none", real => flow[r].asked,
         ledger' = Evict(ledger, Family(r)), UNCHANGED <<real, flow, stream>>,
         \A c \in Clients : HandlerOK(request[c])'
  PROVE  CancelInv'
<1>1. \A q \in Runs : /\ run'[q].age = run[q].age
                      /\ q # r => run'[q] = run[q]
                      /\ q = r => run'[q].cancelled
  BY DEF IInv, RunsOK, IsRun
<1>2. \A q \in Runs : Over(q) => Over(q)'  BY <1>1 DEF Over
<1>3. DOMAIN ledger'.tasks = {id \in DOMAIN ledger.tasks : id[1] # r}  BY FamilyGone
<1>4. \A id \in DOMAIN ledger.tasks : id \in DOMAIN ledger'.tasks \/ Over(id[1])'
  BY <1>1, <1>3 DEF Over
<1>5. ASSUME NEW q \in Runs PROVE CancelledOK(q)'
  <2>1. CASE q = r  BY <2>1, <1>1, <1>3 DEF CancelledOK
  <2>2. CASE q # r  BY <2>2, <1>1, <1>3 DEF CancelInv, CancelledOK
  <2> QED BY <2>1, <2>2
<1>6. \A q \in Runs : FlowOK(flow[q], real)'  BY DEF CancelInv, FlowOK
<1> QED BY <1>2, <1>4, <1>5, <1>6, StreamsStay DEF CancelInv

(* A workflow's step: what was asked of it stays asked. *)
LEMMA FlowSteps ==
  ASSUME IInv, CancelInv, NEW r \in Runs, UNCHANGED <<real, ledger, run, stream>>,
         NEW f, flow' = [flow EXCEPT ![r] = f], FlowOK(f, real), flow[r].asked => f.asked,
         \A c \in Clients : HandlerOK(request[c])'
  PROVE  CancelInv'
<1>1. \A q \in Runs : flow'[q] = IF q = r THEN f ELSE flow[q]  BY DEF CancelInv
<1>2. \A q \in Runs : Over(q) => Over(q)'  BY <1>1 DEF Over
<1>3. \A q \in Runs : CancelledOK(q)'  BY <1>1 DEF CancelInv, CancelledOK
<1>4. \A q \in Runs : FlowOK(flow[q], real)'  BY <1>1 DEF CancelInv
<1> QED BY <1>2, <1>3, <1>4, StreamsStay DEF CancelInv

LEMMA CancelStep == ASSUME IInv, CancelInv, [Next]_vars PROVE CancelInv'
<1>1. ASSUME NEW o \in Orders, RefuseRun(o) PROVE CancelInv'
  <2>1. \A c \in Clients : HandlerOK(request[c])'  BY <1>1 DEF RefuseRun, CancelInv, HandlerOK
  <2> QED BY <1>1, <2>1, SweptLedger DEF RefuseRun
<1>2. ASSUME NEW o \in Orders, RunStub(o) PROVE CancelInv'
  <2>1. PICK r \in Fresh : /\ ledger' = Enter(Sweep(ledger), r, Planned(o), Slots(o))
                           /\ run' = [run EXCEPT ![r] = NewRun]
    BY <1>2 DEF RunStub
  <2>2. r \in Runs /\ run[r].age = "none"  BY DEF Fresh, Unused
  <2>3. DOMAIN ledger'.tasks = DOMAIN Sweep(ledger).tasks \cup {Id(r, i) : i \in {0} \cup Planned(o)}
    <3>1. DOMAIN Enter(Sweep(ledger), r, Planned(o), Slots(o)).tasks
            = DOMAIN Sweep(ledger).tasks \cup {Id(r, i) : i \in {0} \cup Planned(o)}
      BY EnteredIds
    <3> QED BY <3>1, <2>1, Zenon
  <2>4. ASSUME NEW c \in Clients PROVE HandlerOK(request[c])'
    <3>1. request[c].at \notin {"starting", "cancelling"}
      BY <1>2 DEF RunStub, IInv, RequestOK
    <3> QED BY <3>1, <1>2 DEF RunStub, HandlerOK
  <2> QED BY <1>2, <2>1, <2>2, <2>3, <2>4, Swept, Recorded DEF RunStub
<1>3. ASSUME NEW c \in Clients, NEW o \in Orders, BeginRun(c, o) PROVE CancelInv'
  <2>1. PICK r \in Fresh, kids \in SUBSET DOMAIN o.list :
          request' = [request EXCEPT ![c] = [at |-> "starting", run |-> r, order |-> o, kids |-> kids]]
    BY <1>3 DEF BeginRun
  <2>2. flow[r].at = "none"  BY DEF Fresh, Unused
  <2>3. ledger' = Sweep(ledger) /\ UNCHANGED <<real, run, flow, stream>>  BY <1>3 DEF BeginRun
  <2>4. \A d \in Clients : HandlerOK(request[d])'
    BY <2>1, <2>2, <2>3 DEF CancelInv, HandlerOK, IInv
  <2> QED BY <2>3, <2>4, SweptLedger
<1>4. ASSUME NEW c \in Clients, StartFlow(c) PROVE CancelInv'
  <2> DEFINE q == request[c]
             f == [NoFlow EXCEPT !.at = "running", !.order = q.order, !.kids = [i \in q.kids |-> "running"]]
  <2>1. /\ q.at = "starting" /\ flow' = [flow EXCEPT ![q.run] = f]
        /\ request' = [request EXCEPT ![c].at = "started"] /\ UNCHANGED <<real, ledger, run, stream>>
    BY <1>4 DEF StartFlow
  <2>2. q.run \in Runs /\ real /\ flow[q.run].at = "none"
    BY <2>1 DEF IInv, RequestOK, CancelInv, HandlerOK
  <2>3. ~ flow[q.run].asked  BY <2>2 DEF CancelInv, FlowOK
  <2>4. FlowOK(f, real)  BY <2>2 DEF FlowOK, NoFlow
  <2>5. \A r \in Runs : r # q.run => flow'[r] = flow[r]  BY <2>1, <2>2 DEF CancelInv
  <2>6. ASSUME NEW d \in Clients PROVE HandlerOK(request[d])'
    <3>1. CASE d = c  BY <3>1, <2>1 DEF HandlerOK, IInv, RequestOK
    <3>2. CASE d # c
      <4>1. request'[d] = request[d] /\ HandlerOK(request[d])
        BY <3>2, <2>1 DEF IInv, CancelInv
      <4>2. request[d].at \in {"starting", "cancelling"} => request[d].run # q.run /\ request[d].run \in Runs
        BY <3>2, <4>1, <2>1, <2>3 DEF HandlerOK, IInv, RequestOK, Waiting, Dispatching
      <4>3. run' = run  BY <2>1
      <4> QED BY <4>1, <4>2, <4>3, <2>5 DEF HandlerOK
    <3> QED BY <3>1, <3>2
  <2> HIDE DEF f
  <2> QED BY <2>1, <2>2, <2>3, <2>4, <2>6, FlowSteps
<1>5. ASSUME NEW c \in Clients, StartFails(c) \/ AskFails(c) PROVE CancelInv'
  <2>1. request' = [request EXCEPT ![c] = Idle] /\ UNCHANGED <<real, ledger, run, flow, stream>>
    BY <1>5 DEF StartFails, AskFails
  <2>2. \A d \in Clients : HandlerOK(request[d])'  BY <2>1 DEF CancelInv, HandlerOK, Idle, IInv
  <2>3. \A r \in Runs : CancelledOK(r)' /\ FlowOK(flow[r], real)' /\ (Over(r) => Over(r)')
    BY <2>1 DEF CancelInv, CancelledOK, FlowOK, Over
  <2> QED BY <2>1, <2>2, <2>3, StreamsStay DEF CancelInv
<1>6. ASSUME NEW c \in Clients, RecordRun(c) PROVE CancelInv'
  <2> DEFINE q == request[c]
  <2>1. /\ ledger' = Enter(ledger, q.run, q.kids, Slots(q.order))
        /\ run' = [run EXCEPT ![q.run] = NewRun] /\ request' = [request EXCEPT ![c] = Idle]
        /\ q.at = "started" /\ UNCHANGED <<real, flow, stream>>
    BY <1>6 DEF RecordRun
  <2>2. q.run \in Runs /\ run[q.run].age = "none" /\ real
    BY <2>1 DEF IInv, RequestOK, Dispatching
  <2>3. DOMAIN ledger'.tasks = DOMAIN ledger.tasks \cup {Id(q.run, i) : i \in {0} \cup q.kids}
    BY <2>1, EnteredIds
  <2>4. ASSUME NEW d \in Clients PROVE HandlerOK(request[d])'
    <3>1. CASE d = c  BY <3>1, <2>1 DEF HandlerOK, Idle, IInv
    <3>2. CASE d # c
      <4>1. request'[d] = request[d] /\ HandlerOK(request[d]) /\ RequestOK(request[d], real, run)
        BY <3>2, <2>1 DEF IInv, CancelInv
      <4>2. request[d].at = "cancelling" =>
              /\ request[d].run \in Runs /\ request[d].run # q.run
              /\ run'[request[d].run] = run[request[d].run]
        BY <4>1, <2>1, <2>2 DEF HandlerOK, RequestOK, IInv, RunsOK
      <4> QED BY <4>1, <4>2, <2>1 DEF HandlerOK
    <3> QED BY <3>1, <3>2
  <2> QED BY <2>1, <2>2, <2>3, <2>4, Recorded
<1>7. ASSUME NEW c \in Clients, EvictRun(c) PROVE CancelInv'
  <2> DEFINE r == request[c].run
  <2>1. /\ ledger' = Evict(ledger, Family(r)) /\ run' = [run EXCEPT ![r].cancelled = TRUE]
        /\ request' = [request EXCEPT ![c] = Idle]
        /\ request[c].at = "cancelling" /\ UNCHANGED <<real, flow, stream>>
    BY <1>7 DEF EvictRun
  <2>2. r \in Runs /\ flow[r].asked /\ run[r].age # "none"
    BY <2>1 DEF IInv, RequestOK, CancelInv, HandlerOK
  <2>3. \A d \in Clients : HandlerOK(request[d])'  BY <2>1 DEF CancelInv, HandlerOK, Idle, IInv
  <2> QED BY <2>1, <2>2, <2>3, Acknowledged
<1>8. ASSUME NEW c \in Clients, NEW r \in Runs, AskCancel(c, r) PROVE CancelInv'
  <2> DEFINE f == [flow[r] EXCEPT !.asked = TRUE]
  <2>1. /\ flow' = [flow EXCEPT ![r] = f] /\ flow[r].at = "running"
        /\ request' = [request EXCEPT ![c] = [Idle EXCEPT !.at = "cancelling", !.run = r]]
        /\ run[r].age # "none" /\ UNCHANGED <<real, ledger, run, stream>>
    BY <1>8 DEF AskCancel
  <2>2. FlowOK(f, real) /\ f.asked /\ f.at = "running"
    BY <2>1 DEF CancelInv, FlowOK, NoFlow
  <2> HIDE DEF f
  <2>3. \A q \in Runs : flow'[q] = IF q = r THEN f ELSE flow[q]  BY <2>1 DEF CancelInv
  <2>4. ASSUME NEW d \in Clients PROVE HandlerOK(request[d])'
    <3>1. CASE d = c  BY <3>1, <2>1, <2>2, <2>3 DEF HandlerOK, IInv, Idle
    <3>2. CASE d # c
      <4>1. request'[d] = request[d] /\ HandlerOK(request[d]) /\ RequestOK(request[d], real, run)
        BY <3>2, <2>1 DEF IInv, CancelInv
      <4> QED BY <4>1, <2>1, <2>2, <2>3 DEF HandlerOK, RequestOK
    <3> QED BY <3>1, <3>2
  <2> QED BY <2>1, <2>2, <2>4, FlowSteps
<1>9. ASSUME NEW r \in Runs, CancelStub(r) PROVE CancelInv'
  <2>1. /\ ledger' = Evict(ledger, Family(r)) /\ run' = [run EXCEPT ![r].cancelled = TRUE]
        /\ Id(r, 0) \in DOMAIN ledger.tasks /\ ~real /\ UNCHANGED <<real, request, flow, stream>>
    BY <1>9 DEF CancelStub
  <2>2. run[r].age # "none"
    <3>1. Id(r, 0)[1] = r  BY DEF Id
    <3> QED BY <2>1, <3>1 DEF IInv, LedgerOK
  <2>3. \A d \in Clients : HandlerOK(request[d])'  BY <2>1 DEF CancelInv, HandlerOK
  <2> QED BY <2>1, <2>2, <2>3, Acknowledged
<1>10. ASSUME NEW r \in Runs, NEW i \in Kids, CancelStubChild(r, i) PROVE CancelInv'
  <2>1. UNCHANGED <<real, run, request, flow, stream>>  BY <1>10 DEF CancelStubChild
  <2>2. DOMAIN ledger'.tasks = DOMAIN ledger.tasks \ {Id(r, i)}
    BY <1>10 DEF CancelStubChild, Evict, Restrict
  <2>3. \A q \in Runs : CancelledOK(q)' /\ FlowOK(flow[q], real)' /\ (Over(q) => Over(q)')
    BY <2>1, <2>2 DEF CancelInv, CancelledOK, FlowOK, Over
  <2>4. \A id \in DOMAIN ledger.tasks : id \in DOMAIN ledger'.tasks \/ id[2] # 0
    BY <2>2 DEF Id, Kids
  <2>5. \A d \in Clients : HandlerOK(request[d])'  BY <2>1 DEF CancelInv, HandlerOK
  <2> QED BY <2>1, <2>3, <2>4, <2>5, StreamsStay DEF CancelInv
<1>11. ASSUME NEW r \in Runs, Tick(r) PROVE CancelInv'
  <2>1. /\ run[r].age \in {"running", "completed"} /\ UNCHANGED <<real, ledger, request, flow, stream>>
        /\ \E a \in {"completed", "expired"} : run' = [run EXCEPT ![r].age = a]
    BY <1>11 DEF Tick
  <2>2. \A q \in Runs : /\ run'[q].cancelled = run[q].cancelled
                        /\ q # r => run'[q] = run[q]
                        /\ q = r => run'[q].age # "none" /\ run[q].age # "expired"
    BY <2>1 DEF IInv, RunsOK, IsRun
  <2>3. \A q \in Runs : CancelledOK(q)' /\ FlowOK(flow[q], real)' /\ (Over(q) => Over(q)')
    BY <2>1, <2>2 DEF CancelInv, CancelledOK, FlowOK, Over
  <2>4. \A d \in Clients : HandlerOK(request[d])'  BY <2>1 DEF CancelInv, HandlerOK
  <2> QED BY <2>1, <2>3, <2>4, StreamsStay DEF CancelInv
<1>12. CASE Restart
  <2>1. /\ DOMAIN ledger'.tasks = {} /\ request' = [c \in Clients |-> Idle]
        /\ stream' = [w \in Watchers |-> NoStream] /\ UNCHANGED <<real, run, flow>>
    BY <1>12 DEF Restart
  <2>2. \A w \in Watchers : StreamOK(stream[w])'  BY <2>1 DEF StreamOK, NoStream
  <2>3. \A d \in Clients : HandlerOK(request[d])'  BY <2>1 DEF HandlerOK, Idle
  <2>4. \A q \in Runs : CancelledOK(q)' /\ FlowOK(flow[q], real)'
    BY <2>1 DEF CancelInv, CancelledOK, FlowOK
  <2> QED BY <2>1, <2>2, <2>3, <2>4 DEF CancelInv
<1>13. ASSUME NEW r \in Runs, Workflow(r) PROVE CancelInv'
  <2>1. UNCHANGED <<real, ledger, run, request, stream>> /\ flow[r].at = "running"
    BY <1>13 DEF Workflow, Gather, Decide, CloseCancelled
  <2>2. FlowOK(flow[r], real) /\ flow = [q \in Runs |-> flow[q]]  BY DEF CancelInv
  <2>3. PICK f : /\ flow' = [flow EXCEPT ![r] = f] /\ FlowOK(f, real)
                 /\ f.at # "none" /\ (flow[r].asked <=> f.asked)
    <3>1. CASE Gather(r)
      <4>1. PICK b : flow' = [flow EXCEPT ![r].at = "completed", ![r].success = b]
        BY <3>1 DEF Gather
      <4> DEFINE f == [[flow[r] EXCEPT !.at = "completed"] EXCEPT !.success = b]
      <4>2. flow' = [flow EXCEPT ![r] = f]  BY <4>1, <2>2
      <4>3. ~ flow[r].asked  BY <3>1 DEF Gather
      <4>4. FlowOK(f, real) /\ f.at # "none" /\ (flow[r].asked <=> f.asked)
        BY <4>3, <2>1, <2>2 DEF FlowOK, NoFlow
      <4> HIDE DEF f
      <4> QED BY <4>2, <4>4
    <3>2. CASE Decide(r)
      <4>1. PICK b : flow' = [flow EXCEPT ![r].at = "completed", ![r].success = b]
        BY <3>2 DEF Decide
      <4> DEFINE f == [[flow[r] EXCEPT !.at = "completed"] EXCEPT !.success = b]
      <4>2. flow' = [flow EXCEPT ![r] = f]  BY <4>1, <2>2
      <4>3. ~ flow[r].asked  BY <3>2 DEF Decide
      <4>4. FlowOK(f, real) /\ f.at # "none" /\ (flow[r].asked <=> f.asked)
        BY <4>3, <2>1, <2>2 DEF FlowOK, NoFlow
      <4> HIDE DEF f
      <4> QED BY <4>2, <4>4
    <3>3. CASE CloseCancelled(r)
      <4> DEFINE f == [flow[r] EXCEPT !.at = "cancelled"]
      <4>1. flow' = [flow EXCEPT ![r] = f] /\ flow[r].asked  BY <3>3 DEF CloseCancelled
      <4>2. FlowOK(f, real) /\ f.at # "none" /\ (flow[r].asked <=> f.asked)
        BY <4>1, <2>1, <2>2 DEF FlowOK, NoFlow
      <4> HIDE DEF f
      <4> QED BY <4>1, <4>2
    <3> QED BY <1>13, <3>1, <3>2, <3>3 DEF Workflow
  <2>4. \A q \in Runs : flow'[q] = IF q = r THEN f ELSE flow[q]  BY <2>3, <2>2
  <2>5. \A d \in Clients : HandlerOK(request[d])'
    BY <2>1, <2>3, <2>4 DEF CancelInv, HandlerOK, IInv, RequestOK
  <2> QED BY <2>1, <2>3, <2>5, FlowSteps
<1>14. ASSUME NEW r \in Runs, NEW i \in Kids, Child(r, i) PROVE CancelInv'
  <2>1. UNCHANGED <<real, ledger, run, request, stream>> /\ flow[r].at # "none"
    BY <1>14 DEF Child, ChildEnds, ChildStopped
  <2>2. FlowOK(flow[r], real) /\ flow = [q \in Runs |-> flow[q]]  BY DEF CancelInv
  <2>3. PICK how : flow' = [flow EXCEPT ![r].kids[i] = how]
    BY <1>14 DEF Child, ChildEnds, ChildStopped
  <2> DEFINE k == [flow[r].kids EXCEPT ![i] = how]
             f == [flow[r] EXCEPT !.kids = k]
  <2>4. flow' = [flow EXCEPT ![r] = f]  BY <2>2, <2>3
  <2> HIDE DEF k
  <2>5. FlowOK(f, real) /\ f.at = flow[r].at /\ f.asked = flow[r].asked  BY <2>2 DEF FlowOK, NoFlow
  <2> HIDE DEF f
  <2>6. \A q \in Runs : flow'[q] = IF q = r THEN f ELSE flow[q]  BY <2>4, <2>2
  <2>7. \A d \in Clients : HandlerOK(request[d])'
    BY <2>1, <2>5, <2>6 DEF CancelInv, HandlerOK, IInv, RequestOK
  <2> QED BY <2>1, <2>4, <2>5, <2>7, FlowSteps
<1>15. ASSUME UNCHANGED <<real, ledger, run, request, flow>>, stream' = [w \in Watchers |-> stream'[w]],
              \A w \in Watchers : StreamOK(stream[w])'
       PROVE  CancelInv'
  BY <1>15 DEF CancelInv, CancelledOK, FlowOK, HandlerOK
<1>16. ASSUME NEW w \in Watchers, NEW id \in Ids, OpenStream(w, id) PROVE CancelInv'
  <2>1. /\ stream' = [stream EXCEPT ![w] = [at |-> "open", id |-> id, told |-> "none"]]
        /\ ~real => id \in DOMAIN ledger.tasks
        /\ UNCHANGED <<real, ledger, run, request, flow>>
    BY <1>16 DEF OpenStream
  <2>2. ASSUME NEW v \in Watchers PROVE StreamOK(stream[v])'
    BY <2>1 DEF CancelInv, StreamOK, NoStream, Over
  <2> QED BY <2>1, <2>2, <1>15 DEF CancelInv
<1>17. ASSUME NEW w \in Watchers, GiveUp(w) PROVE CancelInv'
  <2>1. stream' = [stream EXCEPT ![w] = NoStream] /\ UNCHANGED <<real, ledger, run, request, flow>>
    BY <1>17 DEF GiveUp
  <2>2. ASSUME NEW v \in Watchers PROVE StreamOK(stream[v])'
    BY <2>1 DEF CancelInv, StreamOK, NoStream, Over
  <2> QED BY <2>1, <2>2, <1>15 DEF CancelInv
<1>18. ASSUME NEW w \in Watchers, Poll(w) PROVE CancelInv'
  <2> DEFINE s == StatusOf(stream[w].id)
             e == IF s = "running" THEN stream[w] ELSE [stream[w] EXCEPT !.at = "ended", !.told = s]
  <2>1. /\ stream[w].at = "open" /\ stream' = [stream EXCEPT ![w] = e]
        /\ UNCHANGED <<real, ledger, run, request, flow>>
    BY <1>18 DEF Poll
  <2>2. StreamOK(stream[w]) /\ stream[w].id \in Ids /\ stream[w].id[1] \in Runs
    <3>1. StreamOK(stream[w]) /\ stream[w].id \in Ids  BY <2>1 DEF CancelInv, StreamOK
    <3> QED BY <3>1 DEF Ids, Id
  <2>3. s = "cancelled" => Over(stream[w].id[1]) \/ stream[w].id[2] # 0
    BY <2>1, <2>2 DEF StatusOf, StreamOK, CancelInv, FlowOK, Over
  <2> HIDE DEF s
  <2>4. StreamOK(e)  BY <2>1, <2>2, <2>3 DEF StreamOK, NoStream
  <2> HIDE DEF e
  <2>5. ASSUME NEW v \in Watchers PROVE StreamOK(stream[v])'
    <3>1. stream'[v] = IF v = w THEN e ELSE stream[v]  BY <2>1 DEF CancelInv
    <3>2. StreamOK(stream'[v])  BY <3>1, <2>4 DEF CancelInv
    <3> QED BY <3>2, <2>1 DEF StreamOK, Over
  <2> QED BY <2>1, <2>5, <1>15 DEF CancelInv
<1>19. CASE UNCHANGED vars
  BY <1>15, <1>19 DEF vars, CancelInv, StreamOK, Over
<1> QED BY <1>1, <1>2, <1>3, <1>4, <1>5, <1>6, <1>7, <1>8, <1>9, <1>10, <1>11, <1>12, <1>13, <1>14,
           <1>16, <1>17, <1>18, <1>19 DEF Next, Handler

(* A cancel that was acknowledged is kept, and no watcher is told of a cancel
   that nobody asked for, unless the record had expired. *)
THEOREM CancelsAlwaysKept == Spec => []CancelIsKept
<1>1. IInv /\ CancelInv => CancelIsKept
  <2> SUFFICES ASSUME IInv, CancelInv PROVE CancelIsKept  OBVIOUS
  <2>1. ASSUME NEW r \in Runs, run[r].cancelled
        PROVE  (\A id \in DOMAIN ledger.tasks : id[1] # r) /\ flow[r].at # "completed"
    BY <2>1 DEF CancelInv, CancelledOK, FlowOK, IInv
  <2>2. ASSUME NEW w \in Watchers, stream[w].told = "cancelled"
        PROVE  Over(stream[w].id[1]) \/ stream[w].id[2] # 0
    BY <2>2 DEF CancelInv, StreamOK
  <2> QED BY <2>1, <2>2 DEF CancelIsKept, Over
<1> QED BY IInvInit, IInvStep, CancelInit, CancelStep, <1>1, PTL DEF Spec
=============================================================================
