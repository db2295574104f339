--------------------------- MODULE InventoryProofs ---------------------------
(***************************************************************************)
(* Theorems about Inventory for every tree, set of names and assets, set   *)
(* of calls and bound on those in progress.                                *)
(***************************************************************************)
EXTENDS Inventory, SequenceTheorems, FiniteSetTheorems, TLAPS

-----------------------------------------------------------------------------
(* The invariant: what holds of the cloud, and of each call whatever the   *)
(* others do.                                                              *)

CloudType ==
  /\ lastId \in Nat
  /\ DOMAIN records \subseteq 1..lastId
  /\ records \in [DOMAIN records -> Entry]

CallType ==
  /\ rpc \in [Call -> {"idle", "ok", "failed", "abandoned"} \cup Step \cup Refusal]
  /\ plan \in [Call -> Seq(Item)]
  /\ done \in [Call -> Nat]
  /\ DOMAIN before = Call

(* The bridge walks a tree in these stages. *)
InTree(c) == rpc[c] \in {"copyRoot", "collect"}

(* Where a call stands tells what it is, and that its paths have a last    *)
(* name; nothing is worked off before the whole tree is collected.         *)
Staged(c) ==
  /\ rpc[c] = "copyRoot" => c.op = "copy"
  /\ rpc[c] = "collect" => c.op # "mkdir"
  /\ InTree(c) => plan[c] # <<>> /\ (c.op # "remove" => c.dst # <<>>)
  /\ rpc[c] \in {"create", "confirm", "direct", "abandoned"} => c.op = "mkdir" /\ c.src # <<>>
  /\ rpc[c] = "confirm" => plan[c] # <<>>
  /\ \A k \in DOMAIN plan[c] : plan[c][k].id \in 1..lastId
  /\ done[c] \in 0..Len(plan[c])
  /\ done[c] # 0 => Collected(c)
  /\ Collected(c) /\ c.op = "copy" => done[c] < Len(plan[c])

(* What is collected is the root and things below it, each after the       *)
(* directory it was listed with.                                           *)
Gathered(c) ==
  InTree(c) =>
    /\ FullPath(plan[c][1].entry) = c.src
    /\ \A k \in DOMAIN plan[c] :
         /\ ~plan[c][k].listed => IsDirectory(plan[c][k].entry)
         /\ k # 1 => /\ IsPrefix(c.src, plan[c][k].entry.parent)
                     /\ \E j \in 1..(k - 1) :
                          /\ IsDirectory(plan[c][j].entry) /\ plan[c][j].listed
                          /\ FullPath(plan[c][j].entry) = plan[c][k].entry.parent

(* While no other call writes, a snapshot is what the record was when the  *)
(* call began, or still is in the case of a copy, which adds records and   *)
(* changes none.                                                           *)
Origin(c) == IF c.op = "copy" THEN records ELSE before[c]

Known(c) ==
  InTree(c) /\ Alone(c) =>
    \A k \in DOMAIN plan[c] :
      plan[c][k].id \in DOMAIN Origin(c) /\ plan[c][k].entry = Origin(c)[plan[c][k].id]

(* Each record is where it was or where the move takes it.                 *)
OldOrRebased(c) ==
  /\ DOMAIN records = DOMAIN before[c]
  /\ \A i \in DOMAIN records :
       \/ records[i] = before[c][i]
       \/ Under(c.src, before[c][i]) /\ records[i] = Rebased(c, before[c][i])

MoveGoes(c) ==
  InTree(c) /\ Alone(c) /\ c.op # "copy" =>
    /\ done[c] = 0 => records = before[c]
    /\ c.op = "move" => OldOrRebased(c)

(* The tree as it was is still there, and so is the copy of each record    *)
(* that was worked off.                                                    *)
Copied(c, k) == \E i \in DOMAIN records : records[i] = Relocated(c, plan[c][k])

CopyGoes(c) ==
  InTree(c) /\ Alone(c) /\ c.op = "copy" =>
    /\ rpc[c] = "copyRoot" => records = before[c]
    /\ rpc[c] = "collect" => \A k \in 1..(done[c] + 1) : Copied(c, k)
    /\ Rooted(before[c]) /\ HasDirectory(before[c], Parent(c.dst)) =>
         Rooted(records) /\ HasDirectory(records, Parent(c.dst))

CallInv(c) == Staged(c) /\ Gathered(c) /\ Known(c) /\ MoveGoes(c) /\ CopyGoes(c)

TreeInv == CloudType /\ CallType /\ \A c \in Call : CallInv(c)

-----------------------------------------------------------------------------
(* Paths.                                                                  *)

LEMMA FullPathIs ==
  ASSUME NEW e \in Entry
  PROVE  /\ e.parent \in Path /\ e.name \in Name /\ FullPath(e) \in Path
         /\ Len(FullPath(e)) = Len(e.parent) + 1
  BY DEF Entry, FullPath, Path

LEMMA SplitPath ==
  ASSUME NEW p \in Path, p # <<>>
  PROVE  Front(p) \in Path /\ Last(p) \in Name /\ Append(Front(p), Last(p)) = p
  <1>1. /\ Len(p) \in Nat \ {0} /\ \A i \in 1..Len(p) : p[i] \in Name
    BY DEF Path
  <1>2. Front(p) \in Path /\ Len(Front(p)) = Len(p) - 1 /\ \A i \in 1..(Len(p) - 1) : Front(p)[i] = p[i]
    <2>1. PICK m \in Nat : m = Len(p) - 1
      BY <1>1
    <2>2. \A i \in 1..m : p[i] \in Name
      BY <1>1, <2>1
    <2>3. SubSeq(p, 1, m) \in Seq(Name) /\ Len(SubSeq(p, 1, m)) = (IF 1 <= m THEN m - 1 + 1 ELSE 0)
          /\ \A i \in 1..(m - 1 + 1) : SubSeq(p, 1, m)[i] = p[1 + i - 1]
      BY <2>2, SubSeqProperties
    <2>4. \A i \in 1..m : i \in 1..(m - 1 + 1) /\ 1 + i - 1 = i
      OBVIOUS
    <2>5. Len(SubSeq(p, 1, m)) = m /\ \A i \in 1..m : SubSeq(p, 1, m)[i] = p[i]
      BY <2>3, <2>4
    <2> QED
      BY <2>1, <2>3, <2>5 DEF Front, Path
  <1>3. Last(p) \in Name
    BY <1>1 DEF Last
  <1>4. /\ Append(Front(p), Last(p)) \in Seq(Name) /\ Len(Append(Front(p), Last(p))) = Len(p)
        /\ \A i \in 1..(Len(p) - 1) : Append(Front(p), Last(p))[i] = p[i]
        /\ Append(Front(p), Last(p))[Len(p)] = p[Len(p)]
    BY <1>1, <1>2, <1>3, AppendProperties DEF Path, Last
  <1>5. \A i \in 1..Len(p) : Append(Front(p), Last(p))[i] = p[i]
    BY <1>1, <1>4
  <1> QED
    BY <1>2, <1>3, <1>4, <1>5, SeqEqual DEF Path

LEMMA AppendSplit ==
  ASSUME NEW p \in Path, NEW n \in Name
  PROVE  Append(p, n) \in Path /\ Append(p, n) # <<>> /\ Front(Append(p, n)) = p /\ Last(Append(p, n)) = n
  <1>1. Append(p, n) \in Path /\ Append(p, n) # <<>>
    BY AppendProperties DEF Path
  <1>2. Append(Front(Append(p, n)), Last(Append(p, n))) = Append(p, n)
    BY <1>1, SplitPath
  <1>3. Front(Append(p, n)) \in Seq(Name) /\ Last(Append(p, n)) \in Name
    BY <1>1, SplitPath DEF Path
  <1> QED
    BY <1>1, <1>2, <1>3, AppendInjective DEF Path

LEMMA PrefixIs ==
  ASSUME NEW p \in Path, NEW q \in Path
  PROVE  IsPrefix(p, q) <=> Len(p) <= Len(q) /\ \A i \in 1..Len(p) : p[i] = q[i]
  <1>1. ASSUME Len(p) <= Len(q)
        PROVE  SubSeq(p, 1, Len(p)) = SubSeq(q, 1, Len(p)) <=> \A i \in 1..Len(p) : p[i] = q[i]
    <2>1. /\ Len(p) \in Nat /\ Len(q) \in Nat
          /\ \A i \in 1..Len(p) : p[i] \in Name
          /\ \A i \in 1..Len(q) : q[i] \in Name
      BY DEF Path
    <2>2. SubSeq(p, 1, Len(p)) = p
      BY SubSeqFull DEF Path
    <2>3. /\ SubSeq(q, 1, Len(p)) \in Seq(Name) /\ Len(SubSeq(q, 1, Len(p))) = Len(p)
          /\ \A i \in 1..Len(p) : SubSeq(q, 1, Len(p))[i] = q[i]
      BY <1>1, <2>1, SubSeqProperties
    <2>4. ASSUME \A i \in 1..Len(p) : p[i] = q[i]  PROVE p = SubSeq(q, 1, Len(p))
      BY <2>3, <2>4, SeqEqual DEF Path
    <2> QED
      BY <2>2, <2>3, <2>4
  <1> QED
    BY <1>1 DEF IsPrefix

LEMMA PrefixAppend ==
  ASSUME NEW p \in Path, NEW q \in Path, NEW n \in Name, IsPrefix(p, q)
  PROVE  IsPrefix(p, Append(q, n))
  <1>1. Append(q, n) \in Path /\ Len(Append(q, n)) = Len(q) + 1 /\ \A i \in 1..Len(q) : Append(q, n)[i] = q[i]
    BY AppendProperties DEF Path
  <1>2. Len(p) \in Nat /\ Len(q) \in Nat /\ Len(p) <= Len(q) /\ \A i \in 1..Len(p) : p[i] = q[i]
    BY PrefixIs DEF Path
  <1>3. Len(p) <= Len(Append(q, n)) /\ \A i \in 1..Len(p) : p[i] = Append(q, n)[i]
    BY <1>1, <1>2
  <1> QED
    BY <1>1, <1>3, PrefixIs

LEMMA PrefixSelf == \A p \in Path : IsPrefix(p, p)
  BY DEF IsPrefix, Path

(* Below the destination, what is in a directory stays in it.              *)
Below(p, q, d) == d \o SubSeq(q, Len(p) + 1, Len(q))

LEMMA BelowType ==
  ASSUME NEW p \in Path, NEW q \in Path, NEW d \in Path
  PROVE  Below(p, q, d) \in Path
  <1>1. Len(p) \in Nat /\ Len(q) \in Nat /\ \A i \in 1..Len(q) : q[i] \in Name
    BY DEF Path
  <1>2. \A i \in (Len(p) + 1)..Len(q) : q[i] \in Name
    BY <1>1
  <1>3. SubSeq(q, Len(p) + 1, Len(q)) \in Seq(Name)
    BY <1>1, <1>2, SubSeqProperties
  <1> QED
    BY <1>3, ConcatProperties DEF Below, Path

LEMMA BelowSelf == ASSUME NEW p \in Path, NEW d \in Path PROVE Below(p, p, d) = d
  <1>1. SubSeq(p, Len(p) + 1, Len(p)) = <<>>
    <2>1. Len(p) \in Nat
      BY DEF Path
    <2> QED
      BY <2>1, SubSeqEmpty
  <1> QED
    BY <1>1, ConcatEmptySeq DEF Below, Path

LEMMA BelowAppend ==
  ASSUME NEW p \in Path, NEW q \in Path, NEW d \in Path, NEW n \in Name, IsPrefix(p, q)
  PROVE  Below(p, Append(q, n), d) = Append(Below(p, q, d), n)
  <1> DEFINE a == Append(q, n)
             s == SubSeq(q, Len(p) + 1, Len(q))
             t == SubSeq(a, Len(p) + 1, Len(a))
  <1>1. Len(p) \in Nat /\ Len(q) \in Nat /\ Len(d) \in Nat /\ Len(p) <= Len(q) /\ \A i \in 1..Len(q) : q[i] \in Name
    BY DEF Path, IsPrefix
  <1>2. a \in Seq(Name) /\ Len(a) = Len(q) + 1 /\ \A i \in 1..Len(q) : a[i] = q[i]
    BY AppendProperties DEF Path
  <1>3. a[Len(q) + 1] = n
    BY AppendProperties DEF Path
  <1>4. \A i \in (Len(p) + 1)..Len(q) : q[i] \in Name
    BY <1>1
  <1>5. /\ s \in Seq(Name) /\ Len(s) = Len(q) - Len(p)
        /\ \A i \in 1..(Len(q) - Len(p)) : s[i] = q[Len(p) + i]
    BY <1>1, <1>4, SubSeqProperties
  <1>6. \A i \in (Len(p) + 1)..Len(a) : a[i] \in Name
    BY <1>1, <1>2, <1>3
  <1>7. /\ t \in Seq(Name) /\ Len(t) = Len(q) + 1 - Len(p)
        /\ \A i \in 1..(Len(q) + 1 - Len(p)) : t[i] = a[Len(p) + i]
    <2> HIDE DEF a
    <2> QED
      BY <1>1, <1>2, <1>6, SubSeqProperties
  <1>8. t = Append(s, n)
    <2> HIDE DEF a, s, t
    <2>1. /\ Append(s, n) \in Seq(Name) /\ Len(Append(s, n)) = Len(s) + 1
          /\ \A i \in 1..Len(s) : Append(s, n)[i] = s[i]
          /\ Append(s, n)[Len(s) + 1] = n
      BY <1>5, AppendProperties
    <2>2. \A i \in 1..Len(t) : t[i] = Append(s, n)[i]
      <3> SUFFICES ASSUME NEW i \in 1..Len(t) PROVE t[i] = Append(s, n)[i]
        OBVIOUS
      <3>1. CASE i <= Len(s)
        <4>1. i \in 1..(Len(q) - Len(p)) /\ i \in 1..(Len(q) + 1 - Len(p)) /\ Len(p) + i \in 1..Len(q)
          BY <1>1, <1>5, <1>7, <3>1
        <4> QED
          BY <1>2, <1>5, <1>7, <2>1, <3>1, <4>1
      <3>2. CASE ~(i <= Len(s))
        <4>1. i = Len(s) + 1 /\ Len(p) + i = Len(q) + 1
          <5>1. Len(s) \in Nat /\ Len(s) = Len(q) - Len(p) /\ Len(t) = Len(s) + 1 /\ i \in Int /\ i <= Len(t)
            BY <1>1, <1>5, <1>7
          <5> QED
            BY <1>1, <3>2, <5>1
        <4> QED
          BY <1>3, <1>7, <2>1, <4>1
      <3> QED
        BY <3>1, <3>2
    <2> QED
      <3>1. Len(t) = Len(Append(s, n))
        BY <1>1, <1>5, <1>7, <2>1
      <3> QED
        BY <1>7, <2>1, <2>2, <3>1, SeqEqual
  <1>9. d \o Append(s, n) = Append(d \o s, n)
    <2> HIDE DEF s
    <2>1. <<n>> \in Seq(Name)
      OBVIOUS
    <2> QED
      BY <1>5, <2>1, AppendIsConcat, ConcatAssociative, ConcatProperties DEF Path
  <1> QED
    BY <1>8, <1>9 DEF Below

LEMMA PrefixOfAppend ==
  ASSUME NEW p \in Path, NEW q \in Path, NEW n \in Name
  PROVE  IsPrefix(p, Append(q, n)) => p = Append(q, n) \/ IsPrefix(p, q)
  <1> DEFINE a == Append(q, n)
  <1>1. a \in Path /\ Len(a) = Len(q) + 1 /\ \A i \in 1..Len(q) : a[i] = q[i]
    BY AppendProperties DEF Path
  <1> HIDE DEF a
  <1>2. SUFFICES ASSUME IsPrefix(p, a), p # a PROVE IsPrefix(p, q)
    BY DEF a
  <1>3. Len(p) \in Nat /\ Len(q) \in Nat /\ Len(p) <= Len(a) /\ \A i \in 1..Len(p) : p[i] = a[i]
    BY <1>1, <1>2, PrefixIs DEF Path
  <1>4. Len(p) <= Len(q)
    <2>1. ASSUME Len(p) = Len(a) PROVE FALSE
      BY <1>1, <1>2, <1>3, <2>1, SeqEqual DEF Path
    <2> QED
      BY <1>1, <1>3, <2>1
  <1>5. \A i \in 1..Len(p) : p[i] = q[i]
    BY <1>1, <1>3, <1>4
  <1> QED
    BY <1>4, <1>5, PrefixIs

(* What differs below one directory differs below the other. *)
LEMMA BelowInjective ==
  ASSUME NEW p \in Path, NEW q \in Path, NEW r \in Path, NEW d \in Path,
         IsPrefix(p, q), IsPrefix(p, r), Below(p, q, d) = Below(p, r, d)
  PROVE  q = r
  <1>1. PICK a, b, m \in Nat : a = Len(p) /\ b = Len(d) /\ m = Len(Below(p, q, d))
    BY BelowType DEF Path
  <1>2. ASSUME NEW s \in Path, IsPrefix(p, s)
        PROVE  /\ Len(s) \in Nat /\ a <= Len(s) /\ Len(Below(p, s, d)) = b + Len(s) - a
               /\ \A i \in 1..a : s[i] = p[i]
               /\ \A i \in 1..(Len(s) - a) : Below(p, s, d)[b + i] = s[a + i]
    <2>1. /\ a <= Len(s) /\ Len(s) \in Nat /\ \A i \in 1..a : s[i] = p[i]
          /\ \A i \in 1..Len(s) : s[i] \in Name
      BY <1>1, <1>2, PrefixIs DEF Path
    <2>2. \A i \in (a + 1)..Len(s) : s[i] \in Name
      BY <2>1
    <2> DEFINE t == SubSeq(s, a + 1, Len(s))
    <2>3. /\ t \in Seq(Name) /\ Len(t) = Len(s) - a
          /\ \A i \in 1..(Len(s) - a) : t[i] = s[a + i]
      BY <2>1, <2>2, SubSeqProperties
    <2>4. Below(p, s, d) = d \o t
      BY <1>1 DEF Below
    <2> HIDE DEF t
    <2>5. /\ Len(d \o t) = b + Len(t)
          /\ \A i \in 1..(b + Len(t)) : (d \o t)[i] = IF i <= b THEN d[i] ELSE t[i - b]
      BY <1>1, <2>3, ConcatProperties DEF Path
    <2>6. ASSUME NEW i \in 1..(Len(s) - a) PROVE Below(p, s, d)[b + i] = s[a + i]
      <3>1. PICK k \in Nat : k = b + i
        BY <2>1
      <3>2. k \in 1..(b + Len(t)) /\ ~(k <= b) /\ k - b = i
        BY <2>1, <2>3, <3>1
      <3>3. (d \o t)[k] = t[i]
        BY <2>5, <3>2
      <3> QED
        BY <2>3, <2>4, <3>1, <3>3
    <2>7. Len(Below(p, s, d)) = b + Len(s) - a
      BY <2>1, <2>3, <2>4, <2>5
    <2> QED
      BY <2>1, <2>6, <2>7
  <1>3. Len(q) = Len(r) /\ Len(q) \in Nat /\ a <= Len(q)
    BY <1>2
  <1>4. ASSUME NEW i \in 1..Len(q) PROVE q[i] = r[i]
    <2>1. CASE i <= a
      <3>1. i \in 1..a
        BY <2>1
      <3> QED
        BY <1>2, <3>1
    <2>2. CASE ~(i <= a)
      <3>1. PICK k \in Nat : k = i - a
        BY <1>3, <2>2
      <3>2. k \in 1..(Len(q) - a) /\ k \in 1..(Len(r) - a) /\ a + k = i
        BY <1>3, <2>2, <3>1
      <3> QED
        BY <1>2, <3>2
    <2> QED
      BY <2>1, <2>2
  <1> QED
    BY <1>3, <1>4, SeqEqual DEF Path

(* A set of natural numbers has a least. *)
LEMMA SmallestNat ==
  ASSUME NEW T \in SUBSET Nat, T # {}
  PROVE  \E m \in T : \A n \in T : m <= n
  <1> DEFINE R == OpToRel(<, Nat)
  <1>1. PICK m \in T : \A n \in T : ~(<<n, m>> \in R)
    <2>1. IsWellFoundedOn(R, Nat)
      BY NatLessThanWellFounded
    <2> HIDE DEF R
    <2> QED
      BY <2>1, WFMin
  <1>2. \A x, y \in Nat : <<y, x>> \in R <=> y < x
    BY DEF OpToRel
  <1> HIDE DEF R
  <1>3. ASSUME NEW n \in T PROVE m <= n
    <2>1. m \in Nat /\ n \in Nat
      OBVIOUS
    <2>2. ~(n < m)
      BY <1>1, <1>2, <2>1
    <2> QED
      BY <2>1, <2>2
  <1> QED
    BY <1>3

-----------------------------------------------------------------------------
(* Where a record goes: with the root of its tree the call's path becomes  *)
(* the destination, and whatever is below the one is below the other.      *)

LEMMA CallIs == \A c \in Call : c.op \in Op /\ c.src \in Path /\ c.dst \in Path
  BY InventoryAssumption

Placed(e, p) == [e EXCEPT !.parent = Front(p), !.name = Last(p)]

LEMMA PlacedIs ==
  ASSUME NEW e \in Entry, NEW p \in Path, p # <<>>
  PROVE  /\ Placed(e, p) \in Entry /\ Placed(e, p).parent = Front(p)
         /\ FullPath(Placed(e, p)) = p /\ IsDirectory(Placed(e, p)) = IsDirectory(e)
  BY SplitPath DEF Placed, Entry, FullPath, IsDirectory

LEMMA RebasedIs == \A c, e : Rebased(c, e) = Placed(e, Below(c.src, FullPath(e), c.dst))
  BY DEF Rebased, Placed, Below

LEMMA RootPlaced ==
  ASSUME NEW c \in Call, NEW item \in Item, c.dst # <<>>,
         item.id = Head(plan[c]).id, FullPath(item.entry) = c.src
  PROVE  Relocated(c, item) = Placed(item.entry, c.dst) /\ Rebased(c, item.entry) = Placed(item.entry, c.dst)
  BY CallIs, BelowSelf, RebasedIs DEF Relocated, Parent, NameOf, Placed

LEMMA LowerPlaced ==
  ASSUME NEW c \in Call, NEW item \in Item,
         item.id # Head(plan[c]).id, FullPath(Head(plan[c]).entry) = c.src,
         IsPrefix(c.src, item.entry.parent)
  PROVE  LET p == Below(c.src, FullPath(item.entry), c.dst) IN
         /\ p \in Path /\ p # <<>> /\ Front(p) = Below(c.src, item.entry.parent, c.dst)
         /\ Relocated(c, item) = Placed(item.entry, p) /\ Rebased(c, item.entry) = Placed(item.entry, p)
  <1> DEFINE e == item.entry
             q == Below(c.src, e.parent, c.dst)
             p == Below(c.src, FullPath(e), c.dst)
  <1>1. e \in Entry /\ e.parent \in Path /\ e.name \in Name /\ c.src \in Path /\ c.dst \in Path
    BY CallIs, FullPathIs DEF Item
  <1>2. q \in Path
    BY <1>1, BelowType
  <1>3. p = Append(q, e.name)
    BY <1>1, BelowAppend DEF FullPath
  <1>4. p \in Path /\ p # <<>> /\ Front(p) = q /\ Last(p) = e.name
    <2> HIDE DEF p, q, e
    <2> QED
      BY <1>1, <1>2, <1>3, AppendSplit
  <1>5. Relocated(c, item) = [e EXCEPT !.parent = q]
    BY DEF Relocated, Below
  <1>6. [e EXCEPT !.parent = q] = Placed(e, p)
    <2> HIDE DEF p, q, e
    <2> QED
      BY <1>1, <1>4 DEF Placed, Entry
  <1> QED
    BY <1>4, <1>5, <1>6, RebasedIs

-----------------------------------------------------------------------------
(* The cloud.                                                              *)

LEMMA SaveKeeps ==
  ASSUME CloudType, NEW id \in Nat, NEW e \in Entry, Save(id, e),
         lastId' \in Nat, lastId <= lastId', id \in 1..lastId'
  PROVE  CloudType'
  BY DEF CloudType, Save

LEMMA SaveNewKeeps ==
  ASSUME CloudType, NEW e \in Entry, SaveNew(e)
  PROVE  /\ CloudType' /\ lastId' = lastId + 1 /\ lastId + 1 \notin DOMAIN records
         /\ DOMAIN records' = DOMAIN records \cup {lastId + 1} /\ records'[lastId + 1] = e
         /\ \A i \in DOMAIN records : records'[i] = records[i]
  <1>1. lastId \in Nat /\ lastId + 1 \in Nat /\ lastId' = lastId + 1
    BY DEF CloudType, SaveNew
  <1>2. CloudType'
    BY <1>1, SaveKeeps DEF SaveNew
  <1>3. lastId + 1 \notin DOMAIN records
    BY <1>1 DEF CloudType
  <1> QED
    BY <1>1, <1>2, <1>3 DEF SaveNew, Save

LEMMA DeleteKeeps == ASSUME CloudType, NEW id, Delete(id), UNCHANGED lastId PROVE CloudType'
  BY DEF CloudType, Delete

LEMMA CloudStill == CloudType /\ UNCHANGED cloudVars => CloudType'
  BY DEF CloudType, cloudVars

(* Records that are added leave what was rooted rooted, if they are.       *)
LEMMA RootedWith ==
  ASSUME NEW tree, NEW more, NEW i,
         DOMAIN more = DOMAIN tree \cup {i}, \A j \in DOMAIN tree : more[j] = tree[j],
         Rooted(tree), HasDirectory(tree, more[i].parent)
  PROVE  Rooted(more)
  <1>1. ASSUME NEW p, HasDirectory(tree, p) PROVE HasDirectory(more, p)
    BY <1>1 DEF HasDirectory
  <1>2. ASSUME NEW j \in DOMAIN more PROVE HasDirectory(more, more[j].parent)
    <2>1. CASE j \in DOMAIN tree
      <3>1. HasDirectory(tree, tree[j].parent) /\ more[j] = tree[j]
        BY <2>1 DEF Rooted
      <3> QED
        BY <1>1, <3>1
    <2>2. CASE j = i
      BY <1>1, <2>2
    <2> QED
      BY <1>2, <2>1, <2>2
  <1> QED
    BY <1>2 DEF Rooted

LEMMA DirectoryStays ==
  ASSUME NEW tree, NEW more, NEW p, DOMAIN tree \subseteq DOMAIN more,
         \A j \in DOMAIN tree : more[j] = tree[j], HasDirectory(tree, p)
  PROVE  HasDirectory(more, p)
  BY DEF HasDirectory

-----------------------------------------------------------------------------
(* A call's turn leaves the others where they are, and by writing takes    *)
(* from each what it would claim of the tree it began with.                *)

Turn(c) ==
  \/ Resolve(c) \/ ListDirectory(c) \/ CopyRoot(c) \/ WorkOff(c) \/ Finish(c)
  \/ LiveAdd(c) \/ LiveConflict(c) \/ ConfirmSave(c) \/ FallBack(c) \/ CreateDirect(c)
  \/ Fail(c) \/ LateAdd(c)

Undisturbed(c) ==
  /\ rpc'[c] = rpc[c] /\ plan'[c] = plan[c] /\ done'[c] = done[c]
  /\ before'[c] = NoTree \/ (before'[c] = before[c] /\ records' = records)

LEMMA OthersUndisturbed ==
  ASSUME CallType, NEW c \in Call, NEW d \in Call, d # c, Turn(d)
  PROVE  Undisturbed(c)
  <1>1. Wrote(d) \/ WroteLast => before'[c] = NoTree
    BY DEF Wrote, WroteLast
  <1>2. ASSUME NEW at, Goto(d, at) PROVE rpc'[c] = rpc[c]
    BY <1>2 DEF Goto, CallType
  <1>3. ASSUME NEW at, End(d, at) PROVE rpc'[c] = rpc[c] /\ plan'[c] = plan[c] /\ done'[c] = done[c]
    BY <1>3 DEF End, CallType
  <1>4. ASSUME NEW x, before' = [before EXCEPT ![d] = x] PROVE before'[c] = before[c]
    BY <1>4 DEF CallType
  <1>5. ASSUME NEW x, plan' = [plan EXCEPT ![d] = x] PROVE plan'[c] = plan[c]
    BY <1>5 DEF CallType
  <1>6. CASE Resolve(d)
    <2>1. records' = records
      BY <1>6 DEF Resolve, cloudVars
    <2>2. CASE \E at, items : Begin(d, at, items)
      BY <1>2, <1>4, <1>5, <2>1, <2>2 DEF Begin, Undisturbed
    <2>3. CASE \E at : Refuse(d, at)
      BY <1>2, <2>1, <2>3 DEF Refuse, Undisturbed
    <2> QED
      BY <1>6, <2>2, <2>3 DEF Resolve, ResolveMakeDir, ResolveSource
  <1>7. CASE ListDirectory(d)
    BY <1>5, <1>7 DEF ListDirectory, Undisturbed, cloudVars
  <1>8. CASE CopyRoot(d)
    BY <1>1, <1>2, <1>3, <1>8 DEF CopyRoot, Undisturbed
  <1>9. CASE WorkOff(d)
    <2>1. done'[c] = done[c]
      BY <1>9 DEF WorkOff, CallType
    <2> QED
      BY <1>1, <1>9, <2>1 DEF WorkOff, Undisturbed
  <1>10. CASE Finish(d) \/ LiveConflict(d) \/ Fail(d)
    BY <1>3, <1>4, <1>10 DEF Finish, LiveConflict, Fail, EndQuietly, Undisturbed, cloudVars
  <1>11. CASE LiveAdd(d)
    BY <1>1, <1>2, <1>5, <1>11 DEF LiveAdd, Undisturbed
  <1>12. CASE ConfirmSave(d) \/ CreateDirect(d)
    BY <1>1, <1>3, <1>12 DEF ConfirmSave, CreateDirect, Undisturbed
  <1>13. CASE FallBack(d) \/ LateAdd(d)
    BY <1>1, <1>2, <1>13 DEF FallBack, LateAdd, Undisturbed, cloudVars
  <1> QED
    BY <1>6, <1>7, <1>8, <1>9, <1>10, <1>11, <1>12, <1>13 DEF Turn

LEMMA UndisturbedKeeps ==
  ASSUME CloudType, CloudType', lastId <= lastId', NEW c \in Call, CallInv(c), Undisturbed(c)
  PROVE  CallInv(c)'
  <1>1. rpc'[c] = rpc[c] /\ plan'[c] = plan[c] /\ done'[c] = done[c]
    BY DEF Undisturbed
  <1>2. Staged(c)'
    <2>1. \A k \in DOMAIN plan[c] : plan[c][k].id \in 1..lastId'
      BY DEF CallInv, Staged, CloudType
    <2> QED
      BY <1>1, <2>1 DEF CallInv, Staged, InTree, Collected, Unlisted
  <1>3. Gathered(c)'
    BY <1>1 DEF CallInv, Gathered, InTree
  <1>4. CASE before'[c] = NoTree
    BY <1>2, <1>3, <1>4 DEF CallInv, Known, MoveGoes, CopyGoes, Alone
  <1>5. CASE before'[c] = before[c] /\ records' = records
    <2>1. Known(c)'
      BY <1>1, <1>5 DEF CallInv, Known, InTree, Alone, Origin
    <2>2. MoveGoes(c)'
      BY <1>1, <1>5 DEF CallInv, MoveGoes, OldOrRebased, InTree, Alone
    <2>3. CopyGoes(c)'
      <3>1. \A k : Copied(c, k)' <=> Copied(c, k)
        BY <1>1, <1>5 DEF Copied, Relocated
      <3> QED
        BY <1>1, <1>5, <3>1 DEF CallInv, CopyGoes, InTree, Alone
    <2> QED
      BY <1>2, <1>3, <2>1, <2>2, <2>3 DEF CallInv
  <1> QED
    BY <1>4, <1>5 DEF Undisturbed

-----------------------------------------------------------------------------
(* A call's own turn, operation by operation.                              *)

Kept(c) == CloudType' /\ CallType' /\ lastId <= lastId' /\ CallInv(c)'

LEMMA TreeInit == Init => TreeInv
  <1> SUFFICES ASSUME Init PROVE TreeInv
    OBVIOUS
  <1>1. Len(Initial) \in Nat /\ DOMAIN Initial = 1..Len(Initial) /\ Initial \in [1..Len(Initial) -> Entry]
    BY InventoryAssumption
  <1>2. Cardinality(1..Len(Initial)) = Len(Initial)
    BY <1>1, FS_Interval
  <1>3. CloudType
    BY <1>1, <1>2 DEF Init, CloudType
  <1>4. CallType
    BY DEF Init, CallType
  <1>5. ASSUME NEW c \in Call PROVE CallInv(c)
    BY DEF Init, CallInv, Staged, Gathered, Known, MoveGoes, CopyGoes, InTree, Collected
  <1> QED
    BY <1>3, <1>4, <1>5 DEF TreeInv

(* Outside the stages that walk a tree there is nothing else to keep. *)
LEMMA OutOfTree ==
  ASSUME NEW c \in Call, Staged(c)', rpc'[c] \notin {"copyRoot", "collect"}
  PROVE  CallInv(c)'
  BY DEF CallInv, Gathered, Known, MoveGoes, CopyGoes, InTree

LEMMA StillEmpty == ASSUME NEW c \in Call, CallInv(c), rpc[c] # "collect" PROVE done[c] = 0
  BY DEF CallInv, Staged, Collected

LEMMA SnapshotIs ==
  ASSUME CloudType, NEW i \in DOMAIN records
  PROVE  /\ Snapshot(i) \in Item /\ Snapshot(i).id = i /\ Snapshot(i).entry = records[i]
         /\ ~Snapshot(i).listed <=> IsDirectory(Snapshot(i).entry)
         /\ i \in 1..lastId
  <1>1. i \in Nat /\ records[i] \in Entry /\ i \in 1..lastId
    BY DEF CloudType
  <1>2. CASE IsDirectory(records[i])
    <2>1. Snapshot(i) = [id |-> i, entry |-> records[i], listed |-> FALSE]
      BY <1>2 DEF Snapshot
    <2> QED
      BY <1>1, <1>2, <2>1 DEF Item
  <1>3. CASE ~IsDirectory(records[i])
    <2>1. Snapshot(i) = [id |-> i, entry |-> records[i], listed |-> TRUE]
      BY <1>3 DEF Snapshot
    <2> QED
      BY <1>1, <1>3, <2>1 DEF Item
  <1> QED
    BY <1>2, <1>3

LEMMA EndSettles ==
  ASSUME CallType, NEW c \in Call, CallInv(c),
         NEW outcome \in {"ok", "failed", "abandoned"} \cup Refusal, End(c, outcome),
         outcome = "abandoned" => rpc[c] = "create", DOMAIN before' = Call
  PROVE  CallType' /\ CallInv(c)'
  <1>1. <<>> \in Seq(Item) /\ Len(<<>>) = 0 /\ DOMAIN <<>> = {} /\ 0 \in 0..0
    OBVIOUS
  <1>2. CallType'
    BY <1>1 DEF CallType, End
  <1>3. rpc'[c] = outcome /\ plan'[c] = <<>> /\ done'[c] = 0
    BY DEF CallType, End
  <1>4. outcome \notin {"copyRoot", "collect", "create", "confirm", "direct"}
    BY DEF Refusal
  <1>5. Staged(c)'
    BY <1>1, <1>3, <1>4 DEF CallInv, Staged, InTree, Collected
  <1> QED
    BY <1>2, <1>3, <1>4, <1>5, OutOfTree

LEMMA EndQuietlyKeeps ==
  ASSUME CloudType, CallType, NEW c \in Call, CallInv(c),
         NEW outcome \in {"ok", "failed", "abandoned"} \cup Refusal, EndQuietly(c, outcome),
         outcome = "abandoned" => rpc[c] = "create"
  PROVE  Kept(c)
  <1>1. DOMAIN before' = Call /\ End(c, outcome) /\ UNCHANGED cloudVars
    BY DEF EndQuietly, CallType
  <1>2. lastId <= lastId'
    BY <1>1 DEF cloudVars, CloudType
  <1> QED
    BY <1>1, <1>2, EndSettles, CloudStill DEF Kept

LEMMA ResolveKeeps ==
  ASSUME CloudType, CallType, NEW c \in Call, CallInv(c), Resolve(c)
  PROVE  Kept(c)
  <1>1. /\ rpc[c] = "idle" /\ records' = records /\ lastId' = lastId /\ CloudType' /\ lastId <= lastId'
        /\ c.op \in Op /\ c.src \in Path /\ c.dst \in Path
    BY CloudStill, CallIs DEF Resolve, cloudVars, CloudType
  <1>2. done[c] = 0 /\ plan[c] \in Seq(Item) /\ \A k \in DOMAIN plan[c] : plan[c][k].id \in 1..lastId
    BY <1>1, StillEmpty DEF CallInv, Staged, CallType
  <1>3. ASSUME NEW outcome \in Refusal, Refuse(c, outcome) PROVE Kept(c)
    <2>1. CallType' /\ rpc'[c] = outcome /\ plan'[c] = plan[c] /\ done'[c] = 0
      BY <1>2, <1>3 DEF Refuse, Goto, CallType
    <2>2. outcome \notin {"copyRoot", "collect", "create", "confirm", "direct", "abandoned"}
      BY DEF Refusal
    <2>3. Staged(c)'
      BY <1>1, <1>2, <2>1, <2>2 DEF Staged, InTree, Collected
    <2> QED
      BY <1>1, <2>1, <2>2, <2>3, OutOfTree DEF Kept
  <1>4. CASE ResolveMakeDir(c) /\ Begin(c, "create", <<>>) /\ c.src # <<>>
    <2>1. <<>> \in Seq(Item) /\ Len(<<>>) = 0 /\ DOMAIN <<>> = {} /\ 0 \in 0..0
      OBVIOUS
    <2>2. /\ CallType' /\ rpc'[c] = "create" /\ plan'[c] = <<>> /\ done'[c] = 0
      BY <1>2, <1>4, <2>1 DEF Begin, Goto, CallType, Step
    <2>3. Staged(c)'
      BY <1>4, <2>1, <2>2 DEF Staged, InTree, Collected, ResolveMakeDir
    <2> QED
      BY <1>1, <2>2, <2>3, OutOfTree DEF Kept
  <1>5. ASSUME NEW i \in AtPath(c.src), c.op # "mkdir", c.op \in {"copy", "move"} => c.dst # <<>>,
               Begin(c, IF c.op = "copy" THEN "copyRoot" ELSE "collect", <<Snapshot(i)>>)
        PROVE  Kept(c)
    <2>1. i \in DOMAIN records /\ FullPath(records[i]) = c.src
      BY DEF AtPath
    <2>2. PICK s \in Item : /\ s = Snapshot(i) /\ s.id = i /\ s.entry = records[i] /\ s.id \in 1..lastId
                            /\ ~s.listed => IsDirectory(s.entry)
      BY <2>1, SnapshotIs
    <2>3. <<s>> \in Seq(Item) /\ Len(<<s>>) = 1 /\ DOMAIN <<s>> = {1} /\ <<s>>[1] = s /\ <<s>> # <<>>
      OBVIOUS
    <2>4. CallType'
      BY <1>5, <2>2, <2>3 DEF Begin, Goto, CallType, Step
    <2>5. /\ rpc'[c] = (IF c.op = "copy" THEN "copyRoot" ELSE "collect")
          /\ plan'[c] = <<s>> /\ done'[c] = 0 /\ before'[c] = records
      BY <1>2, <1>5, <2>2 DEF Begin, Goto, CallType
    <2>6. c.op # "remove" => c.dst # <<>>
      BY <1>1, <1>5 DEF Op
    <2>7. Staged(c)'
      BY <1>1, <1>5, <2>2, <2>3, <2>5, <2>6 DEF Staged, InTree, Collected
    <2>8. Gathered(c)'
      BY <2>1, <2>2, <2>3, <2>5 DEF Gathered
    <2>9. Known(c)'
      BY <1>1, <2>1, <2>2, <2>3, <2>5 DEF Known, Origin
    <2>10. MoveGoes(c)'
      BY <1>1, <2>5 DEF MoveGoes, OldOrRebased
    <2>11. CopyGoes(c)'
      BY <1>1, <2>5 DEF CopyGoes
    <2> QED
      BY <1>1, <2>4, <2>7, <2>8, <2>9, <2>10, <2>11 DEF Kept, CallInv
  <1>6. CASE ResolveMakeDir(c)
    BY <1>3, <1>4, <1>6 DEF ResolveMakeDir, Refusal
  <1>7. CASE ResolveSource(c)
    BY <1>3, <1>5, <1>7 DEF ResolveSource, Refusal
  <1> QED
    BY <1>6, <1>7 DEF Resolve

(* What the splice of a listing into the plan comes to: what was before    *)
(* the directory and after it keeps its order, with the children between.  *)
Splice(p, k, e, s) == SubSeq(p, 1, k - 1) \o <<e>> \o s \o SubSeq(p, k + 1, Len(p))

LEMMA Spliced ==
  ASSUME NEW T, NEW p \in Seq(T), NEW k \in Nat, k \in DOMAIN p, NEW e \in T, NEW s \in Seq(T),
         NEW q, q = Splice(p, k, e, s)
  PROVE  /\ q \in Seq(T) /\ Len(q) = Len(p) + Len(s)
         /\ \A l \in 1..Len(q) : \/ l < k /\ l \in DOMAIN p /\ q[l] = p[l]
                                 \/ l = k /\ q[l] = e
                                 \/ k < l /\ l - k \in DOMAIN s /\ q[l] = s[l - k]
                                 \/ /\ k + Len(s) < l /\ l - Len(s) \in DOMAIN p
                                    /\ q[l] = p[l - Len(s)]
  <1>1. PICK n \in Nat : n = Len(p)
    OBVIOUS
  <1>2. PICK m \in Nat : m = Len(s)
    OBVIOUS
  <1>3. k \in 1..n /\ 1 <= k /\ k <= n /\ DOMAIN p = 1..n /\ DOMAIN s = 1..m /\ \A i \in 1..n : p[i] \in T
    BY <1>1, <1>2
  <1> DEFINE a == SubSeq(p, 1, k - 1)
             z == SubSeq(p, k + 1, n)
             ae == a \o <<e>>
             aes == ae \o s
  <1>4. a \in Seq(T) /\ Len(a) = k - 1 /\ \A i \in 1..(k - 1) : a[i] = p[i]
    <2>1. k - 1 \in Int /\ \A i \in 1..(k - 1) : p[i] \in T
      BY <1>3
    <2>2. a \in Seq(T) /\ Len(a) = (IF 1 <= k - 1 THEN (k - 1) - 1 + 1 ELSE 0)
          /\ \A i \in 1..((k - 1) - 1 + 1) : a[i] = p[1 + i - 1]
      BY <2>1, SubSeqProperties
    <2> QED
      <3> HIDE DEF a
      <3>1. \A i \in 1..(k - 1) : i \in 1..((k - 1) - 1 + 1) /\ 1 + i - 1 = i
        BY <1>3
      <3> QED
        BY <1>3, <2>2, <3>1
  <1>5. z \in Seq(T) /\ Len(z) = n - k /\ \A i \in 1..(n - k) : z[i] = p[k + i]
    <2>1. k + 1 \in Int /\ n \in Int /\ \A i \in (k + 1)..n : p[i] \in T
      BY <1>3
    <2>2. z \in Seq(T) /\ Len(z) = (IF k + 1 <= n THEN n - (k + 1) + 1 ELSE 0)
          /\ \A i \in 1..(n - (k + 1) + 1) : z[i] = p[(k + 1) + i - 1]
      BY <2>1, SubSeqProperties
    <2> QED
      <3> HIDE DEF z
      <3>1. \A i \in 1..(n - k) : i \in 1..(n - (k + 1) + 1) /\ (k + 1) + i - 1 = k + i
        BY <1>3
      <3> QED
        BY <1>3, <2>2, <3>1
  <1>6. ae \in Seq(T) /\ Len(ae) = k /\ ae[k] = e /\ \A i \in 1..(k - 1) : ae[i] = p[i]
    <2> HIDE DEF a
    <2>1. <<e>> \in Seq(T) /\ Len(<<e>>) = 1 /\ <<e>>[1] = e
      OBVIOUS
    <2>2. ae \in Seq(T) /\ Len(ae) = k - 1 + 1
          /\ \A i \in 1..(k - 1 + 1) : ae[i] = IF i <= k - 1 THEN a[i] ELSE <<e>>[i - (k - 1)]
      <3>1. /\ ae \in Seq(T) /\ Len(ae) = Len(a) + Len(<<e>>)
            /\ \A i \in 1..(Len(a) + Len(<<e>>)) : ae[i] = IF i <= Len(a) THEN a[i] ELSE <<e>>[i - Len(a)]
        <4>1. a \in Seq(T) /\ <<e>> \in Seq(T)
          BY <1>4, <2>1
        <4> QED
          BY <4>1, ConcatProperties
      <3> QED
        BY <1>4, <2>1, <3>1
    <2> HIDE DEF ae
    <2>3. k \in 1..(k - 1 + 1) /\ ~(k <= k - 1) /\ k - (k - 1) = 1 /\ k - 1 + 1 = k
      BY <1>3
    <2>4. \A i \in 1..(k - 1) : i \in 1..(k - 1 + 1) /\ i <= k - 1
      BY <1>3
    <2> QED
      BY <1>4, <2>1, <2>2, <2>3, <2>4
  <1>7. /\ aes \in Seq(T) /\ Len(aes) = k + m
        /\ \A i \in 1..k : aes[i] = ae[i]
        /\ \A i \in 1..(k + m) : k < i => aes[i] = s[i - k]
    <2> HIDE DEF ae
    <2>1. aes \in Seq(T) /\ Len(aes) = k + m
          /\ \A i \in 1..(k + m) : aes[i] = IF i <= k THEN ae[i] ELSE s[i - k]
      <3>1. /\ aes \in Seq(T) /\ Len(aes) = Len(ae) + Len(s)
            /\ \A i \in 1..(Len(ae) + Len(s)) : aes[i] = IF i <= Len(ae) THEN ae[i] ELSE s[i - Len(ae)]
        <4>1. ae \in Seq(T)
          BY <1>6
        <4> QED
          BY <4>1, ConcatProperties
      <3> QED
        BY <1>2, <1>6, <3>1
    <2> HIDE DEF aes
    <2>2. \A i \in 1..k : i \in 1..(k + m) /\ i <= k
      BY <1>2, <1>3
    <2>3. \A i \in 1..(k + m) : k < i => ~(i <= k)
      BY <1>2, <1>3
    <2> QED
      BY <2>1, <2>2, <2>3
  <1>8. /\ q \in Seq(T) /\ Len(q) = k + m + (n - k)
        /\ \A i \in 1..(k + m + (n - k)) : q[i] = IF i <= k + m THEN aes[i] ELSE z[i - (k + m)]
    <2>1. q = aes \o z
      BY <1>1 DEF Splice
    <2> HIDE DEF aes, z
    <2> QED
      <3>1. /\ q \in Seq(T) /\ Len(q) = Len(aes) + Len(z)
            /\ \A i \in 1..(Len(aes) + Len(z)) : q[i] = IF i <= Len(aes) THEN aes[i] ELSE z[i - Len(aes)]
        <4>1. aes \in Seq(T) /\ z \in Seq(T)
          BY <1>5, <1>7
        <4> QED
          BY <2>1, <4>1, ConcatProperties
      <3> QED
        BY <1>5, <1>7, <3>1
  <1> HIDE DEF a, z, ae, aes
  <1>9. /\ Len(q) = n + m
        /\ \A i \in 1..(n + m) : q[i] = IF i <= k + m THEN aes[i] ELSE z[i - (k + m)]
    <2>1. k + m + (n - k) = n + m
      BY <1>3
    <2>2. 1..(k + m + (n - k)) = 1..(n + m)
      BY <2>1
    <2> QED
      BY <1>8, <2>1, <2>2
  <1>10. ASSUME NEW l \in Nat, 1 <= l, l <= n + m, l \in 1..(n + m)
         PROVE  \/ l < k /\ l \in 1..n /\ q[l] = p[l]
                \/ l = k /\ q[l] = e
                \/ k < l /\ l - k \in 1..m /\ q[l] = s[l - k]
                \/ k + m < l /\ l - m \in 1..n /\ q[l] = p[l - m]
    <2>1. CASE l < k
      <3>1. l \in 1..(k - 1) /\ l \in 1..k /\ l \in 1..n /\ l <= k + m
        BY <1>3, <1>10, <2>1
      <3> QED
        BY <1>6, <1>7, <1>9, <1>10, <2>1, <3>1
    <2>2. CASE l = k
      <3>1. l \in 1..k /\ l <= k + m
        BY <1>3, <1>10, <2>2
      <3> QED
        BY <1>6, <1>7, <1>9, <1>10, <2>2, <3>1
    <2>3. CASE k < l /\ l <= k + m
      <3>1. l \in 1..(k + m) /\ l - k \in 1..m
        BY <1>3, <1>10, <2>3
      <3> QED
        BY <1>7, <1>9, <1>10, <2>3, <3>1
    <2>4. CASE k + m < l
      <3>1. PICK i \in Nat : i = l - (k + m)
        BY <1>3, <1>10, <2>4
      <3>2. ~(l <= k + m) /\ i \in 1..(n - k) /\ k + i = l - m /\ l - m \in 1..n
        BY <1>3, <1>10, <2>4, <3>1
      <3>3. q[l] = z[i] /\ z[i] = p[k + i]
        BY <1>5, <1>9, <1>10, <3>1, <3>2
      <3> QED
        BY <2>4, <3>2, <3>3
    <2>5. l < k \/ l = k \/ (k < l /\ l <= k + m) \/ k + m < l
      BY <1>3, <1>10
    <2> QED
      BY <2>1, <2>2, <2>3, <2>4, <2>5
  <1>11. \A l \in 1..(n + m) : l \in Nat /\ 1 <= l /\ l <= n + m
    OBVIOUS
  <1> QED
    BY <1>1, <1>2, <1>3, <1>8, <1>9, <1>10, <1>11

(* Where an item of the plan is after the splice. *)
Shifted(k, n, j) == IF j <= k THEN j ELSE j + n

Threaded(p, k, e, t, q) ==
  /\ q \in Seq(Item) /\ Len(q) = Len(p) + Len(t) /\ Len(q) \in Nat /\ DOMAIN q = 1..Len(q)
  /\ \A j \in DOMAIN p :
       /\ Shifted(k, Len(t), j) \in DOMAIN q
       /\ q[Shifted(k, Len(t), j)].id = p[j].id /\ q[Shifted(k, Len(t), j)].entry = p[j].entry
       /\ p[j].listed => q[Shifted(k, Len(t), j)].listed
       /\ Shifted(k, Len(t), j) = 1 <=> j = 1
       /\ \A i \in 1..(j - 1) :
            i \in DOMAIN p /\ Shifted(k, Len(t), i) \in 1..(Shifted(k, Len(t), j) - 1)
  /\ q[k] = e
  /\ \A j \in DOMAIN t : k + j \in DOMAIN q /\ q[k + j] = t[j]
  /\ \A l \in DOMAIN q :
       \/ \E j \in DOMAIN p : /\ l = Shifted(k, Len(t), j)
                              /\ q[l].listed => (l = k \/ p[j].listed)
                              /\ p[j].listed => q[l].listed
       \/ k \in 1..(l - 1) /\ \E j \in DOMAIN t : l = k + j /\ q[l] = t[j]

LEMMA SplicedOrder ==
  ASSUME NEW p \in Seq(Item), NEW k \in Nat, k \in DOMAIN p, NEW t \in Seq(Item), NEW e \in Item,
         e.id = p[k].id, e.entry = p[k].entry, e.listed, NEW q, q = Splice(p, k, e, t)
  PROVE  Threaded(p, k, e, t, q)
  <1> DEFINE at(j) == Shifted(k, Len(t), j)
  <1>1. /\ Len(p) \in Nat /\ Len(t) \in Nat /\ DOMAIN p = 1..Len(p) /\ DOMAIN t = 1..Len(t)
        /\ 1 <= k /\ k <= Len(p)
    OBVIOUS
  <1>2. /\ q \in Seq(Item) /\ Len(q) = Len(p) + Len(t)
        /\ \A l \in 1..Len(q) : \/ l < k /\ l \in DOMAIN p /\ q[l] = p[l]
                                \/ l = k /\ q[l] = e
                                \/ k < l /\ l - k \in DOMAIN t /\ q[l] = t[l - k]
                                \/ /\ k + Len(t) < l /\ l - Len(t) \in DOMAIN p
                                   /\ q[l] = p[l - Len(t)]
    BY Spliced
  <1>3. Len(q) \in Nat /\ DOMAIN q = 1..Len(q)
    BY <1>2
  <1>4. q[k] = e
    <2>1. k \in 1..Len(q) /\ ~(k < k) /\ ~(k + Len(t) < k)
      BY <1>1, <1>2
    <2> QED
      BY <1>2, <2>1
  <1>5. ASSUME NEW j \in DOMAIN t PROVE k + j \in DOMAIN q /\ q[k + j] = t[j]
    <2>1. PICK l \in Nat : l = k + j
      BY <1>1
    <2>2. /\ l \in 1..Len(q) /\ ~(l < k) /\ ~(l = k) /\ l - k = j /\ ~(k + Len(t) < l)
      BY <1>1, <1>2, <2>1
    <2> QED
      BY <1>2, <1>3, <2>1, <2>2
  <1>6. ASSUME NEW j \in DOMAIN p
        PROVE  /\ at(j) \in DOMAIN q /\ q[at(j)].id = p[j].id /\ q[at(j)].entry = p[j].entry
               /\ p[j].listed => q[at(j)].listed
               /\ at(j) = 1 <=> j = 1
               /\ \A i \in 1..(j - 1) : i \in DOMAIN p /\ at(i) \in 1..(at(j) - 1)
    <2>1. /\ j \in Nat /\ 1 <= j /\ j <= Len(p)
      BY <1>1
    <2>2. /\ at(j) \in Nat /\ at(j) \in 1..Len(q) /\ (at(j) = 1 <=> j = 1)
          /\ \A i \in 1..(j - 1) : i \in 1..Len(p) /\ at(i) \in 1..(at(j) - 1)
      BY <1>1, <1>2, <2>1 DEF Shifted
    <2>3. q[at(j)] = p[j] \/ (j = k /\ q[at(j)] = e)
      <3>1. CASE j < k
        <4>1. at(j) = j /\ j \in 1..Len(q) /\ ~(j = k) /\ ~(k < j) /\ ~(k + Len(t) < j)
          BY <1>1, <1>2, <2>1, <3>1 DEF Shifted
        <4> QED
          BY <1>2, <4>1
      <3>2. CASE j = k
        <4>1. at(j) = k
          BY <3>2 DEF Shifted
        <4> QED
          BY <1>4, <3>2, <4>1
      <3>3. CASE k < j
        <4>1. PICK l \in Nat : l = j + Len(t)
          BY <1>1, <2>1
        <4>2. /\ at(j) = l /\ l \in 1..Len(q) /\ ~(l < k) /\ ~(l = k) /\ l - Len(t) = j
              /\ ~(l - k \in 1..Len(t))
          BY <1>1, <1>2, <2>1, <3>3, <4>1 DEF Shifted
        <4> QED
          BY <1>1, <1>2, <4>2
      <3> QED
        BY <1>1, <2>1, <3>1, <3>2, <3>3
    <2> QED
      BY <1>1, <1>3, <2>2, <2>3
  <1>7. ASSUME NEW l \in DOMAIN q
        PROVE  \/ \E j \in DOMAIN p : /\ l = at(j)
                                      /\ q[l].listed => (l = k \/ p[j].listed)
                                      /\ p[j].listed => q[l].listed
               \/ k \in 1..(l - 1) /\ \E j \in DOMAIN t : l = k + j /\ q[l] = t[j]
    <2>1. l \in Nat /\ 1 <= l /\ l <= Len(q) /\ l \in 1..Len(q)
      BY <1>3
    <2>2. CASE l < k /\ l \in DOMAIN p /\ q[l] = p[l]
      BY <1>1, <2>1, <2>2 DEF Shifted
    <2>3. CASE l = k /\ q[l] = e
      BY <1>1, <2>1, <2>3 DEF Shifted
    <2>4. CASE k < l /\ l - k \in DOMAIN t /\ q[l] = t[l - k]
      <3>1. k \in 1..(l - 1) /\ l = k + (l - k)
        BY <1>1, <2>1, <2>4
      <3> QED
        BY <2>4, <3>1
    <2>5. CASE k + Len(t) < l /\ l - Len(t) \in DOMAIN p /\ q[l] = p[l - Len(t)]
      <3>1. l = at(l - Len(t))
        BY <1>1, <2>1, <2>5 DEF Shifted
      <3> QED
        BY <2>5, <3>1
    <2> QED
      BY <1>2, <2>1, <2>2, <2>3, <2>4, <2>5
  <1> QED
    BY <1>2, <1>3, <1>4, <1>5, <1>6, <1>7 DEF Threaded

LEMMA OrdersIs ==
  ASSUME CloudType, NEW p, NEW s \in Orders(GetChildren(p))
  PROVE  /\ Len(s) \in Nat /\ DOMAIN s = 1..Len(s)
         /\ \A k \in DOMAIN s : s[k] \in DOMAIN records /\ records[s[k]].parent = p
         /\ \A k, l \in DOMAIN s : s[k] = s[l] => k = l
         /\ \A i \in GetChildren(p) : \E k \in DOMAIN s : s[k] = i
  <1> DEFINE S == GetChildren(p)
  <1>1. IsFiniteSet(1..lastId)
    BY FS_Interval DEF CloudType
  <1>2. S \subseteq 1..lastId /\ \A i \in S : i \in DOMAIN records /\ records[i].parent = p
    BY DEF GetChildren, CloudType
  <1>3. IsFiniteSet(S) /\ Cardinality(S) \in Nat
    BY <1>1, <1>2, FS_Subset, FS_CardinalityType
  <1>4. /\ s \in [1..Cardinality(S) -> S] /\ DOMAIN s = 1..Cardinality(S)
        /\ \A k, l \in DOMAIN s : s[k] = s[l] => k = l
    BY DEF Orders
  <1>5. /\ s \in Seq(S) /\ Len(s) = Cardinality(S) /\ DOMAIN s = 1..Len(s)
        /\ \A k \in DOMAIN s : s[k] \in S
    <2> HIDE DEF S
    <2> QED
      BY <1>3, <1>4
  <1>6. \A i \in S : \E k \in DOMAIN s : s[k] = i
    <2> DEFINE n == Cardinality(S)
    <2>1. s \in Injection(1..n, S)
      BY <1>4 DEF Injection, IsInjective
    <2>2. IsFiniteSet(1..n) /\ Cardinality(1..n) = n
      BY <1>3, FS_Interval
    <2>3. s \in Surjection(1..n, S)
      BY <1>3, <2>1, <2>2, FS_Injection
    <2> QED
      BY <1>4, <2>3 DEF Surjection
  <1> HIDE DEF S
  <1> QED
    BY <1>2, <1>3, <1>4, <1>5, <1>6 DEF S

(* What a listing brings: a snapshot of each record in the directory, once.*)
Listing(c, k, t) ==
  /\ plan' = [plan EXCEPT ![c] = plan'[c]]
  /\ plan'[c] = Splice(plan[c], k, [plan[c][k] EXCEPT !.listed = TRUE], t)
  /\ \A l \in DOMAIN t :
       /\ t[l].id \in DOMAIN records /\ t[l].id \in 1..lastId
       /\ t[l].entry = records[t[l].id] /\ t[l].entry \in Entry
       /\ t[l].entry.parent = FullPath(plan[c][k].entry)
       /\ ~t[l].listed <=> IsDirectory(t[l].entry)
  /\ \A l, m \in DOMAIN t : t[l].id = t[m].id => l = m
  /\ \A i \in GetChildren(FullPath(plan[c][k].entry)) : \E l \in DOMAIN t : t[l].id = i

LEMMA ListingIs ==
  ASSUME CloudType, CallType, NEW c \in Call, CallInv(c), ListDirectory(c)
  PROVE  /\ rpc[c] = "collect" /\ rpc' = rpc /\ records' = records /\ lastId' = lastId
         /\ done' = done /\ before' = before /\ done[c] = 0
         /\ plan[c] \in Seq(Item) /\ plan[c] # <<>> /\ Len(plan[c]) \in Nat \ {0}
         /\ DOMAIN plan[c] = 1..Len(plan[c]) /\ 1 \in DOMAIN plan[c]
         /\ \E k \in DOMAIN plan[c], t \in Seq(Item) :
              k \in Nat /\ ~plan[c][k].listed /\ Listing(c, k, t)
  <1>1. /\ rpc[c] = "collect" /\ rpc' = rpc /\ records' = records /\ lastId' = lastId
        /\ done' = done /\ before' = before
    BY DEF ListDirectory, cloudVars
  <1> DEFINE p == plan[c]
  <1>2. p \in Seq(Item) /\ p # <<>> /\ Len(p) \in Nat \ {0} /\ DOMAIN p = 1..Len(p) /\ 1 \in DOMAIN p
    BY <1>1 DEF CallType, CallInv, Staged, InTree
  <1>3. PICK k \in Unlisted(c) : \E s \in Orders(GetChildren(FullPath(p[k].entry))) :
          plan' = [plan EXCEPT ![c] =
            SubSeq(p, 1, k - 1) \o <<[p[k] EXCEPT !.listed = TRUE]>>
            \o [l \in DOMAIN s |-> Snapshot(s[l])] \o SubSeq(p, k + 1, Len(p))]
    BY DEF ListDirectory, CallType
  <1>4. k \in DOMAIN p /\ k \in Nat /\ p[k] \in Item /\ ~p[k].listed
    BY <1>2, <1>3 DEF Unlisted
  <1>5. done[c] = 0
    BY <1>3 DEF CallInv, Staged, Collected
  <1>6. PICK s \in Orders(GetChildren(FullPath(p[k].entry))) :
          plan' = [plan EXCEPT ![c] =
            SubSeq(p, 1, k - 1) \o <<[p[k] EXCEPT !.listed = TRUE]>>
            \o [l \in DOMAIN s |-> Snapshot(s[l])] \o SubSeq(p, k + 1, Len(p))]
    BY <1>3
  <1>7. /\ Len(s) \in Nat /\ DOMAIN s = 1..Len(s)
        /\ \A l \in DOMAIN s : s[l] \in DOMAIN records /\ records[s[l]].parent = FullPath(p[k].entry)
        /\ \A l, m \in DOMAIN s : s[l] = s[m] => l = m
        /\ \A i \in GetChildren(FullPath(p[k].entry)) : \E l \in DOMAIN s : s[l] = i
    BY OrdersIs
  <1> DEFINE t == [l \in DOMAIN s |-> Snapshot(s[l])]
  <1>8. t \in Seq(Item) /\ DOMAIN t = DOMAIN s
    BY <1>7, SnapshotIs
  <1>9. \A l \in DOMAIN t :
          /\ t[l].id = s[l] /\ t[l].id \in DOMAIN records /\ t[l].id \in 1..lastId
          /\ t[l].entry = records[t[l].id] /\ t[l].entry \in Entry
          /\ t[l].entry.parent = FullPath(p[k].entry)
          /\ ~t[l].listed <=> IsDirectory(t[l].entry)
    <2> SUFFICES ASSUME NEW l \in DOMAIN s
                 PROVE  /\ t[l].id = s[l] /\ t[l].id \in DOMAIN records /\ t[l].id \in 1..lastId
                        /\ t[l].entry = records[t[l].id] /\ t[l].entry \in Entry
                        /\ t[l].entry.parent = FullPath(p[k].entry)
                        /\ ~t[l].listed <=> IsDirectory(t[l].entry)
      BY <1>8
    <2>1. t[l] = Snapshot(s[l]) /\ s[l] \in DOMAIN records /\ records[s[l]].parent = FullPath(p[k].entry)
      BY <1>7
    <2>2. records[s[l]] \in Entry
      BY <2>1 DEF CloudType
    <2> HIDE DEF t, p
    <2> QED
      BY <2>1, <2>2, SnapshotIs
  <1>10. plan' = [plan EXCEPT ![c] = Splice(p, k, [p[k] EXCEPT !.listed = TRUE], t)]
    BY <1>6 DEF Splice
  <1>11. plan'[c] = Splice(p, k, [p[k] EXCEPT !.listed = TRUE], t) /\ plan' = [plan EXCEPT ![c] = plan'[c]]
    BY <1>10 DEF CallType
  <1> HIDE DEF t
  <1>12. Listing(c, k, t)
    BY <1>7, <1>8, <1>9, <1>11 DEF Listing
  <1> QED
    BY <1>1, <1>2, <1>4, <1>5, <1>8, <1>12

LEMMA ListDirectoryKeeps ==
  ASSUME CloudType, CallType, NEW c \in Call, CallInv(c), ListDirectory(c)
  PROVE  Kept(c)
  <1>1. /\ rpc[c] = "collect" /\ rpc' = rpc /\ rpc'[c] = "collect" /\ records' = records
        /\ lastId' = lastId /\ done' = done /\ before' = before /\ done[c] = 0
    BY ListingIs
  <1>2. CloudType' /\ lastId <= lastId'
    BY <1>1, CloudStill DEF cloudVars, CloudType
  <1> DEFINE p == plan[c]
  <1>3. p \in Seq(Item) /\ p # <<>> /\ Len(p) \in Nat \ {0} /\ DOMAIN p = 1..Len(p) /\ 1 \in DOMAIN p
    BY ListingIs
  <1>4. PICK k \in DOMAIN p, t \in Seq(Item) : k \in Nat /\ ~p[k].listed /\ Listing(c, k, t)
    BY ListingIs
  <1> DEFINE e == [p[k] EXCEPT !.listed = TRUE]
             q == plan'[c]
             at(j) == Shifted(k, Len(t), j)
  <1>5. e \in Item /\ e.id = p[k].id /\ e.entry = p[k].entry /\ e.listed
    <2>1. p[k] \in Item
      BY <1>3, <1>4
    <2> HIDE DEF p
    <2> QED
      BY <2>1 DEF Item
  <1>6. plan' = [plan EXCEPT ![c] = q] /\ q = Splice(p, k, e, t)
    BY <1>4 DEF Listing
  <1>7. /\ q \in Seq(Item) /\ Len(q) = Len(p) + Len(t) /\ Len(t) \in Nat /\ Len(q) \in Nat /\ DOMAIN q = 1..Len(q)
        /\ \A j \in DOMAIN p :
             /\ at(j) \in DOMAIN q /\ q[at(j)].id = p[j].id /\ q[at(j)].entry = p[j].entry
             /\ p[j].listed => q[at(j)].listed
             /\ at(j) = 1 <=> j = 1
             /\ \A i \in 1..(j - 1) : i \in DOMAIN p /\ at(i) \in 1..(at(j) - 1)
        /\ q[k] = e
        /\ \A l \in DOMAIN q :
             \/ \E j \in DOMAIN p : l = at(j) /\ (p[j].listed => q[l].listed)
             \/ k \in 1..(l - 1) /\ \E j \in DOMAIN t : q[l] = t[j]
    <2> HIDE DEF p, e, q
    <2>1. Len(t) \in Nat
      BY <1>4
    <2>2. p \in Seq(Item) /\ k \in Nat /\ k \in DOMAIN p /\ t \in Seq(Item) /\ q = Splice(p, k, e, t)
      BY <1>3, <1>4, <1>6
    <2>3. Threaded(p, k, e, t, q)
      BY <1>5, <2>2, SplicedOrder
    <2>4. \A l \in DOMAIN q :
             \/ \E j \in DOMAIN p : l = at(j) /\ (p[j].listed => q[l].listed)
             \/ k \in 1..(l - 1) /\ \E j \in DOMAIN t : q[l] = t[j]
      BY <2>3, Zenon DEF Threaded
    <2> QED
      BY <2>1, <2>3, <2>4 DEF Threaded
  <1>8. \A j \in DOMAIN t :
          /\ t[j].id \in DOMAIN records /\ t[j].id \in 1..lastId
          /\ t[j].entry = records[t[j].id] /\ t[j].entry \in Entry
          /\ t[j].entry.parent = FullPath(p[k].entry)
          /\ ~t[j].listed => IsDirectory(t[j].entry)
    BY <1>4 DEF Listing
  <1> HIDE DEF p, e, q, at
  <1>9. CallType'
    BY <1>1, <1>6, <1>7 DEF CallType
  <1>10. q # <<>> /\ 1 \in DOMAIN q /\ q[1].id = p[1].id /\ q[1].entry = p[1].entry
    <2>1. 1 \in DOMAIN q /\ at(1) = 1
      BY <1>3, <1>7
    <2> QED
      BY <1>3, <1>7, <2>1
  <1>11. Staged(c)'
    <2>1. \A l \in DOMAIN q : q[l].id \in 1..lastId
      <3>1. \A j \in DOMAIN p : p[j].id \in 1..lastId
        BY DEF p, CallInv, Staged
      <3>2. ASSUME NEW l \in DOMAIN q, NEW j \in DOMAIN p, l = at(j) PROVE q[l].id \in 1..lastId
        BY <1>7, <3>1, <3>2
      <3> QED
        BY <1>7, <1>8, <3>2
    <2>2. c.op # "mkdir" /\ (c.op # "remove" => c.dst # <<>>)
      BY <1>1 DEF CallInv, Staged, InTree
    <2>3. 0 \in 0..Len(q) /\ 0 < Len(q)
      BY <1>3, <1>7
    <2>4. plan'[c] = q /\ done'[c] = 0
      BY <1>1 DEF q
    <2> QED
      BY <1>1, <1>10, <2>1, <2>2, <2>3, <2>4 DEF Staged, InTree
  <1>12. /\ FullPath(p[1].entry) = c.src
         /\ \A j \in DOMAIN p :
              /\ ~p[j].listed => IsDirectory(p[j].entry)
              /\ j # 1 => /\ IsPrefix(c.src, p[j].entry.parent)
                          /\ \E i \in 1..(j - 1) :
                               /\ IsDirectory(p[i].entry) /\ p[i].listed
                               /\ FullPath(p[i].entry) = p[j].entry.parent
    BY <1>1 DEF p, CallInv, Gathered, InTree
  <1>13. IsPrefix(c.src, FullPath(p[k].entry))
    <2>1. c.src \in Path /\ p[k].entry \in Entry
      <3>1. p[k] \in Item
        BY <1>3, <1>4
      <3> QED
        BY <3>1, CallIs DEF Item
    <2>2. CASE k = 1
      BY <1>12, <2>1, <2>2, PrefixSelf
    <2>3. CASE k # 1
      <3>1. IsPrefix(c.src, p[k].entry.parent)
        BY <1>4, <1>12, <2>3
      <3> QED
        BY <2>1, <3>1, FullPathIs, PrefixAppend DEF FullPath
    <2> QED
      BY <2>2, <2>3
  <1>14. plan'[c] = q
    BY DEF q
  <1>15. Gathered(c)'
    <2>1. FullPath(q[1].entry) = c.src
      BY <1>10, <1>12
    <2>2. ASSUME NEW l \in DOMAIN q
          PROVE  /\ ~q[l].listed => IsDirectory(q[l].entry)
                 /\ l # 1 => /\ IsPrefix(c.src, q[l].entry.parent)
                             /\ \E i \in 1..(l - 1) :
                                  /\ IsDirectory(q[i].entry) /\ q[i].listed
                                  /\ FullPath(q[i].entry) = q[l].entry.parent
      <3>1. ASSUME NEW j \in DOMAIN p, l = at(j), p[j].listed => q[l].listed
            PROVE  /\ ~q[l].listed => IsDirectory(q[l].entry)
                   /\ l # 1 => /\ IsPrefix(c.src, q[l].entry.parent)
                               /\ \E i \in 1..(l - 1) :
                                    /\ IsDirectory(q[i].entry) /\ q[i].listed
                                    /\ FullPath(q[i].entry) = q[l].entry.parent
        <4>1. ~q[l].listed => IsDirectory(q[l].entry)
          BY <1>7, <1>12, <3>1
        <4>2. ASSUME l # 1
              PROVE  /\ IsPrefix(c.src, q[l].entry.parent)
                     /\ \E i \in 1..(l - 1) :
                          /\ IsDirectory(q[i].entry) /\ q[i].listed
                          /\ FullPath(q[i].entry) = q[l].entry.parent
          <5>1. j # 1 /\ q[l].entry = p[j].entry
            BY <1>7, <3>1, <4>2
          <5>2. PICK i \in 1..(j - 1) : /\ IsDirectory(p[i].entry) /\ p[i].listed
                                        /\ FullPath(p[i].entry) = p[j].entry.parent
            BY <1>12, <5>1
          <5>3. i \in DOMAIN p /\ at(i) \in 1..(l - 1)
            BY <1>7, <3>1
          <5>4. q[at(i)].entry = p[i].entry /\ q[at(i)].listed
            BY <1>7, <5>2, <5>3
          <5> QED
            BY <1>12, <5>1, <5>2, <5>3, <5>4
        <4> QED
          BY <4>1, <4>2
      <3>2. ASSUME NEW j \in DOMAIN t, k \in 1..(l - 1), q[l] = t[j]
            PROVE  /\ ~q[l].listed => IsDirectory(q[l].entry)
                   /\ IsPrefix(c.src, q[l].entry.parent)
                   /\ \E i \in 1..(l - 1) :
                        /\ IsDirectory(q[i].entry) /\ q[i].listed
                        /\ FullPath(q[i].entry) = q[l].entry.parent
        <4>1. q[k].entry = p[k].entry /\ q[k].listed
          BY <1>5, <1>7
        <4>2. IsDirectory(p[k].entry)
          BY <1>4, <1>12
        <4> QED
          BY <1>8, <1>13, <3>2, <4>1, <4>2
      <3> QED
        BY <1>7, <3>1, <3>2
    <2> QED
      BY <1>14, <2>1, <2>2 DEF Gathered
  <1>16. Known(c)'
    <2> SUFFICES ASSUME Alone(c), NEW l \in DOMAIN q
                 PROVE  q[l].id \in DOMAIN Origin(c) /\ q[l].entry = Origin(c)[q[l].id]
      BY <1>1, <1>14 DEF Known, Alone, Origin
    <2>1. \A j \in DOMAIN p : p[j].id \in DOMAIN Origin(c) /\ p[j].entry = Origin(c)[p[j].id]
      BY <1>1 DEF CallInv, Known, InTree, p
    <2>2. Origin(c) = records
      BY <1>1 DEF CallInv, MoveGoes, InTree, Origin
    <2>3. ASSUME NEW j \in DOMAIN p, l = at(j)
          PROVE  q[l].id \in DOMAIN Origin(c) /\ q[l].entry = Origin(c)[q[l].id]
      BY <1>7, <2>1, <2>3
    <2>4. ASSUME NEW j \in DOMAIN t, q[l] = t[j]
          PROVE  q[l].id \in DOMAIN Origin(c) /\ q[l].entry = Origin(c)[q[l].id]
      BY <1>8, <2>2, <2>4
    <2> QED
      BY <1>7, <2>3, <2>4
  <1>17. MoveGoes(c)'
    BY <1>1 DEF CallInv, MoveGoes, InTree, Alone, OldOrRebased
  <1>18. CopyGoes(c)'
    <2>1. ASSUME Alone(c), c.op = "copy" PROVE Copied(c, 1)'
      <3>1. Copied(c, 1)
        BY <1>1, <2>1 DEF CallInv, CopyGoes, InTree
      <3>2. Relocated(c, plan[c][1])' = Relocated(c, plan[c][1])
        <4>1. Head(plan[c]) = plan[c][1] /\ Head(plan'[c]) = plan'[c][1]
          BY <1>3, <1>7, <1>10, <1>14 DEF p
        <4>2. plan'[c][1].id = plan[c][1].id /\ plan'[c][1].entry = plan[c][1].entry
          BY <1>10, <1>14 DEF p
        <4> QED
          BY <4>1, <4>2 DEF Relocated
      <3> QED
        BY <1>1, <3>1, <3>2 DEF Copied
    <2>2. done'[c] = 0
      BY <1>1
    <2> QED
      BY <1>1, <2>1, <2>2 DEF CallInv, CopyGoes, InTree, Alone
  <1> QED
    BY <1>1, <1>2, <1>9, <1>11, <1>15, <1>16, <1>17, <1>18 DEF Kept, CallInv

(* Whatever became of the tree, a record is relocated to a path.           *)
LEMMA RelocatedType ==
  ASSUME CallType, NEW c \in Call, CallInv(c), InTree(c), c.op # "remove", NEW item \in Item
  PROVE  Relocated(c, item) \in Entry
  <1>1. /\ c.dst \in Path /\ c.dst # <<>> /\ plan[c] \in Seq(Item) /\ plan[c] # <<>>
    BY CallIs DEF CallInv, Staged, CallType
  <1>2. item.entry \in Entry /\ Head(plan[c]).entry \in Entry
    <2>1. Head(plan[c]) \in Item
      BY <1>1
    <2> QED
      BY <2>1 DEF Item
  <1>3. CASE item.id = Head(plan[c]).id
    <2>1. Relocated(c, item) = Placed(item.entry, c.dst)
      BY <1>3 DEF Relocated, Placed, Parent, NameOf
    <2> QED
      BY <1>1, <1>2, <2>1, PlacedIs
  <1>4. CASE item.id # Head(plan[c]).id
    <2>1. Below(FullPath(Head(plan[c]).entry), item.entry.parent, c.dst) \in Path
      BY <1>1, <1>2, FullPathIs, BelowType
    <2>2. Relocated(c, item) =
            [item.entry EXCEPT !.parent = Below(FullPath(Head(plan[c]).entry), item.entry.parent, c.dst)]
      BY <1>4 DEF Relocated, Below
    <2> QED
      BY <1>2, <2>1, <2>2 DEF Entry
  <1> QED
    BY <1>3, <1>4

(* While the call is alone the snapshots are of records with one path      *)
(* each, and so only the root is taken for the root.                       *)
LEMMA RelocatedIs ==
  ASSUME CallType, NEW c \in Call, CallInv(c), InTree(c), Alone(c), c.op # "remove",
         NEW k \in DOMAIN plan[c]
  PROVE  LET e == plan[c][k].entry
             p == Below(c.src, FullPath(e), c.dst)
         IN /\ e \in Entry /\ p \in Path /\ p # <<>> /\ Under(c.src, e)
            /\ Relocated(c, plan[c][k]) = Placed(e, p) /\ Rebased(c, e) = Placed(e, p)
            /\ k = 1 => p = c.dst
            /\ k # 1 => Front(p) = Below(c.src, e.parent, c.dst)
  <1> DEFINE item == plan[c][k]
             e == item.entry
             p == Below(c.src, FullPath(e), c.dst)
  <1>1. /\ c.src \in Path /\ c.dst \in Path /\ c.dst # <<>>
        /\ plan[c] \in Seq(Item) /\ plan[c] # <<>> /\ Head(plan[c]) = plan[c][1]
        /\ 1 \in DOMAIN plan[c] /\ item \in Item /\ plan[c][1] \in Item
    BY CallIs DEF CallInv, Staged, CallType
  <1>2. FullPath(plan[c][1].entry) = c.src /\ (k # 1 => IsPrefix(c.src, e.parent))
    BY DEF CallInv, Gathered
  <1>3. e \in Entry /\ e.parent \in Path /\ e.name \in Name /\ plan[c][1].entry \in Entry
    BY <1>1, FullPathIs DEF Item
  <1>4. CASE k = 1
    <2>1. p = c.dst /\ IsPrefix(c.src, FullPath(e))
      BY <1>1, <1>2, <1>4, BelowSelf, PrefixSelf
    <2>2. Relocated(c, item) = Placed(e, c.dst) /\ Rebased(c, e) = Placed(e, c.dst)
      BY <1>1, <1>2, <1>4, RootPlaced
    <2> QED
      BY <1>1, <1>3, <1>4, <2>1, <2>2 DEF Under
  <1>5. CASE k # 1
    <2>1. IsPrefix(c.src, FullPath(e))
      BY <1>1, <1>2, <1>3, <1>5, PrefixAppend DEF FullPath
    <2>2. item.id # Head(plan[c]).id
      <3>1. ASSUME item.id = plan[c][1].id PROVE FALSE
        <4>1. e = plan[c][1].entry
          BY <1>1, <3>1 DEF CallInv, Known
        <4>2. Len(c.src) = Len(e.parent) + 1 /\ Len(e.parent) \in Nat
          BY <1>2, <1>3, <4>1, FullPathIs DEF Path
        <4>3. Len(c.src) <= Len(e.parent)
          BY <1>2, <1>5 DEF IsPrefix
        <4> QED
          BY <4>2, <4>3
      <3> QED
        BY <1>1, <3>1
    <2>3. FullPath(Head(plan[c]).entry) = c.src /\ IsPrefix(c.src, item.entry.parent)
      BY <1>1, <1>2, <1>5
    <2>4. /\ p \in Path /\ p # <<>> /\ Front(p) = Below(c.src, item.entry.parent, c.dst)
          /\ Relocated(c, item) = Placed(item.entry, p) /\ Rebased(c, item.entry) = Placed(item.entry, p)
      BY <1>1, <2>2, <2>3, LowerPlaced
    <2> QED
      BY <1>3, <1>5, <2>1, <2>4 DEF Under
  <1> QED
    BY <1>4, <1>5

LEMMA CopyRootKeeps ==
  ASSUME CloudType, CallType, NEW c \in Call, CallInv(c), CopyRoot(c)
  PROVE  Kept(c)
  <1> DEFINE root == plan[c][1]
  <1>1. /\ rpc[c] = "copyRoot" /\ InTree(c) /\ c.op = "copy" /\ c.dst # <<>> /\ c.dst \in Path
        /\ plan[c] \in Seq(Item) /\ plan[c] # <<>> /\ Head(plan[c]) = root /\ root \in Item
        /\ 1 \in DOMAIN plan[c] /\ Len(plan[c]) \in Nat \ {0}
    BY CallIs DEF CopyRoot, CallInv, Staged, InTree, CallType
  <1>2. done[c] = 0
    BY <1>1, StillEmpty
  <1>3. SaveNew(Relocated(c, root)) /\ Relocated(c, root) \in Entry
    BY <1>1, RelocatedType DEF CopyRoot
  <1>4. /\ CloudType' /\ lastId' = lastId + 1 /\ lastId \in Nat /\ lastId <= lastId'
        /\ DOMAIN records' = DOMAIN records \cup {lastId + 1}
        /\ records'[lastId + 1] = Relocated(c, root)
        /\ \A i \in DOMAIN records : records'[i] = records[i]
    <2>1. lastId \in Nat
      BY DEF CloudType
    <2> QED
      BY <1>3, <2>1, SaveNewKeeps
  <1>5. CASE End(c, "recursion_required") /\ WroteLast
    <2>1. DOMAIN before' = Call
      BY <1>5 DEF WroteLast
    <2> QED
      BY <1>4, <1>5, <2>1, EndSettles DEF Kept, Refusal
  <1>6. CASE Goto(c, "collect") /\ Wrote(c) /\ UNCHANGED <<plan, done>>
    <2>1. CallType'
      BY <1>6 DEF Goto, Wrote, CallType, Step
    <2>2. rpc'[c] = "collect" /\ before'[c] = before[c] /\ plan' = plan /\ done' = done
      BY <1>6 DEF Goto, Wrote, CallType
    <2>3. Staged(c)'
      <3>1. \A k \in DOMAIN plan[c] : plan[c][k].id \in 1..lastId'
        BY <1>4 DEF CallInv, Staged
      <3> QED
        BY <1>1, <1>2, <2>2, <3>1 DEF Staged, InTree
    <2>4. Gathered(c)'
      BY <1>1, <2>2 DEF CallInv, Gathered
    <2>5. Known(c)'
      BY <1>1, <1>4, <2>2 DEF CallInv, Known, Origin, Alone
    <2>6. MoveGoes(c)'
      BY <1>1 DEF MoveGoes
    <2>7. Copied(c, 1)'
      <3>1. Relocated(c, plan[c][1])' = Relocated(c, root)
        BY <2>2 DEF Relocated
      <3> QED
        BY <1>4, <3>1 DEF Copied
    <2>8. ASSUME Alone(c), Rooted(before[c]), HasDirectory(before[c], Parent(c.dst))
          PROVE  Rooted(records') /\ HasDirectory(records', Parent(c.dst))
      <3>1. Rooted(records) /\ HasDirectory(records, Parent(c.dst))
        BY <1>1, <2>8 DEF CallInv, CopyGoes
      <3>2. HasDirectory(records', Parent(c.dst))
        BY <1>4, <3>1, DirectoryStays
      <3>3. records'[lastId + 1].parent = Parent(c.dst)
        <4>1. /\ root.entry \in Entry /\ Below(c.src, FullPath(root.entry), c.dst) = c.dst
              /\ Relocated(c, root) = Placed(root.entry, c.dst)
          BY <1>1, <2>8, RelocatedIs
        <4> QED
          BY <1>1, <1>4, <4>1, PlacedIs DEF Parent
      <3> QED
        BY <1>4, <3>1, <3>2, <3>3, RootedWith
    <2>9. CopyGoes(c)'
      <3>1. Alone(c)' <=> Alone(c)
        BY <2>2 DEF Alone
      <3> QED
        BY <1>1, <1>2, <2>2, <2>7, <2>8, <3>1 DEF CopyGoes
    <2> QED
      BY <1>4, <2>1, <2>3, <2>4, <2>5, <2>6, <2>9 DEF Kept, CallInv
  <1> QED
    BY <1>5, <1>6 DEF CopyRoot

(* The item whose turn it is: they come in the order of the plan, but for  *)
(* the root, which a copy has had already and the others have last.        *)
LEMMA WorkIs ==
  ASSUME CallType, NEW c \in Call, CallInv(c), Collected(c), done[c] < Len(Work(c))
  PROVE  /\ done[c] \in Nat /\ done[c] + 1 <= Len(plan[c])
         /\ c.op = "copy" => done[c] + 1 < Len(plan[c])
         /\ \E k \in DOMAIN plan[c] :
              /\ Work(c)[done[c] + 1] = plan[c][k]
              /\ k = IF done[c] + 1 < Len(plan[c]) THEN done[c] + 2 ELSE 1
  <1> DEFINE p == plan[c]
  <1>1. /\ p \in Seq(Item) /\ p # <<>> /\ done[c] \in Nat /\ DOMAIN p = 1..Len(p)
    BY DEF CallInv, Staged, CallType, InTree, Collected
  <1>2. PICK n \in Nat : Len(p) = n + 1
    <2>1. Len(p) \in Nat \ {0}
      BY <1>1
    <2> QED
      BY <2>1
  <1>3. PICK d \in Nat : d = done[c]
    BY <1>1
  <1>4. /\ Head(p) = p[1] /\ p[1] \in Item /\ Tail(p) \in Seq(Item) /\ Len(Tail(p)) = n
        /\ \A i \in 1..n : Tail(p)[i] = p[i + 1]
    <2>1. /\ Tail(p) \in Seq(Item) /\ Len(Tail(p)) = Len(p) - 1
          /\ \A i \in 1..Len(Tail(p)) : Tail(p)[i] = p[i + 1]
      BY <1>1, HeadTailProperties
    <2>2. Head(p) = p[1] /\ p[1] \in Item
      BY <1>1
    <2> HIDE DEF p
    <2> QED
      BY <1>2, <2>1, <2>2
  <1>5. CASE c.op = "copy"
    <2>1. Work(c) = Tail(p)
      BY <1>5 DEF Work
    <2> HIDE DEF p
    <2>2. d < n /\ d + 1 \in 1..n /\ d + 2 \in 1..(n + 1) /\ (d + 1) + 1 = d + 2
      BY <1>3, <1>4, <2>1
    <2>3. Work(c)[d + 1] = p[d + 2]
      BY <1>4, <2>1, <2>2
    <2> QED
      BY <1>1, <1>2, <1>3, <1>5, <2>2, <2>3 DEF p
  <1>6. CASE c.op # "copy"
    <2>1. Work(c) = Append(Tail(p), Head(p))
      BY <1>6 DEF Work
    <2> HIDE DEF p
    <2>2. /\ Len(Work(c)) = n + 1 /\ Work(c)[n + 1] = p[1]
          /\ \A i \in 1..n : Work(c)[i] = Tail(p)[i]
      BY <1>4, <2>1, AppendProperties
    <2>3. d < n + 1
      BY <1>3, <2>2
    <2>4. CASE d = n
      <3>1. Work(c)[d + 1] = p[1] /\ 1 \in 1..(n + 1)
        BY <2>2, <2>4
      <3>2. 1 \in DOMAIN plan[c] /\ ~(d + 1 < Len(plan[c])) /\ d + 1 <= Len(plan[c])
        BY <1>1, <1>2, <2>4 DEF p
      <3> QED
        BY <1>3, <1>6, <3>1, <3>2 DEF p
    <2>5. CASE d < n
      <3>1. d + 1 \in 1..n /\ d + 2 \in 1..(n + 1) /\ (d + 1) + 1 = d + 2
        BY <2>5
      <3>2. Work(c)[d + 1] = p[d + 2]
        BY <1>4, <2>2, <3>1
      <3> QED
        BY <1>1, <1>2, <1>3, <1>6, <2>3, <3>1, <3>2 DEF p
    <2> QED
      BY <2>3, <2>4, <2>5
  <1> QED
    BY <1>5, <1>6

(* A turn of the loop that copies: the directory the record is in has been *)
(* copied before it.                                                       *)
LEMMA CopiedUnderDirectory ==
  ASSUME CloudType, CallType, NEW c \in Call, CallInv(c), Collected(c), Alone(c), c.op = "copy",
         NEW k \in DOMAIN plan[c], k = done[c] + 2, done[c] \in Nat
  PROVE  HasDirectory(records, Relocated(c, plan[c][k]).parent)
  <1>1. InTree(c) /\ c.op # "remove" /\ k # 1 /\ rpc[c] = "collect" /\ c.src \in Path /\ c.dst \in Path
    BY CallIs DEF Collected, InTree
  <1> DEFINE e == plan[c][k].entry
  <1>2. PICK j \in 1..(k - 1) :
          IsDirectory(plan[c][j].entry) /\ FullPath(plan[c][j].entry) = e.parent
    BY <1>1 DEF CallInv, Gathered
  <1>3. j \in DOMAIN plan[c] /\ j \in 1..(done[c] + 1)
    <2>1. plan[c] \in Seq(Item)
      BY DEF CallType
    <2>2. DOMAIN plan[c] = 1..Len(plan[c]) /\ Len(plan[c]) \in Nat
      BY <2>1
    <2> QED
      BY <1>2, <2>2
  <1> DEFINE f == plan[c][j].entry
             p == Below(c.src, FullPath(f), c.dst)
  <1>4. f \in Entry /\ p \in Path /\ p # <<>> /\ Relocated(c, plan[c][j]) = Placed(f, p)
    BY <1>1, <1>3, RelocatedIs
  <1>5. PICK i \in DOMAIN records : records[i] = Relocated(c, plan[c][j])
    BY <1>1, <1>3 DEF CallInv, CopyGoes, Copied
  <1>6. FullPath(records[i]) = p /\ IsDirectory(records[i])
    <2> HIDE DEF f, p
    <2>1. IsDirectory(f)
      BY <1>2 DEF f
    <2> QED
      BY <1>4, <1>5, <2>1, PlacedIs
  <1>7. Relocated(c, plan[c][k]).parent = p
    <2> DEFINE q == Below(c.src, FullPath(e), c.dst)
    <2>1. /\ e \in Entry /\ q \in Path /\ q # <<>> /\ Relocated(c, plan[c][k]) = Placed(e, q)
          /\ Front(q) = Below(c.src, e.parent, c.dst)
      BY <1>1, RelocatedIs
    <2>2. Below(c.src, e.parent, c.dst) = p
      BY <1>2
    <2> HIDE DEF e, q, p
    <2> QED
      BY <2>1, <2>2, PlacedIs
  <1> QED
    BY <1>6, <1>7 DEF HasDirectory

LEMMA WorkOffKeeps ==
  ASSUME CloudType, CallType, NEW c \in Call, CallInv(c), WorkOff(c)
  PROVE  Kept(c)
  <1>1. Collected(c) /\ done[c] < Len(Work(c)) /\ rpc[c] = "collect" /\ InTree(c)
    BY DEF WorkOff, Collected, InTree
  <1>2. /\ rpc' = rpc /\ plan' = plan /\ done'[c] = done[c] + 1 /\ before'[c] = before[c]
        /\ done' = [done EXCEPT ![c] = @ + 1] /\ DOMAIN before' = Call
    BY DEF WorkOff, Wrote, CallType
  <1>3. CallType'
    BY <1>2 DEF CallType
  <1>4. /\ done[c] \in Nat /\ done[c] + 1 <= Len(plan[c])
        /\ c.op = "copy" => done[c] + 1 < Len(plan[c])
    BY <1>1, WorkIs
  <1>5. PICK k \in DOMAIN plan[c] :
          /\ Work(c)[done[c] + 1] = plan[c][k]
          /\ k = IF done[c] + 1 < Len(plan[c]) THEN done[c] + 2 ELSE 1
    BY <1>1, WorkIs
  <1> DEFINE item == plan[c][k]
  <1>6. plan[c] \in Seq(Item) /\ Len(plan[c]) \in Nat /\ item \in Item /\ item.id \in 1..lastId /\ lastId \in Nat
    BY DEF CallType, CallInv, Staged, CloudType
  <1>7. ASSUME CloudType', lastId <= lastId' PROVE Staged(c)'
    <2>1. \A l \in DOMAIN plan[c] : plan[c][l].id \in 1..lastId'
      BY <1>7 DEF CallInv, Staged, CloudType
    <2>2. Collected(c)'
      BY <1>1, <1>2 DEF Collected, Unlisted
    <2>3. done'[c] \in 0..Len(plan'[c]) /\ (c.op = "copy" => done'[c] < Len(plan'[c]))
      BY <1>2, <1>4, <1>6
    <2> QED
      BY <1>1, <1>2, <2>1, <2>2, <2>3 DEF CallInv, Staged, InTree
  <1>8. Gathered(c)'
    BY <1>2 DEF CallInv, Gathered, InTree
  <1>9. CASE c.op = "copy" /\ SaveNew(Relocated(c, item))
    <2>1. Relocated(c, item) \in Entry
      BY <1>1, <1>6, <1>9, RelocatedType
    <2>2. /\ CloudType' /\ lastId' = lastId + 1 /\ lastId <= lastId'
          /\ DOMAIN records' = DOMAIN records \cup {lastId + 1}
          /\ records'[lastId + 1] = Relocated(c, item)
          /\ \A i \in DOMAIN records : records'[i] = records[i]
      <3>1. lastId \in Nat
        BY <1>6
      <3> HIDE DEF item
      <3> QED
        BY <1>9, <2>1, <3>1, SaveNewKeeps
    <2>3. Known(c)'
      BY <1>1, <1>2, <1>9, <2>2 DEF CallInv, Known, Origin, Alone
    <2>4. MoveGoes(c)'
      BY <1>9 DEF MoveGoes
    <2>5. ASSUME Alone(c), NEW l \in 1..(done'[c] + 1) PROVE Copied(c, l)'
      <3>1. Relocated(c, plan[c][l])' = Relocated(c, plan[c][l])
        BY <1>2 DEF Relocated
      <3>2. CASE l = k
        BY <2>2, <3>1, <3>2 DEF Copied
      <3>3. CASE l # k
        <4>1. l \in 1..(done[c] + 1)
          <5>1. k = done[c] + 2
            BY <1>4, <1>5, <1>9
          <5> QED
            BY <1>2, <1>4, <3>3, <5>1
        <4>2. Copied(c, l)
          BY <1>1, <1>9, <2>5, <4>1 DEF CallInv, CopyGoes
        <4>3. PICK i \in DOMAIN records : records[i] = Relocated(c, plan[c][l])
          BY <4>2 DEF Copied
        <4> QED
          BY <2>2, <3>1, <4>3 DEF Copied
      <3> QED
        BY <3>2, <3>3
    <2>6. ASSUME Alone(c), Rooted(before[c]), HasDirectory(before[c], Parent(c.dst))
          PROVE  Rooted(records') /\ HasDirectory(records', Parent(c.dst))
      <3>1. Rooted(records) /\ HasDirectory(records, Parent(c.dst))
        BY <1>1, <1>9, <2>6 DEF CallInv, CopyGoes
      <3>2. HasDirectory(records', Parent(c.dst))
        BY <2>2, <3>1, DirectoryStays
      <3>3. HasDirectory(records, Relocated(c, item).parent)
        <4>1. k = done[c] + 2
          BY <1>4, <1>5, <1>9
        <4> QED
          BY <1>1, <1>4, <1>9, <2>6, <4>1, CopiedUnderDirectory
      <3>4. HasDirectory(records, records'[lastId + 1].parent)
        BY <2>2, <3>3
      <3> QED
        BY <2>2, <3>1, <3>2, <3>4, RootedWith
    <2>7. CopyGoes(c)'
      <3>1. Alone(c)' <=> Alone(c)
        BY <1>2 DEF Alone
      <3> QED
        BY <1>1, <1>2, <2>5, <2>6, <3>1 DEF CopyGoes
    <2> QED
      BY <1>3, <1>7, <1>8, <2>2, <2>3, <2>4, <2>7 DEF Kept, CallInv
  <1>10. ASSUME c.op # "copy", lastId' = lastId, CloudType',
                Alone(c) /\ c.op = "move" => OldOrRebased(c)'
         PROVE  Kept(c)
    <2>1. lastId <= lastId'
      BY <1>6, <1>10
    <2>2. Known(c)'
      BY <1>1, <1>2, <1>10 DEF CallInv, Known, Origin, Alone
    <2>3. MoveGoes(c)'
      BY <1>2, <1>4, <1>10 DEF MoveGoes, Alone
    <2>4. CopyGoes(c)'
      BY <1>10 DEF CopyGoes
    <2> QED
      BY <1>3, <1>7, <1>8, <1>10, <2>1, <2>2, <2>3, <2>4 DEF Kept, CallInv
  <1>11. CASE c.op = "move" /\ Save(item.id, Relocated(c, item)) /\ UNCHANGED lastId
    <2>1. Relocated(c, item) \in Entry
      BY <1>1, <1>6, <1>11, RelocatedType
    <2>2. CloudType'
      BY <1>6, <1>11, <2>1, SaveKeeps
    <2>3. ASSUME Alone(c) PROVE OldOrRebased(c)'
      <3>1. item.id \in DOMAIN before[c] /\ item.entry = before[c][item.id]
        BY <1>1, <1>11, <2>3 DEF CallInv, Known, Origin
      <3>2. Under(c.src, item.entry) /\ Relocated(c, item) = Rebased(c, item.entry)
        BY <1>1, <1>11, <2>3, RelocatedIs
      <3>3. OldOrRebased(c)
        BY <1>1, <1>11, <2>3 DEF CallInv, MoveGoes
      <3> QED
        BY <1>2, <1>11, <3>1, <3>2, <3>3 DEF OldOrRebased, Save
    <2> QED
      BY <1>10, <1>11, <2>2, <2>3
  <1>12. CASE c.op = "remove" /\ Delete(item.id) /\ UNCHANGED lastId
    BY <1>10, <1>12, DeleteKeeps
  <1> QED
    BY <1>5, <1>9, <1>11, <1>12 DEF WorkOff

LEMMA NewDirectoryType ==
  ASSUME NEW c \in Call, CallInv(c), rpc[c] \in {"create", "confirm", "direct", "abandoned"}
  PROVE  NewDirectory(c) \in Entry
  <1>1. c.src \in Path /\ c.src # <<>>
    BY CallIs DEF CallInv, Staged
  <1> QED
    BY <1>1, SplitPath DEF NewDirectory, Parent, NameOf, Entry

LEMMA LiveAddKeeps ==
  ASSUME CloudType, CallType, NEW c \in Call, CallInv(c), LiveAdd(c)
  PROVE  Kept(c)
  <1>1. rpc[c] = "create" /\ NewDirectory(c) \in Entry /\ lastId \in Nat /\ lastId + 1 \in Nat /\ done[c] = 0
    BY NewDirectoryType, StillEmpty DEF LiveAdd, CloudType
  <1>2. CloudType' /\ lastId' = lastId + 1
    <2>1. CASE SaveNew(NewDirectory(c))
      BY <1>1, <2>1, SaveNewKeeps
    <2>2. CASE lastId' = lastId + 1 /\ UNCHANGED records
      BY <1>1, <2>2 DEF CloudType
    <2> QED
      BY <2>1, <2>2 DEF LiveAdd
  <1> DEFINE item == [id |-> lastId + 1, entry |-> NewDirectory(c), listed |-> TRUE]
  <1>3. item \in Item /\ item.id = lastId + 1
    BY <1>1 DEF Item
  <1>4. plan' = [plan EXCEPT ![c] = <<item>>]
    BY DEF LiveAdd
  <1> HIDE DEF item
  <1>5. <<item>> \in Seq(Item) /\ Len(<<item>>) = 1 /\ DOMAIN <<item>> = {1} /\ <<item>>[1] = item /\ <<item>> # <<>>
    BY <1>3
  <1>6. CallType'
    BY <1>4, <1>5 DEF LiveAdd, Goto, Wrote, CallType, Step
  <1>7. rpc'[c] = "confirm" /\ plan'[c] = <<item>> /\ done'[c] = 0
    BY <1>1, <1>4 DEF LiveAdd, Goto, CallType
  <1>8. Staged(c)'
    <2>1. item.id \in 1..lastId'
      BY <1>1, <1>2, <1>3
    <2>2. c.op = "mkdir" /\ c.src # <<>>
      BY <1>1 DEF CallInv, Staged
    <2>3. 0 \in 0..1
      OBVIOUS
    <2> QED
      BY <1>5, <1>7, <2>1, <2>2, <2>3 DEF Staged, InTree, Collected
  <1> QED
    BY <1>1, <1>2, <1>6, <1>7, <1>8, OutOfTree DEF Kept

LEMMA ConfirmSaveKeeps ==
  ASSUME CloudType, CallType, NEW c \in Call, CallInv(c), ConfirmSave(c)
  PROVE  Kept(c)
  <1>1. plan[c] \in Seq(Item) /\ plan[c] # <<>> /\ lastId \in Nat /\ lastId' = lastId /\ lastId <= lastId'
    BY DEF ConfirmSave, CallInv, Staged, CallType, CloudType
  <1>2. 1 \in DOMAIN plan[c] /\ plan[c][1] \in Item
    BY <1>1
  <1>3. plan[c][1].id \in 1..lastId /\ plan[c][1].id \in Nat /\ plan[c][1].entry \in Entry
    BY <1>2 DEF CallInv, Staged, Item
  <1>4. CloudType'
    BY <1>1, <1>3, SaveKeeps DEF ConfirmSave
  <1>5. DOMAIN before' = Call /\ End(c, "ok")
    BY DEF ConfirmSave, WroteLast
  <1> QED
    BY <1>1, <1>4, <1>5, EndSettles DEF Kept

LEMMA FallBackKeeps ==
  ASSUME CloudType, CallType, NEW c \in Call, CallInv(c), FallBack(c)
  PROVE  Kept(c)
  <1>1. /\ rpc[c] \in {"create", "confirm"} /\ rpc' = [rpc EXCEPT ![c] = "direct"]
        /\ records' = records /\ lastId' = lastId /\ CloudType' /\ lastId <= lastId'
        /\ plan' = plan /\ done' = done /\ before' = before
    BY CloudStill DEF FallBack, Goto, cloudVars, CloudType
  <1>2. CallType' /\ rpc'[c] = "direct"
    BY <1>1 DEF CallType, Step
  <1>3. done[c] = 0 /\ c.op = "mkdir" /\ c.src # <<>> /\ done[c] \in 0..Len(plan[c])
    BY <1>1, StillEmpty DEF CallInv, Staged
  <1>4. Staged(c)'
    BY <1>1, <1>2, <1>3 DEF CallInv, Staged, InTree, Collected
  <1> QED
    BY <1>1, <1>2, <1>4, OutOfTree DEF Kept

LEMMA CreateDirectKeeps ==
  ASSUME CloudType, CallType, NEW c \in Call, CallInv(c), CreateDirect(c)
  PROVE  Kept(c)
  <1>1. NewDirectory(c) \in Entry /\ SaveNew(NewDirectory(c)) /\ End(c, "ok") /\ lastId \in Nat
    BY NewDirectoryType DEF CreateDirect, CloudType
  <1>2. CloudType' /\ lastId <= lastId'
    BY <1>1, SaveNewKeeps
  <1>3. DOMAIN before' = Call
    BY DEF CreateDirect, WroteLast
  <1> QED
    BY <1>1, <1>2, <1>3, EndSettles DEF Kept

LEMMA LateAddKeeps ==
  ASSUME CloudType, CallType, NEW c \in Call, CallInv(c), LateAdd(c)
  PROVE  Kept(c)
  <1>1. /\ rpc[c] = "abandoned" /\ NewDirectory(c) \in Entry /\ SaveNew(NewDirectory(c)) /\ lastId \in Nat
        /\ plan' = plan /\ done' = done /\ rpc' = [rpc EXCEPT ![c] = "failed"]
    BY NewDirectoryType DEF LateAdd, Goto, CloudType
  <1>2. CloudType' /\ lastId <= lastId' /\ lastId' = lastId + 1
    BY <1>1, SaveNewKeeps
  <1>3. CallType' /\ rpc'[c] = "failed"
    BY <1>1 DEF CallType, LateAdd, Wrote
  <1>4. done[c] = 0 /\ done[c] \in 0..Len(plan[c]) /\ \A k \in DOMAIN plan[c] : plan[c][k].id \in 1..lastId'
    BY <1>1, <1>2, StillEmpty DEF CallInv, Staged
  <1>5. Staged(c)'
    BY <1>1, <1>3, <1>4 DEF Staged, InTree, Collected
  <1> QED
    BY <1>2, <1>3, <1>5, OutOfTree DEF Kept

LEMMA TurnKeeps ==
  ASSUME CloudType, CallType, NEW c \in Call, CallInv(c), Turn(c)
  PROVE  Kept(c)
  <1>1. CASE Resolve(c) \/ ListDirectory(c) \/ CopyRoot(c) \/ WorkOff(c)
    BY <1>1, ResolveKeeps, ListDirectoryKeeps, CopyRootKeeps, WorkOffKeeps
  <1>2. CASE Finish(c)
    BY <1>2, EndQuietlyKeeps DEF Finish
  <1>3. CASE LiveConflict(c)
    BY <1>3, EndQuietlyKeeps DEF LiveConflict, Refusal
  <1>4. CASE Fail(c)
    BY <1>4, EndQuietlyKeeps DEF Fail
  <1>5. CASE LiveAdd(c) \/ ConfirmSave(c) \/ FallBack(c) \/ CreateDirect(c) \/ LateAdd(c)
    BY <1>5, LiveAddKeeps, ConfirmSaveKeeps, FallBackKeeps, CreateDirectKeeps, LateAddKeeps
  <1> QED
    BY <1>1, <1>2, <1>3, <1>4, <1>5 DEF Turn

LEMMA TreeStep == TreeInv /\ [Next]_vars => TreeInv'
  <1> SUFFICES ASSUME TreeInv, [Next]_vars PROVE TreeInv'
    OBVIOUS
  <1>1. ASSUME NEW d \in Call, Turn(d) PROVE TreeInv'
    <2>1. Kept(d)
      BY <1>1, TurnKeeps DEF TreeInv
    <2>2. ASSUME NEW c \in Call PROVE CallInv(c)'
      <3>1. CASE c = d
        BY <2>1, <3>1 DEF Kept
      <3>2. CASE c # d
        BY <1>1, <2>1, <3>2, OthersUndisturbed, UndisturbedKeeps DEF TreeInv, Kept
      <3> QED
        BY <3>1, <3>2
    <2> QED
      BY <2>1, <2>2 DEF TreeInv, Kept
  <1>2. CASE UNCHANGED vars
    <2>1. CloudType' /\ CallType' /\ lastId <= lastId'
      BY <1>2, CloudStill DEF TreeInv, vars, cloudVars, CloudType, CallType
    <2>2. ASSUME NEW c \in Call PROVE CallInv(c)'
      <3>1. Undisturbed(c)
        BY <1>2 DEF vars, cloudVars, Undisturbed
      <3> QED
        BY <2>1, <3>1, UndisturbedKeeps DEF TreeInv
    <2> QED
      BY <2>1, <2>2 DEF TreeInv
  <1> QED
    BY <1>1, <1>2 DEF Next, Turn

LEMMA TreeAlways == Spec => []TreeInv
  BY TreeInit, TreeStep, PTL DEF Spec

-----------------------------------------------------------------------------
(* What a call has done when it returns, if it was alone with a tidy tree  *)
(* (and a copy was not made into the tree it is of).                       *)

InScope(c) ==
  InTree(c) /\ Alone(c) /\ Tidy(before[c]) /\ (c.op = "copy" => ~IsPrefix(c.src, c.dst))

(* The turns taken so far: of a copy the root's comes first, of the others *)
(* last.                                                                   *)
Worked(c, k) == k <= done[c] + 1 /\ (k = 1 /\ c.op # "copy" => done[c] = Len(plan[c]))

(* Each record of the tree is collected once, and with a directory that is *)
(* listed everything in it.                                                *)
CollectedOnce(c) == \A k, l \in DOMAIN plan[c] : plan[c][k].id = plan[c][l].id => k = l

OfTree(c) ==
  /\ before[c] \in [DOMAIN before[c] -> Entry]
  /\ \A k \in DOMAIN plan[c] :
       plan[c][k].id \in DOMAIN before[c] /\ plan[c][k].entry = before[c][plan[c][k].id]

Inside(c, p) == {i \in DOMAIN before[c] : before[c][i].parent = p}

Complete(c) ==
  \A k \in DOMAIN plan[c] :
    plan[c][k].listed /\ IsDirectory(plan[c][k].entry) =>
      \A i \in Inside(c, FullPath(plan[c][k].entry)) : \E l \in DOMAIN plan[c] : plan[c][l].id = i

(* What the turns taken so far come to. *)
MovedSoFar(c) ==
  \A k \in DOMAIN plan[c] : Worked(c, k) => records[plan[c][k].id] = Rebased(c, plan[c][k].entry)

RemovedSoFar(c) ==
  /\ \A i \in DOMAIN records : i \in DOMAIN before[c] /\ records[i] = before[c][i]
  /\ \A i \in DOMAIN before[c] :
       i \notin DOMAIN records <=> \E k \in DOMAIN plan[c] : Worked(c, k) /\ plan[c][k].id = i

CopiedSoFar(c) ==
  /\ \A i \in DOMAIN before[c] : i \in DOMAIN records /\ records[i] = before[c][i]
  /\ \A i \in DOMAIN records \ DOMAIN before[c] :
       \E k \in DOMAIN plan[c] : Worked(c, k) /\ records[i] = Relocated(c, plan[c][k])
  /\ Cardinality(DOMAIN records) = Cardinality(DOMAIN before[c]) + done[c] + 1

WalkedSoFar(c) == CollectedOnce(c) /\ OfTree(c) /\ Complete(c)

WorkedSoFar(c) ==
  rpc[c] = "collect" =>
    /\ c.op = "move" => MovedSoFar(c)
    /\ c.op = "remove" => RemovedSoFar(c)
    /\ c.op = "copy" => CopiedSoFar(c)

Whole(c) == InScope(c) => WalkedSoFar(c) /\ WorkedSoFar(c)

WholeInv == \A c \in Call : Whole(c)

LEMMA PlanIs ==
  ASSUME CallType, NEW c \in Call, CallInv(c), InTree(c)
  PROVE  /\ plan[c] \in Seq(Item) /\ Len(plan[c]) \in Nat \ {0}
         /\ DOMAIN plan[c] = 1..Len(plan[c]) /\ 1 \in DOMAIN plan[c] /\ Head(plan[c]) = plan[c][1]
         /\ \A k \in DOMAIN plan[c] :
              plan[c][k].id \in Nat /\ plan[c][k].entry \in Entry /\ Under(c.src, plan[c][k].entry)
         /\ c.src \in Path /\ c.src # <<>> /\ c.dst \in Path /\ c.op # "mkdir"
  <1>1. /\ plan[c] \in Seq(Item) /\ plan[c] # <<>> /\ c.src \in Path /\ c.dst \in Path /\ c.op # "mkdir"
    BY CallIs DEF CallType, CallInv, Staged, InTree
  <1>2. /\ Len(plan[c]) \in Nat \ {0} /\ DOMAIN plan[c] = 1..Len(plan[c]) /\ 1 \in DOMAIN plan[c]
        /\ Head(plan[c]) = plan[c][1]
    BY <1>1
  <1>3. \A k \in DOMAIN plan[c] : plan[c][k].id \in Nat /\ plan[c][k].entry \in Entry
    <2> SUFFICES ASSUME NEW k \in DOMAIN plan[c] PROVE plan[c][k].id \in Nat /\ plan[c][k].entry \in Entry
      OBVIOUS
    <2>1. plan[c][k] \in Item
      BY <1>1
    <2> QED
      BY <2>1 DEF Item
  <1>4. /\ FullPath(plan[c][1].entry) = c.src
        /\ \A k \in DOMAIN plan[c] : k # 1 => IsPrefix(c.src, plan[c][k].entry.parent)
    BY DEF CallInv, Gathered
  <1>5. ASSUME NEW k \in DOMAIN plan[c] PROVE Under(c.src, plan[c][k].entry)
    <2> DEFINE e == plan[c][k].entry
    <2>1. e \in Entry /\ e.parent \in Path /\ e.name \in Name
      BY <1>3, FullPathIs
    <2>2. CASE k = 1
      BY <1>1, <1>4, <2>2, PrefixSelf DEF Under
    <2>3. CASE k # 1
      <3>1. IsPrefix(c.src, e.parent)
        BY <1>4, <2>3
      <3> HIDE DEF e
      <3>2. IsPrefix(c.src, Append(e.parent, e.name))
        BY <1>1, <2>1, <3>1, PrefixAppend
      <3> QED
        BY <3>2 DEF Under, FullPath, e
    <2> QED
      BY <2>2, <2>3
  <1>6. c.src # <<>>
    <2>1. plan[c][1].entry \in Entry
      BY <1>2, <1>3
    <2>2. FullPath(plan[c][1].entry) # <<>>
      BY <2>1, AppendSplit, FullPathIs DEF FullPath
    <2> QED
      BY <1>4, <2>2
  <1> QED
    BY <1>1, <1>2, <1>3, <1>5, <1>6

LEMMA UndisturbedWhole ==
  ASSUME NEW c \in Call, Whole(c), Undisturbed(c)
  PROVE  Whole(c)'
  <1>1. rpc'[c] = rpc[c] /\ plan'[c] = plan[c] /\ done'[c] = done[c]
    BY DEF Undisturbed
  <1>2. CASE before'[c] = NoTree
    BY <1>2 DEF Whole, InScope, Alone
  <1>3. CASE before'[c] = before[c] /\ records' = records
    <2>1. InScope(c)' => InScope(c)
      BY <1>1, <1>3 DEF InScope, InTree, Alone
    <2>2. WalkedSoFar(c) => WalkedSoFar(c)'
      BY <1>1, <1>3 DEF WalkedSoFar, CollectedOnce, OfTree, Complete, Inside
    <2>3. \A k : /\ Worked(c, k)' <=> Worked(c, k)
                 /\ Relocated(c, plan[c][k])' = Relocated(c, plan[c][k])
      BY <1>1 DEF Worked, Relocated
    <2>4. MovedSoFar(c) => MovedSoFar(c)'
      BY <1>1, <1>3, <2>3 DEF MovedSoFar
    <2>5. RemovedSoFar(c) => RemovedSoFar(c)'
      BY <1>1, <1>3, <2>3 DEF RemovedSoFar
    <2>6. CopiedSoFar(c) => CopiedSoFar(c)'
      BY <1>1, <1>3, <2>3 DEF CopiedSoFar
    <2> QED
      BY <1>1, <2>1, <2>2, <2>4, <2>5, <2>6 DEF Whole, WorkedSoFar
  <1> QED
    BY <1>2, <1>3 DEF Undisturbed

LEMMA ResolveWhole ==
  ASSUME CloudType, CallType, NEW c \in Call, CallInv(c), Resolve(c)
  PROVE  Whole(c)'
  <1>1. done[c] = 0 /\ rpc[c] = "idle"
    BY StillEmpty DEF Resolve
  <1>2. CASE rpc'[c] \notin {"copyRoot", "collect"}
    BY <1>2 DEF Whole, InScope, InTree
  <1>3. ASSUME NEW i \in AtPath(c.src), c.op # "mkdir",
               Begin(c, IF c.op = "copy" THEN "copyRoot" ELSE "collect", <<Snapshot(i)>>)
        PROVE  Whole(c)'
    <2>1. i \in DOMAIN records
      BY DEF AtPath
    <2>2. PICK s \in Item : /\ s = Snapshot(i) /\ s.id = i /\ s.entry = records[i]
                            /\ ~s.listed <=> IsDirectory(s.entry)
      BY <2>1, SnapshotIs
    <2>3. DOMAIN <<s>> = {1} /\ <<s>>[1] = s /\ Len(<<s>>) = 1
      OBVIOUS
    <2>4. /\ rpc'[c] = (IF c.op = "copy" THEN "copyRoot" ELSE "collect")
          /\ plan'[c] = <<s>> /\ done'[c] = 0 /\ before'[c] = records /\ records' = records
      BY <1>1, <1>3, <2>2 DEF Begin, Goto, CallType, Resolve, cloudVars
    <2>5. WalkedSoFar(c)'
      <3>1. CollectedOnce(c)'
        BY <2>3, <2>4 DEF CollectedOnce
      <3>2. OfTree(c)'
        BY <2>1, <2>2, <2>3, <2>4 DEF OfTree, CloudType
      <3>3. Complete(c)'
        BY <2>2, <2>3, <2>4 DEF Complete
      <3> QED
        BY <3>1, <3>2, <3>3 DEF WalkedSoFar
    <2>6. \A k \in DOMAIN plan'[c] : c.op # "copy" => ~Worked(c, k)'
      BY <2>3, <2>4 DEF Worked
    <2>7. WorkedSoFar(c)'
      BY <2>4, <2>6 DEF WorkedSoFar, MovedSoFar, RemovedSoFar
    <2> QED
      BY <2>5, <2>7 DEF Whole
  <1>4. ASSUME NEW o, Goto(c, o) PROVE rpc'[c] = o
    BY <1>4 DEF Goto, CallType
  <1>5. CASE ResolveMakeDir(c)
    BY <1>2, <1>4, <1>5 DEF ResolveMakeDir, Refuse, Begin
  <1>6. CASE ResolveSource(c)
    BY <1>2, <1>3, <1>4, <1>6 DEF ResolveSource, Refuse
  <1> QED
    BY <1>5, <1>6 DEF Resolve

(* Until it has gone to work, a call sees in its tree what was there when  *)
(* it began: the root's copy, if there is one, lies elsewhere.             *)
LEMMA ChildrenOfTree ==
  ASSUME CallType, NEW c \in Call, CallInv(c), Whole(c), InScope(c),
         rpc[c] = "collect", done[c] = 0, NEW p \in Path, IsPrefix(c.src, p)
  PROVE  /\ \A i \in GetChildren(p) : i \in Inside(c, p) /\ before[c][i] = records[i]
         /\ \A i \in Inside(c, p) : i \in GetChildren(p)
  <1>1. InTree(c) /\ Alone(c) /\ WorkedSoFar(c)
    BY DEF InScope, Whole
  <1>2. CASE c.op # "copy"
    <2>1. records = before[c]
      BY <1>1, <1>2 DEF CallInv, MoveGoes
    <2> QED
      BY <2>1 DEF GetChildren, Inside
  <1>3. CASE c.op = "copy"
    <2>1. CopiedSoFar(c)
      BY <1>1, <1>3 DEF WorkedSoFar
    <2>2. ASSUME NEW i \in DOMAIN records, records[i].parent = p PROVE i \in DOMAIN before[c]
      <3>1. SUFFICES ASSUME i \notin DOMAIN before[c] PROVE FALSE
        OBVIOUS
      <3>2. PICK k \in DOMAIN plan[c] : Worked(c, k) /\ records[i] = Relocated(c, plan[c][k])
        BY <2>1, <3>1 DEF CopiedSoFar
      <3>3. k = 1
        BY <1>1, <3>2, PlanIs DEF Worked
      <3> DEFINE e == plan[c][1].entry
      <3>4. e \in Entry /\ c.dst \in Path /\ c.src \in Path
        BY <1>1, PlanIs
      <3>5. c.dst # <<>> /\ Relocated(c, plan[c][1]) = Placed(e, c.dst)
        <4>1. 1 \in DOMAIN plan[c] /\ c.op # "remove"
          BY <1>1, <1>3, PlanIs
        <4> QED
          BY <1>1, <4>1, RelocatedIs
      <3> HIDE DEF e
      <3>6. p = Front(c.dst) /\ Last(c.dst) \in Name /\ Append(p, Last(c.dst)) = c.dst
        BY <2>2, <3>2, <3>3, <3>4, <3>5, PlacedIs, SplitPath
      <3>7. IsPrefix(c.src, c.dst)
        BY <3>4, <3>6, PrefixAppend
      <3> QED
        BY <1>3, <3>7 DEF InScope
    <2> QED
      BY <2>1, <2>2 DEF GetChildren, Inside, CopiedSoFar
  <1> QED
    BY <1>2, <1>3

LEMMA ListDirectoryWhole ==
  ASSUME CloudType, CallType, NEW c \in Call, CallInv(c), Whole(c), ListDirectory(c)
  PROVE  Whole(c)'
  <1>1. /\ rpc[c] = "collect" /\ rpc' = rpc /\ records' = records /\ done' = done
        /\ before' = before /\ done[c] = 0
    BY ListingIs
  <1>2. SUFFICES ASSUME InScope(c) PROVE WalkedSoFar(c)' /\ WorkedSoFar(c)'
    BY <1>1 DEF Whole, InScope, InTree, Alone
  <1>3. InTree(c) /\ Alone(c) /\ Tidy(before[c]) /\ WalkedSoFar(c) /\ WorkedSoFar(c)
    BY <1>2 DEF InScope, Whole
  <1> DEFINE p == plan[c]
             q == plan'[c]
  <1>4. PICK k \in DOMAIN p, t \in Seq(Item) : k \in Nat /\ ~p[k].listed /\ Listing(c, k, t)
    BY ListingIs
  <1> DEFINE e == [p[k] EXCEPT !.listed = TRUE]
             at(j) == Shifted(k, Len(t), j)
             dir == FullPath(p[k].entry)
             tree == before[c]
  <1>5. /\ p \in Seq(Item) /\ Len(p) \in Nat \ {0} /\ DOMAIN p = 1..Len(p) /\ 1 \in DOMAIN p
        /\ \A j \in DOMAIN p : p[j].entry \in Entry /\ Under(c.src, p[j].entry)
        /\ c.src \in Path
    BY <1>3, PlanIs
  <1>6. e \in Item /\ e.id = p[k].id /\ e.entry = p[k].entry /\ e.listed
    <2>1. p[k] \in Item
      BY <1>4, <1>5
    <2> HIDE DEF p
    <2> QED
      BY <2>1 DEF Item
  <1>7. Threaded(p, k, e, t, q)
    <2>1. q = Splice(p, k, e, t)
      BY <1>4 DEF Listing
    <2> HIDE DEF p, q, e
    <2> QED
      BY <1>4, <1>5, <1>6, <2>1, SplicedOrder
  <1> HIDE DEF e
  <1>8. dir \in Path /\ IsPrefix(c.src, dir) /\ IsDirectory(p[k].entry)
    <2>1. p[k].entry \in Entry /\ Under(c.src, p[k].entry)
      BY <1>4, <1>5
    <2>2. IsDirectory(p[k].entry)
      BY <1>3, <1>4 DEF CallInv, Gathered
    <2> QED
      BY <2>1, <2>2, FullPathIs DEF Under
  <1>9. /\ \A i \in GetChildren(dir) : i \in Inside(c, dir) /\ tree[i] = records[i]
        /\ \A i \in Inside(c, dir) : i \in GetChildren(dir)
    BY <1>1, <1>2, <1>8, ChildrenOfTree
  <1>10. /\ \A l \in DOMAIN t : /\ t[l].id \in Inside(c, dir) /\ t[l].entry = tree[t[l].id]
                                /\ t[l].entry.parent = dir
                                /\ ~t[l].listed <=> IsDirectory(t[l].entry)
         /\ \A l, m \in DOMAIN t : t[l].id = t[m].id => l = m
         /\ \A i \in Inside(c, dir) : \E l \in DOMAIN t : t[l].id = i
    <2>1. ASSUME NEW l \in DOMAIN t
          PROVE  /\ t[l].id \in GetChildren(dir) /\ t[l].entry = records[t[l].id]
                 /\ t[l].entry.parent = dir
                 /\ ~t[l].listed <=> IsDirectory(t[l].entry)
      BY <1>4 DEF Listing, GetChildren
    <2> QED
      BY <1>4, <1>9, <2>1 DEF Listing
  <1>11. /\ OfTree(c) /\ CollectedOnce(c) /\ Complete(c)
         /\ \A j \in DOMAIN p : p[j].id \in DOMAIN tree /\ p[j].entry = tree[p[j].id]
    BY <1>3 DEF WalkedSoFar, OfTree
  <1>12. ASSUME NEW j \in DOMAIN p, NEW m \in DOMAIN t, p[j].id = t[m].id PROVE FALSE
    <2>1. p[j].entry.parent = dir
      BY <1>10, <1>11, <1>12
    <2>2. j # 1
      <3>1. ASSUME j = 1 PROVE FALSE
        <4>1. FullPath(p[1].entry) = c.src /\ p[1].entry \in Entry
          BY <1>3, <1>5 DEF CallInv, Gathered
        <4>2. Len(c.src) = Len(dir) + 1 /\ Len(dir) \in Nat
          BY <1>8, <2>1, <3>1, <4>1, FullPathIs DEF Path
        <4>3. Len(c.src) <= Len(dir)
          BY <1>8 DEF IsPrefix
        <4> QED
          BY <4>2, <4>3
      <3> QED
        BY <3>1
    <2>3. PICK i \in 1..(j - 1) : /\ IsDirectory(p[i].entry) /\ p[i].listed
                                  /\ FullPath(p[i].entry) = p[j].entry.parent
      BY <1>3, <2>2 DEF CallInv, Gathered
    <2>4. i \in DOMAIN p
      BY <1>5
    <2>5. p[i].id = p[k].id
      <3>1. FullPath(tree[p[i].id]) = FullPath(tree[p[k].id])
        BY <1>4, <1>11, <2>1, <2>3, <2>4
      <3> QED
        BY <1>3, <1>4, <1>11, <2>4, <3>1 DEF Tidy
    <2>6. i = k
      BY <1>4, <1>11, <2>4, <2>5 DEF CollectedOnce
    <2> QED
      BY <1>4, <2>3, <2>6
  <1> HIDE DEF p, q, dir, at, tree
  <1>13. CollectedOnce(c)'
    <2>1. ASSUME NEW l \in DOMAIN q
          PROVE  \/ \E j \in DOMAIN p : l = at(j) /\ q[l].id = p[j].id
                 \/ \E j \in DOMAIN t : l = k + j /\ q[l].id = t[j].id
      BY <1>7 DEF Threaded, at
    <2> SUFFICES ASSUME NEW l \in DOMAIN q, NEW m \in DOMAIN q, q[l].id = q[m].id PROVE l = m
      BY DEF CollectedOnce, q
    <2>2. CASE \E i, j \in DOMAIN p : l = at(i) /\ q[l].id = p[i].id /\ m = at(j) /\ q[m].id = p[j].id
      <3>1. \A i, j \in DOMAIN p : p[i].id = p[j].id => i = j
        BY <1>11 DEF CollectedOnce, p
      <3> QED
        BY <2>2, <3>1
    <2>3. CASE \E i, j \in DOMAIN t : l = k + i /\ q[l].id = t[i].id /\ m = k + j /\ q[m].id = t[j].id
      BY <1>10, <2>3
    <2> QED
      BY <1>12, <2>1, <2>2, <2>3
  <1>14. OfTree(c)'
    <2>1. ASSUME NEW l \in DOMAIN q PROVE q[l].id \in DOMAIN tree /\ q[l].entry = tree[q[l].id]
      <3>1. CASE \E j \in DOMAIN p : q[l].id = p[j].id /\ q[l].entry = p[j].entry
        BY <1>11, <3>1
      <3>2. CASE \E j \in DOMAIN t : q[l] = t[j]
        BY <1>10, <3>2 DEF Inside, tree
      <3> QED
        BY <1>7, <3>1, <3>2 DEF Threaded
    <2>2. tree \in [DOMAIN tree -> Entry]
      BY <1>11 DEF OfTree, tree
    <2> QED
      BY <1>1, <2>1, <2>2 DEF OfTree, q, tree
  <1>15. Complete(c)'
    <2> SUFFICES ASSUME NEW l \in DOMAIN q, q[l].listed, IsDirectory(q[l].entry),
                        NEW i \in Inside(c, FullPath(q[l].entry))
                 PROVE  \E m \in DOMAIN q : q[m].id = i
      BY <1>1 DEF Complete, Inside, q
    <2>1. CASE q[l].entry = p[k].entry
      <3>1. PICK m \in DOMAIN t : t[m].id = i
        BY <1>10, <2>1 DEF dir
      <3> QED
        BY <1>7, <3>1 DEF Threaded
    <2>2. CASE \E j \in DOMAIN p : p[j].listed /\ q[l].entry = p[j].entry
      <3>1. PICK j \in DOMAIN p : p[j].listed /\ q[l].entry = p[j].entry
        BY <2>2
      <3>2. PICK m \in DOMAIN p : p[m].id = i
        BY <1>11, <3>1 DEF Complete, p
      <3> QED
        BY <1>7, <3>2 DEF Threaded
    <2>3. CASE \E j \in DOMAIN t : q[l] = t[j]
      BY <1>10, <2>3
    <2>4. q[k].entry = p[k].entry
      BY <1>6, <1>7 DEF Threaded
    <2> QED
      BY <1>7, <2>1, <2>2, <2>3, <2>4 DEF Threaded
  <1>16. WorkedSoFar(c)'
    <2>1. Len(q) \in Nat /\ 1 <= Len(q) /\ DOMAIN q = 1..Len(q) /\ 1 \in DOMAIN q /\ 1 \in DOMAIN p
      BY <1>5, <1>7 DEF Threaded
    <2>2. \A l \in DOMAIN q : Worked(c, l)' <=> l = 1 /\ c.op = "copy"
      BY <1>1, <2>1 DEF Worked, q
    <2>3. CASE c.op # "copy"
      <3>1. records = tree
        BY <1>1, <1>3, <2>3 DEF CallInv, MoveGoes, tree
      <3> QED
        BY <1>1, <2>2, <2>3, <3>1 DEF WorkedSoFar, MovedSoFar, RemovedSoFar, q, tree
    <2>4. CASE c.op = "copy"
      <3>1. CopiedSoFar(c)
        BY <1>1, <1>3, <2>4 DEF WorkedSoFar
      <3>2. \A l \in DOMAIN p : Worked(c, l) <=> l = 1
        BY <1>1, <1>5, <2>4 DEF Worked, p
      <3>3. Relocated(c, plan[c][1])' = Relocated(c, plan[c][1])
        <4>1. q \in Seq(Item) /\ q # <<>>
          BY <1>7, <2>1 DEF Threaded
        <4>2. Head(plan[c]) = plan[c][1] /\ Head(plan'[c]) = plan'[c][1]
          BY <1>3, <4>1, PlanIs DEF q
        <4>3. plan'[c][1].id = plan[c][1].id /\ plan'[c][1].entry = plan[c][1].entry
          <5>1. at(1) = 1
            BY <1>7, <2>1 DEF Threaded, at
          <5> QED
            BY <1>7, <2>1, <5>1 DEF Threaded, at, p, q
        <4> QED
          BY <4>2, <4>3 DEF Relocated
      <3>4. CopiedSoFar(c)'
        BY <1>1, <2>1, <2>2, <2>4, <3>1, <3>2, <3>3 DEF CopiedSoFar, p, q
      <3> QED
        BY <2>4, <3>4 DEF WorkedSoFar
    <2> QED
      BY <2>3, <2>4
  <1> QED
    BY <1>13, <1>14, <1>15, <1>16 DEF WalkedSoFar

LEMMA CountIs ==
  ASSUME CloudType
  PROVE  IsFiniteSet(DOMAIN records) /\ Cardinality(DOMAIN records) \in Nat
  <1>1. lastId \in Nat /\ DOMAIN records \subseteq 1..lastId
    BY DEF CloudType
  <1>2. IsFiniteSet(1..lastId)
    BY <1>1, FS_Interval
  <1> QED
    BY <1>1, <1>2, FS_Subset, FS_CardinalityType

(* A new record is one more. *)
LEMMA OneMore ==
  ASSUME CloudType, NEW e \in Entry, SaveNew(e)
  PROVE  Cardinality(DOMAIN records') = Cardinality(DOMAIN records) + 1
  BY SaveNewKeeps, CountIs, FS_AddElement

LEMMA CopyRootWhole ==
  ASSUME CloudType, CallType, NEW c \in Call, CallInv(c), Whole(c), CopyRoot(c)
  PROVE  Whole(c)'
  <1>1. CASE End(c, "recursion_required")
    <2>1. rpc'[c] = "recursion_required"
      BY <1>1 DEF End, CallType
    <2> QED
      BY <2>1 DEF Whole, InScope, InTree
  <1>2. CASE Goto(c, "collect") /\ Wrote(c) /\ UNCHANGED <<plan, done>>
    <2>1. /\ rpc[c] = "copyRoot" /\ InTree(c) /\ c.op = "copy" /\ done[c] = 0
          /\ plan' = plan /\ done' = done /\ before'[c] = before[c]
      BY <1>2, StillEmpty DEF CopyRoot, CallInv, Staged, InTree, Wrote, CallType
    <2>2. SUFFICES ASSUME InScope(c) PROVE WalkedSoFar(c)' /\ WorkedSoFar(c)'
      BY <2>1 DEF Whole, InScope, InTree, Alone
    <2>3. WalkedSoFar(c) /\ Alone(c)
      BY <2>2 DEF Whole, InScope
    <2>4. WalkedSoFar(c)'
      BY <2>1, <2>3 DEF WalkedSoFar, CollectedOnce, OfTree, Complete, Inside
    <2>5. records = before[c]
      BY <2>1, <2>3 DEF CallInv, CopyGoes
    <2> DEFINE new == Relocated(c, plan[c][1])
    <2>6. Len(plan[c]) \in Nat /\ 1 \in DOMAIN plan[c] /\ Head(plan[c]) = plan[c][1] /\ plan[c][1] \in Item
      <3>1. plan[c] \in Seq(Item) /\ 1 \in DOMAIN plan[c] /\ Head(plan[c]) = plan[c][1] /\ Len(plan[c]) \in Nat
        BY <2>1, PlanIs
      <3> QED
        BY <3>1
    <2>7. new \in Entry /\ SaveNew(new)
      BY <2>1, <2>6, RelocatedType DEF CopyRoot
    <2>8. new' = new
      BY <2>1 DEF Relocated
    <2> HIDE DEF new
    <2>9. /\ DOMAIN records' = DOMAIN records \cup {lastId + 1} /\ records'[lastId + 1] = new
          /\ \A i \in DOMAIN records : records'[i] = records[i]
      BY <2>7, SaveNewKeeps
    <2>10. Cardinality(DOMAIN records') = Cardinality(DOMAIN records) + 1
      BY <2>7, OneMore, CountIs
    <2>11. Worked(c, 1)'
      BY <2>1 DEF Worked
    <2>12. CopiedSoFar(c)'
      <3>1. \A i \in DOMAIN before[c] : i \in DOMAIN records' /\ records'[i] = before[c][i]
        BY <2>5, <2>9
      <3>2. \A i \in DOMAIN records' \ DOMAIN before[c] : records'[i] = Relocated(c, plan[c][1])'
        BY <2>5, <2>8, <2>9 DEF new
      <3>3. Cardinality(DOMAIN records') = Cardinality(DOMAIN before[c]) + 0 + 1
        BY <2>5, <2>10, CountIs
      <3> QED
        BY <2>1, <2>6, <2>11, <3>1, <3>2, <3>3 DEF CopiedSoFar
    <2> QED
      BY <2>1, <2>4, <2>12 DEF WorkedSoFar
  <1> QED
    BY <1>1, <1>2 DEF CopyRoot

LEMMA WorkOffWhole ==
  ASSUME CloudType, CallType, NEW c \in Call, CallInv(c), Whole(c), WorkOff(c)
  PROVE  Whole(c)'
  <1>1. /\ Collected(c) /\ done[c] < Len(Work(c)) /\ rpc[c] = "collect" /\ InTree(c)
        /\ rpc' = rpc /\ plan' = plan /\ done'[c] = done[c] + 1 /\ before'[c] = before[c]
    BY DEF WorkOff, Wrote, Collected, InTree, CallType
  <1>2. SUFFICES ASSUME InScope(c) PROVE WalkedSoFar(c)' /\ WorkedSoFar(c)'
    BY <1>1 DEF Whole, InScope, InTree, Alone
  <1>3. WalkedSoFar(c) /\ WorkedSoFar(c) /\ Alone(c)
    BY <1>2 DEF Whole, InScope
  <1>4. WalkedSoFar(c)'
    BY <1>1, <1>3 DEF WalkedSoFar, CollectedOnce, OfTree, Complete, Inside
  <1> DEFINE n == Len(plan[c])
  <1>5. /\ done[c] \in Nat /\ done[c] + 1 <= n /\ (c.op = "copy" => done[c] + 1 < n)
        /\ n \in Nat /\ DOMAIN plan[c] = 1..n
    BY <1>1, WorkIs, PlanIs
  <1>6. PICK k \in DOMAIN plan[c] :
          Work(c)[done[c] + 1] = plan[c][k] /\ k = IF done[c] + 1 < n THEN done[c] + 2 ELSE 1
    BY <1>1, WorkIs
  <1> DEFINE item == plan[c][k]
  <1>7. \A l \in DOMAIN plan[c] : Worked(c, l)' <=> Worked(c, l) \/ l = k
    <2> SUFFICES ASSUME NEW l \in 1..n PROVE Worked(c, l)' <=> Worked(c, l) \/ l = k
      BY <1>5
    <2>1. Worked(c, l)' <=> l <= done[c] + 2 /\ (l = 1 /\ c.op # "copy" => done[c] + 1 = n)
      BY <1>1, <1>5 DEF Worked
    <2>2. Worked(c, l) <=> l <= done[c] + 1 /\ (l = 1 /\ c.op # "copy" => done[c] = n)
      BY DEF Worked
    <2> HIDE DEF n
    <2>3. CASE done[c] + 1 < n
      BY <1>5, <1>6, <2>1, <2>2, <2>3
    <2>4. CASE ~(done[c] + 1 < n)
      BY <1>5, <1>6, <2>1, <2>2, <2>4
    <2> QED
      BY <2>3, <2>4
  <1>8. plan[c] \in Seq(Item) /\ item \in Item /\ item.id \in Nat
    <2>1. plan[c] \in Seq(Item)
      BY <1>1, PlanIs
    <2> QED
      BY <1>1, <2>1, PlanIs
  <1>9. /\ \A l \in DOMAIN plan[c] : /\ plan[c][l].id \in DOMAIN before[c]
                                     /\ plan[c][l].entry = before[c][plan[c][l].id]
                                     /\ plan[c][l].id = item.id => l = k
    BY <1>3 DEF WalkedSoFar, CollectedOnce, OfTree
  <1>10. \A l : Relocated(c, plan[c][l])' = Relocated(c, plan[c][l])
    BY <1>1 DEF Relocated
  <1>11. CASE c.op = "copy" /\ SaveNew(Relocated(c, item))
    <2>1. CopiedSoFar(c)
      BY <1>1, <1>3, <1>11 DEF WorkedSoFar
    <2>2. Relocated(c, item) \in Entry
      BY <1>1, <1>8, <1>11, RelocatedType
    <2> DEFINE new == Relocated(c, item)
    <2>3. new \in Entry /\ SaveNew(new)
      BY <1>11, <2>2
    <2>4. new' = new
      BY <1>1 DEF Relocated
    <2> HIDE DEF new, item
    <2>5. /\ lastId + 1 \notin DOMAIN records
          /\ DOMAIN records' = DOMAIN records \cup {lastId + 1} /\ records'[lastId + 1] = new
          /\ \A i \in DOMAIN records : records'[i] = records[i]
      BY <2>3, SaveNewKeeps
    <2>6. Cardinality(DOMAIN records') = Cardinality(DOMAIN records) + 1
      BY <2>3, OneMore, CountIs
    <2>7. \A i \in DOMAIN before[c] : i \in DOMAIN records' /\ records'[i] = before[c][i]
      BY <2>1, <2>5 DEF CopiedSoFar
    <2>8. ASSUME NEW i \in DOMAIN records', i \notin DOMAIN before[c]
          PROVE  \E l \in DOMAIN plan[c] : Worked(c, l)' /\ records'[i] = Relocated(c, plan[c][l])'
      <3>1. CASE i = lastId + 1
        BY <1>7, <2>4, <2>5, <3>1 DEF new, item
      <3>2. CASE i \in DOMAIN records
        <4>1. PICK l \in DOMAIN plan[c] : Worked(c, l) /\ records[i] = Relocated(c, plan[c][l])
          BY <2>1, <2>8, <3>2 DEF CopiedSoFar
        <4> QED
          BY <1>7, <1>10, <2>5, <3>2, <4>1
      <3> QED
        BY <2>5, <3>1, <3>2
    <2>9. Cardinality(DOMAIN records') = Cardinality(DOMAIN before[c]) + (done[c] + 1) + 1
      <3>1. /\ Cardinality(DOMAIN records) = Cardinality(DOMAIN before[c]) + done[c] + 1
            /\ Cardinality(DOMAIN before[c]) \in Nat
        <4>1. DOMAIN before[c] \subseteq DOMAIN records
          BY <2>1 DEF CopiedSoFar
        <4> QED
          BY <2>1, <4>1, CountIs, FS_Subset, FS_CardinalityType DEF CopiedSoFar
      <3> QED
        BY <1>5, <2>6, <3>1
    <2>10. CopiedSoFar(c)'
      BY <1>1, <2>7, <2>8, <2>9 DEF CopiedSoFar
    <2> QED
      BY <1>4, <1>11, <2>10 DEF WorkedSoFar
  <1>12. CASE c.op = "move" /\ Save(item.id, Relocated(c, item))
    <2>1. MovedSoFar(c)
      BY <1>1, <1>3, <1>12 DEF WorkedSoFar
    <2>2. Relocated(c, item) = Rebased(c, item.entry)
      BY <1>1, <1>3, <1>12, RelocatedIs
    <2> HIDE DEF item
    <2>3. OldOrRebased(c)
      BY <1>1, <1>3, <1>12 DEF CallInv, MoveGoes
    <2>4. /\ records'[item.id] = Rebased(c, item.entry)
          /\ \A i \in DOMAIN records : i # item.id => records'[i] = records[i]
      BY <1>12, <2>2 DEF Save
    <2>5. ASSUME NEW l \in DOMAIN plan[c], Worked(c, l)'
          PROVE  records'[plan[c][l].id] = Rebased(c, plan[c][l].entry)
      <3>1. CASE l = k
        BY <2>4, <3>1 DEF item
      <3>2. CASE l # k
        <4>1. Worked(c, l) /\ plan[c][l].id # item.id /\ plan[c][l].id \in DOMAIN records
          BY <1>7, <1>9, <2>3, <2>5, <3>2 DEF OldOrRebased
        <4> QED
          BY <2>1, <2>4, <4>1 DEF MovedSoFar
      <3> QED
        BY <3>1, <3>2
    <2>6. MovedSoFar(c)'
      BY <1>1, <2>5 DEF MovedSoFar
    <2> QED
      BY <1>4, <1>12, <2>6 DEF WorkedSoFar
  <1>13. CASE c.op = "remove" /\ Delete(item.id)
    <2>1. RemovedSoFar(c)
      BY <1>1, <1>3, <1>13 DEF WorkedSoFar
    <2>2. /\ DOMAIN records' = DOMAIN records \ {item.id}
          /\ \A i \in DOMAIN records' : records'[i] = records[i]
      BY <1>13 DEF Delete
    <2>3. ASSUME NEW i \in DOMAIN before[c]
          PROVE  i \notin DOMAIN records' <=> \E l \in DOMAIN plan[c] : Worked(c, l)' /\ plan[c][l].id = i
      BY <1>7, <2>1, <2>2 DEF RemovedSoFar
    <2>4. RemovedSoFar(c)'
      BY <1>1, <2>1, <2>2, <2>3 DEF RemovedSoFar
    <2> QED
      BY <1>4, <1>13, <2>4 DEF WorkedSoFar
  <1> QED
    BY <1>6, <1>11, <1>12, <1>13 DEF WorkOff

LEMMA TurnWhole ==
  ASSUME CloudType, CallType, NEW c \in Call, CallInv(c), Whole(c), Turn(c)
  PROVE  Whole(c)'
  <1>1. ASSUME NEW at, Goto(c, at) \/ End(c, at) PROVE rpc'[c] = at
    BY <1>1 DEF Goto, End, CallType
  <1>2. CASE rpc'[c] \notin {"copyRoot", "collect"}
    BY <1>2 DEF Whole, InScope, InTree
  <1>3. CASE Resolve(c) \/ ListDirectory(c) \/ CopyRoot(c) \/ WorkOff(c)
    BY <1>3, ResolveWhole, ListDirectoryWhole, CopyRootWhole, WorkOffWhole
  <1>4. CASE Finish(c) \/ LiveConflict(c) \/ Fail(c)
    BY <1>1, <1>2, <1>4 DEF Finish, LiveConflict, Fail, EndQuietly
  <1>5. CASE LiveAdd(c) \/ ConfirmSave(c) \/ FallBack(c) \/ CreateDirect(c) \/ LateAdd(c)
    BY <1>1, <1>2, <1>5 DEF LiveAdd, ConfirmSave, FallBack, CreateDirect, LateAdd
  <1> QED
    BY <1>3, <1>4, <1>5 DEF Turn

LEMMA WholeStep == TreeInv /\ WholeInv /\ [Next]_vars => WholeInv'
  <1> SUFFICES ASSUME TreeInv, WholeInv, [Next]_vars, NEW c \in Call PROVE Whole(c)'
    BY DEF WholeInv
  <1>1. Whole(c) /\ CallInv(c) /\ CallType /\ CloudType
    BY DEF WholeInv, TreeInv
  <1>2. ASSUME NEW d \in Call, Turn(d) PROVE Whole(c)'
    BY <1>1, <1>2, TurnWhole, OthersUndisturbed, UndisturbedWhole
  <1>3. CASE UNCHANGED vars
    <2>1. Undisturbed(c)
      BY <1>3 DEF vars, cloudVars, Undisturbed
    <2> QED
      BY <1>1, <2>1, UndisturbedWhole
  <1> QED
    BY <1>2, <1>3 DEF Next, Turn

LEMMA WholeAlways == Spec => []WholeInv
  <1>1. Init => WholeInv
    BY DEF Init, WholeInv, Whole, InScope, InTree
  <1> QED
    BY <1>1, WholeStep, TreeAlways, PTL DEF Spec

(* Everything below the source is collected: a record that is not would    *)
(* have one above it that is not either.                                   *)
LEMMA AllCollected ==
  ASSUME CallType, NEW c \in Call, CallInv(c), InTree(c), Unlisted(c) = {},
         WalkedSoFar(c), Tidy(before[c]),
         NEW i \in DOMAIN before[c], Under(c.src, before[c][i])
  PROVE  \E k \in DOMAIN plan[c] : plan[c][k].id = i
  <1> DEFINE tree == before[c]
             found(j) == \E k \in DOMAIN plan[c] : plan[c][k].id = j
             depth(j) == Len(FullPath(tree[j]))
             missing == {j \in DOMAIN tree : Under(c.src, tree[j]) /\ ~found(j)}
             depths == {depth(j) : j \in missing}
  <1>1. \A j \in DOMAIN tree : /\ tree[j] \in Entry /\ tree[j].parent \in Path /\ tree[j].name \in Name
                               /\ FullPath(tree[j]) \in Path /\ depth(j) \in Nat
                               /\ depth(j) = Len(tree[j].parent) + 1
    BY FullPathIs DEF WalkedSoFar, OfTree, Path
  <1>2. SUFFICES ASSUME ~found(i) PROVE FALSE
    OBVIOUS
  <1>3. PICK m \in depths : \A n \in depths : m <= n
    <2>1. depths \in SUBSET Nat /\ depths # {}
      BY <1>1, <1>2
    <2> HIDE DEF depths
    <2> QED
      BY <2>1, SmallestNat
  <1>4. PICK j \in missing : m = depth(j)
    OBVIOUS
  <1> DEFINE dir == tree[j].parent
  <1>5. /\ c.src \in Path /\ c.src # <<>> /\ 1 \in DOMAIN plan[c]
        /\ FullPath(plan[c][1].entry) = c.src
        /\ \A k \in DOMAIN plan[c] : /\ plan[c][k].id \in DOMAIN tree
                                     /\ plan[c][k].entry = tree[plan[c][k].id]
                                     /\ plan[c][k].listed
    BY PlanIs DEF CallInv, Gathered, WalkedSoFar, OfTree, Unlisted
  <1>6. FullPath(tree[j]) # c.src
    <2>1. ASSUME FullPath(tree[j]) = c.src PROVE FALSE
      <3>1. plan[c][1].id = j
        BY <1>4, <1>5, <2>1 DEF Tidy
      <3> QED
        BY <1>4, <1>5, <3>1
    <2> QED
      BY <2>1
  <1>7. IsPrefix(c.src, dir)
    <2>1. IsPrefix(c.src, Append(dir, tree[j].name)) /\ c.src # Append(dir, tree[j].name)
      BY <1>4, <1>6 DEF Under, FullPath
    <2> QED
      BY <1>1, <1>4, <1>5, <2>1, PrefixOfAppend
  <1>8. dir # <<>>
    BY <1>1, <1>4, <1>5, <1>7, PrefixIs DEF Path
  <1>9. PICK h \in DOMAIN tree : IsDirectory(tree[h]) /\ FullPath(tree[h]) = dir
    BY <1>4, <1>8 DEF Tidy, Rooted, HasDirectory
  <1>10. found(h)
    <2>1. ASSUME ~found(h) PROVE FALSE
      <3>1. h \in missing
        BY <1>7, <1>9, <2>1 DEF Under
      <3>2. m <= depth(h)
        BY <1>3, <3>1
      <3> HIDE DEF missing, depths, found
      <3> QED
        BY <1>1, <1>4, <1>9, <3>2 DEF missing
    <2> QED
      BY <2>1
  <1>11. PICK k \in DOMAIN plan[c] : plan[c][k].id = h
    BY <1>10
  <1>12. j \in Inside(c, FullPath(plan[c][k].entry))
    BY <1>4, <1>5, <1>9, <1>11 DEF Inside
  <1>13. found(j)
    BY <1>5, <1>9, <1>11, <1>12 DEF WalkedSoFar, Complete
  <1> QED
    BY <1>4, <1>13

LEMMA MoveDone ==
  ASSUME CloudType, CallType, NEW c \in Call, CallInv(c), InScope(c), WalkedSoFar(c), MovedSoFar(c),
         c.op = "move", Unlisted(c) = {}, done[c] = Len(plan[c])
  PROVE  records = Moved(c, before[c])
  <1>1. InTree(c) /\ Alone(c) /\ Tidy(before[c])
    BY DEF InScope
  <1>2. OldOrRebased(c)
    BY <1>1 DEF CallInv, MoveGoes
  <1>3. \A k \in DOMAIN plan[c] : Worked(c, k)
    BY <1>1, PlanIs DEF Worked
  <1>4. ASSUME NEW i \in DOMAIN before[c], Under(c.src, before[c][i])
        PROVE  records[i] = Rebased(c, before[c][i])
    <2>1. PICK k \in DOMAIN plan[c] : plan[c][k].id = i
      BY <1>1, <1>4, AllCollected
    <2> QED
      BY <1>3, <2>1 DEF MovedSoFar, WalkedSoFar, OfTree
  <1>5. records = [i \in DOMAIN records |-> records[i]] /\ DOMAIN records = DOMAIN before[c]
    BY <1>2 DEF CloudType, OldOrRebased
  <1> QED
    BY <1>2, <1>4, <1>5 DEF OldOrRebased, Moved

LEMMA RemoveDone ==
  ASSUME CloudType, CallType, NEW c \in Call, CallInv(c), InScope(c), WalkedSoFar(c), RemovedSoFar(c),
         c.op = "remove", Unlisted(c) = {}, done[c] = Len(plan[c])
  PROVE  records = [i \in {j \in DOMAIN before[c] : ~Under(c.src, before[c][j])} |-> before[c][i]]
  <1>1. InTree(c) /\ Tidy(before[c])
    BY DEF InScope
  <1>2. \A k \in DOMAIN plan[c] : Worked(c, k)
    BY <1>1, PlanIs DEF Worked
  <1>3. ASSUME NEW i \in DOMAIN before[c]
        PROVE  Under(c.src, before[c][i]) <=> \E k \in DOMAIN plan[c] : plan[c][k].id = i
    <2>1. ASSUME NEW k \in DOMAIN plan[c], plan[c][k].id = i PROVE Under(c.src, before[c][i])
      BY <1>1, <2>1, PlanIs DEF WalkedSoFar, OfTree
    <2> QED
      BY <1>1, <2>1, AllCollected
  <1>4. DOMAIN records = {j \in DOMAIN before[c] : ~Under(c.src, before[c][j])}
    BY <1>2, <1>3 DEF RemovedSoFar
  <1>5. records = [i \in DOMAIN records |-> records[i]]
    BY DEF CloudType
  <1> QED
    BY <1>4, <1>5 DEF RemovedSoFar

Clones(c) == {Rebased(c, before[c][i]) : i \in {j \in DOMAIN before[c] : Under(c.src, before[c][j])}}

(* A copy makes a record for each it has collected, all of them different. *)
LEMMA ClonesCount ==
  ASSUME CallType, NEW c \in Call, CallInv(c), InScope(c), WalkedSoFar(c),
         c.op = "copy", Unlisted(c) = {}
  PROVE  /\ \A k \in DOMAIN plan[c] : Relocated(c, plan[c][k]) \in Clones(c)
         /\ \A e \in Clones(c) : \E k \in DOMAIN plan[c] : e = Relocated(c, plan[c][k])
         /\ Cardinality(Clones(c)) = Len(plan[c])
  <1>1. InTree(c) /\ Alone(c) /\ Tidy(before[c]) /\ c.op # "remove"
    BY DEF InScope
  <1>2. /\ Len(plan[c]) \in Nat /\ DOMAIN plan[c] = 1..Len(plan[c])
        /\ c.src \in Path /\ c.dst \in Path
    BY <1>1, PlanIs
  <1>3. ASSUME NEW k \in DOMAIN plan[c]
        PROVE  /\ plan[c][k].id \in DOMAIN before[c] /\ plan[c][k].entry = before[c][plan[c][k].id]
               /\ plan[c][k].entry \in Entry /\ FullPath(plan[c][k].entry) \in Path
               /\ Under(c.src, plan[c][k].entry)
               /\ Relocated(c, plan[c][k]) = Rebased(c, plan[c][k].entry)
               /\ FullPath(Relocated(c, plan[c][k])) = Below(c.src, FullPath(plan[c][k].entry), c.dst)
    <2> DEFINE e == plan[c][k].entry
               p == Below(c.src, FullPath(e), c.dst)
    <2>1. /\ e \in Entry /\ p \in Path /\ p # <<>> /\ Under(c.src, e)
          /\ Relocated(c, plan[c][k]) = Placed(e, p) /\ Rebased(c, e) = Placed(e, p)
      BY <1>1, RelocatedIs
    <2>2. FullPath(Placed(e, p)) = p /\ FullPath(e) \in Path
      <3> HIDE DEF e, p
      <3> QED
        BY <2>1, PlacedIs, FullPathIs
    <2> QED
      BY <2>1, <2>2 DEF WalkedSoFar, OfTree
  <1>4. ASSUME NEW k \in DOMAIN plan[c] PROVE Relocated(c, plan[c][k]) \in Clones(c)
    BY <1>3 DEF Clones
  <1>5. ASSUME NEW e \in Clones(c) PROVE \E k \in DOMAIN plan[c] : e = Relocated(c, plan[c][k])
    <2>1. PICK i \in DOMAIN before[c] : Under(c.src, before[c][i]) /\ e = Rebased(c, before[c][i])
      BY DEF Clones
    <2>2. PICK k \in DOMAIN plan[c] : plan[c][k].id = i
      BY <1>1, <2>1, AllCollected
    <2> QED
      BY <1>3, <2>1, <2>2
  <1>6. ASSUME NEW k \in DOMAIN plan[c], NEW l \in DOMAIN plan[c],
               Relocated(c, plan[c][k]) = Relocated(c, plan[c][l])
        PROVE  k = l
    <2>1. FullPath(plan[c][k].entry) = FullPath(plan[c][l].entry)
      BY <1>2, <1>3, <1>6, BelowInjective DEF Under
    <2>2. plan[c][k].id = plan[c][l].id
      BY <1>1, <1>3, <2>1 DEF Tidy
    <2> QED
      BY <2>2 DEF WalkedSoFar, CollectedOnce
  <1> DEFINE f == [k \in DOMAIN plan[c] |-> Relocated(c, plan[c][k])]
  <1>7. f \in Bijection(DOMAIN plan[c], Clones(c))
    BY <1>4, <1>5, <1>6 DEF Bijection, Injection, Surjection, IsInjective
  <1>8. IsFiniteSet(DOMAIN plan[c]) /\ Cardinality(DOMAIN plan[c]) = Len(plan[c])
    BY <1>2, FS_Interval
  <1>9. Cardinality(Clones(c)) = Cardinality(DOMAIN plan[c])
    BY <1>7, <1>8, FS_Bijection DEF ExistsBijection
  <1> QED
    BY <1>4, <1>5, <1>8, <1>9

LEMMA CopyDone ==
  ASSUME CloudType, CallType, NEW c \in Call, CallInv(c), InScope(c), WalkedSoFar(c), CopiedSoFar(c),
         c.op = "copy", Collected(c), done[c] + 1 = Len(plan[c])
  PROVE  /\ \A i \in DOMAIN before[c] : i \in DOMAIN records /\ records[i] = before[c][i]
         /\ Values(records) = Values(before[c]) \cup Clones(c)
         /\ Cardinality(DOMAIN records) = Cardinality(DOMAIN before[c]) + Cardinality(Clones(c))
  <1>1. InTree(c) /\ Alone(c) /\ rpc[c] = "collect" /\ Unlisted(c) = {}
    BY DEF InScope, Collected
  <1>2. /\ Len(plan[c]) \in Nat /\ DOMAIN plan[c] = 1..Len(plan[c])
    BY <1>1, PlanIs
  <1>3. /\ \A k \in DOMAIN plan[c] : Relocated(c, plan[c][k]) \in Clones(c)
        /\ \A e \in Clones(c) : \E k \in DOMAIN plan[c] : e = Relocated(c, plan[c][k])
        /\ Cardinality(Clones(c)) = Len(plan[c])
    BY <1>1, ClonesCount
  <1>4. \A i \in DOMAIN before[c] : i \in DOMAIN records /\ records[i] = before[c][i]
    BY DEF CopiedSoFar
  <1>5. ASSUME NEW k \in DOMAIN plan[c]
        PROVE  \E i \in DOMAIN records : records[i] = Relocated(c, plan[c][k])
    BY <1>1, <1>2 DEF CallInv, CopyGoes, Copied
  <1>6. ASSUME NEW i \in DOMAIN records, i \notin DOMAIN before[c] PROVE records[i] \in Clones(c)
    BY <1>3, <1>6 DEF CopiedSoFar
  <1>7. Values(records) = Values(before[c]) \cup Clones(c)
    BY <1>3, <1>4, <1>5, <1>6 DEF Values
  <1>8. Cardinality(DOMAIN records) = Cardinality(DOMAIN before[c]) + Cardinality(Clones(c))
    <2>1. DOMAIN before[c] \subseteq DOMAIN records
      BY <1>4
    <2>2. Cardinality(DOMAIN before[c]) \in Nat
      BY <2>1, CountIs, FS_Subset, FS_CardinalityType
    <2>3. done[c] \in Nat
      BY DEF CallType
    <2> QED
      BY <1>2, <1>3, <2>2, <2>3 DEF CopiedSoFar
  <1> QED
    BY <1>4, <1>7, <1>8

-----------------------------------------------------------------------------
(* The theorems.                                                           *)

(* Type correctness of the cloud's records and of every call: the ids in   *)
(* use are among those given out, whatever is relocated to whatever path,  *)
(* and a call's loop stays within what it has collected.                   *)
THEOREM InventoryTypeCorrect == Spec => []TypeOK
  <1>1. TreeInv => TypeOK
    <2> SUFFICES ASSUME TreeInv PROVE TypeOK
      OBVIOUS
    <2>1. ASSUME NEW c \in Call PROVE plan[c] \in Seq(Item) /\ done[c] \in 0..Len(plan[c])
      BY DEF TreeInv, CallType, CallInv, Staged
    <2> QED
      BY <2>1 DEF TreeInv, CloudType, CallType, TypeOK
  <1> QED
    BY <1>1, TreeAlways, PTL

(* MoveAsync and CopyAsync cut short anywhere leave each record whole, at  *)
(* its old place or at its new one, and no copy without its directory, if  *)
(* no other call writes meanwhile.                                         *)
THEOREM WritesAreWhole == Spec => []WritesStayWhole
  <1>1. TreeInv => WritesStayWhole
    <2> SUFFICES ASSUME TreeInv PROVE WritesStayWhole
      OBVIOUS
    <2>1. ASSUME NEW c \in Call, Running(c), c.op \in {"move", "copy"} PROVE InTree(c)
      <3>1. CallInv(c)
        BY DEF TreeInv
      <3> QED
        BY <2>1, <3>1 DEF Running, Step, InTree, CallInv, Staged
    <2>2. MovePartial
      BY <2>1 DEF TreeInv, CallInv, MoveGoes, OldOrRebased, MovePartial
    <2>3. CopyStaysRooted
      <3> SUFFICES ASSUME NEW c \in Call, Running(c), c.op = "copy", Alone(c), Tidy(before[c]),
                          HasDirectory(before[c], Parent(c.dst))
                   PROVE  Rooted(records)
        BY DEF CopyStaysRooted
      <3>1. InTree(c) /\ CopyGoes(c) /\ Rooted(before[c])
        BY <2>1 DEF TreeInv, CallInv, Tidy
      <3> QED
        BY <3>1 DEF CopyGoes
    <2> QED
      BY <2>2, <2>3 DEF WritesStayWhole
  <1> QED
    BY <1>1, TreeAlways, PTL

(* When CopyAsync, MoveAsync or RemoveAsync returns, the whole subtree is  *)
(* copied, moved or removed and nothing else, whatever its depth and in    *)
(* whatever order the cloud lists directories, if no other call wrote      *)
(* meanwhile.                                                              *)
THEOREM FinishedIsDone == Spec => DoneMeansDone
  <1> DEFINE Done == \A c \in Call : Finish(c) /\ Alone(c) /\ Tidy(before[c]) => Effect(c)
  <1>1. TreeInv /\ WholeInv => Done
    <2> SUFFICES ASSUME TreeInv, WholeInv, NEW c \in Call, Finish(c), Alone(c), Tidy(before[c])
                 PROVE  Effect(c)
      OBVIOUS
    <2>1. /\ CloudType /\ CallType /\ CallInv(c) /\ Collected(c) /\ rpc[c] = "collect"
          /\ Unlisted(c) = {} /\ InTree(c) /\ done[c] = Len(Work(c))
      BY DEF TreeInv, Finish, Collected, InTree
    <2>2. InScope(c) => WalkedSoFar(c) /\ WorkedSoFar(c)
      BY DEF WholeInv, Whole
    <2>3. /\ plan[c] \in Seq(Item) /\ Len(plan[c]) \in Nat \ {0} /\ Head(plan[c]) \in Item
          /\ Tail(plan[c]) \in Seq(Item) /\ Len(Tail(plan[c])) = Len(plan[c]) - 1
      BY <2>1, PlanIs
    <2>4. c.op # "copy" => done[c] = Len(plan[c])
      BY <2>1, <2>3, AppendProperties DEF Work
    <2>5. c.op = "copy" => done[c] + 1 = Len(plan[c])
      BY <2>1, <2>3 DEF Work
    <2>6. CASE c.op = "move"
      <3>1. InScope(c)
        BY <2>1, <2>6 DEF InScope
      <3> QED
        BY <2>1, <2>2, <2>4, <2>6, <3>1, MoveDone DEF WorkedSoFar, Effect
    <2>7. CASE c.op = "remove"
      <3>1. InScope(c)
        BY <2>1, <2>7 DEF InScope
      <3> QED
        BY <2>1, <2>2, <2>4, <2>7, <3>1, RemoveDone DEF WorkedSoFar, Effect
    <2>8. CASE c.op = "copy"
      <3>1. ASSUME ~IsPrefix(c.src, c.dst) PROVE InScope(c)
        BY <2>1, <2>8, <3>1 DEF InScope
      <3> QED
        BY <2>1, <2>2, <2>5, <2>8, <3>1, CopyDone DEF WorkedSoFar, Effect, Clones
    <2>9. CASE c.op = "mkdir"
      BY <2>9 DEF Effect
    <2> QED
      BY <2>6, <2>7, <2>8, <2>9, CallIs DEF Op
  <1> QED
    BY <1>1, TreeAlways, WholeAlways, PTL DEF DoneMeansDone
=============================================================================
