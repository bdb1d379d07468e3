--------------------------- MODULE CandidateProofs ---------------------------
(***************************************************************************)
(* Proofs about Candidate, for every set of members, paths, hunks and      *)
(* versions and every bound: what one step of a merge keeps, and so the    *)
(* loop over the proposals and the whole path; what the output directory   *)
(* holds at each stage of an assembly; that a candidate has every selected *)
(* change and nothing else, and that checks which pass leave it so.        *)
(*                                                                         *)
(* The loop is a recursive function of the number of proposals merged.     *)
(* What it computes is proved by induction on that number, in the form     *)
(* that a set of numbers which is not all of Nat misses a least one.       *)
(***************************************************************************)
EXTENDS Candidate, FiniteSetTheorems, WellFoundedInduction, TLAPS

(***************************************************************************)
(* Induction.                                                              *)
(***************************************************************************)

(* A non-empty set of numbers has a least element.                         *)
LEMMA LeastElement ==
    ASSUME NEW T \in SUBSET Nat, T # {}
    PROVE  \E x \in T : \A y \in T : ~(y < x)
<1>1. \E x \in T : \A y \in T : ~(<<y, x>> \in OpToRel(<, Nat))
  BY NatLessThanWellFounded, WFMin
<1>2. \A x, y \in Nat : y < x => <<y, x>> \in OpToRel(<, Nat)
  BY DEF OpToRel
<1> QED
  BY <1>1, <1>2

(* What holds of 0 and of every successor holds of every number.           *)
LEMMA Induction ==
    ASSUME NEW S \in SUBSET Nat, 0 \in S, \A n \in S : n + 1 \in S
    PROVE  S = Nat
<1> SUFFICES ASSUME Nat \ S # {} PROVE FALSE
  OBVIOUS
<1>1. PICK x \in Nat \ S : \A y \in Nat \ S : ~(y < x)
  BY LeastElement
<1>2. x # 0 /\ x - 1 \in Nat /\ x - 1 < x /\ (x - 1) + 1 = x
  OBVIOUS
<1>3. x - 1 \in S
  BY <1>1, <1>2
<1> QED
  BY <1>1, <1>2, <1>3

(***************************************************************************)
(* The merge.                                                              *)
(***************************************************************************)

(* Three versions of a hunk are a conflict only if they are all different. *)
Trio(a, b, c) == {a, b, c}
AllDiffer(a, b, c) == a # b /\ a # c /\ b # c

LEMMA ThreeVersions ==
    ASSUME NEW a, NEW b, NEW c
    PROVE  Cardinality(Trio(a, b, c)) = 3 <=> AllDiffer(a, b, c)
<1>1. Cardinality({}) = 0 /\ IsFiniteSet({})
  BY FS_EmptySet
<1>2. /\ IsFiniteSet({c})
      /\ Cardinality({c}) = 1
  BY FS_Singleton
<1>3. /\ IsFiniteSet({b, c})
      /\ Cardinality({b, c}) = IF b = c THEN 1 ELSE 2
  <2>1. {b, c} = {c} \cup {b}
    OBVIOUS
  <2>2. /\ IsFiniteSet({c} \cup {b})
        /\ Cardinality({c} \cup {b}) = IF b \in {c} THEN Cardinality({c}) ELSE Cardinality({c}) + 1
    BY <1>2, FS_AddElement
  <2> QED
    BY <1>2, <2>1, <2>2
<1>4. Trio(a, b, c) = {b, c} \cup {a}
  BY DEF Trio
<1>5. Cardinality({b, c} \cup {a})
        = IF a \in {b, c} THEN Cardinality({b, c}) ELSE Cardinality({b, c}) + 1
  BY <1>3, FS_AddElement
<1> QED
  BY <1>3, <1>4, <1>5 DEF AllDiffer

(* `new' is `old' with everything that `after' changes in it.              *)
Adopts(new, old, after) ==
    /\ \A h \in Hunks : after.text[h] # old.text[h] => new.text[h] = after.text[h]
    /\ after.mode # old.mode => new.mode = after.mode

(* A file is neither absent nor a conflict.                                *)
LEMMA FileFields ==
    ASSUME NEW f \in Files
    PROVE  /\ f.mode \in Modes /\ f.mode # "conflict"
           /\ f.text \in [Hunks -> Versions]
           /\ f # Conflict /\ f # Absent
BY DEF Files, Modes, Conflict, Absent

(***************************************************************************)
(* One step of `_merge_path' (candidates.py) for a file that both sides    *)
(* have.  If it is no conflict, the result has the changes of both sides,  *)
(* those of every earlier proposal that `ours' had adopted, and each of    *)
(* its hunks and its mode come from one of the two sides; if it is one,    *)
(* no file at all could have the changes of both.  This is what each step  *)
(* of the loop over the proposals preserves.                               *)
(***************************************************************************)
THEOREM MergeStepIsFaithful ==
    ASSUME NEW old \in Files, NEW ours \in Files, NEW theirs \in Files
    PROVE  /\ MergeStep(old, ours, theirs) # Conflict =>
                /\ MergeStep(old, ours, theirs) \in Files
                /\ Adopts(MergeStep(old, ours, theirs), old, ours)
                /\ Adopts(MergeStep(old, ours, theirs), old, theirs)
                /\ \A earlier \in Files : Adopts(ours, old, earlier) =>
                        Adopts(MergeStep(old, ours, theirs), old, earlier)
                /\ \A h \in Hunks : MergeStep(old, ours, theirs).text[h]
                                       \in {ours.text[h], theirs.text[h]}
                /\ MergeStep(old, ours, theirs).mode \in {ours.mode, theirs.mode}
           /\ MergeStep(old, ours, theirs) = Conflict =>
                ~\E new \in Files : Adopts(new, old, ours) /\ Adopts(new, old, theirs)
<1> DEFINE merged == ThreeWayMerge(old.text, ours.text, theirs.text)
           mode == ResolveModes(old.mode, ours.mode, theirs.mode)
           text == [h \in Hunks |-> IF ours.text[h] = old.text[h] THEN theirs.text[h]
                                                                  ELSE ours.text[h]]
           clash == \E h \in Hunks : /\ old.text[h] # ours.text[h]
                                     /\ old.text[h] # theirs.text[h]
                                     /\ ours.text[h] # theirs.text[h]
<1>1. /\ old.mode \in Modes /\ ours.mode \in Modes /\ theirs.mode \in Modes
      /\ old.mode # "conflict" /\ ours.mode # "conflict" /\ theirs.mode # "conflict"
      /\ old.text \in [Hunks -> Versions]
      /\ ours.text \in [Hunks -> Versions]
      /\ theirs.text \in [Hunks -> Versions]
      /\ ours # Conflict
  BY FileFields
<1>2. merged = IF clash THEN {} ELSE {text}
  <2>1. \A h \in Hunks : Cardinality({old.text[h], ours.text[h], theirs.text[h]}) = 3
            <=> /\ old.text[h] # ours.text[h]
                /\ old.text[h] # theirs.text[h]
                /\ ours.text[h] # theirs.text[h]
    <3>1. \A h \in Hunks : Cardinality(Trio(old.text[h], ours.text[h], theirs.text[h])) = 3
              <=> AllDiffer(old.text[h], ours.text[h], theirs.text[h])
      BY ThreeVersions
    <3> QED
      BY <3>1 DEF Trio, AllDiffer
  <2>2. clash <=> \E h \in Hunks :
            Cardinality({old.text[h], ours.text[h], theirs.text[h]}) = 3
    BY <2>1
  <2>3. CASE clash
    BY <2>2, <2>3 DEF ThreeWayMerge
  <2>4. CASE ~clash
    BY <2>2, <2>4, Zenon DEF ThreeWayMerge
  <2> QED
    BY <2>3, <2>4
<1>3. mode = IF theirs.mode = ours.mode \/ theirs.mode = old.mode THEN ours.mode
             ELSE IF ours.mode = old.mode THEN theirs.mode ELSE "conflict"
  BY DEF ResolveModes
<1>4. text \in [Hunks -> Versions]
  BY <1>1
<1>5. CASE clash
  <2>1. PICK h \in Hunks : /\ old.text[h] # ours.text[h]
                           /\ old.text[h] # theirs.text[h]
                           /\ ours.text[h] # theirs.text[h]
    BY <1>5
  <2>2. MergeStep(old, ours, theirs) = Conflict
    BY <1>2, <1>5 DEF MergeStep
  <2>3. ~\E new \in Files : Adopts(new, old, ours) /\ Adopts(new, old, theirs)
    BY <2>1 DEF Adopts
  <2> QED
    BY <2>2, <2>3
<1>6. CASE ~clash /\ mode = "conflict"
  <2>1. MergeStep(old, ours, theirs) = Conflict
    BY <1>6 DEF MergeStep
  <2>2. ours.mode # old.mode /\ theirs.mode # old.mode /\ ours.mode # theirs.mode
    BY <1>1, <1>3, <1>6
  <2>3. ~\E new \in Files : Adopts(new, old, ours) /\ Adopts(new, old, theirs)
    BY <2>2 DEF Adopts
  <2> QED
    BY <2>1, <2>3
<1>7. CASE ~clash /\ mode # "conflict"
  <2>1. merged = {text}
    BY <1>2, <1>7
  <2>2. merged # {} /\ (CHOOSE t \in merged : TRUE) = text
    BY <2>1
  <2>3. MergeStep(old, ours, theirs) = [mode |-> mode, text |-> text]
    BY <1>1, <1>7, <2>2 DEF MergeStep
  <2>4. mode \in {ours.mode, theirs.mode} /\ mode \in Modes
    BY <1>1, <1>3, <1>7
  <2>5. MergeStep(old, ours, theirs) \in Files
    BY <1>4, <2>3, <2>4 DEF Files
  <2> DEFINE new == MergeStep(old, ours, theirs)
  <2>6. new.mode = mode /\ new.text = text
    BY <2>3
  <2>7. \A h \in Hunks : new.text[h] = IF ours.text[h] = old.text[h] THEN theirs.text[h]
                                                                     ELSE ours.text[h]
    BY <2>6
  <2>8. Adopts(new, old, ours)
    <3>1. ours.mode # old.mode => new.mode = ours.mode
      BY <1>3, <1>7, <2>6
    <3> QED
      BY <2>7, <3>1 DEF Adopts
  <2>9. Adopts(new, old, theirs)
    <3>1. theirs.mode # old.mode => new.mode = theirs.mode
      BY <1>3, <1>7, <2>6
    <3>2. \A h \in Hunks : theirs.text[h] # old.text[h] => new.text[h] = theirs.text[h]
      BY <1>7, <2>7
    <3> QED
      BY <3>1, <3>2 DEF Adopts
  <2>10. \A earlier \in Files : Adopts(ours, old, earlier) => Adopts(new, old, earlier)
    BY <2>8 DEF Adopts
  <2>11. \A h \in Hunks : new.text[h] \in {ours.text[h], theirs.text[h]}
    BY <2>7
  <2>12. new.mode \in {ours.mode, theirs.mode}
    BY <2>4, <2>6
  <2>13. new # Conflict
    BY <2>5, FileFields
  <2> QED
    BY <2>5, <2>8, <2>9, <2>10, <2>11, <2>12, <2>13
<1> QED
  BY <1>5, <1>6, <1>7

(* The code starts from the first edit and skips one that it has had; the  *)
(* model starts from the base and skips none, which is the same: the first *)
(* edit merged onto the base is that edit, and merging an edit that the    *)
(* result already has changes nothing.                                     *)
LEMMA FirstAndRepeatedEdits ==
    ASSUME NEW old \in Files, NEW ours \in Files, NEW theirs \in Files
    PROVE  /\ MergeStep(old, old, theirs) = theirs
           /\ Adopts(ours, old, theirs) => MergeStep(old, ours, theirs) = ours
<1>0. \A f \in Files, g \in Files :
         f.mode = g.mode /\ (\A h \in Hunks : f.text[h] = g.text[h]) => f = g
  BY DEF Files
<1>1. MergeStep(old, old, theirs) = theirs
  <2>1. Adopts(theirs, old, old) /\ Adopts(theirs, old, theirs)
    BY DEF Adopts
  <2>2. MergeStep(old, old, theirs) # Conflict
    BY <2>1, MergeStepIsFaithful
  <2> DEFINE new == MergeStep(old, old, theirs)
  <2>3. /\ new \in Files /\ Adopts(new, old, theirs)
        /\ \A h \in Hunks : new.text[h] \in {old.text[h], theirs.text[h]}
        /\ new.mode \in {old.mode, theirs.mode}
    BY <2>2, MergeStepIsFaithful
  <2> HIDE DEF new
  <2>4. new.mode = theirs.mode /\ \A h \in Hunks : new.text[h] = theirs.text[h]
    BY <2>3 DEF Adopts
  <2> QED
    BY <1>0, <2>3, <2>4 DEF new
<1>2. ASSUME Adopts(ours, old, theirs)
      PROVE  MergeStep(old, ours, theirs) = ours
  <2>1. Adopts(ours, old, ours)
    BY DEF Adopts
  <2>2. MergeStep(old, ours, theirs) # Conflict
    BY <1>2, <2>1, MergeStepIsFaithful
  <2> DEFINE new == MergeStep(old, ours, theirs)
  <2>3. /\ new \in Files /\ Adopts(new, old, ours)
        /\ \A h \in Hunks : new.text[h] \in {ours.text[h], theirs.text[h]}
        /\ new.mode \in {ours.mode, theirs.mode}
    BY <2>2, MergeStepIsFaithful
  <2> HIDE DEF new
  <2>4. \A h \in Hunks : new.text[h] = ours.text[h]
    BY <1>2, <2>3 DEF Adopts
  <2>5. new.mode = ours.mode
    BY <1>2, <2>3 DEF Adopts
  <2> QED
    BY <1>0, <2>3, <2>4, <2>5 DEF new
<1> QED
  BY <1>1, <1>2

(* f is the loop's first n results.                                        *)
Loop(f, sel, p, n) ==
    f = [k \in 0..n |-> IF k = 0 THEN base[p] ELSE MergeNext(sel, p, k, f[k - 1])]

(* There is such an f, so the recursive definition has a solution.         *)
LEMMA LoopExists ==
    ASSUME NEW sel, NEW p, NEW n \in Nat
    PROVE  \E f : Loop(f, sel, p, n)
<1> DEFINE S == {m \in Nat : \E f : Loop(f, sel, p, m)}
<1>1. 0 \in S
  <2>1. Loop([k \in 0..0 |-> base[p]], sel, p, 0)
    <3>1. \A k \in 0..0 : k = 0
      OBVIOUS
    <3> QED
      BY <3>1 DEF Loop
  <2> QED
    BY <2>1
<1>2. ASSUME NEW m \in S PROVE m + 1 \in S
  <2>1. PICK f : Loop(f, sel, p, m)
    OBVIOUS
  <2> DEFINE g == [k \in 0..(m + 1) |-> IF k = m + 1 THEN MergeNext(sel, p, m + 1, f[m]) ELSE f[k]]
  <2>2. m \in Nat /\ \A k \in 0..(m + 1) : k # m + 1 => k \in 0..m
    OBVIOUS
  <2>3. ASSUME NEW k \in 0..(m + 1)
        PROVE  g[k] = IF k = 0 THEN base[p] ELSE MergeNext(sel, p, k, g[k - 1])
    <3>1. CASE k = m + 1
      <4>1. /\ g[k] = MergeNext(sel, p, m + 1, f[m]) /\ k - 1 = m /\ k # 0
            /\ m \in 0..(m + 1) /\ m # m + 1
        BY <2>2, <3>1
      <4>2. g[k - 1] = f[m]
        BY <4>1
      <4> QED
        BY <3>1, <4>1, <4>2
    <3>2. CASE k # m + 1 /\ k # 0
      <4>1. k \in 0..m /\ k - 1 \in 0..(m + 1) /\ k - 1 # m + 1
        BY <2>2, <3>2
      <4>2. g[k] = f[k] /\ g[k - 1] = f[k - 1]
        BY <3>2, <4>1
      <4> QED
        BY <2>1, <3>2, <4>1, <4>2 DEF Loop
    <3>3. CASE k = 0
      <4>1. k \in 0..m /\ k # m + 1
        BY <2>2, <3>3
      <4> QED
        BY <2>1, <3>3, <4>1 DEF Loop
    <3> QED
      BY <3>1, <3>2, <3>3
  <2>4. Loop(g, sel, p, m + 1)
    BY <2>3 DEF Loop
  <2> QED
    BY <2>2, <2>4
<1>3. S = Nat
  <2> HIDE DEF S
  <2>1. S \in SUBSET Nat
    BY DEF S
  <2> QED
    BY <1>1, <1>2, <2>1, Induction
<1> QED
  BY <1>3

(* The loop, one proposal at a time.                                       *)
LEMMA LoopSteps ==
    ASSUME NEW sel, NEW p, Len(props) \in Nat
    PROVE  /\ MergeLoop(sel, p)[0] = base[p]
           /\ \A k \in 1..Len(props) :
                 MergeLoop(sel, p)[k] = MergeNext(sel, p, k, MergeLoop(sel, p)[k - 1])
<1> DEFINE f == MergeLoop(sel, p)
<1>1. f = CHOOSE g : g = [k \in 0..Len(props) |->
                            IF k = 0 THEN base[p] ELSE MergeNext(sel, p, k, g[k - 1])]
  BY DEF MergeLoop
<1>2. \E g : g = [k \in 0..Len(props) |->
                            IF k = 0 THEN base[p] ELSE MergeNext(sel, p, k, g[k - 1])]
  <2>1. \E g : Loop(g, sel, p, Len(props))
    BY LoopExists
  <2> QED
    BY <2>1, Zenon DEF Loop
<1>3. f = [k \in 0..Len(props) |->
                            IF k = 0 THEN base[p] ELSE MergeNext(sel, p, k, f[k - 1])]
  <2> HIDE DEF f
  <2> QED
    BY <1>1, <1>2
<1> HIDE DEF f
<1>4. f[0] = base[p]
  BY <1>3
<1>5. \A k \in 1..Len(props) : f[k] = MergeNext(sel, p, k, f[k - 1])
  BY <1>3
<1> QED
  BY <1>4, <1>5 DEF f

(* Proposal i is selected and changes the path.                            *)
Chosen(sel, i, p) == i \in sel /\ Touches(i, p)

(* After k proposals the loop has all that they change in the file, and    *)
(* nothing else; or no file could have all that they change.               *)
Gathers(new, sel, p, k) ==
    /\ new \in Files
    /\ \A i \in 1..k : Chosen(sel, i, p) => Adopts(new, base[p], props[i].files[p])
    /\ \A h \in Hunks : new.text[h] # base[p].text[h] =>
          \E i \in 1..k : Chosen(sel, i, p) /\ props[i].files[p].text[h] = new.text[h]
    /\ new.mode # base[p].mode =>
          \E i \in 1..k : Chosen(sel, i, p) /\ props[i].files[p].mode = new.mode

Incompatible(sel, p, k) ==
    \A new \in Files : \E i \in 1..k :
        Chosen(sel, i, p) /\ ~Adopts(new, base[p], props[i].files[p])

LoopGathers(new, sel, p, k) ==
    \/ Gathers(new, sel, p, k)
    \/ new = Conflict /\ Incompatible(sel, p, k)

(* One more proposal.  A file that has every change of the earlier ones    *)
(* has those of the result so far, for each of these is one of theirs: so  *)
(* a conflict with the result is one with the proposals.                   *)
LEMMA GatherStep ==
    ASSUME NEW sel, NEW p, NEW k \in Nat, NEW ours,
           base[p] \in Files,
           Chosen(sel, k + 1, p) => props[k + 1].files[p] \in Files,
           LoopGathers(ours, sel, p, k)
    PROVE  LoopGathers(MergeNext(sel, p, k + 1, ours), sel, p, k + 1)
<1> DEFINE new == MergeNext(sel, p, k + 1, ours)
           old == base[p]
           theirs == props[k + 1].files[p]
<1>0. /\ \A i \in 1..k : i \in 1..(k + 1)
      /\ \A i \in 1..(k + 1) : i \in 1..k \/ i = k + 1
      /\ k + 1 \in 1..(k + 1)
  OBVIOUS
<1>1. CASE ~Chosen(sel, k + 1, p)
  <2>1. new = ours
    BY <1>1 DEF MergeNext, Chosen
  <2>2. \A i \in 1..(k + 1) : Chosen(sel, i, p) => i \in 1..k
    BY <1>0, <1>1
  <2> HIDE DEF new, old, theirs
  <2>3. CASE Gathers(ours, sel, p, k)
    <3>1. Gathers(new, sel, p, k + 1)
      BY <1>0, <2>1, <2>2, <2>3, Zenon DEF Gathers
    <3> QED
      BY <3>1 DEF LoopGathers, new
  <2>4. CASE ours = Conflict /\ Incompatible(sel, p, k)
    <3>1. Incompatible(sel, p, k + 1)
      BY <1>0, <2>4, Zenon DEF Incompatible
    <3> QED
      BY <2>1, <2>4, <3>1 DEF LoopGathers, new
  <2> QED
    BY <2>3, <2>4 DEF LoopGathers
<1>2. CASE Chosen(sel, k + 1, p) /\ ours = Conflict /\ Incompatible(sel, p, k)
  <2>1. new = Conflict
    BY <1>2 DEF MergeNext, Chosen, MergeStep
  <2>2. Incompatible(sel, p, k + 1)
    BY <1>0, <1>2, Zenon DEF Incompatible
  <2> QED
    BY <2>1, <2>2 DEF LoopGathers
<1>3. CASE Chosen(sel, k + 1, p) /\ Gathers(ours, sel, p, k)
  <2>1. new = MergeStep(old, ours, theirs)
    BY <1>3 DEF MergeNext, Chosen
  <2>2. old \in Files /\ ours \in Files /\ theirs \in Files
    BY <1>3 DEF Gathers
  <2>3. CASE new # Conflict
    <3>1. /\ new \in Files
          /\ Adopts(new, old, ours)
          /\ Adopts(new, old, theirs)
          /\ \A h \in Hunks : new.text[h] \in {ours.text[h], theirs.text[h]}
          /\ new.mode \in {ours.mode, theirs.mode}
      BY <2>1, <2>2, <2>3, MergeStepIsFaithful
    <3> HIDE DEF new
    <3>2. \A i \in 1..k : Chosen(sel, i, p) => Adopts(new, old, props[i].files[p])
      <4> SUFFICES ASSUME NEW i \in 1..k, Chosen(sel, i, p)
                   PROVE  Adopts(new, old, props[i].files[p])
        OBVIOUS
      <4>1. Adopts(ours, old, props[i].files[p])
        BY <1>3 DEF Gathers
      <4> QED
        BY <3>1, <4>1 DEF Adopts
    <3>3. \A i \in 1..(k + 1) : Chosen(sel, i, p) => Adopts(new, old, props[i].files[p])
      BY <1>0, <3>1, <3>2
    <3>4. ASSUME NEW h \in Hunks, new.text[h] # old.text[h]
          PROVE  \E i \in 1..(k + 1) : Chosen(sel, i, p) /\ props[i].files[p].text[h] = new.text[h]
      <4>1. CASE new.text[h] = theirs.text[h]
        BY <1>0, <1>3, <4>1
      <4>2. CASE new.text[h] = ours.text[h]
        <5>1. PICK i \in 1..k : Chosen(sel, i, p) /\ props[i].files[p].text[h] = ours.text[h]
          BY <1>3, <3>4, <4>2 DEF Gathers
        <5> QED
          BY <1>0, <4>2, <5>1
      <4> QED
        BY <3>1, <4>1, <4>2
    <3>5. ASSUME new.mode # old.mode
          PROVE  \E i \in 1..(k + 1) : Chosen(sel, i, p) /\ props[i].files[p].mode = new.mode
      <4>1. CASE new.mode = theirs.mode
        BY <1>0, <1>3, <4>1
      <4>2. CASE new.mode = ours.mode
        <5>1. PICK i \in 1..k : Chosen(sel, i, p) /\ props[i].files[p].mode = ours.mode
          BY <1>3, <3>5, <4>2 DEF Gathers
        <5> QED
          BY <1>0, <4>2, <5>1
      <4> QED
        BY <3>1, <4>1, <4>2
    <3>6. Gathers(new, sel, p, k + 1)
      BY <3>1, <3>3, <3>4, <3>5, Zenon DEF Gathers
    <3> QED
      BY <3>6 DEF LoopGathers, new
  <2>4. CASE new = Conflict
    <3>1. ~\E x \in Files : Adopts(x, old, ours) /\ Adopts(x, old, theirs)
      BY <2>1, <2>2, <2>4, MergeStepIsFaithful
    <3>2. ASSUME NEW x \in Files,
                 \A i \in 1..(k + 1) : Chosen(sel, i, p) => Adopts(x, old, props[i].files[p])
          PROVE  FALSE
      <4>1. Adopts(x, old, theirs)
        BY <1>0, <1>3, <3>2
      <4>2. \A h \in Hunks : ours.text[h] # old.text[h] => x.text[h] = ours.text[h]
        <5> SUFFICES ASSUME NEW h \in Hunks, ours.text[h] # old.text[h]
                     PROVE  x.text[h] = ours.text[h]
          OBVIOUS
        <5>1. PICK i \in 1..k : Chosen(sel, i, p) /\ props[i].files[p].text[h] = ours.text[h]
          BY <1>3 DEF Gathers
        <5>2. Adopts(x, old, props[i].files[p])
          BY <1>0, <3>2, <5>1
        <5> QED
          BY <5>1, <5>2 DEF Adopts
      <4>3. ours.mode # old.mode => x.mode = ours.mode
        <5> SUFFICES ASSUME ours.mode # old.mode
                     PROVE  x.mode = ours.mode
          OBVIOUS
        <5>1. PICK i \in 1..k : Chosen(sel, i, p) /\ props[i].files[p].mode = ours.mode
          BY <1>3 DEF Gathers
        <5>2. Adopts(x, old, props[i].files[p])
          BY <1>0, <3>2, <5>1
        <5> QED
          BY <5>1, <5>2 DEF Adopts
      <4> QED
        BY <3>1, <4>1, <4>2, <4>3 DEF Adopts
    <3>3. Incompatible(sel, p, k + 1)
      BY <3>2, Zenon DEF Incompatible
    <3> QED
      BY <2>4, <3>3 DEF LoopGathers
  <2> QED
    BY <2>3, <2>4
<1> QED
  BY <1>1, <1>2, <1>3 DEF LoopGathers

(* The whole loop.                                                         *)
LEMMA LoopResult ==
    ASSUME NEW sel, NEW p, Len(props) \in Nat,
           base[p] \in Files,
           \A i \in 1..Len(props) : Chosen(sel, i, p) => props[i].files[p] \in Files
    PROVE  LoopGathers(MergeLoop(sel, p)[Len(props)], sel, p, Len(props))
<1> DEFINE acc == MergeLoop(sel, p)
           S == {k \in Nat : k \in 0..Len(props) => LoopGathers(acc[k], sel, p, k)}
<1>1. /\ acc[0] = base[p]
      /\ \A k \in 1..Len(props) : acc[k] = MergeNext(sel, p, k, acc[k - 1])
  BY LoopSteps
<1> HIDE DEF acc
<1>2. 0 \in S
  <2>1. \A i \in 1..0 : FALSE
    OBVIOUS
  <2>2. Gathers(base[p], sel, p, 0)
    BY <2>1 DEF Gathers
  <2> QED
    BY <1>1, <2>2 DEF LoopGathers
<1>3. ASSUME NEW k \in S PROVE k + 1 \in S
  <2>1. k \in Nat /\ k + 1 \in Nat
    OBVIOUS
  <2>2. ASSUME k + 1 \in 0..Len(props) PROVE LoopGathers(acc[k + 1], sel, p, k + 1)
    <3>1. k \in 0..Len(props) /\ k + 1 \in 1..Len(props) /\ (k + 1) - 1 = k
      BY <2>1, <2>2
    <3>2. LoopGathers(acc[k], sel, p, k)
      BY <3>1
    <3>3. acc[k + 1] = MergeNext(sel, p, k + 1, acc[k])
      BY <1>1, <3>1
    <3>4. Chosen(sel, k + 1, p) => props[k + 1].files[p] \in Files
      BY <3>1
    <3>5. LoopGathers(MergeNext(sel, p, k + 1, acc[k]), sel, p, k + 1)
      BY <2>1, <3>2, <3>4, GatherStep
    <3> QED
      BY <3>3, <3>5
  <2> QED
    BY <2>1, <2>2
<1>4. S = Nat
  <2> HIDE DEF S
  <2>1. S \in SUBSET Nat
    BY DEF S
  <2> QED
    BY <1>2, <1>3, <2>1, Induction
<1>5. Len(props) \in S /\ Len(props) \in 0..Len(props)
  BY <1>4
<1> QED
  BY <1>5 DEF acc

(***************************************************************************)
(* One path.                                                               *)
(***************************************************************************)
(* What the selected proposals make of the path.                           *)
AfterFiles(sel, p) == {props[i].files[p] : i \in {j \in sel : Touches(j, p)}}

(* There are finitely many, so that they can be counted.                   *)
LEMMA AftersFinite ==
    ASSUME NEW p, Len(props) \in Nat, NEW sel \in SUBSET (1..Len(props))
    PROVE  IsFiniteSet(AfterFiles(sel, p))
<1> DEFINE D == {j \in sel : Touches(j, p)}
           f == [i \in D |-> props[i].files[p]]
<1>1. IsFiniteSet(1..Len(props))
  BY FS_Interval
<1>2. D \in SUBSET (1..Len(props))
  OBVIOUS
<1>3. IsFiniteSet(D)
  BY <1>1, <1>2, FS_Subset
<1>4. f \in Surjection(D, AfterFiles(sel, p))
  BY DEF Surjection, AfterFiles
<1> QED
  BY <1>3, <1>4, FS_Surjection

(* What is proposed, and the tree it is merged onto.                       *)
Proposals == [task : Members, ctx : Contexts,
              files : UNION {[D -> Files \cup {Absent}] : D \in SUBSET Paths}]

Typed ==
    /\ base \in Tree
    /\ trees \in [Members -> Tree]
    /\ props \in Seq(Proposals)
    /\ hub \in [rev : Nat, ctx : Contexts]

(* A proposal has a file or a deletion for each path it touches.           *)
LEMMA ProposedFiles ==
    ASSUME Typed, NEW p \in Paths, NEW i \in 1..Len(props), Touches(i, p)
    PROVE  props[i].files[p] \in Files \cup {Absent}
<1>1. props[i] \in Proposals
  BY DEF Typed
<1>2. PICK D \in SUBSET Paths : props[i].files \in [D -> Files \cup {Absent}]
  BY <1>1 DEF Proposals
<1> QED
  BY <1>2 DEF Touches

(* `Explained', of any selection.                                          *)
ExplainedBy(sel, new, p) ==
    \/ new = base[p]
    \/ \E i \in sel : Touches(i, p) /\ new = props[i].files[p]
    \/ /\ new # Absent /\ base[p] # Absent
       /\ \A h \in Hunks : new.text[h] # base[p].text[h] =>
            \E i \in sel : Touches(i, p) /\ props[i].files[p].text[h] = new.text[h]
       /\ new.mode # base[p].mode =>
            \E i \in sel : Touches(i, p) /\ props[i].files[p].mode = new.mode

(* The path has every change of every selected proposal, and no other.     *)
PathFaithful(new, sel, p) ==
    /\ \A i \in sel : Touches(i, p) => Keeps(new, i, p)
    /\ ExplainedBy(sel, new, p)

(* Nothing that could be at the path has every change.                     *)
PathContested(sel, p) ==
    \A new \in Files \cup {Absent} : \E i \in sel : Touches(i, p) /\ ~Keeps(new, i, p)

(***************************************************************************)
(* `_merge_path_changes' (candidates.py), of every selection and path: its *)
(* result has the change of every selected proposal and nothing else, and  *)
(* it reports a conflict only if nothing at all could have them.  Each of  *)
(* its shortcuts is a case: nothing changed, all deletions, deletions and  *)
(* edits, one edit, several additions, and the loop.                       *)
(***************************************************************************)
THEOREM MergedPathIsFaithful ==
    ASSUME Typed, NEW p \in Paths, NEW sel \in SUBSET (1..Len(props))
    PROVE  /\ MergePath(sel, p) # Conflict => PathFaithful(MergePath(sel, p), sel, p)
           /\ MergePath(sel, p) = Conflict => PathContested(sel, p)
<1> DEFINE afters == AfterFiles(sel, p)
           new == MergePath(sel, p)
<1>1. /\ Len(props) \in Nat
      /\ base[p] \in Files \cup {Absent}
      /\ \A i \in sel : i \in 1..Len(props)
      /\ \A i \in sel : Touches(i, p) => props[i].files[p] \in Files \cup {Absent}
  BY ProposedFiles DEF Typed, Tree
<1>2. /\ \A i \in sel : Touches(i, p) => props[i].files[p] \in afters
      /\ \A f \in afters : \E i \in sel : Touches(i, p) /\ props[i].files[p] = f
  BY DEF AfterFiles
<1>3. \A f \in Files : f # Absent /\ f # Conflict
  BY FileFields
<1>4. Absent # Conflict
  BY DEF Absent, Conflict
<1>5. new = CASE afters = {} -> base[p]
              [] afters = {Absent} -> Absent
              [] Absent \in afters /\ afters # {Absent} -> Conflict
              [] Absent \notin afters /\ Cardinality(afters) = 1 -> CHOOSE f \in afters : TRUE
              [] OTHER -> IF base[p] = Absent THEN Conflict ELSE MergeLoop(sel, p)[Len(props)]
  BY DEF MergePath, AfterFiles
<1>6. IsFiniteSet(afters)
  BY <1>1, AftersFinite
<1>7. Cardinality(afters) = 1 <=> \E f : afters = {f}
  BY <1>6, FS_Singleton
<1>8. Cardinality({}) = 0
  BY FS_EmptySet
<1> HIDE DEF afters, new
<1> SUFFICES /\ new # Conflict => PathFaithful(new, sel, p)
             /\ new = Conflict => PathContested(sel, p)
  BY DEF new
<1>a. CASE afters = {}
  <2>1. new = base[p]
    BY <1>5, <1>8, <1>a
  <2>2. \A i \in sel : ~Touches(i, p)
    BY <1>2, <1>a
  <2> QED
    BY <1>1, <1>3, <1>4, <2>1, <2>2 DEF PathFaithful, ExplainedBy
<1>b. CASE afters = {Absent}
  <2>1. new = Absent
    BY <1>5, <1>b
  <2>2. \A i \in sel : Touches(i, p) => props[i].files[p] = Absent
    BY <1>2, <1>b
  <2>3. \E i \in sel : Touches(i, p) /\ props[i].files[p] = Absent
    BY <1>2, <1>b
  <2> QED
    BY <1>4, <2>1, <2>2, <2>3 DEF PathFaithful, ExplainedBy, Keeps
<1>c. CASE Absent \in afters /\ afters # {Absent}
  <2>1. new = Conflict
    BY <1>5, <1>c
  <2>2. PICK i \in sel : Touches(i, p) /\ props[i].files[p] = Absent
    BY <1>2, <1>c
  <2>3. PICK f \in afters : f # Absent
    BY <1>c
  <2>4. PICK j \in sel : Touches(j, p) /\ props[j].files[p] # Absent
    BY <1>2, <2>3
  <2>5. \A x : Keeps(x, i, p) => x = Absent
    BY <2>2 DEF Keeps
  <2>6. ~Keeps(Absent, j, p)
    BY <2>4 DEF Keeps
  <2>7. PathContested(sel, p)
    BY <2>2, <2>4, <2>5, <2>6 DEF PathContested
  <2> QED
    BY <2>1, <2>7
<1>d. CASE Absent \notin afters /\ Cardinality(afters) = 1
  <2>1. PICK f : afters = {f}
    BY <1>7, <1>d
  <2>2. new = f
    BY <1>5, <1>d, <2>1
  <2>3. \A i \in sel : Touches(i, p) => props[i].files[p] = f
    BY <1>2, <2>1
  <2>4. PICK i \in sel : Touches(i, p) /\ props[i].files[p] = f
    BY <1>2, <2>1
  <2>5. f \in Files
    BY <1>1, <1>d, <2>1, <2>4
  <2>6. \A j \in sel : Touches(j, p) => Keeps(new, j, p)
    BY <1>3, <2>2, <2>3, <2>5 DEF Keeps
  <2>7. ExplainedBy(sel, new, p)
    BY <2>2, <2>4 DEF ExplainedBy
  <2> QED
    BY <1>3, <2>2, <2>5, <2>6, <2>7 DEF PathFaithful
<1>e. CASE afters # {} /\ Absent \notin afters /\ Cardinality(afters) # 1 /\ base[p] = Absent
  <2>1. new = Conflict
    BY <1>5, <1>e
  <2>2. PICK f \in afters, g \in afters : f # g
    BY <1>7, <1>e
  <2>3. PICK i \in sel : Touches(i, p) /\ props[i].files[p] = f
    BY <1>2, <2>2
  <2>4. PICK j \in sel : Touches(j, p) /\ props[j].files[p] = g
    BY <1>2, <2>2
  <2>5. /\ \A x : Keeps(x, i, p) => x = f
        /\ \A x : Keeps(x, j, p) => x = g
    BY <1>e, <2>3, <2>4 DEF Keeps
  <2>6. PathContested(sel, p)
    BY <2>2, <2>3, <2>4, <2>5 DEF PathContested
  <2> QED
    BY <2>1, <2>6
<1>f. CASE afters # {} /\ Absent \notin afters /\ Cardinality(afters) # 1 /\ base[p] # Absent
  <2>1. new = MergeLoop(sel, p)[Len(props)]
    BY <1>5, <1>f
  <2>2. base[p] \in Files /\ \A i \in sel : Touches(i, p) => props[i].files[p] \in Files
    BY <1>1, <1>2, <1>f
  <2>3. LoopGathers(new, sel, p, Len(props))
    BY <1>1, <2>1, <2>2, LoopResult DEF Chosen
  <2>4. \A x, i : /\ Touches(i, p) /\ props[i].files[p] \in Files
                  /\ x \in Files
                  => (Keeps(x, i, p) <=> Adopts(x, base[p], props[i].files[p]))
    BY <1>3, <1>f DEF Keeps, Adopts
  <2>5. ASSUME Gathers(new, sel, p, Len(props)) PROVE PathFaithful(new, sel, p) /\ new # Conflict
    <3>1. new \in Files /\ new # Absent /\ new # Conflict
      BY <1>3, <2>5 DEF Gathers
    <3>2. \A i \in sel : Touches(i, p) => Keeps(new, i, p)
      BY <1>1, <2>2, <2>4, <2>5, <3>1 DEF Gathers, Chosen
    <3>3. ExplainedBy(sel, new, p)
      BY <1>f, <2>5, <3>1 DEF Gathers, Chosen, ExplainedBy
    <3> QED
      BY <3>1, <3>2, <3>3 DEF PathFaithful
  <2>6. ASSUME Incompatible(sel, p, Len(props)) PROVE PathContested(sel, p)
    <3>1. PICK f \in afters : f # Absent
      BY <1>f
    <3>2. PICK j \in sel : Touches(j, p) /\ props[j].files[p] = f
      BY <1>2, <3>1
    <3>3. ~Keeps(Absent, j, p)
      BY <1>f, <3>1, <3>2 DEF Keeps
    <3>4. ASSUME NEW x \in Files PROVE \E i \in sel : Touches(i, p) /\ ~Keeps(x, i, p)
      <4>1. PICK i \in 1..Len(props) : Chosen(sel, i, p) /\ ~Adopts(x, base[p], props[i].files[p])
        BY <2>6 DEF Incompatible
      <4> QED
        BY <2>2, <2>4, <4>1 DEF Chosen
    <3> QED
      BY <3>2, <3>3, <3>4 DEF PathContested
  <2> QED
    BY <2>3, <2>5, <2>6 DEF LoopGathers
<1> QED
  BY <1>a, <1>b, <1>c, <1>d, <1>e, <1>f

(***************************************************************************)
(* The directory.                                                          *)
(***************************************************************************)
Steps == {"idle", "merged", "conflict", "refused", "writing", "made", "checking", "done"}

Counted == {q \in Paths : asm.final[q] # Absent \/ q \notin Caches}

(* The assembly and the output path are records over all paths.            *)
Shape ==
    /\ asm = [pc |-> asm.pc, sel |-> asm.sel, rev |-> asm.rev, final |-> asm.final,
              before |-> asm.before, status |-> asm.status]
    /\ dir = [by |-> dir.by, files |-> dir.files]
    /\ dir.files = [p \in Paths |-> dir.files[p]]
    /\ asm.pc \in Steps

(* What is at the path at each step: nothing of ours before it is made, and*)
(* after a refusal no file but what could not be removed; while it is      *)
(* written, some of the files of the result; then all of them, which is    *)
(* what the first fingerprint is taken of.                                 *)
Directory ==
    /\ asm.pc \in {"idle", "merged", "conflict", "refused"} => dir.by # "us"
    /\ asm.pc \in {"idle", "merged", "conflict", "refused"} /\ dir.by # "remains" =>
          dir.files = Nowhere.files
    /\ dir.by = "remains" =>
          asm.pc = "refused" /\ \A p \in Paths : dir.files[p] # Absent => asm.final[p] # Absent
    /\ asm.pc \in {"idle", "conflict"} => dir = Nowhere
    /\ asm.pc \in {"writing", "made", "checking", "done"} => dir.by = "us"
    /\ asm.pc = "writing" => \A p \in Paths : dir.files[p] \in {Absent, asm.final[p]}
    /\ asm.pc = "made" => \A p \in Paths : dir.files[p] = asm.final[p]
    /\ asm.pc = "checking" => asm.before = {<<p, asm.final[p]>> : p \in Counted}

IInv == Shape /\ Directory /\ VerifiedAsAssembled

(* It holds before anything is assembled.                                  *)
LEMMA InvInit == Init => IInv
BY DEF Init, IInv, Shape, Directory, VerifiedAsAssembled, NoAssembly, Nowhere, Steps

(* The fingerprint pairs each counted path with what is there: two of them *)
(* are equal only if the files are.                                        *)
LEMMA FingerprintTells ==
    ASSUME Fingerprint = {<<p, asm.final[p]>> : p \in Counted},
           NEW q \in Counted
    PROVE  dir.files[q] = asm.final[q]
<1>1. Fingerprint = {<<p, dir.files[p]>> : p \in Counted}
  BY DEF Fingerprint, Counted
<1>2. <<q, dir.files[q]>> \in Fingerprint
  BY <1>1
<1>3. PICK p \in Counted : <<q, dir.files[q]>> = <<p, asm.final[p]>>
  BY <1>2
<1> QED
  BY <1>3

(* One case per step of the assembly; members and hub touch neither.       *)
LEMMA InvStep == IInv /\ [Next]_vars => IInv'
<1> SUFFICES ASSUME IInv, [Next]_vars
             PROVE  IInv'
  OBVIOUS
<1> USE DEF IInv
<1>0. CASE UNCHANGED <<asm, dir>>
  BY <1>0 DEF Shape, Directory, VerifiedAsAssembled, Counted
<1>1. CASE Assemble
  <2>1. dir = Nowhere /\ asm.pc = "idle" /\ UNCHANGED dir
    BY <1>1 DEF Assemble
  <2>2. PICK S \in SUBSET (1..Len(props)) :
           asm' = [asm EXCEPT !.sel = S, !.rev = hub.rev, !.final = Merged(S),
                       !.pc = IF Conflict \in {Merged(S)[p] : p \in Paths}
                              THEN "conflict" ELSE "merged"]
    BY <1>1 DEF Assemble
  <2>3. asm'.pc \in {"conflict", "merged"}
    BY <2>2 DEF Shape
  <2>4. Shape'
    BY <2>1, <2>2, <2>3 DEF Shape, Steps
  <2>5. Directory'
    BY <2>1, <2>3 DEF Directory, Nowhere
  <2> QED
    BY <2>3, <2>4, <2>5 DEF VerifiedAsAssembled
<1>2. CASE PathTaken
  <2>1. asm.pc = "merged" /\ UNCHANGED asm /\ dir = Nowhere
        /\ dir' = [dir EXCEPT !.by = "other"]
    BY <1>2 DEF PathTaken
  <2>2. dir'.by = "other" /\ dir'.files = dir.files
        /\ dir' = [by |-> dir'.by, files |-> dir'.files]
    BY <2>1 DEF Shape
  <2> QED
    BY <2>1, <2>2 DEF Shape, Directory, VerifiedAsAssembled, Nowhere
<1>3. CASE MakeOutput
  <2>1. asm.pc = "merged"
    BY <1>3 DEF MakeOutput
  <2>2. CASE hub.rev = asm.rev /\ dir = Nowhere
    <3>1. dir' = [dir EXCEPT !.by = "us"] /\ asm' = [asm EXCEPT !.pc = "writing"]
      BY <1>3, <2>2 DEF MakeOutput
    <3>2. /\ dir'.by = "us" /\ dir'.files = dir.files
          /\ dir' = [by |-> dir'.by, files |-> dir'.files]
          /\ \A p \in Paths : dir.files[p] = Absent
      BY <2>2, <3>1 DEF Shape, Nowhere
    <3>3. /\ asm'.pc = "writing"
          /\ asm' = [pc |-> asm'.pc, sel |-> asm'.sel, rev |-> asm'.rev,
                     final |-> asm'.final, before |-> asm'.before, status |-> asm'.status]
      BY <3>1 DEF Shape
    <3> QED
      BY <3>2, <3>3 DEF Shape, Directory, VerifiedAsAssembled, Steps
  <2>3. CASE ~(hub.rev = asm.rev /\ dir = Nowhere)
    <3>1. UNCHANGED dir /\ asm' = [asm EXCEPT !.pc = "refused"]
      BY <1>3, <2>3 DEF MakeOutput
    <3>2. /\ asm'.pc = "refused"
          /\ asm' = [pc |-> asm'.pc, sel |-> asm'.sel, rev |-> asm'.rev,
                     final |-> asm'.final, before |-> asm'.before, status |-> asm'.status]
      BY <3>1 DEF Shape
    <3> QED
      BY <2>1, <3>1, <3>2 DEF Shape, Directory, VerifiedAsAssembled, Steps, Nowhere
  <2> QED
    BY <2>2, <2>3
<1>4. CASE WriteFile
  <2>1. asm.pc = "writing"
    BY <1>4 DEF WriteFile
  <2>2. CASE Unwritten = {}
    <3>1. UNCHANGED dir /\ asm' = [asm EXCEPT !.pc = "made"]
      BY <1>4, <2>2 DEF WriteFile
    <3>2. \A p \in Paths : dir.files[p] = asm.final[p]
      BY <2>2 DEF Unwritten
    <3>3. /\ asm'.pc = "made" /\ asm'.final = asm.final
          /\ asm' = [pc |-> asm'.pc, sel |-> asm'.sel, rev |-> asm'.rev,
                     final |-> asm'.final, before |-> asm'.before, status |-> asm'.status]
      BY <3>1 DEF Shape
    <3> QED
      BY <2>1, <3>1, <3>2, <3>3 DEF Shape, Directory, VerifiedAsAssembled, Steps
  <2>3. CASE Unwritten # {}
    <3>1. PICK p \in Paths : dir' = [dir EXCEPT !.files[p] = asm.final[p]]
      BY <1>4, <2>3 DEF WriteFile, Unwritten
    <3>2. UNCHANGED asm
      BY <1>4, <2>3 DEF WriteFile
    <3>3. /\ dir'.by = dir.by
          /\ dir'.files = [q \in Paths |-> IF q = p THEN asm.final[p] ELSE dir.files[q]]
          /\ dir' = [by |-> dir'.by, files |-> dir'.files]
      BY <3>1 DEF Shape
    <3>4. \A q \in Paths : dir'.files[q] \in {Absent, asm'.final[q]}
      BY <2>1, <3>2, <3>3 DEF Directory
    <3> QED
      BY <2>1, <3>2, <3>3, <3>4 DEF Shape, Directory, VerifiedAsAssembled
  <2> QED
    BY <2>2, <2>3
<1>5. CASE WriteFails
  <2>1. asm' = [asm EXCEPT !.pc = "refused"]
    BY <1>5 DEF WriteFails
  <2>2. /\ asm'.pc = "refused" /\ asm'.final = asm.final
        /\ asm' = [pc |-> asm'.pc, sel |-> asm'.sel, rev |-> asm'.rev,
                   final |-> asm'.final, before |-> asm'.before, status |-> asm'.status]
    BY <2>1 DEF Shape
  <2>3. CASE dir' = Nowhere
    BY <2>2, <2>3 DEF Shape, Directory, VerifiedAsAssembled, Steps, Nowhere
  <2>4. CASE dir' # Nowhere
    <3>1. PICK left \in SUBSET {p \in Paths : asm.final[p] # Absent} :
             dir' = [by |-> "remains",
                     files |-> [p \in Paths |-> CASE p \notin left -> Absent
                                                  [] p \in left \cap Unwritten -> Plain
                                                  [] OTHER -> dir.files[p]]]
      BY <1>5, <2>4 DEF WriteFails, RemoveOutput
    <3>2. /\ dir'.by = "remains"
          /\ dir' = [by |-> dir'.by, files |-> dir'.files]
          /\ dir'.files = [p \in Paths |-> dir'.files[p]]
      BY <3>1
    <3>3. \A p \in Paths : dir'.files[p] # Absent => asm.final[p] # Absent
      BY <3>1
    <3> QED
      BY <2>2, <3>2, <3>3 DEF Shape, Directory, VerifiedAsAssembled, Steps
  <2> QED
    BY <2>3, <2>4
<1>6. CASE SkipVerification
  <2>1. PICK s \in {"not_run", "error"} :
           asm' = [asm EXCEPT !.pc = "done", !.status = s, !.before = Fingerprint]
    BY <1>6 DEF SkipVerification
  <2>2. asm.pc = "made" /\ UNCHANGED dir
    BY <1>6 DEF SkipVerification
  <2>3. /\ asm'.pc = "done" /\ asm'.status # "pass"
        /\ asm' = [pc |-> asm'.pc, sel |-> asm'.sel, rev |-> asm'.rev,
                   final |-> asm'.final, before |-> asm'.before, status |-> asm'.status]
    BY <2>1 DEF Shape
  <2> QED
    BY <2>2, <2>3 DEF Shape, Directory, VerifiedAsAssembled, Steps
<1>7. CASE StartChecks
  <2>1. /\ asm.pc = "made" /\ UNCHANGED dir
        /\ asm' = [asm EXCEPT !.pc = "checking", !.before = Fingerprint]
    BY <1>7 DEF StartChecks
  <2>2. /\ asm'.pc = "checking" /\ asm'.final = asm.final /\ asm'.before = Fingerprint
        /\ asm' = [pc |-> asm'.pc, sel |-> asm'.sel, rev |-> asm'.rev,
                   final |-> asm'.final, before |-> asm'.before, status |-> asm'.status]
    BY <2>1 DEF Shape
  <2>3. Fingerprint = {<<p, asm.final[p]>> : p \in Counted}
    BY <2>1 DEF Fingerprint, Counted, Directory
  <2>4. Counted' = Counted
    BY <2>2 DEF Counted
  <2> QED
    BY <2>1, <2>2, <2>3, <2>4 DEF Shape, Directory, VerifiedAsAssembled, Steps
<1>8. CASE CheckWrites
  <2>1. PICK p \in Paths, f \in {Absent, Plain} : dir' = [dir EXCEPT !.files[p] = f]
    BY <1>8 DEF CheckWrites
  <2>2. asm.pc = "checking" /\ UNCHANGED asm
    BY <1>8 DEF CheckWrites
  <2>3. /\ dir'.by = dir.by
        /\ dir'.files = [q \in Paths |-> IF q = p THEN f ELSE dir.files[q]]
        /\ dir' = [by |-> dir'.by, files |-> dir'.files]
    BY <2>1 DEF Shape
  <2>4. Counted' = Counted
    BY <2>2 DEF Counted
  <2> QED
    BY <2>2, <2>3, <2>4 DEF Shape, Directory, VerifiedAsAssembled
<1>9. CASE ChecksEnd
  <2>1. PICK s \in {"pass", "fail", "timeout", "error", "raised"}, complete \in BOOLEAN :
           asm' = [asm EXCEPT !.pc = "done",
                      !.status = CASE s = "raised" -> "error"
                                   [] complete /\ Fingerprint = asm.before -> s
                                   [] OTHER -> "invalidated"]
    BY <1>9 DEF ChecksEnd
  <2>2. asm.pc = "checking" /\ UNCHANGED dir
    BY <1>9 DEF ChecksEnd
  <2>3. /\ asm'.pc = "done" /\ asm'.final = asm.final
        /\ asm' = [pc |-> asm'.pc, sel |-> asm'.sel, rev |-> asm'.rev,
                   final |-> asm'.final, before |-> asm'.before, status |-> asm'.status]
    BY <2>1 DEF Shape
  <2>4. asm'.status = "pass" => Fingerprint = asm.before
    BY <2>1 DEF Shape
  <2>5. VerifiedAsAssembled'
    <3> SUFFICES ASSUME asm'.status = "pass", NEW p \in Paths
                 PROVE  dir'.files[p] = asm'.final[p] \/ (p \in Caches /\ asm'.final[p] = Absent)
      BY DEF VerifiedAsAssembled
    <3>1. Fingerprint = {<<q, asm.final[q]>> : q \in Counted}
      BY <2>2, <2>4 DEF Directory
    <3>2. CASE p \in Counted
      <4>1. dir.files[p] = asm.final[p]
        BY <3>1, <3>2, FingerprintTells
      <4> QED
        BY <2>2, <2>3, <4>1
    <3>3. CASE p \notin Counted
      BY <2>3, <3>3 DEF Counted
    <3> QED
      BY <3>2, <3>3
  <2> QED
    BY <2>2, <2>3, <2>5 DEF Shape, Directory, Steps
<1> QED
  BY <1>0, <1>1, <1>2, <1>3, <1>4, <1>5, <1>6, <1>7, <1>8, <1>9
     DEF Next, vars, EditFile, Propose, ContextMoves, Rebind

(* The invariant above, of every reachable state.                          *)
THEOREM Invariance == Spec => []IInv
BY InvInit, InvStep, PTL DEF Spec

(* Checks that pass have left every file of the candidate as it was        *)
(* written and added none that is not a cache: the second fingerprint is   *)
(* compared with the first, which was taken of the complete candidate.     *)
THEOREM PassedIsAsAssembled == Spec => []VerifiedAsAssembled
<1>1. IInv => VerifiedAsAssembled
  BY DEF IInv
<1> QED
  BY <1>1, Invariance, PTL

(* An assembly that is refused, or ends in a conflict, leaves nothing at   *)
(* the output path but files of its own that could not be removed, and     *)
(* never removes what somebody else made there; one that was made is on    *)
(* the disk file by file as it was merged (_materialize).                  *)
THEOREM AllOrNothingWritten ==
    Spec => [](AllOrNone /\ (asm.pc = "made" => \A p \in Paths : dir.files[p] = asm.final[p]))
<1>1. IInv => AllOrNone /\ (asm.pc = "made" => \A p \in Paths : dir.files[p] = asm.final[p])
  BY DEF IInv, Directory, AllOrNone
<1> QED
  BY <1>1, Invariance, PTL

(***************************************************************************)
(* The assembly.                                                           *)
(***************************************************************************)

(* At first nothing is proposed.                                           *)
LEMMA TypedInit == Init => Typed
<1> SUFFICES ASSUME Init PROVE Typed
  OBVIOUS
<1>1. Plain \in Files
  BY CandidateAssumption DEF Plain, Files, Modes
<1>2. base \in Tree
  BY <1>1 DEF Init, Tree
<1>3. props \in Seq(Proposals)
  BY DEF Init
<1> QED
  BY <1>2, <1>3 DEF Init, Typed

(* Proposals are only added, and the base does not change.                 *)
LEMMA TypedStep ==
    ASSUME Typed, [Next]_vars
    PROVE  /\ Typed'
           /\ UNCHANGED base
           /\ Len(props) \in Nat /\ Len(props') \in Nat /\ Len(props) <= Len(props')
           /\ \A i \in 1..Len(props) : props'[i] = props[i]
<1>1. CASE UNCHANGED <<base, trees, props>> /\ hub' \in [rev : Nat, ctx : Contexts]
  BY <1>1 DEF Typed
<1>2. ASSUME NEW m \in Members, EditFile(m)
      PROVE  Typed' /\ UNCHANGED <<base, props>>
  <2>1. UNCHANGED <<base, props, hub>>
    BY <1>2 DEF EditFile
  <2>2. PICK p \in Paths :
         \/ \E h \in Hunks, v \in Versions :
              /\ trees[m][p] # Absent /\ trees[m][p].text[h] # v
              /\ trees' = [trees EXCEPT ![m][p].text[h] = v]
         \/ \E f \in {[Plain EXCEPT !.mode = x] : x \in Modes} \cup {Absent} :
              /\ trees[m][p] # f
              /\ trees' = [trees EXCEPT ![m][p] =
                             IF @ = Absent \/ f = Absent THEN f
                             ELSE [@ EXCEPT !.mode = f.mode]]
    BY <1>2 DEF EditFile
  <2>3. trees \in [Members -> Tree] /\ trees[m] \in Tree /\ trees[m][p] \in Files \cup {Absent}
    BY DEF Typed, Tree
  <2>4. \E new \in Files \cup {Absent} : trees' = [trees EXCEPT ![m][p] = new]
    <3>1. CASE \E h \in Hunks, v \in Versions :
              /\ trees[m][p] # Absent /\ trees[m][p].text[h] # v
              /\ trees' = [trees EXCEPT ![m][p].text[h] = v]
      <4>1. PICK h \in Hunks, v \in Versions :
              trees[m][p] # Absent /\ trees' = [trees EXCEPT ![m][p].text[h] = v]
        BY <3>1
      <4>2. trees[m][p] \in Files
        BY <2>3, <4>1
      <4>3. [trees[m][p] EXCEPT !.text[h] = v] \in Files
        BY <4>2 DEF Files
      <4>4. trees' = [trees EXCEPT ![m][p] = [trees[m][p] EXCEPT !.text[h] = v]]
        BY <2>3, <4>1
      <4> QED
        BY <4>3, <4>4
    <3>2. CASE \E f \in {[Plain EXCEPT !.mode = x] : x \in Modes} \cup {Absent} :
              /\ trees[m][p] # f
              /\ trees' = [trees EXCEPT ![m][p] =
                             IF @ = Absent \/ f = Absent THEN f
                             ELSE [@ EXCEPT !.mode = f.mode]]
      <4>1. PICK f \in {[Plain EXCEPT !.mode = x] : x \in Modes} \cup {Absent} :
              trees' = [trees EXCEPT ![m][p] =
                             IF @ = Absent \/ f = Absent THEN f
                             ELSE [@ EXCEPT !.mode = f.mode]]
        BY <3>2
      <4>2. f \in Files \cup {Absent}
        BY CandidateAssumption DEF Plain, Files
      <4> DEFINE old == trees[m][p]
                 new == IF old = Absent \/ f = Absent THEN f ELSE [old EXCEPT !.mode = f.mode]
      <4>3. new \in Files \cup {Absent}
        BY <2>3, <4>2 DEF Files
      <4>4. trees' = [trees EXCEPT ![m][p] = new]
        BY <2>3, <4>1
      <4> QED
        BY <4>3, <4>4
    <3> QED
      BY <2>2, <3>1, <3>2
  <2>5. trees' \in [Members -> Tree]
    BY <2>3, <2>4 DEF Tree
  <2> QED
    BY <2>1, <2>5 DEF Typed
<1>3. ASSUME NEW m \in Members, Propose(m)
      PROVE  /\ Typed' /\ UNCHANGED base
             /\ \E new : props' = Append(props, new) /\ new \in Proposals
  <2>1. UNCHANGED <<base, trees>> /\ hub' = [hub EXCEPT !.rev = @ + 1]
    BY <1>3 DEF Propose
  <2>2. PICK paths \in SUBSET Paths :
           props' = Append(props, [task |-> m, ctx |-> hub.ctx,
                        files |-> [p \in Captured(trees[m], paths) |-> trees[m][p]]])
    BY <1>3 DEF Propose
  <2> DEFINE D == Captured(trees[m], paths)
             files == [p \in D |-> trees[m][p]]
             new == [task |-> m, ctx |-> hub.ctx, files |-> files]
  <2>3. D \in SUBSET Paths
    BY DEF Captured
  <2>4. files \in [D -> Files \cup {Absent}]
    <3> HIDE DEF D
    <3> QED
      BY <2>3 DEF Typed, Tree
  <2>5. files \in UNION {[E -> Files \cup {Absent}] : E \in SUBSET Paths}
    <3> HIDE DEF files, D
    <3> QED
      BY <2>3, <2>4
  <2>6. hub.ctx \in Contexts /\ hub' \in [rev : Nat, ctx : Contexts]
    BY <2>1 DEF Typed
  <2>7. new \in Proposals
    <3> HIDE DEF files
    <3> QED
      BY <2>5, <2>6 DEF Proposals
  <2>8. props' = Append(props, new)
    BY <2>2
  <2> HIDE DEF new
  <2>9. props' \in Seq(Proposals)
    BY <2>7, <2>8 DEF Typed
  <2> QED
    BY <2>1, <2>6, <2>7, <2>8, <2>9 DEF Typed
<1>4. CASE ContextMoves
  BY <1>1, <1>4 DEF ContextMoves, Typed
<1>5. CASE ~ContextMoves /\ UNCHANGED <<base, trees, props, hub>>
  BY <1>1, <1>5 DEF Typed
<1>6. CASE UNCHANGED props /\ Typed' /\ UNCHANGED base
  BY <1>6 DEF Typed
<1>7. ASSUME NEW new \in Proposals, props' = Append(props, new)
      PROVE  /\ Len(props) \in Nat /\ Len(props') \in Nat /\ Len(props) <= Len(props')
             /\ \A i \in 1..Len(props) : props'[i] = props[i]
  BY <1>7 DEF Typed
<1> QED
  BY <1>2, <1>3, <1>4, <1>5, <1>6, <1>7
     DEF Next, vars, Rebind, Assemble, PathTaken, MakeOutput, WriteFile,
         WriteFails, SkipVerification, StartChecks, CheckWrites, ChecksEnd

(* The result of the merge, from the assembly on.                          *)
Merge ==
    /\ asm.sel \in SUBSET (1..Len(props))
    /\ asm.pc \in {"merged", "writing", "made"} =>
          \A p \in Paths : PathFaithful(asm.final[p], asm.sel, p)
    /\ asm.pc = "conflict" => \E p \in Paths : PathContested(asm.sel, p)

(* What was found of the selection stays so when proposals are added.      *)
LEMMA FoundStays ==
    ASSUME Typed, [Next]_vars, NEW sel \in SUBSET (1..Len(props)), NEW new, NEW p
    PROVE  /\ PathFaithful(new, sel, p) => PathFaithful(new, sel, p)'
           /\ PathContested(sel, p) => PathContested(sel, p)'
           /\ sel \in SUBSET (1..Len(props'))
<1>1. /\ UNCHANGED base
      /\ Len(props) \in Nat /\ Len(props') \in Nat /\ Len(props) <= Len(props')
      /\ \A i \in sel : props'[i] = props[i]
  BY TypedStep
<1>2. \A i \in sel : Touches(i, p)' <=> Touches(i, p)
  BY <1>1 DEF Touches
<1>3. \A x : \A i \in sel : Keeps(x, i, p)' <=> Keeps(x, i, p)
  BY <1>1 DEF Keeps
<1>4. ExplainedBy(sel, new, p) => ExplainedBy(sel, new, p)'
  BY <1>1, <1>2 DEF ExplainedBy
<1>5. PathFaithful(new, sel, p) => PathFaithful(new, sel, p)'
  BY <1>2, <1>3, <1>4 DEF PathFaithful
<1>6. PathContested(sel, p) => PathContested(sel, p)'
  BY <1>2, <1>3 DEF PathContested
<1>7. sel \in SUBSET (1..Len(props'))
  BY <1>1
<1> QED
  BY <1>5, <1>6, <1>7

(* Nothing is selected at first.                                           *)
LEMMA MergeInit == Init => Merge
BY DEF Init, Merge, NoAssembly

(* The assembly establishes it; later steps write its result or give up.   *)
LEMMA MergeKept ==
    ASSUME Shape, Typed, Merge, [Next]_vars
    PROVE  Merge'
<1>1. ASSUME UNCHANGED <<asm.sel, asm.final>>,
             asm'.pc \in {"merged", "writing", "made"} => asm.pc \in {"merged", "writing", "made"},
             asm'.pc = "conflict" => asm.pc = "conflict"
      PROVE  Merge'
  <2>1. asm'.sel = asm.sel /\ asm'.final = asm.final
    BY <1>1
  <2>2. PICK sel, final : sel = asm.sel /\ final = asm.final
    OBVIOUS
  <2>3. sel \in SUBSET (1..Len(props)) /\ sel \in SUBSET (1..Len(props'))
    BY <2>2, FoundStays DEF Merge
  <2>4. ASSUME NEW p \in Paths, PathFaithful(final[p], sel, p)
        PROVE  PathFaithful(final[p], sel, p)'
    BY <2>3, <2>4, FoundStays
  <2>5. ASSUME NEW p \in Paths, PathContested(sel, p)
        PROVE  PathContested(sel, p)'
    BY <2>3, <2>5, FoundStays
  <2> QED
    BY <1>1, <2>1, <2>2, <2>3, <2>4, <2>5 DEF Merge
<1>2. CASE UNCHANGED asm
  BY <1>1, <1>2
<1>3. CASE Assemble
  <2>1. PICK sel \in SUBSET (1..Len(props)) :
           asm' = [asm EXCEPT !.sel = sel, !.rev = hub.rev, !.final = Merged(sel),
                       !.pc = IF Conflict \in {Merged(sel)[p] : p \in Paths}
                              THEN "conflict" ELSE "merged"]
    BY <1>3 DEF Assemble
  <2>2. /\ asm'.sel = sel /\ asm'.final = Merged(sel)
        /\ asm'.pc = IF Conflict \in {Merged(sel)[p] : p \in Paths} THEN "conflict" ELSE "merged"
    BY <2>1 DEF Shape
  <2>3. \A p \in Paths : Merged(sel)[p] = MergePath(sel, p)
    BY DEF Merged
  <2>4. PICK final : final = Merged(sel)
    OBVIOUS
  <2>5. CASE Conflict \in {final[p] : p \in Paths}
    <3>1. PICK p \in Paths : MergePath(sel, p) = Conflict
      BY <2>3, <2>4, <2>5
    <3>2. PathContested(sel, p)
      BY <3>1, MergedPathIsFaithful
    <3>3. PathContested(sel, p)' /\ sel \in SUBSET (1..Len(props'))
      BY <3>2, FoundStays
    <3>4. asm'.pc = "conflict"
      BY <2>2, <2>4, <2>5
    <3> QED
      BY <2>2, <3>3, <3>4 DEF Merge
  <2>6. CASE Conflict \notin {final[p] : p \in Paths}
    <3>1. \A p \in Paths : MergePath(sel, p) = final[p] /\ MergePath(sel, p) # Conflict
      BY <2>3, <2>4, <2>6
    <3>2. \A p \in Paths : PathFaithful(final[p], sel, p)
      BY <3>1, MergedPathIsFaithful
    <3>3. sel \in SUBSET (1..Len(props'))
      BY FoundStays
    <3>4. \A p \in Paths : PathFaithful(final[p], sel, p)'
      BY <3>2, FoundStays
    <3>5. asm'.pc = "merged" /\ asm'.final = final
      BY <2>2, <2>4, <2>6
    <3> QED
      BY <2>2, <3>3, <3>4, <3>5 DEF Merge
  <2> QED
    BY <2>5, <2>6
<1>4. CASE MakeOutput
  <2>1. asm.pc = "merged" /\ \E pc \in {"writing", "refused"} : asm' = [asm EXCEPT !.pc = pc]
    BY <1>4 DEF MakeOutput
  <2> QED
    BY <1>1, <2>1 DEF Shape
<1>5. CASE WriteFile
  <2>1. asm.pc = "writing" /\ (asm' = [asm EXCEPT !.pc = "made"] \/ UNCHANGED asm)
    BY <1>5 DEF WriteFile
  <2> QED
    BY <1>1, <2>1 DEF Shape
<1>6. CASE WriteFails
  <2>1. asm' = [asm EXCEPT !.pc = "refused"]
    BY <1>6 DEF WriteFails
  <2> QED
    BY <1>1, <2>1 DEF Shape
<1>7. CASE SkipVerification \/ StartChecks
  <2>1. /\ asm'.sel = asm.sel /\ asm'.final = asm.final
        /\ asm'.pc \in {"done", "checking"}
    BY <1>7 DEF SkipVerification, StartChecks, Shape
  <2> QED
    BY <1>1, <2>1
<1>8. CASE ChecksEnd
  <2>1. /\ asm'.sel = asm.sel /\ asm'.final = asm.final
        /\ asm'.pc = "done"
    BY <1>8 DEF ChecksEnd, Shape
  <2> QED
    BY <1>1, <2>1
<1> QED
  BY <1>2, <1>3, <1>4, <1>5, <1>6, <1>7, <1>8
     DEF Next, vars, EditFile, Propose, ContextMoves, Rebind, PathTaken, CheckWrites

(***************************************************************************)
(* A candidate that was made is the base with every change of every        *)
(* selected proposal and nothing else, an assembly that was refused leaves *)
(* nothing behind but what could not be removed, and a conflict is reported*)
(* only where no file could have the changes of all the selected proposals *)
(* (candidates.py: assemble_candidate).                                    *)
(***************************************************************************)
THEOREM CandidateIsFaithful == Spec => []CandidateFaithful
<1>1. Init => IInv /\ Typed /\ Merge
  BY InvInit, TypedInit, MergeInit
<1>2. IInv /\ Typed /\ Merge /\ [Next]_vars => (IInv /\ Typed /\ Merge)'
  BY InvStep, TypedStep, MergeKept DEF IInv
<1>3. IInv /\ Typed /\ Merge => CandidateFaithful
  <2> SUFFICES ASSUME IInv, Typed, Merge PROVE CandidateFaithful
    OBVIOUS
  <2>1. HasEveryChange
    <3> SUFFICES ASSUME asm.pc = "made", NEW p \in Paths
                 PROVE  /\ \A i \in asm.sel : Touches(i, p) => Keeps(dir.files[p], i, p)
                        /\ Explained(dir.files[p], p)
      BY DEF HasEveryChange
    <3>1. dir.files[p] = asm.final[p]
      BY DEF IInv, Directory
    <3>2. PathFaithful(asm.final[p], asm.sel, p)
      BY DEF Merge
    <3> QED
      BY <3>1, <3>2 DEF PathFaithful, ExplainedBy, Explained
  <2>2. AllOrNone
    BY DEF IInv, Directory, AllOrNone
  <2>3. ConflictIsReal
    BY DEF Merge, PathContested, ConflictIsReal
  <2> QED
    BY <2>1, <2>2, <2>3 DEF CandidateFaithful
<1> QED
  BY <1>1, <1>2, <1>3, PTL DEF Spec
=============================================================================
