----------------------------- MODULE Candidate -----------------------------
(***************************************************************************)
(* From the members' checkouts to a combined candidate                     *)
(* (collab_runtime/proposals.py: capture_proposal;                         *)
(* collab_runtime/candidates.py: assemble_candidate).                      *)
(*                                                                         *)
(* A proposal holds one member's cumulative changes against the session's  *)
(* base commit.  The owner selects proposals, at most one of each task;    *)
(* they are merged path by path onto the committed base, and the result is *)
(* written file by file into a new directory, in which the project's own   *)
(* checks may then be run.  The hub moves, somebody else may take the      *)
(* output path, a write may fail and a check may change what it checks.    *)
(*                                                                         *)
(* A file is its mode and a text, a text is a version of each of its       *)
(* hunks; publication of a proposal is CollabHub's.                        *)
(***************************************************************************)
EXTENDS Naturals, Sequences, FiniteSets

CONSTANTS Members,      \* one task each
          Paths,
          Caches,       \* the paths that look like a runtime cache or are under a .git, which
                        \* the base and the proposals may not have
          Hunks,
          Versions,     \* of a hunk
          Original,     \* the one it has in the base
          Contexts,     \* contents of the shared context
          MaxProposals, MaxEdits, MaxRev, MaxFaults    \* bounds

Absent == [mode |-> "none", text |-> [h \in Hunks |-> Original]]
Modes == {"100644", "100755"}
Files == [mode : Modes, text : [Hunks -> Versions]]
Tree == [Paths -> Files \cup {Absent}]

ASSUME CandidateAssumption ==
    /\ Caches \subseteq Paths /\ Original \in Versions
    /\ {MaxProposals, MaxEdits, MaxRev, MaxFaults} \subseteq Nat

VARIABLES base,         \* the tree of the session's base commit
          trees,        \* the members' checkouts
          props,        \* the published proposals, in the order of their ids
          hub,          \* the session: its revision and its context
          bound,        \* the context of the snapshot in the owner's checkout
          asm,          \* the assembly: where it is, its selection, its result
          dir,          \* the output path: who made it, and its files
          edits, faults \* how many so far

vars == <<base, trees, props, hub, bound, asm, dir, edits, faults>>

Nowhere == [by |-> "nobody", files |-> [p \in Paths |-> Absent]]
NoAssembly == [pc |-> "idle", sel |-> {}, rev |-> 0, final |-> [p \in Paths |-> Absent],
               before |-> {}, status |-> "not_run"]

Plain == [mode |-> "100644", text |-> [h \in Hunks |-> Original]]

Init ==
    /\ base \in [Paths -> {Plain, Absent}]
    /\ trees = [m \in Members |-> base]
    /\ props = <<>> /\ edits = 0 /\ faults = 0
    /\ hub \in [rev : {1}, ctx : Contexts] /\ bound = hub.ctx
    /\ asm = NoAssembly /\ dir = Nowhere

(***************************************************************************)
(* Members work, propose, and move the session.                            *)
(***************************************************************************)
(* The assembly reads neither the checkouts nor, once begun, the snapshot: *)
(* that they change meanwhile is left out.                                 *)
EditFile(m) ==
    /\ asm.pc = "idle" /\ edits < MaxEdits /\ edits' = edits + 1
    /\ \E p \in Paths :
         \/ \E h \in Hunks, v \in Versions :
              /\ trees[m][p] # Absent /\ trees[m][p].text[h] # v
              /\ trees' = [trees EXCEPT ![m][p].text[h] = v]
         \/ \E f \in {[Plain EXCEPT !.mode = x] : x \in Modes} \cup {Absent} :
              /\ trees[m][p] # f
              /\ trees' = [trees EXCEPT ![m][p] =
                             IF @ = Absent \/ f = Absent THEN f
                             ELSE [@ EXCEPT !.mode = f.mode]]
    /\ UNCHANGED <<base, props, hub, bound, asm, dir, faults>>

(* Each selected path is compared with the base tree; unchanged ones are   *)
(* left out, and an empty proposal is refused.                             *)
Captured(tree, paths) == {p \in paths : tree[p] # base[p]}

Propose(m) ==
    /\ Len(props) < MaxProposals /\ hub.rev < MaxRev
    /\ \E paths \in SUBSET Paths :
         /\ Captured(trees[m], paths) # {}
         /\ props' = Append(props, [task |-> m, ctx |-> hub.ctx,
                        files |-> [p \in Captured(trees[m], paths) |-> trees[m][p]]])
    /\ hub' = [hub EXCEPT !.rev = @ + 1]
    /\ UNCHANGED <<base, trees, bound, asm, dir, edits, faults>>

ContextMoves ==
    /\ hub.rev < MaxRev
    /\ \E c \in Contexts : hub' = [rev |-> hub.rev + 1, ctx |-> c]
    /\ UNCHANGED <<base, trees, props, bound, asm, dir, edits, faults>>

Rebind ==
    /\ asm.pc = "idle" /\ bound' = hub.ctx
    /\ UNCHANGED <<base, trees, props, hub, asm, dir, edits, faults>>

(***************************************************************************)
(* The merge.                                                              *)
(***************************************************************************)
Conflict == [mode |-> "conflict", text |-> [h \in Hunks |-> Original]]

(* git merge-file: hunks changed on one side only, or alike on both.       *)
ThreeWayMerge(old, ours, theirs) ==
    IF \E h \in Hunks : Cardinality({old[h], ours[h], theirs[h]}) = 3
    THEN {}
    ELSE {[h \in Hunks |-> IF ours[h] = old[h] THEN theirs[h] ELSE ours[h]]}

ResolveModes(old, first, next) ==
    CASE next = first \/ next = old -> first
      [] first = old -> next
      [] OTHER -> "conflict"

(* Mutation: the last proposal wins.                                       *)
MergeStepLastWins(old, ours, theirs) == theirs

MergeStep(old, ours, theirs) ==
    LET merged == ThreeWayMerge(old.text, ours.text, theirs.text)
        mode == ResolveModes(old.mode, ours.mode, theirs.mode)
    IN  IF ours = Conflict \/ merged = {} \/ mode = "conflict" THEN Conflict
        ELSE [mode |-> mode, text |-> CHOOSE t \in merged : TRUE]

(* _merge_path_changes, the loop: the selected proposals that touch the    *)
(* path, in the order of their ids, each merged into the result so far.    *)
(* The first one merged into the base itself gives just that one, and an   *)
(* edit that is the same as an earlier one changes nothing.                *)
Touches(i, p) == p \in DOMAIN props[i].files

MergeNext(sel, p, k, ours) ==
    IF k \in sel /\ Touches(k, p) THEN MergeStep(base[p], ours, props[k].files[p]) ELSE ours

MergeLoop(sel, p) ==
    LET after[k \in 0..Len(props)] ==
          IF k = 0 THEN base[p] ELSE MergeNext(sel, p, k, after[k - 1])
    IN  after

(* One path: deletions, identical edits and additions are no merges.       *)
MergePath(sel, p) ==
    LET afters == {props[i].files[p] : i \in {j \in sel : Touches(j, p)}}
    IN  CASE afters = {} -> base[p]
          [] afters = {Absent} -> Absent
          [] Absent \in afters /\ afters # {Absent} -> Conflict
          [] Absent \notin afters /\ Cardinality(afters) = 1 -> CHOOSE f \in afters : TRUE
          [] OTHER -> IF base[p] = Absent THEN Conflict ELSE MergeLoop(sel, p)[Len(props)]

Merged(sel) == [p \in Paths |-> MergePath(sel, p)]

(***************************************************************************)
(* The assembly.                                                           *)
(***************************************************************************)

(* _load_selected, _snapshot_valid: made under the current context, one of *)
(* each task.                                                              *)
Selectable(sel) ==
    /\ bound = hub.ctx
    /\ \A i \in sel : props[i].ctx = hub.ctx
    /\ \A i, j \in sel : props[i].task = props[j].task => i = j

(* The output path must not exist when the assembly begins.                *)
Assemble ==
    /\ asm.pc = "idle" /\ dir = Nowhere
    /\ \E sel \in SUBSET (1..Len(props)) :
         /\ sel # {} /\ Selectable(sel)
         /\ asm' = [asm EXCEPT !.sel = sel, !.rev = hub.rev, !.final = Merged(sel),
                       !.pc = IF Conflict \in {Merged(sel)[p] : p \in Paths}
                              THEN "conflict" ELSE "merged"]
    /\ UNCHANGED <<base, trees, props, hub, bound, dir, edits, faults>>

(* Somebody else makes a directory there meanwhile.                        *)
PathTaken ==
    /\ dir = Nowhere /\ asm.pc = "merged"
    /\ dir' = [dir EXCEPT !.by = "other"]
    /\ UNCHANGED <<base, trees, props, hub, bound, asm, edits, faults>>

(* The head is read again, then mkdir, which is exclusive.                 *)
MakeOutput ==
    /\ asm.pc = "merged"
    /\ IF hub.rev = asm.rev /\ dir = Nowhere
       THEN dir' = [dir EXCEPT !.by = "us"] /\ asm' = [asm EXCEPT !.pc = "writing"]
       ELSE asm' = [asm EXCEPT !.pc = "refused"] /\ UNCHANGED dir
    /\ UNCHANGED <<base, trees, props, hub, bound, edits, faults>>

Unwritten == {p \in Paths : asm.final[p] # dir.files[p]}

WriteFile ==
    /\ asm.pc = "writing"
    /\ IF Unwritten = {} THEN asm' = [asm EXCEPT !.pc = "made"] /\ UNCHANGED dir
       ELSE /\ \E p \in Unwritten : dir' = [dir EXCEPT !.files[p] = asm.final[p]]
            /\ UNCHANGED asm
    /\ UNCHANGED <<base, trees, props, hub, bound, edits, faults>>

(* Only the directory that was made here is removed.  What cannot be       *)
(* removed stays, unnoticed: files that were written, and the one that was *)
(* cut short, for which Plain stands.                                      *)
RemoveOutput ==
    \/ dir' = Nowhere /\ faults' = faults + 1
    \/ /\ faults + 1 < MaxFaults /\ faults' = faults + 2
       /\ \E left \in SUBSET {p \in Paths : asm.final[p] # Absent} :
            /\ Cardinality(left \cap Unwritten) <= 1
            /\ dir' = [by |-> "remains",
                       files |-> [p \in Paths |-> CASE p \notin left -> Absent
                                                    [] p \in left \cap Unwritten -> Plain
                                                    [] OTHER -> dir.files[p]]]

WriteFails ==
    /\ asm.pc = "writing" /\ faults < MaxFaults
    /\ RemoveOutput
    /\ asm' = [asm EXCEPT !.pc = "refused"]
    /\ UNCHANGED <<base, trees, props, hub, bound, edits>>

(***************************************************************************)
(* Verification.                                                           *)
(***************************************************************************)

(* Every file that was written counts; of the others only those that do    *)
(* not look like a cache or belong to a .git.                              *)
(* Mutation: nothing that looks like a cache counts.                       *)
FingerprintNoCaches == {<<p, dir.files[p]>> : p \in Paths \ Caches}

Fingerprint ==
    {<<p, dir.files[p]>> : p \in {q \in Paths : asm.final[q] # Absent \/ q \notin Caches}}

(* Without authorization, or without a plan, nothing is run; a bad plan or *)
(* a fingerprint that cannot be completed is an error.                     *)
SkipVerification ==
    /\ asm.pc = "made"
    /\ \E s \in {"not_run", "error"} :
         asm' = [asm EXCEPT !.pc = "done", !.status = s, !.before = Fingerprint]
    /\ UNCHANGED <<base, trees, props, hub, bound, dir, edits, faults>>

StartChecks ==
    /\ asm.pc = "made"
    /\ asm' = [asm EXCEPT !.pc = "checking", !.before = Fingerprint]
    /\ UNCHANGED <<base, trees, props, hub, bound, dir, edits, faults>>

(* A check writes, changes or removes a file of the candidate.             *)
CheckWrites ==
    /\ asm.pc = "checking" /\ edits < MaxEdits /\ edits' = edits + 1
    /\ \E p \in Paths, f \in {Absent, Plain} : dir' = [dir EXCEPT !.files[p] = f]
    /\ UNCHANGED <<base, trees, props, hub, bound, asm, faults>>

(* `complete' is whether every entry could be examined afterwards; a       *)
(* runner that raises is an error whatever it changed.                     *)
ChecksEnd ==
    /\ asm.pc = "checking"
    /\ \E s \in {"pass", "fail", "timeout", "error", "raised"}, complete \in BOOLEAN :
         asm' = [asm EXCEPT !.pc = "done",
                    !.status = CASE s = "raised" -> "error"
                                 [] complete /\ Fingerprint = asm.before -> s
                                 [] OTHER -> "invalidated"]
    /\ UNCHANGED <<base, trees, props, hub, bound, dir, edits, faults>>

Next ==
    \/ \E m \in Members : EditFile(m) \/ Propose(m)
    \/ ContextMoves \/ Rebind \/ Assemble \/ PathTaken \/ MakeOutput \/ WriteFile
    \/ WriteFails \/ SkipVerification \/ StartChecks \/ CheckWrites \/ ChecksEnd

Spec == Init /\ [][Next]_vars

(***************************************************************************)
(* Properties                                                              *)
(***************************************************************************)

(* The candidate file keeps what proposal i did to the file: its deletion, *)
(* its addition, each hunk and the mode that it changed.                   *)
Keeps(new, i, p) ==
    LET after == props[i].files[p] IN
    IF after = Absent \/ base[p] = Absent THEN new = after
    ELSE /\ new # Absent
         /\ \A h \in Hunks : after.text[h] # base[p].text[h] => new.text[h] = after.text[h]
         /\ after.mode # base[p].mode => new.mode = after.mode

(* And whatever differs from the base was done by a selected proposal.     *)
Explained(new, p) ==
    \/ new = base[p]
    \/ \E i \in asm.sel : Touches(i, p) /\ new = props[i].files[p]
    \/ /\ new # Absent /\ base[p] # Absent
       /\ \A h \in Hunks : new.text[h] # base[p].text[h] =>
            \E i \in asm.sel : Touches(i, p) /\ props[i].files[p].text[h] = new.text[h]
       /\ new.mode # base[p].mode =>
            \E i \in asm.sel : Touches(i, p) /\ props[i].files[p].mode = new.mode

(* Every change of every selected proposal, and nothing else, on the base. *)
HasEveryChange ==
    asm.pc = "made" => \A p \in Paths :
        /\ \A i \in asm.sel : Touches(i, p) => Keeps(dir.files[p], i, p)
        /\ Explained(dir.files[p], p)

(* All of it or none: an assembly that was refused has not touched what    *)
(* somebody else put at the path, and has left nothing there itself, but   *)
(* for files of the candidate in a directory that could not be removed.    *)
AllOrNone ==
    asm.pc \in {"refused", "conflict"} =>
        /\ dir.by # "us"
        /\ dir.by # "remains" => dir.files = Nowhere.files
        /\ dir.by = "remains" =>
             asm.pc = "refused" /\ \A p \in Paths : dir.files[p] # Absent => asm.final[p] # Absent

(* Conflicts are reported only where two proposals disagree.               *)
ConflictIsReal ==
    asm.pc = "conflict" =>
        \E p \in Paths : \A new \in Files \cup {Absent} :
            \E i \in asm.sel : Touches(i, p) /\ ~Keeps(new, i, p)

(***************************************************************************)
(* A candidate that was made has every change of every selected proposal,  *)
(* and nothing else, on the base: no proposal's work is overwritten by     *)
(* another's.  An assembly that was refused has not touched what somebody  *)
(* else put at the path and has left nothing there, but for files of the   *)
(* candidate in a directory that could not be removed, as                  *)
(* rmtree(ignore_errors) does not tell.  Conflicts are reported only where *)
(* two proposals disagree.                                                 *)
(***************************************************************************)
CandidateFaithful == HasEveryChange /\ AllOrNone /\ ConflictIsReal

(***************************************************************************)
(* A candidate reported as passing is, when its checks have ended, the one *)
(* that was assembled: every written file is intact and no file was added, *)
(* new cache files and .git entries apart.                                 *)
(***************************************************************************)
VerifiedAsAssembled ==
    asm.pc = "done" /\ asm.status = "pass" =>
        \A p \in Paths : dir.files[p] = asm.final[p] \/ (p \in Caches /\ asm.final[p] = Absent)
=============================================================================
