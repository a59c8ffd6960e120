------------------------------ MODULE PatchCache ------------------------------
(***************************************************************************)
(* ChromePatcher on Linux (stealth/patcher.rs): a copy of Chrome's binary  *)
(* in which the strings of automation are rewritten, kept in a directory   *)
(* named after the original's path, size and time.  A launch patches in    *)
(* the private directory of its runtime; ChromePatcher::new uses the       *)
(* temporary directory that all processes of the user share, where nothing *)
(* but the steps of the file system keeps patchers apart.                  *)
(*                                                                         *)
(* A file is two parts: the first 64 KB, which is_patched samples, and the *)
(* rest; both have strings to rewrite.  A patcher is a process: it may be  *)
(* killed anywhere.                                                        *)
(***************************************************************************)
EXTENDS Naturals, FiniteSets

CONSTANTS
  Patchers,
  None,
  MaxVersion   \* bound: updates of the original

PatchConstants ==
  /\ MaxVersion \in Nat /\ None \notin Nat /\ "shared" \notin Patchers

VARIABLES
  version,  \* of the original
  stamp,    \* its modification time: a version's number is later than files before it
  file,     \* inodes: content and modification time
  name,     \* patched_path of each directory: its inode, or None
  pc,
  root,     \* "shared" for ChromePatcher::new; a launch's own for new_in_runtime
  key,      \* stable_cache_name: the version the patcher was made for
  src,      \* version of the original it reads
  out,      \* the inode it writes
  result    \* "none", "ok" or "err"

vars == <<version, stamp, file, name, pc, root, key, src, out, result>>

Parts == 2
Cells == ({"shared"} \cup Patchers) \X (0..MaxVersion)
Cell(p) == <<root[p], key[p]>>

Init ==
  /\ version = 0 /\ stamp = 0
  /\ file = [i \in {} |-> None] /\ name = [c \in Cells |-> None]
  /\ pc = [p \in Patchers |-> "idle"] /\ root = [p \in Patchers |-> "shared"]
  /\ key = [p \in Patchers |-> 0]
  /\ src = [p \in Patchers |-> 0] /\ out = [p \in Patchers |-> None]
  /\ result = [p \in Patchers |-> "none"]

Goto(p, l) == pc' = [pc EXCEPT ![p] = l]
Returns(p, r) == Goto(p, "done") /\ result' = [result EXCEPT ![p] = r]

\* The original is replaced, by a file that is newer or keeps an older time.
Update ==
  /\ version < MaxVersion
  /\ version' = version + 1
  /\ stamp' \in {stamp, version + 1}
  /\ UNCHANGED <<file, name, pc, key, src, out, result, root>>

-----------------------------------------------------------------------------
(* new, is_patched and get_patched_path.                                    *)

New(p) ==
  /\ pc[p] = "idle"
  /\ root' \in {[root EXCEPT ![p] = r] : r \in {"shared", p}}
  /\ key' = [key EXCEPT ![p] = version] /\ Goto(p, "times")
  /\ UNCHANGED <<version, stamp, file, name, src, out, result>>

Current(p) == name[Cell(p)]

\* The copy is newer than the original, in a directory that is still private.
CompareTimes(p) ==
  /\ pc[p] = "times"
  /\ \/ Goto(p, "links")
     \/ Current(p) # None /\ file[Current(p)].at >= stamp /\ Goto(p, "sample")
  /\ UNCHANGED <<version, stamp, file, name, key, src, out, result, root>>

\* verify_patched_sample: no string to rewrite in what there is of the first part.
SampleClean(f) == f.length = 0 \/ f.patched >= 1

Sample(p) ==
  /\ pc[p] = "sample"
  /\ IF Current(p) # None /\ SampleClean(file[Current(p)])
     THEN Goto(p, "return") ELSE Goto(p, "links")
  /\ UNCHANGED <<version, stamp, file, name, key, src, out, result, root>>

\* get_patched_path: the path, whatever it names by now.
ReturnPath(p) ==
  /\ pc[p] = "return"
  /\ Returns(p, "ok")
  /\ UNCHANGED <<version, stamp, file, name, key, src, out, root>>

\* A step fails: no ELF file, an untrusted directory, a link another patcher made
\* in between, a write.
Fails(p) ==
  /\ pc[p] \in {"idle", "links", "remove", "create", "copy", "apply", "store", "chmod"}
  /\ Returns(p, "err")
  /\ UNCHANGED <<version, stamp, file, name, key, src, out, root>>

Killed(p) ==
  /\ pc[p] \notin {"idle", "done"}
  /\ Goto(p, "done")
  /\ UNCHANGED <<version, stamp, file, name, key, src, out, result, root>>

-----------------------------------------------------------------------------
(* patch: companions, then the copy, mapped when it is above 10 MB or made  *)
(* in memory.                                                               *)

\* The directory, links to the companions; the whole original is read when it is small.
LinkCompanions(p) ==
  /\ pc[p] = "links"
  /\ src' = [src EXCEPT ![p] = version] /\ Goto(p, "remove")
  /\ UNCHANGED <<version, stamp, file, name, key, out, result, root>>

RemoveFile(p) ==
  /\ pc[p] = "remove"
  /\ name' = [name EXCEPT ![Cell(p)] = None] /\ Goto(p, "create")
  /\ UNCHANGED <<version, stamp, file, key, src, out, result, root>>

\* create_new.
Opens(p) == IF Current(p) = None THEN Cardinality(DOMAIN file) + 1 ELSE None

Empty == [length |-> 0, patched |-> 0, of |-> None, at |-> version, executable |-> FALSE]

CreateNew(p) ==
  /\ pc[p] = "create"
  /\ IF Opens(p) = None
     THEN Returns(p, "err") /\ UNCHANGED <<file, name, src, out>>
     ELSE /\ file' = [i \in DOMAIN file \cup {Opens(p)} |->
                        IF i = Opens(p) THEN Empty ELSE file[i]]
          /\ name' = [name EXCEPT ![Cell(p)] = Opens(p)]
          /\ out' = [out EXCEPT ![p] = Opens(p)]
          /\ \/ src' = [src EXCEPT ![p] = version] /\ Goto(p, "copy")
             \/ UNCHANGED src /\ Goto(p, "store")
          /\ UNCHANGED result
  /\ UNCHANGED <<version, stamp, key, root>>

Writes(p, f) == file' = [file EXCEPT ![out[p]] = [f EXCEPT !.of = src[p], !.at = version]]

\* io::copy into the file that is then mapped.
Copy(p) ==
  LET f == file[out[p]] IN
  /\ pc[p] = "copy" /\ f.length < Parts
  /\ Writes(p, [f EXCEPT !.length = @ + 1])
  /\ Goto(p, IF f.length + 1 = Parts THEN "apply" ELSE "copy")
  /\ UNCHANGED <<version, stamp, name, key, src, out, result, root>>

\* Mutant: the strings of the sampled part are rewritten, no others.
LastSampled == 1
\* apply_patches rewrites all matches, from the first byte to the last.
LastMatch == Parts

Apply(p) ==
  LET f == file[out[p]] IN
  /\ pc[p] = "apply"
  /\ Writes(p, [f EXCEPT !.patched = @ + 1])
  /\ Goto(p, IF f.patched + 1 >= LastMatch THEN "chmod" ELSE "apply")
  /\ UNCHANGED <<version, stamp, name, key, src, out, result, root>>

\* write_all of the bytes that were patched in memory.
Store(p) ==
  LET f == file[out[p]] IN
  /\ pc[p] = "store"
  /\ Writes(p, [f EXCEPT !.length = @ + 1, !.patched = IF f.length < LastMatch THEN @ + 1 ELSE @])
  /\ Goto(p, IF f.length + 1 = Parts THEN "chmod" ELSE "store")
  /\ UNCHANGED <<version, stamp, name, key, src, out, result, root>>

\* set_permissions goes by the path.
Chmod(p) ==
  /\ pc[p] = "chmod"
  /\ IF Current(p) = None THEN Returns(p, "err") /\ UNCHANGED file
     ELSE /\ file' = [file EXCEPT ![Current(p)].executable = TRUE]
          /\ Goto(p, "return") /\ UNCHANGED result
  /\ UNCHANGED <<version, stamp, name, key, src, out, root>>

-----------------------------------------------------------------------------

PatcherNext(p) ==
  \/ New(p) \/ CompareTimes(p) \/ Sample(p) \/ ReturnPath(p) \/ Fails(p) \/ Killed(p)
  \/ LinkCompanions(p) \/ RemoveFile(p) \/ CreateNew(p) \/ Copy(p) \/ Apply(p) \/ Store(p)
  \/ Chmod(p)

Next == Update \/ \E p \in Patchers : PatcherNext(p)
Spec == Init /\ [][Next]_vars

-----------------------------------------------------------------------------

TypeOK ==
  /\ version \in 0..MaxVersion /\ stamp \in 0..version
  /\ \A c \in Cells : name[c] \in DOMAIN file \cup {None}
  /\ \A i \in DOMAIN file :
       /\ file[i].length \in 0..Parts /\ file[i].patched \in 0..file[i].length
       /\ file[i].of \in 0..MaxVersion \cup {None} /\ file[i].at \in 0..version
  /\ \A p \in Patchers :
       /\ root[p] \in {"shared", p} /\ key[p] \in 0..version /\ src[p] \in 0..version
       /\ out[p] \in DOMAIN file \cup {None}
       /\ result[p] \in {"none", "ok", "err"}

Writing(p) == pc[p] \in {"copy", "apply", "store"}

\* A file that is mapped or written has one patcher writing it, though several
\* remove and create the same path (patch_with_mmap: "no other process maps or
\* writes it concurrently").
SoleWriter ==
  /\ TypeOK
  /\ \A p, q \in Patchers : p # q /\ Writing(p) /\ Writing(q) => out[p] # out[q]

Complete(f) == f.length = Parts /\ f.patched = Parts /\ f.executable
Unfinished(i) == \E p \in Patchers : out[p] = i /\ pc[p] # "return" /\ result[p] # "ok"

\* The path of a launch names a complete, executable and wholly rewritten copy of
\* a version the original had since the launch looked.  So does a path in the
\* shared directory, unless somebody else has removed that file, or still writes
\* it, or never finished it.
CopyTrue ==
  [][\A p \in Patchers : result[p] = "none" /\ result'[p] = "ok" =>
       LET i == Current(p) IN
       \/ i # None /\ Complete(file[i]) /\ file[i].of \in key[p]..version
       \/ root[p] = "shared" /\ (i = None \/ Unfinished(i))]_vars
=============================================================================
