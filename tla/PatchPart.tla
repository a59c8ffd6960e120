------------------------------ MODULE PatchPart ------------------------------
(***************************************************************************)
(* PatchCache as a part that may stand beside another, with names of its   *)
(* own for what others call the same, and what it promises.                *)
(***************************************************************************)
CONSTANTS Patchers, None, MaxVersion
VARIABLES version, stamp, inode, name, pc, root, key, src, out, result

patchVars == <<version, stamp, inode, name, pc, root, key, src, out, result>>

Patch == INSTANCE PatchCache WITH file <- inode

ASSUME PatchAssumption == Patch!PatchConstants

\* A copy of Chrome that is returned is whole; no two patchers write into one file
\* (ChromePatcher::patch, is_patched).
CopyTrue == []Patch!SoleWriter /\ Patch!CopyTrue
=============================================================================
