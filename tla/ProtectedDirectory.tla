------------------------- MODULE ProtectedDirectory -------------------------
(* enforce/model.py: which file operations a protected-directory policy     *)
(* allows, and whether a kernel can enforce it.  Paths are sequences of     *)
(* components, as in MountView.                                             *)
EXTENDS Sequences, SequencesExt

FileOperations == {"write", "create", "truncate", "unlink", "rename", "link"}

PathIsWithin(path, directory) == IsPrefix(directory, path)

(* A rename or a link has a source, every other operation only a target.   *)
PathsAffectedTarget(op) == {op.target}   \* broken: the source is not looked at

PathsAffected(op) == {op.target} \union op.source

ProtectedPaths(policy, op) ==
    {path \in PathsAffected(op) :
        \E directory \in policy.directories : PathIsWithin(path, directory)}

(* evaluate_operation: an operation outside the policy's matrix is let     *)
(* through without a claim, and audit mode only records.                   *)
WouldDeny(policy, op) ==
    op.kind \in policy.operations /\ ProtectedPaths(policy, op) # {}

Allowed(policy, op) == WouldDeny(policy, op) => policy.mode = "audit"

RequiredHooks(operations) ==
    LET hook == [write |-> "file_permission", create |-> "inode_create",
                 truncate |-> "inode_setattr", unlink |-> "inode_unlink",
                 rename |-> "inode_rename", link |-> "inode_link"]
    IN {hook[operation] : operation \in operations}

(* validate_installation: enforce is never replaced by audit.              *)
Ready(policy, kernel) ==
    \/ policy.mode = "audit"
    \/ kernel.lsm /\ RequiredHooks(policy.operations) \subseteq kernel.hooks

(* What a kernel with those hooks attached refuses: an operation whose     *)
(* hook is missing is not seen by the policy at all.                       *)
KernelRefuses(policy, kernel, op) ==
    /\ kernel.lsm /\ RequiredHooks({op.kind}) \subseteq kernel.hooks
    /\ ~Allowed(policy, op)
=============================================================================
