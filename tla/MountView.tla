----------------------------- MODULE MountView -----------------------------
(* container/mounts.py and container/paths.py: a container's mounts as a   *)
(* lexical map between container paths and host paths.                     *)
(*                                                                         *)
(* A normalised absolute path is the sequence of its components ("/" is    *)
(* <<>>), so a prefix of the sequence is a prefix at a directory boundary, *)
(* and of two prefixes of one path the longer string is the longer         *)
(* sequence.  What the code may answer with None is a set here: empty, or  *)
(* holding the one answer.                                                 *)
EXTENDS Naturals, Sequences, FiniteSets, SequencesExt

(* Only these mounts have a directory of the host behind them; tmpfs lives *)
(* in memory and what "other" means is unknown.                            *)
HostPathMountTypes == {"bind", "volume"}

RelativeTo(path, parent) == SubSeq(path, Len(parent) + 1, Len(path))

OverHostMounts(mounts, path) ==   \* broken: only mounts with a host directory
    {m \in mounts : /\ m.type \in HostPathMountTypes
                    /\ IsPrefix(m.destination, path)}

(* The mounts whose destination the path lies under, every type included:  *)
(* a tmpfs hides the bind mount above it.                                  *)
Over(mounts, path) == {m \in mounts : IsPrefix(m.destination, path)}

Winners(mounts, path) ==
    {m \in Over(mounts, path) :
        \A n \in Over(mounts, path) : Len(n.destination) <= Len(m.destination)}

ContainerToHost(mounts, path) ==
    LET winners == Winners(mounts, path)
        sure == {m \in winners : /\ Cardinality(winners) = 1
                                 /\ m.type \in HostPathMountTypes}
        Behind(m) == {source \o RelativeTo(path, m.destination) : source \in m.source}
    IN  UNION {Behind(m) : m \in sure}

(* The other direction looks only at mounts that have a host directory.    *)
Sources(mounts, path) ==
    {m \in mounts : /\ m.type \in HostPathMountTypes
                    /\ \E source \in m.source : IsPrefix(source, path)}

SourceWinners(mounts, path) ==
    {m \in Sources(mounts, path) :
        \A n \in Sources(mounts, path), s \in m.source :
            \A t \in n.source : Len(t) <= Len(s)}

HostToContainer(mounts, path) ==
    LET winners == SourceWinners(mounts, path) IN
    {m.destination \o RelativeTo(path, CHOOSE s \in m.source : TRUE) :
        m \in {w \in winners : Cardinality(winners) = 1}}

(***************************************************************************)
(* What the kernel does with a path: it walks the components from the root *)
(* of the container, and each time it stands on a mount point it steps     *)
(* onto the mount and starts counting components again.                    *)
(***************************************************************************)
Root == [type |-> "rootfs", source |-> {}, destination |-> <<>>]

MountedAt(mounts, path) == {m \in mounts : m.destination = path}

StepOnto(mounts, at) ==
    IF MountedAt(mounts, at.path) = {}
    THEN at
    ELSE [at EXCEPT !.mount = CHOOSE m \in MountedAt(mounts, at.path) : TRUE,
                    !.rest = <<>>]

Walk(mounts, path) ==
    LET walk[k \in 0..Len(path)] ==
            StepOnto(mounts,
                IF k = 0 THEN [path |-> <<>>, mount |-> Root, rest |-> <<>>]
                ELSE [path  |-> Append(walk[k - 1].path, path[k]),
                      mount |-> walk[k - 1].mount,
                      rest  |-> Append(walk[k - 1].rest, path[k])])
    IN  walk[Len(path)]

(* The host file the container reaches by that path, if it is a host file. *)
KernelFile(mounts, path) ==
    LET end == Walk(mounts, path) IN
    {source \o end.rest : source \in
        {s \in end.mount.source : end.mount.type \in HostPathMountTypes}}
=============================================================================
