----------------------------- MODULE AuditVerdict -----------------------------
(* An agent at work under a protected-directory policy (enforce/model.py),    *)
(* the ledger of what was captured of it, and the offline audit of that       *)
(* ledger (audit/): are the verdicts true of what the agent really did?       *)
(*                                                                            *)
(* The kernel, the files and the collector are external: an operation has its *)
(* effect on a small file system with hard links and directories that can be  *)
(* renamed, and is recorded with all its fields, without its path, without    *)
(* its result, or not at all.                                                 *)
EXTENDS Naturals, FiniteSets, ProtectedDirectory, AuditRules

CONSTANTS
    Components, \* of paths
    Names,      \* paths of files; some of them are protected
    Directories,\* paths of directories that the agent may rename
    Layouts,    \* the files at the start: name |-> file, or NoFile
    MaxFile,    \* the files at the start are in 1..MaxFile
    Policies,   \* ProtectedDirectoryPolicy: mode, directories, operations
    Kernels,    \* InstallationCapabilities
    Rules,      \* the audit policy, a set of rules
    Destinations,
    MaxCost,    \* the most one call costs
    Currencies,
    Unnamed,    \* {"none"} when a call's line may lack its currency, else {}
    MaxSteps    \* how much the agent does

ASSUME ConstantsOk ==
    /\ MaxCost \in Nat /\ MaxSteps \in Nat /\ MaxFile \in Nat
    /\ Names \union Directories \subseteq Seq(Components)
    /\ \A n \in Names, path \in Names \union Directories :
          IsPrefix(n, path) => n = path
    /\ Layouts \subseteq [Names -> 0..MaxFile]
    /\ \A rule \in Rules : rule.kind = "cost_limit" =>
          rule.max_cost \in Nat /\ rule.currency \notin Unnamed
    /\ \A policy \in Policies : /\ policy.mode \in {"audit", "enforce"}
                               /\ policy.directories \subseteq Seq(Components)
    /\ \A rule \in Rules : rule.kind \in {"forbidden_write", "sensitive_read",
                                          "destination_allowlist", "cost_limit"}

VARIABLES
    policy, kernel, \* what validate_installation is asked about
    agent,          \* "new", "running" or "refused"
    original,       \* the file system at the start, a layout
    fileAt,         \* and now: name |-> file, or NoFile
    changed,        \* the files whose content is not the original one
    done,           \* what the agent really did, newest last
    events,         \* what the ledger holds of it
    lost,           \* how many events never reached the ledger
    provided,       \* whether the audit is given a calls artifact
    calls           \* that artifact

vars == <<policy, kernel, agent, original, fileAt, changed, done, events, lost,
          provided, calls>>

NoFile == 0
Protected(name) == \E directory \in policy.directories : PathIsWithin(name, directory)

Init ==
    /\ policy \in Policies /\ kernel \in Kernels
    /\ agent = "new"
    /\ original \in Layouts /\ fileAt = original /\ changed = {}
    /\ done = <<>> /\ events = {} /\ lost = 0
    /\ provided \in BOOLEAN /\ calls = {}

(* The installation is validated before the agent is started.              *)
Start ==
    /\ agent = "new"
    /\ agent' = IF Ready(policy, kernel) THEN "running" ELSE "refused"
    /\ UNCHANGED <<policy, kernel, original, fileAt, changed, done, events, lost,
                   provided, calls>>

-----------------------------------------------------------------------------
(* One step of the agent, and what the ledger gets of it.  Opens, renames  *)
(* and unlinks always have their paths; reads, writes and truncations      *)
(* through a descriptor may not.  A result nobody saw leaves no byte count.*)
Captured(deed, paths, result) ==
    [deed EXCEPT !.paths = paths, !.result = result,
                 !.bytes = IF result = "unknown" THEN 0 ELSE deed.bytes]

Recordings(deed) ==
    {Captured(deed, paths, result) :
        paths \in {deed.paths} \union
                  (IF deed.kind \in {"read", "write", "truncate"} THEN {{}} ELSE {}),
        result \in {deed.result, "unknown"}}

Recorded == Writes \union {"read", "open", "connect", "send"}

Capture(deed) ==
    /\ done' = Append(done, deed)
    /\ \/ /\ deed.kind \in Recorded
          /\ events' \in {events \union {e} : e \in Recordings(deed)}
          /\ UNCHANGED lost
       \/ deed.kind \in Recorded /\ lost' = lost + 1 /\ UNCHANGED events
       \/ deed.kind \notin Recorded /\ UNCHANGED <<events, lost>>

Working == agent = "running" /\ Len(done) < MaxSteps

Deed(kind, paths, destination, bytes, ok) ==
    [id |-> Len(done) + 1, kind |-> kind, paths |-> paths,
     destination |-> destination, bytes |-> bytes, cost |-> 0, currency |-> "none",
     result |-> IF ok THEN "ok" ELSE "error"]

Exists(name) == fileAt[name] # NoFile

(* Where a rename of s to t takes a name at or below s, and the names that *)
(* it takes to n.  Making a directory is none of the operations, so any    *)
(* directory is there when it is needed.                                   *)
Carried(s, t, name) == t \o SubSeq(name, Len(s) + 1, Len(name))
From(s, t, n) == {name \in Names : IsPrefix(s, name) /\ Carried(s, t, name) = n}

(* What a rename of s to t makes of the files.  What was below t is gone,  *)
(* what was below s is there; onto another link of itself it does nothing. *)
Renamed(s, t) ==
    IF {s, t} \subseteq Names /\ fileAt[s] = fileAt[t] THEN fileAt
    ELSE [n \in Names |->
             IF From(s, t, n) # {} THEN fileAt[CHOOSE name \in From(s, t, n) : TRUE]
             ELSE IF IsPrefix(s, n) \/ IsPrefix(t, n) THEN NoFile ELSE fileAt[n]]

(* What the file system itself asks of an operation.  Only a file may be   *)
(* renamed onto a file, and nothing onto a directory that is not empty.    *)
Possible(op) ==
    CASE op.kind = "create" -> ~Exists(op.target)
      [] op.kind = "link" -> ~Exists(op.target) /\ \A s \in op.source : Exists(s)
      [] op.kind = "rename" ->
             /\ \A s \in op.source : \E n \in Names : IsPrefix(s, n) /\ Exists(n)
             /\ \A n \in Names : IsPrefix(op.target, n) /\ Exists(n) => op.source \subseteq Names
      [] OTHER -> Exists(op.target)

(* A created file is one that was never there before.                      *)
Effect(op) ==
    /\ fileAt' \in
          CASE op.kind = "create" -> {[fileAt EXCEPT ![op.target] = MaxFile + Len(done) + 1]}
            [] op.kind = "link" -> {[fileAt EXCEPT ![op.target] = fileAt[s]] : s \in op.source}
            [] op.kind = "rename" -> {Renamed(s, op.target) : s \in op.source}
            [] op.kind = "unlink" -> {[fileAt EXCEPT ![op.target] = NoFile]}
            [] OTHER -> {fileAt}
    /\ changed' = IF op.kind = "truncate" \/ (op.kind = "write" /\ op.bytes > 0)
                  THEN changed \union {fileAt[op.target]} ELSE changed

(* OperationRequest takes any paths.  The directories renamed here are     *)
(* those whose files stay within Names, and never into themselves.         *)
DirectoryRenames ==
    {r \in [kind : {"rename"}, target : Directories, source : {{d} : d \in Directories},
            bytes : {0}] :
        \A s \in r.source :
            /\ ~IsPrefix(s, r.target) /\ ~IsPrefix(r.target, s)
            /\ \A n \in Names : IsPrefix(s, n) => Carried(s, r.target, n) \in Names}

Requests ==
    [kind : {"write"}, target : Names, source : {{}}, bytes : {0, 1}]
    \union [kind : {"create", "truncate", "unlink"}, target : Names,
            source : {{}}, bytes : {0}]
    \union {r \in [kind : {"rename", "link"}, target : Names,
                   source : {{n} : n \in Names}, bytes : {0}] : r.target \notin r.source}
    \union DirectoryRenames

(* A truncation is a call of its own or part of an open (O_TRUNC): the     *)
(* kernel asks the same hook, but the ledger gets a file.open.             *)
KindsRecordedFor(op) ==
    IF op.kind = "truncate" THEN {"truncate", "open"} ELSE {op.kind}

Operate(op) ==
    LET ok == Possible(op) /\ ~KernelRefuses(policy, kernel, op) IN
    /\ Working
    /\ IF ok THEN Effect(op) ELSE UNCHANGED <<fileAt, changed>>
    /\ \E kind \in KindsRecordedFor(op) :
          Capture(Deed(kind, {op.target} \union op.source, "none",
                       IF ok THEN op.bytes ELSE 0, ok))
    /\ UNCHANGED <<policy, kernel, agent, original, provided, calls>>

ReadFile(name, bytes) ==
    /\ Working
    /\ Capture(Deed("read", {name}, "none",
                    IF Exists(name) THEN bytes ELSE 0, Exists(name)))
    /\ UNCHANGED <<policy, kernel, agent, original, fileAt, changed, provided, calls>>

Contact(destination, ok) ==
    /\ Working
    /\ \E kind \in {"connect", "send"} : Capture(Deed(kind, {}, destination, 0, ok))
    /\ UNCHANGED <<policy, kernel, agent, original, fileAt, changed, provided, calls>>

(* A model call and its line in the calls artifact: what is known of the   *)
(* cost is never more than the cost, and complete only if it is all of it. *)
CallModel(currency, cost) ==
    /\ Working
    /\ LET call == [Deed("call", {}, "none", 0, TRUE) EXCEPT !.cost = cost,
                                                            !.currency = currency] IN
       /\ done' = Append(done, call)
       /\ \E known \in 0..cost, cost_known, cost_complete \in BOOLEAN,
             named \in {currency} \union Unnamed :
             /\ cost_complete => cost_known /\ known = cost /\ named = currency
             /\ calls' = calls \union
                   {[id |-> call.id, currency |-> named, cost |-> known,
                     cost_known |-> cost_known, cost_complete |-> cost_complete]}
    /\ UNCHANGED <<policy, kernel, agent, original, fileAt, changed, events, lost,
                   provided>>

Next ==
    \/ Start
    \/ \E op \in Requests : Operate(op)
    \/ \E n \in Names, bytes \in {0, 1} : ReadFile(n, bytes)
    \/ \E d \in Destinations, ok \in BOOLEAN : Contact(d, ok)
    \/ \E c \in Currencies, cost \in 0..MaxCost : CallModel(c, cost)

Spec == Init /\ [][Next]_vars

-----------------------------------------------------------------------------
FindingsOf(rule) == RuleFindings(rule, events, provided, calls)
VerdictsOf(rule) == {f.verdict : f \in FindingsOf(rule)}

(* What the agent really did.                                              *)
Deeds == {done[i] : i \in DOMAIN done}

Spent(currency, deeds) ==
    SumFunctionOnSet([d \in deeds |-> d.cost], {d \in deeds : d.currency = currency})

(* Whether one of some deeds is against a rule: by what it did and to what *)
(* name, an open that truncates included; a connection or a sending only   *)
(* if it succeeded; a call if the calls together spent too much.           *)
Offends(rule, deed, deeds) ==
    CASE rule.kind = "destination_allowlist" ->
             /\ deed.kind \in {"connect", "send"} /\ deed.result = "ok"
             /\ deed.destination \notin rule.destinations
      [] rule.kind = "cost_limit" -> Spent(rule.currency, deeds) > rule.max_cost
      [] OTHER -> /\ \/ deed.kind \in KindsOf(rule)
                     \/ deed.kind = "open" /\ rule.kind = "forbidden_write"
                  /\ deed.result = "ok" /\ Actual(deed) /\ OnRulePath(rule, deed)

(* A connection or a sending that failed.                                  *)
Attempt(rule, deed) ==
    /\ rule.kind = "destination_allowlist"
    /\ deed.kind \in {"connect", "send"} /\ deed.result = "error"
    /\ deed.destination \notin rule.destinations

(* What no rule looks at: opens (evaluate.py:50), and calls whose line     *)
(* names no currency (evaluate.py:132, artifacts.py:37).                   *)
Overlooked(deed) ==
    \/ deed.kind = "open"
    \/ \E line \in calls : line.id = deed.id /\ line.currency # deed.currency
Seen == {d \in Deeds : ~Overlooked(d)}

TypeOK ==
    /\ policy \in Policies /\ kernel \in Kernels
    /\ agent \in {"new", "running", "refused"}
    /\ original \in Layouts
    /\ fileAt \in [Names -> 0..(MaxFile + MaxSteps)]
    /\ changed \subseteq 1..(MaxFile + MaxSteps)
    /\ Len(done) <= MaxSteps /\ lost <= MaxSteps
    /\ Ids(events) \union Ids(calls) \subseteq DOMAIN done

(* A violation cites only what the agent really did against the rule, or   *)
(* tried to where attempts count.  A pass, when no event was lost, means   *)
(* that it did nothing at all against the rule, whatever was recorded      *)
(* without a path, a result or a price: but for what the rules overlook.   *)
(* And the types hold (evaluate.py:43 _file_rule, :90 _network_rule, :127  *)
(* evaluate_cost_rule).                                                    *)
FindingsAreTrue ==
    /\ TypeOK
    /\ \A rule \in Rules : \A f \in FindingsOf(rule) :
          /\ f.verdict = VIOLATION =>
                \A i \in f.ids : Offends(rule, done[i], Deeds) \/ Attempt(rule, done[i])
          /\ f.verdict = PASS /\ lost = 0 =>
                \A d \in Seen : ~Offends(rule, d, Seen)

(* The audit may be run while the ledger still grows: a violation it has   *)
(* reported is reported by every later audit too.                          *)
ViolationStands ==
    [][\A rule \in Rules :
          VIOLATION \in VerdictsOf(rule) => VIOLATION \in VerdictsOf(rule)']_vars

Enforced == /\ agent = "running" /\ policy.mode = "enforce"
            /\ policy.operations = FileOperations

(* What the policy does not see: a directory above a protected one was     *)
(* renamed (enforce/model.py:66 path_is_within looks below, never above),  *)
(* and a protected file had a name outside from the start.                 *)
AboveRenamed ==
    \E d \in Deeds : /\ d.kind = "rename" /\ d.result = "ok"
                     /\ \E path \in d.paths, directory \in policy.directories :
                           IsStrictPrefix(path, directory)
LinkedOutside(file) == \E n \in Names : ~Protected(n) /\ original[n] = file

(* Enforced on a kernel that was validated for it, a policy that covers    *)
(* every operation keeps its directories as they were: the same names, the *)
(* same files and, but for files with a name outside from the start, the   *)
(* same content.  Links, renames of files and of directories, writes and   *)
(* removals do not reach them, as long as no directory above them is       *)
(* renamed (enforce/model.py:123 _paths_affected, :128 evaluate_operation).*)
EnforcedStaysIntact ==
    Enforced /\ ~AboveRenamed =>
        \A n \in Names : Protected(n) =>
            /\ fileAt[n] = original[n]
            /\ fileAt[n] \in changed => LinkedOutside(fileAt[n])

-----------------------------------------------------------------------------
(* FALSE, each of them: what the documents say without the exceptions.     *)

(* Events the transport lost are not evidence that nothing happened.       *)
NoPassAfterLoss == lost > 0 => \A rule \in Rules : PASS \notin VerdictsOf(rule)

(* Only what succeeded violates a rule (docs/04-audit.md:49, :57).         *)
OnlySuccessViolates ==
    \A rule \in Rules : \A f \in FindingsOf(rule) :
        f.verdict = VIOLATION => \A i \in f.ids : done[i].result = "ok"

(* A truncation of a forbidden file is not passed (docs/04-audit.md:47).   *)
TruncationIsSeen ==
    \A rule \in Rules : rule.kind = "forbidden_write" /\ PASS \in VerdictsOf(rule) /\ lost = 0
        => \A d \in Deeds : d.kind = "open" => ~Offends(rule, d, Deeds)

(* A cost nobody named the currency of is no reason for a pass (:60).      *)
UnpricedIsDoubted ==
    \A rule \in Rules : rule.kind = "cost_limit" /\ PASS \in VerdictsOf(rule)
        => Spent(rule.currency, Deeds) <= rule.max_cost

(* Source and target are both looked at, so no link and no rename reaches  *)
(* what is protected (enforce/model.py:124).                               *)
NothingReachesIt ==
    Enforced => \A n \in Names : Protected(n) =>
                    fileAt[n] = original[n] /\ fileAt[n] \notin changed
=============================================================================
