------------------------------ MODULE AuditRules ------------------------------
(* audit/evaluate.py, rules.py, findings.py: the findings of one rule over    *)
(* the events of a ledger, or over the calls of an artifact.  A finding is    *)
(* its verdict and the ids of the events or calls it cites.                   *)
EXTENDS Naturals, FiniteSets, Sequences, Functions, SequencesExt

PASS == "pass"
VIOLATION == "violation"
INSUFFICIENT == "insufficient_evidence"
Verdicts == {PASS, VIOLATION, INSUFFICIENT}

Ids(S) == {e.id : e \in S}

(* The findings of a rule that has found these violations and these doubts:*)
(* it passes only when there is neither.                                   *)
Findings(violations, uncertain) ==
    {f \in {[verdict |-> VIOLATION, ids |-> Ids(violations)],
            [verdict |-> INSUFFICIENT, ids |-> Ids(uncertain)]} : f.ids # {}}
    \union {f \in {[verdict |-> PASS, ids |-> {}]} :
                violations = {} /\ uncertain = {}}

-----------------------------------------------------------------------------
(* forbidden_write and sensitive_read: paths, matched by directory.        *)
Writes == {"write", "truncate", "rename", "unlink"}
KindsOf(rule) == IF rule.kind = "sensitive_read" THEN {"read"} ELSE Writes

PathMatches(path, root) == IsPrefix(root, path)

(* event.payload's path, or both names of a rename; none was collected for *)
(* a descriptor whose open was not seen.                                   *)
OnRulePath(rule, e) ==
    \E path \in e.paths, root \in rule.paths : PathMatches(path, root)

(* A read or a write of no bytes changed and disclosed nothing.            *)
Actual(e) == e.kind \in {"read", "write"} => e.bytes > 0

UncertainResultOnly(rule, e) ==   \* broken: an unknown path matches nothing
    OnRulePath(rule, e) /\ e.result = "unknown"

UncertainFile(rule, e) ==
    e.paths = {} \/ (OnRulePath(rule, e) /\ e.result = "unknown")

FileFindings(rule, events) ==
    LET relevant == {e \in events : e.kind \in KindsOf(rule)} IN
    Findings({e \in relevant : OnRulePath(rule, e) /\ e.result = "ok" /\ Actual(e)},
             {e \in relevant : UncertainFile(rule, e)})

(* destination_allowlist: attempts count, failed ones too.                 *)
NetworkFindings(rule, events) ==
    LET sent == {e \in events : e.kind \in {"connect", "send"}} IN
    Findings({e \in sent : /\ e.result # "unknown"
                           /\ e.destination \notin rule.destinations},
             {e \in sent : e.result = "unknown"})

(* cost_limit: the sum of what is known is a lower bound, so it can prove  *)
(* a violation; only complete costs can prove there is none.               *)
Known(calls) == SumFunctionOnSet([c \in calls |-> c.cost], {c \in calls : c.cost_known})
Incomplete(calls) == {c \in calls : ~c.cost_complete \/ ~c.cost_known}

CostFindingsDoubtFirst(rule, provided, calls) ==   \* broken: doubt hides the sum
    LET applicable == {c \in calls : c.currency = rule.currency} IN
    {[verdict |-> IF ~provided \/ applicable = {} THEN INSUFFICIENT
                  ELSE IF Incomplete(applicable) # {} THEN INSUFFICIENT
                  ELSE IF Known(applicable) > rule.max_cost THEN VIOLATION ELSE PASS,
      ids |-> IF provided THEN Ids(applicable) ELSE {}]}

CostFindings(rule, provided, calls) ==
    LET applicable == {c \in calls : c.currency = rule.currency} IN
    {[verdict |-> IF ~provided \/ applicable = {} THEN INSUFFICIENT
                  ELSE IF Known(applicable) > rule.max_cost THEN VIOLATION
                  ELSE IF Incomplete(applicable) # {} THEN INSUFFICIENT ELSE PASS,
      ids |-> IF provided THEN Ids(applicable) ELSE {}]}

(* build_audit_report: cost rules over the calls, the others over events.  *)
RuleFindings(rule, events, provided, calls) ==
    CASE rule.kind = "cost_limit" -> CostFindings(rule, provided, calls)
      [] rule.kind = "destination_allowlist" -> NetworkFindings(rule, events)
      [] OTHER -> FileFindings(rule, events)
=============================================================================
