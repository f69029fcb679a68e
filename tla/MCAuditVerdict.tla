--------------------------- MODULE MCAuditVerdict ---------------------------
EXTENDS AuditVerdict

Src == <<"ws", "src">>
SrcF == <<"ws", "src", "f">>
WsA == <<"ws", "a">>
MCNames == {SrcF, WsA, <<"old", "src", "f">>, <<"old", "a">>}
MCDirectories == {Src, <<"ws">>, <<"old">>, <<"old", "src">>}

(* A file inside and one outside; one file with a name on either side; and *)
(* nothing inside yet.                                                     *)
Layout(inside, outside) ==
    [n \in MCNames |-> CASE n = SrcF -> inside [] n = WsA -> outside [] OTHER -> 0]
MCLayouts == {Layout(1, 2), Layout(1, 1), Layout(0, 2)}

Policy(mode, operations) ==
    [mode |-> mode, directories |-> {Src}, operations |-> operations]
MCPolicies == {Policy("enforce", FileOperations), Policy("enforce", {"write"}),
               Policy("audit", FileOperations)}

(* One kernel has everything, one lacks the hook for links.                *)
MCKernels == {[lsm |-> TRUE, hooks |-> RequiredHooks(FileOperations)],
              [lsm |-> TRUE, hooks |-> RequiredHooks(FileOperations \ {"link"})]}

MCRules ==
    {[kind |-> "forbidden_write", paths |-> {Src}],
     [kind |-> "sensitive_read", paths |-> {Src}],
     [kind |-> "destination_allowlist", destinations |-> {"in"}],
     [kind |-> "cost_limit", currency |-> "USD", max_cost |-> 1]}
=============================================================================
