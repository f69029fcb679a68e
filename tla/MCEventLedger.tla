--------------------------- MODULE MCEventLedger ---------------------------
(* Bounds for TLC: three events of one stream, the last one too long for   *)
(* the buffer and older than the first.                                    *)
EXTENDS EventLedger

MCEvent == {"a", "b", "long"}
MCLong == {"long"}
MCStream == {"s"}
MCStreamOf == [e \in MCEvent |-> "s"]
MCMonotonicNs == [e \in MCEvent |-> CASE e = "a" -> 1 [] e = "b" -> 2 [] e = "long" -> 1]
MCBatches == {<<>>, <<"b", "a">>}
MCModes == [policy : Policies, strict : BOOLEAN]
MCAlwaysModes == [policy : {"ALWAYS"}, strict : {FALSE}]
=============================================================================
