---------------------------- MODULE MCWindowsPads ----------------------------
(* An Xbox pad, a stick of a known product and one of an unknown product. *)
EXTENDS WindowsPads

XboxGuid  == [crc |-> 1, hw |-> 1, version |-> 0]
StickGuid == [crc |-> 2, hw |-> 2, version |-> 0]
BlankGuid == [crc |-> 3, hw |-> 0, version |-> 0]

MCGuids == {XboxGuid, StickGuid, BlankGuid}
MCPads == {"xbox", "stick", "blank"}
MCPadGuid == [p \in MCPads |-> CASE p = "xbox" -> XboxGuid [] p = "stick" -> StickGuid
                                 [] OTHER -> BlankGuid]
MCUsers == <<"xbox">>
MCConfigs == {[report_unmapped |-> TRUE, always_rescan |-> FALSE, deadzone |-> 0]}
=============================================================================
