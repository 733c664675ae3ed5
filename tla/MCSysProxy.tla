----------------------------- MODULE MCSysProxy -----------------------------
(* SysProxy on two ports of ours and one foreign proxy.                    *)
EXTENDS SysProxy
CONSTANTS p1, p2, corp

MCPorts == {p1, p2}
MCForeign == {corp}
=============================================================================
