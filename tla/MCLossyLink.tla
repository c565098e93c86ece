---------------------------- MODULE MCLossyLink ----------------------------
(* Small instances of LossyLink: one browser, one daemon. *)
EXTENDS LossyLink

CONSTANTS browser, daemon

MCPeer == {browser, daemon}

\* One direction at a time: the two directions of a channel share nothing.
DaemonSends  == [p \in MCPeer |-> IF p = daemon THEN Priority ELSE {}]
DaemonSendsCritical ==
  [p \in MCPeer |-> IF p = daemon THEN {"Critical"} ELSE {}]
BrowserSends == [p \in MCPeer |-> IF p = browser THEN Priority ELSE {}]
BrowserSendsCritical ==
  [p \in MCPeer |-> IF p = browser THEN {"Critical"} ELSE {}]

=============================================================================
