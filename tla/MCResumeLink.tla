---------------------------- MODULE MCResumeLink ----------------------------
(* Small instances of ResumeLink. *)
EXTENDS ResumeLink

MCPeer == {Browser, Daemon}

=============================================================================
