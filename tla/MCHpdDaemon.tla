---------------------------- MODULE MCHpdDaemon -----------------------------
(***************************************************************************)
(* An instance of the daemon's life for TLC: the keys of hpd.cfg.          *)
(***************************************************************************)
EXTENDS HpdDaemon

MCKeys == <<"root_ca_file_path", "server_key_file_path",
            "server_certificate_file_path", "https_port", "http_port",
            "max_log_size", "log_level">>

MCPorts == {-1, 8080}
=============================================================================
