------------------------------ MODULE MCLocks ------------------------------
(***************************************************************************)
(* The miner, one connection with every message, a second one with what    *)
(* takes two locks, and one thread that stands for the main thread and     *)
(* those of the RPC server, whose handlers take locks in the same ways.    *)
(***************************************************************************)
EXTENDS Locks, TLC

OneOfEach ==
    "conn" :> {"register", "version", "verack", "request", "payload", "getAddr", "addr",
               "afterRead", "end"}
    @@ "dial" :> {"dial", "dialFails", "version", "end"}
    @@ "main" :> {"loadMempool", "status", "rpc", "rpcPeers", "listen"}
    @@ "miner" :> {"minerWait", "mine"}
MCThread == DOMAIN OneOfEach
=============================================================================
