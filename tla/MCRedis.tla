---------------------------- MODULE MCRedis ----------------------------
(* The instance of RedisThreadStore that TLC checks. *)
EXTENDS RedisThreadStore, MCThreadInstance
=============================================================================
