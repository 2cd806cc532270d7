------------------------------ MODULE MCRedisWQ ------------------------------
(***************************************************************************)
(* Instances of RedisWQ for TLC.                                           *)
(***************************************************************************)
EXTENDS RedisWQ

CONSTANTS apple, banana, cherry, w1, w2

Fill2 == <<apple, banana>>
Fill3 == <<apple, banana, cherry>>
=============================================================================
