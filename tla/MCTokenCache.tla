------------------------------ MODULE MCTokenCache ------------------------------
(***************************************************************************)
(* Instances of TokenCache for TLC.                                        *)
(***************************************************************************)
EXTENDS TokenCache

CONSTANTS tickets, wiki, search

(* The grant of the client secret declares no lifetime.                     *)
ShortLifetimes == [s \in Server |-> IF s = search THEN 0 ELSE 1]
Lifetimes == [s \in Server |-> 5]

(* test_pool_mcp_staging.py, and config-yaml.rst in other words: a set with *)
(* an OAuth server is staged afresh for every attempt, so that none of them *)
(* runs on a token already spent.                                           *)
NoneStartsSpent ==
    [][\A p \in Proc :
          pc[p] = "staged" /\ pc'[p] = "invoking" /\ held[p].lapses =>
              now < held[p].expires]_vars
=============================================================================
