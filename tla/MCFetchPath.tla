----------------------------- MODULE MCFetchPath -----------------------------
(* One instruction of three accesses a CSR.                        *)
EXTENDS FetchPath

MCCsr(p) == p = 2
=============================================================================
