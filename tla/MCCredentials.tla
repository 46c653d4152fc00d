----------------------------- MODULE MCCredentials -----------------------------
(* A thread sets credentials while a service and a download use them.  (For *)
(* any number of threads see CredentialsProofs.)                            *)
EXTENDS Credentials
================================================================================
